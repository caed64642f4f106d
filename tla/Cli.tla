-------------------------------- MODULE Cli --------------------------------
(***************************************************************************)
(* The command line of prq (run, runMine's --repos, resolveTarget of       *)
(* cmd/prq/run.go; currentRepo and parseOriginURL of cmd/prq/main.go;      *)
(* ResolveCurrentPR of internal/fetch/fetch.go): which of its two modes    *)
(* runs, on which repositories or which pull request, or which usage       *)
(* error ends the invocation before any request is sent.                   *)
(*                                                                         *)
(* Strings are taken apart where the code takes them apart: a target is    *)
(* the words between its slashes and the word after its "#".               *)
(***************************************************************************)
EXTENDS Lists

CONSTANTS Commands,   \* command lines: sequences of arguments
          Places,     \* what git and gh say of the working directory
          HeadLists   \* the open pull requests of a branch, newest first

\* "7" stands for the numbers Atoi takes and that are positive, "0" for the
\* digits it refuses or that are not; "" is the empty word.
Words == {"o", "r", "x", "y", "pull", "HEAD", "7", "0", ""}
Digits == {"7", "0"}
IsNumber(word) == word = "7"

\* host: the text names github.com/ and parts is what follows it.
Target == [host : BOOLEAN, parts : Seq(Words), hash : BOOLEAN, after : Words]

\* An argument is a flag with its value, a positional one, "--", or a flag
\* the parser refuses; target is what it names where it is taken for one.  A
\* value of --repos is the list of its entries, each the sequence of its words.
ArgKinds == {"flag", "arg", "--", "help", "bad"}
FlagNames == {"repo", "mine", "repos", "limit", "retryBudget", "noRetry", "version"}

\* origin: the remote URL of git, with its host and the words of its path;
\* current: what go-gh makes of it, where it can.
NoRepo == [host |-> "", parts |-> <<>>]
Place == [current : [host : {"github.com", "ghes", ""}, parts : Seq(Words)],
          origin : [host : {"github.com", "github.com.work", "ghes", ""}, parts : Seq(Words)],
          branch : BOOLEAN]

\* One open pull request with a given head branch.
HeadPR == [cross : BOOLEAN, mine : BOOLEAN]

ASSUME CliAssumption ==
  /\ Places \subseteq Place
  /\ HeadLists \subseteq Seq(HeadPR)
  /\ \A c \in Commands :
       /\ c \in Seq({c[i] : i \in DOMAIN c})
       /\ \A i \in DOMAIN c : /\ c[i].kind \in ArgKinds /\ c[i].target \in Target
                              /\ c[i].kind = "flag" => c[i].name \in FlagNames

VARIABLES
  command,     \* the command line
  args,        \* the arguments not read yet
  place,       \* the working directory
  flags,       \* the flags read so far
  positionals, \* the positional arguments read so far
  verdict,     \* what run decides
  heads        \* the pull requests of the branch, once they are asked for

cliVars == <<command, args, place, flags, positionals, verdict, heads>>

Defaults == [repo |-> <<>>, mine |-> FALSE, repos |-> <<>>, limit |-> 30,
             retryBudget |-> 16, noRetry |-> FALSE, version |-> FALSE]

Usage == [kind |-> "usage", exit |-> 64]
Said(what) == [kind |-> "said", exit |-> 0, what |-> what]
Reading == [kind |-> "reading"]

CliInit ==
  /\ command \in Commands /\ args = command /\ place \in Places
  /\ flags = Defaults /\ positionals = <<>> /\ verdict = Reading /\ heads = <<>>

-----------------------------------------------------------------------------
(* The parsing loop: the flag package stops at the first positional        *)
(* argument, which is set aside, and starts again behind it.               *)

\* One call of fs.Parse goes through flags one after the other.
ReadFlag ==
  /\ verdict = Reading /\ args # <<>> /\ args[1].kind = "flag"
  /\ flags' = [flags EXCEPT ![args[1].name] = args[1].value]
  /\ args' = Tail(args)
  /\ UNCHANGED <<command, heads, place, positionals, verdict>>

ReadBadFlag ==
  /\ verdict = Reading /\ args # <<>> /\ args[1].kind \in {"bad", "help"}
  /\ verdict' = IF args[1].kind = "help" THEN Said("usage") ELSE Usage
  /\ UNCHANGED <<command, heads, args, place, flags, positionals>>

\* "--" ends one call of fs.Parse and with it the loop, or the argument that
\* follows is taken for positional.
ReadTerminator ==
  /\ verdict = Reading /\ args # <<>> /\ args[1].kind = "--"
  /\ IF Len(args) = 1 THEN positionals' = positionals /\ args' = <<>>
     ELSE positionals' = Append(positionals, args[2].target) /\ args' = SubSeq(args, 3, Len(args))
  /\ UNCHANGED <<command, heads, place, flags, verdict>>

\* A bug the runs tell apart: what follows a target is left unread.
ReadTargetAndStop ==
  /\ verdict = Reading /\ args # <<>> /\ args[1].kind = "arg"
  /\ positionals' = Append(positionals, args[1].target)
  /\ args' = <<>>
  /\ UNCHANGED <<command, heads, place, flags, verdict>>

ReadPositional ==
  /\ verdict = Reading /\ args # <<>> /\ args[1].kind = "arg"
  /\ positionals' = Append(positionals, args[1].target)
  /\ args' = Tail(args)
  /\ UNCHANGED <<command, heads, place, flags, verdict>>

-----------------------------------------------------------------------------
(* --mine. *)

Blank(entry) == entry = <<>>
HasSlash(entry) == Len(entry) > 1

\* A bug the runs tell apart: a list of nothing is no list.
MineUnscoped(repos, limit) ==
  LET named == Filtered(repos, {i \in DOMAIN repos : ~Blank(repos[i])})
  IN  IF \E i \in DOMAIN named : ~HasSlash(named[i]) THEN Usage
      ELSE [kind |-> "mine", repos |-> named, limit |-> limit]

\* reposFlag is the empty text exactly where the list of entries is <<>>.
Mine(repos, limit) ==
  LET named == Filtered(repos, {i \in DOMAIN repos : ~Blank(repos[i])})
  IN  IF \E i \in DOMAIN named : ~HasSlash(named[i]) THEN Usage
      ELSE IF repos # <<>> /\ named = <<>> THEN Usage
      ELSE [kind |-> "mine", repos |-> named, limit |-> limit]

-----------------------------------------------------------------------------
(* One target. *)

Single(repo, number, branch, ghes, budget) ==
  [kind |-> "single", repo |-> repo, number |-> number, branch |-> branch,
   ghes |-> ghes, budget |-> budget]

\* The words without the empty ones at either end, as strings.Trim leaves them.
Trim(parts) ==
  LET full == {i \in DOMAIN parts : parts[i] # ""}
      first == CHOOSE i \in full : \A j \in full : i <= j
      last == CHOOSE i \in full : \A j \in full : j <= i
  IN  IF full = {} THEN <<>> ELSE SubSeq(parts, first, last)

\* parsePRURL, on what follows github.com/ up to a "?" or a "#".
IsURL(t) == t.host
URLParts(t) == Trim(t.parts)
GoodURL(t) == LET p == URLParts(t)
              IN  Len(p) >= 4 /\ p[3] = "pull" /\ IsNumber(p[4])

IsSelector(t) ==
  /\ t.hash /\ Len(t.parts) = 2 /\ t.parts[1] # "" /\ t.parts[2] # ""
  /\ IsNumber(t.after)

\* strings.Cut at the first slash: what follows it is the name, slashes and all.
GoodRepo(parts) == Len(parts) >= 2 /\ parts[1] # "" /\ Tail(parts) # <<"">>

\* parseOriginURL takes the last two words of the path, for hosts that are or
\* alias github.com.
OriginRepo(origin) ==
  LET p == Trim(origin.parts)
  IN  IF /\ origin.host \in {"github.com", "github.com.work"}
         /\ Len(p) >= 2 /\ p[Len(p) - 1] # ""
      THEN [host |-> "github.com", parts |-> SubSeq(p, Len(p) - 1, Len(p))] ELSE NoRepo

CurrentRepo(where) ==
  IF where.current # NoRepo THEN where.current ELSE OriginRepo(where.origin)

\* A bug the runs tell apart: the host is that of the working directory, be
\* the repository another.
NamedHostHere(repo, where) ==
  IF repo # <<>> THEN [host |-> CurrentRepo(where).host, parts |-> repo]
  ELSE CurrentRepo(where)

\* -R, else the repository of the working directory.
Named(repo, where) ==
  IF repo # <<>> THEN [host |-> "", parts |-> repo] ELSE CurrentRepo(where)

UsableRepo(repo, where) ==
  IF repo # <<>> THEN GoodRepo(repo) ELSE CurrentRepo(where) # NoRepo

IsGHES(repo) == repo.host \notin {"", "github.com"}

NoTarget == [host |-> FALSE, parts |-> <<"">>, hash |-> FALSE, after |-> ""]

\* The branch of the working directory, whatever its name.
HereBranch == [host |-> FALSE, parts |-> <<"HEAD">>, hash |-> FALSE, after |-> ""]

\* resolveTarget.
Resolve(t, flag, where, budget) ==
  LET repo == Named(flag, where)
      digits == Len(t.parts) = 1 /\ ~t.hash /\ t.parts[1] \in Digits
  IN  IF t.host
      THEN IF GoodURL(t)
           THEN Single(SubSeq(URLParts(t), 1, 2), URLParts(t)[4], NoTarget, FALSE, budget)
           ELSE Usage
      ELSE IF IsSelector(t) THEN Single(t.parts, t.after, NoTarget, FALSE, budget)
      ELSE IF ~UsableRepo(flag, where) THEN Usage
      ELSE IF t = NoTarget
      THEN IF where.branch THEN Single(repo.parts, "", HereBranch, IsGHES(repo), budget)
           ELSE Usage
      ELSE IF digits
      THEN IF IsNumber(t.parts[1])
           THEN Single(repo.parts, t.parts[1], NoTarget, IsGHES(repo), budget) ELSE Usage
      ELSE Single(repo.parts, "", t, IsGHES(repo), budget)

-----------------------------------------------------------------------------
(* What run does once everything is read. *)

RunOf(f, given, where) ==
  LET budget == IF f.noRetry THEN 0 ELSE f.retryBudget
  IN  IF f.version THEN Said("version")
      ELSE IF f.mine \/ f.repos # <<>>
      THEN IF given # <<>> \/ f.limit \notin 1..100 THEN Usage ELSE Mine(f.repos, f.limit)
      ELSE IF Len(given) > 1 THEN Usage
      ELSE Resolve(IF given = <<>> THEN NoTarget ELSE given[1], f.repo, where, budget)

Dispatch ==
  /\ verdict = Reading /\ args = <<>>
  /\ verdict' = RunOf(flags, positionals, place)
  /\ UNCHANGED <<command, args, place, flags, positionals, heads>>

-----------------------------------------------------------------------------
(* ResolveCurrentPR, where a branch is all there is. *)

\* A bug the runs tell apart: the newest is the best.
PickNewest(list) == 1

\* A head in the repository itself, else the caller's own, else the newest.
Pick(list) ==
  LET here == {i \in DOMAIN list : ~list[i].cross}
      own == {i \in DOMAIN list : list[i].mine}
      best == IF here # {} THEN here ELSE IF own # {} THEN own ELSE DOMAIN list
  IN  CHOOSE i \in best : \A j \in best : i <= j

ResolveCurrentPR ==
  /\ verdict.kind = "single" /\ verdict.number = ""
  /\ \E list \in HeadLists :
       /\ heads' = list
       /\ verdict' = IF list = <<>> THEN [kind |-> "no_pr_found", exit |-> 4]
                     ELSE [kind |-> "picked", at |-> Pick(list)]
  /\ UNCHANGED <<command, args, place, flags, positionals>>

CliNext == \/ ReadFlag \/ ReadBadFlag \/ ReadTerminator \/ ReadPositional
           \/ Dispatch \/ ResolveCurrentPR

-----------------------------------------------------------------------------
(* Properties. *)

Decided == args = <<>> /\ verdict.kind \in {"usage", "single", "mine"}

\* A command line as its author means it: what each flag says last, and the
\* targets, wherever they stand.
LastOf(name) ==
  LET said == {i \in DOMAIN command : command[i].kind = "flag" /\ command[i].name = name}
  IN  IF said = {} THEN Defaults[name]
      ELSE command[CHOOSE i \in said : \A j \in said : j <= i].value

Meant == [name \in FlagNames |-> LastOf(name)]
TargetsMeant == Filtered(command, {i \in DOMAIN command : command[i].kind = "arg"})

Plainly == \A i \in DOMAIN command : command[i].kind \in {"flag", "arg"}

\* Flags and target are read in any order: each flag counts, before the
\* target and behind it, and of two the last (run's parsing loop).
ReadInAnyOrder ==
  Plainly /\ args = <<>> =>
    /\ flags = Meant
    /\ positionals = [k \in DOMAIN TargetsMeant |-> TargetsMeant[k].target]

\* A --repos that names no repository never becomes a poll of all of them,
\* nor of a single pull request (runMine).
ScopeNeverWidens ==
  Decided /\ flags.repos # <<>> /\ verdict # Usage =>
    /\ verdict.kind = "mine"
    /\ verdict.repos # <<>>
    /\ \A i \in DOMAIN verdict.repos : Len(verdict.repos[i]) > 1

\* Once the command line names a repository and a target, the directory prq
\* is run in has no say: not on the repository, the pull request, nor the ghes
\* token (resolveTarget).
DirectoryHasNoSay ==
  Decided /\ positionals # <<>> /\ positionals[1] # NoTarget
  /\ (flags.repo # <<>> \/ positionals[1].host \/ IsSelector(positionals[1])) =>
    \A p \in Places : RunOf(flags, positionals, p) = verdict

\* Pull requests of strangers' forks have no say on the pull request of a
\* branch, as long as one of another kind has it for its head: without them
\* the choice is the same (ResolveCurrentPR).
StrangersHaveNoSay ==
  verdict.kind = "picked" =>
    LET at == {i \in DOMAIN heads : ~heads[i].cross \/ heads[i].mine}
    IN  at # {} => verdict.at = InOrder(at)[Pick(Filtered(heads, at))]

=============================================================================
