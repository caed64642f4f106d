------------------------------- MODULE Errors -------------------------------
(***************************************************************************)
(* What becomes of a failed request: which GraphQL errors prq lives with   *)
(* and what each of them degrades (PartialItems), the class of those it    *)
(* does not (Classify, both in internal/gh/client.go), and the exit code   *)
(* and error code of that class (emit, cmd/prq/run.go).                    *)
(***************************************************************************)
EXTENDS Integers, Sequences, FiniteSets

CONSTANTS Items,     \* the items GitHub may put in the errors of an answer
          MaxItems   \* bound: how many

\* The fields of optionalFields, the token of each, and any other field.
Token == [reviewThreads |-> "threads", statusCheckRollup |-> "checks",
          contexts |-> "checks", isRequired |-> "required",
          mergeQueueEntry |-> "merge_state", compare |-> "", baseRef |-> "",
          reviewRequests |-> ""]

\* A path is a sequence of fields and list indices; an index has field "".
PathStep == [field : DOMAIN Token \cup {"", "nodes", "search", "repository", "pullRequest"},
             index : Nat]

ErrorTypes == {"RATE_LIMITED", "FORBIDDEN", "NOT_FOUND", "UNPROCESSABLE", ""}

\* named: the message is the one isRequired fails with.
GraphQLItem == [type : ErrorTypes, path : Seq(PathStep), named : BOOLEAN]

ASSUME ErrorsAssumption == Items \subseteq GraphQLItem /\ MaxItems \in Nat

VARIABLE items   \* gqlErr.Errors, as they come

-----------------------------------------------------------------------------
(* PartialItems. *)

Optional(item) == {k \in DOMAIN item.path : item.path[k].field \in DOMAIN Token}
Indices(item) ==
  {k \in DOMAIN item.path : k > 1 /\ item.path[k].field = "" /\ item.path[k - 1].field = "nodes"}

Last(S) == CHOOSE k \in S : \A j \in S : j <= k

Matched(item) == Optional(item) # {} \/ item.named

\* The innermost optional field of the path decides, then the message.
TokenOf(item) ==
  IF Optional(item) # {} THEN Token[item.path[Last(Optional(item))].field] ELSE "required"

NodeOf(item) == IF Indices(item) = {} THEN -1 ELSE item.path[Last(Indices(item))].index

Tolerated(errs) == errs # <<>> /\ \A k \in DOMAIN errs : Matched(errs[k])

PartialItems(errs) ==
  IF ~Tolerated(errs) THEN {}
  ELSE {[token |-> TokenOf(errs[k]), node |-> NodeOf(errs[k])] : k \in DOMAIN errs}

Partial(errs) == {p.token : p \in PartialItems(errs)} \ {""}

-----------------------------------------------------------------------------
(* Classify. *)

Class(code, exit) == [code |-> code, exit |-> exit]

NotFound == Class("not_found_or_forbidden", 3)

Severe(item) == item.type \in {"RATE_LIMITED", "FORBIDDEN"}

\* A bug the runs tell apart: the last of them decides.
SevereFromTheEnd(errs) ==
  LET K == {k \in DOMAIN errs : Severe(errs[k])}
  IN  CHOOSE k \in K : \A j \in K : j <= k

FirstSevere(errs) ==
  LET K == {k \in DOMAIN errs : Severe(errs[k])}
  IN  CHOOSE k \in K : \A j \in K : k <= j

\* A bug the runs tell apart: the first item stands for all.
ClassifyByFirst(errs) ==
  CASE errs[1].type = "RATE_LIMITED" -> Class("rate_limited", 4)
    [] errs[1].type \in {"FORBIDDEN", "NOT_FOUND"} -> NotFound
    [] OTHER -> Class("schema", 4)

ClassifyGraphQL(errs) ==
  IF \E k \in DOMAIN errs : Severe(errs[k])
  THEN IF errs[FirstSevere(errs)].type = "RATE_LIMITED"
       THEN Class("rate_limited", 4) ELSE NotFound
  ELSE IF \A k \in DOMAIN errs : errs[k].type = "NOT_FOUND" THEN NotFound
  ELSE Class("schema", 4)

\* message: what the code looks for in the text of a 403.
ClassifyHTTP(status, message) ==
  CASE status = 401 -> Class("auth", 3)
    [] status = 403 /\ message = "saml" -> Class("saml_blocked", 3)
    [] status = 403 /\ message = "rate limit" -> Class("rate_limited", 4)
    [] status = 403 /\ message = "" -> Class("auth", 3)
    [] status = 404 -> NotFound
    [] OTHER -> Class("server_error", 4)

\* deadline: the error wraps context.DeadlineExceeded, whatever else it is.
Classify(err) ==
  CASE err.deadline -> Class("timeout", 4)
    [] ~err.deadline /\ err.kind = "http" -> ClassifyHTTP(err.status, err.message)
    [] ~err.deadline /\ err.kind = "graphql" /\ err.items # <<>> ->
         ClassifyGraphQL(err.items)
    [] ~err.deadline /\ err.kind = "net" ->
         Class(IF err.timeout THEN "timeout" ELSE "network", 4)
    [] OTHER -> Class("network", 4)

\* emit: an error that was not classified, such as a failed write, is one the
\* caller may retry.
Emit(err) ==
  CASE err.kind = "usage" -> Class("usage", 64)
    [] err.kind = "classified" -> err.class
    [] OTHER -> Class("network", 4)

\* What a caller of the two, do or Mine, makes of an answer with errors.
Outcome(errs) ==
  IF Tolerated(errs) THEN [kept |-> TRUE, tokens |-> Partial(errs)]
  ELSE [kept |-> FALSE,
        class |-> Emit([kind |-> "classified",
                        class |-> Classify([kind |-> "graphql", deadline |-> FALSE,
                                            items |-> errs])])]

-----------------------------------------------------------------------------
ErrorsInit == items = <<>>

AddItem == \E i \in Items : items' = Append(items, i)

ErrorsNext == Len(items) < MaxItems /\ AddItem

-----------------------------------------------------------------------------
(* Properties. *)

Kept(errs) == errs # <<>> /\ Outcome(errs).kept

\* The first rate limit or permission error met decides what the caller is
\* told to do, retry later or fix its access, whatever else follows it.
FirstSevereDecides ==
  [][(\E k \in DOMAIN items : Severe(items[k])) /\ ~Kept(items) =>
       Outcome(items').class = Outcome(items).class]_items

Reversed(errs) == [k \in DOMAIN errs |-> errs[Len(errs) + 1 - k]]

\* The order of the items matters only between a rate limit and a permission
\* error: all else, the tokens included, is the same backwards.
OrderMattersToSevereOnly ==
  {"RATE_LIMITED", "FORBIDDEN"} \subseteq {items[k].type : k \in DOMAIN items}
  \/ items = <<>>
  \/ Outcome(Reversed(items)) = Outcome(items)

=============================================================================
