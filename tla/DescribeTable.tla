---------------------------- MODULE DescribeTable ----------------------------
(***************************************************************************)
(* The tools describe_table and list_tables (handleDescribeTable and       *)
(* handleListTables, internal/tools/tools.go, with ResolveTable,           *)
(* ListPartitions and ListTables, internal/db/meta.go): chains of queries, *)
(* each a read-only transaction of its own (ReadOnlyTx), with one or two   *)
(* uses of the cached partition support (PartitionProbe), which other      *)
(* calls may be settling at the same time.                                 *)
(*                                                                         *)
(* One relation is looked at; the database has it and `others'.  Of an     *)
(* answer only what depends on the partition support or on the limit of a  *)
(* listing is kept: the kind of the relation, the partitions key, and how  *)
(* many relations were listed and counted.  The other sections             *)
(* (comment, columns, constraints, indexes, view_definition) report their  *)
(* own data or their own error and neither end the call nor touch anything *)
(* shared: they are steps of the call, without data.                       *)
(***************************************************************************)
EXTENDS Naturals, FiniteSetsExt

CONSTANTS
    Caller,
    Limit       \* how many relations list_tables returns at most, 5000

ASSUME LimitPositive == Limit \in Nat \ {0}

VARIABLES
    supported, resolved, mode, inFlight, at, ctx, answer, failed,
    others,     \* how many other relations there are
    object,     \* the relation asked for: how the server keeps it
    dropped,    \* whether somebody has dropped it
    stage,      \* the query a call is at
    kind,       \* the kind its answer states, "none" before that
    partitions, \* the partitions keys of its answer
    listing     \* the count, truncated and total_count of its answer

probeVars == <<supported, resolved, mode, inFlight, at, ctx, answer, failed>>
database  == <<others, object, dropped>>
callVars  == <<stage, kind, partitions, listing>>
vars      == <<probeVars, database, callVars>>

Probe == INSTANCE PartitionProbe

Sections == {"comment", "columns", "constraints", "indexes", "view_definition"}
Ended    == {"done", "listed", "refused"}
Stages   == {"idle", "detect", "resolve", "redetect", "partitions",
             "list", "listing", "count"} \cup Sections \cup Ended

(* total_count is a set: it is in the answer only of a truncated listing   *)
(* whose count succeeded.                                                  *)
NoListing == [count |-> 0, truncated |-> FALSE, total |-> {}]

TypeOK ==
    /\ Probe!TypeOK
    /\ others \in Limit - 1 .. Limit
    /\ object \in {"table", "partitioned table", "view"}
    /\ dropped \in BOOLEAN
    /\ stage \in [Caller -> Stages]
    /\ kind \in [Caller -> {"none", "table", "partitioned table", "view"}]
    /\ partitions \in [Caller -> {"absent", "listed", "error"}]
    /\ listing \in [Caller ->
          [count : 0 .. Limit, truncated : BOOLEAN, total : SUBSET (0 .. Limit + 1)]]

Init ==
    /\ Probe!Init
    /\ others \in Limit - 1 .. Limit
    /\ object \in {"table", "partitioned table", "view"}
    /\ dropped = FALSE
    /\ stage = [c \in Caller |-> "idle"]
    /\ kind = [c \in Caller |-> "none"]
    /\ partitions = [c \in Caller |-> "absent"]
    /\ listing = [c \in Caller |-> NoListing]

-----------------------------------------------------------------------------

Goto(c, s) == stage' = [stage EXCEPT ![c] = s]

(* A call of one of the tools, with a context of its own.                  *)
Call(c) ==
    /\ stage[c] \in {"idle"} \cup Ended
    /\ Goto(c, "detect") \/ Goto(c, "list")
    /\ kind' = [kind EXCEPT ![c] = "none"]
    /\ partitions' = [partitions EXCEPT ![c] = "absent"]
    /\ listing' = [listing EXCEPT ![c] = NoListing]
    /\ IF ctx[c] = "done" THEN Probe!Renew(c) ELSE UNCHANGED probeVars
    /\ UNCHANGED database

Cancel(c) ==
    /\ stage[c] \notin {"idle"} \cup Ended
    /\ Probe!Expire(c)
    /\ UNCHANGED <<database, callVars>>

(* A bug: the second time the catalog is asked whatever the answer is.     *)
AfterDetectBlind(c) ==
    CASE stage[c] = "list"   -> "listing"
      [] stage[c] = "detect" -> "resolve"
      [] OTHER               -> "partitions"

(* A bug: ListPartitions asks again until the answer is yes.               *)
AfterDetectRetry(c) ==
    CASE stage[c] = "list"   -> "listing"
      [] stage[c] = "detect" -> "resolve"
      [] OTHER               -> IF answer'[c] = "yes" THEN "partitions" ELSE "redetect"

(* With the answer of detectPartitionSupport: ListTables and ResolveTable  *)
(* build their query on it; ListPartitions returns nil, nil when it is no. *)
AfterDetect(c) ==
    CASE stage[c] = "list"   -> "listing"
      [] stage[c] = "detect" -> "resolve"
      [] OTHER               -> IF answer'[c] = "yes" THEN "partitions" ELSE "done"

(* One step of detectPartitionSupport; when it returns, the call goes on.  *)
Detect(c) ==
    /\ stage[c] \in {"list", "detect", "redetect"}
    /\ \/ Probe!Enter(c) \/ Probe!Resolve(c) \/ Probe!ProbeFails(c)
       \/ Probe!Woken(c) \/ Probe!StopWaiting(c)
    /\ IF at'[c] = "out" THEN Goto(c, AfterDetect(c)) ELSE UNCHANGED stage
    /\ UNCHANGED <<database, kind, partitions, listing>>

(* A bug: the kind is read from relkind alone.                             *)
KindBase(c) == IF object = "partitioned table" /\ supported THEN "table" ELSE object

(* relKindExpr: an openGauss server keeps a partitioned table as relkind   *)
(* 'r', told apart by parttype only; PostgreSQL has a relkind for it.      *)
Kind(c) ==
    IF object = "partitioned table" /\ supported /\ answer[c] # "yes" THEN "table" ELSE object

(* A query succeeds only if its context is live and what it names exists.  *)
MaySucceed(c) == ctx[c] = "live" /\ (answer[c] = "yes" => supported)

(* ResolveTable: an error or no row ends the call.                         *)
ResolveTable(c) ==
    /\ stage[c] = "resolve"
    /\ \/ /\ MaySucceed(c) /\ ~dropped
          /\ kind' = [kind EXCEPT ![c] = Kind(c)]
          /\ Goto(c, "comment")
       \/ /\ Goto(c, "refused")
          /\ UNCHANGED kind
    /\ UNCHANGED <<probeVars, database, partitions, listing>>

(* The sections every relation has, then the definition of a view.         *)
Following(c) ==
    CASE stage[c] = "comment"         -> "columns"
      [] stage[c] = "columns"         -> "constraints"
      [] stage[c] = "constraints"     -> "indexes"
      [] stage[c] = "indexes"         -> IF kind[c] = "view" THEN "view_definition" ELSE "redetect"
      [] stage[c] = "view_definition" -> "redetect"

Section(c) ==
    /\ stage[c] \in Sections
    /\ Goto(c, Following(c))
    /\ UNCHANGED <<probeVars, database, kind, partitions, listing>>

(* A bug: an error of the query leaves the key out, as an empty list does. *)
ListPartitionsSilent(c) ==
    /\ stage[c] = "partitions"
    /\ \/ /\ MaySucceed(c)
          /\ partitions' = [partitions EXCEPT ![c] =
                IF object = "partitioned table" /\ ~dropped THEN "listed" ELSE "absent"]
       \/ UNCHANGED partitions
    /\ Goto(c, "done")
    /\ UNCHANGED <<probeVars, database, kind, listing>>

(* ListPartitions: an empty list leaves the key out, an error has its own. *)
ListPartitions(c) ==
    /\ stage[c] = "partitions"
    /\ \/ /\ MaySucceed(c)
          /\ partitions' = [partitions EXCEPT ![c] =
                IF object = "partitioned table" /\ ~dropped THEN "listed" ELSE "absent"]
       \/ partitions' = [partitions EXCEPT ![c] = "error"]
    /\ Goto(c, "done")
    /\ UNCHANGED <<probeVars, database, kind, listing>>

(* The relations the conditions of ListTables find.                        *)
Found == others + (IF dropped THEN 0 ELSE 1)

(* A bug: LIMIT 5000, so a longer listing is not noticed.                  *)
ListedRowsAtLimit == Min({Found, Limit})

(* LIMIT 5001: one row more than is returned.                              *)
ListedRows == Min({Found, Limit + 1})

(* ListTables: the list, in one query; the relation is on its first page.  *)
ListTables(c) ==
    /\ stage[c] = "listing"
    /\ \/ /\ MaySucceed(c)
          /\ listing' = [listing EXCEPT ![c] =
                [NoListing EXCEPT !.count = Min({ListedRows, Limit}), !.truncated = ListedRows > Limit]]
          /\ kind' = [kind EXCEPT ![c] = IF dropped THEN "none" ELSE Kind(c)]
          /\ Goto(c, IF ListedRows > Limit THEN "count" ELSE "listed")
       \/ /\ Goto(c, "refused")
          /\ UNCHANGED <<kind, listing>>
    /\ UNCHANGED <<probeVars, database, partitions>>

(* Then, of a truncated list, the total; its error leaves the key out.     *)
CountTables(c) ==
    /\ stage[c] = "count"
    /\ \/ /\ ctx[c] = "live"
          /\ listing' = [listing EXCEPT ![c].total = {Found}]
       \/ UNCHANGED listing
    /\ Goto(c, "listed")
    /\ UNCHANGED <<probeVars, database, kind, partitions>>

(* Somebody drops the relation, between any two transactions.              *)
Drop ==
    /\ ~dropped
    /\ dropped' = TRUE
    /\ UNCHANGED <<probeVars, others, object, callVars>>

Handler(c) ==
    \/ Detect(c)
    \/ ResolveTable(c) \/ Section(c) \/ ListPartitions(c)
    \/ ListTables(c) \/ CountTables(c)

Next ==
    \/ \E c \in Caller : Call(c) \/ Cancel(c) \/ Handler(c)
    \/ Drop

Spec == Init /\ [][Next]_vars

(* A goroutine that can run does, and each query ends, with rows or an     *)
(* error.  A tool call is made, cancelled, a table dropped, or not.        *)
Fairness == \A c \in Caller : WF_vars(Handler(c))

FairSpec == Spec /\ Fairness

-----------------------------------------------------------------------------
(* Properties.                                                             *)

(* The catalogs of openGauss are asked only of a server that has them,     *)
(* whichever call settled the question and however its probe ended.        *)
AsksWhatExists ==
    \A c \in Caller :
        \/ stage[c] = "partitions"
        \/ stage[c] \in {"resolve", "listing"} /\ answer[c] = "yes"
        => supported

(* A partitioned table is called a plain table only in the answer of a     *)
(* call whose first probe, its own or the one it waited for, failed, or    *)
(* whose context was done; and nothing else is ever called partitioned.    *)
KindExplained ==
    \A c \in Caller :
        /\ kind[c] = "partitioned table" => object = "partitioned table"
        /\ stage[c] \in Sections \cup {"count", "listed"} /\ kind[c] \notin {"none", object} => ctx[c] = "done" \/ failed[c]

(* A finished answer about a partitioned table leaves its partitions out   *)
(* only if the table was dropped meanwhile, or the last probe failed or    *)
(* the context was done.                                                   *)
PartitionsExplained ==
    \A c \in Caller :
        /\ stage[c] = "done" /\ partitions[c] = "absent"
        /\ supported /\ object = "partitioned table"
        => dropped \/ failed[c] \/ ctx[c] = "done"

(* The comment of handleDescribeTable (tools.go:218-219): a section that   *)
(* fails has an error key, so that "no data" and "query failed" can be     *)
(* told apart in the answer.  Here: an answer without partitions and       *)
(* without partitions_error is about a relation that has none.             *)
PartitionsTold ==
    \A c \in Caller :
        /\ stage[c] = "done" /\ partitions[c] = "absent"
        /\ supported /\ ~dropped
        => object # "partitioned table"

(* What list_tables says of its own completeness (meta.go:126-140): a list *)
(* said to be whole holds every relation there was, a truncated one stops  *)
(* at the limit and something was left out; and the total, which another   *)
(* transaction counts, is the number there was before or after the drop.   *)
ListingTold ==
    \A c \in Caller :
        LET numbers == {others + 1} \cup (IF dropped THEN {others} ELSE {})
            l       == listing[c]
        IN  stage[c] = "listed" =>
                IF l.truncated THEN l.count = Limit /\ l.count < others + 1 /\ l.total \subseteq numbers
                ELSE l.count \in numbers /\ l.total = {}

(* Every call ends, whoever it had to wait for.                            *)
DescribeEnds == \A c \in Caller : stage[c] \in {"detect", "list"} ~> stage[c] \in Ended
=============================================================================
