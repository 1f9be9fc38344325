------------------------------ MODULE ResultSet ------------------------------
(***************************************************************************)
(* How a result becomes the answer of execute_select: the number of rows   *)
(* the call may return (SetDefaults, internal/config/config.go, and        *)
(* handleExecuteSelect, internal/tools/tools.go), the unique names of its  *)
(* columns (dedupColumns, internal/db/manager.go), its rows up to that     *)
(* number (collectRows, same file), and the values in them (NormalizeValue *)
(* and the encoding of the answer as JSON).                                *)
(*                                                                         *)
(* A column name is a stem and the numbers it ends in: "id" is id, <<>>,   *)
(* "id_2" is id, <<2>>.  A query may well name a column the way            *)
(* dedupColumns would.  A value is its kind and its parts: the elements of *)
(* a list or a map, or what the Value method of a driver.Valuer gives (no  *)
(* part: an error).  Kinds stand for Go types and ranges: "plain" for      *)
(* strings, booleans and integers, "late" for a time of a year outside of  *)
(* 0..9999, "nan" for the numbers JSON lacks, "raw" for bytes that are not *)
(* UTF-8, "other" for every type NormalizeValue does not name.             *)
(***************************************************************************)
EXTENDS Integers, Sequences

CONSTANTS
    Stem,         \* what names begin with
    Columns,      \* the lists of column names a query may have
    DefaultRows,  \* max_rows where the configuration has none
    Settings,     \* the values of max_rows and max_rows_cap, set or not
    Value,        \* the values of the driver, their parts, and what they become
    MaxTotal      \* bound: the rows of a result at the server

Name == [stem : Stem, numbers : Seq(Nat)]

ASSUME ResultAssumption ==
    /\ Columns \subseteq Seq(Name)
    /\ DefaultRows \in Nat \ {0}
    /\ Settings \subseteq Int
    /\ \A v \in Value : \A i \in DOMAIN v.parts : v.parts[i] \in Value
    /\ MaxTotal \in Nat

VARIABLES
    cols,       \* the names as the query has them
    out,        \* the names made unique so far
    number,     \* the number tried after the next column's name, 0 for none
    seen,       \* how often each name was tried
    asked,      \* max_rows of the call
    cap,        \* max_rows_cap of the server
    limit,      \* the rows the call may return
    total,      \* the rows the server has for it
    got,        \* the rows collected
    truncated,
    cell,       \* a value of its rows, as the driver has it
    state       \* "columns", "rows", "returned"; "answered", "failed"

colVars == <<cols, out, number, seen>>
rowVars == <<asked, cap, limit, total, got, truncated, cell>>
vars    == <<colVars, rowVars, state>>

-----------------------------------------------------------------------------
(* Row limits.                                                             *)

AtMost(n, top) == IF n > top THEN top ELSE n

(* SetDefaults: max_rows and max_rows_cap of the server, max_rows of the   *)
(* instance; a value that is not positive is not set.                      *)
ServerRows(rows, top) == LET set == IF rows <= 0 THEN DefaultRows ELSE rows
                         IN  IF top > 0 THEN AtMost(set, top) ELSE set
ServerCap(rows, top) == IF top > 0 THEN top ELSE ServerRows(rows, top)
InstanceRows(inst, rows, top) ==
    AtMost(IF inst <= 0 THEN ServerRows(rows, top) ELSE inst, ServerCap(rows, top))

(* A bug: the cap is applied before the call's own number replaces it.     *)
RowLimitUncapped(n, maxRows, top) == IF n <= 0 THEN AtMost(maxRows, top) ELSE n

(* handleExecuteSelect: the number of the call, or else of the instance.   *)
RowLimit(n, maxRows, top) == AtMost(IF n <= 0 THEN maxRows ELSE n, top)

-----------------------------------------------------------------------------
(* Values.                                                                 *)

Text == [kind |-> "plain", parts |-> <<>>]

(* A bug: a float is returned as it is.                                    *)
ScalarRaw(v) == IF v.kind \in {"bytes", "raw", "stringer", "other"} THEN Text ELSE v

(* What is not made of parts: numbers JSON lacks and bytes become text     *)
(* (normalizeFloat), and so does any other type; times stay times.         *)
Scalar(v) == IF v.kind \in {"nan", "bytes", "raw", "stringer", "other"} THEN Text ELSE v

NormalizeValue[v \in Value] ==
    CASE v.kind \in {"list", "map"} ->
            [v EXCEPT !.parts = [i \in DOMAIN v.parts |-> NormalizeValue[v.parts[i]]]]
      [] v.kind = "valuer" -> IF v.parts = <<>> THEN Text ELSE NormalizeValue[v.parts[1]]
      [] OTHER -> Scalar(v)

ASSUME ValuesNormalised == \A v \in Value : NormalizeValue[v] \in Value

(* encoding/json: a list or map fails if an element does.                  *)
Encodable[v \in Value] ==
    /\ v.kind \notin {"nan", "late"}
    /\ \A i \in DOMAIN v.parts : Encodable[v.parts[i]]

-----------------------------------------------------------------------------
(* fmt.Sprintf("%s_%d", c, n)                                              *)
Suffixed(c, n) == [c EXCEPT !.numbers = Append(@, n)]

Column == cols[Len(out) + 1]

Candidate == IF number = 0 THEN Column ELSE Suffixed(Column, number)

(* seen[name], which is 0 for a name not in the map.                       *)
Times(name) == IF name \in DOMAIN seen THEN seen[name] ELSE 0

Init ==
    /\ cols \in Columns
    /\ out = <<>>
    /\ number = 0
    /\ seen = <<>>
    /\ \E inst, rows, top \in Settings :
          /\ asked \in Settings
          /\ cap = ServerCap(rows, top)
          /\ limit = RowLimit(asked, InstanceRows(inst, rows, top), cap)
    /\ total \in 0 .. MaxTotal
    /\ got = 0
    /\ truncated = FALSE
    /\ cell \in Value
    /\ state = "columns"

(* A bug: a number is not tried again once it was found taken.             *)
TryNameOnce ==
    /\ state = "columns" /\ Len(out) < Len(cols)
    /\ LET n == Times(Candidate)
       IN  IF n = 0 \/ number > 0
             THEN out' = Append(out, Candidate) /\ number' = 0
             ELSE number' = n + 1 /\ UNCHANGED out
    /\ seen' = [x \in DOMAIN seen \cup {Candidate} |->
                  IF x = Candidate THEN Times(x) + 1 ELSE seen[x]]
    /\ UNCHANGED <<cols, rowVars, state>>

(* A bug: only a name that is used counts as seen.                         *)
TryNameCountsUsed ==
    /\ state = "columns" /\ Len(out) < Len(cols)
    /\ LET n == Times(Candidate)
       IN  IF n = 0
             THEN /\ out' = Append(out, Candidate) /\ number' = 0
                  /\ seen' = [x \in DOMAIN seen \cup {Candidate} |->
                                IF x = Candidate THEN 1 ELSE seen[x]]
             ELSE number' = n + 1 /\ UNCHANGED <<out, seen>>
    /\ UNCHANGED <<cols, rowVars, state>>

(* dedupColumns, one turn of the inner loop: a name never tried before is  *)
(* the column's; otherwise the column's own name with a number, taken from *)
(* the times this candidate was tried.                                     *)
TryName ==
    /\ state = "columns" /\ Len(out) < Len(cols)
    /\ LET n == Times(Candidate)
       IN  IF n = 0
             THEN out' = Append(out, Candidate) /\ number' = 0
             ELSE number' = n + 1 /\ UNCHANGED out
    /\ seen' = [x \in DOMAIN seen \cup {Candidate} |->
                  IF x = Candidate THEN Times(x) + 1 ELSE seen[x]]
    /\ UNCHANGED <<cols, rowVars, state>>

StartRows ==
    /\ state = "columns" /\ Len(out) = Len(cols)
    /\ state' = "rows"
    /\ UNCHANGED <<colVars, rowVars>>

(* A bug: a row is kept before the limit is looked at.                     *)
NextRowLate ==
    /\ state = "rows" /\ got < total
    /\ got' = got + 1
    /\ IF got >= limit
         THEN truncated' = TRUE /\ state' = "returned"
         ELSE UNCHANGED <<truncated, state>>
    /\ UNCHANGED <<colVars, asked, cap, limit, total, cell>>

(* collectRows: one row more than the limit is asked for, and not kept.    *)
NextRow ==
    /\ state = "rows" /\ got < total
    /\ IF got >= limit
         THEN truncated' = TRUE /\ state' = "returned" /\ UNCHANGED got
         ELSE got' = got + 1 /\ UNCHANGED <<truncated, state>>
    /\ UNCHANGED <<colVars, asked, cap, limit, total, cell>>

NoMoreRows ==
    /\ state = "rows" /\ got = total
    /\ state' = "returned"
    /\ UNCHANGED <<colVars, rowVars>>

(* A row that cannot be read or decoded.                                   *)
RowError ==
    /\ state = "rows"
    /\ state' = "failed"
    /\ UNCHANGED <<colVars, rowVars>>

(* The result of handleExecuteSelect is encoded; a value that cannot be    *)
(* fails the whole answer.                                                 *)
Answer ==
    /\ state = "returned"
    /\ state' = IF got > 0 /\ ~Encodable[NormalizeValue[cell]] THEN "unwritten" ELSE "answered"
    /\ UNCHANGED <<colVars, rowVars>>

Next == TryName \/ StartRows \/ NextRow \/ NoMoreRows \/ RowError \/ Answer

Spec == Init /\ [][Next]_vars

(* It is one sequential computation.                                       *)
FairSpec == Spec /\ WF_vars(Next)

-----------------------------------------------------------------------------
(* Properties.                                                             *)

TypeOK ==
    /\ cols \in Columns
    /\ out \in Seq(Name) /\ Len(out) <= Len(cols)
    /\ number \in Nat
    /\ \A x \in DOMAIN seen : x \in Name /\ seen[x] \in Nat \ {0}
    /\ asked \in Int /\ cap \in Nat /\ limit \in Nat
    /\ total \in Nat /\ got \in Nat
    /\ truncated \in BOOLEAN
    /\ cell \in Value
    /\ state \in {"columns", "rows", "returned", "answered", "failed", "unwritten"}

(* Rows are maps keyed by these names (issue #8): two columns of one name  *)
(* would overwrite each other, whatever names the query itself has.  The   *)
(* first column of a name keeps it unless a number given before made it    *)
(* another's; every other column gets its own name and a number.           *)
UniqueKeys ==
    /\ \A i, j \in 1 .. Len(out) : out[i] = out[j] => i = j
    /\ \A i \in 1 .. Len(out) :
          IF \A j \in 1 .. i - 1 : cols[i] \notin {cols[j], out[j]}
            THEN out[i] = cols[i]
            ELSE \E n \in 2 .. 2 * Len(cols) : out[i] = Suffixed(cols[i], n)

(* No setting and no argument of a call yields more rows than the cap, or  *)
(* none at all, and a number within the cap is honoured.                   *)
LimitRespected ==
    /\ limit \in 1 .. cap
    /\ got <= limit
    /\ asked \in 1 .. cap => limit = asked

(* A full result is not called truncated, nor a truncated one full, also   *)
(* at exactly the limit and one above it.                                  *)
TruncatedIff ==
    state \in {"returned", "answered"} =>
                          /\ got = AtMost(total, limit)
                          /\ truncated <=> total > limit

(* A time JSON has no form for, in a value or in what it is made of.       *)
HasLateTime[v \in Value] == v.kind = "late" \/ \E i \in DOMAIN v.parts : HasLateTime[v.parts[i]]

(* The search for an unused name ends, and every result that is read is    *)
(* answered, whatever its values are: only a date outside JSON's range of  *)
(* times, which NormalizeValue leaves as it is, fails the whole answer.    *)
AnswerComes ==
    <>(state \in {"answered", "failed"} \/ (state = "unwritten" /\ HasLateTime[cell]))
=============================================================================
