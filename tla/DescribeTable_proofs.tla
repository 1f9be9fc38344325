------------------------- MODULE DescribeTable_proofs -------------------------
(***************************************************************************)
(* Proofs about DescribeTable, for any set of callers and any limit.  What *)
(* the probe guarantees comes from PartitionProbe_proofs: the handlers use *)
(* it as PartitionProbe has it, and this is the first theorem.             *)
(***************************************************************************)
EXTENDS DescribeTable, TLAPS

P == INSTANCE PartitionProbe_proofs

Asking == {"list", "detect", "redetect"}
Asked  == {"resolve", "listing", "partitions"}
AtRest == {"idle"} \cup Ended

-----------------------------------------------------------------------------
(* The two handlers use the probe the way detectPartitionSupport allows:   *)
(* every step of a call is one of its steps or none, so that whatever      *)
(* holds of the probe by itself holds under them.                          *)
THEOREM UsesProbe == Spec => P!Spec
<1>1. Init => P!Init
  BY DEF Init, Probe!Init, P!Init
<1>2. [Next]_vars => [P!Next]_(P!vars)
  <2> SUFFICES ASSUME [Next]_vars PROVE P!Next \/ UNCHANGED probeVars
    BY DEF probeVars, P!vars
  <2>1. ASSUME NEW c \in Caller, Call(c) PROVE P!Next \/ UNCHANGED probeVars
    BY <2>1 DEF Call, Probe!Renew, P!Renew, P!Step, P!Next
  <2>2. ASSUME NEW c \in Caller, Cancel(c) PROVE P!Next
    BY <2>2 DEF Cancel, Probe!Expire, P!Expire, P!Step, P!Next
  <2>3. ASSUME NEW c \in Caller, Detect(c) PROVE P!Next
    <3>1. \/ Probe!Enter(c) \/ Probe!Resolve(c) \/ Probe!ProbeFails(c)
          \/ Probe!Woken(c) \/ Probe!StopWaiting(c)
      BY <2>3 DEF Detect
    <3>2. \/ P!Enter(c) \/ P!Resolve(c) \/ P!ProbeFails(c)
          \/ P!Woken(c) \/ P!StopWaiting(c)
      BY <3>1 DEF Probe!Enter, Probe!Resolve, Probe!ProbeFails, Probe!Woken, Probe!StopWaiting,
                  Probe!Leave, Probe!Wake, Probe!Says,
                  P!Enter, P!Resolve, P!ProbeFails, P!Woken, P!StopWaiting,
                  P!Leave, P!Wake, P!Says
    <3>3. QED
      BY <3>2 DEF P!Step, P!Next
  <2>4. ASSUME NEW c \in Caller,
               ResolveTable(c) \/ Section(c) \/ ListPartitions(c) \/ ListTables(c) \/ CountTables(c)
        PROVE  UNCHANGED probeVars
    BY <2>4 DEF ResolveTable, Section, ListPartitions, ListTables, CountTables
  <2>5. CASE Drop \/ UNCHANGED vars
    BY <2>5 DEF Drop, vars
  <2>6. QED
    BY <2>1, <2>2, <2>3, <2>4, <2>5 DEF Next, Handler
<1>3. QED
  BY <1>1, <1>2, PTL DEF Spec, P!Spec

-----------------------------------------------------------------------------
(* The numbers of a listing.                                               *)
LEMMA MinOfTwo ==
    ASSUME NEW a \in Int, NEW b \in Int
    PROVE  Min({a, b}) = IF a <= b THEN a ELSE b
<1> DEFINE small == IF a <= b THEN a ELSE b
<1>1. small \in {a, b} /\ \A y \in {a, b} : small <= y
  OBVIOUS
<1>2. \A x \in {a, b} : (\A y \in {a, b} : x <= y) => x = small
  OBVIOUS
<1>3. QED
  BY <1>1, <1>2 DEF Min

(* What a query finds, and what ListTables makes of it.                    *)
LEMMA ListedNumbers ==
    ASSUME others \in Limit - 1 .. Limit
    PROVE  /\ Found \in 0 .. Limit + 1
           /\ Found = others + 1 \/ (dropped /\ Found = others)
           /\ ListedRows = Found
           /\ ListedRows > Limit => Min({ListedRows, Limit}) = Limit /\ Limit < others + 1
           /\ ~(ListedRows > Limit) => Min({ListedRows, Limit}) = Found
           /\ Min({ListedRows, Limit}) \in 0 .. Limit
<1>1. Limit \in Nat \ {0} /\ others \in Nat /\ others <= Limit /\ Limit - 1 <= others
  BY LimitPositive
<1>2. Found \in 0 .. Limit + 1 /\ (Found = others + 1 \/ (dropped /\ Found = others))
  BY <1>1 DEF Found
<1>3. ListedRows = Found
  BY <1>1, <1>2, MinOfTwo DEF ListedRows
<1>4. Min({Found, Limit}) = IF Found <= Limit THEN Found ELSE Limit
  BY <1>1, <1>2, MinOfTwo
<1>5. QED
  BY <1>1, <1>2, <1>3, <1>4

-----------------------------------------------------------------------------
(* The invariant.                                                          *)

Listing == [count : 0 .. Limit, truncated : BOOLEAN, total : SUBSET (0 .. Limit + 1)]

TableTypes ==
    /\ others \in Limit - 1 .. Limit
    /\ object \in {"table", "partitioned table", "view"}
    /\ dropped \in BOOLEAN
    /\ stage \in [Caller -> Stages]
    /\ kind \in [Caller -> {"none", "table", "partitioned table", "view"}]
    /\ partitions \in [Caller -> {"absent", "listed", "error"}]
    /\ listing \in [Caller -> Listing]

(* A call is in the probe only at the three places that use it, and leaves *)
(* it with an answer, which it keeps until it asks again; the catalog of   *)
(* partitions is asked only when that was yes.                             *)
PlaceOf(c) ==
    /\ at[c] # "out" => stage[c] \in Asking
    /\ stage[c] \in Asked => answer[c] \in {"yes", "no"}
    /\ stage[c] = "partitions" => answer[c] = "yes"

(* The kind and the partitions of an answer, wrong only for a cause that   *)
(* the call still has.                                                     *)
Excused(c) == failed[c] \/ ctx[c] = "done"

KindOf(c) ==
    /\ kind[c] = "partitioned table" => object = "partitioned table"
    /\ stage[c] \in Sections \cup {"count", "listed"} /\ kind[c] \notin {"none", object} => Excused(c)

PartitionsOf(c) ==
    stage[c] = "done" /\ partitions[c] = "absent" /\ supported /\ object = "partitioned table" =>
        dropped \/ Excused(c)

(* A listing that still has to be counted is truncated.                    *)
Numbers == {others + 1} \cup (IF dropped THEN {others} ELSE {})

Cut(c) == listing[c].truncated /\ listing[c].count = Limit /\ Limit < others + 1

ListingOf(c) ==
    /\ stage[c] = "count" => Cut(c) /\ listing[c].total = {}
    /\ stage[c] = "listed" =>
          \/ Cut(c) /\ listing[c].total \subseteq Numbers
          \/ ~listing[c].truncated /\ listing[c].count \in Numbers /\ listing[c].total = {}

CallInv(c) == PlaceOf(c) /\ KindOf(c) /\ PartitionsOf(c) /\ ListingOf(c)

ProbeInv == P!TypeOK /\ P!AnswerExplained

IInv == TableTypes /\ \A c \in Caller : CallInv(c)

(* The probe's own invariant, carried over.                                *)
LEMMA ProbeKept == Spec => []ProbeInv
<1>1. P!IInv => ProbeInv
  BY DEF P!IInv, ProbeInv
<1>2. QED
  BY <1>1, UsesProbe, P!Invariance, PTL

(* The listings there are.                                                 *)
LEMMA ListingType ==
    ASSUME NEW n \in 0 .. Limit, NEW b \in BOOLEAN, NEW t \in SUBSET (0 .. Limit + 1)
    PROVE  [count |-> n, truncated |-> b, total |-> t] \in Listing
BY Zenon DEF Listing

LEMMA NothingListed == NoListing \in Listing
<1>1. 0 \in 0 .. Limit
  BY LimitPositive
<1>2. QED
  BY <1>1, ListingType DEF NoListing

LEMMA InitInv == Init => IInv
<1> SUFFICES ASSUME Init PROVE IInv
  OBVIOUS
<1> USE DEF Init, Probe!Init
<1>1. NoListing \in Listing
  BY NothingListed
<1>2. TableTypes
  BY <1>1, LimitPositive DEF TableTypes, Stages
<1>3. ASSUME NEW c \in Caller PROVE CallInv(c)
  BY <1>3 DEF CallInv, PlaceOf, KindOf, PartitionsOf, ListingOf, Asked, Sections
<1>4. QED
  BY <1>2, <1>3 DEF IInv

(* What each step of the probe does to the variables of one caller.        *)
LEMMA DetectStep ==
    ASSUME ProbeInv, NEW c \in Caller, Detect(c)
    PROVE  /\ at'[c] = "out" => answer'[c] \in {"yes", "no"} /\ Goto(c, AfterDetect(c))
           /\ at'[c] # "out" => UNCHANGED stage
           /\ \A d \in Caller \ {c} :
                 /\ answer'[d] = answer[d]
                 /\ at[d] = "out" => at'[d] = "out" /\ failed'[d] = failed[d]
                 /\ at'[d] # "out" => at[d] # "out"
           /\ UNCHANGED <<supported, ctx>>
           /\ UNCHANGED <<database, kind, partitions, listing>>
           /\ stage[c] \in Asking
<1> USE DEF ProbeInv, P!TypeOK
<1>1. /\ stage[c] \in Asking
      /\ UNCHANGED <<database, kind, partitions, listing>>
      /\ at'[c] = "out" => Goto(c, AfterDetect(c))
      /\ at'[c] # "out" => UNCHANGED stage
  BY DEF Detect, Asking
<1>2. CASE Probe!Enter(c)
  BY <1>1, <1>2 DEF Probe!Enter, Probe!Leave, Probe!Says
<1>3. CASE Probe!Resolve(c)
  BY <1>1, <1>3 DEF Probe!Resolve, Probe!Wake, Probe!Says
<1>4. CASE Probe!ProbeFails(c)
  BY <1>1, <1>4 DEF Probe!ProbeFails, Probe!Wake
<1>5. CASE Probe!Woken(c)
  BY <1>1, <1>5 DEF Probe!Woken, Probe!Leave, Probe!Says
<1>6. CASE Probe!StopWaiting(c)
  BY <1>1, <1>6 DEF Probe!StopWaiting, Probe!Leave, Probe!Says
<1>7. QED
  BY <1>2, <1>3, <1>4, <1>5, <1>6 DEF Detect

(* A step that leaves a call where it is, and its answer as it is.         *)
LEMMA Undisturbed ==
    ASSUME NEW d \in Caller, CallInv(d),
           UNCHANGED <<supported, others, object>>, dropped => dropped',
           stage'[d] = stage[d], answer'[d] = answer[d], kind'[d] = kind[d],
           partitions'[d] = partitions[d], listing'[d] = listing[d],
           at[d] = "out" => at'[d] = "out" /\ failed'[d] = failed[d],
           at'[d] # "out" => at[d] # "out",
           ctx[d] = "done" => ctx'[d] = "done"
    PROVE  CallInv(d)'
<1>1. PlaceOf(d)'
  BY DEF CallInv, PlaceOf
<1>2. stage[d] \notin Asking => (Excused(d) => Excused(d)')
  BY DEF CallInv, PlaceOf, Excused
<1>3. KindOf(d)' /\ PartitionsOf(d)'
  BY <1>2 DEF CallInv, KindOf, PartitionsOf, Asking, Sections
<1>4. ListingOf(d)'
  BY DEF CallInv, ListingOf, Cut, Numbers
<1>5. QED
  BY <1>1, <1>3, <1>4 DEF CallInv

(* The listing ListTables leaves, by the number of rows it got.            *)
Listed == [NoListing EXCEPT !.count = Min({ListedRows, Limit}), !.truncated = ListedRows > Limit]

LEMMA ListedShape ==
    ASSUME others \in Limit - 1 .. Limit
    PROVE  /\ Listed \in Listing /\ Listed.total = {}
           /\ ListedRows > Limit => Listed.truncated /\ Listed.count = Limit /\ Limit < others + 1
           /\ ~(ListedRows > Limit) => ~Listed.truncated /\ Listed.count \in Numbers
<1> DEFINE n == Min({ListedRows, Limit})
<1>1. /\ n \in 0 .. Limit
      /\ ListedRows > Limit => n = Limit /\ Limit < others + 1
      /\ ~(ListedRows > Limit) => n \in Numbers
  BY ListedNumbers DEF Numbers
<1>2. NoListing \in Listing /\ NoListing.total = {}
  BY NothingListed DEF NoListing
<1> HIDE DEF n
<1>3. CASE ListedRows > Limit
  <2>1. Listed = [NoListing EXCEPT !.count = n, !.truncated = TRUE]
    BY <1>3 DEF Listed, n
  <2>2. QED
    BY <1>1, <1>2, <1>3, <2>1 DEF Listing
<1>4. CASE ~(ListedRows > Limit)
  <2>1. (ListedRows > Limit) = FALSE
    BY <1>4
  <2>2. Listed = [NoListing EXCEPT !.count = n, !.truncated = FALSE]
    BY Zenon, <2>1 DEF Listed, n
  <2>3. QED
    BY <1>1, <1>2, <1>4, <2>2 DEF Listing
<1>5. QED
  BY <1>3, <1>4

(* What a call leaves alone of another.                                    *)
Elsewhere(c) ==
    \A d \in Caller \ {c} :
        /\ stage'[d] = stage[d] /\ answer'[d] = answer[d] /\ kind'[d] = kind[d]
        /\ partitions'[d] = partitions[d] /\ listing'[d] = listing[d]
        /\ at[d] = "out" => at'[d] = "out" /\ failed'[d] = failed[d]
        /\ at'[d] # "out" => at[d] # "out"
        /\ ctx'[d] = ctx[d]

(* A step of a handler keeps the invariant of the others.                  *)
LEMMA OthersKept ==
    ASSUME IInv, NEW c \in Caller, Elsewhere(c), UNCHANGED <<supported, database>>, CallInv(c)'
    PROVE  \A d \in Caller : CallInv(d)'
<1> SUFFICES ASSUME NEW d \in Caller \ {c} PROVE CallInv(d)'
  OBVIOUS
<1>1. QED
  BY Undisturbed DEF IInv, Elsewhere, database

LEMMA NextInv == IInv /\ ProbeInv /\ ProbeInv' /\ [Next]_vars => IInv'
<1> SUFFICES ASSUME IInv, ProbeInv, ProbeInv', [Next]_vars PROVE IInv'
  OBVIOUS
<1> USE DEF IInv
<1>1. ASSUME NEW c \in Caller, Call(c) PROVE IInv'
  <2>1. /\ at[c] = "out" /\ UNCHANGED <<supported, at, failed, database>>
        /\ \A d \in Caller \ {c} : answer'[d] = answer[d] /\ ctx'[d] = ctx[d]
    BY <1>1 DEF Call, Probe!Renew, probeVars, CallInv, PlaceOf, Asking, AtRest, Ended, ProbeInv, P!TypeOK
  <2>2. TableTypes'
    BY <1>1, NothingListed DEF Call, Goto, TableTypes, Stages, database
  <2>3. Elsewhere(c)
    BY <1>1, <2>1 DEF Call, Goto, TableTypes, Elsewhere
  <2>4. CallInv(c)'
    BY <1>1, <2>1 DEF Call, Goto, TableTypes, CallInv, PlaceOf, KindOf, PartitionsOf, ListingOf,
                      Asked, Asking, Sections
  <2>5. QED
    BY <2>1, <2>2, <2>3, <2>4, OthersKept
<1>2. ASSUME NEW c \in Caller, Cancel(c) PROVE IInv'
  <2>1. /\ UNCHANGED <<supported, answer, at, failed, database, callVars>>
        /\ \A d \in Caller : ctx[d] = "done" => ctx'[d] = "done"
    BY <1>2 DEF Cancel, Probe!Expire, ProbeInv, P!TypeOK
  <2>2. QED
    BY <2>1, Undisturbed DEF TableTypes, database, callVars
<1>3. ASSUME NEW c \in Caller, Detect(c) PROVE IInv'
  <2>1. /\ at'[c] = "out" => answer'[c] \in {"yes", "no"} /\ Goto(c, AfterDetect(c))
        /\ at'[c] # "out" => UNCHANGED stage
        /\ UNCHANGED <<supported, ctx, database, kind, partitions, listing>>
        /\ stage[c] \in Asking
    BY <1>3, DetectStep
  <2>2. TableTypes'
    BY <2>1 DEF Goto, AfterDetect, TableTypes, Stages, Ended, database
  <2>3. Elsewhere(c)
    BY <1>3, <2>1, DetectStep DEF Goto, TableTypes, Elsewhere
  <2>4. CASE at'[c] # "out"
    <3>1. stage'[c] \in Asking
      BY <2>1, <2>4
    <3>2. CallInv(c)'
      BY <2>1, <3>1 DEF CallInv, PlaceOf, KindOf, PartitionsOf, ListingOf, Asked, Asking, Sections, database
    <3>3. QED
      BY <2>1, <2>2, <2>3, <3>2, OthersKept
  <2>5. CASE at'[c] = "out"
    <3>1. /\ answer'[c] \in {"yes", "no"}
          /\ stage'[c] = AfterDetect(c)
      BY <2>1, <2>5 DEF Goto, TableTypes
    <3>2. stage'[c] \in Asked \/ (stage'[c] = "done" /\ answer'[c] = "no")
      BY <2>1, <3>1 DEF AfterDetect, Asking, Asked
    <3>3. stage'[c] = "partitions" => answer'[c] = "yes"
      BY <2>1, <3>1 DEF AfterDetect, Asking
    <3>4. answer'[c] = "no" /\ supported' => Excused(c)'
      BY DEF ProbeInv, P!AnswerExplained, Excused
    <3>5. PlaceOf(c)'
      BY <2>5, <3>1, <3>3 DEF PlaceOf
    <3>6. KindOf(c)' /\ ListingOf(c)'
      BY <2>1, <3>2 DEF CallInv, KindOf, ListingOf, Asked, Sections, database
    <3>7. PartitionsOf(c)'
      BY <3>2, <3>4 DEF PartitionsOf, Asked
    <3>8. QED
      BY <2>1, <2>2, <2>3, <3>5, <3>6, <3>7, OthersKept DEF CallInv
  <2>6. QED
    BY <2>4, <2>5
(* The queries: nothing of the probe changes, and nothing of other calls.  *)
<1>4. ASSUME NEW c \in Caller, UNCHANGED <<probeVars, database>>,
             stage[c] \notin Asking, TableTypes', CallInv(c)',
             \A d \in Caller \ {c} : /\ stage'[d] = stage[d] /\ kind'[d] = kind[d]
                                     /\ partitions'[d] = partitions[d] /\ listing'[d] = listing[d]
      PROVE  IInv'
  <2>1. Elsewhere(c) /\ UNCHANGED supported
    BY <1>4 DEF Elsewhere, probeVars
  <2>2. QED
    BY <1>4, <2>1, OthersKept
<1>5. ASSUME NEW c \in Caller, stage[c] \in Asked, answer[c] = "no", MaySucceed(c), supported
      PROVE  failed[c]
  BY <1>5 DEF ProbeInv, P!AnswerExplained, MaySucceed
<1>6. ASSUME NEW c \in Caller, stage[c] \in Asked, MaySucceed(c)
      PROVE  /\ Kind(c) \in {"table", "partitioned table", "view"}
             /\ Kind(c) = "partitioned table" => object = "partitioned table"
             /\ Kind(c) # object => failed[c]
  <2>1. answer[c] \in {"yes", "no"}
    BY <1>6 DEF CallInv, PlaceOf
  <2>2. QED
    BY <1>5, <1>6, <2>1 DEF Kind, TableTypes
<1>7. ASSUME NEW c \in Caller, ResolveTable(c) PROVE IInv'
  <2>1. stage[c] = "resolve" /\ stage[c] \in Asked /\ stage[c] \notin Asking /\ at[c] = "out"
    BY <1>7 DEF ResolveTable, Asked, Asking, CallInv, PlaceOf
  <2>2. \/ MaySucceed(c) /\ kind' = [kind EXCEPT ![c] = Kind(c)] /\ Goto(c, "comment")
        \/ Goto(c, "refused") /\ UNCHANGED kind
    BY <1>7 DEF ResolveTable
  <2>3. UNCHANGED <<probeVars, database, partitions, listing>>
    BY <1>7 DEF ResolveTable
  <2>4. TableTypes'
    <3>1. kind' \in [Caller -> {"none", "table", "partitioned table", "view"}]
      BY <1>6, <2>1, <2>2 DEF TableTypes
    <3>2. stage' \in [Caller -> Stages]
      BY <2>2 DEF Goto, TableTypes, Stages, Sections, Ended
    <3>3. QED
      BY <2>3, <3>1, <3>2 DEF TableTypes, database
  <2>5. CallInv(c)'
    BY <1>6, <2>1, <2>2, <2>3 DEF Goto, TableTypes, CallInv, PlaceOf, KindOf, PartitionsOf, ListingOf,
                                  Excused, Asked, Asking, Sections, probeVars, database
  <2>6. QED
    BY <1>4, <2>1, <2>2, <2>3, <2>4, <2>5 DEF Goto, TableTypes
<1>8. ASSUME NEW c \in Caller, Section(c) PROVE IInv'
  <2>1. /\ stage[c] \in Sections /\ stage[c] \notin Asking /\ at[c] = "out"
        /\ stage' = [stage EXCEPT ![c] = Following(c)]
        /\ Following(c) \in Sections \cup {"redetect"}
    BY <1>8 DEF Section, Goto, Following, Sections, Asking, CallInv, PlaceOf
  <2>2. UNCHANGED <<probeVars, database, kind, partitions, listing>>
    BY <1>8 DEF Section
  <2>3. TableTypes'
    BY <2>1, <2>2 DEF TableTypes, Stages, database
  <2>4. CallInv(c)'
    BY <2>1, <2>2 DEF TableTypes, CallInv, PlaceOf, KindOf, PartitionsOf, ListingOf,
                      Excused, Asked, Sections, probeVars, database
  <2>5. QED
    BY <1>4, <2>1, <2>2, <2>3, <2>4 DEF TableTypes
<1>9. ASSUME NEW c \in Caller, ListPartitions(c) PROVE IInv'
  <2>1. /\ stage[c] = "partitions" /\ stage[c] \notin Asking /\ at[c] = "out"
        /\ stage' = [stage EXCEPT ![c] = "done"]
    BY <1>9 DEF ListPartitions, Goto, Asking, CallInv, PlaceOf
  <2>2. PICK v \in {"absent", "listed", "error"} :
            /\ partitions' = [partitions EXCEPT ![c] = v]
            /\ v = "absent" => object # "partitioned table" \/ dropped
    BY <1>9 DEF ListPartitions
  <2>3. UNCHANGED <<probeVars, database, kind, listing>>
    BY <1>9 DEF ListPartitions
  <2>4. TableTypes'
    BY <2>1, <2>2, <2>3 DEF TableTypes, Stages, Ended, database
  <2>5. CallInv(c)'
    BY <2>1, <2>2, <2>3 DEF TableTypes, CallInv, PlaceOf, KindOf, PartitionsOf, ListingOf,
                            Asked, Sections, probeVars, database
  <2>6. QED
    BY <1>4, <2>1, <2>2, <2>3, <2>4, <2>5 DEF TableTypes
<1>10. ASSUME NEW c \in Caller, ListTables(c) PROVE IInv'
  <2>1. stage[c] = "listing" /\ stage[c] \in Asked /\ stage[c] \notin Asking /\ at[c] = "out"
    BY <1>10 DEF ListTables, Asked, Asking, CallInv, PlaceOf
  <2>2. UNCHANGED <<probeVars, database, partitions>>
    BY <1>10 DEF ListTables
  <2>3. CASE Goto(c, "refused") /\ UNCHANGED <<kind, listing>>
    <3>1. TableTypes'
      BY <2>2, <2>3 DEF Goto, TableTypes, Stages, Ended, database
    <3>2. CallInv(c)'
      BY <2>1, <2>2, <2>3 DEF Goto, TableTypes, CallInv, PlaceOf, KindOf, PartitionsOf, ListingOf,
                              Asked, Sections, probeVars, database
    <3>3. QED
      BY <1>4, <2>1, <2>2, <2>3, <3>1, <3>2 DEF Goto, TableTypes
  <2>4. CASE /\ MaySucceed(c)
             /\ listing' = [listing EXCEPT ![c] = Listed]
             /\ kind' = [kind EXCEPT ![c] = IF dropped THEN "none" ELSE Kind(c)]
             /\ Goto(c, IF ListedRows > Limit THEN "count" ELSE "listed")
    <3>1. PICK l, k, s :
              /\ listing' = [listing EXCEPT ![c] = l] /\ l = Listed
              /\ kind' = [kind EXCEPT ![c] = k] /\ (k = "none" \/ k = Kind(c))
              /\ stage' = [stage EXCEPT ![c] = s]
              /\ ListedRows > Limit => s = "count"
              /\ ~(ListedRows > Limit) => s = "listed"
      BY <2>4 DEF Goto
    <3>2. /\ l \in Listing /\ l.total = {}
          /\ s = "count" => l.truncated /\ l.count = Limit /\ Limit < others + 1
          /\ s = "listed" => ~l.truncated /\ l.count \in Numbers
          /\ s \in {"count", "listed"}
      BY <3>1, ListedShape DEF TableTypes
    <3>3. TableTypes'
      <4>1. k \in {"none", "table", "partitioned table", "view"}
        BY <1>6, <2>1, <2>4, <3>1
      <4>2. s \in Stages
        BY <3>2 DEF Stages, Ended
      <4>3. QED
        BY <2>2, <3>1, <3>2, <4>1, <4>2 DEF TableTypes, database
    <3>4. PlaceOf(c)' /\ PartitionsOf(c)'
      BY <2>1, <2>2, <3>1, <3>2 DEF TableTypes, PlaceOf, PartitionsOf, Asked, probeVars
    <3>5. KindOf(c)'
      BY <1>6, <2>1, <2>2, <2>4, <3>1 DEF TableTypes, KindOf, Excused, probeVars, database
    <3>6. ListingOf(c)'
      BY <2>2, <3>1, <3>2 DEF TableTypes, ListingOf, Cut, Numbers, database
    <3>7. QED
      BY <1>4, <2>1, <2>2, <3>1, <3>3, <3>4, <3>5, <3>6 DEF TableTypes, CallInv
  <2>5. QED
    BY <1>10, <2>3, <2>4 DEF ListTables, Listed
<1>11. ASSUME NEW c \in Caller, CountTables(c) PROVE IInv'
  <2>1. /\ stage[c] = "count" /\ stage[c] \notin Asking /\ at[c] = "out"
        /\ stage' = [stage EXCEPT ![c] = "listed"]
    BY <1>11 DEF CountTables, Goto, Asking, CallInv, PlaceOf
  <2>2. UNCHANGED <<probeVars, database, kind, partitions>>
    BY <1>11 DEF CountTables
  <2>3. PICK l \in Listing :
            /\ listing' = [listing EXCEPT ![c] = l]
            /\ l.truncated = listing[c].truncated /\ l.count = listing[c].count
            /\ l.total \subseteq {Found} \cup listing[c].total
    <3>1. listing[c] \in Listing
      BY DEF TableTypes
    <3>2. CASE UNCHANGED listing
      <4>1. listing' = [listing EXCEPT ![c] = listing[c]]
        BY <3>2 DEF TableTypes
      <4>2. QED
        BY <3>1, <4>1
    <3>3. CASE listing' = [listing EXCEPT ![c].total = {Found}]
      <4>1. {Found} \in SUBSET (0 .. Limit + 1)
        BY ListedNumbers DEF TableTypes
      <4>2. [listing[c] EXCEPT !.total = {Found}] \in Listing
        BY <3>1, <4>1 DEF Listing
      <4>3. /\ [listing[c] EXCEPT !.total = {Found}].truncated = listing[c].truncated
            /\ [listing[c] EXCEPT !.total = {Found}].count = listing[c].count
            /\ [listing[c] EXCEPT !.total = {Found}].total = {Found}
        BY <3>1 DEF Listing
      <4>4. listing' = [listing EXCEPT ![c] = [listing[c] EXCEPT !.total = {Found}]]
        BY <3>3
      <4>5. QED
        BY <4>2, <4>3, <4>4
    <3>4. QED
      BY <1>11, <3>2, <3>3 DEF CountTables
  <2>4. TableTypes'
    BY <2>1, <2>2, <2>3 DEF TableTypes, Stages, Ended, database
  <2>5. Found \in Numbers
    BY ListedNumbers DEF TableTypes, Numbers
  <2>6. PlaceOf(c)' /\ PartitionsOf(c)' /\ KindOf(c)'
    BY <2>1, <2>2 DEF TableTypes, CallInv, PlaceOf, PartitionsOf, KindOf, Excused, Asked, probeVars, database
  <2>7. ListingOf(c)'
    BY <2>1, <2>2, <2>3, <2>5 DEF TableTypes, CallInv, ListingOf, Cut, Numbers, database
  <2>8. QED
    BY <1>4, <2>1, <2>2, <2>3, <2>4, <2>6, <2>7 DEF TableTypes, CallInv
<1>12. CASE Drop \/ UNCHANGED vars
  <2>1. /\ UNCHANGED <<probeVars, others, object, callVars>>
        /\ dropped => dropped'
        /\ dropped' \in BOOLEAN
    BY <1>12 DEF Drop, vars, database, TableTypes
  <2>2. TableTypes'
    BY <2>1 DEF TableTypes, callVars
  <2>3. QED
    BY <2>1, <2>2, Undisturbed DEF callVars, probeVars
<1>13. QED
  BY <1>1, <1>2, <1>3, <1>7, <1>8, <1>9, <1>10, <1>11, <1>12 DEF Next, Handler

LEMMA Invariance == Spec => [](IInv /\ ProbeInv)
BY InitInv, NextInv, ProbeKept, PTL DEF Spec

-----------------------------------------------------------------------------
(* The state is well typed: the stages of handleDescribeTable and          *)
(* handleListTables, what they have read, and the probe under them.        *)
THEOREM TypeCorrect == Spec => []TypeOK
<1>1. IInv /\ ProbeInv => TypeOK
  BY DEF IInv, TableTypes, Listing, ProbeInv, TypeOK, Probe!TypeOK, P!TypeOK
<1>2. QED
  BY <1>1, Invariance, PTL

(* ResolveTable, ListTables and ListPartitions ask pg_partition only of a  *)
(* server that has it: what detectPartitionSupport answered true is true.  *)
THEOREM CatalogsExist == Spec => []AsksWhatExists
<1>1. IInv /\ ProbeInv => AsksWhatExists
  BY DEF IInv, CallInv, PlaceOf, ProbeInv, P!AnswerExplained, AsksWhatExists
<1>2. QED
  BY <1>1, Invariance, PTL

(* A kind that ResolveTable gets wrong has a failed probe or a done        *)
(* context behind it: the answer of detectPartitionSupport is not made up. *)
THEOREM KindsExplained == Spec => []KindExplained
<1>1. IInv => KindExplained
  BY DEF IInv, CallInv, KindOf, Excused, KindExplained
<1>2. QED
  BY <1>1, Invariance, PTL

(* A partitions key that handleDescribeTable leaves out has one of those   *)
(* behind it too, if the table was not dropped meanwhile.                  *)
THEOREM AbsenceExplained == Spec => []PartitionsExplained
<1>1. IInv => PartitionsExplained
  BY DEF IInv, CallInv, PartitionsOf, Excused, PartitionsExplained
<1>2. QED
  BY <1>1, Invariance, PTL

(* A listing of ListTables says truly whether it is whole, for every limit *)
(* and any relations: a total it gives is one it counted or the length.    *)
THEOREM ListingsTrue == Spec => []ListingTold
<1>1. IInv => ListingTold
  BY DEF IInv, TableTypes, Listing, CallInv, ListingOf, Cut, Numbers, ListingTold
<1>2. QED
  BY <1>1, Invariance, PTL
=============================================================================
