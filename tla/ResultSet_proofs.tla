-------------------------- MODULE ResultSet_proofs --------------------------
(***************************************************************************)
(* Proofs about the answer of execute_select: its types, the number of its *)
(* rows and what truncated says of it, and the unique names of its columns *)
(* with the bound on the numbers dedupColumns tries after a name.          *)
(***************************************************************************)
EXTENDS ResultSet, FiniteSetTheorems, TLAPS

-----------------------------------------------------------------------------
(* Row limits.                                                             *)

LEMMA ServerLimits ==
    ASSUME NEW inst \in Int, NEW rows \in Int, NEW top \in Int
    PROVE  /\ ServerCap(rows, top) \in Nat \ {0}
           /\ InstanceRows(inst, rows, top) \in 1 .. ServerCap(rows, top)
BY ResultAssumption DEF ServerCap, ServerRows, InstanceRows, AtMost

LEMMA CallLimit ==
    ASSUME NEW n \in Int, NEW top \in Nat \ {0}, NEW maxRows \in 1 .. top
    PROVE  /\ RowLimit(n, maxRows, top) \in 1 .. top
           /\ n \in 1 .. top => RowLimit(n, maxRows, top) = n
BY DEF RowLimit, AtMost

LimitInv ==
    /\ asked \in Int /\ cap \in Nat \ {0} /\ limit \in 1 .. cap
    /\ asked \in 1 .. cap => limit = asked
    /\ total \in Nat /\ got \in 0 .. limit /\ got <= total
    /\ cell \in Value

(* A row that is not kept is what makes a result truncated, and nothing    *)
(* but that or the end of the rows makes it a result.                      *)
RowInv ==
    /\ truncated \in BOOLEAN
    /\ state \in {"columns", "rows", "returned", "answered", "failed", "unwritten"}
    /\ state \in {"columns", "rows"} => ~truncated
    /\ truncated => got = limit /\ total > limit
    /\ state \in {"returned", "answered"} => truncated \/ got = total

LEMMA InitRows == Init => LimitInv /\ RowInv
<1> SUFFICES ASSUME Init PROVE LimitInv /\ RowInv
  OBVIOUS
<1>1. PICK inst \in Settings, rows \in Settings, top \in Settings :
          /\ asked \in Settings
          /\ cap = ServerCap(rows, top)
          /\ limit = RowLimit(asked, InstanceRows(inst, rows, top), cap)
  BY DEF Init
<1>2. inst \in Int /\ rows \in Int /\ top \in Int /\ asked \in Int
  BY <1>1, ResultAssumption
<1>3. cap \in Nat \ {0} /\ limit \in 1 .. cap /\ (asked \in 1 .. cap => limit = asked)
  BY <1>1, <1>2, ServerLimits, CallLimit
<1>4. total \in Nat /\ got = 0 /\ cell \in Value
  BY ResultAssumption DEF Init
<1>5. LimitInv
  BY <1>2, <1>3, <1>4 DEF LimitInv
<1>6. RowInv
  BY DEF Init, RowInv
<1>7. QED
  BY <1>5, <1>6

LEMMA NextRows == LimitInv /\ RowInv /\ [Next]_vars => LimitInv' /\ RowInv'
<1> SUFFICES ASSUME LimitInv, RowInv, [Next]_vars PROVE LimitInv' /\ RowInv'
  OBVIOUS
<1>1. CASE TryName
  BY <1>1 DEF TryName, rowVars, LimitInv, RowInv
<1>2. CASE StartRows
  BY <1>2 DEF StartRows, rowVars, LimitInv, RowInv
<1>3. CASE NextRow
  <2>1. CASE got >= limit
    BY <1>3, <2>1 DEF NextRow, LimitInv, RowInv
  <2>2. CASE ~(got >= limit)
    <3>1. PICK g \in Nat : g = got' /\ g = got + 1
      BY <1>3, <2>2 DEF NextRow, LimitInv
    <3>2. g \in 0 .. limit /\ g <= total
      BY <1>3, <2>2, <3>1 DEF NextRow, LimitInv
    <3>3. LimitInv'
      BY <1>3, <3>1, <3>2 DEF NextRow, LimitInv
    <3>4. RowInv'
      BY <1>3, <2>2 DEF NextRow, RowInv
    <3>5. QED
      BY <3>3, <3>4
  <2>3. QED
    BY <2>1, <2>2
<1>4. CASE NoMoreRows
  BY <1>4 DEF NoMoreRows, rowVars, LimitInv, RowInv
<1>5. CASE RowError
  BY <1>5 DEF RowError, rowVars, LimitInv, RowInv
<1>6. CASE Answer
  BY <1>6 DEF Answer, rowVars, LimitInv, RowInv
<1>7. CASE UNCHANGED vars
  BY <1>7 DEF vars, rowVars, LimitInv, RowInv
<1>8. QED
  BY <1>1, <1>2, <1>3, <1>4, <1>5, <1>6, <1>7 DEF Next

(* What the rows and the limit are at every step of collectRows.           *)
THEOREM RowsInv == Spec => [](LimitInv /\ RowInv)
BY InitRows, NextRows, PTL DEF Spec

(* Whatever max_rows and max_rows_cap are set to, and whatever number the  *)
(* call has: SetDefaults and handleExecuteSelect leave a limit of at least *)
(* one row and at most the cap, and collectRows keeps no more rows.        *)
THEOREM LimitHolds == Spec => []LimitRespected
<1>1. LimitInv /\ RowInv => LimitRespected
  BY DEF LimitInv, LimitRespected
<1>2. QED
  BY <1>1, RowsInv, PTL

(* For a result of any length and any limit, truncated is set by           *)
(* collectRows exactly if the server had another row.                      *)
THEOREM TruncatedTrue == Spec => []TruncatedIff
<1>1. LimitInv /\ RowInv => TruncatedIff
  BY DEF LimitInv, RowInv, TruncatedIff, AtMost
<1>2. QED
  BY <1>1, RowsInv, PTL
-----------------------------------------------------------------------------
(* Unique names.                                                           *)

(* The columns whose search has begun, and those of them named x.          *)
Begun == IF number = 0 THEN Len(out) ELSE Len(out) + 1
Own(cs, k, x) == {j \in 1 .. k : cs[j] = x}

(* The names that s has been asked for at least m times.                   *)
Reached(s, m) == {y \in DOMAIN s : s[y] >= m}

LastOf(x) == x.numbers[Len(x.numbers)]

(* How often a name can have been tried: as the name of a column itself,   *)
(* and once for each name whose times have reached the number it ends in,  *)
(* because that happens to a name only once.                               *)
Due(cs, k, s, x) ==
    Cardinality(Own(cs, k, x)) + (IF x.numbers = <<>> THEN 0 ELSE Cardinality(Reached(s, LastOf(x))))

(* After n tries of c there is one more.                                   *)
Tried(s, t, c, n) ==
    /\ IsFiniteSet(DOMAIN s) /\ \A y \in DOMAIN s : s[y] \in Nat
    /\ n = (IF c \in DOMAIN s THEN s[c] ELSE 0)
    /\ DOMAIN t = DOMAIN s \cup {c} /\ t[c] = n + 1
    /\ \A y \in DOMAIN s \ {c} : t[y] = s[y]

(* How the tries that x can have had grow with it, k columns having begun  *)
(* before and l after.                                                     *)
Grows(cs, k, l, s, t, n, x) ==
    /\ Due(cs, k, s, x) \in Nat /\ Due(cs, l, t, x) \in Nat
    /\ Due(cs, k, s, x) <= k + Cardinality(DOMAIN s)
    /\ Due(cs, k, s, x) <= Due(cs, l, t, x)
    /\ l = k + 1 /\ cs[l] = x => Due(cs, k, s, x) + 1 <= Due(cs, l, t, x)
    /\ x.numbers # <<>> /\ LastOf(x) = n + 1 => Due(cs, k, s, x) + 1 <= Due(cs, l, t, x)

NameInv ==
    /\ cols \in Columns
    /\ out \in Seq(Name) /\ Len(out) <= Len(cols)
    /\ number \in Nat
    /\ number # 0 => /\ Len(out) < Len(cols) /\ number \in 2 .. 2 * Len(cols)
                     /\ Column \in DOMAIN seen

(* What was tried is what was given out, and a name is given out once.     *)
SeenFor(cs, o, s) ==
    /\ DOMAIN s = {o[i] : i \in 1 .. Len(o)}
    /\ IsFiniteSet(DOMAIN s) /\ Cardinality(DOMAIN s) = Len(o)
    /\ \A x \in DOMAIN s : s[x] \in Nat \ {0}
    /\ \A j \in 1 .. Len(o) : cs[j] \in DOMAIN s
    /\ \A i, j \in 1 .. Len(o) : o[i] = o[j] => i = j

SeenInv == SeenFor(cols, out, seen)

(* The number tried next has been earned: it is not yet among the tries.   *)
TimesInv ==
    /\ \A x \in Name : Times(x) <= Due(cols, Begun, seen, x)
    /\ number # 0 => Times(Suffixed(Column, number)) + 1 <= Due(cols, Begun, seen, Suffixed(Column, number))

GivenFor(cs, o, i) ==
    IF \A j \in 1 .. i - 1 : cs[i] \notin {cs[j], o[j]}
      THEN o[i] = cs[i]
      ELSE \E n \in 2 .. 2 * Len(cs) : o[i] = Suffixed(cs[i], n)

GivenInv == \A i \in 1 .. Len(out) : GivenFor(cols, out, i)

KeyInv == NameInv /\ SeenInv /\ TimesInv /\ GivenInv

LEMMA SuffixedName ==
    ASSUME NEW c \in Name, NEW n \in Nat
    PROVE  /\ Suffixed(c, n) \in Name /\ Suffixed(c, n).numbers # <<>>
           /\ LastOf(Suffixed(c, n)) = n /\ Suffixed(c, n) # c
<1>1. c \in [stem : Stem, numbers : Seq(Nat)] /\ c.numbers \in Seq(Nat)
  BY DEF Name
<1>2. PICK ns \in Seq(Nat) : ns = Append(c.numbers, n) /\ Len(ns) = Len(c.numbers) + 1 /\ ns[Len(ns)] = n
  <2>1. Append(c.numbers, n) \in Seq(Nat) /\ Len(Append(c.numbers, n)) = Len(c.numbers) + 1
    BY <1>1
  <2>2. Append(c.numbers, n)[Len(c.numbers) + 1] = n
    BY <1>1
  <2>3. QED
    BY <2>1, <2>2
<1>3. Suffixed(c, n) = [c EXCEPT !.numbers = ns]
  BY <1>2 DEF Suffixed
<1>4. Suffixed(c, n) \in [stem : Stem, numbers : Seq(Nat)] /\ Suffixed(c, n).numbers = ns
  BY <1>1, <1>3
<1>5. ns # <<>> /\ ns # c.numbers
  BY <1>1, <1>2
<1>6. LastOf(Suffixed(c, n)) = n
  BY <1>2, <1>4 DEF LastOf
<1>7. QED
  BY <1>4, <1>5, <1>6 DEF Name

LEMMA Appended ==
    ASSUME NEW o \in Seq(Name), NEW c \in Name
    PROVE  /\ Append(o, c) \in Seq(Name) /\ Len(Append(o, c)) = Len(o) + 1
           /\ Append(o, c)[Len(o) + 1] = c
           /\ \A i \in 1 .. Len(o) : Append(o, c)[i] = o[i]
OBVIOUS

LEMMA ReachedMore ==
    ASSUME NEW s, NEW t, NEW c, NEW n \in Nat, Tried(s, t, c, n), NEW m \in Nat
    PROVE  /\ Cardinality(Reached(s, m)) \in Nat /\ Cardinality(Reached(t, m)) \in Nat
           /\ Cardinality(Reached(s, m)) <= Cardinality(Reached(t, m))
           /\ m = n + 1 => Cardinality(Reached(t, m)) = Cardinality(Reached(s, m)) + 1
<1>1. Reached(s, m) \in SUBSET DOMAIN s
  BY DEF Reached, Tried
<1>2. IsFiniteSet(Reached(s, m)) /\ Cardinality(Reached(s, m)) \in Nat
  BY <1>1, FS_Subset, FS_CardinalityType DEF Tried
<1>3. Reached(t, m) = IF n + 1 >= m THEN Reached(s, m) \cup {c} ELSE Reached(s, m)
  <2>1. \A x \in DOMAIN t \ {c} : x \in Reached(t, m) <=> x \in Reached(s, m)
    BY DEF Reached, Tried
  <2>2. c \in Reached(t, m) <=> n + 1 >= m
    BY DEF Reached, Tried
  <2>3. c \in Reached(s, m) => n + 1 >= m
    BY DEF Reached, Tried
  <2>4. Reached(t, m) \subseteq DOMAIN t /\ Reached(s, m) \subseteq DOMAIN t
    BY DEF Reached, Tried
  <2>5. QED
    BY <2>1, <2>2, <2>3, <2>4
<1>4. m = n + 1 => c \notin Reached(s, m)
  BY DEF Reached, Tried
<1>5. /\ IsFiniteSet(Reached(s, m) \cup {c})
      /\ Cardinality(Reached(s, m) \cup {c})
            = IF c \in Reached(s, m) THEN Cardinality(Reached(s, m)) ELSE Cardinality(Reached(s, m)) + 1
  BY <1>2, FS_AddElement
<1>6. QED
  BY <1>2, <1>3, <1>4, <1>5

LEMMA OwnMore ==
    ASSUME NEW cs, NEW x, NEW k \in Nat
    PROVE  /\ Cardinality(Own(cs, k, x)) \in 0 .. k
           /\ Cardinality(Own(cs, k + 1, x)) \in Nat
           /\ Cardinality(Own(cs, k + 1, x))
                = IF cs[k + 1] = x THEN Cardinality(Own(cs, k, x)) + 1 ELSE Cardinality(Own(cs, k, x))
<1>1. Own(cs, k, x) \in SUBSET (1 .. k)
  BY DEF Own
<1>2. IsFiniteSet(1 .. k) /\ Cardinality(1 .. k) = k
  BY FS_Interval
<1>3. /\ IsFiniteSet(Own(cs, k, x)) /\ Cardinality(Own(cs, k, x)) \in Nat
      /\ Cardinality(Own(cs, k, x)) <= k
  BY <1>1, <1>2, FS_Subset, FS_CardinalityType
<1>4. k + 1 \notin Own(cs, k, x)
  BY DEF Own
<1>5. Own(cs, k + 1, x) = IF cs[k + 1] = x THEN Own(cs, k, x) \cup {k + 1} ELSE Own(cs, k, x)
  BY DEF Own
<1>6. Cardinality(Own(cs, k, x) \cup {k + 1}) = Cardinality(Own(cs, k, x)) + 1
  BY <1>3, <1>4, FS_AddElement
<1>7. QED
  BY <1>3, <1>5, <1>6
LEMMA DueMore ==
    ASSUME NEW cs, NEW k \in Nat, NEW l \in {k, k + 1}, NEW x \in Name,
           NEW s, NEW t, NEW c, NEW n \in Nat, Tried(s, t, c, n)
    PROVE  Grows(cs, k, l, s, t, n, x)
<1> DEFINE own == Cardinality(Own(cs, k, x))     ownMore == Cardinality(Own(cs, l, x))
<1>1. /\ own \in Nat /\ ownMore \in Nat /\ own <= k /\ own <= ownMore
      /\ l = k + 1 /\ cs[l] = x => ownMore = own + 1
  BY OwnMore
<1>2. PICK d \in Nat : d = Cardinality(DOMAIN s)
  BY FS_CardinalityType DEF Tried
<1> HIDE DEF own, ownMore
<1>3. CASE x.numbers = <<>>
  <2>1. Due(cs, k, s, x) = own /\ Due(cs, l, t, x) = ownMore
    BY <1>1, <1>3 DEF Due, own, ownMore
  <2>2. QED
    BY <1>1, <1>2, <1>3, <2>1 DEF Grows
<1>4. CASE x.numbers # <<>>
  <2> DEFINE r == Cardinality(Reached(s, LastOf(x)))     rMore == Cardinality(Reached(t, LastOf(x)))
  <2>1. LastOf(x) \in Nat
    BY <1>4 DEF LastOf, Name
  <2>2. /\ r \in Nat /\ rMore \in Nat /\ r <= rMore
        /\ LastOf(x) = n + 1 => rMore = r + 1
    BY <2>1, ReachedMore
  <2>3. r <= d
    <3>1. Reached(s, LastOf(x)) \in SUBSET DOMAIN s
      BY DEF Reached
    <3>2. QED
      BY <1>2, <3>1, FS_Subset DEF Tried
  <2> HIDE DEF r, rMore
  <2>4. Due(cs, k, s, x) = own + r /\ Due(cs, l, t, x) = ownMore + rMore
    BY <1>4 DEF Due, own, ownMore, r, rMore
  <2>5. QED
    BY <1>1, <1>2, <1>4, <2>2, <2>3, <2>4 DEF Grows
<1>5. QED
  BY <1>3, <1>4

LEMMA InitKeys == Init => KeyInv
<1> SUFFICES ASSUME Init PROVE KeyInv
  OBVIOUS
<1>1. cols \in Columns /\ cols \in Seq(Name) /\ out = <<>> /\ number = 0 /\ DOMAIN seen = {}
  BY ResultAssumption DEF Init
<1>2. NameInv
  BY <1>1 DEF NameInv
<1>3. SeenInv
  BY <1>1, FS_EmptySet DEF SeenInv, SeenFor
<1>4. TimesInv
  <2>1. \A x \in Name : Due(cols, 0, seen, x) \in Nat
    <3>1. \A x, m : Own(cols, 0, x) = {} /\ Reached(seen, m) = {}
      BY <1>1 DEF Own, Reached
    <3>2. Cardinality({}) = 0
      BY FS_EmptySet
    <3>3. ASSUME NEW x PROVE Due(cols, 0, seen, x) = 0
      <4>1. Cardinality(Own(cols, 0, x)) = 0 /\ Cardinality(Reached(seen, LastOf(x))) = 0
        BY <3>1, <3>2
      <4>2. QED
        BY <4>1 DEF Due
    <3>4. QED
      BY <3>3
  <2>2. Begun = 0 /\ \A x : Times(x) = 0
    BY <1>1 DEF Begun, Times
  <2>3. QED
    BY <1>1, <2>1, <2>2 DEF TimesInv
<1>5. GivenInv
  BY <1>1 DEF GivenInv
<1>6. QED
  BY <1>2, <1>3, <1>4, <1>5 DEF KeyInv

(* What one turn of the loop does.                                         *)
LEMMA Turn ==
    ASSUME KeyInv, TryName
    PROVE  /\ cols' = cols /\ cols \in Seq(Name) /\ Candidate \in Name /\ Column \in Name
           /\ Column = cols[Len(out) + 1] /\ Len(out) < Len(cols)
           /\ Times(Candidate) \in Nat
           /\ Times(Candidate) = 0 <=> Candidate \notin DOMAIN seen
           /\ Candidate \in DOMAIN seen => Times(Candidate) = seen[Candidate]
           /\ DOMAIN seen' = DOMAIN seen \cup {Candidate}
           /\ seen'[Candidate] = Times(Candidate) + 1
           /\ \A x \in DOMAIN seen \ {Candidate} : seen'[x] = seen[x]
           /\ Times(Candidate) = 0 => out' = Append(out, Candidate) /\ number' = 0
           /\ Times(Candidate) # 0 => out' = out /\ number' = Times(Candidate) + 1
<1>1. /\ cols' = cols /\ Len(out) < Len(cols) /\ cols \in Seq(Name) /\ out \in Seq(Name)
  BY ResultAssumption DEF KeyInv, NameInv, TryName
<1>2. Column = cols[Len(out) + 1] /\ Column \in Name
  BY <1>1 DEF Column
<1>3. Candidate \in Name
  BY <1>2, SuffixedName DEF Candidate, KeyInv, NameInv
<1>4. /\ Times(Candidate) \in Nat
      /\ Times(Candidate) = 0 <=> Candidate \notin DOMAIN seen
      /\ Candidate \in DOMAIN seen => Times(Candidate) = seen[Candidate]
  BY DEF Times, KeyInv, SeenInv, SeenFor
<1>5. /\ DOMAIN seen' = DOMAIN seen \cup {Candidate}
      /\ seen'[Candidate] = Times(Candidate) + 1
      /\ \A x \in DOMAIN seen \ {Candidate} : seen'[x] = seen[x]
  BY DEF TryName
<1>6. /\ Times(Candidate) = 0 => out' = Append(out, Candidate) /\ number' = 0
      /\ Times(Candidate) # 0 => out' = out /\ number' = Times(Candidate) + 1
  BY DEF TryName
<1>7. QED
  BY <1>1, <1>2, <1>3, <1>4, <1>5, <1>6
(* What one turn of the loop does to what can have been tried: k columns   *)
(* had begun, and l have.                                                  *)
LEMMA TurnDue ==
    ASSUME KeyInv, TryName
    PROVE  \E k, l, n \in Nat :
               /\ k = Begun /\ l = Begun' /\ n = Times(Candidate) /\ l \in {k, k + 1}
               /\ number = 0 => k = Len(out) /\ l = k + 1
               /\ number # 0 => k = Len(out) + 1 /\ l = k
               /\ \A x \in Name : Grows(cols, k, l, seen, seen', n, x)
<1>1. out \in Seq(Name) /\ Len(out) \in Nat /\ number \in Nat
  BY DEF KeyInv, NameInv
<1>2. PICK n \in Nat : n = Times(Candidate)
  BY Turn
<1>3. n = 0 => Len(out') = Len(out) + 1 /\ number' = 0
  BY <1>1, <1>2, Turn
<1>4. n # 0 => out' = out /\ number' = n + 1 /\ number' # 0
  BY <1>1, <1>2, Turn
<1>5. PICK k \in Nat : k = Begun /\ (number = 0 => k = Len(out)) /\ (number # 0 => k = Len(out) + 1)
  BY <1>1 DEF Begun
<1>6. PICK l \in Nat : l = Len(out) + 1 /\ l = Begun'
  BY <1>1, <1>3, <1>4 DEF Begun
<1>7. Tried(seen, seen', Candidate, n)
  <2>1. IsFiniteSet(DOMAIN seen) /\ \A y \in DOMAIN seen : seen[y] \in Nat
    BY DEF KeyInv, SeenInv, SeenFor
  <2>2. n = (IF Candidate \in DOMAIN seen THEN seen[Candidate] ELSE 0)
    BY <1>2, Turn
  <2>3. /\ DOMAIN seen' = DOMAIN seen \cup {Candidate} /\ seen'[Candidate] = n + 1
        /\ \A y \in DOMAIN seen \ {Candidate} : seen'[y] = seen[y]
    BY <1>2, Turn
  <2>4. QED
    BY <2>1, <2>2, <2>3, Zenon DEF Tried
<1>8. l \in {k, k + 1} /\ (number = 0 => l = k + 1) /\ (number # 0 => l = k)
  BY <1>1, <1>5, <1>6
<1>9. \A x \in Name : Grows(cols, k, l, seen, seen', n, x)
  BY <1>7, <1>8, DueMore
<1>10. QED
  BY <1>2, <1>5, <1>6, <1>8, <1>9

LEMMA TurnNames == ASSUME KeyInv, TryName PROVE NameInv'
<1>1. PICK k, l, n \in Nat :
          /\ k = Begun /\ n = Times(Candidate)
          /\ number = 0 => k = Len(out)
          /\ number # 0 => k = Len(out) + 1
          /\ \A x \in Name : Due(cols, k, seen, x) \in Nat /\ Due(cols, k, seen, x) <= k + Len(out)
  BY TurnDue DEF Grows, KeyInv, SeenInv, SeenFor
<1>2. /\ out \in Seq(Name) /\ Len(out) \in Nat /\ cols \in Seq(Name) /\ Len(cols) \in Nat
      /\ Len(out) < Len(cols)
  BY Turn DEF KeyInv, NameInv
<1>3. cols' \in Columns
  BY Turn DEF KeyInv, NameInv
<1>4. CASE n = 0
  <2>1. out' = Append(out, Candidate) /\ number' = 0 /\ cols' = cols
    BY <1>1, <1>4, Turn
  <2>2. PICK w \in Seq(Name) : w = Append(out, Candidate) /\ Len(w) = Len(out) + 1
    BY <1>2, Appended, Turn
  <2>3. Len(w) <= Len(cols) /\ w = out'
    BY <1>2, <2>1, <2>2
  <2>4. QED
    BY <1>3, <2>1, <2>2, <2>3 DEF NameInv
<1>5. CASE n # 0
  <2>1. out' = out /\ cols' = cols /\ Column' = Column
    BY <1>1, <1>5, Turn DEF Column
  <2>2. PICK m \in Nat : m = number' /\ m = n + 1 /\ m # 0
    BY <1>1, <1>5, Turn
  <2>3. n <= Due(cols, k, seen, Candidate)
    BY <1>1, Turn DEF KeyInv, TimesInv
  <2>4. m \in 2 .. 2 * Len(cols)
    <3>1. Due(cols, k, seen, Candidate) \in Nat /\ Due(cols, k, seen, Candidate) <= k + Len(out)
      BY <1>1, Turn
    <3>2. k <= Len(out) + 1
      BY <1>1, <1>2
    <3>3. QED
      BY <1>2, <1>5, <2>2, <2>3, <3>1, <3>2
  <2>5. Column \in DOMAIN seen'
    <3>1. number = 0 => Candidate = Column
      BY DEF Candidate
    <3>2. number # 0 => Column \in DOMAIN seen
      BY DEF KeyInv, NameInv
    <3>3. QED
      BY <3>1, <3>2, Turn
  <2>6. QED
    BY <1>2, <1>3, <2>1, <2>2, <2>4, <2>5 DEF NameInv
<1>6. QED
  BY <1>4, <1>5

LEMMA TurnSeen == ASSUME KeyInv, TryName PROVE SeenInv'
<1>1. out \in Seq(Name) /\ Len(out) \in Nat /\ number \in Nat /\ SeenFor(cols, out, seen)
  BY DEF KeyInv, NameInv, SeenInv
<1>c. PICK c \in Name : c = Candidate
  BY Turn
<1>n. PICK n \in Nat : n = Times(Candidate)
  BY Turn
<1>t. PICK t : t = seen'
  OBVIOUS
<1>2. /\ c = Candidate /\ n = Times(Candidate) /\ t = seen'
      /\ DOMAIN t = DOMAIN seen \cup {c} /\ t[c] = n + 1
      /\ \A x \in DOMAIN seen \ {c} : t[x] = seen[x]
  BY <1>c, <1>n, <1>t, Turn
<1>3. ASSUME NEW x \in DOMAIN t PROVE t[x] \in Nat \ {0}
  <2>1. CASE x = c
    BY <1>2, <2>1
  <2>2. CASE x # c
    <3>1. x \in DOMAIN seen /\ t[x] = seen[x]
      BY <1>2, <2>2, Zenon
    <3>2. QED
      BY <1>1, <3>1 DEF SeenFor
  <2>3. QED
    BY <2>1, <2>2
<1>4. CASE n = 0
  <2>1. out' = Append(out, c) /\ c \notin DOMAIN seen
    BY <1>2, <1>4, Turn
  <2>2. PICK w \in Seq(Name) : w = Append(out, c) /\ Len(w) = Len(out) + 1 /\ w[Len(out) + 1] = c
                               /\ \A i \in 1 .. Len(out) : w[i] = out[i]
    BY <1>1, <1>2, Appended
  <2>3. DOMAIN t = {w[i] : i \in 1 .. Len(w)}
    <3>1. {w[i] : i \in 1 .. Len(w)} = {out[i] : i \in 1 .. Len(out)} \cup {c}
      BY <1>1, <2>2
    <3>2. QED
      BY <1>1, <1>2, <3>1 DEF SeenFor
  <2>4. IsFiniteSet(DOMAIN t) /\ Cardinality(DOMAIN t) = Len(w)
    <3>1. IsFiniteSet(DOMAIN seen) /\ Cardinality(DOMAIN seen) = Len(out)
      BY <1>1 DEF SeenFor
    <3>2. DOMAIN t = DOMAIN seen \cup {c}
      BY <1>2
    <3>3. IsFiniteSet(DOMAIN seen \cup {c}) /\ Cardinality(DOMAIN seen \cup {c}) = Len(out) + 1
      BY <2>1, <3>1, FS_AddElement
    <3>4. QED
      BY <2>2, <3>2, <3>3
  <2>5. ASSUME NEW j \in 1 .. Len(w) PROVE cols[j] \in DOMAIN t
    <3>1. CASE j = Len(out) + 1
      <4>1. number = 0 => Candidate = cols[j]
        BY <3>1, Turn DEF Candidate
      <4>2. number # 0 => cols[j] \in DOMAIN seen
        BY <3>1, Turn DEF KeyInv, NameInv
      <4>3. QED
        BY <1>2, <4>1, <4>2
    <3>2. CASE j # Len(out) + 1
      <4>1. j \in 1 .. Len(out)
        BY <1>1, <2>2, <3>2
      <4>2. QED
        BY <1>1, <1>2, <4>1 DEF SeenFor
    <3>3. QED
      BY <3>1, <3>2
  <2>6. ASSUME NEW i \in 1 .. Len(w), NEW j \in 1 .. Len(w), w[i] = w[j] PROVE i = j
    <3>1. \A h \in 1 .. Len(out) : w[h] # c
      BY <1>1, <2>1, <2>2 DEF SeenFor
    <3>2. \A h \in 1 .. Len(w) : h = Len(out) + 1 \/ h \in 1 .. Len(out)
      BY <1>1, <2>2
    <3>3. QED
      BY <1>1, <2>2, <2>6, <3>1, <3>2 DEF SeenFor
  <2>7. SeenFor(cols, w, t)
    BY <1>3, <2>3, <2>4, <2>5, <2>6 DEF SeenFor
  <2>8. QED
    BY <1>2, <2>1, <2>2, <2>7, Turn DEF SeenInv
<1>5. CASE n # 0
  <2>1. DOMAIN t = DOMAIN seen /\ out' = out
    BY <1>2, <1>5, Turn
  <2>2. SeenFor(cols, out, t)
    BY <1>1, <1>3, <2>1 DEF SeenFor
  <2>3. QED
    BY <1>2, <2>1, <2>2, Turn DEF SeenInv
<1>6. QED
  BY <1>4, <1>5

LEMMA TurnTimes == ASSUME KeyInv, TryName PROVE TimesInv'
<1>1. PICK k, l, n \in Nat :
          /\ k = Begun /\ l = Begun' /\ n = Times(Candidate) /\ l \in {k, k + 1}
          /\ number = 0 => k = Len(out) /\ l = k + 1
          /\ number # 0 => k = Len(out) + 1 /\ l = k
          /\ \A x \in Name :
               /\ Due(cols, k, seen, x) \in Nat /\ Due(cols, l, seen', x) \in Nat
               /\ Due(cols, k, seen, x) <= Due(cols, l, seen', x)
               /\ l = k + 1 /\ cols[l] = x => Due(cols, k, seen, x) + 1 <= Due(cols, l, seen', x)
               /\ x.numbers # <<>> /\ LastOf(x) = n + 1
                     => Due(cols, k, seen, x) + 1 <= Due(cols, l, seen', x)
  BY TurnDue DEF Grows
<1>2. PICK c \in Name : c = Candidate
  BY Turn
<1>3. n <= Due(cols, k, seen, c) /\ (number # 0 => n + 1 <= Due(cols, k, seen, c))
  <2>1. n <= Due(cols, k, seen, c)
    BY <1>1, <1>2 DEF KeyInv, TimesInv
  <2>2. number # 0 => n + 1 <= Due(cols, k, seen, c)
    BY <1>1, <1>2 DEF KeyInv, TimesInv, Candidate
  <2>3. QED
    BY <2>1, <2>2
<1>4. Times(c)' = n + 1 /\ \A x : x # c => Times(x)' = Times(x)
  BY <1>1, <1>2, Turn DEF Times
<1>5. ASSUME NEW x \in Name PROVE Times(x)' <= Due(cols, l, seen', x)
  <2>1. CASE x # c
    <3>1. Times(x) <= Due(cols, k, seen, x) /\ Times(x) \in Nat
      BY <1>1 DEF KeyInv, TimesInv, Times, SeenInv, SeenFor
    <3>2. Times(x) <= Due(cols, l, seen', x)
      BY <1>1, <3>1
    <3>3. QED
      BY <1>4, <2>1, <3>2
  <2>2. CASE x = c
    <3>1. number = 0 => cols[l] = c
      BY <1>1, <1>2, Turn DEF Candidate
    <3>2. n + 1 <= Due(cols, l, seen', c)
      BY <1>1, <1>3, <3>1
    <3>3. QED
      BY <1>4, <2>2, <3>2
  <2>3. QED
    BY <2>1, <2>2
<1>6. PICK x \in Name :
          x = Suffixed(Column, n + 1) /\ x.numbers # <<>> /\ LastOf(x) = n + 1 /\ x # Column
  <2>1. n + 1 \in Nat /\ Column \in Name
    BY Turn
  <2>2. QED
    BY <2>1, SuffixedName
<1>7. Times(x)' + 1 <= Due(cols, l, seen', x)
  <2>1. Due(cols, k, seen, x) + 1 <= Due(cols, l, seen', x)
    BY <1>1, <1>6
  <2>2. CASE x # c
    <3>1. Times(x) <= Due(cols, k, seen, x) /\ Times(x) \in Nat
      BY <1>1, <1>6 DEF KeyInv, TimesInv, Times, SeenInv, SeenFor
    <3>2. Times(x) + 1 <= Due(cols, l, seen', x)
      BY <1>1, <1>6, <2>1, <3>1
    <3>3. QED
      BY <1>4, <2>2, <3>2
  <2>3. CASE x = c
    <3>1. number # 0
      BY <1>2, <1>6, <2>3 DEF Candidate
    <3>2. (n + 1) + 1 <= Due(cols, l, seen', x)
      BY <1>1, <1>3, <1>6, <2>1, <2>3, <3>1
    <3>3. QED
      BY <1>4, <2>3, <3>2
  <2>4. QED
    BY <2>2, <2>3
<1>8. n # 0 => number' = n + 1 /\ Column' = Column
  BY <1>1, Turn DEF Column
<1>9. n = 0 => number' = 0
  BY <1>1, Turn
<1>10. cols' = cols /\ Begun' = l
  BY <1>1, Turn
<1>11. number' # 0 => Suffixed(Column', number') = x
  BY <1>6, <1>8, <1>9
<1>12. QED
  BY <1>5, <1>7, <1>10, <1>11, Zenon DEF TimesInv, Times
LEMMA TurnGiven == ASSUME KeyInv, TryName PROVE GivenInv'
<1>1. out \in Seq(Name) /\ Len(out) \in Nat /\ number \in Nat /\ SeenFor(cols, out, seen) /\ GivenInv
  BY DEF KeyInv, NameInv, SeenInv
<1>2. PICK c \in Name : c = Candidate
  BY Turn
<1>3. CASE Times(Candidate) = 0
  <2>1. out' = Append(out, c) /\ cols' = cols /\ c \notin DOMAIN seen
    BY <1>2, <1>3, Turn
  <2>2. PICK w \in Seq(Name) : w = Append(out, c) /\ Len(w) = Len(out) + 1 /\ w[Len(out) + 1] = c
                               /\ \A i \in 1 .. Len(out) : w[i] = out[i]
    BY <1>1, <1>2, Appended
  <2>3. ASSUME NEW i \in 1 .. Len(out) PROVE GivenFor(cols, w, i)
    <3>1. w[i] = out[i] /\ \A j \in 1 .. i - 1 : w[j] = out[j]
      BY <1>1, <2>2
    <3>2. GivenFor(cols, out, i)
      BY <1>1 DEF GivenInv
    <3>3. QED
      BY <3>1, <3>2 DEF GivenFor
  <2>4. ASSUME NEW i, i = Len(out) + 1 PROVE GivenFor(cols, w, i)
    <3>1. cols[i] = Column /\ w[i] = c /\ i - 1 = Len(out)
      BY <1>1, <2>2, <2>4, Turn
    <3>2. \A j \in 1 .. Len(out) : w[j] = out[j] /\ out[j] \in DOMAIN seen /\ cols[j] \in DOMAIN seen
      BY <1>1, <2>2 DEF SeenFor
    <3>3. CASE number = 0
      <4>1. c = Column
        BY <1>2, <3>3 DEF Candidate
      <4>2. \A j \in 1 .. Len(out) : Column \notin {cols[j], w[j]}
        BY <2>1, <3>2, <4>1
      <4>3. QED
        BY <3>1, <4>1, <4>2 DEF GivenFor
    <3>4. CASE number # 0
      <4>1. c = Suffixed(Column, number) /\ number \in 2 .. 2 * Len(cols) /\ Column \in DOMAIN seen
        BY <1>2, <3>4 DEF Candidate, KeyInv, NameInv
      <4>2. PICK j \in 1 .. Len(out) : Column = w[j]
        BY <1>1, <2>2, <4>1 DEF SeenFor
      <4>3. QED
        BY <3>1, <4>1, <4>2 DEF GivenFor
    <3>5. QED
      BY <3>3, <3>4
  <2>5. \A i \in 1 .. Len(w) : i = Len(out) + 1 \/ i \in 1 .. Len(out)
    BY <1>1, <2>2
  <2>6. \A i \in 1 .. Len(w) : GivenFor(cols, w, i)
    BY <2>3, <2>4, <2>5
  <2>7. QED
    BY <2>1, <2>2, <2>6 DEF GivenInv
<1>4. CASE Times(Candidate) # 0
  BY <1>1, <1>4, Turn DEF GivenInv
<1>5. QED
  BY <1>3, <1>4

LEMMA NextKeys == KeyInv /\ [Next]_vars => KeyInv'
<1> SUFFICES ASSUME KeyInv, [Next]_vars PROVE KeyInv'
  OBVIOUS
<1>1. CASE TryName
  BY <1>1, TurnNames, TurnSeen, TurnTimes, TurnGiven DEF KeyInv
<1>2. CASE UNCHANGED colVars
  <2>1. cols' = cols /\ out' = out /\ number' = number /\ seen' = seen
    BY <1>2 DEF colVars
  <2>2. NameInv' /\ SeenInv' /\ GivenInv'
    BY <2>1 DEF KeyInv, NameInv, SeenInv, GivenInv, Column
  <2>3. TimesInv'
    <3>1. Begun' = Begun /\ Column' = Column /\ \A x : Times(x)' = Times(x)
      BY <2>1 DEF Begun, Column, Times
    <3>2. QED
      BY <2>1, <3>1, Zenon DEF KeyInv, TimesInv, Begun, Column, Times
  <2>4. QED
    BY <2>2, <2>3 DEF KeyInv
<1>3. CASE StartRows \/ NextRow \/ NoMoreRows \/ RowError \/ Answer \/ UNCHANGED vars
  BY <1>2, <1>3 DEF StartRows, NextRow, NoMoreRows, RowError, Answer, vars
<1>4. QED
  BY <1>1, <1>3 DEF Next

(* What dedupColumns has tried is what it has given out, and how often.    *)
THEOREM KeysInv == Spec => []KeyInv
BY InitKeys, NextKeys, PTL DEF Spec

(* dedupColumns gives no name twice, for any names and any number of       *)
(* columns, the names it would make itself included; a column keeps its    *)
(* name if it is the first to have it, and the number after that of any    *)
(* other is at most twice the columns.                                     *)
THEOREM KeysUnique == Spec => []UniqueKeys
<1>1. KeyInv => UniqueKeys
  <2> SUFFICES ASSUME KeyInv PROVE UniqueKeys
    OBVIOUS
  <2>1. \A i, j \in 1 .. Len(out) : out[i] = out[j] => i = j
    BY DEF KeyInv, SeenInv, SeenFor
  <2>2. QED
    BY <2>1 DEF KeyInv, GivenInv, GivenFor, UniqueKeys
<1>2. QED
  BY <1>1, KeysInv, PTL

(* The search for unused names is short: no name is tried more than twice  *)
(* as often as the query has columns, and no more names are tried than     *)
(* there are columns.  Each turn of dedupColumns' inner loop (manager.go)  *)
(* tries one name once more, so that it ends whatever the query's names.   *)
SearchShort ==
    /\ Cardinality(DOMAIN seen) <= Len(cols)
    /\ \A x \in DOMAIN seen : seen[x] <= 2 * Len(cols)
    /\ number <= 2 * Len(cols)

THEOREM SearchEnds == Spec => []SearchShort
<1>1. KeyInv => SearchShort
  <2> SUFFICES ASSUME KeyInv PROVE SearchShort
    OBVIOUS
  <2>1. PICK k, l \in Nat : k = Len(out) /\ l = Len(cols) /\ k <= l /\ (number # 0 => k < l)
    BY ResultAssumption DEF KeyInv, NameInv
  <2>2. PICK b \in Nat : b = Begun /\ b <= l
    BY <2>1 DEF Begun
  <2>3. /\ IsFiniteSet(DOMAIN seen) /\ Cardinality(DOMAIN seen) = k
        /\ \A x \in DOMAIN seen : x \in Name /\ seen[x] \in Nat /\ Times(x) = seen[x]
    <3>1. ASSUME NEW x \in DOMAIN seen PROVE x \in Name
      <4>1. out \in Seq(Name) /\ SeenFor(cols, out, seen)
        BY DEF KeyInv, NameInv, SeenInv
      <4>2. PICK i \in 1 .. Len(out) : x = out[i]
        BY <4>1 DEF SeenFor
      <4>3. QED
        BY <4>1, <4>2
    <3>2. QED
      BY <2>1, <3>1 DEF KeyInv, SeenInv, SeenFor, Times
  <2>4. ASSUME NEW x \in DOMAIN seen PROVE seen[x] <= 2 * l
    <3> DEFINE t == [y \in DOMAIN seen |-> IF y = x THEN seen[x] + 1 ELSE seen[y]]
    <3>1. Tried(seen, t, x, seen[x])
      BY <2>3 DEF Tried
    <3> HIDE DEF t
    <3>2. Grows(cols, b, b, seen, t, seen[x], x)
      BY <2>3, <3>1, DueMore
    <3>3. Due(cols, b, seen, x) \in Nat /\ Due(cols, b, seen, x) <= b + k
      BY <2>3, <3>2 DEF Grows
    <3>4. seen[x] <= Due(cols, b, seen, x) /\ seen[x] \in Nat
      BY <2>2, <2>3 DEF KeyInv, TimesInv
    <3>5. QED
      BY <2>1, <2>2, <3>3, <3>4
  <2>5. number <= 2 * l
    BY <2>1 DEF KeyInv, NameInv
  <2>6. QED
    BY <2>1, <2>3, <2>4, <2>5 DEF SearchShort
<1>2. QED
  BY <1>1, KeysInv, PTL

(* The variables of the result have their types.                           *)
THEOREM TypesCorrect == Spec => []TypeOK
<1>1. ASSUME KeyInv, LimitInv, RowInv PROVE TypeOK
  <2>1. out \in Seq(Name) /\ SeenFor(cols, out, seen)
    BY <1>1 DEF KeyInv, NameInv, SeenInv
  <2>2. ASSUME NEW x \in DOMAIN seen PROVE x \in Name /\ seen[x] \in Nat \ {0}
    <3>1. PICK i \in 1 .. Len(out) : x = out[i]
      BY <2>1 DEF SeenFor
    <3>2. out[i] \in Name
      BY <2>1
    <3>3. QED
      BY <2>1, <3>1, <3>2 DEF SeenFor
  <2>3. /\ asked \in Int /\ cap \in Nat /\ limit \in Nat /\ total \in Nat /\ got \in Nat
        /\ cell \in Value
    BY <1>1 DEF LimitInv
  <2>4. /\ truncated \in BOOLEAN
        /\ state \in {"columns", "rows", "returned", "answered", "failed", "unwritten"}
    BY <1>1 DEF RowInv
  <2>5. cols \in Columns /\ Len(out) <= Len(cols) /\ number \in Nat
    BY <1>1 DEF KeyInv, NameInv
  <2>6. QED
    BY <2>1, <2>2, <2>3, <2>4, <2>5 DEF TypeOK
<1>2. QED
  BY <1>1, KeysInv, RowsInv, PTL
=============================================================================
