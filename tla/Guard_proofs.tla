---------------------------- MODULE Guard_proofs ----------------------------
(***************************************************************************)
(* Proofs about the SQL guard, for texts of any length: tokenize and the   *)
(* grammar its comments give agree on where every literal, comment, quoted *)
(* name, word and mark of a text begins and ends, and what follows for the *)
(* verdict.                                                                *)
(***************************************************************************)
EXTENDS Guard, WellFoundedInduction, TLAPS

-----------------------------------------------------------------------------
(* Numbers.                                                                *)

(* A set of numbers has a least one.                                       *)
LEMMA Least == ASSUME NEW T \in SUBSET Nat, T # {} PROVE \E m \in T : \A n \in T : m <= n
<1>1. PICK m \in T : \A n \in T : ~(<<n, m>> \in OpToRel(<, Nat))
  BY WFMin, NatLessThanWellFounded
<1>2. \A n \in T : ~(n < m)
  BY <1>1 DEF OpToRel
<1>3. QED
  BY <1>2

LEMMA MinFound ==
    ASSUME NEW T \in SUBSET Nat, T # {}
    PROVE  Min(T) \in T /\ \A n \in T : Min(T) <= n
BY Least DEF Min

-----------------------------------------------------------------------------
(* Texts.                                                                  *)

IsText(s) == s \in Seq(Range(s)) /\ "end" \notin Range(s)

LEMMA AtText ==
    ASSUME NEW s, IsText(s)
    PROVE  /\ Len(s) \in Nat
           /\ \A k \in 1 .. Len(s) : At(s, k) = s[k] /\ At(s, k) # "end"
           /\ \A k \in Int : k \notin 1 .. Len(s) => At(s, k) = "end"
<1>1. Len(s) \in Nat /\ DOMAIN s = 1 .. Len(s)
  BY DEF IsText
<1>2. \A k \in 1 .. Len(s) : s[k] \in Range(s)
  BY <1>1 DEF Range
<1>3. QED
  BY <1>1, <1>2 DEF IsText, At

(* A run of characters ends at the first that is not in the set, at the    *)
(* latest behind the text.                                                 *)
LEMMA RunEndFound ==
    ASSUME NEW s, IsText(s), NEW S, "end" \notin S, NEW k \in 1 .. Len(s) + 1
    PROVE  /\ RunEnd(s, k, S) \in k .. Len(s) + 1
           /\ At(s, RunEnd(s, k, S)) \notin S
           /\ \A j \in k .. RunEnd(s, k, S) - 1 : At(s, j) \in S
<1> DEFINE T == {j \in k .. Len(s) + 1 : At(s, j) \notin S}
<1>1. Len(s) \in Nat /\ At(s, Len(s) + 1) = "end"
  BY AtText
<1>2. T \in SUBSET Nat /\ Len(s) + 1 \in T
  BY <1>1
<1>3. Min(T) \in T /\ \A n \in T : Min(T) <= n
  BY <1>2, MinFound
<1>4. RunEnd(s, k, S) = Min(T)
  BY DEF RunEnd
<1> HIDE DEF T
<1>5. PICK e \in T : e = RunEnd(s, k, S) /\ \A n \in T : e <= n
  BY <1>3, <1>4
<1>6. e \in k .. Len(s) + 1 /\ At(s, e) \notin S
  BY <1>5 DEF T
<1>7. \A j \in k .. e - 1 : At(s, j) \in S
  BY <1>1, <1>5, <1>6 DEF T
<1>8. QED
  BY <1>5, <1>6, <1>7

-----------------------------------------------------------------------------
(* Regions.                                                                *)

Kind == {"code", "line", "block", "string", "ident", "param", "word", "number", "dollar", "closing"}
Open == {"string", "ident", "block", "dollar"}

RegionType == [m : Kind, from : Nat, to : Nat, depth : Nat, skip : Nat]

LEMMA RegionsDefined ==
    ASSUME NEW s, Len(s) \in Nat
    PROVE  /\ Regions(s)[0] = Region("code", 0)
           /\ \A k \in 1 .. Len(s) : Regions(s)[k] = Continues(s, Regions(s)[k - 1], k)
<1> DEFINE Is(f, n) == f = [k \in 0 .. n |-> IF k = 0 THEN Region("code", 0) ELSE Continues(s, f[k - 1], k)]
           Bad == {n \in Nat : \A f : ~Is(f, n)}
<1>1. Bad = {}
  <2> SUFFICES ASSUME Bad # {} PROVE FALSE
    OBVIOUS
  <2>1. PICK n \in Bad : \A m \in Bad : n <= m
    <3>1. Bad \in SUBSET Nat
      OBVIOUS
    <3> HIDE DEF Bad
    <3>2. QED
      BY <3>1, Least
  <2>2. n # 0
    <3>1. Is([k \in 0 .. 0 |-> Region("code", 0)], 0)
      OBVIOUS
    <3>2. QED
      BY <3>1
  <2>3. PICK f : Is(f, n - 1)
    <3>1. n - 1 \in Nat /\ ~(n <= n - 1)
      BY <2>2
    <3>2. n - 1 \notin Bad
      BY <2>1, <3>1
    <3>3. QED
      BY <3>1, <3>2
  <2> DEFINE g == [k \in 0 .. n |-> IF k = n THEN Continues(s, f[n - 1], n) ELSE f[k]]
  <2>4. \A k \in 0 .. n - 1 : g[k] = f[k]
    OBVIOUS
  <2>5. \A k \in 0 .. n : g[k] = IF k = 0 THEN Region("code", 0) ELSE Continues(s, g[k - 1], k)
    <3> SUFFICES ASSUME NEW k \in 0 .. n
                 PROVE  g[k] = IF k = 0 THEN Region("code", 0) ELSE Continues(s, g[k - 1], k)
      OBVIOUS
    <3>1. CASE k = n
      <4>1. g[k] = Continues(s, f[n - 1], n) /\ n - 1 \in 0 .. n - 1
        BY <2>2, <3>1
      <4>2. QED
        BY <2>2, <2>4, <3>1, <4>1
    <3>2. CASE k # n
      <4>1. k \in 0 .. n - 1 /\ g[k] = f[k]
        BY <2>4, <3>2
      <4>2. f[k] = IF k = 0 THEN Region("code", 0) ELSE Continues(s, f[k - 1], k)
        BY <2>3, <4>1
      <4>3. k # 0 => g[k - 1] = f[k - 1]
        BY <2>4, <4>1
      <4>4. QED
        BY <4>1, <4>2, <4>3
    <3>3. QED
      BY <3>1, <3>2
  <2>6. g = [k \in 0 .. n |-> IF k = 0 THEN Region("code", 0) ELSE Continues(s, g[k - 1], k)]
    <3>1. g = [k \in 0 .. n |-> g[k]]
      OBVIOUS
    <3> HIDE DEF g
    <3>2. QED
      BY <2>5, <3>1
  <2>7. QED
    BY <2>6
<1>2. PICK f : Is(f, Len(s))
  BY <1>1
<1>3. Regions(s) = CHOOSE g : Is(g, Len(s))
  BY DEF Regions
<1>4. Is(Regions(s), Len(s))
  <2> HIDE DEF Is
  <2>1. QED
    BY <1>2, <1>3
<1>5. QED
  BY <1>4

(* The equations of the functions of CommentEnd and QuoteEnd.              *)
CommentScan(s, f) ==
    \A j \in Nat :
        f[j] = [depth \in Nat |->
                  IF depth = 0 THEN j
                  ELSE IF j > Len(s) THEN 0
                  ELSE IF Two(s, j, "/", "*") THEN f[j + 2][depth + 1]
                  ELSE IF Two(s, j, "*", "/") THEN f[j + 2][depth - 1]
                  ELSE f[j + 1][depth]]

QuoteScan(s, q, backslash, f) ==
    \A j \in Nat :
        f[j] = IF j > Len(s) THEN 0
               ELSE IF backslash /\ At(s, j) = "\\" THEN f[j + 2]
               ELSE IF Two(s, j, q, q) THEN f[j + 2]
               ELSE IF At(s, j) = q THEN j + 1
               ELSE f[j + 1]

(* The functions of CommentEnd and QuoteEnd exist: what they are at a      *)
(* position depends on what they are behind it, and behind the text they   *)
(* depend on nothing.                                                      *)
LEMMA CommentEndDefined ==
    ASSUME NEW s, Len(s) \in Nat
    PROVE  \E f : CommentScan(s, f) /\ \A k : CommentEnd(s, k) = f[k + 2][1]
<1> DEFINE Body(f, j) ==
        [depth \in Nat |->
            IF depth = 0 THEN j
            ELSE IF j > Len(s) THEN 0
            ELSE IF Two(s, j, "/", "*") THEN f[j + 2][depth + 1]
            ELSE IF Two(s, j, "*", "/") THEN f[j + 2][depth - 1]
            ELSE f[j + 1][depth]]
    Part(n) == \E f : \A j \in Nat : j + n > Len(s) => f[j] = Body(f, j)
    Bad == {n \in Nat : ~Part(n)}
<1>1. Bad = {}
  <2> SUFFICES ASSUME Bad # {} PROVE FALSE
    OBVIOUS
  <2>1. PICK n \in Bad : \A m \in Bad : n <= m
    <3>1. Bad \in SUBSET Nat
      OBVIOUS
    <3> HIDE DEF Bad
    <3>2. QED
      BY <3>1, Least
  <2>2. n \in Nat /\ ~Part(n)
    BY <2>1
  <2>3. n # 0
    <3> DEFINE f == [j \in Nat |-> [depth \in Nat |-> IF depth = 0 THEN j ELSE 0]]
    <3>1. \A j \in Nat : j + 0 > Len(s) => f[j] = Body(f, j)
      OBVIOUS
    <3> HIDE DEF f, Body
    <3>2. Part(0)
      BY <3>1
    <3> HIDE DEF Part
    <3>3. QED
      BY <2>2, <3>2
  <2>4. Part(n - 1)
    <3>1. n - 1 \in Nat /\ ~(n <= n - 1)
      BY <2>2, <2>3
    <3> HIDE DEF Part
    <3>2. QED
      BY <2>1, <3>1
  <2>5. PICK f : \A j \in Nat : j + (n - 1) > Len(s) => f[j] = Body(f, j)
    BY <2>4
  <2> DEFINE g == [j \in Nat |-> IF j + (n - 1) > Len(s) THEN f[j] ELSE Body(f, j)]
  <2>6. \A j \in Nat : j + (n - 1) > Len(s) => g[j] = f[j]
    BY <2>5
  <2>7. \A j \in Nat : j + n > Len(s) => g[j] = Body(f, j)
    <3> HIDE DEF Body
    <3>1. QED
      BY <2>5
  <2> HIDE DEF g
  <2>8. ASSUME NEW j \in Nat, j + n > Len(s) PROVE Body(g, j) = Body(f, j)
    <3>1. j + 1 \in Nat /\ j + 2 \in Nat /\ (j + 1) + (n - 1) > Len(s) /\ (j + 2) + (n - 1) > Len(s)
      BY <2>2, <2>8
    <3>2. g[j + 2] = f[j + 2] /\ g[j + 1] = f[j + 1]
      BY ONLY <2>6, <3>1, Zenon
    <3>3. QED
      BY <3>2, Zenon
  <2>9. Part(n)
    <3> HIDE DEF Body
    <3>1. QED
      BY <2>7, <2>8
  <2> HIDE DEF Part
  <2>10. QED
    BY <2>2, <2>9
<1>2. Part(Len(s) + 1)
  <2> HIDE DEF Part
  <2>1. QED
    BY <1>1
<1>3. PICK f : \A j \in Nat : f[j] = Body(f, j)
  <2> HIDE DEF Body
  <2>1. QED
    BY <1>2
<1> DEFINE g == [j \in Nat |-> f[j]]
           Is(h) == h = [j \in Nat |-> Body(h, j)]
<1>4. Is(g)
  <2>1. \A j \in Nat : Body(g, j) = Body(f, j)
    OBVIOUS
  <2> HIDE DEF Body
  <2>2. QED
    BY <1>3, <2>1
<1> DEFINE end == CHOOSE h : Is(h)
<1>5. Is(end)
  <2> HIDE DEF Is
  <2>1. QED
    BY <1>4
<1>6. \A k : CommentEnd(s, k) = end[k + 2][1]
  BY DEF CommentEnd
<1>7. \A j \in Nat : end[j] = Body(end, j)
  <2> HIDE DEF end, Body
  <2>1. QED
    BY <1>5
<1> HIDE DEF end
<1>8. CommentScan(s, end)
  BY <1>7 DEF CommentScan
<1>9. QED
  BY <1>6, <1>8

LEMMA QuoteEndDefined ==
    ASSUME NEW s, Len(s) \in Nat, NEW q, NEW backslash
    PROVE  \E f : QuoteScan(s, q, backslash, f) /\ \A k : QuoteEnd(s, k, q, backslash) = f[k + 1]
<1> DEFINE Body(f, j) ==
        IF j > Len(s) THEN 0
        ELSE IF backslash /\ At(s, j) = "\\" THEN f[j + 2]
        ELSE IF Two(s, j, q, q) THEN f[j + 2]
        ELSE IF At(s, j) = q THEN j + 1
        ELSE f[j + 1]
    Part(n) == \E f : \A j \in Nat : j + n > Len(s) => f[j] = Body(f, j)
    Bad == {n \in Nat : ~Part(n)}
<1>1. Bad = {}
  <2> SUFFICES ASSUME Bad # {} PROVE FALSE
    OBVIOUS
  <2>1. PICK n \in Bad : \A m \in Bad : n <= m
    <3>1. Bad \in SUBSET Nat
      OBVIOUS
    <3> HIDE DEF Bad
    <3>2. QED
      BY <3>1, Least
  <2>2. n \in Nat /\ ~Part(n)
    BY <2>1
  <2>3. n # 0
    <3> DEFINE f == [j \in Nat |-> 0]
    <3>1. \A j \in Nat : j + 0 > Len(s) => f[j] = Body(f, j)
      OBVIOUS
    <3> HIDE DEF f, Body
    <3>2. Part(0)
      BY <3>1
    <3> HIDE DEF Part
    <3>3. QED
      BY <2>2, <3>2
  <2>4. Part(n - 1)
    <3>1. n - 1 \in Nat /\ ~(n <= n - 1)
      BY <2>2, <2>3
    <3> HIDE DEF Part
    <3>2. QED
      BY <2>1, <3>1
  <2>5. PICK f : \A j \in Nat : j + (n - 1) > Len(s) => f[j] = Body(f, j)
    BY <2>4
  <2> DEFINE g == [j \in Nat |-> IF j + (n - 1) > Len(s) THEN f[j] ELSE Body(f, j)]
  <2>6. \A j \in Nat : j + (n - 1) > Len(s) => g[j] = f[j]
    BY <2>5
  <2>7. \A j \in Nat : j + n > Len(s) => g[j] = Body(f, j)
    <3> HIDE DEF Body
    <3>1. QED
      BY <2>5
  <2> HIDE DEF g
  <2>8. ASSUME NEW j \in Nat, j + n > Len(s) PROVE Body(g, j) = Body(f, j)
    <3>1. j + 1 \in Nat /\ j + 2 \in Nat /\ (j + 1) + (n - 1) > Len(s) /\ (j + 2) + (n - 1) > Len(s)
      BY <2>2, <2>8
    <3>2. g[j + 2] = f[j + 2] /\ g[j + 1] = f[j + 1]
      BY ONLY <2>6, <3>1, Zenon
    <3>3. QED
      BY <3>2, Zenon
  <2>9. Part(n)
    <3> HIDE DEF Body
    <3>1. QED
      BY <2>7, <2>8
  <2> HIDE DEF Part
  <2>10. QED
    BY <2>2, <2>9
<1>2. Part(Len(s) + 1)
  <2> HIDE DEF Part
  <2>1. QED
    BY <1>1
<1>3. PICK f : \A j \in Nat : f[j] = Body(f, j)
  <2> HIDE DEF Body
  <2>1. QED
    BY <1>2
<1> DEFINE g == [j \in Nat |-> f[j]]
           Is(h) == h = [j \in Nat |-> Body(h, j)]
<1>4. Is(g)
  <2>1. \A j \in Nat : Body(g, j) = Body(f, j)
    OBVIOUS
  <2> HIDE DEF Body
  <2>2. QED
    BY <1>3, <2>1
<1> DEFINE end == CHOOSE h : Is(h)
<1>5. Is(end)
  <2> HIDE DEF Is
  <2>1. QED
    BY <1>4
<1>6. \A k : QuoteEnd(s, k, q, backslash) = end[k + 1]
  BY DEF QuoteEnd
<1>7. \A j \in Nat : end[j] = Body(end, j)
  <2> HIDE DEF end, Body
  <2>1. QED
    BY <1>5
<1> HIDE DEF end
<1>8. QuoteScan(s, q, backslash, end)
  BY <1>7 DEF QuoteScan
<1>9. QED
  BY <1>6, <1>8

(* A region with all its parts. *)
Whole(m, a, b, d, x) == [m |-> m, from |-> a, to |-> b, depth |-> d, skip |-> x]

LEMMA WholeParts ==
    ASSUME NEW m, NEW a, NEW b, NEW d, NEW x
    PROVE  /\ Whole(m, a, b, d, x).m = m
           /\ Whole(m, a, b, d, x).from = a
           /\ Whole(m, a, b, d, x).to = b
           /\ Whole(m, a, b, d, x).depth = d
           /\ Whole(m, a, b, d, x).skip = x
BY DEF Whole

LEMMA ClosingWhole ==
    ASSUME NEW m, NEW a, NEW b, NEW d, NEW x
    PROVE  Closing(Whole(m, a, b, d, x)) = Whole("closing", a, b, d, x)
BY DEF Whole, Closing

LEMMA TwiceWhole ==
    ASSUME NEW m, NEW a, NEW b, NEW d, NEW x, NEW k
    PROVE  Twice(Whole(m, a, b, d, x), k) = Whole(m, a, b, d, k + 1)
BY DEF Whole, Twice

(* What begins at a character is what tokenize turns to there.             *)
LEMMA BeginsCases ==
    ASSUME NEW s, NEW k
    PROVE  /\ At(s, k) \in Blanks => Begins(s, k) = Whole("code", k, k, 0, 0)
           /\ Two(s, k, "-", "-") => Begins(s, k) = Whole("line", k, k, 0, 0)
           /\ Two(s, k, "/", "*") => Begins(s, k) = Whole("block", k, k, 1, k + 1)
           /\ At(s, k) = "'" => Begins(s, k) = Whole("string", k, k, 0, 0)
           /\ At(s, k) = "\"" => Begins(s, k) = Whole("ident", k, k, 0, 0)
           /\ At(s, k) = "$" => Begins(s, k) = Whole("param", k, k, 0, 0)
           /\ At(s, k) \in Letter => Begins(s, k) = Whole("word", k, k, 0, 0)
           /\ At(s, k) \in Digit => Begins(s, k) = Whole("number", k, k, 0, 0)
           /\ /\ At(s, k) \notin IdentChar \cup {"'", "\""}
              /\ ~Two(s, k, "-", "-")
              /\ ~Two(s, k, "/", "*")
              => Begins(s, k) = Whole("code", k, k, 0, 0)
<1>1. Letter \cap {"0", "1", "$", " ", "\n", "-", "/", "'", "\""} = {}
  BY GuardAssumption
<1>2. \A m : Region(m, k) = Whole(m, k, k, 0, 0)
  BY DEF Region, Whole
<1>3. Twice([Region("block", k) EXCEPT !.depth = 1], k) = Whole("block", k, k, 1, k + 1)
  <2>1. [Region("block", k) EXCEPT !.depth = 1] = Whole("block", k, k, 1, 0)
    BY DEF Region, Whole
  <2>2. Twice(Whole("block", k, k, 1, 0), k) = Whole("block", k, k, 1, k + 1)
    BY TwiceWhole
  <2>3. QED
    BY <2>1, <2>2, Zenon
<1>4. PICK b : b = Twice([Region("block", k) EXCEPT !.depth = 1], k)
  OBVIOUS
<1>5. Begins(s, k) =
        CASE Two(s, k, "-", "-")   -> Region("line", k)
          [] Two(s, k, "/", "*")   -> b
          [] At(s, k) = "'"        -> Region("string", k)
          [] At(s, k) = "\""       -> Region("ident", k)
          [] At(s, k) = "$"        -> Region("param", k)
          [] At(s, k) \in Letter   -> Region("word", k)
          [] At(s, k) \in Digit    -> Region("number", k)
          [] OTHER              -> Region("code", k)
  BY <1>4 DEF Begins
<1>6. /\ At(s, k) \in Blanks => Begins(s, k) = Region("code", k)
      /\ Two(s, k, "-", "-") => Begins(s, k) = Region("line", k)
      /\ Two(s, k, "/", "*") => Begins(s, k) = b
      /\ At(s, k) = "'" => Begins(s, k) = Region("string", k)
      /\ At(s, k) = "\"" => Begins(s, k) = Region("ident", k)
      /\ At(s, k) = "$" => Begins(s, k) = Region("param", k)
  BY <1>1, <1>5 DEF Two, Blanks, Digit
<1>7. At(s, k) \in Letter => Begins(s, k) = Region("word", k)
  <2>1. ASSUME At(s, k) \in Letter
        PROVE  /\ At(s, k) \notin {"'", "\"", "$", "-", "/"} \cup Digit
               /\ ~Two(s, k, "-", "-") /\ ~Two(s, k, "/", "*")
    BY <1>1, <2>1 DEF Two, Digit
  <2>2. QED
    BY <1>5, <2>1
<1>8. At(s, k) \in Digit => Begins(s, k) = Region("number", k)
  BY <1>1, <1>5 DEF Two, Digit
<1>9. /\ At(s, k) \notin IdentChar \cup {"'", "\""}
      /\ ~Two(s, k, "-", "-")
      /\ ~Two(s, k, "/", "*")
      => Begins(s, k) = Region("code", k)
  BY <1>5 DEF IdentChar, TagChar
<1>10. QED
  BY <1>2, <1>3, <1>4, <1>6, <1>7, <1>8, <1>9

(* How each kind of region continues, but for the second character of a    *)
(* mark of two.                                                            *)
LEMMA ContinuesLine ==
    ASSUME NEW s, NEW r, NEW k, ~(k <= r.skip), r.m = "line"
    PROVE  Continues(s, r, k) = IF At(s, k) = "\n" THEN Begins(s, k) ELSE r
BY DEF Continues

LEMMA ContinuesBlock ==
    ASSUME NEW s, NEW r, NEW k, ~(k <= r.skip), r.m = "block"
    PROVE  Continues(s, r, k) = InBlock(s, r, k)
BY DEF Continues

LEMMA ContinuesString ==
    ASSUME NEW s, NEW r, NEW k, ~(k <= r.skip), r.m = "string"
    PROVE  Continues(s, r, k) = InQuotes(s, r, k, "'", EscapePrefix(s, r.from))
BY DEF Continues

LEMMA ContinuesIdent ==
    ASSUME NEW s, NEW r, NEW k, ~(k <= r.skip), r.m = "ident"
    PROVE  Continues(s, r, k) = InQuotes(s, r, k, "\"", FALSE)
BY DEF Continues

LEMMA ContinuesParam ==
    ASSUME NEW s, NEW r, NEW k, ~(k <= r.skip), r.m = "param"
    PROVE  Continues(s, r, k) = InParam(s, r, k)
BY DEF Continues

LEMMA ContinuesDollar ==
    ASSUME NEW s, NEW r, NEW k, ~(k <= r.skip), r.m = "dollar"
    PROVE  Continues(s, r, k) = InDollar(s, r, k)
BY DEF Continues

LEMMA ContinuesWord ==
    ASSUME NEW s, NEW r, NEW k, ~(k <= r.skip), r.m = "word"
    PROVE  Continues(s, r, k) = IF At(s, k) \in IdentChar THEN r ELSE Begins(s, k)
BY DEF Continues

LEMMA ContinuesNumber ==
    ASSUME NEW s, NEW r, NEW k, ~(k <= r.skip), r.m = "number"
    PROVE  Continues(s, r, k) = IF InNumber(s, k) THEN r ELSE Begins(s, k)
BY DEF Continues

LEMMA ContinuesCode ==
    ASSUME NEW s, NEW r, NEW k, ~(k <= r.skip), r.m \in {"code", "closing"}
    PROVE  Continues(s, r, k) = Begins(s, k)
BY DEF Continues

(* The second character of a mark of two is passed over.                   *)
LEMMA ContinuesSkip ==
    ASSUME NEW s, NEW m, NEW a, NEW b, NEW d, NEW x, NEW k, k <= x
    PROVE  Continues(s, Whole(m, a, b, d, x), k) = Whole(m, a, b, d, x)
<1>1. k <= Whole(m, a, b, d, x).skip
  BY WholeParts
<1>2. QED
  BY <1>1, Zenon DEF Continues

(* A region that nothing ends goes on.                                     *)
LEMMA Run ==
    ASSUME NEW s, Len(s) \in Nat, NEW a \in 0 .. Len(s), NEW b \in a .. Len(s), NEW r,
           Regions(s)[a] = r, \A k \in a + 1 .. b : Continues(s, r, k) = r
    PROVE  \A k \in a .. b : Regions(s)[k] = r
<1> DEFINE Bad == {k \in a .. b : Regions(s)[k] # r}
<1> SUFFICES ASSUME Bad # {} PROVE FALSE
  OBVIOUS
<1>1. PICK k \in Bad : \A m \in Bad : k <= m
  <2>1. Bad \in SUBSET Nat
    OBVIOUS
  <2> HIDE DEF Bad
  <2>2. QED
    BY <2>1, Least
<1>2. k \in a + 1 .. b /\ k - 1 \in a .. b /\ ~(k <= k - 1)
  BY <1>1
<1>3. Regions(s)[k - 1] = r
  BY <1>1, <1>2
<1>4. k \in 1 .. Len(s)
  BY <1>2
<1>5. Regions(s)[k] = Continues(s, r, k)
  BY <1>3, <1>4, RegionsDefined
<1>6. QED
  BY <1>1, <1>2, <1>5

-----------------------------------------------------------------------------
(* Tokens.                                                                 *)

(* The grammar is outside every region where tokenize begins a turn.       *)
Sync(s, k) ==
    /\ k \in 1 .. Len(s) + 1
    /\ Regions(s)[k - 1].m \notin Open
    /\ k <= Len(s) => Regions(s)[k] = Begins(s, k)

(* One region from a on, of a kind, ends before b.                         *)
Token(s, a, b, m) ==
    /\ Sync(s, b) /\ a < b
    /\ \A k \in a .. b - 1 : Regions(s)[k].from = a /\ Regions(s)[k].m \in {m, "closing", "param"}
    /\ \E k \in a .. b - 1 : Regions(s)[k].m = m

(* It does not end.                                                        *)
LeftOpen(s, a) ==
    /\ \A k \in a .. Len(s) : Regions(s)[k].from = a
    /\ Regions(s)[Len(s)].m \in Open

(* Before the first character, and behind each that ends its region.       *)
LEMMA SyncFirst == ASSUME NEW s, Len(s) \in Nat PROVE Sync(s, 1)
<1>1. Regions(s)[0] = Whole("code", 0, 0, 0, 0)
  BY RegionsDefined DEF Region, Whole
<1>2. Regions(s)[0].m \notin Open
  BY <1>1, WholeParts DEF Open
<1>3. ASSUME 1 <= Len(s) PROVE Regions(s)[1] = Begins(s, 1)
  <2>1. 1 \in 1 .. Len(s) /\ 1 - 1 = 0
    BY <1>3
  <2>2. Regions(s)[1] = Continues(s, Regions(s)[0], 1)
    BY <2>1, RegionsDefined
  <2>3. PICK r : r = Regions(s)[0]
    OBVIOUS
  <2>4. r.m = "code" /\ ~(1 <= r.skip)
    BY <1>1, <2>3, WholeParts
  <2>5. Continues(s, r, 1) = Begins(s, 1)
    BY <2>4, ContinuesCode
  <2>6. QED
    BY <2>2, <2>3, <2>5
<1>4. QED
  BY <1>2, <1>3 DEF Sync

LEMMA SyncAfter ==
    ASSUME NEW s, Len(s) \in Nat, NEW k \in 1 .. Len(s), Regions(s)[k].m \notin Open,
           k < Len(s) => Continues(s, Regions(s)[k], k + 1) = Begins(s, k + 1)
    PROVE  Sync(s, k + 1)
<1>1. k + 1 \in 1 .. Len(s) + 1 /\ (k + 1) - 1 = k
  OBVIOUS
<1>2. ASSUME k + 1 <= Len(s) PROVE Regions(s)[k + 1] = Begins(s, k + 1)
  <2>1. k + 1 \in 1 .. Len(s) /\ k < Len(s)
    BY <1>2
  <2>2. Regions(s)[k + 1] = Continues(s, Regions(s)[(k + 1) - 1], k + 1)
    BY <2>1, RegionsDefined
  <2>3. QED
    BY <1>1, <2>1, <2>2
<1>3. QED
  BY <1>1, <1>2 DEF Sync

(* A region in which nothing changes, up to where something else begins.   *)
LEMMA RunToken ==
    ASSUME NEW s, Len(s) \in Nat, NEW a \in 1 .. Len(s), NEW j \in a + 1 .. Len(s) + 1,
           NEW r, Regions(s)[a] = r, r.from = a, r.m \notin Open,
           \A k \in a + 1 .. j - 1 : Continues(s, r, k) = r,
           j <= Len(s) => Continues(s, r, j) = Begins(s, j)
    PROVE  Token(s, a, j, r.m)
<1>1. a \in 0 .. Len(s) /\ j - 1 \in a .. Len(s) /\ j - 1 \in 1 .. Len(s) /\ (j - 1) + 1 = j
  OBVIOUS
<1>2. \A k \in a .. j - 1 : Regions(s)[k] = r
  BY <1>1, Run
<1>3. Regions(s)[j - 1] = r /\ Regions(s)[a] = r
  BY <1>1, <1>2
<1>4. Sync(s, j)
  BY <1>1, <1>3, SyncAfter
<1>5. a \in a .. j - 1 /\ a < j
  OBVIOUS
<1>6. QED
  BY <1>2, <1>4, <1>5 DEF Token

LEMMA CodeToken ==
    ASSUME NEW s, IsText(s), NEW a \in 1 .. Len(s), Sync(s, a),
           Begins(s, a) = Whole("code", a, a, 0, 0)
    PROVE  Token(s, a, a + 1, "code")
<1>1. PICK r : r = Whole("code", a, a, 0, 0)
  OBVIOUS
<1>2. r.m = "code" /\ r.from = a /\ r.skip = 0
  BY <1>1, WholeParts
<1>3. Regions(s)[a] = r /\ Len(s) \in Nat
  BY <1>1, AtText DEF Sync
<1>4. Continues(s, r, a + 1) = Begins(s, a + 1)
  <2>1. ~(a + 1 <= r.skip)
    BY <1>2, <1>3
  <2>2. QED
    BY <1>2, <2>1, ContinuesCode
<1>5. a + 1 \in a + 1 .. Len(s) + 1 /\ a + 1 .. (a + 1) - 1 = {}
  BY <1>3
<1>6. Token(s, a, a + 1, r.m)
  <2>1. r.m \notin Open
    BY <1>2 DEF Open
  <2>2. QED
    BY <1>2, <1>3, <1>4, <1>5, <2>1, RunToken
<1>7. QED
  BY <1>2, <1>6

(* A line comment ends before its line does.                               *)
LEMMA LineToken ==
    ASSUME NEW s, IsText(s), NEW a \in 1 .. Len(s), Sync(s, a), Two(s, a, "-", "-")
    PROVE  Token(s, a, LineEnd(s, a), "line") /\ LineEnd(s, a) \in a + 1 .. Len(s) + 1
<1> DEFINE T == {j \in a .. Len(s) + 1 : At(s, j) \in {"\n", "end"}}
<1>1. Len(s) \in Nat /\ At(s, Len(s) + 1) = "end"
  BY AtText
<1>2. Min(T) \in T /\ \A n \in T : Min(T) <= n
  <2>1. T \in SUBSET Nat /\ Len(s) + 1 \in T
    BY <1>1
  <2> HIDE DEF T
  <2>2. QED
    BY <2>1, MinFound
<1>3. PICK j : j = Min(T)
  OBVIOUS
<1>4. j = LineEnd(s, a)
  BY <1>3 DEF LineEnd
<1>5. j \in a .. Len(s) + 1 /\ At(s, j) \in {"\n", "end"}
  BY <1>2, <1>3
<1>6. ASSUME NEW k \in a .. Len(s) + 1, k < j PROVE At(s, k) \notin {"\n", "end"}
  BY <1>2, <1>3, <1>5, <1>6
<1>7. At(s, a) = "-" /\ j \in a + 1 .. Len(s) + 1
  BY <1>5 DEF Two
<1>8. PICK r : r = Whole("line", a, a, 0, 0)
  OBVIOUS
<1>9. r.m = "line" /\ r.from = a /\ r.skip = 0
  BY <1>8, WholeParts
<1>10. Regions(s)[a] = r
  <2>1. Begins(s, a) = Whole("line", a, a, 0, 0)
    BY BeginsCases
  <2>2. QED
    BY <1>8, <2>1 DEF Sync
<1>11. ASSUME NEW k \in a + 1 .. Len(s)
       PROVE  Continues(s, r, k) = IF At(s, k) = "\n" THEN Begins(s, k) ELSE r
  <2>1. ~(k <= r.skip)
    BY <1>9
  <2>2. QED
    BY <1>9, <2>1, ContinuesLine
<1>12. \A k \in a + 1 .. j - 1 : Continues(s, r, k) = r
  BY <1>1, <1>6, <1>7, <1>11
<1>13. j <= Len(s) => Continues(s, r, j) = Begins(s, j)
  BY <1>5, <1>7, <1>11, AtText
<1>14. Token(s, a, j, r.m)
  <2>1. r.m \notin Open
    BY <1>9 DEF Open
  <2>2. QED
    BY <1>1, <1>7, <1>9, <1>10, <1>12, <1>13, <2>1, RunToken
<1>15. QED
  BY <1>4, <1>7, <1>9, <1>14

LEMMA Ends == "end" \notin Letter /\ "end" \notin IdentChar /\ "end" \notin TagChar /\ "end" \notin Digit
BY GuardAssumption DEF IdentChar, TagChar, Digit

(* A word goes on as long as its characters do.                            *)
LEMMA WordToken ==
    ASSUME NEW s, IsText(s), NEW a \in 1 .. Len(s), Sync(s, a), At(s, a) \in Letter
    PROVE  /\ Token(s, a, RunEnd(s, a, IdentChar), "word")
           /\ RunEnd(s, a, IdentChar) \in a + 1 .. Len(s) + 1
           /\ \A k \in a .. RunEnd(s, a, IdentChar) - 1 : Regions(s)[k].m = "word"
<1>1. Len(s) \in Nat
  BY AtText
<1>2. PICK j : j = RunEnd(s, a, IdentChar)
  OBVIOUS
<1>3. j \in a .. Len(s) + 1 /\ At(s, j) \notin IdentChar /\ \A k \in a .. j - 1 : At(s, k) \in IdentChar
  <2>1. a \in 1 .. Len(s) + 1
    BY <1>1
  <2>2. QED
    BY <1>2, <2>1, RunEndFound, Ends
<1>4. j \in a + 1 .. Len(s) + 1
  BY <1>1, <1>3 DEF IdentChar, TagChar
<1>5. PICK r : r = Whole("word", a, a, 0, 0)
  OBVIOUS
<1>6. r.m = "word" /\ r.from = a /\ r.skip = 0
  BY <1>5, WholeParts
<1>7. Regions(s)[a] = r
  <2>1. Begins(s, a) = Whole("word", a, a, 0, 0)
    BY BeginsCases
  <2>2. QED
    BY <1>5, <2>1 DEF Sync
<1>8. ASSUME NEW k \in a + 1 .. Len(s)
      PROVE  Continues(s, r, k) = IF At(s, k) \in IdentChar THEN r ELSE Begins(s, k)
  <2>1. ~(k <= r.skip)
    BY <1>6
  <2>2. QED
    BY <1>6, <2>1, ContinuesWord
<1>9. \A k \in a + 1 .. j - 1 : Continues(s, r, k) = r
  BY <1>1, <1>3, <1>4, <1>8
<1>10. j <= Len(s) => Continues(s, r, j) = Begins(s, j)
  BY <1>3, <1>4, <1>8
<1>11. Token(s, a, j, r.m)
  <2>1. r.m \notin Open
    BY <1>6 DEF Open
  <2>2. QED
    BY <1>1, <1>4, <1>6, <1>7, <1>9, <1>10, <2>1, RunToken
<1>12. \A k \in a .. j - 1 : Regions(s)[k] = r
  <2>1. a \in 0 .. Len(s) /\ j - 1 \in a .. Len(s)
    BY <1>1, <1>4
  <2>2. QED
    BY <1>1, <1>7, <1>9, <2>1, Run
<1>13. QED
  BY <1>2, <1>4, <1>6, <1>11, <1>12

(* A number goes on as long as its characters do.                          *)
LEMMA NumberToken ==
    ASSUME NEW s, IsText(s), NEW a \in 1 .. Len(s), Sync(s, a), At(s, a) \in Digit,
           NEW j, j = Min({k \in a .. Len(s) + 1 : ~InNumber(s, k)})
    PROVE  Token(s, a, j, "number") /\ j \in a + 1 .. Len(s) + 1
<1> DEFINE T == {k \in a .. Len(s) + 1 : ~InNumber(s, k)}
<1>1. Len(s) \in Nat /\ At(s, Len(s) + 1) = "end"
  BY AtText
<1>2. j \in T /\ \A n \in T : j <= n
  <2>1. ~InNumber(s, Len(s) + 1)
    BY <1>1 DEF InNumber, Digit
  <2>2. T \in SUBSET Nat /\ Len(s) + 1 \in T
    BY <1>1, <2>1
  <2> HIDE DEF T
  <2>3. Min(T) \in T /\ \A n \in T : Min(T) <= n
    BY <2>2, MinFound
  <2>4. j = Min(T)
    BY DEF T
  <2>5. QED
    BY <2>3, <2>4
<1>3. j \in a .. Len(s) + 1 /\ ~InNumber(s, j)
  BY <1>2
<1>4. \A k \in a .. j - 1 : InNumber(s, k)
  BY <1>1, <1>2, <1>3
<1>5. j \in a + 1 .. Len(s) + 1
  <2>1. InNumber(s, a)
    BY DEF InNumber
  <2>2. QED
    BY <1>3, <2>1
<1>6. PICK r : r = Whole("number", a, a, 0, 0)
  OBVIOUS
<1>7. r.m = "number" /\ r.from = a /\ r.skip = 0
  BY <1>6, WholeParts
<1>8. Regions(s)[a] = r
  <2>1. Begins(s, a) = Whole("number", a, a, 0, 0)
    BY BeginsCases
  <2>2. QED
    BY <1>6, <2>1 DEF Sync
<1>9. ASSUME NEW k \in a + 1 .. Len(s)
      PROVE  Continues(s, r, k) = IF InNumber(s, k) THEN r ELSE Begins(s, k)
  <2>1. ~(k <= r.skip)
    BY <1>7
  <2>2. QED
    BY <1>7, <2>1, ContinuesNumber
<1>10. \A k \in a + 1 .. j - 1 : Continues(s, r, k) = r
  BY <1>1, <1>4, <1>5, <1>9
<1>11. j <= Len(s) => Continues(s, r, j) = Begins(s, j)
  BY <1>3, <1>5, <1>9
<1>12. Token(s, a, j, r.m)
  <2>1. r.m \notin Open
    BY <1>7 DEF Open
  <2>2. QED
    BY <1>1, <1>5, <1>7, <1>8, <1>10, <1>11, <2>1, RunToken
<1>13. QED
  BY <1>5, <1>7, <1>12

-----------------------------------------------------------------------------
(* Regions that may not end: quotes and block comments.                    *)

LEMMA Greatest ==
    ASSUME NEW n \in Nat, NEW T \in SUBSET (1 .. n), T # {}
    PROVE  \E m \in T : \A k \in T : k <= m
<1> DEFINE D == {n - k : k \in T}
<1>1. D \in SUBSET Nat /\ D # {}
  <2>1. \A k \in T : n - k \in Nat
    OBVIOUS
  <2>2. PICK k \in T : TRUE
    OBVIOUS
  <2>3. n - k \in D
    OBVIOUS
  <2>4. QED
    BY <2>1, <2>3
<1>2. PICK d \in D : \A c \in D : d <= c
  <2> HIDE DEF D
  <2>1. QED
    BY <1>1, Least
<1>3. PICK m \in T : d = n - m
  BY <1>2
<1>4. ASSUME NEW k \in T PROVE k <= m
  <2>1. d <= n - k
    BY <1>2
  <2>2. QED
    BY <1>3, <2>1
<1>5. QED
  BY <1>3, <1>4

LEMMA InQuotesCases ==
    ASSUME NEW s, NEW m, NEW a, NEW b, NEW d, NEW x, NEW k, NEW q, NEW backslash, NEW r,
           r = Whole(m, a, b, d, x)
    PROVE  InQuotes(s, r, k, q, backslash)
             = IF (backslash /\ At(s, k) = "\\") \/ Two(s, k, q, q) THEN Whole(m, a, b, d, k + 1)
               ELSE IF At(s, k) = q THEN Whole("closing", a, b, d, x)
               ELSE r
<1>1. Twice(r, k) = Whole(m, a, b, d, k + 1) /\ Closing(r) = Whole("closing", a, b, d, x)
  BY TwiceWhole, ClosingWhole
<1>2. QED
  BY <1>1 DEF InQuotes

LEMMA InBlockCases ==
    ASSUME NEW s, NEW a, NEW b, NEW d \in Nat, NEW x \in Nat, NEW k \in Nat, NEW r,
           r = Whole("block", a, b, d, x)
    PROVE  InBlock(s, r, k)
             = IF Two(s, k, "/", "*") THEN Whole("block", a, b, d + 1, k + 1)
               ELSE IF ~Two(s, k, "*", "/") THEN r
               ELSE IF d = 1 THEN Whole("closing", a, b, d, k + 1)
               ELSE Whole("block", a, b, d - 1, k + 1)
<1>1. PICK up : up = [r EXCEPT !.depth = @ + 1]
  OBVIOUS
<1>2. PICK down : down = [r EXCEPT !.depth = @ - 1]
  OBVIOUS
<1>3. up = Whole("block", a, b, d + 1, x) /\ down = Whole("block", a, b, d - 1, x)
  BY <1>1, <1>2 DEF Whole
<1>4. Twice(up, k) = Whole("block", a, b, d + 1, k + 1) /\ Twice(down, k) = Whole("block", a, b, d - 1, k + 1)
  BY <1>3, TwiceWhole
<1>5. Twice(Closing(r), k) = Whole("closing", a, b, d, k + 1)
  <2>1. Closing(r) = Whole("closing", a, b, d, x)
    BY ClosingWhole
  <2>2. QED
    BY <2>1, TwiceWhole
<1>6. r.depth = d
  BY WholeParts
<1>7. InBlock(s, r, k)
        = IF Two(s, k, "/", "*") THEN Twice(up, k)
          ELSE IF ~Two(s, k, "*", "/") THEN r
          ELSE IF r.depth = 1 THEN Twice(Closing(r), k)
          ELSE Twice(down, k)
  BY <1>1, <1>2 DEF InBlock
<1>8. QED
  BY <1>4, <1>5, <1>6, <1>7

(* Character j continues the region of kind m that began at a.             *)
Inside(s, a, m, d, j) == \E x \in Nat : x < j /\ Regions(s)[j - 1] = Whole(m, a, a, d, x)

(* From j on the region goes on to the end of the text if e is 0, and else *)
(* ends before e.                                                          *)
Unclosed(s, a, m, j) == \A k \in j .. Len(s) : Regions(s)[k].from = a /\ Regions(s)[k].m = m

Closed(s, a, m, j, e) ==
    /\ e \in j + 1 .. Len(s) + 1
    /\ Sync(s, e)
    /\ \A k \in j .. e - 1 : Regions(s)[k].from = a /\ Regions(s)[k].m \in {m, "closing"}

Scanned(s, a, m, j, e) == IF e = 0 THEN Unclosed(s, a, m, j) ELSE Closed(s, a, m, j, e)

(* What holds from c on holds from j on.                                   *)
LEMMA ScannedBack ==
    ASSUME NEW s, Len(s) \in Nat, NEW a, NEW m, NEW j \in Nat, NEW c \in Nat, j < c, NEW e,
           \A k \in j .. c - 1 : k <= Len(s) => Regions(s)[k].from = a /\ Regions(s)[k].m = m,
           Scanned(s, a, m, c, e)
    PROVE  Scanned(s, a, m, j, e)
<1>1. CASE e = 0
  <2>1. ASSUME NEW k \in j .. Len(s) PROVE Regions(s)[k].from = a /\ Regions(s)[k].m = m
    <3>1. k \in j .. c - 1 \/ k \in c .. Len(s)
      OBVIOUS
    <3>2. QED
      BY <1>1, <3>1 DEF Scanned, Unclosed
  <2>2. QED
    BY <1>1, <2>1 DEF Scanned, Unclosed
<1>2. CASE e # 0
  <2>1. e \in c + 1 .. Len(s) + 1 /\ Sync(s, e)
    BY <1>2 DEF Scanned, Closed
  <2>2. \A k \in c .. e - 1 : Regions(s)[k].from = a /\ Regions(s)[k].m \in {m, "closing"}
    BY <1>2 DEF Scanned, Closed
  <2>3. ASSUME NEW k \in j .. e - 1 PROVE Regions(s)[k].from = a /\ Regions(s)[k].m \in {m, "closing"}
    <3>1. k \in j .. c - 1 \/ k \in c .. e - 1
      BY <2>1
    <3>2. k <= Len(s)
      BY <2>1
    <3>3. QED
      BY <2>2, <3>1, <3>2
  <2>4. e \in j + 1 .. Len(s) + 1
    BY <2>1
  <2>5. QED
    BY <1>2, <2>1, <2>3, <2>4 DEF Scanned, Closed
<1>3. QED
  BY <1>1, <1>2

LEMMA ScannedToken ==
    ASSUME NEW s, Len(s) \in Nat, NEW a \in 1 .. Len(s), NEW m \in Open, NEW e,
           Regions(s)[a].m = m, Scanned(s, a, m, a, e)
    PROVE  IF e = 0 THEN LeftOpen(s, a) ELSE Token(s, a, e, m) /\ e \in a + 1 .. Len(s) + 1
<1>1. CASE e = 0
  <2>1. Len(s) \in a .. Len(s)
    OBVIOUS
  <2>2. QED
    BY <1>1, <2>1 DEF Scanned, Unclosed, LeftOpen
<1>2. CASE e # 0
  <2>1. e \in a + 1 .. Len(s) + 1 /\ Sync(s, e)
    BY <1>2 DEF Scanned, Closed
  <2>2. a \in a .. e - 1 /\ a < e
    BY <2>1
  <2>3. \A k \in a .. e - 1 : Regions(s)[k].from = a /\ Regions(s)[k].m \in {m, "closing", "param"}
    BY <1>2 DEF Scanned, Closed
  <2>4. QED
    BY <1>2, <2>1, <2>2, <2>3 DEF Token
<1>3. QED
  BY <1>1, <1>2

(* The region of kind m that began at a goes on like one in quotes q.      *)
LikeQuotes(s, a, m, q, backslash) ==
    \A r, k : r.m = m /\ r.from = a /\ ~(k <= r.skip)
                => Continues(s, r, k) = InQuotes(s, r, k, q, backslash)

(* Strings and quoted names, one character after the other.                *)
LEMMA QuotesScanned ==
    ASSUME NEW s, IsText(s), NEW a \in 1 .. Len(s), NEW m, NEW q, NEW backslash, NEW f,
           QuoteScan(s, q, backslash, f),
           LikeQuotes(s, a, m, q, backslash),
           NEW b \in 1 .. Len(s) + 1, b <= Len(s) => Inside(s, a, m, 0, b)
    PROVE  Scanned(s, a, m, b, f[b])
<1>1. Len(s) \in Nat
  BY AtText
<1> DEFINE Body(j) ==
        IF j > Len(s) THEN 0
        ELSE IF backslash /\ At(s, j) = "\\" THEN f[j + 2]
        ELSE IF Two(s, j, q, q) THEN f[j + 2]
        ELSE IF At(s, j) = q THEN j + 1
        ELSE f[j + 1]
<1>0. \A j \in Nat : f[j] = Body(j)
  BY DEF QuoteScan
<1>2. ASSUME NEW j \in Nat, j > Len(s) PROVE Scanned(s, a, m, j, f[j])
  <2>1. f[j] = 0 /\ j .. Len(s) = {}
    BY <1>0, <1>1, <1>2
  <2>2. QED
    BY <2>1 DEF Scanned, Unclosed
<1> DEFINE Bad == {j \in 1 .. Len(s) : Inside(s, a, m, 0, j) /\ ~Scanned(s, a, m, j, f[j])}
<1>3. Bad = {}
  <2> SUFFICES ASSUME Bad # {} PROVE FALSE
    OBVIOUS
  <2>1. PICK j \in Bad : \A k \in Bad : k <= j
    <3>1. Bad \in SUBSET (1 .. Len(s))
      OBVIOUS
    <3> HIDE DEF Bad
    <3>2. QED
      BY <1>1, <3>1, Greatest
  <2>2. j \in 1 .. Len(s) /\ j \in Nat /\ Inside(s, a, m, 0, j) /\ ~Scanned(s, a, m, j, f[j])
    BY <2>1
  <2>3. ASSUME NEW k \in Nat, k > j, k <= Len(s) => Inside(s, a, m, 0, k)
        PROVE  Scanned(s, a, m, k, f[k])
    <3>1. CASE k <= Len(s)
      <4>1. k \in 1 .. Len(s) /\ ~(k <= j)
        BY <2>2, <2>3, <3>1
      <4>2. k \notin Bad
        BY <2>1, <4>1
      <4>3. QED
        BY <2>3, <3>1, <4>1, <4>2
    <3>2. QED
      BY <1>1, <1>2, <2>3, <3>1
  <2>4. PICK x \in Nat : x < j /\ Regions(s)[j - 1] = Whole(m, a, a, 0, x)
    BY <2>2 DEF Inside
  <2>5. PICK r : r = Whole(m, a, a, 0, x)
    OBVIOUS
  <2>6. r.m = m /\ r.from = a /\ r.skip = x
    BY <2>5, WholeParts
  <2>7. Regions(s)[j] = InQuotes(s, r, j, q, backslash)
    <3>1. ~(j <= r.skip)
      BY <2>2, <2>4, <2>6
    <3>2. Continues(s, r, j) = InQuotes(s, r, j, q, backslash)
      BY <2>6, <3>1 DEF LikeQuotes
    <3>3. Regions(s)[j] = Continues(s, Regions(s)[j - 1], j)
      BY <1>1, <2>2, RegionsDefined
    <3>4. QED
      BY <2>4, <2>5, <3>2, <3>3
  <2>8. InQuotes(s, r, j, q, backslash)
          = IF (backslash /\ At(s, j) = "\\") \/ Two(s, j, q, q) THEN Whole(m, a, a, 0, j + 1)
            ELSE IF At(s, j) = q THEN Whole("closing", a, a, 0, x)
            ELSE r
    BY <2>5, InQuotesCases
  <2>9. f[j] = IF backslash /\ At(s, j) = "\\" THEN f[j + 2]
               ELSE IF Two(s, j, q, q) THEN f[j + 2]
               ELSE IF At(s, j) = q THEN j + 1
               ELSE f[j + 1]
    <3>1. ~(j > Len(s))
      BY <1>1, <2>2
    <3>2. QED
      BY <1>0, <2>2, <3>1
  <2>10. CASE (backslash /\ At(s, j) = "\\") \/ Two(s, j, q, q)
    <3>1. PICK t : t = Whole(m, a, a, 0, j + 1)
      OBVIOUS
    <3>2. t.m = m /\ t.from = a
      BY <3>1, WholeParts
    <3>3. Regions(s)[j] = t /\ f[j] = f[j + 2]
      BY <2>7, <2>8, <2>9, <2>10, <3>1
    <3>4. ASSUME j + 1 <= Len(s) PROVE Regions(s)[j + 1] = t
      <4>1. j + 1 \in 1 .. Len(s) /\ (j + 1) - 1 = j /\ j + 1 <= j + 1
        BY <2>2, <3>4
      <4>2. Regions(s)[j + 1] = Continues(s, t, j + 1)
        BY <1>1, <3>3, <4>1, RegionsDefined
      <4>3. QED
        BY <3>1, <4>1, <4>2, ContinuesSkip
    <3>5. ASSUME j + 2 <= Len(s) PROVE Inside(s, a, m, 0, j + 2)
      <4>1. j + 1 <= Len(s) /\ j + 1 \in Nat /\ j + 1 < j + 2 /\ (j + 2) - 1 = j + 1
        BY <1>1, <2>2, <3>5
      <4>2. QED
        BY <3>1, <3>4, <4>1 DEF Inside
    <3>6. Scanned(s, a, m, j + 2, f[j + 2])
      <4>1. j + 2 \in Nat /\ j + 2 > j
        BY <2>2
      <4>2. QED
        BY <2>3, <3>5, <4>1
    <3>7. \A k \in j .. (j + 2) - 1 : k <= Len(s) => Regions(s)[k].from = a /\ Regions(s)[k].m = m
      <4>1. \A k \in j .. (j + 2) - 1 : k = j \/ k = j + 1
        BY <2>2
      <4>2. QED
        BY <3>2, <3>3, <3>4, <4>1
    <3>8. Scanned(s, a, m, j, f[j + 2])
      <4>1. j + 2 \in Nat /\ j < j + 2
        BY <2>2
      <4>2. QED
        BY <1>1, <2>2, <3>6, <3>7, <4>1, ScannedBack
    <3>9. QED
      BY <2>2, <3>3, <3>8
  <2>11. CASE ~((backslash /\ At(s, j) = "\\") \/ Two(s, j, q, q)) /\ At(s, j) = q
    <3>1. PICK t : t = Whole("closing", a, a, 0, x)
      OBVIOUS
    <3>2. t.m = "closing" /\ t.from = a /\ t.skip = x
      BY <3>1, WholeParts
    <3>3. Regions(s)[j] = t /\ f[j] = j + 1
      BY <2>7, <2>8, <2>9, <2>11, <3>1
    <3>4. Sync(s, j + 1)
      <4>1. ~(j + 1 <= t.skip)
        BY <2>2, <2>4, <3>2
      <4>2. Continues(s, t, j + 1) = Begins(s, j + 1)
        BY <3>2, <4>1, ContinuesCode
      <4>3. t.m \notin Open
        BY <3>2 DEF Open
      <4>4. QED
        BY <1>1, <2>2, <3>3, <4>2, <4>3, SyncAfter
    <3>5. Closed(s, a, m, j, j + 1)
      <4>1. j + 1 \in j + 1 .. Len(s) + 1 /\ \A k \in j .. (j + 1) - 1 : k = j
        BY <1>1, <2>2
      <4>2. QED
        BY <3>2, <3>3, <3>4, <4>1 DEF Closed
    <3>6. QED
      BY <2>2, <3>3, <3>5 DEF Scanned
  <2>12. CASE ~((backslash /\ At(s, j) = "\\") \/ Two(s, j, q, q)) /\ At(s, j) # q
    <3>1. Regions(s)[j] = r /\ f[j] = f[j + 1]
      BY <2>7, <2>8, <2>9, <2>12
    <3>2. Inside(s, a, m, 0, j + 1)
      <4>1. x < j + 1 /\ (j + 1) - 1 = j
        BY <2>2, <2>4
      <4>2. QED
        BY <2>5, <3>1, <4>1 DEF Inside
    <3>3. Scanned(s, a, m, j + 1, f[j + 1])
      <4>1. j + 1 \in Nat /\ j + 1 > j
        BY <2>2
      <4>2. QED
        BY <2>3, <3>2, <4>1
    <3>4. \A k \in j .. (j + 1) - 1 : k <= Len(s) => Regions(s)[k].from = a /\ Regions(s)[k].m = m
      <4>1. \A k \in j .. (j + 1) - 1 : k = j
        BY <2>2
      <4>2. QED
        BY <2>6, <3>1, <4>1
    <3>5. Scanned(s, a, m, j, f[j + 1])
      <4>1. j + 1 \in Nat /\ j < j + 1
        BY <2>2
      <4>2. QED
        BY <1>1, <2>2, <3>3, <3>4, <4>1, ScannedBack
    <3>6. QED
      BY <2>2, <3>1, <3>5
  <2>13. QED
    BY <2>10, <2>11, <2>12
<1>4. CASE b <= Len(s)
  <2>1. b \notin Bad /\ b \in 1 .. Len(s)
    BY <1>1, <1>3, <1>4
  <2>2. QED
    BY <1>4, <2>1
<1>5. CASE ~(b <= Len(s))
  <2>1. b \in Nat /\ b > Len(s)
    BY <1>1, <1>5
  <2>2. QED
    BY <1>2, <2>1
<1>6. QED
  BY <1>4, <1>5

(* A block comment, one character after the other, at any depth.            *)
LEMMA BlockScanned ==
    ASSUME NEW s, IsText(s), NEW a \in 1 .. Len(s), NEW f,
           CommentScan(s, f),
           NEW b \in 1 .. Len(s) + 1, b <= Len(s) => Inside(s, a, "block", 1, b)
    PROVE  Scanned(s, a, "block", b, f[b][1])
<1>1. Len(s) \in Nat
  BY AtText
<1> DEFINE Depth == Nat \ {0}
<1>0. ASSUME NEW j \in Nat, NEW d \in Depth
      PROVE  f[j][d] = IF j > Len(s) THEN 0
                       ELSE IF Two(s, j, "/", "*") THEN f[j + 2][d + 1]
                       ELSE IF Two(s, j, "*", "/") THEN f[j + 2][d - 1]
                       ELSE f[j + 1][d]
  <2>1. d \in Nat /\ d # 0
    OBVIOUS
  <2>2. f[j] = [depth \in Nat |->
                  IF depth = 0 THEN j
                  ELSE IF j > Len(s) THEN 0
                  ELSE IF Two(s, j, "/", "*") THEN f[j + 2][depth + 1]
                  ELSE IF Two(s, j, "*", "/") THEN f[j + 2][depth - 1]
                  ELSE f[j + 1][depth]]
    BY DEF CommentScan
  <2>3. QED
    BY <2>1, <2>2
<1>2. ASSUME NEW j \in Nat, NEW d \in Depth, j > Len(s) PROVE Scanned(s, a, "block", j, f[j][d])
  <2>1. f[j][d] = 0 /\ j .. Len(s) = {}
    BY <1>0, <1>1, <1>2
  <2>2. QED
    BY <2>1 DEF Scanned, Unclosed
<1> DEFINE Bad == {j \in 1 .. Len(s) :
                     \E d \in Depth : Inside(s, a, "block", d, j) /\ ~Scanned(s, a, "block", j, f[j][d])}
<1>3. Bad = {}
  <2> SUFFICES ASSUME Bad # {} PROVE FALSE
    OBVIOUS
  <2>1. PICK j \in Bad : \A k \in Bad : k <= j
    <3>1. Bad \in SUBSET (1 .. Len(s))
      OBVIOUS
    <3> HIDE DEF Bad
    <3>2. QED
      BY <1>1, <3>1, Greatest
  <2>2. PICK d \in Depth : Inside(s, a, "block", d, j) /\ ~Scanned(s, a, "block", j, f[j][d])
    BY <2>1
  <2>3. ASSUME NEW k \in Nat, NEW c \in Depth, k > j, k <= Len(s) => Inside(s, a, "block", c, k)
        PROVE  Scanned(s, a, "block", k, f[k][c])
    <3>1. CASE k <= Len(s)
      <4>1. k \in 1 .. Len(s) /\ ~(k <= j)
        BY <1>1, <2>1, <2>3, <3>1
      <4>2. k \notin Bad
        BY <2>1, <4>1
      <4>3. QED
        BY <2>3, <3>1, <4>1, <4>2
    <3>2. QED
      BY <1>1, <1>2, <2>3, <3>1
  <2>4. PICK x \in Nat : x < j /\ Regions(s)[j - 1] = Whole("block", a, a, d, x)
    BY <2>2 DEF Inside
  <2>5. PICK r : r = Whole("block", a, a, d, x)
    OBVIOUS
  <2>6. r.m = "block" /\ r.from = a /\ r.skip = x
    BY <2>5, WholeParts
  <2>7. j \in 1 .. Len(s) /\ j \in Nat /\ d \in Nat /\ d # 0
    BY <1>1, <2>1, <2>2
  <2>8. Regions(s)[j] = InBlock(s, r, j)
    <3>1. ~(j <= r.skip)
      BY <2>4, <2>6, <2>7
    <3>2. Continues(s, r, j) = InBlock(s, r, j)
      BY <2>6, <3>1, ContinuesBlock
    <3>3. Regions(s)[j] = Continues(s, Regions(s)[j - 1], j)
      BY <1>1, <2>7, RegionsDefined
    <3>4. QED
      BY <2>4, <2>5, <3>2, <3>3
  <2>9. InBlock(s, r, j)
          = IF Two(s, j, "/", "*") THEN Whole("block", a, a, d + 1, j + 1)
            ELSE IF ~Two(s, j, "*", "/") THEN r
            ELSE IF d = 1 THEN Whole("closing", a, a, d, j + 1)
            ELSE Whole("block", a, a, d - 1, j + 1)
    BY <2>5, <2>7, InBlockCases
  <2>10. f[j][d] = IF Two(s, j, "/", "*") THEN f[j + 2][d + 1]
                   ELSE IF Two(s, j, "*", "/") THEN f[j + 2][d - 1]
                   ELSE f[j + 1][d]
    <3>1. ~(j > Len(s))
      BY <1>1, <2>7
    <3>2. QED
      BY <1>0, <2>7, <3>1
  <2>11. j + 1 \in Nat /\ j + 2 \in Nat /\ j < j + 1 /\ j < j + 2 /\ j + 1 < j + 2 /\ (j + 1) - 1 = j
           /\ (j + 2) - 1 = j + 1 /\ j + 1 <= j + 1
    BY <2>7
  (* The mark of two at j leaves the region t for both its characters. *)
  <2>12. ASSUME NEW m \in {"block", "closing"}, NEW c \in Nat, NEW t, t = Whole(m, a, a, c, j + 1),
                Regions(s)[j] = t, j + 1 <= Len(s)
         PROVE  Regions(s)[j + 1] = t
    <3>1. j + 1 \in 1 .. Len(s)
      BY <2>7, <2>12
    <3>2. Regions(s)[j + 1] = Continues(s, t, j + 1)
      BY <1>1, <2>11, <2>12, <3>1, RegionsDefined
    <3>3. QED
      BY <2>11, <2>12, <3>2, ContinuesSkip
  <2>13. ASSUME NEW c \in Depth, Regions(s)[j] = Whole("block", a, a, c, j + 1)
         PROVE  Scanned(s, a, "block", j, f[j + 2][c])
    <3>1. PICK t : t = Whole("block", a, a, c, j + 1)
      OBVIOUS
    <3>2. t.m = "block" /\ t.from = a
      BY <3>1, WholeParts
    <3>3. j + 1 <= Len(s) => Regions(s)[j + 1] = t
      BY <2>12, <2>13, <3>1
    <3>4. ASSUME j + 2 <= Len(s) PROVE Inside(s, a, "block", c, j + 2)
      <4>1. j + 1 <= Len(s)
        BY <1>1, <2>7, <3>4
      <4>2. QED
        BY <2>11, <3>1, <3>3, <4>1 DEF Inside
    <3>5. Scanned(s, a, "block", j + 2, f[j + 2][c])
      BY <2>3, <2>11, <3>4
    <3>6. \A k \in j .. (j + 2) - 1 : k <= Len(s) => Regions(s)[k].from = a /\ Regions(s)[k].m = "block"
      <4>1. \A k \in j .. (j + 2) - 1 : k = j \/ k = j + 1
        BY <2>7
      <4>2. QED
        BY <2>13, <3>1, <3>2, <3>3, <4>1
    <3>7. QED
      BY <1>1, <2>7, <2>11, <3>5, <3>6, ScannedBack
  <2>14. CASE Two(s, j, "/", "*")
    <3>1. Regions(s)[j] = Whole("block", a, a, d + 1, j + 1) /\ f[j][d] = f[j + 2][d + 1]
      BY <2>8, <2>9, <2>10, <2>14
    <3>2. d + 1 \in Depth
      BY <2>7
    <3>3. QED
      BY <2>2, <2>13, <3>1, <3>2
  <2>15. CASE ~Two(s, j, "/", "*") /\ Two(s, j, "*", "/") /\ d # 1
    <3>1. Regions(s)[j] = Whole("block", a, a, d - 1, j + 1) /\ f[j][d] = f[j + 2][d - 1]
      BY <2>8, <2>9, <2>10, <2>15
    <3>2. d - 1 \in Depth
      BY <2>7, <2>15
    <3>3. QED
      BY <2>2, <2>13, <3>1, <3>2
  <2>16. CASE ~Two(s, j, "/", "*") /\ Two(s, j, "*", "/") /\ d = 1
    <3>1. PICK t : t = Whole("closing", a, a, d, j + 1)
      OBVIOUS
    <3>2. t.m = "closing" /\ t.from = a /\ t.skip = j + 1
      BY <3>1, WholeParts
    <3>3. Regions(s)[j] = t
      BY <2>8, <2>9, <2>16, <3>1
    <3>4. f[j][d] = j + 2
      <4>1. f[j][d] = f[j + 2][0]
        BY <2>10, <2>16
      <4>2. f[j + 2][0] = j + 2
        BY <2>11 DEF CommentScan
      <4>3. QED
        BY <4>1, <4>2
    <3>5. j + 1 \in 1 .. Len(s)
      <4>1. At(s, j + 1) = "/"
        BY <2>16 DEF Two
      <4>2. QED
        BY <1>1, <2>7, <4>1, AtText
    <3>6. Regions(s)[j + 1] = t
      <4>1. j + 1 <= Len(s)
        BY <1>1, <3>5
      <4>2. QED
        BY <2>7, <2>12, <3>1, <3>3, <4>1
    <3>7. Sync(s, (j + 1) + 1)
      <4>1. ~((j + 1) + 1 <= t.skip)
        BY <2>7, <3>2
      <4>2. Continues(s, t, (j + 1) + 1) = Begins(s, (j + 1) + 1)
        BY <3>2, <4>1, ContinuesCode
      <4>3. t.m \notin Open
        BY <3>2 DEF Open
      <4>4. QED
        BY <1>1, <3>5, <3>6, <4>2, <4>3, SyncAfter
    <3>8. Closed(s, a, "block", j, j + 2)
      <4>1. j + 2 \in j + 1 .. Len(s) + 1 /\ (\A k \in j .. (j + 2) - 1 : k = j \/ k = j + 1) /\ (j + 1) + 1 = j + 2
        BY <1>1, <2>7, <3>5
      <4>2. Sync(s, j + 2)
        BY <3>7, <4>1
      <4>3. QED
        BY <3>2, <3>3, <3>6, <4>1, <4>2 DEF Closed
    <3>9. j + 2 # 0
      BY <2>7
    <3>10. QED
      BY <2>2, <3>4, <3>8, <3>9 DEF Scanned
  <2>17. CASE ~Two(s, j, "/", "*") /\ ~Two(s, j, "*", "/")
    <3>1. Regions(s)[j] = r /\ f[j][d] = f[j + 1][d]
      BY <2>8, <2>9, <2>10, <2>17
    <3>2. Inside(s, a, "block", d, j + 1)
      <4>1. x < j + 1 /\ (j + 1) - 1 = j
        BY <2>4, <2>7
      <4>2. QED
        BY <2>5, <3>1, <4>1 DEF Inside
    <3>3. Scanned(s, a, "block", j + 1, f[j + 1][d])
      BY <2>3, <2>11, <3>2
    <3>4. \A k \in j .. (j + 1) - 1 : k <= Len(s) => Regions(s)[k].from = a /\ Regions(s)[k].m = "block"
      <4>1. \A k \in j .. (j + 1) - 1 : k = j
        BY <2>7
      <4>2. QED
        BY <2>6, <3>1, <4>1
    <3>5. Scanned(s, a, "block", j, f[j + 1][d])
      BY <1>1, <2>7, <2>11, <3>3, <3>4, ScannedBack
    <3>6. QED
      BY <2>2, <3>1, <3>5
  <2>18. QED
    BY <2>14, <2>15, <2>16, <2>17
<1>4. 1 \in Depth
  OBVIOUS
<1>5. CASE b <= Len(s)
  <2>1. b \notin Bad /\ b \in 1 .. Len(s)
    BY <1>1, <1>3, <1>5
  <2>2. QED
    BY <1>4, <1>5, <2>1
<1>6. CASE ~(b <= Len(s))
  <2>1. b \in Nat /\ b > Len(s)
    BY <1>1, <1>6
  <2>2. QED
    BY <1>2, <1>4, <2>1
<1>7. QED
  BY <1>5, <1>6

LEMMA BlockToken ==
    ASSUME NEW s, IsText(s), NEW a \in 1 .. Len(s), Sync(s, a), Two(s, a, "/", "*"),
           NEW e, e = CommentEnd(s, a)
    PROVE  IF e = 0 THEN LeftOpen(s, a) ELSE Token(s, a, e, "block") /\ e \in a + 1 .. Len(s) + 1
<1>1. Len(s) \in Nat /\ a \in Nat
  BY AtText
<1>2. PICK f : CommentScan(s, f) /\ \A k : CommentEnd(s, k) = f[k + 2][1]
  BY <1>1, CommentEndDefined
<1>3. PICK r : r = Whole("block", a, a, 1, a + 1)
  OBVIOUS
<1>4. r.m = "block" /\ r.from = a
  BY <1>3, WholeParts
<1>5. Regions(s)[a] = r
  <2>1. Begins(s, a) = Whole("block", a, a, 1, a + 1)
    BY BeginsCases
  <2>2. QED
    BY <1>3, <2>1 DEF Sync
<1>6. a + 1 \in 1 .. Len(s)
  <2>1. At(s, a + 1) = "*"
    BY DEF Two
  <2>2. QED
    BY <1>1, <2>1, AtText
<1>7. Regions(s)[a + 1] = r
  <2>1. (a + 1) - 1 = a /\ a + 1 <= a + 1
    BY <1>1
  <2>2. Regions(s)[a + 1] = Continues(s, r, a + 1)
    BY <1>1, <1>5, <1>6, <2>1, RegionsDefined
  <2>3. QED
    BY <1>3, <2>1, <2>2, ContinuesSkip
<1>8. Inside(s, a, "block", 1, a + 2)
  <2>1. a + 1 \in Nat /\ a + 1 < a + 2 /\ (a + 2) - 1 = a + 1
    BY <1>1
  <2>2. QED
    BY <1>3, <1>7, <2>1 DEF Inside
<1>9. Scanned(s, a, "block", a + 2, f[a + 2][1])
  <2>1. a + 2 \in 1 .. Len(s) + 1
    BY <1>1, <1>6
  <2>2. QED
    BY <1>2, <1>8, <2>1, BlockScanned
<1>10. Scanned(s, a, "block", a, e)
  <2>1. e = f[a + 2][1]
    BY <1>2
  <2>2. \A k \in a .. (a + 2) - 1 : k = a \/ k = a + 1
    BY <1>1
  <2>3. \A k \in a .. (a + 2) - 1 : k <= Len(s) => Regions(s)[k].from = a /\ Regions(s)[k].m = "block"
    BY <1>4, <1>5, <1>7, <2>2
  <2>4. a + 2 \in Nat /\ a < a + 2
    BY <1>1
  <2>5. QED
    BY <1>1, <1>9, <2>1, <2>3, <2>4, ScannedBack
<1>11. QED
  <2>1. "block" \in Open /\ Regions(s)[a].m = "block"
    BY <1>4, <1>5 DEF Open
  <2>2. QED
    BY <1>1, <1>10, <2>1, ScannedToken

LEMMA QuotesToken ==
    ASSUME NEW s, IsText(s), NEW a \in 1 .. Len(s), Sync(s, a), NEW m \in Open, NEW q, NEW backslash,
           Begins(s, a) = Whole(m, a, a, 0, 0),
           LikeQuotes(s, a, m, q, backslash),
           NEW e, e = QuoteEnd(s, a, q, backslash)
    PROVE  IF e = 0 THEN LeftOpen(s, a) ELSE Token(s, a, e, m) /\ e \in a + 1 .. Len(s) + 1
<1>1. Len(s) \in Nat /\ a \in Nat
  BY AtText
<1>2. PICK f : QuoteScan(s, q, backslash, f) /\ \A k : QuoteEnd(s, k, q, backslash) = f[k + 1]
  BY <1>1, QuoteEndDefined
<1>3. PICK r : r = Whole(m, a, a, 0, 0)
  OBVIOUS
<1>4. r.m = m /\ r.from = a
  BY <1>3, WholeParts
<1>5. Regions(s)[a] = r
  BY <1>3 DEF Sync
<1>6. Inside(s, a, m, 0, a + 1)
  <2>1. 0 \in Nat /\ 0 < a + 1 /\ (a + 1) - 1 = a
    BY <1>1
  <2>2. QED
    BY <1>3, <1>5, <2>1 DEF Inside
<1>7. Scanned(s, a, m, a + 1, f[a + 1])
  <2>1. a + 1 \in 1 .. Len(s) + 1
    BY <1>1
  <2>2. QED
    BY <1>2, <1>6, <2>1, QuotesScanned
<1>8. Scanned(s, a, m, a, e)
  <2>1. e = f[a + 1]
    BY <1>2
  <2>2. \A k \in a .. (a + 1) - 1 : k = a
    BY <1>1
  <2>3. \A k \in a .. (a + 1) - 1 : k <= Len(s) => Regions(s)[k].from = a /\ Regions(s)[k].m = m
    BY <1>4, <1>5, <2>2
  <2>4. a + 1 \in Nat /\ a < a + 1
    BY <1>1
  <2>5. QED
    BY <1>1, <1>7, <2>1, <2>3, <2>4, ScannedBack
<1>9. QED
  BY <1>1, <1>4, <1>5, <1>8, ScannedToken

LEMMA StringToken ==
    ASSUME NEW s, IsText(s), NEW a \in 1 .. Len(s), Sync(s, a), At(s, a) = "'",
           NEW e, e = QuoteEnd(s, a, "'", EscapePrefix(s, a))
    PROVE  IF e = 0 THEN LeftOpen(s, a) ELSE Token(s, a, e, "string") /\ e \in a + 1 .. Len(s) + 1
<1>1. Begins(s, a) = Whole("string", a, a, 0, 0)
  BY BeginsCases
<1>2. ASSUME NEW r, NEW k, r.m = "string", r.from = a, ~(k <= r.skip)
      PROVE  Continues(s, r, k) = InQuotes(s, r, k, "'", EscapePrefix(s, a))
  BY <1>2, ContinuesString
<1>3. LikeQuotes(s, a, "string", "'", EscapePrefix(s, a))
  BY <1>2 DEF LikeQuotes
<1>4. "string" \in Open
  BY DEF Open
<1>5. QED
  BY <1>1, <1>3, <1>4, QuotesToken

LEMMA IdentToken ==
    ASSUME NEW s, IsText(s), NEW a \in 1 .. Len(s), Sync(s, a), At(s, a) = "\"",
           NEW e, e = QuoteEnd(s, a, "\"", FALSE)
    PROVE  IF e = 0 THEN LeftOpen(s, a) ELSE Token(s, a, e, "ident") /\ e \in a + 1 .. Len(s) + 1
<1>1. Begins(s, a) = Whole("ident", a, a, 0, 0)
  BY BeginsCases
<1>2. LikeQuotes(s, a, "ident", "\"", FALSE)
  BY ContinuesIdent DEF LikeQuotes
<1>3. "ident" \in Open
  BY DEF Open
<1>4. QED
  BY <1>1, <1>2, <1>3, QuotesToken

(* What follows a dollar sign is a tag up to character j.                  *)
LEMMA TagRun ==
    ASSUME NEW s, IsText(s), NEW a \in 1 .. Len(s), Sync(s, a), At(s, a) = "$",
           NEW j, j = RunEnd(s, a + 1, TagChar), NEW r, r = Whole("param", a, a, 0, 0)
    PROVE  /\ j \in a + 1 .. Len(s) + 1
           /\ At(s, j) \notin TagChar
           /\ Regions(s)[a] = r
           /\ \A k \in a + 1 .. j - 1 : Continues(s, r, k) = r
           /\ \A k \in a .. j - 1 : Regions(s)[k] = r
           /\ j <= Len(s) => Continues(s, r, j) = InParam(s, r, j)
<1>1. Len(s) \in Nat
  BY AtText
<1>2. j \in a + 1 .. Len(s) + 1 /\ At(s, j) \notin TagChar /\ \A k \in a + 1 .. j - 1 : At(s, k) \in TagChar
  <2>1. a + 1 \in 1 .. Len(s) + 1
    BY <1>1
  <2>2. QED
    BY <2>1, RunEndFound, Ends
<1>3. r.m = "param" /\ r.from = a /\ r.skip = 0
  BY WholeParts
<1>4. Regions(s)[a] = r
  <2>1. Begins(s, a) = Whole("param", a, a, 0, 0)
    BY BeginsCases
  <2>2. QED
    BY <2>1 DEF Sync
<1>5. ASSUME NEW k \in a + 1 .. Len(s) PROVE Continues(s, r, k) = InParam(s, r, k)
  <2>1. ~(k <= r.skip)
    BY <1>3
  <2>2. QED
    BY <1>3, <2>1, ContinuesParam
<1>6. ASSUME NEW k \in a + 1 .. j - 1 PROVE Continues(s, r, k) = r
  <2>1. k \in a + 1 .. Len(s) /\ At(s, k) \in TagChar
    BY <1>1, <1>2
  <2>2. InParam(s, r, k) = r
    BY <2>1 DEF InParam
  <2>3. QED
    BY <1>5, <2>1, <2>2
<1>7. \A k \in a .. j - 1 : Regions(s)[k] = r
  <2>1. a \in 0 .. Len(s) /\ j - 1 \in a .. Len(s) /\ a + 1 .. j - 1 = a + 1 .. (j - 1)
    BY <1>1, <1>2
  <2>2. QED
    BY <1>1, <1>4, <1>6, <2>1, Run
<1>8. QED
  BY <1>1, <1>2, <1>4, <1>5, <1>6, <1>7

LEMMA ParamToken ==
    ASSUME NEW s, IsText(s), NEW a \in 1 .. Len(s), Sync(s, a), At(s, a) = "$",
           NEW j, j = RunEnd(s, a + 1, TagChar),
           ~(At(s, j) = "$" /\ At(s, a + 1) \notin Digit)
    PROVE  Token(s, a, j, "param") /\ j \in a + 1 .. Len(s) + 1
<1>1. Len(s) \in Nat
  BY AtText
<1>2. PICK r : r = Whole("param", a, a, 0, 0)
  OBVIOUS
<1>3. r.m = "param" /\ r.from = a
  BY <1>2, WholeParts
<1>4. /\ j \in a + 1 .. Len(s) + 1
      /\ At(s, j) \notin TagChar
      /\ Regions(s)[a] = r
      /\ \A k \in a + 1 .. j - 1 : Continues(s, r, k) = r
      /\ j <= Len(s) => Continues(s, r, j) = InParam(s, r, j)
  BY <1>2, TagRun
<1>5. InParam(s, r, j) = Begins(s, j)
  BY <1>3, <1>4 DEF InParam
<1>6. r.m \notin Open
  BY <1>3 DEF Open
<1>7. Token(s, a, j, r.m)
  BY <1>1, <1>3, <1>4, <1>5, <1>6, RunToken
<1>8. QED
  BY <1>3, <1>4, <1>7

(* The tag that opened a dollar quote closes it, where it is found first.  *)
LEMMA DollarToken ==
    ASSUME NEW s, IsText(s), NEW a \in 1 .. Len(s), Sync(s, a), At(s, a) = "$",
           NEW j, j = RunEnd(s, a + 1, TagChar),
           At(s, j) = "$", At(s, a + 1) \notin Digit
    PROVE  /\ j \in a + 1 .. Len(s)
           /\ Again(s, a, j) = {} => LeftOpen(s, a)
           /\ Again(s, a, j) # {} =>
                LET e == Min(Again(s, a, j)) + j - a + 1
                IN  Token(s, a, e, "dollar") /\ e \in a + 1 .. Len(s) + 1
<1>1. Len(s) \in Nat /\ a \in Nat
  BY AtText
<1>2. PICK p : p = Whole("param", a, a, 0, 0)
  OBVIOUS
<1>3. p.m = "param" /\ p.from = a
  BY <1>2, WholeParts
<1>4. /\ j \in a + 1 .. Len(s) + 1
      /\ At(s, j) \notin TagChar
      /\ \A k \in a .. j - 1 : Regions(s)[k] = p
      /\ j <= Len(s) => Continues(s, p, j) = InParam(s, p, j)
  BY <1>2, TagRun
<1>5. j \in 1 .. Len(s) /\ j \in a + 1 .. Len(s)
  BY <1>1, <1>4, AtText
<1>6. PICK r : r = Whole("dollar", a, j, 0, 0)
  OBVIOUS
<1>7. r.m = "dollar" /\ r.from = a /\ r.to = j /\ r.skip = 0
  BY <1>6, WholeParts
<1>8. Regions(s)[j] = r
  <2>1. Regions(s)[j] = Continues(s, Regions(s)[j - 1], j)
    BY <1>1, <1>5, RegionsDefined
  <2>2. j - 1 \in a .. j - 1 /\ j <= Len(s)
    BY <1>1, <1>5
  <2>3. Regions(s)[j] = InParam(s, p, j)
    BY <1>4, <2>1, <2>2
  <2>4. PICK b : b = [Region("dollar", p.from) EXCEPT !.to = j]
    OBVIOUS
  <2>5. InParam(s, p, j) = b
    BY <1>3, <1>4, <2>4 DEF InParam
  <2>6. b = r
    BY <1>3, <1>6, <2>4 DEF Region, Whole
  <2>7. QED
    BY <2>3, <2>5, <2>6
<1> DEFINE size == j - a + 1
           Found(k) == k - size >= j /\ SubSeq(s, k - size + 1, k) = SubSeq(s, a, j)
<1>9. ASSUME NEW k \in j + 1 .. Len(s)
      PROVE  Continues(s, r, k) = IF Found(k) THEN Closing(r) ELSE r
  <2>1. ~(k <= r.skip)
    BY <1>5, <1>7
  <2>2. Continues(s, r, k) = InDollar(s, r, k)
    BY <1>7, <2>1, ContinuesDollar
  <2>3. QED
    BY <1>7, <2>2 DEF InDollar
<1>10. ASSUME NEW k \in j + 1 .. Len(s)
       PROVE  Found(k) <=> k - size + 1 \in Again(s, a, j)
  <2>1. k - size + 1 \in Int /\ (k - size + 1) + j - a = k
    BY <1>1, <1>5
  <2>2. k - size + 1 \in j + 1 .. Len(s) + a - j <=> k - size >= j
    BY <1>1, <1>5
  <2>3. QED
    BY <2>1, <2>2 DEF Again
<1> HIDE DEF Found
<1>11. CASE Again(s, a, j) = {}
  <2>1. \A k \in j + 1 .. Len(s) : Continues(s, r, k) = r
    BY <1>9, <1>10, <1>11
  <2>2. \A k \in j .. Len(s) : Regions(s)[k] = r
    <3>1. j \in 0 .. Len(s) /\ Len(s) \in j .. Len(s)
      BY <1>1, <1>5
    <3>2. QED
      BY <1>1, <1>8, <2>1, <3>1, Run
  <2>3. ASSUME NEW k \in a .. Len(s) PROVE Regions(s)[k].from = a
    <3>1. k \in a .. j - 1 \/ k \in j .. Len(s)
      BY <1>5
    <3>2. QED
      BY <1>3, <1>4, <1>7, <2>2, <3>1
  <2>4. Regions(s)[Len(s)].m = "dollar"
    <3>1. Len(s) \in j .. Len(s)
      BY <1>1, <1>5
    <3>2. QED
      BY <1>7, <2>2, <3>1
  <2>5. LeftOpen(s, a)
    BY <2>3, <2>4 DEF LeftOpen, Open
  <2>6. QED
    BY <1>5, <1>11, <2>5
<1>12. CASE Again(s, a, j) # {}
  <2>1. Again(s, a, j) \in SUBSET Nat /\ Again(s, a, j) \subseteq j + 1 .. Len(s) + a - j
    BY <1>1, <1>5 DEF Again
  <2>2. PICK b : b = Min(Again(s, a, j))
    OBVIOUS
  <2>3. b \in Again(s, a, j) /\ \A k \in Again(s, a, j) : b <= k
    BY <1>12, <2>1, <2>2, MinFound
  <2>4. b \in j + 1 .. Len(s) + a - j
    BY <2>1, <2>3
  <2>5. PICK c : c = b + j - a
    OBVIOUS
  <2>6. c \in j + 1 .. Len(s) /\ c - size + 1 = b /\ b + j - a + 1 = c + 1 
           /\ c \in Int /\ j \in Int /\ a \in Int /\ b \in Int /\ Len(s) \in Int
           /\ j + 1 <= c /\ c <= Len(s) /\ a + 1 <= j /\ 1 <= a /\ c - size + 1 = b
    <3>1. b \in Int /\ j \in Int /\ a \in Int /\ Len(s) \in Int
      BY <1>1, <1>5, <2>4
    <3>2. j + 1 <= b /\ b <= Len(s) + a - j /\ a + 1 <= j /\ 1 <= a
      BY <1>5, <2>4, <3>1
    <3>3. c \in Int /\ c = b + j - a
      BY <2>5, <3>1
    <3>4. j + 1 <= c /\ c <= Len(s)
      BY ONLY <3>1, <3>2, <3>3
    <3>5. QED
      BY ONLY <3>1, <3>2, <3>3, <3>4
  <2>7. ASSUME NEW k \in j + 1 .. c - 1 PROVE Continues(s, r, k) = r
    <3>1. k \in j + 1 .. Len(s) /\ ~(b <= k - size + 1)
      BY ONLY k \in j + 1 .. c - 1, <2>6
    <3>2. k - size + 1 \notin Again(s, a, j)
      BY <2>3, <3>1
    <3>3. QED
      BY <1>9, <1>10, <3>1, <3>2
  <2>8. \A k \in j .. c - 1 : Regions(s)[k] = r
    <3>1. j \in 0 .. Len(s) /\ c - 1 \in j .. Len(s)
      BY ONLY <2>6
    <3>2. QED
      BY ONLY <1>1, <1>8, <2>7, <3>1, Run
  <2>9. PICK t : t = Whole("closing", a, j, 0, 0)
    OBVIOUS
  <2>10. t.m = "closing" /\ t.from = a /\ t.skip = 0 /\ Closing(r) = t
    BY <1>6, <2>9, WholeParts, ClosingWhole
  <2>11. Regions(s)[c] = t
    <3>1. c \in 1 .. Len(s) /\ c - 1 \in j .. c - 1
      BY <1>5, <2>6
    <3>2. Regions(s)[c] = Continues(s, r, c)
      BY <1>1, <2>8, <3>1, RegionsDefined
    <3>3. Found(c)
      BY <1>10, <2>3, <2>6
    <3>4. QED
      BY <1>9, <2>6, <2>10, <3>2, <3>3
  <2>12. Sync(s, c + 1)
    <3>1. c \in 1 .. Len(s) /\ ~(c + 1 <= t.skip)
      BY <1>5, <2>6, <2>10
    <3>2. Continues(s, t, c + 1) = Begins(s, c + 1)
      BY <2>10, <3>1, ContinuesCode
    <3>3. t.m \notin Open
      BY <2>10 DEF Open
    <3>4. QED
      BY <1>1, <2>11, <3>1, <3>2, <3>3, SyncAfter
  <2>13. ASSUME NEW k \in a .. (c + 1) - 1
         PROVE  Regions(s)[k].from = a /\ Regions(s)[k].m \in {"dollar", "closing", "param"}
    <3>1. k \in a .. j - 1 \/ k \in j .. c - 1 \/ k = c
      BY <1>5, <2>6
    <3>2. QED
      BY <1>3, <1>4, <1>7, <2>8, <2>10, <2>11, <3>1
  <2>14. Token(s, a, c + 1, "dollar") /\ c + 1 \in a + 1 .. Len(s) + 1
    <3>1. j \in a .. (c + 1) - 1 /\ a < c + 1 /\ c + 1 \in a + 1 .. Len(s) + 1
      BY ONLY <2>6
    <3>2. QED
      BY <1>7, <1>8, <2>12, <2>13, <3>1 DEF Token
  <2>15. QED
    BY <1>5, <1>12, <2>2, <2>6, <2>14
<1>13. QED
  BY <1>11, <1>12

-----------------------------------------------------------------------------
(* What tokenize has found before character b.                             *)

StartsTo(s, M, b) == {Regions(s)[k].from : k \in {k \in 1 .. b - 1 : Regions(s)[k].m \in M}}

TextTo(s, a, b) == SubSeq(s, a, Max({k \in a .. b - 1 : Regions(s)[k].from = a}))

WordsTo(s, b) == {<<a, TextTo(s, a, b)>> : a \in StartsTo(s, {"word"}, b)}

FromBelow(s, b) == \A k \in 1 .. b - 1 : Regions(s)[k].from \in 1 .. k

(* A statement has ended.                                                  *)
Parted(s, b) == \E j \in 1 .. b - 1 : Regions(s)[j].m = "code" /\ At(s, j) = ";"

(* There is a reason to stop at b.                                         *)
Stops(s, b) == b \in Seconds(s, Regions(s)) \/ b \in UIdents(s, Regions(s))

LEMMA StartsStep ==
    ASSUME NEW s, Len(s) \in Nat, NEW a \in 1 .. Len(s), NEW b \in a + 1 .. Len(s) + 1, NEW m,
           Token(s, a, b, m), NEW M, "closing" \notin M, "param" \notin M
    PROVE  StartsTo(s, M, b) = IF m \in M THEN StartsTo(s, M, a) \cup {a} ELSE StartsTo(s, M, a)
<1>1. \A k \in a .. b - 1 : Regions(s)[k].from = a /\ Regions(s)[k].m \in {m, "closing", "param"}
  BY DEF Token
<1>2. ASSUME NEW x \in StartsTo(s, M, b) PROVE x \in StartsTo(s, M, a) \/ (m \in M /\ x = a)
  <2>1. PICK k \in 1 .. b - 1 : Regions(s)[k].m \in M /\ x = Regions(s)[k].from
    BY DEF StartsTo
  <2>2. CASE k \in 1 .. a - 1
    BY <2>1, <2>2 DEF StartsTo
  <2>3. CASE k \in a .. b - 1
    BY <1>1, <2>1, <2>3
  <2>4. QED
    BY <2>2, <2>3
<1>3. ASSUME NEW x \in StartsTo(s, M, a) PROVE x \in StartsTo(s, M, b)
  <2>1. PICK k \in 1 .. a - 1 : Regions(s)[k].m \in M /\ x = Regions(s)[k].from
    BY DEF StartsTo
  <2>2. k \in 1 .. b - 1
    OBVIOUS
  <2>3. QED
    BY <2>1, <2>2 DEF StartsTo
<1>4. ASSUME m \in M PROVE a \in StartsTo(s, M, b)
  <2>1. PICK k \in a .. b - 1 : Regions(s)[k].m = m
    BY DEF Token
  <2>2. k \in 1 .. b - 1 /\ Regions(s)[k].from = a
    BY <1>1
  <2>3. QED
    BY <1>4, <2>1, <2>2 DEF StartsTo
<1>5. QED
  BY <1>2, <1>3, <1>4

LEMMA TextStep ==
    ASSUME NEW s, Len(s) \in Nat, NEW a \in 1 .. Len(s), NEW b \in a + 1 .. Len(s) + 1, NEW m,
           Token(s, a, b, m), NEW c \in 1 .. a - 1
    PROVE  TextTo(s, c, b) = TextTo(s, c, a)
<1>1. \A k \in a .. b - 1 : Regions(s)[k].from = a
  BY DEF Token
<1>2. ASSUME NEW k \in c .. b - 1, Regions(s)[k].from = c PROVE k \in c .. a - 1
  <2>1. k \notin a .. b - 1
    BY <1>1, <1>2
  <2>2. QED
    BY <2>1
<1>3. \A k \in c .. a - 1 : k \in c .. b - 1
  OBVIOUS
<1>4. {k \in c .. b - 1 : Regions(s)[k].from = c} = {k \in c .. a - 1 : Regions(s)[k].from = c}
  BY <1>2, <1>3
<1>5. QED
  BY <1>4 DEF TextTo

LEMMA TextOwn ==
    ASSUME NEW s, Len(s) \in Nat, NEW a \in 1 .. Len(s), NEW b \in a + 1 .. Len(s) + 1, NEW m,
           Token(s, a, b, m)
    PROVE  TextTo(s, a, b) = SubSeq(s, a, b - 1)
<1> DEFINE T == {k \in a .. b - 1 : Regions(s)[k].from = a}
<1>1. T = a .. b - 1
  BY DEF Token
<1>2. Max(T) = b - 1
  <2>1. b - 1 \in a .. b - 1 /\ \A k \in a .. b - 1 : k <= b - 1 /\ (k >= b - 1 => k = b - 1)
    OBVIOUS
  <2>2. Max(T) = CHOOSE x \in T : \A y \in T : x >= y
    BY DEF Max
  <2> HIDE DEF T
  <2>3. PICK x : x = Max(T)
    OBVIOUS
  <2>4. x \in a .. b - 1 /\ \A y \in a .. b - 1 : x >= y
    BY <1>1, <2>1, <2>2, <2>3
  <2>5. QED
    BY <2>1, <2>3, <2>4
<1>3. QED
  BY <1>2 DEF TextTo

LEMMA WordsStep ==
    ASSUME NEW s, Len(s) \in Nat, NEW a \in 1 .. Len(s), NEW b \in a + 1 .. Len(s) + 1, NEW m,
           Token(s, a, b, m), FromBelow(s, a)
    PROVE  WordsTo(s, b) = IF m = "word" THEN WordsTo(s, a) \cup {<<a, SubSeq(s, a, b - 1)>>}
                           ELSE WordsTo(s, a)
<1>1. StartsTo(s, {"word"}, b)
        = IF m = "word" THEN StartsTo(s, {"word"}, a) \cup {a} ELSE StartsTo(s, {"word"}, a)
  <2>1. PICK M : M = {"word"}
    OBVIOUS
  <2>2. "closing" \notin M /\ "param" \notin M /\ (m \in M <=> m = "word")
    BY <2>1
  <2>3. StartsTo(s, M, b) = IF m \in M THEN StartsTo(s, M, a) \cup {a} ELSE StartsTo(s, M, a)
    BY <2>2, StartsStep
  <2>4. QED
    BY <2>1, <2>2, <2>3
<1>2. \A c \in StartsTo(s, {"word"}, a) : c \in 1 .. a - 1
  <2> SUFFICES ASSUME NEW c \in StartsTo(s, {"word"}, a) PROVE c \in 1 .. a - 1
    OBVIOUS
  <2>1. PICK k \in 1 .. a - 1 : c = Regions(s)[k].from
    BY DEF StartsTo
  <2>2. c \in 1 .. k
    BY <2>1 DEF FromBelow
  <2>3. QED
    BY <2>2
<1>3. \A c \in StartsTo(s, {"word"}, a) : TextTo(s, c, b) = TextTo(s, c, a)
  BY <1>2, TextStep
<1>4. TextTo(s, a, b) = SubSeq(s, a, b - 1)
  BY TextOwn
<1> HIDE DEF StartsTo, TextTo
<1>5. CASE m = "word"
  BY <1>1, <1>3, <1>4, <1>5 DEF WordsTo
<1>6. CASE m # "word"
  BY <1>1, <1>3, <1>6 DEF WordsTo
<1>7. QED
  BY <1>5, <1>6

LEMMA FromStep ==
    ASSUME NEW s, Len(s) \in Nat, NEW a \in 1 .. Len(s), NEW b \in a + 1 .. Len(s) + 1, NEW m,
           Token(s, a, b, m), FromBelow(s, a)
    PROVE  FromBelow(s, b)
<1> SUFFICES ASSUME NEW k \in 1 .. b - 1 PROVE Regions(s)[k].from \in 1 .. k
  BY DEF FromBelow
<1>1. CASE k \in 1 .. a - 1
  BY <1>1 DEF FromBelow
<1>2. CASE k \in a .. b - 1
  BY <1>2 DEF Token
<1>3. QED
  BY <1>1, <1>2

LEMMA PartedStep ==
    ASSUME NEW s, Len(s) \in Nat, NEW a \in 1 .. Len(s), NEW b \in a + 1 .. Len(s) + 1, NEW m,
           Token(s, a, b, m), m = "code" => b = a + 1
    PROVE  Parted(s, b) <=> Parted(s, a) \/ (m = "code" /\ At(s, a) = ";")
<1>1. \A k \in a .. b - 1 : Regions(s)[k].m \in {m, "closing", "param"}
  BY DEF Token
<1>2. ASSUME Parted(s, b) PROVE Parted(s, a) \/ (m = "code" /\ At(s, a) = ";")
  <2>1. PICK j \in 1 .. b - 1 : Regions(s)[j].m = "code" /\ At(s, j) = ";"
    BY <1>2 DEF Parted
  <2>2. CASE j \in 1 .. a - 1
    BY <2>1, <2>2 DEF Parted
  <2>3. CASE j \in a .. b - 1
    <3>1. m = "code"
      BY <1>1, <2>1, <2>3
    <3>2. b = a + 1
      BY <3>1, Zenon
    <3>3. j = a
      BY <2>3, <3>2
    <3>4. QED
      BY <2>1, <3>1, <3>3
  <2>4. j \in 1 .. a - 1 \/ j \in a .. b - 1
    OBVIOUS
  <2>5. QED
    BY <2>2, <2>3, <2>4, Zenon
<1>3. ASSUME Parted(s, a) PROVE Parted(s, b)
  <2>1. PICK j \in 1 .. a - 1 : Regions(s)[j].m = "code" /\ At(s, j) = ";"
    BY <1>3 DEF Parted
  <2>2. j \in 1 .. b - 1
    OBVIOUS
  <2>3. QED
    BY <2>1, <2>2 DEF Parted
<1>4. ASSUME m = "code", At(s, a) = ";" PROVE Parted(s, b)
  <2>1. PICK k \in a .. b - 1 : Regions(s)[k].m = m
    BY DEF Token
  <2>2. b = a + 1
    BY <1>4, Zenon
  <2>3. k = a /\ k \in 1 .. b - 1
    BY <2>2
  <2>4. QED
    BY <1>4, <2>1, <2>3 DEF Parted
<1>5. QED
  BY <1>2, <1>3, <1>4

LEMMA StopsStep ==
    ASSUME NEW s, Len(s) \in Nat, NEW a \in 1 .. Len(s), NEW b \in a + 1 .. Len(s) + 1, NEW m,
           Token(s, a, b, m), \A k \in 1 .. a - 1 : ~Stops(s, k), ~Stops(s, a)
    PROVE  \A k \in 1 .. b - 1 : ~Stops(s, k)
<1> SUFFICES ASSUME NEW k \in 1 .. b - 1 PROVE ~Stops(s, k)
  OBVIOUS
<1>1. CASE k \in 1 .. a
  BY <1>1
<1>2. CASE k \in a + 1 .. b - 1
  <2>1. Regions(s)[k].from # k
    BY <1>2 DEF Token
  <2>2. QED
    BY <2>1 DEF Stops, Seconds, UIdents
<1>3. QED
  BY <1>1, <1>2

(* A reason to stop at b is seen from its first character.                 *)
LEMMA StopsCases ==
    ASSUME NEW s, Len(s) \in Nat, NEW a \in 1 .. Len(s), NEW m, NEW c, NEW d, NEW x,
           Sync(s, a), Begins(s, a) = Whole(m, a, c, d, x)
    PROVE  /\ a \in Seconds(s, Regions(s)) <=>
                Parted(s, a) /\ m \notin {"line", "block"} /\ At(s, a) \notin Blanks
           /\ a \in UIdents(s, Regions(s)) <=> m = "ident" /\ UPrefix(s, a)
<1>1. PICK r : r = Regions(s)[a]
  OBVIOUS
<1>2. r = Whole(m, a, c, d, x)
  BY <1>1 DEF Sync
<1>3. r.m = m /\ r.from = a
  BY <1>2, WholeParts
<1>4. a \in Seconds(s, Regions(s)) <=>
        Parted(s, a) /\ m \notin {"line", "block"} /\ At(s, a) \notin Blanks
  BY <1>1, <1>3 DEF Seconds, Parted
<1>5. a \in UIdents(s, Regions(s)) <=> m = "ident" /\ UPrefix(s, a)
  BY <1>1, <1>3 DEF UIdents
<1>6. QED
  BY <1>4, <1>5

-----------------------------------------------------------------------------
(* The tokens found before character b are those of the grammar.           *)

TextOf(s) ==
    (UNION {{SubSeq(s, a, b) : b \in Int} : a \in Int}) \cup {<<>>} \cup {<<At(s, k)>> : k \in 1 .. Len(s)}
TokenOf(s) == [kind : {"word", "quoted", "literal", "mark"}, text : TextOf(s), at : 1 .. Len(s)]

OfKind(ts, kind) == {ts[j].at : j \in {j \in DOMAIN ts : ts[j].kind = kind}}
WordsIn(ts) == {<<ts[j].at, ts[j].text>> : j \in {j \in DOMAIN ts : ts[j].kind = "word"}}

Literals == {"string", "dollar", "number"}
MarksTo(s, b) == {k \in StartsTo(s, {"code"}, b) : At(s, k) \in {"(", ")", "."}}

InOrder(b, ts) ==
    /\ \A j \in DOMAIN ts : ts[j].at \in 1 .. b - 1
    /\ \A j \in 2 .. Len(ts) : ts[j - 1].at < ts[j].at

MarksShown(s, ts) == \A j \in DOMAIN ts : ts[j].kind = "mark" => ts[j].text = <<At(s, ts[j].at)>>

TokensTo(s, b, ts) ==
    /\ ts \in Seq(TokenOf(s))
    /\ InOrder(b, ts)
    /\ OfKind(ts, "literal") = StartsTo(s, Literals, b)
    /\ OfKind(ts, "quoted") = StartsTo(s, {"ident"}, b)
    /\ OfKind(ts, "mark") = MarksTo(s, b)
    /\ WordsIn(ts) = WordsTo(s, b)
    /\ MarksShown(s, ts)

(* What tokenize knows before character b.                                 *)
LexedTo(s, b, p, ts) ==
    /\ Sync(s, b)
    /\ FromBelow(s, b)
    /\ p = Parted(s, b)
    /\ \A k \in 1 .. b - 1 : ~Stops(s, k)
    /\ TokensTo(s, b, ts)

LEMMA Appended ==
    ASSUME NEW S, NEW ts \in Seq(S), NEW t \in S
    PROVE  /\ Append(ts, t) \in Seq(S)
           /\ Len(ts) \in Nat /\ Len(Append(ts, t)) = Len(ts) + 1
           /\ DOMAIN ts = 1 .. Len(ts) /\ DOMAIN Append(ts, t) = 1 .. Len(ts) + 1
           /\ \A j \in 1 .. Len(ts) : Append(ts, t)[j] = ts[j]
           /\ Append(ts, t)[Len(ts) + 1] = t
OBVIOUS

LEMMA OfKindAppended ==
    ASSUME NEW S, NEW ts \in Seq(S), NEW t \in S, NEW kind
    PROVE  OfKind(Append(ts, t), kind)
             = IF t.kind = kind THEN OfKind(ts, kind) \cup {t.at} ELSE OfKind(ts, kind)
<1>1. PICK u : u = Append(ts, t)
  OBVIOUS
<1>2. /\ Len(ts) \in Nat
      /\ DOMAIN ts = 1 .. Len(ts) /\ DOMAIN u = 1 .. Len(ts) + 1
      /\ \A j \in 1 .. Len(ts) : u[j] = ts[j]
      /\ u[Len(ts) + 1] = t
  BY <1>1, Appended
<1>3. ASSUME NEW x \in OfKind(u, kind) PROVE x \in OfKind(ts, kind) \/ (t.kind = kind /\ x = t.at)
  <2>1. PICK j \in 1 .. Len(ts) + 1 : u[j].kind = kind /\ x = u[j].at
    BY <1>2 DEF OfKind
  <2>2. j \in 1 .. Len(ts) \/ j = Len(ts) + 1
    BY <1>2
  <2>3. QED
    BY <1>2, <2>1, <2>2 DEF OfKind
<1>4. ASSUME NEW x \in OfKind(ts, kind) PROVE x \in OfKind(u, kind)
  <2>1. PICK j \in 1 .. Len(ts) : ts[j].kind = kind /\ x = ts[j].at
    BY <1>2 DEF OfKind
  <2>2. j \in 1 .. Len(ts) + 1 /\ u[j] = ts[j]
    BY <1>2
  <2>3. QED
    BY <1>2, <2>1, <2>2 DEF OfKind
<1>5. ASSUME t.kind = kind PROVE t.at \in OfKind(u, kind)
  <2>1. Len(ts) + 1 \in 1 .. Len(ts) + 1
    BY <1>2
  <2>2. QED
    BY <1>2, <1>5, <2>1 DEF OfKind
<1>6. OfKind(u, kind) = IF t.kind = kind THEN OfKind(ts, kind) \cup {t.at} ELSE OfKind(ts, kind)
  BY <1>3, <1>4, <1>5
<1>7. QED
  BY <1>1, <1>6

LEMMA WordsAppended ==
    ASSUME NEW S, NEW ts \in Seq(S), NEW t \in S
    PROVE  WordsIn(Append(ts, t))
             = IF t.kind = "word" THEN WordsIn(ts) \cup {<<t.at, t.text>>} ELSE WordsIn(ts)
<1>1. PICK u : u = Append(ts, t)
  OBVIOUS
<1>2. /\ Len(ts) \in Nat
      /\ DOMAIN ts = 1 .. Len(ts) /\ DOMAIN u = 1 .. Len(ts) + 1
      /\ \A j \in 1 .. Len(ts) : u[j] = ts[j]
      /\ u[Len(ts) + 1] = t
  BY <1>1, Appended
<1>3. ASSUME NEW x \in WordsIn(u) PROVE x \in WordsIn(ts) \/ (t.kind = "word" /\ x = <<t.at, t.text>>)
  <2>1. PICK j \in 1 .. Len(ts) + 1 : u[j].kind = "word" /\ x = <<u[j].at, u[j].text>>
    BY <1>2 DEF WordsIn
  <2>2. j \in 1 .. Len(ts) \/ j = Len(ts) + 1
    BY <1>2
  <2>3. QED
    BY <1>2, <2>1, <2>2 DEF WordsIn
<1>4. ASSUME NEW x \in WordsIn(ts) PROVE x \in WordsIn(u)
  <2>1. PICK j \in 1 .. Len(ts) : ts[j].kind = "word" /\ x = <<ts[j].at, ts[j].text>>
    BY <1>2 DEF WordsIn
  <2>2. j \in 1 .. Len(ts) + 1 /\ u[j] = ts[j]
    BY <1>2
  <2>3. QED
    BY <1>2, <2>1, <2>2 DEF WordsIn
<1>5. ASSUME t.kind = "word" PROVE <<t.at, t.text>> \in WordsIn(u)
  <2>1. Len(ts) + 1 \in 1 .. Len(ts) + 1
    BY <1>2
  <2>2. QED
    BY <1>2, <1>5, <2>1 DEF WordsIn
<1>6. WordsIn(u) = IF t.kind = "word" THEN WordsIn(ts) \cup {<<t.at, t.text>>} ELSE WordsIn(ts)
  BY <1>3, <1>4, <1>5
<1>7. QED
  BY <1>1, <1>6

(* A token that begins behind the others is the last of them.              *)
LEMMA OrderAppended ==
    ASSUME NEW s, Len(s) \in Nat, NEW ts \in Seq(TokenOf(s)), NEW t \in TokenOf(s),
           NEW b \in t.at + 1 .. Len(s) + 1, InOrder(t.at, ts), MarksShown(s, ts),
           t.kind = "mark" => t.text = <<At(s, t.at)>>
    PROVE  InOrder(b, Append(ts, t)) /\ MarksShown(s, Append(ts, t))
<1>1. PICK u : u = Append(ts, t)
  OBVIOUS
<1>2. /\ Len(ts) \in Nat /\ Len(u) = Len(ts) + 1
      /\ DOMAIN ts = 1 .. Len(ts) /\ DOMAIN u = 1 .. Len(ts) + 1
      /\ \A j \in 1 .. Len(ts) : u[j] = ts[j]
      /\ u[Len(ts) + 1] = t
  BY <1>1, Appended
<1>3. PICK c \in 1 .. Len(s) : c = t.at /\ c < b
  BY DEF TokenOf
<1>4. \A j \in 1 .. Len(ts) : ts[j].at \in 1 .. c - 1
  BY <1>2, <1>3 DEF InOrder
<1>5. \A j \in 2 .. Len(ts) : ts[j - 1].at < ts[j].at
  BY DEF InOrder
<1>6. ASSUME NEW j \in 1 .. Len(ts) + 1 PROVE u[j].at \in 1 .. b - 1
  <2>1. CASE j \in 1 .. Len(ts)
    <3>1. ts[j].at \in 1 .. c - 1 /\ u[j] = ts[j]
      BY <1>2, <1>4, <2>1
    <3>2. QED
      BY <1>3, <3>1
  <2>2. CASE j = Len(ts) + 1
    BY <1>2, <1>3, <2>2
  <2>3. QED
    BY <1>2, <2>1, <2>2
<1>7. ASSUME NEW j \in 2 .. Len(ts) + 1 PROVE u[j - 1].at < u[j].at
  <2>1. CASE j \in 2 .. Len(ts)
    <3>1. j - 1 \in 1 .. Len(ts) /\ j \in 1 .. Len(ts)
      BY <2>1
    <3>2. u[j - 1] = ts[j - 1] /\ u[j] = ts[j]
      BY <1>2, <3>1
    <3>3. QED
      BY <1>5, <2>1, <3>2
  <2>2. CASE j = Len(ts) + 1
    <3>1. j - 1 \in 1 .. Len(ts)
      BY <1>2, <2>2
    <3>2. u[j - 1].at \in 1 .. c - 1 /\ u[j].at = c
      BY <1>2, <1>3, <1>4, <2>2, <3>1
    <3>3. QED
      BY <3>2
  <2>3. QED
    BY <1>2, <2>1, <2>2
<1>8. ASSUME NEW j \in 1 .. Len(ts) + 1, u[j].kind = "mark" PROVE u[j].text = <<At(s, u[j].at)>>
  <2>1. CASE j \in 1 .. Len(ts)
    BY <1>2, <1>8, <2>1 DEF MarksShown
  <2>2. CASE j = Len(ts) + 1
    BY <1>2, <1>8, <2>2
  <2>3. QED
    BY <1>2, <2>1, <2>2
<1>9. InOrder(b, u) /\ MarksShown(s, u)
  BY <1>2, <1>6, <1>7, <1>8 DEF InOrder, MarksShown
<1>10. QED
  BY <1>1, <1>9

(* What the region between a and b adds to the starts of each kind.        *)
LEMMA KindsStep ==
    ASSUME NEW s, Len(s) \in Nat, NEW a \in 1 .. Len(s), NEW b \in a + 1 .. Len(s) + 1, NEW m,
           Token(s, a, b, m)
    PROVE  /\ StartsTo(s, Literals, b)
                = IF m \in Literals THEN StartsTo(s, Literals, a) \cup {a} ELSE StartsTo(s, Literals, a)
           /\ StartsTo(s, {"ident"}, b)
                = IF m = "ident" THEN StartsTo(s, {"ident"}, a) \cup {a} ELSE StartsTo(s, {"ident"}, a)
           /\ MarksTo(s, b)
                = IF m = "code" /\ At(s, a) \in {"(", ")", "."} THEN MarksTo(s, a) \cup {a}
                  ELSE MarksTo(s, a)
<1>1. ASSUME NEW M, M \in {Literals, {"ident"}, {"code"}}
      PROVE  StartsTo(s, M, b) = IF m \in M THEN StartsTo(s, M, a) \cup {a} ELSE StartsTo(s, M, a)
  <2>1. "closing" \notin M /\ "param" \notin M
    BY <1>1 DEF Literals
  <2>2. QED
    BY <2>1, StartsStep
<1>2. PICK I : I = {"ident"}
  OBVIOUS
<1>3. PICK C : C = {"code"}
  OBVIOUS
<1>4. (m \in I <=> m = "ident") /\ (m \in C <=> m = "code")
  BY <1>2, <1>3
<1>5. StartsTo(s, Literals, b)
        = IF m \in Literals THEN StartsTo(s, Literals, a) \cup {a} ELSE StartsTo(s, Literals, a)
  BY <1>1
<1>6. StartsTo(s, I, b) = IF m \in I THEN StartsTo(s, I, a) \cup {a} ELSE StartsTo(s, I, a)
  BY <1>1, <1>2
<1>7. StartsTo(s, C, b) = IF m \in C THEN StartsTo(s, C, a) \cup {a} ELSE StartsTo(s, C, a)
  BY <1>1, <1>3
<1>8. /\ MarksTo(s, b) = {k \in StartsTo(s, C, b) : At(s, k) \in {"(", ")", "."}}
      /\ MarksTo(s, a) = {k \in StartsTo(s, C, a) : At(s, k) \in {"(", ")", "."}}
  BY <1>3 DEF MarksTo
<1>9. MarksTo(s, b) = IF m \in C /\ At(s, a) \in {"(", ")", "."} THEN MarksTo(s, a) \cup {a} ELSE MarksTo(s, a)
  BY <1>7, <1>8
<1>10. QED
  BY <1>2, <1>4, <1>5, <1>6, <1>9

LEMMA LexedStep ==
    ASSUME NEW s, Len(s) \in Nat, NEW a \in 1 .. Len(s), NEW b \in a + 1 .. Len(s) + 1, NEW m,
           Token(s, a, b, m), NEW p, NEW ts, LexedTo(s, a, p, ts), ~Stops(s, a),
           NEW w, w = Parted(s, b), NEW us, TokensTo(s, b, us)
    PROVE  LexedTo(s, b, w, us)
<1>1. Sync(s, b)
  BY DEF Token
<1>2. FromBelow(s, b) /\ \A k \in 1 .. b - 1 : ~Stops(s, k)
  BY FromStep, StopsStep DEF LexedTo
<1>3. QED
  BY <1>1, <1>2 DEF LexedTo

(* What tokenize drops is no token of the grammar.                         *)
LEMMA Skipped ==
    ASSUME NEW s, Len(s) \in Nat, NEW a \in 1 .. Len(s), NEW b \in a + 1 .. Len(s) + 1, NEW m,
           Token(s, a, b, m), m \in {"line", "block", "param", "code"},
           m = "code" => At(s, a) \notin {"(", ")", "."},
           NEW p, NEW ts, LexedTo(s, a, p, ts), ~Stops(s, a), NEW w, w = Parted(s, b)
    PROVE  LexedTo(s, b, w, ts)
<1>1. m \notin Literals /\ m # "ident" /\ m # "word"
  BY DEF Literals
<1>2. ~(m = "code" /\ At(s, a) \in {"(", ")", "."})
  OBVIOUS
<1>3. TokensTo(s, a, ts) /\ FromBelow(s, a)
  BY DEF LexedTo
<1>4. /\ StartsTo(s, Literals, b) = StartsTo(s, Literals, a)
      /\ StartsTo(s, {"ident"}, b) = StartsTo(s, {"ident"}, a)
      /\ MarksTo(s, b) = MarksTo(s, a)
  BY <1>1, <1>2, KindsStep
<1>5. WordsTo(s, b) = WordsTo(s, a)
  BY <1>1, <1>3, WordsStep
<1>6. InOrder(b, ts)
  <2>1. InOrder(a, ts)
    BY <1>3 DEF TokensTo
  <2>2. \A x \in 1 .. a - 1 : x \in 1 .. b - 1
    OBVIOUS
  <2>3. QED
    BY <2>1, <2>2 DEF InOrder
<1>7. TokensTo(s, b, ts)
  BY <1>3, <1>4, <1>5, <1>6 DEF TokensTo
<1>8. QED
  BY <1>7, LexedStep

(* The token tokenize makes of a region of kind m.                         *)
Fits(s, t, b, m) ==
    \/ t.kind = "literal" /\ m \in Literals
    \/ t.kind = "quoted" /\ m = "ident"
    \/ t.kind = "word" /\ m = "word" /\ t.text = SubSeq(s, t.at, b - 1)
    \/ /\ t.kind = "mark" /\ m = "code" /\ b = t.at + 1
       /\ At(s, t.at) \in {"(", ")", "."} /\ t.text = <<At(s, t.at)>>

LEMMA Emitted ==
    ASSUME NEW s, Len(s) \in Nat, NEW t \in TokenOf(s), NEW b \in t.at + 1 .. Len(s) + 1, NEW m,
           Token(s, t.at, b, m), Fits(s, t, b, m),
           NEW p \in BOOLEAN, NEW ts, LexedTo(s, t.at, p, ts), ~Stops(s, t.at)
    PROVE  LexedTo(s, b, p, Append(ts, t))
<1>1. PICK a \in 1 .. Len(s) : a = t.at
  BY DEF TokenOf
<1>2. TokensTo(s, a, ts) /\ FromBelow(s, a) /\ Token(s, a, b, m) /\ b \in a + 1 .. Len(s) + 1
  BY <1>1 DEF LexedTo
<1>3. ts \in Seq(TokenOf(s)) /\ InOrder(t.at, ts) /\ MarksShown(s, ts)
  BY <1>1, <1>2 DEF TokensTo
<1>4. PICK us : us = Append(ts, t)
  OBVIOUS
<1>5. us \in Seq(TokenOf(s))
  BY <1>3, <1>4, Appended
<1>6. InOrder(b, us) /\ MarksShown(s, us)
  <2>1. t.kind = "mark" => t.text = <<At(s, t.at)>>
    BY DEF Fits
  <2>2. QED
    BY <1>3, <1>4, <2>1, OrderAppended
<1>7. ASSUME NEW kind PROVE OfKind(us, kind) = IF t.kind = kind THEN OfKind(ts, kind) \cup {a} ELSE OfKind(ts, kind)
  <2>1. OfKind(us, kind) = IF t.kind = kind THEN OfKind(ts, kind) \cup {t.at} ELSE OfKind(ts, kind)
    BY <1>3, <1>4, OfKindAppended
  <2>2. QED
    BY <1>1, <2>1
<1>8. OfKind(us, "literal") = StartsTo(s, Literals, b)
  <2>1. OfKind(ts, "literal") = StartsTo(s, Literals, a)
    BY <1>2 DEF TokensTo
  <2>2. t.kind = "literal" <=> m \in Literals
    BY DEF Fits, Literals
  <2>3. StartsTo(s, Literals, b)
          = IF m \in Literals THEN StartsTo(s, Literals, a) \cup {a} ELSE StartsTo(s, Literals, a)
    BY <1>2, KindsStep
  <2>4. OfKind(us, "literal") = IF t.kind = "literal" THEN OfKind(ts, "literal") \cup {a} ELSE OfKind(ts, "literal")
    BY <1>7
  <2>5. QED
    BY ONLY <2>1, <2>2, <2>3, <2>4
<1>9. OfKind(us, "quoted") = StartsTo(s, {"ident"}, b)
  <2>1. OfKind(ts, "quoted") = StartsTo(s, {"ident"}, a)
    BY <1>2 DEF TokensTo
  <2>2. t.kind = "quoted" <=> m = "ident"
    BY DEF Fits, Literals
  <2>3. StartsTo(s, {"ident"}, b)
          = IF m = "ident" THEN StartsTo(s, {"ident"}, a) \cup {a} ELSE StartsTo(s, {"ident"}, a)
    BY <1>2, KindsStep
  <2>4. OfKind(us, "quoted") = IF t.kind = "quoted" THEN OfKind(ts, "quoted") \cup {a} ELSE OfKind(ts, "quoted")
    BY <1>7
  <2>5. QED
    BY ONLY <2>1, <2>2, <2>3, <2>4
<1>10. OfKind(us, "mark") = MarksTo(s, b)
  <2>1. OfKind(ts, "mark") = MarksTo(s, a)
    BY <1>2 DEF TokensTo
  <2>2. t.kind = "mark" <=> m = "code" /\ At(s, a) \in {"(", ")", "."}
    BY <1>1 DEF Fits, Literals
  <2>3. MarksTo(s, b)
          = IF m = "code" /\ At(s, a) \in {"(", ")", "."} THEN MarksTo(s, a) \cup {a} ELSE MarksTo(s, a)
    BY <1>2, KindsStep
  <2>4. OfKind(us, "mark") = IF t.kind = "mark" THEN OfKind(ts, "mark") \cup {a} ELSE OfKind(ts, "mark")
    BY <1>7
  <2>5. QED
    BY ONLY <2>1, <2>2, <2>3, <2>4
<1>11. WordsIn(us) = WordsTo(s, b)
  <2>1. WordsIn(ts) = WordsTo(s, a)
    BY <1>2 DEF TokensTo
  <2>2. t.kind = "word" <=> m = "word"
    BY DEF Fits, Literals
  <2>3. t.kind = "word" => t.text = SubSeq(s, a, b - 1)
    BY <1>1 DEF Fits
  <2>4. WordsTo(s, b) = IF m = "word" THEN WordsTo(s, a) \cup {<<a, SubSeq(s, a, b - 1)>>} ELSE WordsTo(s, a)
    BY <1>2, WordsStep
  <2>5. WordsIn(us) = IF t.kind = "word" THEN WordsIn(ts) \cup {<<a, t.text>>} ELSE WordsIn(ts)
    BY <1>1, <1>3, <1>4, WordsAppended
  <2>6. CASE m = "word"
    BY ONLY <2>1, <2>2, <2>3, <2>4, <2>5, <2>6
  <2>7. CASE m # "word"
    BY ONLY <2>1, <2>2, <2>4, <2>5, <2>7
  <2>8. QED
    BY <2>6, <2>7
<1>12. TokensTo(s, b, us)
  BY <1>5, <1>6, <1>8, <1>9, <1>10, <1>11 DEF TokensTo
<1>13. p = Parted(s, b)
  <2>1. m = "code" => b = a + 1
    BY <1>1 DEF Fits, Literals
  <2>2. ~(m = "code" /\ At(s, a) = ";")
    BY <1>1 DEF Fits, Literals
  <2>3. Parted(s, b) <=> Parted(s, a) \/ (m = "code" /\ At(s, a) = ";")
    BY <1>2, <2>1, PartedStep
  <2>4. p = Parted(s, a)
    BY <1>1 DEF LexedTo
  <2>5. Parted(s, b) <=> Parted(s, a)
    BY <2>2, <2>3, Zenon
  <2>6. Parted(s, b) = Parted(s, a)
    BY <2>5, Zenon DEF Parted
  <2>7. QED
    BY <2>4, <2>6, Zenon
<1>14. LexedTo(s, b, p, us)
  BY <1>1, <1>2, <1>12, <1>13, LexedStep
<1>15. QED
  BY <1>4, <1>14

-----------------------------------------------------------------------------
(* The invariant: tokenize knows what the grammar says of the text before  *)
(* i, and a verdict has its reason there.                                  *)

Verdict == {"lexing", "unclosed", "multi", "uident", "accepted", "refused"}

Judged(s, b, v) ==
    /\ v \in Verdict
    /\ v = "multi" => b \in Seconds(s, Regions(s))
    /\ v = "uident" => b \in UIdents(s, Regions(s))
    /\ v = "unclosed" => b <= Len(s) /\ LeftOpen(s, b) /\ ~Stops(s, b)
    /\ v \in {"accepted", "refused"} => b = Len(s) + 1

Inv ==
    /\ sql \in Inputs
    /\ LexedTo(sql, i, after, toks)
    /\ Judged(sql, i, verdict)
    /\ verdict = "accepted" => Accepts
    /\ verdict = "refused" => ~Accepts

LEMMA InvFacts ==
    ASSUME Inv
    PROVE  /\ IsText(sql) /\ Len(sql) \in Nat
           /\ i \in 1 .. Len(sql) + 1 /\ Sync(sql, i)
           /\ after \in BOOLEAN /\ (after <=> Parted(sql, i))
<1>1. IsText(sql)
  BY GuardAssumption DEF Inv, IsText
<1>2. Sync(sql, i) /\ after = Parted(sql, i)
  BY DEF Inv, LexedTo
<1>3. after \in BOOLEAN /\ (after <=> Parted(sql, i))
  BY <1>2, Zenon DEF Parted
<1>4. i \in 1 .. Len(sql) + 1
  BY <1>2 DEF Sync
<1>5. QED
  BY <1>1, <1>2, <1>3, <1>4, AtText

LEMMA SkipStep ==
    ASSUME Inv, Lexing, NEW j \in i + 1 .. Len(sql) + 1, NEW m \in {"line", "block", "param", "code"},
           Token(sql, i, j, m), m = "code" => At(sql, i) \notin {"(", ")", "."}, ~Stops(sql, i),
           sql' = sql, i' = j, toks' = toks, verdict' = verdict, after' = Parted(sql, j)
    PROVE  Inv'
<1>1. Len(sql) \in Nat /\ i \in 1 .. Len(sql)
  BY InvFacts DEF Lexing
<1>2. LexedTo(sql, i, after, toks)
  BY DEF Inv
<1>3. PICK w : w = Parted(sql, j)
  OBVIOUS
<1>4. LexedTo(sql, j, w, toks)
  BY <1>1, <1>2, <1>3, Skipped
<1>5. LexedTo(sql, i, after, toks)'
  BY <1>3, <1>4
<1>6. verdict' = "lexing"
  BY DEF Lexing
<1>7. Judged(sql, i, verdict)'
  BY <1>6 DEF Judged, Verdict
<1>8. QED
  BY <1>5, <1>6, <1>7 DEF Inv

LEMMA EmitStep ==
    ASSUME Inv, Lexing, NEW kind \in {"word", "quoted", "literal", "mark"}, NEW text \in TextOf(sql),
           NEW j \in i + 1 .. Len(sql) + 1, NEW m, Token(sql, i, j, m),
           Fits(sql, [kind |-> kind, text |-> text, at |-> i], j, m), ~Stops(sql, i), Emit(kind, text, j)
    PROVE  Inv'
<1>1. Len(sql) \in Nat /\ i \in 1 .. Len(sql) /\ after \in BOOLEAN
  BY InvFacts DEF Lexing
<1>2. LexedTo(sql, i, after, toks)
  BY DEF Inv
<1>3. PICK t : t = [kind |-> kind, text |-> text, at |-> i]
  OBVIOUS
<1>4. t \in TokenOf(sql) /\ t.at = i
  BY <1>1, <1>3 DEF TokenOf
<1>5. LexedTo(sql, j, after, Append(toks, t))
  <2>1. Token(sql, t.at, j, m) /\ Fits(sql, t, j, m) /\ ~Stops(sql, t.at) /\ LexedTo(sql, t.at, after, toks)
    BY <1>2, <1>3, <1>4
  <2>2. j \in t.at + 1 .. Len(sql) + 1
    BY <1>4
  <2>3. QED
    BY <1>1, <1>4, <2>1, <2>2, Emitted
<1>6. sql' = sql /\ i' = j /\ after' = after /\ toks' = Append(toks, t) /\ verdict' = verdict
  BY <1>3 DEF Emit
<1>7. LexedTo(sql, i, after, toks)'
  BY <1>5, <1>6
<1>8. verdict' = "lexing"
  BY <1>6 DEF Lexing
<1>9. Judged(sql, i, verdict)'
  BY <1>8 DEF Judged, Verdict
<1>10. QED
  BY <1>6, <1>7, <1>8, <1>9 DEF Inv

LEMMA StopStep ==
    ASSUME Inv, NEW v \in Verdict \ {"lexing"}, Stop(v), Judged(sql, i, v),
           v = "accepted" => Accepts, v = "refused" => ~Accepts
    PROVE  Inv'
<1>1. sql' = sql /\ i' = i /\ after' = after /\ toks' = toks /\ verdict' = v
  BY DEF Stop
<1>2. LexedTo(sql, i, after, toks)' /\ Judged(sql, i, verdict)'
  BY <1>1 DEF Inv
<1>3. Accepts' <=> Accepts
  BY <1>1 DEF Accepts, IsMark, IsWord, IsName, Offends, IsBlocked, FullName
<1>4. QED
  BY <1>1, <1>2, <1>3 DEF Inv

(* A character that is neither blank nor the begin of a comment begins     *)
(* something else.                                                         *)
LEMMA BeginsOther ==
    ASSUME NEW s, NEW k, ~Two(s, k, "-", "-"), ~Two(s, k, "/", "*")
    PROVE  \E m \in Kind \ {"line", "block"} :
              /\ Begins(s, k) = Whole(m, k, k, 0, 0)
              /\ m = "ident" => At(s, k) = "\""
<1>1. At(s, k) = "'" => Begins(s, k) = Whole("string", k, k, 0, 0)
  BY BeginsCases
<1>2. At(s, k) = "\"" => Begins(s, k) = Whole("ident", k, k, 0, 0)
  BY BeginsCases
<1>3. At(s, k) = "$" => Begins(s, k) = Whole("param", k, k, 0, 0)
  BY BeginsCases
<1>4. At(s, k) \in Letter => Begins(s, k) = Whole("word", k, k, 0, 0)
  BY BeginsCases
<1>5. At(s, k) \in Digit => Begins(s, k) = Whole("number", k, k, 0, 0)
  BY BeginsCases
<1>6. At(s, k) \notin IdentChar \cup {"'", "\""} => Begins(s, k) = Whole("code", k, k, 0, 0)
  BY BeginsCases
<1>7. At(s, k) \in IdentChar => At(s, k) = "$" \/ At(s, k) \in Letter \/ At(s, k) \in Digit
  BY DEF IdentChar, TagChar
<1>8. "string" \in Kind \ {"line", "block"} /\ "ident" \in Kind \ {"line", "block"}
        /\ "param" \in Kind \ {"line", "block"} /\ "word" \in Kind \ {"line", "block"}
        /\ "number" \in Kind \ {"line", "block"} /\ "code" \in Kind \ {"line", "block"}
  BY DEF Kind
<1>9. CASE At(s, k) = "'"
  BY <1>1, <1>8, <1>9
<1>10. CASE At(s, k) = "\""
  BY <1>2, <1>8, <1>10
<1>11. CASE At(s, k) = "$"
  BY <1>3, <1>8, <1>11
<1>12. CASE At(s, k) \in Letter
  BY <1>4, <1>8, <1>12
<1>13. CASE At(s, k) \in Digit
  BY <1>5, <1>8, <1>13
<1>14. CASE At(s, k) \notin IdentChar \cup {"'", "\""}
  BY <1>6, <1>8, <1>14
<1>15. QED
  BY <1>7, <1>9, <1>10, <1>11, <1>12, <1>13, <1>14

(* There is no reason to stop at what begins with character a but is no    *)
(* quoted name, before a semicolon.                                        *)
LEMMA GoesOn ==
    ASSUME NEW s, Len(s) \in Nat, NEW a \in 1 .. Len(s), NEW m, NEW c, NEW d, NEW x,
           Sync(s, a), Begins(s, a) = Whole(m, a, c, d, x),
           ~Parted(s, a) \/ m \in {"line", "block"} \/ At(s, a) \in Blanks,
           m # "ident" \/ ~UPrefix(s, a)
    PROVE  ~Stops(s, a)
<1>1. a \in Seconds(s, Regions(s)) <=>
        Parted(s, a) /\ m \notin {"line", "block"} /\ At(s, a) \notin Blanks
  BY StopsCases
<1>2. a \in UIdents(s, Regions(s)) <=> m = "ident" /\ UPrefix(s, a)
  BY StopsCases
<1>3. QED
  BY <1>1, <1>2 DEF Stops

LEMMA CodeStep ==
    ASSUME Inv, Lexing, At(sql, i) \notin {"(", ")", "."},
           Begins(sql, i) = Whole("code", i, i, 0, 0), ~Parted(sql, i) \/ At(sql, i) \in Blanks,
           sql' = sql, i' = i + 1, toks' = toks, verdict' = verdict,
           after' = (after \/ At(sql, i) = ";")
    PROVE  Inv'
<1>1. PICK a \in 1 .. Len(sql) : a = i
  BY ONLY Inv, Lexing, InvFacts DEF Lexing
<1>2. IsText(sql) /\ Len(sql) \in Nat /\ Sync(sql, a) /\ a + 1 \in a + 1 .. Len(sql) + 1
  BY ONLY Inv, <1>1, InvFacts
<1>3. Begins(sql, a) = Whole("code", a, a, 0, 0) /\ (~Parted(sql, a) \/ At(sql, a) \in Blanks)
  BY <1>1
<1>4. Token(sql, a, a + 1, "code")
  BY <1>2, <1>3, CodeToken
<1>5. ~Stops(sql, a)
  <2>1. PICK m : m = "code"
    OBVIOUS
  <2>2. Begins(sql, a) = Whole(m, a, a, 0, 0) /\ m # "ident"
    BY <1>3, <2>1
  <2>3. QED
    BY <1>2, <1>3, <2>2, GoesOn
<1>6. Parted(sql, a + 1) <=> Parted(sql, a) \/ At(sql, a) = ";"
  <2>1. PICK m : m = "code"
    OBVIOUS
  <2>2. Token(sql, a, a + 1, m)
    BY <1>4, <2>1
  <2>3. Parted(sql, a + 1) <=> Parted(sql, a) \/ (m = "code" /\ At(sql, a) = ";")
    BY <1>2, <2>2, PartedStep
  <2>4. QED
    BY <2>1, <2>3
<1>7. after' = Parted(sql, a + 1)
  <2>1. (after \/ At(sql, a) = ";") <=> Parted(sql, a + 1)
    BY <1>1, <1>6, InvFacts
  <2>2. (after \/ At(sql, a) = ";") = Parted(sql, a + 1)
    BY <2>1, Zenon DEF Parted
  <2>3. QED
    BY <1>1, <2>2, Zenon
<1>8. QED
  BY <1>1, <1>2, <1>4, <1>5, <1>7, SkipStep

(* Comments and parameters are dropped.                                    *)
LEMMA DropStep ==
    ASSUME Inv, Lexing, NEW j, NEW m \in {"line", "block", "param"}, NEW c, NEW d, NEW x,
           Begins(sql, i) = Whole(m, i, c, d, x), Token(sql, i, j, m), j \in i + 1 .. Len(sql) + 1,
           m = "param" => ~after, Skip(j)
    PROVE  Inv'
<1>1. PICK a \in 1 .. Len(sql) : a = i
  BY InvFacts DEF Lexing
<1>2. Len(sql) \in Nat /\ Sync(sql, a) /\ j \in a + 1 .. Len(sql) + 1 /\ Token(sql, a, j, m)
  BY <1>1, InvFacts
<1>3. ~Stops(sql, a)
  <2>1. Begins(sql, a) = Whole(m, a, c, d, x) /\ m # "ident"
    BY <1>1
  <2>2. ~Parted(sql, a) \/ m \in {"line", "block"}
    BY <1>1, InvFacts
  <2>3. QED
    BY <1>2, <2>1, <2>2, GoesOn
<1>4. Parted(sql, j) <=> Parted(sql, a)
  <2>1. m # "code"
    OBVIOUS
  <2>2. Parted(sql, j) <=> Parted(sql, a) \/ (m = "code" /\ At(sql, a) = ";")
    BY <1>2, <2>1, PartedStep
  <2>3. QED
    BY <2>1, <2>2
<1>5. after = Parted(sql, j)
  <2>1. after <=> Parted(sql, j)
    BY <1>1, <1>4, InvFacts, Zenon
  <2>2. after \in BOOLEAN
    BY InvFacts
  <2>3. QED
    BY <2>1, <2>2, Zenon DEF Parted
<1>6. m \in {"line", "block", "param", "code"} /\ m # "code"
  OBVIOUS
<1>7. sql' = sql /\ i' = j /\ toks' = toks /\ verdict' = verdict /\ after' = Parted(sql, j)
  BY <1>5 DEF Skip
<1>8. QED
  BY <1>1, <1>2, <1>3, <1>6, <1>7, SkipStep

LEMMA BlankKeeps == ASSUME Inv, Blank PROVE Inv'
<1>1. Lexing /\ At(sql, i) \in Blanks /\ Skip(i + 1)
  BY DEF Blank
<1>2. Begins(sql, i) = Whole("code", i, i, 0, 0)
  BY <1>1, BeginsCases
<1>3. At(sql, i) \notin {"(", ")", "."} /\ At(sql, i) # ";"
  BY <1>1 DEF Blanks
<1>4. after' = (after \/ At(sql, i) = ";")
  <2>1. after' = after /\ after \in BOOLEAN
    BY <1>1, InvFacts DEF Skip
  <2>2. QED
    BY <1>3, <2>1
<1>5. sql' = sql /\ i' = i + 1 /\ toks' = toks /\ verdict' = verdict
  BY <1>1 DEF Skip
<1>6. QED
  BY <1>1, <1>2, <1>3, <1>4, <1>5, CodeStep

LEMMA LineCommentKeeps == ASSUME Inv, LineComment PROVE Inv'
<1>1. Lexing /\ Two(sql, i, "-", "-") /\ Skip(LineEnd(sql, i))
  BY DEF LineComment
<1>2. PICK a \in 1 .. Len(sql) : a = i
  BY <1>1, InvFacts DEF Lexing
<1>3. Token(sql, a, LineEnd(sql, a), "line") /\ LineEnd(sql, a) \in a + 1 .. Len(sql) + 1
  BY <1>1, <1>2, InvFacts, LineToken
<1>4. Begins(sql, a) = Whole("line", a, a, 0, 0)
  BY <1>1, <1>2, BeginsCases
<1>5. QED
  BY <1>1, <1>2, <1>3, <1>4, DropStep

LEMMA BlockCommentKeeps == ASSUME Inv, BlockComment PROVE Inv'
<1>1. Lexing /\ Two(sql, i, "/", "*")
  BY DEF BlockComment
<1>2. PICK a \in 1 .. Len(sql) : a = i
  BY <1>1, InvFacts DEF Lexing
<1>3. PICK e : e = CommentEnd(sql, a)
  OBVIOUS
<1>4. Len(sql) \in Nat /\ IsText(sql) /\ Sync(sql, a) /\ Two(sql, a, "/", "*")
  BY <1>1, <1>2, InvFacts
<1>5. IF e = 0 THEN LeftOpen(sql, a) ELSE Token(sql, a, e, "block") /\ e \in a + 1 .. Len(sql) + 1
  BY <1>3, <1>4, BlockToken
<1>6. Begins(sql, a) = Whole("block", a, a, 1, a + 1)
  BY <1>4, BeginsCases
<1>7. CASE e = 0
  <2>1. Stop("unclosed")
    BY <1>2, <1>3, <1>7 DEF BlockComment
  <2>2. ~Stops(sql, a)
    <3>1. PICK m : m = "block"
      OBVIOUS
    <3>2. Begins(sql, a) = Whole(m, a, a, 1, a + 1) /\ m # "ident" /\ m \in {"line", "block"}
      BY <1>6, <3>1
    <3>3. QED
      BY <1>4, <3>2, GoesOn
  <2>3. Judged(sql, a, "unclosed")
    BY <1>4, <1>5, <1>7, <2>2 DEF Judged, Verdict
  <2>4. QED
    BY <1>2, <2>1, <2>3, StopStep DEF Verdict
<1>8. CASE e # 0
  <2>1. Skip(e)
    BY <1>2, <1>3, <1>8 DEF BlockComment
  <2>2. QED
    BY <1>1, <1>2, <1>5, <1>6, <1>8, <2>1, DropStep
<1>9. QED
  BY <1>7, <1>8

LEMMA SecondStatementKeeps == ASSUME Inv, SecondStatement PROVE Inv'
<1>1. Lexing /\ At(sql, i) \notin Blanks /\ ~Two(sql, i, "-", "-") /\ ~Two(sql, i, "/", "*") /\ after
        /\ Stop("multi")
  BY DEF SecondStatement, Code
<1>2. PICK a \in 1 .. Len(sql) : a = i
  BY <1>1, InvFacts DEF Lexing
<1>3. Len(sql) \in Nat /\ Sync(sql, a) /\ Parted(sql, a)
  BY <1>1, <1>2, InvFacts
<1>4. PICK m \in Kind \ {"line", "block"} : Begins(sql, a) = Whole(m, a, a, 0, 0)
  BY <1>1, <1>2, BeginsOther
<1>5. a \in Seconds(sql, Regions(sql)) <=>
        Parted(sql, a) /\ m \notin {"line", "block"} /\ At(sql, a) \notin Blanks
  BY <1>3, <1>4, StopsCases
<1>6. a \in Seconds(sql, Regions(sql))
  BY <1>1, <1>2, <1>3, <1>4, <1>5
<1>7. Judged(sql, a, "multi")
  BY <1>6 DEF Judged, Verdict
<1>8. QED
  BY <1>1, <1>2, <1>7, StopStep DEF Verdict

(* The characters a token begins with: no statement has ended before.      *)
LEMMA CodeFacts ==
    ASSUME Inv, Code, ~after
    PROVE  /\ Lexing /\ IsText(sql) /\ Len(sql) \in Nat /\ i \in 1 .. Len(sql) /\ Sync(sql, i) /\ ~Parted(sql, i)
           /\ ~Two(sql, i, "-", "-") /\ ~Two(sql, i, "/", "*")
BY InvFacts DEF Code, Lexing

LEMMA StringLiteralKeeps == ASSUME Inv, StringLiteral PROVE Inv'
<1>1. Code /\ ~after /\ At(sql, i) = "'"
  BY DEF StringLiteral
<1>2. PICK a \in 1 .. Len(sql) : a = i
  BY <1>1, CodeFacts
<1>3. Lexing /\ IsText(sql) /\ Len(sql) \in Nat /\ Sync(sql, a) /\ ~Parted(sql, a) /\ At(sql, a) = "'"
  BY <1>1, <1>2, CodeFacts
<1>4. PICK e : e = QuoteEnd(sql, a, "'", EscapePrefix(sql, a))
  OBVIOUS
<1>5. IF e = 0 THEN LeftOpen(sql, a) ELSE Token(sql, a, e, "string") /\ e \in a + 1 .. Len(sql) + 1
  BY <1>3, <1>4, StringToken
<1>6. PICK m : m = "string"
  OBVIOUS
<1>7. ~Stops(sql, a)
  <2>1. Begins(sql, a) = Whole(m, a, a, 0, 0) /\ m # "ident"
    BY <1>3, <1>6, BeginsCases
  <2>2. QED
    BY <1>3, <2>1, GoesOn
<1>8. IF e = 0 THEN Stop("unclosed") ELSE Emit("literal", <<>>, e)
  BY <1>2, <1>4 DEF StringLiteral
<1>9. CASE e = 0
  <2>1. Judged(sql, a, "unclosed")
    BY <1>3, <1>5, <1>7, <1>9 DEF Judged, Verdict
  <2>2. QED
    BY <1>2, <1>8, <1>9, <2>1, StopStep DEF Verdict
<1>10. CASE e # 0
  <2>1. PICK kind \in {"word", "quoted", "literal", "mark"} : kind = "literal"
    OBVIOUS
  <2>2. <<>> \in TextOf(sql)
    BY DEF TextOf
  <2>3. Fits(sql, [kind |-> kind, text |-> <<>>, at |-> a], e, m)
    BY <1>6, <2>1 DEF Fits, Literals
  <2>4. Token(sql, a, e, m) /\ e \in a + 1 .. Len(sql) + 1 /\ Emit(kind, <<>>, e)
    BY <1>5, <1>6, <1>8, <1>10, <2>1
  <2>5. QED
    BY <1>2, <1>3, <1>7, <2>2, <2>3, <2>4, EmitStep
<1>11. QED
  BY <1>9, <1>10

(* A piece of the text, or one character of it, is a text of a token.      *)
LEMMA PieceOf == ASSUME NEW s, NEW a \in Int, NEW b \in Int PROVE SubSeq(s, a, b) \in TextOf(s)
<1>1. PICK T : T = {SubSeq(s, a, n) : n \in Int}
  OBVIOUS
<1>2. SubSeq(s, a, b) \in T
  BY <1>1, Zenon
<1>3. T \in {{SubSeq(s, m, n) : n \in Int} : m \in Int}
  BY <1>1, Zenon
<1>4. SubSeq(s, a, b) \in UNION {{SubSeq(s, m, n) : n \in Int} : m \in Int}
  BY <1>2, <1>3, Zenon
<1>5. QED
  BY <1>4, Zenon DEF TextOf

LEMMA LetterOf == ASSUME NEW s, NEW k \in 1 .. Len(s) PROVE <<At(s, k)>> \in TextOf(s)
BY DEF TextOf

LEMMA QuotedIdentKeeps == ASSUME Inv, QuotedIdent PROVE Inv'
<1>1. Code /\ ~after /\ At(sql, i) = "\""
  BY DEF QuotedIdent
<1>2. PICK a \in 1 .. Len(sql) : a = i
  BY <1>1, CodeFacts
<1>3. Lexing /\ IsText(sql) /\ Len(sql) \in Nat /\ Sync(sql, a) /\ ~Parted(sql, a)
  BY <1>1, <1>2, CodeFacts
<1>4. At(sql, a) = "\""
  BY <1>1, <1>2
<1>5. PICK e : e = QuoteEnd(sql, a, "\"", FALSE)
  OBVIOUS
<1>6. IF e = 0 THEN LeftOpen(sql, a) ELSE Token(sql, a, e, "ident") /\ e \in a + 1 .. Len(sql) + 1
  BY <1>3, <1>5, <1>4, IdentToken
<1>7. PICK m : m = "ident"
  OBVIOUS
<1>8. Begins(sql, a) = Whole(m, a, a, 0, 0)
  BY <1>7, <1>4, BeginsCases
<1>9. IF UPrefix(sql, a) THEN Stop("uident")
      ELSE IF e = 0 THEN Stop("unclosed") ELSE Emit("quoted", SubSeq(sql, a + 1, e - 2), e)
  BY <1>2, <1>5 DEF QuotedIdent
<1>10. CASE UPrefix(sql, a)
  <2>1. a \in UIdents(sql, Regions(sql)) <=> m = "ident" /\ UPrefix(sql, a)
    BY <1>3, <1>8, StopsCases
  <2>2. Judged(sql, a, "uident")
    BY <1>7, <1>10, <2>1 DEF Judged, Verdict
  <2>3. QED
    BY <1>2, <1>9, <1>10, <2>2, StopStep DEF Verdict
<1>11. ASSUME ~UPrefix(sql, a) PROVE ~Stops(sql, a)
  BY <1>3, <1>8, <1>11, GoesOn
<1>12. CASE ~UPrefix(sql, a) /\ e = 0
  <2>1. Judged(sql, a, "unclosed")
    BY <1>3, <1>6, <1>11, <1>12 DEF Judged, Verdict
  <2>2. QED
    BY <1>2, <1>9, <1>12, <2>1, StopStep DEF Verdict
<1>13. CASE ~UPrefix(sql, a) /\ e # 0
  <2>1. PICK kind \in {"word", "quoted", "literal", "mark"} : kind = "quoted"
    OBVIOUS
  <2>2. Token(sql, a, e, m) /\ e \in a + 1 .. Len(sql) + 1
    BY <1>6, <1>7, <1>13
  <2>3. PICK text : text = SubSeq(sql, a + 1, e - 2)
    OBVIOUS
  <2>4. text \in TextOf(sql)
    <3>1. a + 1 \in Int /\ e - 2 \in Int
      BY <2>2
    <3>2. QED
      BY <2>3, <3>1, PieceOf
  <2>5. Fits(sql, [kind |-> kind, text |-> text, at |-> a], e, m)
    BY <1>7, <2>1 DEF Fits
  <2>6. Emit(kind, text, e)
    BY <1>9, <1>13, <2>1, <2>3
  <2>7. QED
    BY <1>2, <1>3, <1>11, <1>13, <2>2, <2>4, <2>5, <2>6, EmitStep
<1>14. QED
  BY <1>10, <1>12, <1>13

LEMMA DollarKeeps == ASSUME Inv, Dollar PROVE Inv'
<1>1. Code /\ ~after /\ At(sql, i) = "$"
  BY DEF Dollar
<1>2. PICK a \in 1 .. Len(sql) : a = i
  BY <1>1, CodeFacts
<1>3. Lexing /\ IsText(sql) /\ Len(sql) \in Nat /\ Sync(sql, a) /\ ~Parted(sql, a) /\ At(sql, a) = "$"
  BY <1>1, <1>2, CodeFacts
<1>4. Begins(sql, a) = Whole("param", a, a, 0, 0)
  BY <1>3, BeginsCases
<1>5. PICK j : j = RunEnd(sql, a + 1, TagChar)
  OBVIOUS
<1>6. PICK ends : ends = Again(sql, a, j)
  OBVIOUS
<1>7. IF At(sql, j) = "$" /\ At(sql, a + 1) \notin Digit
        THEN IF ends = {} THEN Stop("unclosed") ELSE Emit("literal", <<>>, Min(ends) + j - a + 1)
        ELSE Skip(j)
  BY <1>2, <1>5, <1>6 DEF Dollar
<1>8. CASE ~(At(sql, j) = "$" /\ At(sql, a + 1) \notin Digit)
  <2>1. Token(sql, a, j, "param") /\ j \in a + 1 .. Len(sql) + 1
    BY <1>3, <1>5, <1>8, ParamToken
  <2>2. Skip(j)
    BY <1>7, <1>8
  <2>3. QED
    BY <1>1, <1>2, <1>3, <1>4, <2>1, <2>2, DropStep
<1>9. CASE At(sql, j) = "$" /\ At(sql, a + 1) \notin Digit
  <2>1. /\ ends = {} => LeftOpen(sql, a)
        /\ ends # {} => LET e == Min(ends) + j - a + 1
                        IN  Token(sql, a, e, "dollar") /\ e \in a + 1 .. Len(sql) + 1
    BY <1>3, <1>5, <1>6, <1>9, DollarToken
  <2>2. ~Stops(sql, a)
    <3>1. PICK m : m = "param"
      OBVIOUS
    <3>2. Begins(sql, a) = Whole(m, a, a, 0, 0) /\ m # "ident"
      BY <1>4, <3>1
    <3>3. QED
      BY <1>3, <3>2, GoesOn
  <2>3. CASE ends = {}
    <3>1. Judged(sql, a, "unclosed")
      BY <1>3, <2>1, <2>2, <2>3 DEF Judged, Verdict
    <3>2. QED
      BY <1>2, <1>7, <1>9, <2>3, <3>1, StopStep DEF Verdict
  <2>4. CASE ends # {}
    <3>1. PICK e : e = Min(ends) + j - a + 1
      OBVIOUS
    <3>2. PICK m : m = "dollar"
      OBVIOUS
    <3>3. PICK kind \in {"word", "quoted", "literal", "mark"} : kind = "literal"
      OBVIOUS
    <3>4. Token(sql, a, e, m) /\ e \in a + 1 .. Len(sql) + 1 /\ Emit(kind, <<>>, e)
      BY <1>7, <1>9, <2>1, <2>4, <3>1, <3>2, <3>3
    <3>5. <<>> \in TextOf(sql)
      BY DEF TextOf
    <3>6. Fits(sql, [kind |-> kind, text |-> <<>>, at |-> a], e, m)
      BY <3>2, <3>3 DEF Fits, Literals
    <3>7. QED
      BY <1>2, <1>3, <2>2, <3>4, <3>5, <3>6, EmitStep
  <2>5. QED
    BY <2>3, <2>4
<1>10. QED
  BY <1>8, <1>9

LEMMA WordKeeps == ASSUME Inv, Word PROVE Inv'
<1>1. Code /\ ~after /\ At(sql, i) \in Letter
  BY DEF Word
<1>2. PICK a \in 1 .. Len(sql) : a = i
  BY <1>1, CodeFacts
<1>3. Lexing /\ IsText(sql) /\ Len(sql) \in Nat /\ Sync(sql, a) /\ ~Parted(sql, a) /\ At(sql, a) \in Letter
  BY <1>1, <1>2, CodeFacts
<1>4. PICK j : j = RunEnd(sql, a, IdentChar)
  OBVIOUS
<1>5. PICK m : m = "word"
  OBVIOUS
<1>6. Token(sql, a, j, m) /\ j \in a + 1 .. Len(sql) + 1
  BY <1>3, <1>4, <1>5, WordToken
<1>7. ~Stops(sql, a)
  <2>1. Begins(sql, a) = Whole(m, a, a, 0, 0) /\ m # "ident"
    BY <1>3, <1>5, BeginsCases
  <2>2. QED
    BY <1>3, <2>1, GoesOn
<1>8. PICK kind \in {"word", "quoted", "literal", "mark"} : kind = "word"
  OBVIOUS
<1>9. PICK text : text = SubSeq(sql, a, j - 1)
  OBVIOUS
<1>10. text \in TextOf(sql)
  <2>1. a \in Int /\ j - 1 \in Int
    BY <1>6
  <2>2. QED
    BY <1>9, <2>1, PieceOf
<1>11. Emit(kind, text, j)
  BY <1>2, <1>4, <1>8, <1>9 DEF Word
<1>12. Fits(sql, [kind |-> kind, text |-> text, at |-> a], j, m)
  BY <1>5, <1>8, <1>9 DEF Fits
<1>13. QED
  BY <1>2, <1>3, <1>6, <1>7, <1>10, <1>11, <1>12, EmitStep

LEMMA NumberKeeps == ASSUME Inv, Number PROVE Inv'
<1>1. Code /\ ~after /\ At(sql, i) \in Digit
  BY DEF Number
<1>2. PICK a \in 1 .. Len(sql) : a = i
  BY <1>1, CodeFacts
<1>3. Lexing /\ IsText(sql) /\ Len(sql) \in Nat /\ Sync(sql, a) /\ ~Parted(sql, a) /\ At(sql, a) \in Digit
  BY <1>1, <1>2, CodeFacts
<1>4. PICK j : j = Min({k \in a .. Len(sql) + 1 : ~InNumber(sql, k)})
  OBVIOUS
<1>5. PICK m : m = "number"
  OBVIOUS
<1>6. Token(sql, a, j, m) /\ j \in a + 1 .. Len(sql) + 1
  BY <1>3, <1>4, <1>5, NumberToken
<1>7. ~Stops(sql, a)
  <2>1. Begins(sql, a) = Whole(m, a, a, 0, 0) /\ m # "ident"
    BY <1>3, <1>5, BeginsCases
  <2>2. QED
    BY <1>3, <2>1, GoesOn
<1>8. PICK kind \in {"word", "quoted", "literal", "mark"} : kind = "literal"
  OBVIOUS
<1>9. <<>> \in TextOf(sql)
  BY DEF TextOf
<1>10. Emit(kind, <<>>, j)
  BY <1>2, <1>4, <1>8 DEF Number
<1>11. Fits(sql, [kind |-> kind, text |-> <<>>, at |-> a], j, m)
  BY <1>5, <1>8 DEF Fits, Literals
<1>12. QED
  BY <1>2, <1>3, <1>6, <1>7, <1>9, <1>10, <1>11, EmitStep

LEMMA MarkKeeps == ASSUME Inv, Mark PROVE Inv'
<1>1. Code /\ ~after /\ At(sql, i) \notin IdentChar \cup {"'", "\"", ";"}
  BY DEF Mark
<1>2. PICK a \in 1 .. Len(sql) : a = i
  BY <1>1, CodeFacts
<1>3. Lexing /\ IsText(sql) /\ Len(sql) \in Nat /\ Sync(sql, a) /\ ~Parted(sql, a)
  BY <1>1, <1>2, CodeFacts
<1>4. Begins(sql, a) = Whole("code", a, a, 0, 0)
  BY <1>1, <1>2, BeginsCases, CodeFacts
<1>5. CASE At(sql, a) \in {"(", ")", "."}
  <2>1. PICK m : m = "code"
    OBVIOUS
  <2>2. Token(sql, a, a + 1, m) /\ a + 1 \in a + 1 .. Len(sql) + 1
    BY <1>3, <1>4, <2>1, CodeToken
  <2>3. ~Stops(sql, a)
    <3>1. Begins(sql, a) = Whole(m, a, a, 0, 0) /\ m # "ident"
      BY <1>4, <2>1
    <3>2. QED
      BY <1>3, <3>1, GoesOn
  <2>4. PICK kind \in {"word", "quoted", "literal", "mark"} : kind = "mark"
    OBVIOUS
  <2>5. PICK text : text = <<At(sql, a)>> /\ text \in TextOf(sql)
    BY <1>3, LetterOf
  <2>6. Emit(kind, text, a + 1)
    BY <1>2, <1>5, <2>4, <2>5 DEF Mark
  <2>7. Fits(sql, [kind |-> kind, text |-> text, at |-> a], a + 1, m)
    BY <1>5, <2>1, <2>4, <2>5 DEF Fits
  <2>8. PICK b : b = a + 1
    OBVIOUS
  <2>9. QED
    BY <1>2, <1>3, <2>2, <2>3, <2>5, <2>6, <2>7, <2>8, EmitStep
<1>6. CASE At(sql, a) \notin {"(", ")", "."}
  <2>1. Skip(i + 1)
    BY <1>2, <1>6 DEF Mark
  <2>2. sql' = sql /\ i' = i + 1 /\ toks' = toks /\ verdict' = verdict /\ after' = after
    BY <2>1 DEF Skip
  <2>3. At(sql, i) # ";" /\ after \in BOOLEAN
    BY <1>1, InvFacts
  <2>4. after' = (after \/ At(sql, i) = ";")
    BY <2>2, <2>3
  <2>5. QED
    BY <1>2, <1>3, <1>4, <1>6, <2>2, <2>4, CodeStep
<1>7. QED
  BY <1>5, <1>6

LEMMA SemicolonKeeps == ASSUME Inv, Semicolon PROVE Inv'
<1>1. Code /\ ~after /\ At(sql, i) = ";"
  BY DEF Semicolon
<1>2. Lexing /\ ~Parted(sql, i)
  BY <1>1, CodeFacts
<1>3. At(sql, i) \notin {"(", ")", "."} /\ At(sql, i) \notin IdentChar \cup {"'", "\""}
  BY <1>1, GuardAssumption DEF IdentChar, TagChar, Digit
<1>4. Begins(sql, i) = Whole("code", i, i, 0, 0)
  BY <1>1, <1>3, BeginsCases, CodeFacts
<1>5. sql' = sql /\ i' = i + 1 /\ toks' = toks /\ verdict' = verdict /\ after' = TRUE
  BY DEF Semicolon
<1>6. after' = (after \/ At(sql, i) = ";")
  BY <1>1, <1>5
<1>7. QED
  BY <1>2, <1>3, <1>4, <1>5, <1>6, CodeStep

LEMMA ValidateSelectKeeps == ASSUME Inv, ValidateSelect PROVE Inv'
<1>1. i > Len(sql) /\ Stop(IF Accepts THEN "accepted" ELSE "refused")
  BY DEF ValidateSelect
<1>2. i = Len(sql) + 1
  BY <1>1, InvFacts
<1>3. PICK v \in {"accepted", "refused"} : v = IF Accepts THEN "accepted" ELSE "refused"
  OBVIOUS
<1>4. v \in Verdict \ {"lexing"} /\ Judged(sql, i, v)
  BY <1>2 DEF Judged, Verdict
<1>5. (v = "accepted" => Accepts) /\ (v = "refused" => ~Accepts)
  BY <1>3
<1>6. QED
  BY <1>1, <1>3, <1>4, <1>5, StopStep

LEMMA NothingKept == ASSUME Inv, UNCHANGED vars PROVE Inv'
<1>1. sql' = sql /\ i' = i /\ after' = after /\ toks' = toks /\ verdict' = verdict
  BY DEF vars
<1>2. Accepts' <=> Accepts
  BY <1>1 DEF Accepts, IsMark, IsWord, IsName, Offends, IsBlocked, FullName
<1>3. QED
  BY <1>1, <1>2 DEF Inv

LEMMA NextKeeps == ASSUME Inv, [Next]_vars PROVE Inv'
BY BlankKeeps, LineCommentKeeps, BlockCommentKeeps, SecondStatementKeeps, StringLiteralKeeps,
   QuotedIdentKeeps, DollarKeeps, WordKeeps, NumberKeeps, MarkKeeps, SemicolonKeeps,
   ValidateSelectKeeps, NothingKept DEF Next

(* Before its first turn tokenize has seen nothing, and there is nothing   *)
(* to see.                                                                 *)
LEMMA FirstTokens == ASSUME NEW s, Len(s) \in Nat PROVE TokensTo(s, 1, <<>>)
<1>1. 1 .. 1 - 1 = {} /\ DOMAIN <<>> = {} /\ 2 .. Len(<<>>) = {}
  OBVIOUS
<1>2. \A M : StartsTo(s, M, 1) = {}
  BY <1>1 DEF StartsTo
<1>3. MarksTo(s, 1) = {}
  BY <1>2 DEF MarksTo
<1>4. WordsTo(s, 1) = {}
  BY <1>2 DEF WordsTo
<1>5. \A kind : OfKind(<<>>, kind) = {}
  BY <1>1 DEF OfKind
<1>6. WordsIn(<<>>) = {}
  BY <1>1 DEF WordsIn
<1>7. InOrder(1, <<>>) /\ MarksShown(s, <<>>)
  BY <1>1 DEF InOrder, MarksShown
<1>8. <<>> \in Seq(TokenOf(s))
  OBVIOUS
<1>9. QED
  BY <1>2, <1>3, <1>4, <1>5, <1>6, <1>7, <1>8 DEF TokensTo

LEMMA FirstKnown == ASSUME Init PROVE Inv
<1>1. sql \in Inputs /\ i = 1 /\ after = FALSE /\ toks = <<>> /\ verdict = "lexing"
  BY DEF Init
<1>2. Len(sql) \in Nat
  BY <1>1, GuardAssumption, AtText DEF IsText
<1>3. 1 .. 1 - 1 = {}
  OBVIOUS
<1>4. Sync(sql, 1) /\ TokensTo(sql, 1, <<>>)
  BY <1>2, SyncFirst, FirstTokens
<1>5. FromBelow(sql, 1) /\ \A k \in 1 .. 1 - 1 : ~Stops(sql, k)
  BY <1>3 DEF FromBelow
<1>6. FALSE = Parted(sql, 1)
  <2>1. ~Parted(sql, 1)
    BY <1>3 DEF Parted
  <2>2. QED
    BY <2>1, Zenon DEF Parted
<1>7. LexedTo(sql, 1, FALSE, <<>>)
  BY <1>4, <1>5, <1>6 DEF LexedTo
<1>8. Judged(sql, 1, "lexing")
  BY DEF Judged, Verdict
<1>9. QED
  BY <1>1, <1>7, <1>8 DEF Inv

(* At every turn, tokenize agrees with the grammar about the text behind   *)
(* it, and a verdict has its reason.                                       *)
THEOREM LexerKnows == Spec => []Inv
<1>1. Init => Inv
  BY FirstKnown
<1>2. Inv /\ [Next]_vars => Inv'
  BY NextKeeps
<1>3. QED
  BY <1>1, <1>2, PTL DEF Spec

-----------------------------------------------------------------------------
(* What the runs check, for every text.                                    *)

LEMMA Typed == ASSUME Inv PROVE TypeOK
<1>1. i \in 1 .. Len(sql) + 1 /\ after \in BOOLEAN
  BY InvFacts
<1>2. verdict \in Verdict
  BY DEF Inv, Judged
<1>3. toks \in Seq(TokenOf(sql))
  BY DEF Inv, LexedTo, TokensTo
<1>4. \A j \in DOMAIN toks : toks[j] \in TokenOf(sql)
  BY <1>3
<1>5. \A j \in DOMAIN toks : /\ toks[j].kind \in {"word", "quoted", "literal", "mark"}
                             /\ toks[j].at \in 1 .. Len(sql)
  BY <1>4 DEF TokenOf
<1>6. QED
  BY <1>1, <1>2, <1>5 DEF TypeOK, Verdict

LEMMA BeginsFrom == ASSUME NEW s, NEW k PROVE Begins(s, k).from = k
<1>1. CASE Two(s, k, "-", "-")
  <2>1. Begins(s, k) = Whole("line", k, k, 0, 0)
    BY <1>1, BeginsCases
  <2>2. QED
    BY <2>1, WholeParts
<1>2. CASE Two(s, k, "/", "*")
  <2>1. Begins(s, k) = Whole("block", k, k, 1, k + 1)
    BY <1>2, BeginsCases
  <2>2. QED
    BY <2>1, WholeParts
<1>3. CASE ~Two(s, k, "-", "-") /\ ~Two(s, k, "/", "*")
  <2>1. PICK m \in Kind \ {"line", "block"} : Begins(s, k) = Whole(m, k, k, 0, 0)
    BY <1>3, BeginsOther
  <2>2. QED
    BY <2>1, WholeParts
<1>4. QED
  BY <1>1, <1>2, <1>3

LEMMA Stepped == ASSUME Inv PROVE InStep
<1> SUFFICES ASSUME i <= Len(sql) PROVE Regions(sql)[i].from = i
  BY DEF InStep
<1>1. PICK a \in 1 .. Len(sql) : a = i
  BY InvFacts
<1>2. Regions(sql)[a] = Begins(sql, a)
  BY <1>1, InvFacts DEF Sync
<1>3. Begins(sql, a).from = a
  BY BeginsFrom
<1>4. QED
  BY <1>1, <1>2, <1>3

(* Behind the whole text, what tokenize knows is what the grammar says.    *)
LEMMA WholeText ==
    ASSUME NEW s, Len(s) \in Nat
    PROVE  /\ \A M : StartsTo(s, M, Len(s) + 1) = Starts(s, Regions(s), M)
           /\ \A a : TextTo(s, a, Len(s) + 1) = Text(s, Regions(s), a)
<1>1. Len(s) + 1 - 1 = Len(s)
  OBVIOUS
<1>2. QED
  BY <1>1 DEF StartsTo, Starts, TextTo, Text

LEMMA AllTokens ==
    ASSUME Inv, verdict \in {"accepted", "refused"}
    PROVE  /\ toks \in Seq(TokenOf(sql)) /\ InOrder(Len(sql) + 1, toks) /\ MarksShown(sql, toks)
           /\ OfKind(toks, "literal") = Starts(sql, Regions(sql), Literals)
           /\ OfKind(toks, "quoted") = Starts(sql, Regions(sql), {"ident"})
           /\ OfKind(toks, "mark") = {k \in Starts(sql, Regions(sql), {"code"}) : At(sql, k) \in {"(", ")", "."}}
           /\ WordsIn(toks) = {<<a, Text(sql, Regions(sql), a)>> : a \in Starts(sql, Regions(sql), {"word"})}
<1>1. Len(sql) \in Nat /\ i = Len(sql) + 1
  BY InvFacts DEF Inv, Judged
<1>2. TokensTo(sql, Len(sql) + 1, toks)
  BY <1>1 DEF Inv, LexedTo
<1>3. \A M : StartsTo(sql, M, Len(sql) + 1) = Starts(sql, Regions(sql), M)
  BY <1>1, WholeText
<1>4. \A a : TextTo(sql, a, Len(sql) + 1) = Text(sql, Regions(sql), a)
  BY <1>1, WholeText
<1>5. WordsTo(sql, Len(sql) + 1)
        = {<<a, Text(sql, Regions(sql), a)>> : a \in Starts(sql, Regions(sql), {"word"})}
  BY <1>3, <1>4 DEF WordsTo
<1>6. MarksTo(sql, Len(sql) + 1)
        = {k \in Starts(sql, Regions(sql), {"code"}) : At(sql, k) \in {"(", ")", "."}}
  BY <1>3 DEF MarksTo
<1>7. QED
  BY <1>2, <1>3, <1>5, <1>6 DEF TokensTo

LEMMA TokensFound == ASSUME Inv PROVE TokensOfCode
<1> SUFFICES ASSUME verdict \in {"accepted", "refused"} PROVE TokensOfCode
  BY DEF TokensOfCode
<1>1. \A j \in 2 .. Len(toks) : toks[j - 1].at < toks[j].at
  BY AllTokens DEF InOrder
<1>2. /\ OfKind(toks, "literal") = Starts(sql, Regions(sql), {"string", "dollar", "number"})
      /\ OfKind(toks, "quoted") = Starts(sql, Regions(sql), {"ident"})
      /\ OfKind(toks, "mark") = {k \in Starts(sql, Regions(sql), {"code"}) : At(sql, k) \in {"(", ")", "."}}
      /\ WordsIn(toks) = {<<a, Text(sql, Regions(sql), a)>> : a \in Starts(sql, Regions(sql), {"word"})}
  BY AllTokens DEF Literals
<1>3. QED
  BY <1>1, <1>2 DEF TokensOfCode, OfKind, WordsIn

LEMMA StoppedRight == ASSUME Inv PROVE StopsForCause
<1> SUFFICES ASSUME verdict # "lexing" PROVE StopsForCause
  BY DEF StopsForCause
<1>1. PICK seconds : seconds = Seconds(sql, Regions(sql))
  OBVIOUS
<1>2. PICK uidents : uidents = UIdents(sql, Regions(sql))
  OBVIOUS
<1>3. PICK stops : stops = seconds \cup uidents
  OBVIOUS
<1>4. Len(sql) \in Nat /\ i \in 1 .. Len(sql) + 1
  BY InvFacts
<1>5. stops \in SUBSET (1 .. Len(sql))
  BY <1>1, <1>2, <1>3 DEF Seconds, UIdents
<1>6. \A k \in 1 .. i - 1 : k \notin stops
  BY <1>1, <1>2, <1>3 DEF Inv, LexedTo, Stops
<1>7. Judged(sql, i, verdict)
  BY DEF Inv
<1>8. ASSUME i \in stops PROVE stops # {} /\ i = Min(stops)
  <2>1. Min(stops) \in stops /\ \A n \in stops : Min(stops) <= n
    BY <1>5, <1>8, MinFound
  <2>2. Min(stops) <= i /\ Min(stops) \in 1 .. Len(sql) /\ ~(Min(stops) \in 1 .. i - 1)
    BY <1>5, <1>6, <1>8, <2>1
  <2>3. QED
    BY <1>4, <1>8, <2>2
<1>9. verdict = "multi" => i \in seconds
  BY <1>1, <1>7 DEF Judged
<1>10. verdict = "uident" => i \in uidents
  BY <1>2, <1>7 DEF Judged
<1>11. ASSUME verdict = "unclosed" PROVE stops = {} /\ OpenEnd(sql, Regions(sql))
  <2>1. LeftOpen(sql, i) /\ ~Stops(sql, i)
    BY <1>7, <1>11 DEF Judged
  <2>2. OpenEnd(sql, Regions(sql))
    BY <2>1 DEF LeftOpen, OpenEnd, Open
  <2>3. \A k \in i .. Len(sql) : Regions(sql)[k].from = i
    BY <2>1 DEF LeftOpen
  <2>4. ASSUME NEW k \in stops PROVE FALSE
    <3>1. k \in 1 .. Len(sql) /\ Regions(sql)[k].from = k
      BY <1>1, <1>2, <1>3 DEF Seconds, UIdents
    <3>2. k # i
      BY <1>1, <1>2, <1>3, <2>1 DEF Stops
    <3>3. k \in 1 .. i - 1 \/ k \in i .. Len(sql)
      BY <1>4, <3>1
    <3>4. QED
      BY <1>6, <2>3, <3>1, <3>2, <3>3
  <2>5. QED
    BY <2>2, <2>4
<1>12. ASSUME verdict \in {"accepted", "refused"} PROVE stops = {} /\ ~OpenEnd(sql, Regions(sql))
  <2>1. i = Len(sql) + 1
    BY <1>7, <1>12 DEF Judged
  <2>2. stops = {}
    BY <1>4, <1>5, <1>6, <2>1
  <2>3. PICK b : b = Len(sql) + 1
    OBVIOUS
  <2>4. Regions(sql)[b - 1].m \notin Open /\ b - 1 = Len(sql)
    BY <1>4, <2>1, <2>3, InvFacts DEF Sync
  <2>5. QED
    BY <2>2, <2>4 DEF OpenEnd, Open
<1>13. verdict \in {"unclosed", "multi", "uident", "accepted", "refused"}
  BY <1>7 DEF Judged, Verdict
<1>14. /\ verdict \in {"multi", "uident"} <=> stops # {}
       /\ verdict = "multi" => i \in seconds
       /\ stops # {} => i = Min(stops)
       /\ verdict = "unclosed" <=> stops = {} /\ OpenEnd(sql, Regions(sql))
  BY <1>3, <1>8, <1>9, <1>10, <1>11, <1>12, <1>13
<1>15. QED
  BY <1>1, <1>2, <1>3, <1>14 DEF StopsForCause

(* The words of the text, and the words among the tokens.                  *)
LEMMA WordFound ==
    ASSUME Inv, verdict \in {"accepted", "refused"}, NEW a \in Starts(sql, Regions(sql), {"word"})
    PROVE  \E j \in 1 .. Len(toks) : /\ toks[j].kind = "word" /\ toks[j].at = a
                                     /\ toks[j].text = Text(sql, Regions(sql), a)
<1>1. <<a, Text(sql, Regions(sql), a)>> \in WordsIn(toks)
  BY AllTokens
<1>2. DOMAIN toks = 1 .. Len(toks)
  BY AllTokens
<1>3. QED
  BY <1>1, <1>2 DEF WordsIn

LEMMA WordMeant ==
    ASSUME Inv, verdict \in {"accepted", "refused"}, NEW j, NEW W, IsWord(j, W)
    PROVE  {Text(sql, Regions(sql), a) : a \in Starts(sql, Regions(sql), {"word"})} \cap W # {}
<1>1. toks[j].text \in W /\ <<toks[j].at, toks[j].text>> \in WordsIn(toks)
  BY DEF IsWord, WordsIn
<1>2. PICK a \in Starts(sql, Regions(sql), {"word"}) :
        <<toks[j].at, toks[j].text>> = <<a, Text(sql, Regions(sql), a)>>
  BY <1>1, AllTokens
<1>3. QED
  BY <1>1, <1>2

LEMMA HeadFound ==
    ASSUME Len(toks) \in Nat
    PROVE  LET head == Min({j \in 1 .. Len(toks) + 1 : ~IsMark(j, "(")})
           IN  /\ head \in 1 .. Len(toks) + 1 /\ ~IsMark(head, "(")
               /\ \A j \in 1 .. head - 1 : IsMark(j, "(")
<1>1. PICK T : T = {j \in 1 .. Len(toks) + 1 : ~IsMark(j, "(")}
  OBVIOUS
<1>2. ~IsMark(Len(toks) + 1, "(")
  BY DEF IsMark
<1>3. T \in SUBSET Nat /\ Len(toks) + 1 \in T
  BY <1>1, <1>2
<1>4. Min(T) \in T /\ \A n \in T : Min(T) <= n
  BY <1>3, MinFound
<1>5. \A j \in 1 .. Min(T) - 1 : IsMark(j, "(")
  BY <1>1, <1>4
<1>6. QED
  BY <1>1, <1>4, <1>5

LEMMA WordsDecide == ASSUME Inv PROVE KeywordsOfCode
<1>1. PICK words : words = {Text(sql, Regions(sql), a) : a \in Starts(sql, Regions(sql), {"word"})}
  OBVIOUS
<1>2. PICK calls : calls = {a \in Starts(sql, Regions(sql), {"code"}) : At(sql, a) = "("}
  OBVIOUS
<1>3. ASSUME verdict = "accepted" PROVE words \cap Banned = {} /\ words \cap Heads # {}
  <2>1. verdict \in {"accepted", "refused"} /\ Accepts
    BY <1>3 DEF Inv
  <2>2. Len(toks) \in Nat
    BY <2>1, AllTokens
  <2>3. PICK head : head = Min({j \in 1 .. Len(toks) + 1 : ~IsMark(j, "(")})
    OBVIOUS
  <2>4. IsWord(head, Heads) /\ \A j \in head .. Len(toks) : ~Offends(j)
    BY <2>1, <2>3 DEF Accepts
  <2>5. head \in 1 .. Len(toks) + 1 /\ \A j \in 1 .. head - 1 : IsMark(j, "(")
    BY <2>2, <2>3, HeadFound
  <2>6. words \cap Heads # {}
    BY <1>1, <2>1, <2>4, WordMeant
  <2>7. ASSUME NEW a \in Starts(sql, Regions(sql), {"word"}), Text(sql, Regions(sql), a) \in Banned
        PROVE  FALSE
    <3>1. PICK j \in 1 .. Len(toks) : /\ toks[j].kind = "word" /\ toks[j].at = a
                                      /\ toks[j].text = Text(sql, Regions(sql), a)
      BY <2>1, WordFound
    <3>2. ~IsMark(j, "(")
      BY <3>1 DEF IsMark
    <3>3. j \in head .. Len(toks)
      BY <2>2, <2>5, <3>2
    <3>4. IsWord(j, Banned)
      BY <2>1, <2>7, <3>1, AllTokens DEF IsWord
    <3>5. QED
      BY <2>4, <3>3, <3>4 DEF Offends
  <2>8. QED
    BY <1>1, <2>6, <2>7
<1>4. ASSUME verdict = "refused", At(sql, 1) \in Letter, Text(sql, Regions(sql), 1) \in Heads
      PROVE  words \cap (Banned \cup For) # {} \/ calls # {}
  <2>1. verdict \in {"accepted", "refused"} /\ ~Accepts
    BY <1>4 DEF Inv
  <2>2. Len(toks) \in Nat /\ DOMAIN toks = 1 .. Len(toks)
    BY <2>1, AllTokens
  <2>3. 1 \in Starts(sql, Regions(sql), {"word"})
    <3>1. IsText(sql) /\ Len(sql) \in Nat
      BY InvFacts
    <3>2. Sync(sql, 1)
      BY <3>1, SyncFirst
    <3>3. 1 <= Len(sql)
      <4>1. At(sql, 1) # "end"
        BY <1>4, Ends
      <4>2. QED
        BY <3>1, <4>1, AtText
    <3>4. Begins(sql, 1) = Whole("word", 1, 1, 0, 0)
      BY <1>4, BeginsCases
    <3>5. Regions(sql)[1].m = "word" /\ Regions(sql)[1].from = 1
      BY <3>2, <3>3, <3>4, WholeParts DEF Sync
    <3>6. QED
      BY <3>1, <3>3, <3>5 DEF Starts
  <2>4. PICK j \in 1 .. Len(toks) : /\ toks[j].kind = "word" /\ toks[j].at = 1
                                    /\ toks[j].text = Text(sql, Regions(sql), 1)
    BY <2>1, <2>3, WordFound
  <2>5. j = 1
    <3>1. InOrder(Len(sql) + 1, toks)
      BY <2>1, AllTokens
    <3>2. ASSUME j \in 2 .. Len(toks) PROVE FALSE
      <4>1. toks[j - 1].at < 1 /\ j - 1 \in DOMAIN toks
        BY <2>2, <2>4, <3>1, <3>2 DEF InOrder
      <4>2. toks[j - 1].at \in 1 .. Len(sql) + 1 - 1
        BY <3>1, <4>1 DEF InOrder
      <4>3. QED
        BY <4>1, <4>2
    <3>3. QED
      BY <2>2, <3>2
  <2>6. IsWord(1, Heads) /\ ~IsMark(1, "(")
    BY <1>4, <2>2, <2>4, <2>5 DEF IsWord, IsMark
  <2>7. Min({n \in 1 .. Len(toks) + 1 : ~IsMark(n, "(")}) = 1
    <3>1. PICK head : head = Min({n \in 1 .. Len(toks) + 1 : ~IsMark(n, "(")})
      OBVIOUS
    <3>2. head \in 1 .. Len(toks) + 1 /\ \A n \in 1 .. head - 1 : IsMark(n, "(")
      BY <2>2, <3>1, HeadFound
    <3>3. head = 1
      BY <2>2, <2>6, <3>2
    <3>4. QED
      BY <3>1, <3>3
  <2>8. PICK n \in 1 .. Len(toks) : Offends(n)
    BY <2>1, <2>6, <2>7 DEF Accepts
  <2>9. CASE IsWord(n, Banned)
    BY <1>1, <2>1, <2>9, WordMeant
  <2>10. CASE IsWord(n, For)
    BY <1>1, <2>1, <2>10, WordMeant
  <2>11. CASE IsMark(n + 1, "(")
    <3>1. n + 1 \in DOMAIN toks /\ toks[n + 1].kind = "mark" /\ toks[n + 1].text = <<"(">>
      BY <2>11 DEF IsMark
    <3>2. toks[n + 1].text = <<At(sql, toks[n + 1].at)>>
      BY <2>1, <3>1, AllTokens DEF MarksShown
    <3>3. At(sql, toks[n + 1].at) = "("
      BY <3>1, <3>2
    <3>4. toks[n + 1].at \in OfKind(toks, "mark")
      BY <3>1 DEF OfKind
    <3>5. toks[n + 1].at \in Starts(sql, Regions(sql), {"code"})
      BY <2>1, <3>4, AllTokens
    <3>6. QED
      BY <1>2, <3>3, <3>5
  <2>12. QED
    BY <2>8, <2>9, <2>10, <2>11 DEF Offends
<1>5. QED
  BY <1>1, <1>2, <1>3, <1>4 DEF KeywordsOfCode

(* The position, the tokens and the verdict of tokenize are always what    *)
(* the code takes them for, and i never passes the end of the text.        *)
THEOREM TypesCorrect == Spec => []TypeOK
<1>1. Inv => TypeOK
  BY Typed
<1>2. QED
  BY <1>1, LexerKnows, PTL

(* tokenize never resumes inside a string, a comment, a quoted name, a     *)
(* dollar-quoted text or a word, whatever the text.                        *)
THEOREM AlwaysInStep == Spec => []InStep
<1>1. Inv => InStep
  BY Stepped
<1>2. QED
  BY <1>1, LexerKnows, PTL

(* When ValidateSelect looks at the tokens they are the words, literals,   *)
(* quoted names and marks of the text outside its comments, each once and  *)
(* in order.                                                               *)
THEOREM TokensAreThoseOfTheText == Spec => []TokensOfCode
<1>1. Inv => TokensOfCode
  BY TokensFound
<1>2. QED
  BY <1>1, LexerKnows, PTL

(* tokenize gives up exactly at the first second statement or U&"..."      *)
(* identifier, or, without one, on a text that leaves something open.      *)
THEOREM GivesUpForCause == Spec => []StopsForCause
<1>1. Inv => StopsForCause
  BY StoppedRight
<1>2. QED
  BY <1>1, LexerKnows, PTL

(* No sensitive word inside a string, a comment or a quoted name gets a    *)
(* query refused, and none outside them is let through.                    *)
THEOREM OnlyWordsOfCodeDecide == Spec => []KeywordsOfCode
<1>1. Inv => KeywordsOfCode
  BY WordsDecide
<1>2. QED
  BY <1>1, LexerKnows, PTL
=============================================================================
