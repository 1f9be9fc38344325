-------------------------------- MODULE Guard --------------------------------
(***************************************************************************)
(* The SQL guard of execute_select (internal/guard/guard.go): tokenize,    *)
(* which cuts a text into words, quoted identifiers, literals and marks,   *)
(* and ValidateSelect, which looks for what a read-only query may not      *)
(* contain.  One turn of tokenize's loop is one action.                    *)
(*                                                                         *)
(* A text is a sequence of characters.  Letters come in lower case only    *)
(* (tokens are lowered), and a key word is whatever word the constants say *)
(* it is: what matters here is where words begin and end.                  *)
(***************************************************************************)
EXTENDS Integers, Sequences, SequencesExt

CONSTANTS
    Inputs,     \* the texts given to the guard
    Letter,     \* characters of words, "e" and "u" among them
    Heads,      \* words a query begins with: select, with
    Banned,     \* words a query does not contain: insert, ..., into
    For, Locks, \* a word of For is not followed by one of Locks
    Blocked     \* functions: [text, star], star for every name with that prefix

ASSUME GuardAssumption ==
    /\ {"e", "u"} \subseteq Letter
    /\ Letter \cap {"0", "1", "$", " ", "\n", "-", "/", "'", "\"", ";", "(", ")", ".", "end"} = {}
    /\ \A t \in Inputs : t \in Seq(Range(t)) /\ "end" \notin Range(t)
    /\ \A p \in Blocked : p.star \in BOOLEAN

VARIABLES
    sql,      \* the text
    i,        \* the next character to look at
    after,    \* inside the loop that follows a semicolon
    toks,     \* the tokens so far
    verdict   \* "lexing", or how ValidateSelect ended

vars == <<sql, i, after, toks, verdict>>

Digit == {"0", "1"}
Blanks == {" ", "\n"}
TagChar == Letter \cup Digit
IdentChar == TagChar \cup {"$"}

Init ==
    /\ sql \in Inputs
    /\ i = 1
    /\ after = FALSE
    /\ toks = <<>>
    /\ verdict = "lexing"

-----------------------------------------------------------------------------
(* Looking at the text.                                                    *)

At(s, k) == IF k \in 1 .. Len(s) THEN s[k] ELSE "end"
Two(s, k, a, b) == At(s, k) = a /\ At(s, k + 1) = b

(* The first position from k on whose character is not in S.               *)
RunEnd(s, k, S) == Min({j \in k .. Len(s) + 1 : At(s, j) \notin S})

LineEnd(s, k) == Min({j \in k .. Len(s) + 1 : At(s, j) \in {"\n", "end"}})

(* Comments nest; 0 for one that does not end.                             *)
CommentEnd(s, k) ==
    LET end[j \in Nat] ==
          [depth \in Nat |->
            IF depth = 0 THEN j
            ELSE IF j > Len(s) THEN 0
            ELSE IF Two(s, j, "/", "*") THEN end[j + 2][depth + 1]
            ELSE IF Two(s, j, "*", "/") THEN end[j + 2][depth - 1]
            ELSE end[j + 1][depth]]
    IN  end[k + 2][1]

(* A bug: a doubled quote ends the string.                                 *)
QuoteEndPlain(s, k, q, backslash) ==
    LET end[j \in Nat] ==
            IF j > Len(s) THEN 0
            ELSE IF backslash /\ At(s, j) = "\\" THEN end[j + 2]
            ELSE IF At(s, j) = q THEN j + 1
            ELSE end[j + 1]
    IN  end[k + 1]

(* What follows the closing quote; a doubled one does not close, nor does  *)
(* one after a backslash where that is an escape.                          *)
QuoteEnd(s, k, q, backslash) ==
    LET end[j \in Nat] ==
            IF j > Len(s) THEN 0
            ELSE IF backslash /\ At(s, j) = "\\" THEN end[j + 2]
            ELSE IF Two(s, j, q, q) THEN end[j + 2]
            ELSE IF At(s, j) = q THEN j + 1
            ELSE end[j + 1]
    IN  end[k + 1]

(* uEscapePrefixAt: the character between u and the quote is not looked at. *)
UPrefix(s, k) == At(s, k - 2) = "u" /\ At(s, k - 3) \notin IdentChar

(* escapePrefixAt: E'...' and U&'...'.                                     *)
EscapePrefix(s, k) ==
    \/ At(s, k - 1) = "e" /\ At(s, k - 2) \notin IdentChar
    \/ At(s, k - 1) = "&" /\ UPrefix(s, k)

(* The characters of a number: a sign or an e only before a digit.         *)
InNumber(s, j) == \/ At(s, j) \in Digit \cup {"."}
                  \/ At(s, j) \in {"e", "+", "-"} /\ At(s, j + 1) \in Digit

(* strings.Index: where what is in a .. b is found again behind it.        *)
Again(s, a, b) == {k \in b + 1 .. Len(s) + a - b : SubSeq(s, k, k + b - a) = SubSeq(s, a, b)}

-----------------------------------------------------------------------------
(* tokenize.                                                               *)

Lexing == verdict = "lexing" /\ i <= Len(sql)

Skip(j) ==
    /\ i' = j
    /\ UNCHANGED <<sql, after, toks, verdict>>

Emit(kind, text, j) ==
    /\ toks' = Append(toks, [kind |-> kind, text |-> text, at |-> i])
    /\ i' = j
    /\ UNCHANGED <<sql, after, verdict>>

Stop(v) ==
    /\ verdict' = v
    /\ UNCHANGED <<sql, i, after, toks>>

Blank ==
    /\ Lexing /\ At(sql, i) \in Blanks
    /\ Skip(i + 1)

LineComment ==
    /\ Lexing /\ Two(sql, i, "-", "-")
    /\ Skip(LineEnd(sql, i))

BlockComment ==
    /\ Lexing /\ Two(sql, i, "/", "*")
    /\ IF CommentEnd(sql, i) = 0 THEN Stop("unclosed") ELSE Skip(CommentEnd(sql, i))

Code == Lexing /\ At(sql, i) \notin Blanks /\ ~Two(sql, i, "-", "-") /\ ~Two(sql, i, "/", "*")

(* Only blanks and comments may follow a semicolon.                        *)
SecondStatement ==
    /\ Code /\ after
    /\ Stop("multi")

StringLiteral ==
    /\ Code /\ ~after /\ At(sql, i) = "'"
    /\ LET end == QuoteEnd(sql, i, "'", EscapePrefix(sql, i))
       IN  IF end = 0 THEN Stop("unclosed") ELSE Emit("literal", <<>>, end)

(* The text keeps a doubled quote doubled; no blocked name has a quote.    *)
QuotedIdent ==
    /\ Code /\ ~after /\ At(sql, i) = "\""
    /\ LET end == QuoteEnd(sql, i, "\"", FALSE)
       IN  IF UPrefix(sql, i) THEN Stop("uident")
           ELSE IF end = 0 THEN Stop("unclosed")
           ELSE Emit("quoted", SubSeq(sql, i + 1, end - 2), end)

(* A bug: the dollar sign itself is not counted.                           *)
DollarStuck ==
    /\ Code /\ ~after /\ At(sql, i) = "$"
    /\ LET j   == RunEnd(sql, i + 1, TagChar)
           end == Again(sql, i, j)
       IN  IF At(sql, j) = "$" /\ At(sql, i + 1) \notin Digit
             THEN IF end = {} THEN Stop("unclosed")
                  ELSE Emit("literal", <<>>, Min(end) + j - i + 1)
             ELSE Skip(j - 1)

(* $tag$ ... $tag$, where a tag does not begin with a digit, or else a     *)
(* parameter, which is no token.                                           *)
Dollar ==
    /\ Code /\ ~after /\ At(sql, i) = "$"
    /\ LET j   == RunEnd(sql, i + 1, TagChar)
           end == Again(sql, i, j)
       IN  IF At(sql, j) = "$" /\ At(sql, i + 1) \notin Digit
             THEN IF end = {} THEN Stop("unclosed")
                  ELSE Emit("literal", <<>>, Min(end) + j - i + 1)
             ELSE Skip(j)

Word ==
    /\ Code /\ ~after /\ At(sql, i) \in Letter
    /\ LET j == RunEnd(sql, i, IdentChar) IN Emit("word", SubSeq(sql, i, j - 1), j)

Number ==
    /\ Code /\ ~after /\ At(sql, i) \in Digit
    /\ Emit("literal", <<>>, Min({j \in i .. Len(sql) + 1 : ~InNumber(sql, j)}))

(* A bug: the dot of a qualified name is dropped like other punctuation.   *)
MarkNoDot ==
    /\ Code /\ ~after /\ At(sql, i) \notin IdentChar \cup {"'", "\"", ";"}
    /\ IF At(sql, i) \in {"(", ")"} THEN Emit("mark", <<At(sql, i)>>, i + 1) ELSE Skip(i + 1)

(* Of all other punctuation, ( ) and . are tokens.                         *)
Mark ==
    /\ Code /\ ~after /\ At(sql, i) \notin IdentChar \cup {"'", "\"", ";"}
    /\ IF At(sql, i) \in {"(", ")", "."} THEN Emit("mark", <<At(sql, i)>>, i + 1) ELSE Skip(i + 1)

(* A bug: a semicolon is dropped like other punctuation.                   *)
SemicolonDropped ==
    /\ Code /\ ~after /\ At(sql, i) = ";"
    /\ Skip(i + 1)

Semicolon ==
    /\ Code /\ ~after /\ At(sql, i) = ";"
    /\ after' = TRUE
    /\ i' = i + 1
    /\ UNCHANGED <<sql, toks, verdict>>

-----------------------------------------------------------------------------
(* ValidateSelect.                                                         *)

IsMark(j, c) == j \in DOMAIN toks /\ toks[j].kind = "mark" /\ toks[j].text = <<c>>
IsName(j) == j \in DOMAIN toks /\ toks[j].kind \in {"word", "quoted"}

(* A bug: a quoted identifier is compared like a word.                     *)
IsWordAny(j, words) == IsName(j) /\ toks[j].text \in words

IsWord(j, words) == j \in DOMAIN toks /\ toks[j].kind = "word" /\ toks[j].text \in words

(* buildFullName: the names joined by dots that end in token j.            *)
FullName(j) ==
    LET full[k \in Nat] ==
            IF IsMark(k - 1, ".") /\ IsName(k - 2) /\ toks[k - 2].text # <<>>
              THEN full[k - 2] \o <<".">> \o toks[k].text
              ELSE toks[k].text
    IN  full[j]

(* tokenTail: what follows the last dot (a quoted name may have one).      *)
TokenTail(name) == SubSeq(name, Max({0} \cup {k \in DOMAIN name : name[k] = "."}) + 1, Len(name))

(* isBlockedFunction: an entry with a dot is about the full name.          *)
IsBlocked(j) ==
    \E p \in Blocked :
        LET name == IF Contains(p.text, ".") THEN FullName(j) ELSE TokenTail(toks[j].text)
        IN  IF p.star THEN IsPrefix(p.text, name) ELSE name = p.text

Offends(j) ==
    \/ IsWord(j, Banned)
    \/ IsWord(j, For) /\ IsWord(j + 1, Locks)
    \/ IsName(j) /\ IsMark(j + 1, "(") /\ IsBlocked(j)

(* The first token that is not an opening parenthesis is the head.         *)
Accepts ==
    LET head == Min({j \in 1 .. Len(toks) + 1 : ~IsMark(j, "(")})
    IN  IsWord(head, Heads) /\ \A j \in head .. Len(toks) : ~Offends(j)

ValidateSelect ==
    /\ verdict = "lexing" /\ i > Len(sql)
    /\ Stop(IF Accepts THEN "accepted" ELSE "refused")

Next ==
    \/ Blank \/ LineComment \/ BlockComment \/ SecondStatement
    \/ StringLiteral \/ QuotedIdent \/ Dollar \/ Word \/ Number \/ Mark \/ Semicolon
    \/ ValidateSelect

Spec == Init /\ [][Next]_vars

(* It is one sequential computation.                                       *)
FairSpec == Spec /\ WF_vars(Next)

-----------------------------------------------------------------------------
(* The grammar the comments of tokenize give, character by character: the  *)
(* region each character belongs to.  It never jumps; skip is the second   *)
(* character of a mark of two.                                             *)

Region(m, k) == [m |-> m, from |-> k, to |-> k, depth |-> 0, skip |-> 0]
Closing(r) == [r EXCEPT !.m = "closing"]
Twice(r, k) == [r EXCEPT !.skip = k + 1]

(* The region that begins with character k, outside all others.            *)
Begins(s, k) ==
    CASE Two(s, k, "-", "-")   -> Region("line", k)
      [] Two(s, k, "/", "*")   -> Twice([Region("block", k) EXCEPT !.depth = 1], k)
      [] At(s, k) = "'"        -> Region("string", k)
      [] At(s, k) = "\""       -> Region("ident", k)
      [] At(s, k) = "$"        -> Region("param", k)
      [] At(s, k) \in Letter   -> Region("word", k)
      [] At(s, k) \in Digit    -> Region("number", k)
      [] OTHER              -> Region("code", k)

(* Character k after a character of region r.                              *)
InBlock(s, r, k) ==
    IF Two(s, k, "/", "*") THEN Twice([r EXCEPT !.depth = @ + 1], k)
    ELSE IF ~Two(s, k, "*", "/") THEN r
    ELSE IF r.depth = 1 THEN Twice(Closing(r), k)
    ELSE Twice([r EXCEPT !.depth = @ - 1], k)

InQuotes(s, r, k, q, backslash) ==
    IF (backslash /\ At(s, k) = "\\") \/ Two(s, k, q, q) THEN Twice(r, k)
    ELSE IF At(s, k) = q THEN Closing(r)
    ELSE r

InDollar(s, r, k) ==
    LET size == r.to - r.from + 1
    IN  IF k - size >= r.to /\ SubSeq(s, k - size + 1, k) = SubSeq(s, r.from, r.to)
          THEN Closing(r) ELSE r

InParam(s, r, k) ==
    IF At(s, k) \in TagChar THEN r
    ELSE IF At(s, k) = "$" /\ At(s, r.from + 1) \notin Digit
      THEN [Region("dollar", r.from) EXCEPT !.to = k]
    ELSE Begins(s, k)

Continues(s, r, k) ==
    IF k <= r.skip THEN r
    ELSE CASE r.m = "line"   -> IF At(s, k) = "\n" THEN Begins(s, k) ELSE r
           [] r.m = "block"  -> InBlock(s, r, k)
           [] r.m = "string" -> InQuotes(s, r, k, "'", EscapePrefix(s, r.from))
           [] r.m = "ident"  -> InQuotes(s, r, k, "\"", FALSE)
           [] r.m = "param"  -> InParam(s, r, k)
           [] r.m = "dollar" -> InDollar(s, r, k)
           [] r.m = "word"   -> IF At(s, k) \in IdentChar THEN r ELSE Begins(s, k)
           [] r.m = "number" -> IF InNumber(s, k) THEN r ELSE Begins(s, k)
           [] OTHER          -> Begins(s, k)

Regions(s) ==
    LET region[k \in 0 .. Len(s)] ==
            IF k = 0 THEN Region("code", 0) ELSE Continues(s, region[k - 1], k)
    IN  region

(* Where regions of the kinds in M begin, and the text of one.             *)
Starts(s, reg, M) == {reg[k].from : k \in {k \in 1 .. Len(s) : reg[k].m \in M}}
Text(s, reg, a) == SubSeq(s, a, Max({k \in a .. Len(s) : reg[k].from = a}))

(* Where a second statement begins, and an identifier taken for U&"...".   *)
Seconds(s, reg) ==
    {k \in 1 .. Len(s) :
        /\ \E j \in 1 .. k - 1 : reg[j].m = "code" /\ At(s, j) = ";"
        /\ reg[k].from = k /\ reg[k].m \notin {"line", "block"} /\ At(s, k) \notin Blanks}
UIdents(s, reg) == {k \in 1 .. Len(s) : reg[k].m = "ident" /\ reg[k].from = k /\ UPrefix(s, k)}
OpenEnd(s, reg) == reg[Len(s)].m \in {"string", "ident", "block", "dollar"}

-----------------------------------------------------------------------------
(* Properties.                                                             *)

TypeOK ==
    /\ i \in 1 .. Len(sql) + 1
    /\ after \in BOOLEAN
    /\ \A j \in DOMAIN toks : /\ toks[j].kind \in {"word", "quoted", "literal", "mark"}
                              /\ toks[j].at \in 1 .. Len(sql)
    /\ verdict \in {"lexing", "unclosed", "multi", "uident", "accepted", "refused"}

(* The lexer is never in the middle of a string, a comment, a quoted name  *)
(* or a word when it starts its next turn: no jump over a doubled quote, a *)
(* backslash, a nested comment or a tag ends short or too far.             *)
InStep == verdict = "lexing" /\ i <= Len(sql) => Regions(sql)[i].from = i

(* The tokens are the words, literals, quoted names and marks outside      *)
(* comments, each whole and none twice, in the order of the text.          *)
TokensOfCode ==
    verdict \in {"accepted", "refused"} =>
        LET reg == Regions(sql)
            Of(kind) == {toks[j].at : j \in {j \in DOMAIN toks : toks[j].kind = kind}}
        IN  /\ \A j \in 2 .. Len(toks) : toks[j - 1].at < toks[j].at
            /\ Of("literal") = Starts(sql, reg, {"string", "dollar", "number"})
            /\ Of("quoted") = Starts(sql, reg, {"ident"})
            /\ Of("mark") = {k \in Starts(sql, reg, {"code"}) : At(sql, k) \in {"(", ")", "."}}
            /\ {<<toks[j].at, toks[j].text>> : j \in {j \in DOMAIN toks : toks[j].kind = "word"}}
                 = {<<a, Text(sql, reg, a)>> : a \in Starts(sql, reg, {"word"})}

(* A text is turned down before its tokens are looked at only for what is  *)
(* wrong first: a second statement, an identifier in Unicode escapes, or   *)
(* something left open; and always for that.                               *)
StopsForCause ==
    verdict # "lexing" =>
        LET reg   == Regions(sql)
            stops == Seconds(sql, reg) \cup UIdents(sql, reg)
        IN  /\ verdict \in {"multi", "uident"} <=> stops # {}
            /\ verdict = "multi" => i \in Seconds(sql, reg)
            /\ stops # {} => i = Min(stops)
            /\ verdict = "unclosed" <=> stops = {} /\ OpenEnd(sql, reg)

(* The package comment: strings, comments and quoted identifiers are       *)
(* skipped, so that a sensitive word inside one is no false alarm.  A      *)
(* query that begins with select is refused only for a word outside them   *)
(* or for a call, and accepted only without a banned word outside them.    *)
KeywordsOfCode ==
    LET reg   == Regions(sql)
        Words == {Text(sql, reg, a) : a \in Starts(sql, reg, {"word"})}
        Calls == {a \in Starts(sql, reg, {"code"}) : At(sql, a) = "("}
    IN  /\ verdict = "accepted" => Words \cap Banned = {} /\ Words \cap Heads # {}
        /\ verdict = "refused" /\ At(sql, 1) \in Letter /\ Text(sql, reg, 1) \in Heads =>
              Words \cap (Banned \cup For) # {} \/ Calls # {}

(* Every text gets a verdict.                                              *)
Decides == <>(verdict # "lexing")

(* The comment of uEscapePrefixAt (guard.go:359): it tells whether the     *)
(* quote is next to the prefix U&.                                         *)
OnlyPrefixRefused == verdict = "uident" => At(sql, i - 1) = "&"
=============================================================================
