---------------------------------- MODULE Dsn ----------------------------------
(***************************************************************************)
(* Connection strings: what internal/config/config.go makes of the one in  *)
(* the configuration (BuildDSN and its helpers), and how the driver reads  *)
(* the result (gaussdbconn/config.go).                                     *)
(*                                                                         *)
(* A text is a sequence of words and of the characters that mean something *)
(* to either reader: "=", " " for the white space both know, "'", "\\" and   *)
(* "://".  The configuration gives fields: a key (a word, the one the      *)
(* driver knows it by), a value (a text) and whether that is quoted.  In   *)
(* the keyword=value form they make up such a text; in the URL form they   *)
(* are its query, a function from keys to the values of each (url.Values), *)
(* by their places.  A URL has the scheme the driver knows, the rest of it *)
(* is of no interest and its escaping is exact.                            *)
(***************************************************************************)
EXTENDS Naturals, FiniteSets, FiniteSetsExt, SequencesExt

KV(text)   == [form |-> "kv", text |-> text]
URL(query) == [form |-> "url", query |-> query]

Blank == " "
Quote == "'"
Slash == "\\"

(* A map of one key; what one map has, and for other keys another.         *)
Only(key, value) == [k \in {key} |-> value]
Over(f, g) == [k \in DOMAIN f \cup DOMAIN g |-> IF k \in DOMAIN f THEN f[k] ELSE g[k]]

(* A field and a connection string as they stand in the configuration.     *)
ValueText(f) == IF f.quoted THEN <<Quote>> \o f.value \o <<Quote>> ELSE f.value
FieldText(f) == <<f.key, "=">> \o ValueText(f)

Joins(text, f) == IF text = <<>> THEN FieldText(f) ELSE text \o <<Blank>> \o FieldText(f)

Joined(text, fields) ==
    LET upTo[k \in 0 .. Len(fields)] == IF k = 0 THEN text ELSE Joins(upTo[k - 1], fields[k])
    IN  upTo[Len(fields)]

KeysOf(fields)      == {<<fields[i].key>> : i \in DOMAIN fields}
Places(fields, key) == {i \in DOMAIN fields : <<fields[i].key>> = key}

Query(fields) == [key \in KeysOf(fields) |-> [i \in Places(fields, key) |-> fields[i].value]]

Written(dsn) == IF dsn.form = "kv" THEN KV(Joined(<<>>, dsn.fields)) ELSE URL(Query(dsn.fields))

-----------------------------------------------------------------------------
(* config.go                                                               *)

(* isURLFormDSN: "://" somewhere, and no blank before it.  A text of this  *)
(* kind is no URL: its first part is no scheme.                            *)
IsURLFormDSN(text) ==
    \E i \in 2 .. Len(text) : text[i] = "://" /\ \A j \in 1 .. i - 1 : text[j] # Blank

(* splitKVFields: every quote opens or closes, whatever is before it.      *)
InQuote(text, i) == Cardinality({j \in 1 .. i - 1 : text[j] = Quote}) % 2 = 1

(* A bug: blanks in a quoted value separate fields as well.                *)
FieldStartBlind(text, i) == i = 1 \/ text[i - 1] = Blank

FieldStart(text, i) == i = 1 \/ (text[i - 1] = Blank /\ ~InQuote(text, i))

(* DSNHasParam: a field that begins with the key and "=".  A text that     *)
(* looks like a URL is parsed as one, in vain.                             *)
DSNHasParam(dsn, key) ==
    IF dsn.form = "url" THEN <<key>> \in DOMAIN dsn.query
    ELSE /\ ~IsURLFormDSN(dsn.text)
         /\ \E i \in 1 .. Len(dsn.text) - 1 :
               dsn.text[i] = key /\ dsn.text[i + 1] = "=" /\ FieldStart(dsn.text, i)

(* url.Values.Set leaves a key one value.                                  *)
Single(value) == Only(1, value)

(* ensureSSLMode                                                           *)
EnsureSSLMode(dsn, sslmode) ==
    LET mode == IF sslmode = "" THEN "disable" ELSE sslmode
    IN  IF DSNHasParam(dsn, "sslmode") THEN dsn
        ELSE IF dsn.form = "url" THEN URL(Over(Only(<<"sslmode">>, Single(<<mode>>)), dsn.query))
        ELSE KV(dsn.text \o <<Blank, "sslmode", "=", mode>>)

(* mergeOptionsIntoQuery: of two options with a key the later replaces the *)
(* earlier, and its value is all that is behind "=", also a quote.         *)
MergedOptions(options) ==
    [key \in KeysOf(options) |-> Single(ValueText(options[Max(Places(options, key))]))]

(* appendOptions: into the query they go in the place of what it has, to a *)
(* text they are appended.                                                 *)
AppendOptions(dsn, options) ==
    IF dsn.form = "url" THEN URL(Over(MergedOptions(options), dsn.query))
    ELSE KV(Joined(dsn.text, options))

(* BuildDSN; split fields, which have no parameters of their own, become   *)
(* a URL.                                                                  *)
BuildDSN(inst) == AppendOptions(EnsureSSLMode(Written(inst.dsn), inst.sslmode), inst.options)

-----------------------------------------------------------------------------
(* gaussdbconn/config.go                                                   *)

(* Whether the character at i is taken as it is, because an odd number of  *)
(* backslashes, none of them before `from', precedes it.                   *)
Escaped(text, from, i) ==
    Cardinality({j \in from .. i - 1 : \A k \in j .. i - 1 : text[k] = Slash}) % 2 = 1

(* The first place, from `from' on, of one of the characters, or the end.  *)
Find(text, from, chars) ==
    Min({i \in from .. Len(text) : text[i] \in chars /\ ~Escaped(text, from, i)} \cup {Len(text) + 1})

SkipBlanks(text, from) ==
    Min({i \in from .. Len(text) : text[i] # Blank} \cup {Len(text) + 1})

Trimmed(text, from, to) ==
    LET words == {i \in from .. to : text[i] # Blank}
    IN  IF words = {} THEN <<>> ELSE SubSeq(text, Min(words), Max(words))

(* One turn of parseKeywordValueSettings, from i on.  The value begins     *)
(* after the blanks that follow "=", so that a missing one is the next     *)
(* word; escapes are left in it.                                           *)
ReadField(text, i) ==
    LET end    == Len(text) + 1
        eq     == Min({j \in i .. Len(text) : text[j] = "="} \cup {end})
        key    == Trimmed(text, i, eq - 1)
        start  == SkipBlanks(text, eq + 1)
        quoted == start < end /\ text[start] = Quote
        from   == IF quoted THEN start + 1 ELSE start
        close  == Find(text, from, {IF quoted THEN Quote ELSE Blank})
    IN  [ok    |-> eq < end /\ key # <<>> /\ (close = end => ~quoted /\ ~Escaped(text, from, end)),
         key   |-> key,
         value |-> SubSeq(text, from, close - 1),
         next  |-> Min({close + 1, end})]

(* All its turns; of a key given twice the last value counts.              *)
Failed == [ok |-> FALSE, values |-> <<>>]

ParseKeywordValueSettings(text) ==
    LET end == Len(text) + 1
        Parse[i \in 1 .. end] ==
            LET field == ReadField(text, i)
                rest  == Parse[field.next]
            IN  IF i = end THEN [ok |-> TRUE, values |-> <<>>]
                ELSE IF field.ok /\ rest.ok
                  THEN [ok |-> TRUE, values |-> Over(rest.values, Only(field.key, field.value))]
                ELSE Failed
    IN  Parse[1]

(* parseURLSettings takes the first value of each key.                     *)
ParseURLSettings(query) == [key \in DOMAIN query |-> query[key][Min(DOMAIN query[key])]]

(* What the driver understands, whichever form it gets.                    *)
Settings(dsn) ==
    IF dsn.form = "url" THEN [ok |-> TRUE, values |-> ParseURLSettings(dsn.query)]
    ELSE ParseKeywordValueSettings(dsn.text)
=============================================================================
