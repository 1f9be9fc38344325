----------------------------- MODULE MCLifecycle -----------------------------
(* Instances of Lifecycle for TLC: files that vary one thing at a time.    *)
EXTENDS Lifecycle

Absent    == [form |-> "absent", value |-> 0]
Dur(f, n) == [form |-> f, value |-> n]

F(key, value)      == [key |-> key, value |-> value, quoted |-> FALSE]
Quoted(key, value) == [key |-> key, value |-> value, quoted |-> TRUE]

Plain == [name |-> "a", dsn |-> [form |-> "none", fields |-> <<>>], host |-> TRUE, database |-> TRUE,
          sslmode |-> "", options |-> <<>>, connect |-> Absent, timeout |-> Absent, pool |-> 0]

FileOf(instances) == [server |-> [timeout |-> Absent, connect |-> Absent],
                      instances |-> instances, default |-> ""]

(* Connection strings of up to three fields, with values that hold parts   *)
(* of others, and some that are not clear.                                 *)
Fields == {F("sslmode", <<"require">>), F("connect_timeout", <<"1">>),
           F("password", <<"v">>), F("password", <<"sslmode", "=", "require">>),
           F("password", <<"v", "://", "v">>), F("password", <<"v", Quote, "v">>), F("password", <<>>),
           Quoted("password", <<"v", Blank, "sslmode", "=", "require">>),
           Quoted("password", <<"v", Blank, "connect_timeout", "=", "2">>), Quoted("password", <<>>)}

Options == {F("connect_timeout", <<"2">>), F("sslmode", <<"verify-ca">>), F("application_name", <<"v">>)}

Lists(S, n) == UNION {{s \in [1 .. k -> S] : \A i, j \in 1 .. k : s[i].key = s[j].key => i = j} : k \in 0 .. n}

DsnFiles ==
    {FileOf(<<[Plain EXCEPT !.dsn = [form |-> f, fields |-> l], !.options = o, !.sslmode = m]>>) :
        f \in {"kv", "url"}, l \in Lists(Fields, 3) \ {<<>>}, o \in Lists(Options, 2), m \in {"", "allow"}}

(* Connection strings and options with a key twice or three times, before  *)
(* and behind another, and options that are quoted.                        *)
Twice == {F("sslmode", <<"require">>), F("sslmode", <<"prefer">>),
          F("connect_timeout", <<"1">>), Quoted("connect_timeout", <<"3">>)}

TwiceOptions == {<<>>, <<F("connect_timeout", <<"2">>), F("connect_timeout", <<"4">>)>>,
                 <<F("sslmode", <<"verify-ca">>), F("sslmode", <<"verify-full">>)>>,
                 <<Quoted("connect_timeout", <<"5">>)>>}

TwiceFiles ==
    {FileOf(<<[Plain EXCEPT !.dsn = [form |-> f, fields |-> l], !.options = o]>>) :
        f \in {"kv", "url"}, l \in UNION {[1 .. n -> Twice] : n \in 2 .. 3}, o \in TwiceOptions}

(* Durations around nothing, a millisecond and the largest Duration.       *)
Durations == {Absent, Dur("bad", 0)} \cup
             {Dur(f, n) : f \in {"number", "text"},
                          n \in {-1, 0, 1, Millisecond + 1, 8 * Second + 1,
                                 Top64 - 5 * Second - 1, Top64 - 5 * Second, Top64 - 1, Top64}}

DurationFiles ==
    {[FileOf(<<[Plain EXCEPT !.timeout = d, !.connect = e]>>) EXCEPT !.server.timeout = s, !.server.connect = t] :
        d, e \in Durations, s, t \in {Absent, Dur("text", 3 * Second), Dur("bad", 0), Dur("number", -1)}}

PoolFiles == {FileOf(<<[Plain EXCEPT !.pool = n]>>) :
                n \in {-1, 1, 1024, 1025, 2 * Top32 + 4}}

(* Up to three instances, named or not, missing, with or without parts.    *)
Items == {NilItem, Plain, [Plain EXCEPT !.name = "b"], [Plain EXCEPT !.name = ""],
          [Plain EXCEPT !.name = "c", !.host = FALSE], [Plain EXCEPT !.name = "c", !.database = FALSE]}

NameFiles == {[FileOf(l) EXCEPT !.default = d] :
                l \in UNION {[1 .. n -> Items] : n \in 0 .. 3}, d \in {"", "a", "b", "d"}}

MCFiles == DsnFiles \cup TwiceFiles \cup DurationFiles \cup PoolFiles \cup NameFiles
=============================================================================
