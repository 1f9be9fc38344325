------------------------------- MODULE MCGuard -------------------------------
(* Instances of Guard for TLC: s stands for select, b for insert, f and l  *)
(* for FOR UPDATE, x for a blocked function, l.. for a blocked prefix and  *)
(* e.f for a blocked qualified name.                                       *)
EXTENDS Guard

MCLetter == {"s", "b", "f", "l", "x", "e", "u", "a"}
MCHeads == {<<"s">>}
MCBanned == {<<"b">>}
MCFor == {<<"f">>}
MCLocks == {<<"l">>}
MCBlocked == {[text |-> <<"x">>, star |-> FALSE],
              [text |-> <<"l">>, star |-> TRUE],
              [text |-> <<"e", ".", "f">>, star |-> FALSE]}

UpTo(S, n) == UNION {[1 .. m -> S] : m \in 0 .. n}
After(S, n) == {<<"s", " ">> \o t : t \in UpTo(S, n)}

(* Quotes and their prefixes; comments and second statements; dollar       *)
(* quotes, parameters and numbers; the words, marks and quoted names of a  *)
(* query.                                                                  *)
MCInputs ==
    UpTo({"e", "u", "&", "'", "\"", "\\"}, 5) \cup UpTo({"a", "u", ".", "&", "\""}, 4)
        \cup UpTo({"/", "*", ";"}, 8) \cup UpTo({"-", "/", "*", "\n", ";", "'"}, 4)
        \cup UpTo({"$", "a", "1", "'"}, 6) \cup UpTo({"1", "e", "+", ".", "'"}, 4)
        \cup After({"b", "f", "l", "x", "e", "(", ".", "\""}, 4)
=============================================================================
