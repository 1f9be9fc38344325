---------------------------- MODULE MCResultSet ----------------------------
(* Instances of ResultSet for TLC.                                         *)
EXTENDS ResultSet

Id(numbers) == [stem |-> "id", numbers |-> numbers]

(* id, id_2, id_3 and id_2_2, in every order, up to four columns.          *)
MCColumns == UNION {[1 .. n -> {Id(<<>>), Id(<<2>>), Id(<<3>>), Id(<<2, 2>>)}] : n \in 0 .. 4}

MCSettings == -1 .. 3

(* Every kind of value, alone and up to two levels down.                   *)
Scalars == [kind : {"null", "plain", "time", "late", "finite", "nan", "bytes", "raw", "stringer", "other"},
            parts : {<<>>}]
Over(values) == [kind : {"list", "map", "valuer"}, parts : {<<>>} \cup {<<v>> : v \in values}]
Nested  == Over(Scalars)
MCValue == Scalars \cup Nested \cup Over(Nested)

(* What is found out about the values does not depend on the names of the  *)
(* columns, nor on the settings: other values than text come in one column *)
(* of a result with the default limits.                                    *)
MCInit ==
    /\ \/ cell = Text
       \/ cell \in MCValue /\ cols = <<Id(<<>>)>> /\ asked = 0 /\ cap = 2 /\ limit = 2
    /\ Init

MCSpec == MCInit /\ [][Next]_vars /\ WF_vars(Next)
=============================================================================
