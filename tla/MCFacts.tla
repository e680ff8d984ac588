------------------------------ MODULE MCFacts ------------------------------
(***************************************************************************)
(* Instances of Facts for TLC: besides an ordinary instance, one that has  *)
(* little to say, one whose numbers no table knows and one whose elements  *)
(* are nested and repeated where a scalar is expected; enumerations of     *)
(* none, one and two of them.                                              *)
(***************************************************************************)
EXTENDS Facts

P(kind, number) == [kind |-> kind, number |-> number]

Instance(key, name, count, flag, status) ==
    [k \in Properties |->
        IF k = "key" THEN key ELSE IF k = "name" THEN name
        ELSE IF k = "count" THEN count ELSE IF k = "flag" THEN flag ELSE status]

Word == P("word", 0)
Absent == P("absent", 0)

Ordinary1 == Instance(P("AMT", 0), Word, P("number", 2), P("true", 0), P("number", 14))
Sparse == Instance(Word, Absent, Absent, Word, P("empty", 0))
OffTable == Instance(P("AMT", 0), P("guid", 0), P("number", 99), P("number", 1), Absent)
Tangled == Instance(Word, P("nested", 0), P("repeated", 2), P("nested", 0), P("nested", 224))

ThreeUnusual == {Sparse, OffTable, Tangled}

SomeEnumerations ==
    {<<Ordinary1>>, <<>>, <<Blank>>, <<Tangled, Ordinary1>>, <<Sparse, OffTable>>}

Plus(s) == <<"+", s>>
Not(s) == <<"!", s>>

SomeSubsets ==
    {{Plus("config")}, {Plus("all")}, {Not("memory")}, {Plus("all"), Not("system")},
     {Plus("hardware"), Not("min")}, {Plus("storage"), Not("all")}, {Not("all")},
     {Plus("system")}, {Plus("min"), Not("hardware")}}
============================================================================
