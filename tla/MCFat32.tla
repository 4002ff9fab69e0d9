------------------------------ MODULE MCFat32 ------------------------------
(* Instances of Fat32 for TLC. *)
EXTENDS Fat32

Rel(parts) == [abs |-> FALSE, parts |-> parts]
Abs(parts) == [abs |-> TRUE, parts |-> parts]

\* The same name in the current directory and in the root.
Files2 == {Rel(<<"f">>), Abs(<<"f">>)}

\* /agent is full when it is made: a file in it takes a second cluster.
Dirs2 == {Abs(<<>>), Abs(<<"agent">>)}

\* One cell, and more than a cluster.
TwoTexts == {<<"p">>, <<"q", "q", "q", "q">>}

=============================================================================
