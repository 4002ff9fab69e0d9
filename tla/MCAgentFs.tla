----------------------------- MODULE MCAgentFs -----------------------------
(* Instances of AgentFs for TLC. *)
EXTENDS AgentFs

Rel(parts) == [abs |-> FALSE, parts |-> parts]

TwoFiles == {Rel(<<"f">>), Rel(<<"g">>)}
TwoTexts == {<<"p">>, <<"q">>}
NoPaths == {}

=============================================================================
