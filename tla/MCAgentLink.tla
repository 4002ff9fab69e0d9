---------------------------- MODULE MCAgentLink ----------------------------
(* Instances of AgentLink for TLC. *)
EXTENDS AgentLink

\* One command; one that ends the sequence; one closed by an escape; and one
\* that is too long for the buffer and loses the end of its tag.
ShortAnswers ==
    {<<"response", "<ls", ">">>,
     <<"response", "<stop", ">">>,
     <<"response", "<ls", "u>">>,
     <<"text", "response", "<ls", ">">>}

\* The shape of the payload of ai_mock.
TwoTags == <<"response", "text", "<ls", ">", "text", "<ls", ">", "quote">>

=============================================================================
