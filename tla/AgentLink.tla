----------------------------- MODULE AgentLink -----------------------------
(***************************************************************************)
(* The client of the language model, src/src/drivers/net/net_stack.c: the  *)
(* "ai" command opens a connection, sends the prompt, gathers the answer   *)
(* and, when the server closes, executes the first command in it and asks  *)
(* again with the result appended to the prompt.                           *)
(*                                                                         *)
(* All connections share one prompt and one answer buffer, and nothing     *)
(* keeps the user from starting a second request while one is under way.   *)
(* The mainline makes a request in three steps, with interrupts on: it     *)
(* empties the answer buffer, writes the prompt and opens the connection.  *)
(* lwIP is external: it calls the callbacks in the timer interrupt, one    *)
(* at a time and between any two of these steps, and has a pool of         *)
(* connections that may be exhausted.                                      *)
(*                                                                         *)
(* An answer is a sequence of tokens: the start of the "response" field,   *)
(* text, an opening tag with its command, a closing '>' written as such or *)
(* as \u003e, and the quote that ends the field; a tag may be spread over  *)
(* several segments.  Sizes are in tokens and in entries of the prompt.    *)
(* The commands executed here are the ones that leave the link alone.      *)
(***************************************************************************)
EXTENDS Integers, Sequences, SequencesExt

CONSTANTS
    Pcbs,           \* connections lwIP can have (MEMP_NUM_TCP_PCB)
    RxSize,         \* tokens in rx_accum
    PromptSize,     \* entries in global_prompt
    SndBuf,         \* entries that tcp_write takes (TCP_SND_BUF)
    Answers,        \* what the server may answer
    MockAnswer,     \* the payload of ai_mock
    MaxRequests     \* bound: "ai" and "ai_mock" commands in a behaviour

Nobody == "nobody"

ASSUME AgentLinkAssumption ==
    /\ RxSize \in Nat /\ PromptSize \in Nat /\ SndBuf \in Nat /\ MaxRequests \in Nat
    /\ PromptSize > 0 /\ Answers \subseteq Seq(STRING) /\ Nobody \notin Pcbs

VARIABLES
    rx_accum, global_prompt,
    known,          \* whether global_ip_str holds an address
    conn,           \* connections
    call,           \* the request the mainline is making
    requests        \* commands of the user so far

vars == <<rx_accum, global_prompt, known, conn, call, requests>>

\* A connection: its state, what the server has still to send and, as history,
\* the prompt it was opened for, the one it sent, what has arrived, and whether
\* anybody else used the shared buffers since its conversation began.
Closed == [st |-> "closed", rest |-> <<>>, asked |-> <<>>, sent |-> <<>>, got |-> <<>>,
           disturbed |-> FALSE]

\* Of a connection that lwIP is rid of, or that was never connected and is lost,
\* nothing more is heard.
Silent(p) == p.st \in {"closed", "lost"}

\* The connections after somebody other than c used the shared buffers.
Disturbed(table, c) ==
    [d \in Pcbs |-> IF d = c \/ Silent(table[d]) THEN table[d] ELSE [table[d] EXCEPT !.disturbed = TRUE]]

\* A request in the making: the next step, the result to report, what becomes of
\* a connection that tcp_connect refuses and, as history, the prompt written and
\* whether a callback used the shared buffers since it began.
NoCall == [step |-> "idle", cmd |-> "none", refused |-> "closed", asked |-> <<>>, disturbed |-> FALSE]

\* The request after a callback used the shared buffers.
Interrupted == IF call.step = "idle" THEN call ELSE [call EXCEPT !.disturbed = TRUE]

Init ==
    /\ rx_accum = <<>> /\ global_prompt = <<>> /\ known = FALSE
    /\ conn = [c \in Pcbs |-> Closed] /\ call = NoCall
    /\ requests = 0

-----------------------------------------------------------------------------
(* ollama_parse_json.                                                      *)

NoCmd == "none"
Opens == {"<ls", "<stop"}

\* catching is the command being read; ran the commands executed; a feedback
\* request is made, or the sequence ends, at a '>' written as such.
ParseToken(s, t) ==
    LET execute(after) == [s EXCEPT !.catching = NoCmd, !.ran = Append(@, s.catching), !.after = after]
    IN  CASE s.after # "" -> s
          [] s.after = "" /\ t \in Opens ->
                [s EXCEPT !.catching = IF @ = NoCmd THEN t ELSE "junk"]
          [] s.after = "" /\ t = ">" /\ s.catching = "<stop" ->
                [s EXCEPT !.catching = NoCmd, !.after = "stop"]
          [] s.after = "" /\ t = ">" /\ s.catching \notin {NoCmd, "<stop"} -> execute("feedback")
          [] s.after = "" /\ t = "u>" /\ s.catching # NoCmd -> execute("")
          [] s.after = "" /\ t = "text" /\ s.catching # NoCmd -> [s EXCEPT !.catching = "junk"]
          [] s.after = "" /\ t = "quote" -> [s EXCEPT !.after = "end"]
          [] OTHER -> s

\* What executing the payload comes to: nothing without a "response" field.
ollama_parse_json(payload) ==
    LET none == [catching |-> NoCmd, ran |-> <<>>, after |-> ""]
        from == {k \in 1 .. Len(payload) : payload[k] = "response"}
    IN  IF from = {} THEN none
        ELSE LET first == CHOOSE k \in from : \A l \in from : k <= l
             IN  FoldLeft(ParseToken, none, SubSeq(payload, first + 1, Len(payload)))

-----------------------------------------------------------------------------
(* Requests.                                                               *)

\* tcp_new takes a free connection or, if there is none, one that waits for its
\* last acknowledgment.
Available(table) ==
    LET in(st) == {c \in Pcbs : table[c].st = st}
    IN  IF in("closed") # {} THEN in("closed") ELSE in("last_ack")

\* tcp_new and tcp_connect.  Either may fail; refused is what becomes of a
\* connection that cannot be opened.  One whose address cannot be read is closed.
Connect(table, asked, disturbed, refused) ==
    \/ \E c \in Available(table), st \in (IF known THEN {"connecting", refused} ELSE {"closed"}) :
          conn' = [table EXCEPT ![c] =
                     IF st = "connecting"
                     THEN [Closed EXCEPT !.st = st, !.asked = asked, !.disturbed = disturbed]
                     ELSE [Closed EXCEPT !.st = st]]
    \/ Available(table) = {} /\ conn' = table

\* Mutant: the result of a command replaces the prompt.
Feedback_Replace(table, asked, disturbed, cmd) ==
    /\ rx_accum' = <<>>
    /\ IF Len(global_prompt) < PromptSize
       THEN /\ global_prompt' = <<cmd>>
            /\ Connect(table, Append(asked, cmd), disturbed, "lost")
       ELSE UNCHANGED global_prompt /\ conn' = table

\* Mutant: the result is left out of the next request.
Feedback_Forget(table, asked, disturbed, cmd) ==
    /\ rx_accum' = <<>> /\ UNCHANGED global_prompt
    /\ Connect(table, asked, disturbed, "lost")

\* ollama_feedback_request, called by a callback: the result joins the prompt, if
\* there is room.  A connection that tcp_connect refuses is not given back.
Feedback(table, asked, disturbed, cmd) ==
    /\ rx_accum' = <<>>
    /\ IF Len(global_prompt) < PromptSize
       THEN /\ global_prompt' = Append(global_prompt, cmd)
            /\ Connect(table, Append(asked, cmd), disturbed, "lost")
       ELSE UNCHANGED global_prompt /\ conn' = table

-----------------------------------------------------------------------------
(* Requests made by the mainline, a step at a time.                        *)

\* A request begins: what has come in is forgotten, and so is the answer of
\* whoever was receiving one.
Begin(step, cmd) ==
    /\ rx_accum' = <<>>
    /\ conn' = Disturbed(conn, Nobody)
    /\ call' = [NoCall EXCEPT !.step = step, !.cmd = cmd]

\* The command "ai".
ollama_request ==
    /\ call.step = "idle"
    /\ requests < MaxRequests /\ requests' = requests + 1
    /\ Begin("task", "none")
    /\ UNCHANGED <<global_prompt, known>>

\* The command "ai_mock" has a fixed answer parsed, in the mainline.
ai_mock ==
    /\ call.step = "idle"
    /\ requests < MaxRequests /\ requests' = requests + 1
    /\ LET run == ollama_parse_json(MockAnswer)
       IN  IF run.after = "feedback" THEN Begin("result", Last(run.ran))
           ELSE UNCHANGED <<rx_accum, conn, call>>
    /\ UNCHANGED <<global_prompt, known>>

\* The task replaces the prompt, whether or not the address can be read.
WriteTask ==
    /\ call.step = "task"
    /\ global_prompt' = <<"task">>
    /\ known' \in BOOLEAN
    /\ conn' = Disturbed(conn, Nobody)
    /\ call' = [call EXCEPT !.step = "connect", !.asked = global_prompt']
    /\ UNCHANGED <<rx_accum, requests>>

\* The result joins the prompt, if there is room.
WriteResult ==
    /\ call.step = "result"
    /\ IF Len(global_prompt) < PromptSize
       THEN /\ global_prompt' = Append(global_prompt, call.cmd)
            /\ call' = [call EXCEPT !.step = "connect", !.refused = "lost", !.asked = global_prompt']
       ELSE UNCHANGED global_prompt /\ call' = NoCall
    /\ conn' = Disturbed(conn, Nobody)
    /\ UNCHANGED <<rx_accum, known, requests>>

\* The connection is opened.  If tcp_new has to abort one that waits for its last
\* acknowledgment, that one's error callback forgets what has come in.
Open ==
    /\ call.step = "connect"
    /\ call' = NoCall
    /\ rx_accum' = IF \E c \in Available(conn) : conn[c].st = "last_ack" THEN <<>> ELSE rx_accum
    /\ UNCHANGED <<global_prompt, known, requests>>
    /\ Connect(conn, call.asked, call.disturbed, call.refused)

Mainline == ollama_request \/ ai_mock \/ WriteTask \/ WriteResult \/ Open

-----------------------------------------------------------------------------
(* Callbacks of connection c.                                              *)

\* ollama_connected_cb sends the prompt as it is by now; tcp_write may refuse
\* it for its size, and the connection is closed from this side.
ollama_connected_cb(c) ==
    /\ conn[c].st = "connecting"
    /\ IF Len(global_prompt) > SndBuf
       THEN conn' = [conn EXCEPT ![c].st = "fin_wait"]
       ELSE \E answer \in Answers :
               conn' = [conn EXCEPT ![c].st = "sent", ![c].sent = global_prompt, ![c].rest = answer]
    /\ UNCHANGED <<rx_accum, global_prompt, known, call, requests>>

\* The connections after n more tokens came in over c.
Arrived(c, n) ==
    Disturbed([conn EXCEPT ![c].rest = SubSeq(@, n + 1, Len(@)),
                           ![c].got = @ \o SubSeq(conn[c].rest, 1, n)], c)

\* Mutant: a segment takes the place of the one before.
Segment_Overwrite(c) ==
    /\ conn[c].st = "sent"
    /\ \E n \in 1 .. Len(conn[c].rest) :
          /\ rx_accum' = SubSeq(conn[c].rest, 1, IF n < RxSize THEN n ELSE RxSize)
          /\ conn' = Arrived(c, n)
    /\ call' = Interrupted
    /\ UNCHANGED <<global_prompt, known, requests>>

\* As much of a segment as fits joins the buffer.
Segment(c) ==
    /\ conn[c].st = "sent"
    /\ \E n \in 1 .. Len(conn[c].rest) :
          LET space == RxSize - Len(rx_accum)
          IN  /\ rx_accum' = rx_accum \o SubSeq(conn[c].rest, 1, IF n < space THEN n ELSE space)
              /\ conn' = Arrived(c, n)
    /\ call' = Interrupted
    /\ UNCHANGED <<global_prompt, known, requests>>

\* The server has closed: this side closes too, the buffer is parsed, its
\* commands run, and a result is reported in a new request.  lwIP tells of it
\* also when this side had closed first.
ServerCloses(c) ==
    /\ conn[c].st \in {"sent", "fin_wait"} /\ conn[c].rest = <<>>
    /\ UNCHANGED <<known, requests>>
    /\ LET run   == ollama_parse_json(rx_accum)
           table == Disturbed([conn EXCEPT ![c] = [Closed EXCEPT !.st = "last_ack"]], c)
       IN  IF run.after = "feedback" THEN Feedback(table, conn[c].asked, conn[c].disturbed, Last(run.ran))
           ELSE rx_accum' = <<>> /\ conn' = table /\ UNCHANGED global_prompt
    /\ call' = Interrupted

ollama_recv_cb(c) == Segment(c) \/ ServerCloses(c)

\* Refused, reset, or no answer: lwIP frees the connection.  A connection that
\* this side has closed keeps its error callback until it is freed.
ollama_err_cb(c) ==
    /\ ~Silent(conn[c])
    /\ rx_accum' = <<>>
    /\ conn' = Disturbed([conn EXCEPT ![c] = Closed], c)
    /\ call' = Interrupted
    /\ UNCHANGED <<global_prompt, known, requests>>

\* The last acknowledgment arrives, and lwIP frees the connection.
LastAck(c) ==
    /\ conn[c].st = "last_ack"
    /\ conn' = [conn EXCEPT ![c] = Closed]
    /\ UNCHANGED <<rx_accum, global_prompt, known, call, requests>>

Callback(c) == ollama_connected_cb(c) \/ ollama_recv_cb(c) \/ ollama_err_cb(c) \/ LastAck(c)

Next == Mainline \/ \E c \in Pcbs : Callback(c)

\* lwIP's timers, which run in the timer interrupt, give up a connection that is
\* being established or closed.  None gives up one that is established: there is
\* no keepalive and no tcp_poll, so the server may leave a request unanswered for
\* ever.
Fairness == \A c \in Pcbs : WF_vars(conn[c].st # "sent" /\ Callback(c))

Spec == Init /\ [][Next]_vars /\ Fairness

-----------------------------------------------------------------------------
(* Properties.                                                             *)

\* However the answer is cut into segments, the buffer that will be parsed holds
\* it as far as there is room, and nothing of an earlier one, unless somebody else
\* used the buffer meanwhile.
WholeAnswer ==
    \A c \in Pcbs : conn[c].st = "sent" /\ ~conn[c].disturbed =>
       rx_accum = SubSeq(conn[c].got, 1, IF Len(conn[c].got) < RxSize THEN Len(conn[c].got) ELSE RxSize)

\* The server is asked for the task and told of every command executed for it,
\* in order, unless somebody else used the prompt meanwhile.
RequestIsAsked ==
    \A c \in Pcbs : conn[c].st = "sent" /\ ~conn[c].disturbed => conn[c].sent = conn[c].asked

\* A chain of requests and results comes to an end: from some point on no
\* connection is opened, and none is left but those whose server does not close.
ChainEnds == <>[](\A c \in Pcbs : Silent(conn[c]) \/ conn[c].st = "sent")

=============================================================================
