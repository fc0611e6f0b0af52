------------------------------- MODULE ChatTcp ------------------------------
(***************************************************************************)
(* The chat client of ipk/1 over TCP: main's epoll loop calls fsm_tcp for  *)
(* one event at a time, a line typed by the user or a readable socket.     *)
(*                                                                         *)
(* The server is external: it answers requests, may send other messages at *)
(* any time and may close the connection. TCP is a stream: one recv may    *)
(* return several messages, of which only the first is looked at.          *)
(***************************************************************************)
EXTENDS Naturals, Sequences, FiniteSets

CONSTANTS
    MaxLines,       \* bound on the lines the user types
    MaxServerMsgs   \* bound on the messages the server sends

ASSUME BoundsAssumption == MaxLines \in Nat /\ MaxServerMsgs \in Nat

VARIABLES
    curr_state,     \* the state of fsm_tcp
    proc,           \* what became of the process
    display_name,   \* DISPLAYNAME: NoName or the name set by /auth, /rename
    inbound,        \* messages of the server not read yet
    link,           \* the connection: see Send
    stale,          \* read_from_server's buffer holds a parsed message
    lines, msgs,    \* lines typed, messages sent by the server ...
    replies,        \* ... and how many of these are a REPLY
    sent,           \* history: what the client has sent
    accepted,       \* history: length of sent when REPLY OK was read
    dropped         \* history: a REPLY came behind another message in a recv

env == <<lines, msgs, replies>>
history == <<sent, accepted, dropped>>
vars == <<curr_state, proc, display_name, inbound, link, stale, env, history>>

NoName == "none"    \* DISPLAYNAME is empty

\* "BYE" stands for everything fsm_tcp does not recognise: BYE is one such.
Reply == {"REPLY OK", "REPLY NOK"}
ServerMessages == Reply \cup {"MSG", "ERR", "BYE"}

\* parse_command, with the arguments that matter: "/auth" has all three
\* arguments and "/auth ?" lacks one, likewise for "/rename ?". "/help" stands
\* for /help and for unknown commands.
Commands == {"/auth", "/auth ?", "/join", "/rename", "/rename ?", "/help", "text"}

Init ==
    /\ curr_state = "START" /\ proc = "running" /\ display_name = NoName
    /\ inbound = <<>> /\ link = "up" /\ stale = FALSE
    /\ lines = 0 /\ msgs = 0 /\ replies = 0
    /\ sent = <<>> /\ accepted = 0 /\ dropped = FALSE

----------------------------------------------------------------------------
(* The server and the network (external). *)

Requests == {i \in DOMAIN sent : sent[i].type \in {"AUTH", "JOIN"}}

\* A REPLY answers an AUTH or a JOIN, anything else may come at any time.
ServerSends(m) ==
    /\ link = "up" /\ msgs < MaxServerMsgs
    /\ inbound' = Append(inbound, m)
    /\ msgs' = msgs + 1
    /\ \/ /\ m \in Reply
          /\ replies < Cardinality(Requests)
          /\ replies' = replies + 1
       \/ m \notin Reply /\ UNCHANGED replies
    /\ UNCHANGED <<curr_state, proc, display_name, link, stale, lines, history>>

ServerCloses ==
    /\ link = "up"
    /\ link' = "closed"
    /\ UNCHANGED <<curr_state, proc, display_name, inbound, stale, env, history>>

\* The peer answers data sent to a closed connection with a reset.
ResetArrives ==
    /\ link = "probed"
    /\ link' = "reset" /\ inbound' = <<>>
    /\ UNCHANGED <<curr_state, proc, display_name, stale, env, history>>

\* send(): the process goes on as p, unless the connection is reset (SIGPIPE).
Send(type, name, p) ==
    /\ proc' = IF link = "reset" THEN "killed" ELSE p
    /\ link' = IF link = "closed" THEN "probed" ELSE link
    /\ sent' = IF link \in {"up", "closed"}
               THEN Append(sent, [type |-> type, name |-> name]) ELSE sent

----------------------------------------------------------------------------
(* fsm_tcp on a line from stdin: command c. *)

Typed(c) ==
    /\ proc = "running" /\ lines < MaxLines
    /\ lines' = lines + 1
    /\ UNCHANGED <<inbound, stale, msgs, replies, accepted, dropped>>

\* Only a complete /auth is sent; the answer is awaited in AUTH.
StartLine(c) ==
    /\ curr_state = "START"
    /\ Typed(c)
    /\ \/ /\ c = "/auth"
          /\ display_name' = "auth"
          /\ Send("AUTH", "auth", "running")
          /\ curr_state' = "AUTH"
       \/ c # "/auth" /\ UNCHANGED <<curr_state, proc, display_name, link, sent>>

AuthLine(c) ==
    /\ curr_state = "AUTH"
    /\ Typed(c)
    /\ UNCHANGED <<curr_state, proc, display_name, link, sent>>

\* /rename without a name makes strcpy read from NULL.
OpenLine(c) ==
    /\ curr_state = "OPEN"
    /\ Typed(c)
    /\ \/ c = "text" /\ Send("MSG", display_name, "running") /\ UNCHANGED display_name
       \/ c = "/join" /\ Send("JOIN", display_name, "running") /\ UNCHANGED display_name
       \/ c = "/rename" /\ display_name' = "renamed" /\ UNCHANGED <<proc, link, sent>>
       \/ c = "/rename ?" /\ proc' = "crashed" /\ UNCHANGED <<display_name, link, sent>>
       \/ c \in {"/auth", "/auth ?", "/help"} /\ UNCHANGED <<proc, display_name, link, sent>>
    /\ UNCHANGED curr_state

\* Mutant: the client exits without a word.
EndEventSilent ==
    /\ proc' = "exited"
    /\ UNCHANGED <<display_name, inbound, link, stale, env, history>>

\* In END the client says BYE and exits.
EndEvent ==
    /\ Send("BYE", NoName, "exited")
    /\ UNCHANGED <<display_name, inbound, stale, env, accepted, dropped>>

\* EOF puts fsm_tcp into END and END is handled in the same call; a line typed
\* in END ends there too.
StdinEof ==
    /\ proc = "running"
    /\ curr_state' = "END"
    /\ EndEvent

\* SIGINT ends the loop of main, which says BYE.
Interrupt ==
    /\ proc = "running"
    /\ UNCHANGED curr_state
    /\ EndEvent

----------------------------------------------------------------------------
(* The socket is readable. *)

Readable == proc = "running" /\ (inbound # <<>> \/ link # "up")

\* main: EPOLLHUP.
HangUp ==
    /\ Readable /\ link = "reset"
    /\ proc' = "exited"
    /\ UNCHANGED <<curr_state, display_name, inbound, link, stale, env, history>>

\* Mutant: the message is read, so that it raises no further event.
StartSocketReads ==
    /\ Readable /\ link # "reset"
    /\ curr_state = "START"
    /\ Send("BYE", NoName, "running")
    /\ curr_state' = "END"
    /\ inbound' = <<>>
    /\ UNCHANGED <<display_name, stale, env, accepted, dropped>>

\* A message before /auth is an error; it is not even read.
StartSocket ==
    /\ Readable /\ link # "reset"
    /\ curr_state = "START"
    /\ Send("BYE", NoName, "running")
    /\ curr_state' = "END"
    /\ UNCHANGED <<display_name, inbound, stale, env, accepted, dropped>>

EndSocket ==
    /\ Readable /\ link # "reset"
    /\ curr_state = "END"
    /\ EndEvent
    /\ UNCHANGED curr_state

\* read_from_server: k messages arrive in one recv, all but the first are lost.
Recv(k) ==
    /\ Readable /\ link # "reset"
    /\ inbound' = SubSeq(inbound, k + 1, Len(inbound))
    /\ dropped' = (dropped \/ \E i \in 2..k : inbound[i] \in Reply)
    /\ UNCHANGED <<display_name, env>>

\* Mutant: any REPLY logs the user in.
AuthRecvAnyReply(k) ==
    /\ curr_state = "AUTH"
    /\ Recv(k)
    /\ curr_state' = IF Head(inbound) \in Reply THEN "OPEN" ELSE "AUTH"
    /\ accepted' = IF Head(inbound) = "REPLY OK" THEN Len(sent) ELSE accepted
    /\ UNCHANGED <<proc, link, sent, stale>>

\* Mutant: a refused /auth is told to the user and the client waits on.
AuthRecvWaits(k) ==
    /\ curr_state = "AUTH"
    /\ Recv(k)
    /\ curr_state' = IF Head(inbound) = "REPLY OK" THEN "OPEN" ELSE "AUTH"
    /\ accepted' = IF Head(inbound) = "REPLY OK" THEN Len(sent) ELSE accepted
    /\ UNCHANGED <<proc, link, sent, stale>>

AuthRecv(k) ==
    /\ curr_state = "AUTH"
    /\ Recv(k)
    /\ stale' = (stale \/ Head(inbound) \in Reply \cup {"ERR"})
    /\ \/ /\ Head(inbound) = "REPLY OK"
          /\ curr_state' = "OPEN" /\ accepted' = Len(sent)
          /\ UNCHANGED <<proc, link, sent>>
       \/ /\ Head(inbound) = "REPLY NOK"
          /\ curr_state' = "START"
          /\ UNCHANGED <<proc, link, sent, accepted>>
       \/ /\ Head(inbound) = "ERR"
          /\ Send("BYE", NoName, "running")
          /\ UNCHANGED <<curr_state, accepted>>
       \/ /\ Head(inbound) \in {"MSG", "BYE"}
          /\ UNCHANGED <<curr_state, proc, link, sent, accepted>>

\* Mutant: a refused /join ends the session, as a refused /auth does.
OpenRecvRefused(k) ==
    /\ curr_state = "OPEN"
    /\ Recv(k)
    /\ curr_state' = IF Head(inbound) = "REPLY NOK" THEN "START" ELSE "OPEN"
    /\ UNCHANGED <<proc, link, sent, accepted, stale>>

\* MSG, ERR and REPLY are shown to the user.
OpenRecv(k) ==
    /\ curr_state = "OPEN"
    /\ Recv(k)
    /\ stale' = (stale \/ Head(inbound) # "BYE")
    /\ \/ Head(inbound) # "BYE" /\ UNCHANGED <<proc, link, sent>>
       \/ Head(inbound) = "BYE" /\ Send("ERR", display_name, "running")
    /\ UNCHANGED <<curr_state, accepted>>

\* Mutant: the end of the stream is reported and nothing is parsed.
RecvEofIgnored ==
    /\ Readable /\ link \in {"closed", "probed"} /\ inbound = <<>>
    /\ curr_state \in {"AUTH", "OPEN"}
    /\ UNCHANGED vars

\* recv returns 0 and the buffer, which is not initialised, is parsed all the
\* same: as something unknown, or as what is left of an earlier message, which
\* strtok has cut up, so that the second field is NULL.
RecvEof ==
    /\ Readable /\ link \in {"closed", "probed"} /\ inbound = <<>>
    /\ curr_state \in {"AUTH", "OPEN"}
    /\ \/ curr_state = "OPEN" /\ Send("ERR", display_name, "running")
       \/ curr_state = "AUTH" /\ UNCHANGED <<proc, link, sent>>
       \/ stale /\ proc' = "crashed" /\ UNCHANGED <<link, sent>>
    /\ UNCHANGED <<curr_state, display_name, inbound, stale, env, accepted, dropped>>

SocketNext ==
    \/ HangUp \/ StartSocket \/ EndSocket \/ RecvEof
    \/ \E k \in 1..Len(inbound) : AuthRecv(k) \/ OpenRecv(k)

Next ==
    \/ \E m \in ServerMessages : ServerSends(m)
    \/ ServerCloses \/ ResetArrives
    \/ \E c \in Commands : StartLine(c) \/ AuthLine(c) \/ OpenLine(c)
    \/ StdinEof \/ Interrupt
    \/ SocketNext

Spec == Init /\ [][Next]_vars

\* The loop of main serves a readable socket, and a reset arrives in the end.
FairSpec == Spec /\ WF_vars(SocketNext) /\ WF_vars(ResetArrives)

----------------------------------------------------------------------------
(* Properties *)

\* Types of the client of fsm_tcp, of the stream and of the history.
TypeOK ==
    /\ curr_state \in {"START", "AUTH", "OPEN", "END"}
    /\ proc \in {"running", "exited", "killed", "crashed"}
    /\ display_name \in {NoName, "auth", "renamed"}
    /\ inbound \in Seq(ServerMessages)
    /\ link \in {"up", "closed", "probed", "reset"}
    /\ stale \in BOOLEAN
    /\ lines \in 0..MaxLines /\ msgs \in 0..MaxServerMsgs /\ replies \in 0..msgs
    /\ sent \in Seq([type : {"AUTH", "MSG", "JOIN", "BYE", "ERR"},
                     name : {NoName, "auth", "renamed"}])
    /\ accepted \in Nat /\ dropped \in BOOLEAN

\* Chat messages and joins are sent only after the server has accepted an
\* /auth, and under the name given with it or a later one, whatever the server
\* sends and the user types in between.
TalksOnlyAfterOk ==
    \A i \in DOMAIN sent : sent[i].type \in {"MSG", "JOIN", "ERR"} =>
        /\ sent[i].name # NoName
        /\ accepted \in 1..(i - 1)
        /\ \E j \in 1..accepted : sent[j].type = "AUTH"

\* A client that ends by itself on a live connection has said BYE last.
LeavesWithBye ==
    /\ TypeOK
    /\ proc = "exited" /\ link = "up" => sent # <<>> /\ sent[Len(sent)].type = "BYE"

\* Once in END, which is entered without exiting when the server speaks before
\* /auth, the client does exit: the unread message raises the next event.
EndExits == curr_state = "END" ~> proc # "running"

\* While the client waits for the answer to /auth it ignores the user. A REPLY
\* in the stream ends that wait, whatever comes before it, unless it shares a
\* recv with an earlier message and is lost.
AnswerEndsWaiting ==
    (curr_state = "AUTH" /\ \E i \in DOMAIN inbound : inbound[i] \in Reply)
        ~> (curr_state # "AUTH" \/ dropped \/ proc # "running")

\* read_from_server does not act on the end of the stream, and yet a client
\* whose server has gone does not run on: the ERR it sends for what it takes
\* for a message is answered by a reset, which main notices. Only in AUTH,
\* where nothing is sent, the client may spin.
ClosedSessionEnds == link # "up" ~> (proc # "running" \/ curr_state = "AUTH")

\* The states of fsm_tcp as its user sees them, and what the user has said.
SessionState ==
    IF proc # "running" THEN "over"
    ELSE CASE curr_state = "START" -> "out"
           [] curr_state = "AUTH"  -> "asked"
           [] curr_state = "OPEN"  -> "in"
           [] OTHER                -> "over"

Said == {i \in DOMAIN sent : sent[i].type \in {"MSG", "JOIN", "ERR"}}

Session == INSTANCE ChatSession WITH session <- SessionState, said <- Said

\* fsm_tcp keeps the session of ChatSession: one is logged in only by an answer
\* to /auth, talks only while logged in, and never again after the end.
SessionSpec == Session!Spec

=============================================================================
