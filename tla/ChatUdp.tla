------------------------------- MODULE ChatUdp ------------------------------
(***************************************************************************)
(* The chat client of ipk/1 over UDP: main's epoll loop, fsm_udp and the   *)
(* confirm-or-retry loop of udp_send, over a network that loses, reorders  *)
(* and duplicates datagrams and a server that repeats its own: toServer    *)
(* and toClient hold all that was ever sent, and receiving a datagram is   *)
(* looking at any of them, any number of times or never.                   *)
(*                                                                         *)
(* udp_send blocks in the middle of a handler: `out` is what the handler   *)
(* has still to send and `then` the state it goes to when all is sent.     *)
(* Timeouts (args.udp_timeout in 1..999 ms) may fire at any time.          *)
(***************************************************************************)
EXTENDS Naturals, Sequences

CONSTANTS
    Byte,             \* values of a byte: 256, or fewer to meet the carry soon
    Retransmissions,  \* args.udp_retransmissions
    FirstServerId,    \* MessageID of the server's first datagram
    MaxLines,         \* bound on the lines the user types
    MaxServerMsgs     \* bound on the datagrams the server originates: there is room
                      \* for 100 MessageIDs, which nothing checks, and the last one
                      \* may be entered twice

Ids == Byte * Byte      \* the MessageIDs: numbers of two bytes

ASSUME ByteAssumption == Byte \in Nat \ {0, 1}
ASSUME RetransmissionsAssumption == Retransmissions \in 0..255
ASSUME FirstServerIdAssumption == FirstServerId \in 0..(Ids - 1)
ASSUME BoundsAssumption == MaxLines \in Nat /\ MaxServerMsgs \in 0..99 /\ MaxServerMsgs < Ids

VARIABLES
    curr_state,     \* curr_state_u
    pc,             \* where the process is: see TypeOK
    again,          \* errno is EAGAIN
    exit_flag,
    late,           \* SIGINT came between the test of exit_flag and epoll_wait
    message_id,     \* the two bytes of message_id as a number
    received,       \* received_message_ids
    events,         \* events of epoll_wait not handled yet
    unread,         \* no datagram was read since epoll_wait
    out, attempt, then,
    toServer, toClient,     \* every datagram sent
    lines, server_id,       \* lines typed; next MessageID of the server
    shown,          \* history: MessageIDs of the MSGs displayed
    heard           \* history: a CONFIRM for the datagram being sent was read

client == <<curr_state, again, exit_flag, late, message_id, received, events, unread>>
sending == <<pc, out, attempt, then>>
history == <<shown, heard>>
vars == <<client, sending, toServer, toClient, lines, server_id, history>>

Requests == {"AUTH", "MSG", "JOIN"}
\* "BAD" is a datagram of an unknown type.
ServerTypes == {"REPLY OK", "REPLY NOK", "MSG", "ERR", "BYE", "BAD"}
\* "?" marks a command that lacks an argument.
Commands == {"/auth", "/auth ?", "/join", "/join ?", "/rename", "/rename ?", "/help", "text"}

Datagram(type, id) == [type |-> type, id |-> id]

Init ==
    /\ curr_state = "START" /\ again = FALSE /\ exit_flag = FALSE /\ late = FALSE
    /\ message_id = 0 /\ received = {} /\ events = <<>> /\ unread = FALSE
    /\ pc = "epoll" /\ out = <<>> /\ attempt = 0 /\ then = "START"
    /\ toServer = {} /\ toClient = {}
    /\ lines = 0 /\ server_id = FirstServerId
    /\ shown = <<>> /\ heard = FALSE

----------------------------------------------------------------------------
(* The network and the server (external). *)

\* What the server has received it has confirmed.
ServerGot == {d \in toServer : Datagram("CONFIRM", d.id) \in toClient /\ d.type # "CONFIRM"}

ServerReceives ==
    /\ \E d \in toServer :
          d.type # "CONFIRM" /\ toClient' = toClient \cup {Datagram("CONFIRM", d.id)}
    /\ UNCHANGED <<client, sending, toServer, lines, server_id, history>>

\* A REPLY answers an AUTH or a JOIN; anything else comes once the client is known.
ServerSends(type) ==
    /\ (server_id + Ids - FirstServerId) % Ids < MaxServerMsgs
    /\ \E d \in ServerGot : type \in {"REPLY OK", "REPLY NOK"} => d.type \in {"AUTH", "JOIN"}
    /\ server_id' = (server_id + 1) % Ids
    /\ toClient' = toClient \cup {Datagram(type, server_id)}
    /\ UNCHANGED <<client, sending, toServer, lines, history>>

----------------------------------------------------------------------------
(* udp_send: send the head of out, wait for a CONFIRM, retry. *)

\* The head of out is sent; the handler goes on with the next datagram or ends.
HeadIsSent ==
    /\ out' = Tail(out) /\ attempt' = 0
    /\ \/ /\ Len(out) > 1
          /\ pc' = "send" /\ UNCHANGED <<curr_state, events>>
       \/ /\ Len(out) = 1 /\ then # "exit"
          /\ pc' = "epoll" /\ curr_state' = then /\ events' = Tail(events)
       \/ /\ Len(out) = 1 /\ then = "exit"
          /\ pc' = "exited" /\ UNCHANGED <<curr_state, events>>

\* Mutant: retransmissions are not counted.
TransmitForEver ==
    /\ pc = "send"
    /\ toServer' = toServer \cup {Head(out)}
    /\ pc' = "recv"
    /\ UNCHANGED <<client, out, attempt, then, toClient, lines, server_id, history>>

\* CONFIRMs are not confirmed. get_ip may leave another errno behind.
Transmit ==
    /\ pc = "send" /\ attempt < Retransmissions
    /\ toServer' = toServer \cup {Head(out)}
    /\ again' \in IF attempt = 0 THEN {again, FALSE} ELSE {again}
    /\ heard' = (attempt # 0 /\ heard)
    /\ \/ Head(out).type = "CONFIRM" /\ HeadIsSent
       \/ /\ Head(out).type # "CONFIRM"
          /\ pc' = "recv" /\ attempt' = attempt + 1
          /\ UNCHANGED <<out, curr_state, events>>
    /\ UNCHANGED <<exit_flag, late, message_id, received, unread, then, toClient,
                   lines, server_id, shown>>

GiveUp ==
    /\ pc = "send" /\ attempt >= Retransmissions
    /\ pc' = "failed"
    /\ UNCHANGED <<client, out, attempt, then, toServer, toClient, lines, server_id, history>>

\* Mutant: the wait has no timeout.
RecvTimeoutNever == FALSE /\ UNCHANGED vars

RecvTimeout ==
    /\ pc = "recv"
    /\ again' = TRUE
    /\ pc' = "send"
    /\ UNCHANGED <<curr_state, exit_flag, late, message_id, received, events, unread,
                   out, attempt, then, toServer, toClient, lines, server_id, history>>

\* recv succeeds and leaves errno alone: after a timeout it still is EAGAIN and
\* what was received is not looked at. Any CONFIRM ends the wait, anything else
\* is dropped.
RecvInSend ==
    /\ pc = "recv"
    /\ \E d \in toClient :
          /\ heard' = (heard \/ (d.type = "CONFIRM" /\ d.id = Head(out).id))
          /\ \/ /\ ~again /\ d.type = "CONFIRM"
                /\ HeadIsSent
             \/ /\ again \/ d.type # "CONFIRM"
                /\ pc' = "send"
                /\ UNCHANGED <<out, attempt, curr_state, events>>
    /\ unread' = FALSE
    /\ UNCHANGED <<again, exit_flag, late, message_id, received, then, toServer,
                   toClient, lines, server_id, shown>>

\* SIGINT interrupts recv: response was not written, its first byte is
\* whatever the stack holds.
RecvInterrupted ==
    /\ pc = "recv" /\ ~exit_flag
    /\ exit_flag' = TRUE /\ again' = FALSE
    /\ \/ HeadIsSent
       \/ pc' = "send" /\ UNCHANGED <<out, attempt, curr_state, events>>
    /\ UNCHANGED <<late, message_id, received, unread, then, toServer, toClient, lines,
                   server_id, history>>

----------------------------------------------------------------------------
(* main: the event loop. *)

\* epoll_wait returns what is ready, in any order.
EpollWait ==
    /\ pc = "epoll" /\ events = <<>> /\ (exit_flag => late)
    /\ events' \in {<<"stdin">>, <<"sock">>, <<"stdin", "sock">>, <<"sock", "stdin">>}
    /\ events' # <<"sock">> => lines < MaxLines
    /\ events' # <<"stdin">> => toClient # {}
    /\ unread' = TRUE /\ late' = FALSE
    /\ UNCHANGED <<curr_state, again, exit_flag, message_id, received, sending,
                   toServer, toClient, lines, server_id, history>>

\* SIGINT interrupts epoll_wait, or comes just before it is called: then
\* epoll_wait blocks until the next event.
Interrupt ==
    /\ pc = "epoll" /\ events = <<>> /\ ~exit_flag
    /\ exit_flag' = TRUE
    /\ \/ again' = FALSE /\ UNCHANGED late
       \/ late' = TRUE /\ UNCHANGED again
    /\ UNCHANGED <<curr_state, message_id, received, events, unread, sending,
                   toServer, toClient, lines, server_id, history>>

\* SIGINT anywhere else in a handler.
InterruptHandler ==
    /\ ~exit_flag
    /\ pc = "send" \/ (pc = "epoll" /\ events # <<>>)
    /\ exit_flag' = TRUE
    /\ UNCHANGED <<curr_state, again, late, message_id, received, events, unread,
                   sending, toServer, toClient, lines, server_id, history>>

Closing ==
    /\ pc = "epoll" /\ events = <<>> /\ exit_flag /\ ~late
    /\ pc' = "send" /\ then' = "exit"
    /\ out' = <<Datagram("BYE", message_id)>>
    /\ UNCHANGED <<client, attempt, toServer, toClient, lines, server_id, history>>

----------------------------------------------------------------------------
(* fsm_udp *)

\* The handler ends without sending anything, in state s ...
Done(s) ==
    /\ curr_state' = s /\ events' = Tail(events)
    /\ UNCHANGED sending

\* ... or sends ds first.
SendAll(ds, s) ==
    /\ pc' = "send" /\ out' = ds /\ then' = s
    /\ UNCHANGED <<curr_state, events, attempt>>

\* Mutant: the carry is missed.
IncrementMessageIdLow ==
    LET low == message_id % Byte
    IN message_id' = IF low = Byte - 1 THEN message_id - low ELSE message_id + 1

\* increment_message_id, byte by byte.
IncrementMessageId ==
    LET low == message_id % Byte
    IN message_id' = IF low = Byte - 1 THEN (message_id - low + Byte) % Ids ELSE message_id + 1

Handling(fd) == pc = "epoll" /\ events # <<>> /\ Head(events) = fd

\* A line from stdin. A missing argument of /join or /rename is used as a NULL
\* pointer.
StdinLine(c) ==
    /\ Handling("stdin")
    /\ lines' = lines + 1
    /\ \/ /\ curr_state = "OPEN" /\ c \in {"/join ?", "/rename ?"}
          /\ pc' = "crashed"
          /\ UNCHANGED <<curr_state, events, out, attempt, then, message_id>>
       \/ /\ \/ curr_state = "START" /\ c = "/auth"
             \/ curr_state = "OPEN" /\ c \in {"text", "/join"}
          /\ LET type == CASE c = "/auth" -> "AUTH" [] c = "text" -> "MSG" [] OTHER -> "JOIN"
             IN SendAll(<<Datagram(type, message_id)>>, curr_state)
          /\ IncrementMessageId
       \/ /\ ~(curr_state = "START" /\ c = "/auth")
          /\ ~(curr_state = "OPEN" /\ c \in {"text", "/join", "/join ?", "/rename ?"})
          /\ Done(curr_state)
          /\ UNCHANGED message_id
    /\ UNCHANGED <<again, exit_flag, late, received, unread, toServer, toClient,
                   server_id, history>>

StdinEof ==
    /\ Handling("stdin")
    /\ Done("END")
    /\ lines' = lines + 1
    /\ UNCHANGED <<again, exit_flag, late, message_id, received, unread, toServer,
                   toClient, server_id, history>>

\* process*CmdUDP compute (buffer[1] << 8) | buffer[2] of signed chars: from half
\* its values on the low byte is negative and sets every bit above it.
RefMessageId(id) == IF 2 * (id % Byte) < Byte THEN id ELSE (Byte - 1) * Byte + (id % Byte)

\* BYE and ERR are sent under the current message_id, which is not incremented.
Answer(type, d) == Datagram(type, IF type = "CONFIRM" THEN RefMessageId(d.id) ELSE message_id)

\* Mutant: a refused /auth opens the session too.
InStartAnyReply(d) ==
    /\ curr_state = "START"
    /\ \/ d.type \in {"REPLY OK", "REPLY NOK"} /\ SendAll(<<Answer("CONFIRM", d)>>, "OPEN")
       \/ d.type \notin {"REPLY OK", "REPLY NOK"} /\ Done("START")
    /\ UNCHANGED shown

InStart(d) ==
    /\ curr_state = "START"
    /\ \/ d.type = "REPLY OK" /\ SendAll(<<Answer("CONFIRM", d)>>, "OPEN")
       \/ d.type = "REPLY NOK" /\ SendAll(<<Answer("CONFIRM", d)>>, "START")
       \/ /\ d.type = "ERR"
          /\ SendAll(<<Answer("CONFIRM", d), Answer("BYE", d)>>, "END")
       \/ d.type = "CONFIRM" /\ Done("START")
       \/ /\ d.type \in {"MSG", "BYE", "BAD"}
          /\ SendAll(<<Answer("BYE", d)>>, "END")
    /\ UNCHANGED shown

InOpen(d) ==
    /\ curr_state = "OPEN"
    /\ \/ /\ d.type \in {"MSG", "REPLY OK", "REPLY NOK"}
          /\ SendAll(<<Answer("CONFIRM", d)>>, "OPEN")
       \/ /\ d.type = "ERR"
          /\ SendAll(<<Answer("CONFIRM", d), Answer("BYE", d)>>, "END")
       \/ d.type = "CONFIRM" /\ Done("OPEN")
       \/ d.type = "BYE" /\ Done("END")
       \/ /\ d.type = "BAD"
          /\ SendAll(<<Answer("CONFIRM", d), Answer("ERR", d), Answer("BYE", d)>>, "END")
    /\ shown' = IF d.type = "MSG" THEN Append(shown, d.id) ELSE shown

\* Mutant: a REPLY OK logs in again after the end.
InEndRevived(d) ==
    /\ curr_state = "END"
    /\ Done(IF d.type = "REPLY OK" THEN "OPEN" ELSE "END") /\ UNCHANGED shown

InEnd(d) == curr_state = "END" /\ Done("END") /\ UNCHANGED shown

\* Mutant: no datagram counts as received before.
SocketDatagramAlways ==
    /\ Handling("sock")
    /\ \E d \in toClient :
          /\ InStart(d) \/ InOpen(d) \/ InEnd(d)
    /\ unread' = FALSE
    /\ UNCHANGED <<again, exit_flag, late, message_id, received, toServer, toClient,
                   lines, server_id, heard>>

\* A datagram whose MessageID was received before is dropped without a CONFIRM.
SocketDatagram ==
    /\ Handling("sock")
    /\ \E d \in toClient :
          /\ \/ /\ d.type # "CONFIRM" /\ d.id \in received
                /\ Done(curr_state)
                /\ UNCHANGED <<received, shown>>
             \/ /\ d.type # "CONFIRM" /\ d.id \notin received
                /\ received' = received \cup {d.id}
                /\ InStart(d) \/ InOpen(d) \/ InEnd(d)
             \/ /\ d.type = "CONFIRM"
                /\ InStart(d) \/ InOpen(d) \/ InEnd(d)
                /\ UNCHANGED received
    /\ unread' = FALSE
    /\ UNCHANGED <<again, exit_flag, late, message_id, toServer, toClient, lines,
                   server_id, heard>>

\* The datagram that raised the event was read by udp_send on behalf of the
\* stdin event before: recvfrom times out, which is taken for the end. (The
\* unset response may also leave a random MessageID in received; in END it is
\* not looked at again.)
SocketTimeout ==
    /\ Handling("sock") /\ ~unread
    /\ Done("END")
    /\ again' = TRUE
    /\ UNCHANGED <<exit_flag, late, message_id, received, unread, toServer, toClient,
                   lines, server_id, shown, heard>>

----------------------------------------------------------------------------
ClientNext ==
    \/ Transmit \/ GiveUp \/ RecvTimeout \/ RecvInSend
    \/ EpollWait \/ Closing
    \/ \E c \in Commands : StdinLine(c)
    \/ SocketDatagram \/ SocketTimeout

Next ==
    \/ ClientNext
    \/ StdinEof \/ Interrupt \/ InterruptHandler \/ RecvInterrupted
    \/ ServerReceives
    \/ \E type \in ServerTypes : ServerSends(type)

Spec == Init /\ [][Next]_vars

\* The client runs whenever it can: blocking calls return in the end.
FairSpec == Spec /\ WF_vars(ClientNext)

----------------------------------------------------------------------------
(* Properties *)

\* Types of the client of fsm_udp; while udp_send blocks there is something to
\* send, on behalf of an event or of leaving.
TypeOK ==
    /\ curr_state \in {"START", "OPEN", "END"}
    /\ pc \in {"epoll", "send", "recv", "exited", "failed", "crashed"}
    /\ {again, exit_flag, late, unread, heard} \subseteq BOOLEAN
    /\ message_id \in 0..(Ids - 1) /\ received \subseteq Nat
    /\ attempt \in 0..Retransmissions
    /\ pc \in {"send", "recv"} => out # <<>> /\ (events # <<>> \/ then = "exit")

\* The user is logged in, and chat messages go out, only if the server got an
\* AUTH and sent a REPLY OK: no loss, duplication or reordering and no answer to
\* something else lets anyone talk earlier.
TalksOnlyAfterOk ==
    \/ /\ \E d \in ServerGot : d.type = "AUTH"
       /\ \E d \in toClient : d.type = "REPLY OK"
    \/ /\ curr_state # "OPEN"
       /\ \A d \in toServer : d.type \notin {"MSG", "JOIN"}

\* However often the server retries or the network duplicates, a chat message
\* is displayed once.
ShownOnce == \A i, j \in DOMAIN shown : shown[i] = shown[j] => i = j

\* Different requests of the user carry different MessageIDs.
UserIdsDistinct ==
    /\ TypeOK
    /\ \A d, e \in toServer :
          d.type \in Requests /\ e.type \in Requests /\ d.id = e.id => d = e

\* Every event is dealt with: no handler waits for ever for a CONFIRM.
HandlersFinish == events # <<>> ~> (events = <<>> \/ pc \in {"exited", "failed", "crashed"})

Finished == pc \in {"exited", "failed", "crashed"}

\* SIGINT ends the client, wherever it comes and whatever the network does with
\* the BYE, except in the gap before epoll_wait, when the next event is awaited.
InterruptEnds == exit_flag ~> (Finished \/ late)

\* The states of fsm_udp as its user sees them, and what the user has said.
SessionState ==
    IF Finished \/ curr_state = "END" THEN "over"
    ELSE IF curr_state = "OPEN" THEN "in"
    ELSE IF \E d \in toServer : d.type = "AUTH" THEN "asked" ELSE "out"

Said == {d \in toServer : d.type \in {"MSG", "JOIN", "ERR"}}

Session == INSTANCE ChatSession WITH session <- SessionState, said <- Said

\* fsm_udp, which has no state for the wait and blocks in udp_send, keeps the
\* same session as fsm_tcp over a network that loses, repeats and reorders.
SessionSpec == Session!Spec

\* CHANGELOG.md: "Packet loss should be functional, messages are retried after a
\* timeout": the client does not give up on a datagram whose CONFIRM it has read.
LossIsHandled == pc = "failed" => ~heard

=============================================================================
