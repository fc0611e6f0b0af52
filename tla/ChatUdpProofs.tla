---------------------------- MODULE ChatUdpProofs ---------------------------
(***************************************************************************)
(* The invariants of ChatUdp hold for any number of retransmissions and    *)
(* lines, whatever the network loses, repeats and reorders, and fsm_udp    *)
(* implements the session of ChatSession. No handler runs for ever.        *)
(*                                                                         *)
(* IInv is inductive. What it adds to the invariants is about the handler  *)
(* that udp_send blocks: what it has still to send and where it goes then  *)
(* fit the state it began in.                                              *)
(***************************************************************************)
EXTENDS ChatUdp, SequenceTheorems, TLAPS

ClientTypes == {"AUTH", "MSG", "JOIN", "ERR", "BYE", "CONFIRM"}
ToServer == [type : ClientTypes, id : Nat]
ToClient == [type : ServerTypes \cup {"CONFIRM"}, id : Nat]
Batches == {<<>>, <<"stdin">>, <<"sock">>, <<"stdin", "sock">>, <<"sock", "stdin">>}

Blocked == pc \in {"send", "recv"}

Flags == {again, exit_flag, late, unread, heard} \subseteq BOOLEAN

\* TypeOK without the flags, and the rest of the state.
Types ==
    /\ curr_state \in {"START", "OPEN", "END"}
    /\ pc \in {"epoll", "send", "recv", "exited", "failed", "crashed"}
    /\ message_id \in 0..(Ids - 1) /\ received \subseteq Nat
    /\ attempt \in 0..Retransmissions
    /\ out \in Seq(ToServer) /\ then \in {"START", "OPEN", "END", "exit"}
    /\ Blocked => out # <<>> /\ (events # <<>> \/ then = "exit")
    /\ events \in Batches
    /\ toServer \subseteq ToServer /\ toClient \subseteq ToClient
    /\ shown \in Seq(Nat) /\ server_id \in 0..(Ids - 1) /\ lines \in Nat

\* What a handler sends and where it goes fit the state it was called in.
HandlerFits ==
    Blocked =>
        /\ \A i \in DOMAIN out :
              /\ out[i].type = "AUTH" => curr_state = "START"
              /\ out[i].type \in {"MSG", "JOIN", "ERR"} => curr_state = "OPEN"
        /\ then = "START" => curr_state = "START"
        /\ then = "OPEN" => curr_state \in {"START", "OPEN"}
        /\ curr_state = "END" => then = "exit"

\* The server has received an /auth and has answered OK.
LoggedIn ==
    /\ \E d \in ServerGot : d.type = "AUTH"
    /\ \E d \in toClient : d.type = "REPLY OK"

\* There is no way to OPEN, and to what is sent there, but through that.
TalkMeansLogin ==
    curr_state = "OPEN" \/ then = "OPEN" \/ (\E d \in toServer : d.type \in {"MSG", "JOIN"})
        => LoggedIn

OkMeansAuth == (\E d \in toClient : d.type = "REPLY OK") => \E d \in ServerGot : d.type = "AUTH"

\* What was shown was received, and nothing was shown twice.
ShownReceived == ShownOnce /\ \A i \in DOMAIN shown : shown[i] \in received

IInv == Flags /\ Types /\ HandlerFits /\ TalkMeansLogin /\ OkMeansAuth /\ ShownReceived

----------------------------------------------------------------------------
(* The MessageIDs of the user's requests. *)

\* An event of stdin that is not being handled yet has a line to read.
LinesLeft ==
    /\ lines <= MaxLines
    /\ pc = "epoll" /\ (\E i \in DOMAIN events : events[i] = "stdin") => lines < MaxLines
    /\ Blocked /\ events = <<"sock", "stdin">> => lines < MaxLines

AllRequests == {d \in toServer \cup {out[i] : i \in DOMAIN out} : d.type \in Requests}

\* message_id is ahead of every MessageID used, until it wraps around.
IdsUsed ==
    /\ \A d, e \in AllRequests : d.id = e.id => d = e
    /\ \/ message_id <= lines /\ \A d \in AllRequests : d.id < message_id
       \/ lines >= Ids

----------------------------------------------------------------------------
(* Datagrams and queues *)

LEMMA IdsType == Ids \in Nat /\ Ids > 0
BY ByteAssumption DEF Ids

LEMMA NextId ==
    ASSUME NEW id \in 0..(Ids - 1)
    PROVE  /\ (id + 1) % Ids \in 0..(Ids - 1)
           /\ (id + 1) % Ids = IF id = Ids - 1 THEN 0 ELSE id + 1
<1>1. CASE id = Ids - 1
    <2>1. id + 1 = Ids
        BY <1>1, IdsType
    <2>2. Ids % Ids = 0
        BY IdsType
    <2> QED
        BY <1>1, <2>1, <2>2, IdsType
<1>2. CASE id # Ids - 1
    <2>1. id + 1 \in 0..(Ids - 1)
        BY <1>2, IdsType
    <2>2. \A k \in 0..(Ids - 1) : k % Ids = k
        BY IdsType
    <2> QED
        BY <1>2, <2>1, <2>2, IdsType
<1> QED
    BY <1>1, <1>2

\* message_id is incremented byte by byte, which is to say modulo Ids.
LEMMA NextMessageId ==
    ASSUME message_id \in 0..(Ids - 1), IncrementMessageId
    PROVE  /\ message_id' \in 0..(Ids - 1)
           /\ message_id' = IF message_id = Ids - 1 THEN 0 ELSE message_id + 1
<1>1. PICK low : low = message_id % Byte
    OBVIOUS
<1>2. message_id' = IF low = Byte - 1 THEN (message_id - low + Byte) % Ids ELSE message_id + 1
    BY <1>1, Zenon DEF IncrementMessageId
<1>3. CASE low = Byte - 1
    <2>1. message_id - low + Byte = message_id + 1
        BY <1>3, ByteAssumption, IdsType
    <2> QED
        BY <1>2, <1>3, <2>1, NextId
<1>4. CASE low # Byte - 1
    <2>1. (Ids - 1) % Byte = Byte - 1
        <3>1. PICK high : high = Byte - 1
            OBVIOUS
        <3>2. high \in Nat /\ Ids - 1 = high * Byte + high
            BY <3>1, ByteAssumption DEF Ids
        <3>3. \A b \in Nat \ {0} : \A h \in Nat, l \in 0..(b - 1) : (h * b + l) % b = l
            OBVIOUS
        <3> QED
            BY <3>1, <3>2, <3>3, ByteAssumption
    <2>2. message_id # Ids - 1
        BY <1>1, <1>4, <2>1
    <2> QED
        BY <1>2, <1>4, <2>2, IdsType
<1> QED
    BY <1>3, <1>4

LEMMA DatagramFields ==
    ASSUME NEW type, NEW id
    PROVE  /\ Datagram(type, id).type = type /\ Datagram(type, id).id = id
           /\ type \in ClientTypes /\ id \in Nat => Datagram(type, id) \in ToServer
           /\ type \in ServerTypes \cup {"CONFIRM"} /\ id \in Nat => Datagram(type, id) \in ToClient
BY DEF Datagram, ToServer, ToClient

LEMMA HeadAndTail ==
    ASSUME NEW S, NEW s \in Seq(S), s # <<>>
    PROVE  /\ Head(s) = s[1] /\ 1 \in DOMAIN s /\ s[1] \in S
           /\ Tail(s) \in Seq(S) /\ Len(Tail(s)) = Len(s) - 1 /\ Len(s) \in Nat \ {0}
           /\ \A i \in DOMAIN Tail(s) : i + 1 \in DOMAIN s /\ Tail(s)[i] = s[i + 1]
           /\ Tail(s) = <<>> <=> Len(s) = 1
<1>1. Len(s) \in Nat \ {0} /\ DOMAIN s = 1..Len(s) /\ s[1] \in S /\ Head(s) = s[1]
    BY EmptySeq, LenProperties
<1>2. Tail(s) \in Seq(S) /\ Len(Tail(s)) = Len(s) - 1
    BY HeadTailProperties
<1>3. \A i \in 1..(Len(s) - 1) : Tail(s)[i] = s[i + 1]
    BY <1>1
<1>4. DOMAIN Tail(s) = 1..(Len(s) - 1)
    BY <1>1, <1>2
<1>5. Tail(s) = <<>> <=> Len(s) = 1
    <2>1. Tail(s) # <<>> => Len(Tail(s)) \in Nat \ {0}
        BY <1>2, EmptySeq
    <2>2. Tail(s) = <<>> => Len(Tail(s)) = 0
        BY EmptySeq
    <2> QED
        BY <1>1, <1>2, <2>1, <2>2
<1> QED
    BY <1>1, <1>2, <1>3, <1>4, <1>5

LEMMA BatchTail ==
    ASSUME NEW b \in Batches, b # <<>>
    PROVE  /\ Tail(b) \in Batches
           /\ b # <<"sock", "stdin">> => \A i \in DOMAIN Tail(b) : Tail(b)[i] # "stdin"
<1>1. Tail(<<"stdin">>) = <<>> /\ Tail(<<"sock">>) = <<>>
    OBVIOUS
<1>2. Tail(<<"stdin", "sock">>) = <<"sock">> /\ Tail(<<"sock", "stdin">>) = <<"stdin">>
    OBVIOUS
<1>3. Tail(b) \in Batches
    BY <1>1, <1>2, Zenon DEF Batches
<1>4. b # <<"sock", "stdin">> => Tail(b) \in {<<>>, <<"sock">>}
    BY <1>1, <1>2, Zenon DEF Batches
<1>5. \A t \in {<<>>, <<"sock">>} : \A i \in DOMAIN t : t[i] # "stdin"
    OBVIOUS
<1> HIDE DEF Batches
<1> QED
    BY <1>3, <1>4, <1>5

\* A batch of one to three datagrams.
LEMMA BatchOfDatagrams ==
    ASSUME NEW a \in ToServer, NEW b \in ToServer, NEW c \in ToServer
    PROVE  /\ <<a>> \in Seq(ToServer) /\ <<a>> # <<>> /\ \A i \in DOMAIN <<a>> : <<a>>[i] = a
           /\ <<a, b>> \in Seq(ToServer) /\ <<a, b>> # <<>>
           /\ \A i \in DOMAIN <<a, b>> : <<a, b>>[i] \in {a, b}
           /\ <<a, b, c>> \in Seq(ToServer) /\ <<a, b, c>> # <<>>
           /\ \A i \in DOMAIN <<a, b, c>> : <<a, b, c>>[i] \in {a, b, c}
           /\ Len(<<a>>) = 1 /\ Len(<<a, b>>) = 2 /\ Len(<<a, b, c>>) = 3
<1> HIDE DEF ToServer
<1> QED
    OBVIOUS

LEMMA InitIInv == Init => IInv
<1> SUFFICES ASSUME Init PROVE IInv
    OBVIOUS
<1>1. Flags
    BY Zenon DEF Init, Flags
<1>2. Types
    <2>1. out \in Seq(ToServer) /\ shown \in Seq(Nat) /\ events \in Batches
        BY EmptySeq, Zenon DEF Init, Batches
    <2>2. /\ curr_state = "START" /\ pc = "epoll" /\ message_id = 0 /\ received = {}
          /\ attempt = 0 /\ then = "START" /\ toServer = {} /\ toClient = {}
          /\ server_id = FirstServerId /\ lines = 0
        BY Zenon DEF Init
    <2> QED
        BY <2>1, <2>2, RetransmissionsAssumption, FirstServerIdAssumption, IdsType DEF Types, Blocked
<1>3. HandlerFits /\ TalkMeansLogin /\ OkMeansAuth /\ ShownReceived
    BY DEF Init, HandlerFits, Blocked, TalkMeansLogin, OkMeansAuth, ShownReceived, ShownOnce
<1> QED
    BY <1>1, <1>2, <1>3 DEF IInv

----------------------------------------------------------------------------
(* One step: types *)

LEMMA FlagsStep == ASSUME Flags, [Next]_vars PROVE Flags'
<1> USE DEF Flags, client, sending, history
<1>1. CASE UNCHANGED vars
    BY <1>1, Zenon DEF vars
<1>2. CASE Transmit
    BY <1>2, Zenon DEF Transmit
<1>3. CASE GiveUp
    BY <1>3, Zenon DEF GiveUp
<1>4. CASE RecvTimeout
    BY <1>4, Zenon DEF RecvTimeout
<1>5. CASE RecvInSend
    BY <1>5, Zenon DEF RecvInSend
<1>6. CASE RecvInterrupted
    BY <1>6, Zenon DEF RecvInterrupted
<1>7. CASE EpollWait
    BY <1>7, Zenon DEF EpollWait
<1>8. CASE Closing
    BY <1>8, Zenon DEF Closing
<1>9. ASSUME NEW c \in Commands, StdinLine(c) PROVE Flags'
    BY <1>9, Zenon DEF StdinLine
<1>10. CASE SocketDatagram
    BY <1>10, Zenon DEF SocketDatagram
<1>11. CASE SocketTimeout
    BY <1>11, Zenon DEF SocketTimeout
<1>12. CASE StdinEof
    BY <1>12, Zenon DEF StdinEof
<1>13. CASE Interrupt
    BY <1>13, Zenon DEF Interrupt
<1>14. CASE InterruptHandler
    BY <1>14, Zenon DEF InterruptHandler
<1>15. CASE ServerReceives
    BY <1>15, Zenon DEF ServerReceives
<1>16. ASSUME NEW type \in ServerTypes, ServerSends(type) PROVE Flags'
    BY <1>16, Zenon DEF ServerSends
<1> QED
    BY <1>1, <1>2, <1>3, <1>4, <1>5, <1>6, <1>7, <1>8, <1>9, <1>10, <1>11, <1>12,
       <1>13, <1>14, <1>15, <1>16, Zenon DEF Next, ClientNext

\* The end of a call of udp_send.
LEMMA HeadSent ==
    ASSUME Types, Blocked, HeadIsSent
    PROVE  /\ out' \in Seq(ToServer) /\ attempt' = 0 /\ events' \in Batches
           /\ \A i \in DOMAIN out' : i + 1 \in DOMAIN out /\ out'[i] = out[i + 1]
           /\ \/ pc' = "send" /\ out' # <<>> /\ UNCHANGED <<curr_state, events>>
              \/ pc' = "epoll" /\ then # "exit" /\ curr_state' = then /\ events' = Tail(events)
              \/ pc' = "exited" /\ then = "exit" /\ UNCHANGED <<curr_state, events>>
<1>1. /\ out \in Seq(ToServer) /\ out # <<>> /\ events \in Batches
      /\ events # <<>> \/ then = "exit"
    BY DEF Types
<1> HIDE DEF ToServer
<1>2. /\ out' \in Seq(ToServer) /\ Len(out) \in Nat \ {0}
      /\ \A i \in DOMAIN out' : i + 1 \in DOMAIN out /\ out'[i] = out[i + 1]
      /\ out' = <<>> <=> Len(out) = 1
    <2>1. out' = Tail(out)
        BY DEF HeadIsSent
    <2> QED
        BY <1>1, <2>1, HeadAndTail
<1>3. \/ pc' = "send" /\ out' # <<>> /\ UNCHANGED <<curr_state, events>>
      \/ pc' = "epoll" /\ then # "exit" /\ curr_state' = then /\ events' = Tail(events)
      \/ pc' = "exited" /\ then = "exit" /\ UNCHANGED <<curr_state, events>>
    BY <1>2 DEF HeadIsSent
<1>4. events' \in Batches
    BY <1>1, <1>3, BatchTail, Zenon
<1>5. attempt' = 0
    BY DEF HeadIsSent
<1> QED
    BY <1>2, <1>3, <1>4, <1>5

\* udp_send adds only what it is called with to what is on the network.
LEMMA UdpSendTypes ==
    ASSUME Types, Transmit \/ GiveUp \/ RecvTimeout \/ RecvInSend \/ RecvInterrupted
    PROVE  /\ Types'
           /\ Blocked /\ UNCHANGED <<then, message_id, lines, toClient, received, shown>>
           /\ toServer' \in {toServer, toServer \cup {Head(out)}}
           /\ Head(out) = out[1] /\ 1 \in DOMAIN out
           /\ \/ HeadIsSent
              \/ UNCHANGED <<out, curr_state, events>>
<1>1. /\ Blocked
      /\ UNCHANGED <<then, message_id, lines, toClient, received, server_id, shown>>
      /\ toServer' \in {toServer, toServer \cup {Head(out)}}
      /\ \/ HeadIsSent
         \/ UNCHANGED <<out, curr_state, events>>
    BY DEF Transmit, GiveUp, RecvTimeout, RecvInSend, RecvInterrupted, Blocked, client, history
<1>2. Head(out) = out[1] /\ 1 \in DOMAIN out /\ Head(out) \in ToServer
    <2>1. out \in Seq(ToServer) /\ out # <<>>
        BY <1>1 DEF Types
    <2> QED
        BY <2>1, HeadAndTail
<1>3. toServer' \subseteq ToServer
    BY <1>1, <1>2 DEF Types
<1>4. CASE HeadIsSent
    BY <1>1, <1>3, <1>4, HeadSent, RetransmissionsAssumption DEF Types, Blocked
<1>5. CASE ~HeadIsSent
    <2> DEFINE Goes == attempt' \in 0..Retransmissions /\ pc' \in {"send", "recv", "failed"}
    <2>1. ASSUME Transmit PROVE Goes
        BY <1>1, <1>5, <2>1, RetransmissionsAssumption DEF Transmit, Types
    <2>2. ASSUME GiveUp PROVE Goes
        BY <2>2 DEF GiveUp, Types
    <2>3. ASSUME RecvTimeout PROVE Goes
        BY <2>3 DEF RecvTimeout, Types
    <2>4. ASSUME RecvInSend PROVE Goes
        BY <1>5, <2>4 DEF RecvInSend, Types
    <2>5. ASSUME RecvInterrupted PROVE Goes
        BY <1>5, <2>5 DEF RecvInterrupted, Types
    <2>6. Goes
        BY <2>1, <2>2, <2>3, <2>4, <2>5
    <2> QED
        BY <1>1, <1>3, <1>5, <2>6 DEF Types, Blocked
<1> QED
    BY <1>1, <1>2, <1>4, <1>5

LEMMA AnswerType ==
    ASSUME Types, NEW d \in ToClient, NEW type \in {"CONFIRM", "BYE", "ERR"}
    PROVE  Answer(type, d) \in ToServer /\ Answer(type, d).type = type
<1>1. d.id \in Nat /\ message_id \in Nat
    BY IdsType DEF ToClient, Types
<1>2. RefMessageId(d.id) \in Nat
    <2>1. PICK low : low = d.id % Byte
        OBVIOUS
    <2>2. low \in Nat /\ (Byte - 1) * Byte \in Nat
        BY <1>1, <2>1, ByteAssumption
    <2>3. RefMessageId(d.id) \in {d.id, (Byte - 1) * Byte + low}
        BY <2>1, Zenon DEF RefMessageId
    <2> QED
        BY <1>1, <2>2, <2>3
<1> HIDE DEF RefMessageId
<1> QED
    BY <1>1, <1>2, DatagramFields DEF Answer, ClientTypes

\* What fsm_udp may send for a datagram it got in curr_state.
Fit(ds) ==
    /\ ds \in Seq(ToServer) /\ ds # <<>> /\ Len(ds) \in 1..3
    /\ \A i \in DOMAIN ds : /\ ds[i].type \notin {"AUTH", "MSG", "JOIN"}
                            /\ ds[i].type = "ERR" => curr_state = "OPEN"

LEMMA FitAnswers ==
    ASSUME Types, NEW d \in ToClient
    PROVE  /\ Fit(<<Answer("CONFIRM", d)>>) /\ Fit(<<Answer("BYE", d)>>)
           /\ Fit(<<Answer("CONFIRM", d), Answer("BYE", d)>>)
           /\ curr_state = "OPEN" =>
                  Fit(<<Answer("CONFIRM", d), Answer("ERR", d), Answer("BYE", d)>>)
<1> DEFINE a == Answer("CONFIRM", d)
           b == Answer("BYE", d)
           c == Answer("ERR", d)
<1>1. /\ a \in ToServer /\ b \in ToServer /\ c \in ToServer
      /\ a.type = "CONFIRM" /\ b.type = "BYE" /\ c.type = "ERR"
    BY AnswerType
<1> HIDE DEF a, b, c, ToServer
<1>2. Fit(<<a>>)
    BY <1>1, BatchOfDatagrams DEF Fit
<1>3. Fit(<<b>>)
    BY <1>1, BatchOfDatagrams DEF Fit
<1>4. Fit(<<a, b>>)
    BY <1>1, BatchOfDatagrams DEF Fit
<1>5. curr_state = "OPEN" => Fit(<<a, c, b>>)
    BY <1>1, BatchOfDatagrams DEF Fit
<1> QED
    BY <1>2, <1>3, <1>4, <1>5 DEF a, b, c

\* fsm_udp on a datagram: only a REPLY OK leads from START to OPEN, and what is
\* shown was not received before.
LEMMA DatagramOutcome ==
    ASSUME Types, SocketDatagram
    PROVE  \E d \in toClient :
              /\ \/ \E s \in {curr_state, "END"} : Done(s)
                 \/ /\ curr_state # "END"
                    /\ \E ds, s : /\ SendAll(ds, s) /\ Fit(ds)
                                  /\ \/ s \in {curr_state, "END"}
                                     \/ s = "OPEN" /\ d.type = "REPLY OK"
              /\ \/ UNCHANGED shown /\ received' \in {received, received \cup {d.id}}
                 \/ /\ shown' = Append(shown, d.id)
                    /\ d.id \notin received /\ received' = received \cup {d.id}
<1>1. PICK d \in toClient :
         \/ /\ d.type # "CONFIRM" /\ d.id \in received
            /\ Done(curr_state)
            /\ UNCHANGED <<received, shown>>
         \/ /\ d.type # "CONFIRM" /\ d.id \notin received
            /\ received' = received \cup {d.id}
            /\ InStart(d) \/ InOpen(d) \/ InEnd(d)
         \/ /\ d.type = "CONFIRM"
            /\ InStart(d) \/ InOpen(d) \/ InEnd(d)
            /\ UNCHANGED received
    BY Zenon DEF SocketDatagram
<1>2. d \in ToClient
    BY DEF Types
<1>3. /\ Fit(<<Answer("CONFIRM", d)>>) /\ Fit(<<Answer("BYE", d)>>)
      /\ Fit(<<Answer("CONFIRM", d), Answer("BYE", d)>>)
      /\ curr_state = "OPEN" =>
             Fit(<<Answer("CONFIRM", d), Answer("ERR", d), Answer("BYE", d)>>)
    BY <1>2, FitAnswers
<1> DEFINE Handled == \/ \E s \in {curr_state, "END"} : Done(s)
                      \/ /\ curr_state # "END"
                         /\ \E ds, s : /\ SendAll(ds, s) /\ Fit(ds)
                                       /\ \/ s \in {curr_state, "END"}
                                          \/ s = "OPEN" /\ d.type = "REPLY OK"
<1>4. ASSUME InStart(d) PROVE Handled
    BY <1>3, <1>4, Zenon DEF InStart
<1>5. ASSUME InOpen(d) PROVE Handled
    BY <1>3, <1>5, Zenon DEF InOpen
<1>6. ASSUME InEnd(d) PROVE Handled
    BY <1>6, Zenon DEF InEnd
<1>7. Handled
    BY <1>1, <1>4, <1>5, <1>6, Zenon
<1> HIDE DEF Handled
<1>8. \/ UNCHANGED shown /\ received' \in {received, received \cup {d.id}}
      \/ /\ shown' = Append(shown, d.id)
         /\ d.id \notin received /\ received' = received \cup {d.id}
    BY <1>1, Zenon DEF InStart, InOpen, InEnd
<1> QED
    BY <1>7, <1>8, Zenon DEF Handled

\* What fsm_udp sends for a line from stdin.
LEMMA LineOutcome ==
    ASSUME Types, NEW c \in Commands, StdinLine(c)
    PROVE  /\ Handling("stdin") /\ lines' = lines + 1 /\ UNCHANGED <<received, shown>>
           /\ \/ /\ pc' = "crashed" /\ curr_state = "OPEN"
                 /\ UNCHANGED <<curr_state, events, out, attempt, then, message_id>>
              \/ Done(curr_state) /\ UNCHANGED message_id
              \/ \E type \in Requests :
                    /\ type = "AUTH" => curr_state = "START"
                    /\ type # "AUTH" => curr_state = "OPEN"
                    /\ SendAll(<<Datagram(type, message_id)>>, curr_state)
                    /\ IncrementMessageId
<1>1. Handling("stdin") /\ lines' = lines + 1 /\ UNCHANGED <<received, shown>>
    BY DEF StdinLine, history
<1> DEFINE T == CASE c = "/auth" -> "AUTH" [] c = "text" -> "MSG" [] OTHER -> "JOIN"
<1>2. /\ T \in Requests
      /\ c = "/auth" => T = "AUTH"
      /\ c # "/auth" => T # "AUTH"
    BY DEF Requests
<1>3. \/ /\ pc' = "crashed" /\ curr_state = "OPEN"
         /\ UNCHANGED <<curr_state, events, out, attempt, then, message_id>>
      \/ Done(curr_state) /\ UNCHANGED message_id
      \/ /\ \/ curr_state = "START" /\ c = "/auth"
            \/ curr_state = "OPEN" /\ c \in {"text", "/join"}
         /\ SendAll(<<Datagram(T, message_id)>>, curr_state)
         /\ IncrementMessageId
    BY Zenon DEF StdinLine
<1> HIDE DEF T
<1>4. CASE /\ \/ curr_state = "START" /\ c = "/auth"
              \/ curr_state = "OPEN" /\ c \in {"text", "/join"}
           /\ SendAll(<<Datagram(T, message_id)>>, curr_state)
           /\ IncrementMessageId
    <2>1. T = "AUTH" => curr_state = "START"
        BY <1>2, <1>4
    <2>2. T # "AUTH" => curr_state = "OPEN"
        BY <1>2, <1>4
    <2> QED
        BY <1>1, <1>2, <1>4, <2>1, <2>2
<1> QED
    BY <1>1, <1>3, <1>4

\* Types are kept by a handler that ends at once or begins to send.
LEMMA DoneTypes ==
    ASSUME Types, pc = "epoll", events # <<>>,
           NEW s \in {"START", "OPEN", "END"}, Done(s),
           UNCHANGED <<toServer, toClient, server_id, message_id>>,
           shown' \in Seq(Nat), received' \subseteq Nat, lines' \in Nat
    PROVE  Types'
<1>1. curr_state' = s /\ events' = Tail(events) /\ UNCHANGED <<pc, out, attempt, then>>
    BY DEF Done, sending
<1>2. events' \in Batches
    BY <1>1, BatchTail DEF Types
<1> QED
    BY <1>1, <1>2 DEF Types, Blocked

LEMMA SendAllTypes ==
    ASSUME Types, pc = "epoll",
           NEW s \in {"START", "OPEN", "END", "exit"}, events # <<>> \/ s = "exit",
           NEW ds \in Seq(ToServer), ds # <<>>, SendAll(ds, s),
           UNCHANGED <<toServer, toClient, server_id>>, message_id' \in 0..(Ids - 1),
           shown' \in Seq(Nat), received' \subseteq Nat, lines' \in Nat
    PROVE  Types'
<1>1. /\ pc' = "send" /\ out' = ds /\ then' = s
      /\ UNCHANGED <<curr_state, events, attempt>>
    BY DEF SendAll
<1> QED
    BY <1>1 DEF Types, Blocked

----------------------------------------------------------------------------
(* One step: the session *)

\* What the server has got it keeps.
LEMMA LoginStays ==
    ASSUME toServer \subseteq toServer', toClient \subseteq toClient'
    PROVE  /\ ServerGot \subseteq ServerGot'
           /\ LoggedIn => LoggedIn'
<1>1. ServerGot \subseteq ServerGot'
    BY DEF ServerGot
<1> QED
    BY <1>1 DEF LoggedIn

Login == TalkMeansLogin /\ OkMeansAuth

LEMMA UdpSendStep ==
    ASSUME IInv, Transmit \/ GiveUp \/ RecvTimeout \/ RecvInSend \/ RecvInterrupted
    PROVE  Types' /\ HandlerFits' /\ Login' /\ ShownReceived'
<1>1. /\ Types /\ Types'
      /\ Blocked /\ UNCHANGED <<then, message_id, lines, toClient, received, shown>>
      /\ toServer' \in {toServer, toServer \cup {Head(out)}}
      /\ Head(out) = out[1] /\ 1 \in DOMAIN out
      /\ HeadIsSent \/ UNCHANGED <<out, curr_state, events>>
    BY UdpSendTypes DEF IInv
<1>2. ASSUME HeadIsSent
      PROVE  /\ \A i \in DOMAIN out' : i + 1 \in DOMAIN out /\ out'[i] = out[i + 1]
             /\ \/ pc' = "send" /\ UNCHANGED curr_state
                \/ pc' = "epoll" /\ curr_state' = then
                \/ pc' = "exited" /\ UNCHANGED curr_state
    BY <1>1, <1>2, HeadSent
<1>3. HandlerFits'
    <2>1. CASE HeadIsSent
        BY <1>1, <1>2, <2>1 DEF IInv, HandlerFits, Blocked
    <2>2. CASE UNCHANGED <<out, curr_state, events>>
        BY <1>1, <2>2 DEF IInv, HandlerFits, Blocked
    <2> QED
        BY <1>1, <2>1, <2>2
<1>4. LoggedIn => LoggedIn'
    BY <1>1, LoginStays
<1>5. TalkMeansLogin'
    <2>1. curr_state' \in {curr_state, then}
        BY <1>1, <1>2
    <2>2. out[1].type \in {"MSG", "JOIN"} => curr_state = "OPEN"
        BY <1>1 DEF IInv, HandlerFits
    <2> QED
        BY <1>1, <1>4, <2>1, <2>2 DEF IInv, TalkMeansLogin
<1>6. OkMeansAuth'
    <2>1. ServerGot \subseteq ServerGot'
        BY <1>1, LoginStays
    <2> QED
        BY <1>1, <2>1 DEF IInv, OkMeansAuth
<1>7. ShownReceived'
    BY <1>1 DEF IInv, ShownReceived, ShownOnce
<1> QED
    BY <1>1, <1>3, <1>5, <1>6, <1>7 DEF Login

LEMMA MainStep ==
    ASSUME IInv, EpollWait \/ Interrupt \/ InterruptHandler \/ Closing
    PROVE  Types' /\ HandlerFits' /\ Login' /\ ShownReceived'
<1>1. /\ UNCHANGED <<curr_state, message_id, received, attempt, toServer, toClient, lines,
                    server_id, shown>>
      /\ Types
    BY DEF EpollWait, Interrupt, InterruptHandler, Closing, client, sending, history, IInv
<1>2. ShownReceived' /\ OkMeansAuth' /\ (LoggedIn => LoggedIn')
    BY <1>1 DEF IInv, ShownReceived, ShownOnce, OkMeansAuth, ServerGot, LoggedIn
<1>3. CASE EpollWait
    <2>1. pc = "epoll" /\ events' \in Batches /\ UNCHANGED <<pc, out, then>>
        BY <1>3, Zenon DEF EpollWait, sending, Batches
    <2>2. Types' /\ HandlerFits'
        BY <1>1, <2>1 DEF Types, HandlerFits, Blocked
    <2>3. TalkMeansLogin'
        BY <1>1, <1>2, <2>1 DEF IInv, TalkMeansLogin
    <2> QED
        BY <1>2, <2>2, <2>3 DEF Login
<1>4. CASE Interrupt \/ InterruptHandler
    <2>1. UNCHANGED <<events, pc, out, then>>
        BY <1>4, Zenon DEF Interrupt, InterruptHandler, sending
    <2>2. Types' /\ HandlerFits'
        BY <1>1, <2>1 DEF IInv, Types, HandlerFits, Blocked
    <2>3. TalkMeansLogin'
        BY <1>1, <1>2, <2>1 DEF IInv, TalkMeansLogin
    <2> QED
        BY <1>2, <2>2, <2>3 DEF Login
<1>5. CASE Closing
    <2>1. /\ pc = "epoll" /\ pc' = "send" /\ then' = "exit"
          /\ out' = <<Datagram("BYE", message_id)>> /\ UNCHANGED events
        BY <1>5, Zenon DEF Closing, client
    <2>2. /\ out' \in Seq(ToServer) /\ out' # <<>>
          /\ \A i \in DOMAIN out' : out'[i].type = "BYE"
        <3> DEFINE b == Datagram("BYE", message_id)
        <3>1. b \in ToServer /\ b.type = "BYE"
            BY <1>1, DatagramFields, IdsType DEF Types, ClientTypes
        <3> HIDE DEF b, ToServer
        <3>2. out' = <<b>>
            BY <2>1 DEF b
        <3> QED
            BY <3>1, <3>2, BatchOfDatagrams
    <2>3. Types' /\ HandlerFits'
        BY <1>1, <2>1, <2>2 DEF Types, HandlerFits, Blocked
    <2>4. TalkMeansLogin'
        BY <1>1, <1>2, <2>1 DEF IInv, TalkMeansLogin
    <2> QED
        BY <1>2, <2>3, <2>4 DEF Login
<1> QED
    BY <1>3, <1>4, <1>5

LEMMA LineStep ==
    ASSUME IInv, StdinEof \/ \E c \in Commands : StdinLine(c)
    PROVE  Types' /\ HandlerFits' /\ Login' /\ ShownReceived'
<1>1. /\ UNCHANGED <<toServer, toClient, received, server_id, shown>>
      /\ lines' = lines + 1 /\ Types
      /\ pc = "epoll" /\ events # <<>>
    BY DEF StdinEof, StdinLine, history, Handling, IInv
<1>2. ShownReceived' /\ OkMeansAuth' /\ (LoggedIn => LoggedIn')
    BY <1>1 DEF IInv, ShownReceived, ShownOnce, OkMeansAuth, ServerGot, LoggedIn
<1>3. /\ curr_state \in {"START", "OPEN", "END"} /\ shown' \in Seq(Nat)
      /\ received' \subseteq Nat /\ lines' \in Nat /\ message_id \in 0..(Ids - 1)
    BY <1>1 DEF Types
<1>4. ASSUME NEW s \in {curr_state, "END"}, Done(s), UNCHANGED message_id
      PROVE  Types' /\ HandlerFits' /\ TalkMeansLogin'
    <2>1. Types'
        BY <1>1, <1>3, <1>4, DoneTypes
    <2>2. curr_state' = s /\ UNCHANGED <<pc, out, then>>
        BY <1>4 DEF Done, sending
    <2> QED
        BY <1>1, <1>2, <2>1, <2>2 DEF IInv, HandlerFits, Blocked, TalkMeansLogin
<1>5. ASSUME NEW c \in Commands, StdinLine(c)
      PROVE  Types' /\ HandlerFits' /\ TalkMeansLogin'
    <2>1. CASE /\ pc' = "crashed"
               /\ UNCHANGED <<curr_state, events, out, attempt, then, message_id>>
        BY <1>1, <1>2, <1>3, <2>1 DEF IInv, Types, HandlerFits, Blocked, TalkMeansLogin
    <2>2. CASE Done(curr_state) /\ UNCHANGED message_id
        BY <1>4, <2>2
    <2>3. ASSUME NEW type \in Requests,
                 type = "AUTH" => curr_state = "START",
                 type # "AUTH" => curr_state = "OPEN",
                 SendAll(<<Datagram(type, message_id)>>, curr_state),
                 IncrementMessageId
          PROVE  Types' /\ HandlerFits' /\ TalkMeansLogin'
        <3> DEFINE d == Datagram(type, message_id)
        <3>1. d \in ToServer /\ d.type = type
            BY <1>3, DatagramFields, IdsType DEF ClientTypes, Requests
        <3>2. <<d>> \in Seq(ToServer) /\ <<d>> # <<>> /\ \A i \in DOMAIN <<d>> : <<d>>[i] = d
            <4> HIDE DEF d, ToServer
            <4> QED
                BY <3>1, BatchOfDatagrams
        <3>3. message_id' \in 0..(Ids - 1)
            BY <1>3, <2>3, NextMessageId
        <3> HIDE DEF d, ToServer
        <3>4. SendAll(<<d>>, curr_state)
            BY <2>3 DEF d
        <3>5. Types'
            BY <1>1, <1>3, <3>2, <3>3, <3>4, SendAllTypes
        <3>6. /\ pc' = "send" /\ out' = <<d>> /\ then' = curr_state /\ UNCHANGED curr_state
            BY <3>4 DEF SendAll
        <3>7. HandlerFits'
            BY <1>3, <2>3, <3>1, <3>2, <3>6 DEF HandlerFits, Requests
        <3>8. TalkMeansLogin'
            BY <1>1, <1>2, <3>6 DEF IInv, TalkMeansLogin
        <3> QED
            BY <3>5, <3>7, <3>8
    <2> QED
        BY <1>1, <1>5, <2>1, <2>2, <2>3, LineOutcome
<1>6. CASE StdinEof
    BY <1>2, <1>4, <1>6 DEF StdinEof, Login
<1> QED
    BY <1>2, <1>5, <1>6, Zenon DEF Login

LEMMA SocketStep ==
    ASSUME IInv, SocketDatagram \/ SocketTimeout
    PROVE  Types' /\ HandlerFits' /\ Login' /\ ShownReceived'
<1>1. /\ UNCHANGED <<toServer, toClient, message_id, server_id, lines>>
      /\ pc = "epoll" /\ events # <<>> /\ Types
    BY DEF SocketDatagram, SocketTimeout, Handling, IInv
<1>2. OkMeansAuth' /\ (LoggedIn => LoggedIn')
    BY <1>1 DEF IInv, OkMeansAuth, ServerGot, LoggedIn
<1>3. /\ curr_state \in {"START", "OPEN", "END"} /\ shown \in Seq(Nat)
      /\ received \subseteq Nat /\ lines' \in Nat /\ message_id' \in 0..(Ids - 1)
    BY <1>1 DEF Types
<1>4. ASSUME NEW s \in {curr_state, "END"}, Done(s), shown' \in Seq(Nat), received' \subseteq Nat
      PROVE  Types' /\ HandlerFits' /\ TalkMeansLogin'
    <2>1. Types'
        BY <1>1, <1>3, <1>4, DoneTypes
    <2>2. curr_state' = s /\ UNCHANGED <<pc, out, then>>
        BY <1>4 DEF Done, sending
    <2> QED
        BY <1>1, <1>2, <2>1, <2>2 DEF IInv, HandlerFits, Blocked, TalkMeansLogin
<1>5. CASE SocketTimeout
    <2>1. Done("END") /\ UNCHANGED <<shown, received>>
        BY <1>5, Zenon DEF SocketTimeout
    <2>2. ShownReceived'
        BY <2>1 DEF IInv, ShownReceived, ShownOnce
    <2> QED
        BY <1>2, <1>3, <1>4, <2>1, <2>2 DEF Login
<1>6. CASE SocketDatagram
    <2>1. PICK d \in toClient :
              /\ \/ \E s \in {curr_state, "END"} : Done(s)
                 \/ /\ curr_state # "END"
                    /\ \E ds, s : /\ SendAll(ds, s) /\ Fit(ds)
                                  /\ \/ s \in {curr_state, "END"}
                                     \/ s = "OPEN" /\ d.type = "REPLY OK"
              /\ \/ UNCHANGED shown /\ received' \in {received, received \cup {d.id}}
                 \/ /\ shown' = Append(shown, d.id)
                    /\ d.id \notin received /\ received' = received \cup {d.id}
        BY <1>1, <1>6, DatagramOutcome, Zenon
    <2>2. d.id \in Nat
        BY <1>1 DEF Types, ToClient
    <2>3. ShownReceived' /\ shown' \in Seq(Nat) /\ received' \subseteq Nat
        <3>1. CASE UNCHANGED shown /\ received' \in {received, received \cup {d.id}}
            BY <1>3, <2>2, <3>1 DEF IInv, ShownReceived, ShownOnce
        <3>2. CASE /\ shown' = Append(shown, d.id)
                   /\ d.id \notin received /\ received' = received \cup {d.id}
            <4>1. /\ shown' \in Seq(Nat) /\ Len(shown') = Len(shown) + 1
                  /\ \A i \in 1..Len(shown) : shown'[i] = shown[i]
                  /\ shown'[Len(shown) + 1] = d.id
                BY <1>3, <2>2, <3>2, AppendProperties
            <4>2. DOMAIN shown' = 1..(Len(shown) + 1) /\ DOMAIN shown = 1..Len(shown) /\ Len(shown) \in Nat
                BY <1>3, <4>1
            <4>3. \A i \in DOMAIN shown : shown[i] \in received
                BY DEF IInv, ShownReceived
            <4>4. ShownOnce'
                <5> SUFFICES ASSUME NEW i \in DOMAIN shown', NEW j \in DOMAIN shown',
                                    shown'[i] = shown'[j]
                             PROVE  i = j
                    BY DEF ShownOnce
                <5> QED
                    BY <3>2, <4>1, <4>2, <4>3 DEF IInv, ShownReceived, ShownOnce
            <4>5. \A i \in DOMAIN shown' : shown'[i] \in received'
                BY <3>2, <4>1, <4>2, <4>3
            <4>6. received' \subseteq Nat
                BY <1>3, <2>2, <3>2
            <4> QED
                BY <4>1, <4>4, <4>5, <4>6 DEF ShownReceived
        <3> QED
            BY <2>1, <3>1, <3>2
    <2>4. ASSUME NEW s \in {curr_state, "END"}, Done(s)
          PROVE  Types' /\ HandlerFits' /\ TalkMeansLogin'
        BY <1>4, <2>3, <2>4
    <2>5. ASSUME curr_state # "END", NEW ds, NEW s, SendAll(ds, s), Fit(ds),
                 s \in {curr_state, "END"} \/ (s = "OPEN" /\ d.type = "REPLY OK")
          PROVE  Types' /\ HandlerFits' /\ TalkMeansLogin'
        <3>1. /\ ds \in Seq(ToServer) /\ ds # <<>> /\ s \in {"START", "OPEN", "END"}
            BY <1>3, <2>5 DEF Fit
        <3>2. Types'
            BY <1>1, <1>3, <2>3, <2>5, <3>1, SendAllTypes
        <3>3. pc' = "send" /\ out' = ds /\ then' = s /\ UNCHANGED curr_state
            BY <2>5 DEF SendAll
        <3>4. HandlerFits'
            BY <1>3, <2>5, <3>3 DEF HandlerFits, Fit
        <3>5. s = "OPEN" => LoggedIn
            BY <2>5 DEF IInv, TalkMeansLogin, OkMeansAuth, LoggedIn
        <3>6. TalkMeansLogin'
            BY <1>1, <1>2, <3>3, <3>5 DEF IInv, TalkMeansLogin
        <3> QED
            BY <3>2, <3>4, <3>6
    <2> QED
        BY <1>2, <2>1, <2>3, <2>4, <2>5, Zenon DEF Login
<1> QED
    BY <1>5, <1>6

LEMMA ServerStep ==
    ASSUME IInv, ServerReceives \/ \E type \in ServerTypes : ServerSends(type)
    PROVE  Types' /\ HandlerFits' /\ Login' /\ ShownReceived'
<1>1. /\ UNCHANGED <<curr_state, message_id, received, events, pc, out, attempt, then,
                    toServer, lines, shown>>
      /\ Types
    BY DEF ServerReceives, ServerSends, client, sending, history, IInv
<1>2. ShownReceived' /\ HandlerFits'
    BY <1>1 DEF IInv, ShownReceived, ShownOnce, HandlerFits, Blocked
<1>3. CASE ServerReceives
    <2>1. PICK d \in toServer : toClient' = toClient \cup {Datagram("CONFIRM", d.id)}
        BY <1>3, Zenon DEF ServerReceives
    <2>2. UNCHANGED server_id
        BY <1>3 DEF ServerReceives
    <2>3. /\ Datagram("CONFIRM", d.id) \in ToClient
          /\ Datagram("CONFIRM", d.id).type = "CONFIRM"
        BY <1>1, DatagramFields DEF Types, ToServer
    <2>4. Types'
        BY <1>1, <2>1, <2>2, <2>3 DEF Types, Blocked
    <2>5. ServerGot \subseteq ServerGot' /\ (LoggedIn => LoggedIn')
        BY <1>1, <2>1, LoginStays
    <2>6. Login'
        BY <1>1, <2>1, <2>3, <2>5 DEF IInv, Login, TalkMeansLogin, OkMeansAuth
    <2> QED
        BY <1>2, <2>4, <2>6
<1>4. ASSUME NEW type \in ServerTypes, ServerSends(type)
      PROVE  Types' /\ Login'
    <2>1. /\ toClient' = toClient \cup {Datagram(type, server_id)}
          /\ server_id' = (server_id + 1) % Ids
        BY <1>4 DEF ServerSends
    <2>2. Datagram(type, server_id) \in ToClient /\ Datagram(type, server_id).type = type
        BY <1>1, DatagramFields, IdsType DEF Types
    <2>3. server_id' \in 0..(Ids - 1)
        BY <1>1, <2>1, NextId DEF Types
    <2>4. Types'
        BY <1>1, <2>1, <2>2, <2>3 DEF Types, Blocked
    <2>5. ServerGot \subseteq ServerGot' /\ (LoggedIn => LoggedIn')
        BY <1>1, <2>1, LoginStays
    <2>6. type = "REPLY OK" => \E d \in ServerGot : d.type = "AUTH"
        <3> SUFFICES ASSUME type = "REPLY OK" PROVE \E d \in ServerGot : d.type = "AUTH"
            OBVIOUS
        <3>1. PICK d \in ServerGot : d.type \in {"AUTH", "JOIN"}
            BY <1>4 DEF ServerSends
        <3>2. d \in toServer
            BY DEF ServerGot
        <3>3. CASE d.type = "JOIN"
            BY <3>2, <3>3 DEF IInv, TalkMeansLogin, LoggedIn
        <3> QED
            BY <3>1, <3>3
    <2>7. Login'
        BY <1>1, <2>1, <2>2, <2>5, <2>6 DEF IInv, Login, TalkMeansLogin, OkMeansAuth
    <2> QED
        BY <2>4, <2>7
<1> QED
    BY <1>2, <1>3, <1>4, Zenon

LEMMA NextIInv == IInv /\ [Next]_vars => IInv'
<1> SUFFICES ASSUME IInv, [Next]_vars PROVE IInv'
    OBVIOUS
<1>1. Flags'
    BY FlagsStep DEF IInv
<1>2. CASE UNCHANGED vars
    <2>1. UNCHANGED <<curr_state, message_id, received, events, pc, out, attempt, then,
                      toServer, toClient, lines, server_id, shown>>
        BY <1>2 DEF vars, client, sending, history
    <2>2. Types' /\ HandlerFits' /\ ShownReceived'
        BY <2>1 DEF IInv, Types, HandlerFits, Blocked, ShownReceived, ShownOnce
    <2>3. TalkMeansLogin' /\ OkMeansAuth'
        BY <2>1 DEF IInv, TalkMeansLogin, OkMeansAuth, LoggedIn, ServerGot
    <2> QED
        BY <1>1, <2>2, <2>3 DEF IInv
<1>3. CASE Next
    <2>1. Types' /\ HandlerFits' /\ Login' /\ ShownReceived'
        BY <1>3, UdpSendStep, MainStep, LineStep, SocketStep, ServerStep, Zenon DEF Next, ClientNext
    <2> QED
        BY <1>1, <2>1 DEF IInv, Login
<1> QED
    BY <1>2, <1>3

\* IInv holds at every event and inside every handler of fsm_udp that blocks.
THEOREM Invariance == Spec => []IInv
BY InitIInv, NextIInv, PTL DEF Spec

\* The user is logged in, and MSG and JOIN go out, only after the server has got
\* an AUTH and sent a REPLY OK, however the network loses, repeats and reorders
\* datagrams while udp_send blocks: the login of fsm_udp cannot be got around.
THEOREM TalkingTheorem == Spec => []TalksOnlyAfterOk
<1>1. IInv => TalksOnlyAfterOk
    BY DEF IInv, TalkMeansLogin, LoggedIn, TalksOnlyAfterOk
<1> QED
    BY Invariance, <1>1, PTL

\* check_received_message_id lets no chat message be displayed twice, whatever
\* is repeated and whenever, as long as received_message_ids has room.
THEOREM ShownOnceTheorem == Spec => []ShownOnce
<1>1. IInv => ShownOnce
    BY DEF IInv, ShownReceived
<1> QED
    BY Invariance, <1>1, PTL

----------------------------------------------------------------------------
(* fsm_udp implements the session. *)

AuthSent == \E d \in toServer : d.type = "AUTH"

LEMMA StepRefines == ASSUME IInv, [Next]_vars PROVE [Session!Next]_(Session!sessionVars)
<1> USE DEF Session!sessionVars
<1>1. Types /\ curr_state \in {"START", "OPEN", "END"} /\ (UNCHANGED toServer => UNCHANGED Said)
    BY DEF IInv, Types, Said
<1>2. ASSUME UNCHANGED <<curr_state, pc, toServer>> PROVE UNCHANGED Session!sessionVars
    BY <1>1, <1>2 DEF SessionState, Finished
\* A step to END or out of the process.
<1>3. ASSUME ~Finished, UNCHANGED Said, Finished' \/ curr_state' = "END"
      PROVE  Session!Leave \/ UNCHANGED Session!sessionVars
    <2>1. SessionState' = "over"
        BY <1>3 DEF SessionState
    <2>2. CASE SessionState = "over"
        BY <1>3, <2>1, <2>2
    <2>3. CASE SessionState # "over"
        BY <1>3, <2>1, <2>3 DEF Session!Leave
    <2> QED
        BY <2>2, <2>3
\* udp_send
<1>4. CASE Transmit \/ GiveUp \/ RecvTimeout \/ RecvInSend \/ RecvInterrupted
    <2>1. /\ Blocked /\ UNCHANGED <<then, toClient>>
          /\ toServer' \in {toServer, toServer \cup {Head(out)}}
          /\ Head(out) = out[1] /\ 1 \in DOMAIN out
          /\ \/ HeadIsSent
             \/ UNCHANGED <<curr_state, out, events>>
        BY <1>1, <1>4, UdpSendTypes
    <2>2. ~Finished
        BY <2>1 DEF Finished, Blocked
    <2>3. /\ out[1].type = "AUTH" => curr_state = "START"
          /\ out[1].type \in {"MSG", "JOIN", "ERR"} => curr_state = "OPEN"
          /\ then = "START" => curr_state = "START"
          /\ then = "OPEN" => curr_state \in {"START", "OPEN"} /\ LoggedIn
          /\ curr_state = "END" => then = "exit"
        BY <2>1 DEF IInv, HandlerFits, TalkMeansLogin
    <2>4. CASE ~UNCHANGED toServer /\ Head(out).type # "CONFIRM"
        <3>1. /\ UNCHANGED curr_state /\ pc' = "recv"
              /\ toServer' = toServer \cup {out[1]}
            <4>1. Transmit
                BY <1>4, <2>4 DEF GiveUp, RecvTimeout, RecvInSend, RecvInterrupted
            <4> QED
                BY <2>1, <2>4, <4>1 DEF Transmit
        <3>2. ~Finished'
            BY <3>1 DEF Finished
        <3>3. CASE out[1].type \in {"MSG", "JOIN", "ERR"}
            <4>1. SessionState = "in" /\ SessionState' = "in"
                BY <2>2, <2>3, <3>1, <3>2, <3>3 DEF SessionState
            <4>2. Said' = Said \cup {out[1]}
                BY <3>1, <3>3 DEF Said
            <4>3. Session!Talk
                BY <4>1, <4>2 DEF Session!Talk
            <4> QED
                BY <4>3 DEF Session!Next
        <3>4. CASE out[1].type \notin {"MSG", "JOIN", "ERR"}
            <4>1. Said' = Said
                BY <3>1, <3>4 DEF Said
            <4>2. CASE curr_state # "START" \/ AuthSent \/ out[1].type # "AUTH"
                <5>1. AuthSent' => AuthSent \/ out[1].type = "AUTH"
                    BY <3>1 DEF AuthSent
                <5>2. AuthSent => AuthSent'
                    BY <3>1 DEF AuthSent
                <5>3. SessionState' = SessionState
                    BY <2>2, <2>3, <3>1, <3>2, <4>2, <5>1, <5>2 DEF SessionState, AuthSent
                <5> QED
                    BY <4>1, <5>3
            <4>3. CASE curr_state = "START" /\ ~AuthSent /\ out[1].type = "AUTH"
                <5>1. AuthSent'
                    BY <3>1, <4>3 DEF AuthSent
                <5>2. SessionState = "out" /\ SessionState' = "asked"
                    BY <2>2, <3>1, <3>2, <4>3, <5>1 DEF SessionState, AuthSent
                <5> QED
                    BY <4>1, <5>2 DEF Session!Ask, Session!Next
            <4> QED
                BY <4>2, <4>3
        <3> QED
            BY <3>3, <3>4
    <2>5. CASE UNCHANGED toServer \/ Head(out).type = "CONFIRM"
        <3>1. UNCHANGED Said /\ (AuthSent <=> AuthSent')
            BY <2>1, <2>5 DEF Said, AuthSent
        <3>2. CASE HeadIsSent
            <4>1. \/ pc' = "send" /\ UNCHANGED curr_state
                  \/ pc' = "epoll" /\ then # "exit" /\ curr_state' = then
                  \/ pc' = "exited" /\ UNCHANGED curr_state
                BY <1>1, <2>1, <3>2, HeadSent
            <4>2. CASE pc' = "send" /\ UNCHANGED curr_state
                BY <2>2, <3>1, <4>2 DEF SessionState, AuthSent, Finished
            <4>3. CASE pc' = "exited" /\ UNCHANGED curr_state
                BY <1>3, <2>2, <3>1, <4>3 DEF Finished, Session!Next
            <4>4. CASE pc' = "epoll" /\ then # "exit" /\ curr_state' = then
                <5>1. ~Finished' /\ curr_state # "END"
                    BY <2>3, <4>4 DEF Finished
                <5>2. CASE then = "END"
                    BY <1>3, <2>2, <3>1, <4>4, <5>2 DEF Session!Next
                <5>3. CASE then = curr_state
                    BY <2>2, <3>1, <4>4, <5>1, <5>3 DEF SessionState, AuthSent
                <5>4. CASE then = "OPEN" /\ curr_state = "START"
                    <6>1. AuthSent
                        BY <2>3, <5>4 DEF LoggedIn, ServerGot, AuthSent
                    <6>2. SessionState = "asked" /\ SessionState' = "in"
                        BY <2>2, <4>4, <5>1, <5>4, <6>1 DEF SessionState, AuthSent
                    <6> QED
                        BY <3>1, <6>2 DEF Session!Accept, Session!Next
                <5> QED
                    BY <1>1, <2>3, <4>4, <5>1, <5>2, <5>3, <5>4 DEF Types
            <4> QED
                BY <4>1, <4>2, <4>3, <4>4
        <3>3. CASE ~HeadIsSent
            <4>1. UNCHANGED curr_state
                BY <2>1, <3>3
            <4>2. CASE Finished'
                BY <1>3, <2>2, <3>1, <4>2 DEF Session!Next
            <4>3. CASE ~Finished'
                BY <2>2, <3>1, <4>1, <4>3 DEF SessionState, AuthSent
            <4> QED
                BY <4>2, <4>3
        <3> QED
            BY <3>2, <3>3
    <2> QED
        BY <2>4, <2>5
\* A handler that ends at once or begins to send.
<1>5. ASSUME pc = "epoll", UNCHANGED toServer, NEW s \in {curr_state, "END"}, Done(s)
      PROVE  [Session!Next]_(Session!sessionVars)
    <2>1. curr_state' = s /\ UNCHANGED pc
        BY <1>5 DEF Done, sending
    <2>2. CASE s = "END"
        BY <1>1, <1>3, <1>5, <2>1, <2>2 DEF Finished, Session!Next
    <2>3. CASE s = curr_state
        BY <1>2, <1>5, <2>1, <2>3
    <2> QED
        BY <1>5, <2>2, <2>3
<1>6. ASSUME pc = "epoll", pc' = "send", UNCHANGED <<curr_state, toServer>>
      PROVE  UNCHANGED Session!sessionVars
    BY <1>1, <1>6 DEF SessionState, Finished
<1>7. ASSUME NEW c \in Commands, StdinLine(c)
      PROVE  [Session!Next]_(Session!sessionVars)
    <2>1. pc = "epoll" /\ UNCHANGED toServer
        BY <1>7 DEF StdinLine, Handling
    <2>2. CASE pc' = "crashed" /\ UNCHANGED curr_state
        BY <1>1, <1>3, <2>1, <2>2 DEF Finished, Session!Next
    <2>3. CASE Done(curr_state)
        BY <1>5, <2>1, <2>3
    <2>4. ASSUME NEW ds, SendAll(ds, curr_state) PROVE UNCHANGED Session!sessionVars
        BY <1>6, <2>1, <2>4 DEF SendAll
    <2> QED
        BY <1>1, <1>7, <2>2, <2>3, <2>4, LineOutcome
<1>8. CASE SocketDatagram
    <2>1. pc = "epoll" /\ UNCHANGED toServer
        BY <1>8 DEF SocketDatagram, Handling
    <2>2. (\E s \in {curr_state, "END"} : Done(s)) \/ \E ds, s : SendAll(ds, s)
        BY <1>1, <1>8, DatagramOutcome, Zenon
    <2>3. ASSUME NEW ds, NEW s, SendAll(ds, s) PROVE UNCHANGED Session!sessionVars
        BY <1>6, <2>1, <2>3 DEF SendAll
    <2> QED
        BY <1>5, <2>1, <2>2, <2>3
<1>9. CASE SocketTimeout \/ StdinEof
    BY <1>5, <1>9 DEF SocketTimeout, StdinEof, Handling
<1>10. CASE Closing
    BY <1>6, <1>10 DEF Closing, client
<1>11. CASE EpollWait \/ Interrupt \/ InterruptHandler
    BY <1>2, <1>11 DEF EpollWait, Interrupt, InterruptHandler, sending
<1>12. CASE ServerReceives \/ (\E type \in ServerTypes : ServerSends(type)) \/ UNCHANGED vars
    BY <1>2, <1>12 DEF ServerReceives, ServerSends, vars, client, sending
<1> QED
    BY <1>4, <1>7, <1>8, <1>9, <1>10, <1>11, <1>12, Zenon DEF Next, ClientNext

\* fsm_udp implements the session of ChatSession: logged in only by an answer to
\* an AUTH that was sent, talking only while logged in and one message at a time,
\* retransmissions adding nothing, and silent after the end.
THEOREM Refinement == Spec => SessionSpec
<1>1. Init => Session!Init
    BY DEF Init, SessionState, Finished, Said, Session!Init
<1>2. ASSUME IInv, [Next]_vars PROVE [Session!Next]_(Session!sessionVars)
    BY <1>2, StepRefines
<1> QED
    BY <1>1, <1>2, Invariance, PTL DEF Spec, SessionSpec, Session!Spec

----------------------------------------------------------------------------
(* MessageIDs *)

LEMMA TypesImplyTypeOK == Flags /\ Types => TypeOK
BY Zenon DEF Flags, Types, Blocked, TypeOK

\* The request that is being sent is one of AllRequests already.
LEMMA UdpSendIds ==
    ASSUME IInv, LinesLeft, IdsUsed,
           Transmit \/ GiveUp \/ RecvTimeout \/ RecvInSend \/ RecvInterrupted
    PROVE  LinesLeft' /\ IdsUsed'
<1>1. /\ Types /\ Types'
      /\ Blocked /\ UNCHANGED <<then, message_id, lines>>
      /\ toServer' \in {toServer, toServer \cup {Head(out)}}
      /\ Head(out) = out[1] /\ 1 \in DOMAIN out
      /\ HeadIsSent \/ UNCHANGED <<out, curr_state, events>>
    BY UdpSendTypes DEF IInv
<1>2. \A i \in DOMAIN out' : \E k \in DOMAIN out : out'[i] = out[k]
    BY <1>1, HeadSent
<1>3. AllRequests' \subseteq AllRequests
    BY <1>1, <1>2 DEF AllRequests
<1>4. IdsUsed'
    BY <1>1, <1>3 DEF IdsUsed
<1>5. LinesLeft'
    <2>1. CASE HeadIsSent
        <3>1. /\ \/ pc' = "send" /\ UNCHANGED events
                 \/ pc' = "epoll" /\ then # "exit" /\ events' = Tail(events)
                 \/ pc' = "exited" /\ UNCHANGED events
            BY <1>1, <2>1, HeadSent
        <3>2. events \in Batches /\ (events # <<>> \/ then = "exit")
            BY <1>1 DEF Types
        <3>3. CASE pc' = "epoll" /\ then # "exit" /\ events' = Tail(events)
            <4>1. CASE events = <<"sock", "stdin">>
                BY <1>1, <3>3, <4>1 DEF LinesLeft, Blocked
            <4>2. CASE events # <<"sock", "stdin">>
                <5>1. \A i \in DOMAIN events' : events'[i] # "stdin"
                    BY <3>2, <3>3, <4>2, BatchTail
                <5> QED
                    BY <1>1, <3>3, <5>1 DEF LinesLeft, Blocked
            <4> QED
                BY <4>1, <4>2
        <3> QED
            BY <1>1, <3>1, <3>3 DEF LinesLeft, Blocked
    <2>2. CASE ~HeadIsSent
        <3>1. pc' \in {"send", "recv", "failed"}
            BY <2>2 DEF Transmit, GiveUp, RecvTimeout, RecvInSend, RecvInterrupted
        <3> QED
            BY <1>1, <2>2, <3>1 DEF LinesLeft, Blocked
    <2> QED
        BY <2>1, <2>2
<1> QED
    BY <1>4, <1>5

LEMMA NoNewIds ==
    ASSUME IdsUsed, AllRequests' \subseteq AllRequests, UNCHANGED message_id,
           Types, lines' \in {lines, lines + 1}
    PROVE  IdsUsed'
<1>1. lines \in Nat /\ message_id \in Nat /\ Ids \in Nat
    BY IdsType DEF Types
<1> QED
    BY <1>1 DEF IdsUsed

LEMMA BatchHead ==
    ASSUME NEW b \in Batches, b # <<>>
    PROVE  /\ Head(b) = b[1] /\ 1 \in DOMAIN b
           /\ Head(b) = "stdin" => b # <<"sock", "stdin">>
BY DEF Batches

\* A line is read only while there are lines left, so that its MessageID is new.
LEMMA LineIds ==
    ASSUME IInv, LinesLeft, IdsUsed, MaxLines <= Ids,
           StdinEof \/ \E c \in Commands : StdinLine(c)
    PROVE  LinesLeft' /\ IdsUsed'
<1>1. /\ Types /\ Types' /\ lines' = lines + 1 /\ UNCHANGED toServer
      /\ pc = "epoll" /\ events # <<>> /\ Head(events) = "stdin"
    BY LineStep DEF IInv, StdinEof, StdinLine, Handling
<1>2. /\ events \in Batches /\ lines \in Nat /\ message_id \in 0..(Ids - 1)
      /\ out \in Seq(ToServer) /\ toServer \subseteq ToServer
    BY <1>1 DEF Types
<1>3. events # <<"sock", "stdin">> /\ 1 \in DOMAIN events /\ events[1] = "stdin"
    BY <1>1, <1>2, BatchHead
<1>4. lines < MaxLines /\ MaxLines \in Nat
    BY <1>1, <1>3, BoundsAssumption DEF LinesLeft
<1>5. ASSUME NEW s, Done(s), UNCHANGED message_id PROVE LinesLeft' /\ IdsUsed'
    <2>1. events' = Tail(events) /\ UNCHANGED <<pc, out>>
        BY <1>5 DEF Done, sending
    <2>2. \A i \in DOMAIN events' : events'[i] # "stdin"
        BY <1>1, <1>2, <1>3, <2>1, BatchTail
    <2>3. LinesLeft'
        BY <1>1, <1>2, <1>4, <2>1, <2>2 DEF LinesLeft, Blocked
    <2>4. AllRequests' = AllRequests
        BY <1>1, <2>1 DEF AllRequests
    <2> QED
        BY <1>1, <1>5, <2>3, <2>4, NoNewIds
<1>6. ASSUME NEW c \in Commands, StdinLine(c) PROVE LinesLeft' /\ IdsUsed'
    <2>1. CASE /\ pc' = "crashed" /\ UNCHANGED <<events, out, message_id>>
        <3>1. LinesLeft'
            BY <1>1, <1>2, <1>4, <2>1 DEF LinesLeft, Blocked
        <3>2. AllRequests' = AllRequests
            BY <1>1, <2>1 DEF AllRequests
        <3> QED
            BY <1>1, <2>1, <3>1, <3>2, NoNewIds
    <2>2. CASE Done(curr_state) /\ UNCHANGED message_id
        BY <1>5, <2>2
    <2>3. ASSUME NEW type \in Requests,
                 SendAll(<<Datagram(type, message_id)>>, curr_state), IncrementMessageId
          PROVE  LinesLeft' /\ IdsUsed'
        <3> DEFINE d == Datagram(type, message_id)
        <3>1. d \in ToServer /\ d.id = message_id
            BY <1>2, DatagramFields, IdsType DEF ClientTypes, Requests
        <3> HIDE DEF d, ToServer
        <3>2. pc' = "send" /\ out' = <<d>> /\ UNCHANGED events
            BY <2>3 DEF SendAll, d
        <3>3. LinesLeft'
            BY <1>1, <1>2, <1>3, <1>4, <3>2 DEF LinesLeft, Blocked
        <3>4. AllRequests' \subseteq AllRequests \cup {d}
            <4>1. \A i \in DOMAIN out' : out'[i] = d
                BY <3>1, <3>2, BatchOfDatagrams
            <4> QED
                BY <1>1, <4>1 DEF AllRequests
        <3>5. message_id <= lines /\ \A e \in AllRequests : e.id < message_id
            BY <1>2, <1>4, IdsType DEF IdsUsed
        <3>6. AllRequests \subseteq ToServer
            BY <1>2 DEF AllRequests
        <3>7. \A e \in AllRequests : e.id \in Nat
            BY <3>6 DEF ToServer
        <3>8. message_id' = IF message_id = Ids - 1 THEN 0 ELSE message_id + 1
            BY <1>2, <2>3, NextMessageId
        <3>9. \A e, f \in AllRequests' : e.id = f.id => e = f
            BY <1>2, <3>1, <3>4, <3>5, <3>7 DEF IdsUsed
        <3>10. \/ message_id' <= lines' /\ \A e \in AllRequests' : e.id < message_id'
               \/ lines' >= Ids
            BY <1>1, <1>2, <3>1, <3>4, <3>5, <3>7, <3>8, IdsType
        <3> QED
            BY <3>3, <3>9, <3>10 DEF IdsUsed
    <2> QED
        BY <1>1, <1>6, <2>1, <2>2, <2>3, LineOutcome
<1>7. CASE StdinEof
    BY <1>5, <1>7 DEF StdinEof
<1> QED
    BY <1>6, <1>7

LEMMA OtherIds ==
    ASSUME IInv, LinesLeft, IdsUsed,
           \/ EpollWait \/ Interrupt \/ InterruptHandler \/ Closing
           \/ SocketDatagram \/ SocketTimeout
           \/ ServerReceives \/ \E type \in ServerTypes : ServerSends(type)
           \/ UNCHANGED vars
    PROVE  LinesLeft' /\ IdsUsed'
<1>1. /\ Types /\ UNCHANGED <<lines, message_id, toServer>> /\ lines \in Nat
      /\ events \in Batches /\ lines <= MaxLines
    BY DEF IInv, Types, LinesLeft, EpollWait, Interrupt, InterruptHandler, Closing, SocketDatagram,
       SocketTimeout, ServerReceives, ServerSends, vars, client
<1>2. ASSUME AllRequests' \subseteq AllRequests PROVE IdsUsed'
    BY <1>1, <1>2, NoNewIds
<1>3. ASSUME UNCHANGED out PROVE AllRequests' \subseteq AllRequests
    BY <1>1, <1>3 DEF AllRequests
<1>4. ASSUME UNCHANGED <<pc, out, events>> PROVE LinesLeft' /\ IdsUsed'
    <2>1. LinesLeft'
        BY <1>1, <1>4 DEF LinesLeft, Blocked
    <2> QED
        BY <1>2, <1>3, <1>4, <2>1
<1>5. CASE EpollWait
    <2>1. /\ pc = "epoll" /\ UNCHANGED <<pc, out>>
          /\ events' \in {<<"stdin">>, <<"sock">>, <<"stdin", "sock">>, <<"sock", "stdin">>}
          /\ events' # <<"sock">> => lines < MaxLines
        BY <1>5, Zenon DEF EpollWait, sending
    <2>2. \A i \in DOMAIN <<"sock">> : <<"sock">>[i] # "stdin"
        OBVIOUS
    <2>3. LinesLeft'
        BY <1>1, <2>1, <2>2 DEF LinesLeft, Blocked
    <2> QED
        BY <1>2, <1>3, <2>1, <2>3
<1>6. CASE Closing
    <2> DEFINE b == Datagram("BYE", message_id)
    <2>1. pc' = "send" /\ out' = <<b>> /\ UNCHANGED events /\ events = <<>>
        BY <1>6, Zenon DEF Closing, client
    <2>2. b \in ToServer /\ b.type = "BYE"
        BY <1>1, DatagramFields, IdsType DEF Types, ClientTypes
    <2> HIDE DEF b, ToServer
    <2>3. \A i \in DOMAIN out' : out'[i].type = "BYE"
        BY <2>1, <2>2, BatchOfDatagrams
    <2>4. AllRequests' \subseteq AllRequests
        BY <1>1, <2>3 DEF AllRequests, Requests
    <2>5. LinesLeft'
        <3>1. <<>> # <<"sock", "stdin">>
            OBVIOUS
        <3> QED
            BY <1>1, <2>1, <3>1 DEF LinesLeft, Blocked
    <2> QED
        BY <1>2, <2>4, <2>5
<1>7. ASSUME pc = "epoll", events # <<>>, NEW s, Done(s) PROVE LinesLeft' /\ IdsUsed'
    <2>1. events' = Tail(events) /\ UNCHANGED <<pc, out>>
        BY <1>7 DEF Done, sending
    <2>2. CASE events = <<"sock", "stdin">>
        <3>1. \E i \in DOMAIN <<"sock", "stdin">> : <<"sock", "stdin">>[i] = "stdin"
            <4> WITNESS 2 \in DOMAIN <<"sock", "stdin">>
            <4> QED
                OBVIOUS
        <3>2. lines < MaxLines
            BY <1>7, <2>2, <3>1 DEF LinesLeft
        <3> QED
            BY <1>1, <1>2, <1>3, <1>7, <2>1, <3>2 DEF LinesLeft, Blocked
    <2>3. CASE events # <<"sock", "stdin">>
        <3>1. \A i \in DOMAIN events' : events'[i] # "stdin"
            BY <1>1, <1>7, <2>1, <2>3, BatchTail
        <3>2. LinesLeft'
            BY <1>1, <1>7, <2>1, <3>1 DEF LinesLeft, Blocked
        <3> QED
            BY <1>2, <1>3, <2>1, <3>2
    <2> QED
        BY <2>2, <2>3
<1>8. ASSUME pc = "epoll", NEW ds, NEW s, SendAll(ds, s), Fit(ds) PROVE LinesLeft' /\ IdsUsed'
    <2>1. pc' = "send" /\ out' = ds /\ UNCHANGED events
        BY <1>8 DEF SendAll
    <2>2. AllRequests' \subseteq AllRequests
        BY <1>1, <1>8, <2>1 DEF AllRequests, Fit, Requests
    <2>3. CASE events = <<"sock", "stdin">>
        <3>1. \E i \in DOMAIN <<"sock", "stdin">> : <<"sock", "stdin">>[i] = "stdin"
            <4> WITNESS 2 \in DOMAIN <<"sock", "stdin">>
            <4> QED
                OBVIOUS
        <3>2. lines < MaxLines
            BY <1>8, <2>3, <3>1 DEF LinesLeft
        <3> QED
            BY <1>1, <1>2, <2>1, <2>2, <3>2 DEF LinesLeft, Blocked
    <2>4. CASE events # <<"sock", "stdin">>
        BY <1>1, <1>2, <2>1, <2>2, <2>4 DEF LinesLeft, Blocked
    <2> QED
        BY <2>3, <2>4
<1>9. CASE SocketDatagram \/ SocketTimeout
    <2>1. pc = "epoll" /\ events # <<>>
        BY <1>9 DEF SocketDatagram, SocketTimeout, Handling
    <2>2. (\E s : Done(s)) \/ \E ds, s : SendAll(ds, s) /\ Fit(ds)
        BY <1>1, <1>9, DatagramOutcome, Zenon DEF SocketTimeout
    <2> QED
        BY <1>7, <1>8, <2>1, <2>2
<1>10. CASE Interrupt \/ InterruptHandler \/ ServerReceives
            \/ (\E type \in ServerTypes : ServerSends(type)) \/ UNCHANGED vars
    <2>1. UNCHANGED <<pc, out, events>>
        BY <1>10 DEF Interrupt, InterruptHandler, ServerReceives, ServerSends, vars, client, sending
    <2> QED
        BY <1>4, <2>1
<1> QED
    BY <1>5, <1>6, <1>9, <1>10, Zenon

\* Different requests of the user carry different MessageIDs, and the process
\* stays within its types, for as many lines as there are MessageIDs: with the
\* line after that increment_message_id is back at 0 and repeats itself.
THEOREM DistinctIdsTheorem == ASSUME MaxLines <= Ids PROVE Spec => []UserIdsDistinct
<1>1. Init => LinesLeft /\ IdsUsed
    <2> SUFFICES ASSUME Init PROVE LinesLeft /\ IdsUsed
        OBVIOUS
    <2>1. lines = 0 /\ message_id = 0 /\ out = <<>> /\ toServer = {} /\ events = <<>> /\ pc = "epoll"
        BY Zenon DEF Init
    <2>2. AllRequests = {}
        BY <2>1 DEF AllRequests
    <2> QED
        BY <2>1, <2>2, BoundsAssumption DEF LinesLeft, IdsUsed, Blocked
<1>2. IInv /\ LinesLeft /\ IdsUsed /\ [Next]_vars => (LinesLeft /\ IdsUsed)'
    BY UdpSendIds, LineIds, OtherIds, Zenon DEF Next, ClientNext
<1>3. IInv /\ LinesLeft /\ IdsUsed => UserIdsDistinct
    BY TypesImplyTypeOK DEF IInv, IdsUsed, AllRequests, UserIdsDistinct
<1> QED
    BY <1>1, <1>2, <1>3, Invariance, PTL DEF Spec

----------------------------------------------------------------------------
(* Handlers end: what the client has still to do. *)

\* Transmissions and waits of one udp_send, and of the at most three that an
\* event leads to.
PerDatagram == 2 * Retransmissions + 2
PerEvent == 3 * PerDatagram + 1

\* Events whose handler was not called yet. The BYE of the end is no event's.
Pending == IF Blocked /\ then # "exit" THEN Len(events) - 1 ELSE Len(events)

\* Steps left of the call of udp_send that blocks.
InCall == 2 * (Retransmissions - attempt) + (IF pc = "recv" THEN 2 ELSE 1)

ToSend == IF Blocked THEN (Len(out) - 1) * PerDatagram + InCall ELSE 0

WorkLeft == IF Finished THEN 0 ELSE Pending * PerEvent + ToSend

\* A handler sends at most three datagrams, and the BYE of the end is sent when
\* no event is left.
Short == Blocked => Len(out) \in 1..3 /\ (then = "exit" <=> events = <<>>)

\* There is work as long as a handler runs or an event waits for one, and no more
\* than two events make.
WorkBounded ==
    /\ WorkLeft \in 0..(2 * PerEvent)
    /\ WorkLeft > 0 <=> ~Finished /\ (Blocked \/ events # <<>>)

\* Nothing that happens to the client meanwhile, whatever the network and the
\* user do, gives it more to do, and every step of its own leaves it less.
WorkDone ==
    WorkLeft > 0 => \/ WorkLeft' < WorkLeft
                    \/ WorkLeft' = WorkLeft /\ ~ClientNext

HandlersAdvance == []WorkBounded /\ [][WorkDone]_vars

LEMMA BatchLength ==
    ASSUME NEW b \in Batches
    PROVE  /\ Len(b) \in 0..2 /\ (b = <<>> <=> Len(b) = 0)
           /\ b # <<>> => Len(Tail(b)) = Len(b) - 1
<1>1. CASE b = <<>>
    BY <1>1
<1>2. CASE b = <<"stdin">>
    BY <1>2
<1>3. CASE b = <<"sock">>
    BY <1>3
<1>4. CASE b = <<"stdin", "sock">>
    BY <1>4
<1>5. CASE b = <<"sock", "stdin">>
    BY <1>5
<1> QED
    BY <1>1, <1>2, <1>3, <1>4, <1>5, Zenon DEF Batches

LEMMA WorkUnits ==
    /\ PerDatagram \in Nat /\ PerDatagram = 2 * Retransmissions + 2
    /\ PerEvent \in Nat /\ PerEvent = PerDatagram + PerDatagram + PerDatagram + 1
<1>1. Retransmissions \in Nat
    BY RetransmissionsAssumption
<1>2. PerDatagram \in Nat /\ PerDatagram = 2 * Retransmissions + 2
    BY <1>1 DEF PerDatagram
<1> HIDE DEF PerDatagram
<1> QED
    BY <1>2 DEF PerEvent

LEMMA Multiples ==
    ASSUME NEW n \in 0..2, NEW p \in Nat
    PROVE  /\ n * p \in Nat
           /\ n = 0 => n * p = 0
           /\ n = 1 => n * p = p
           /\ n = 2 => n * p = p + p
           /\ n # 0 => n * p = (n - 1) * p + p
<1>1. n = 0 \/ n = 1 \/ n = 2
    OBVIOUS
<1>2. 0 * p = 0 /\ 1 * p = p /\ 2 * p = p + p
    OBVIOUS
<1> QED
    BY <1>1, <1>2

\* One call of udp_send.
LEMMA CallIsShort == ASSUME Types PROVE InCall \in 1..PerDatagram
<1>1. attempt \in 0..Retransmissions
    BY DEF Types
<1> QED
    BY <1>1, RetransmissionsAssumption DEF InCall, PerDatagram

\* The two kinds of work, of a client in any state.
LEMMA WorkIs ==
    ASSUME Types, Short
    PROVE  /\ Finished => WorkLeft = 0
           /\ pc = "epoll" => WorkLeft = Len(events) * PerEvent
           /\ Blocked => /\ ~Finished
                         /\ Pending \in 0..1 /\ Len(out) - 1 \in 0..2
                         /\ WorkLeft = Pending * PerEvent + ((Len(out) - 1) * PerDatagram + InCall)
           /\ Finished \/ pc = "epoll" \/ Blocked
<1>1. /\ Finished \/ pc = "epoll" \/ Blocked
      /\ Blocked => ~Finished
      /\ pc = "epoll" => ~Finished /\ ~Blocked
    BY DEF Types, Finished, Blocked
<1>2. Len(events) \in 0..2 /\ (events = <<>> <=> Len(events) = 0)
    BY BatchLength DEF Types
<1>3. ASSUME Blocked PROVE Pending \in 0..1 /\ Len(out) - 1 \in 0..2
    <2>1. Len(out) \in 1..3 /\ (then = "exit" <=> events = <<>>)
        BY <1>3 DEF Short
    <2>2. Pending = IF then # "exit" THEN Len(events) - 1 ELSE Len(events)
        BY <1>3 DEF Pending
    <2> QED
        BY <1>2, <2>1, <2>2
<1>4. ASSUME pc = "epoll" PROVE WorkLeft = Len(events) * PerEvent
    <2>1. Pending = Len(events) /\ ToSend = 0
        BY <1>1, <1>4 DEF Pending, ToSend
    <2>2. Len(events) * PerEvent \in Nat
        BY <1>2, WorkUnits, Multiples
    <2> QED
        BY <1>1, <1>4, <2>1, <2>2 DEF WorkLeft
<1>5. Blocked => WorkLeft = Pending * PerEvent + ((Len(out) - 1) * PerDatagram + InCall)
    BY <1>1, Zenon DEF WorkLeft, ToSend
<1>6. Finished => WorkLeft = 0
    BY Zenon DEF WorkLeft
<1> QED
    BY <1>1, <1>3, <1>4, <1>5, <1>6

LEMMA WorkIsBounded == ASSUME Types, Short PROVE WorkBounded
<1>1. Len(events) \in 0..2 /\ (events = <<>> <=> Len(events) = 0)
    BY BatchLength DEF Types
<1>2. InCall \in 1..PerDatagram
    BY CallIsShort
<1>3. 2 * PerEvent = PerEvent + PerEvent /\ PerEvent \in Nat
    BY WorkUnits, Multiples
<1>4. CASE Finished
    <2>1. WorkLeft = 0
        BY <1>4, WorkIs
    <2> HIDE DEF PerEvent, WorkLeft
    <2> QED
        BY <1>3, <1>4, <2>1 DEF WorkBounded
<1>5. CASE pc = "epoll"
    <2>1. WorkLeft = Len(events) * PerEvent /\ ~Finished /\ ~Blocked
        BY <1>5, WorkIs DEF Finished, Blocked
    <2>2. PICK n : n = Len(events)
        OBVIOUS
    <2>3. PICK x : x = n * PerEvent
        OBVIOUS
    <2>4. /\ x \in Nat /\ n \in 0..2
          /\ (n = 0 => x = 0) /\ (n = 1 => x = PerEvent) /\ (n = 2 => x = PerEvent + PerEvent)
        BY <1>1, <2>2, <2>3, WorkUnits, Multiples
    <2>5. WorkLeft = x
        BY <2>1, <2>2, <2>3, Zenon
    <2> HIDE DEF PerEvent, WorkLeft, PerDatagram, Blocked, Finished
    <2>6. x \in 0..(PerEvent + PerEvent) /\ (x > 0 <=> n # 0)
        BY <2>4, WorkUnits
    <2> QED
        BY <1>1, <1>3, <2>1, <2>2, <2>5, <2>6 DEF WorkBounded
<1>6. CASE Blocked
    <2>1. /\ ~Finished
          /\ Pending \in 0..1 /\ Len(out) - 1 \in 0..2
          /\ WorkLeft = Pending * PerEvent + ((Len(out) - 1) * PerDatagram + InCall)
        BY <1>6, WorkIs
    <2>2. PICK x : x = Pending * PerEvent
        OBVIOUS
    <2>3. PICK y : y = (Len(out) - 1) * PerDatagram
        OBVIOUS
    <2>4. x \in 0..PerEvent
        <3>1. PICK n : n = Pending
            OBVIOUS
        <3>2. n \in 0..2 /\ n # 2 /\ x = n * PerEvent
            BY <2>1, <2>2, <3>1
        <3>3. x \in Nat /\ (n = 0 => x = 0) /\ (n = 1 => x = PerEvent)
            BY <3>2, WorkUnits, Multiples
        <3> QED
            BY <3>2, <3>3, WorkUnits
    <2>5. y \in 0..(PerDatagram + PerDatagram)
        <3>1. PICK k : k = Len(out) - 1
            OBVIOUS
        <3>2. k \in 0..2 /\ y = k * PerDatagram
            BY <2>1, <2>3, <3>1
        <3>3. /\ y \in Nat /\ (k = 0 => y = 0) /\ (k = 1 => y = PerDatagram)
              /\ k = 2 => y = PerDatagram + PerDatagram
            BY <3>2, WorkUnits, Multiples
        <3> QED
            BY <3>2, <3>3, WorkUnits
    <2>6. WorkLeft = x + (y + InCall)
        BY <2>1, <2>2, <2>3, Zenon
    <2> HIDE DEF PerEvent, WorkLeft, PerDatagram, InCall, Blocked, Finished
    <2>7. WorkLeft \in 1..(PerEvent + PerEvent)
        BY <1>2, <2>4, <2>5, <2>6, WorkUnits
    <2> QED
        BY <1>3, <1>6, <2>1, <2>7 DEF WorkBounded
<1> QED
    BY <1>4, <1>5, <1>6, WorkIs

----------------------------------------------------------------------------
(* One step: the work *)

\* A step after which there is less to do, and the handler still sends no more
\* than three datagrams.
Advances == Short' /\ WorkLeft' < WorkLeft

\* udp_send ends for one datagram.
LEMMA HeadSentAdvances ==
    ASSUME Types, Short, Types', Blocked, HeadIsSent, UNCHANGED then
    PROVE  Advances
<1>1. /\ out \in Seq(ToServer) /\ out # <<>> /\ events \in Batches
      /\ Len(out) \in 1..3 /\ (then = "exit" <=> events = <<>>)
    BY DEF Types, Short
<1>2. out' = Tail(out) /\ attempt' = 0
    BY DEF HeadIsSent
<1>3. Len(out') = Len(out) - 1 /\ (out' = <<>> <=> Len(out) = 1)
    <2> HIDE DEF ToServer
    <2> QED
        BY <1>1, <1>2, HeadAndTail
<1>4. \/ Len(out) > 1 /\ pc' = "send" /\ UNCHANGED events
      \/ pc' = "epoll" /\ then # "exit" /\ events' = Tail(events)
      \/ pc' = "exited"
    BY DEF HeadIsSent
<1>5. Short'
    BY <1>1, <1>3, <1>4 DEF Short, Blocked
<1>6. /\ Pending \in 0..1 /\ Len(out) - 1 \in 0..2
      /\ WorkLeft = Pending * PerEvent + ((Len(out) - 1) * PerDatagram + InCall)
      /\ InCall \in 1..PerDatagram
    BY WorkIs, CallIsShort
<1>7. PICK x, y, w : /\ x = Pending * PerEvent /\ y = (Len(out) - 1) * PerDatagram
                     /\ w = InCall
    OBVIOUS
<1>8. /\ x \in Nat /\ y \in Nat /\ w \in 1..PerDatagram
      /\ Len(out) - 1 # 0 => y = (Len(out) - 2) * PerDatagram + PerDatagram
    <2>1. PICK n, k : n = Pending /\ k = Len(out) - 1
        OBVIOUS
    <2>2. n \in 0..2 /\ k \in 0..2 /\ x = n * PerEvent /\ y = k * PerDatagram
        BY <1>6, <1>7, <2>1
    <2>3. x \in Nat /\ y \in Nat /\ (k # 0 => y = (k - 1) * PerDatagram + PerDatagram)
        BY <2>2, WorkUnits, Multiples
    <2>4. k - 1 = Len(out) - 2
        BY <1>1, <2>1
    <2> QED
        BY <1>6, <1>7, <2>1, <2>3, <2>4
<1>9. WorkLeft = x + (y + w)
    BY <1>6, <1>7, Zenon
<1>10. CASE Len(out) > 1 /\ pc' = "send" /\ UNCHANGED events
    <2>1. /\ Pending' = Pending /\ Blocked'
        BY <1>10 DEF Pending, Blocked
    <2>2. InCall' = 2 * Retransmissions + 1
        BY <1>2, <1>10, RetransmissionsAssumption DEF InCall
    <2>3. Len(out') - 1 = Len(out) - 2
        BY <1>1, <1>3
    <2>4. WorkLeft' = Pending' * PerEvent' + ((Len(out') - 1) * PerDatagram' + InCall')
        <3>1. ~Finished'
            BY <1>10 DEF Finished
        <3> QED
            BY <2>1, <3>1, Zenon DEF WorkLeft, ToSend
    <2>5. PICK z : z = (Len(out) - 2) * PerDatagram
        OBVIOUS
    <2>6. PerEvent' = PerEvent /\ PerDatagram' = PerDatagram
        BY DEF PerEvent, PerDatagram
    <2>7. WorkLeft' = x + (z + (2 * Retransmissions + 1))
        BY <1>7, <2>1, <2>2, <2>3, <2>4, <2>5, <2>6
    <2>8. z \in Nat /\ y = z + PerDatagram
        <3>1. PICK k : k = Len(out) - 2
            OBVIOUS
        <3>2. k \in 0..2 /\ Len(out) - 1 # 0
            BY <1>1, <1>10, <3>1
        <3>3. k * PerDatagram \in Nat
            BY <3>2, WorkUnits, Multiples
        <3> QED
            BY <1>8, <2>5, <3>1, <3>2, <3>3
    <2> HIDE DEF WorkLeft, PerDatagram, PerEvent
    <2>9. WorkLeft' < WorkLeft
        BY <1>8, <1>9, <2>7, <2>8, WorkUnits, RetransmissionsAssumption
    <2> QED
        BY <1>5, <2>9 DEF Advances
<1>11. CASE pc' = "epoll" /\ then # "exit" /\ events' = Tail(events)
    <2>1. Len(events') = Pending
        BY <1>1, <1>11, BatchLength DEF Pending
    <2>2. WorkLeft' = Len(events') * PerEvent' + 0
        <3>1. ~Finished' /\ ~Blocked'
            BY <1>11 DEF Finished, Blocked
        <3> QED
            BY <3>1, Zenon DEF WorkLeft, ToSend, Pending
    <2>3. PerEvent' = PerEvent
        BY DEF PerEvent, PerDatagram
    <2>4. WorkLeft' = x
        <3>1. WorkLeft' = x + 0
            BY <1>7, <2>1, <2>2, <2>3, Zenon
        <3> QED
            BY <1>8, <3>1
    <2> HIDE DEF WorkLeft, PerDatagram, PerEvent
    <2>5. WorkLeft' < WorkLeft
        BY <1>8, <1>9, <2>4, WorkUnits
    <2> QED
        BY <1>5, <2>5 DEF Advances
<1>12. CASE pc' = "exited"
    <2>1. WorkLeft' = 0
        BY <1>12 DEF WorkLeft, Finished
    <2> HIDE DEF WorkLeft, PerDatagram, PerEvent
    <2>2. WorkLeft' < WorkLeft
        BY <1>8, <1>9, <2>1, WorkUnits
    <2> QED
        BY <1>5, <2>2 DEF Advances
<1> QED
    BY <1>4, <1>10, <1>11, <1>12

\* udp_send goes on with the same datagram: one transmission or one wait less.
LEMMA CallAdvances ==
    ASSUME Types, Short, Types', Blocked, Blocked', UNCHANGED <<out, then, events>>,
           InCall' < InCall
    PROVE  Advances
<1>1. Short'
    BY DEF Short
<1>2. /\ Pending \in 0..1 /\ Len(out) - 1 \in 0..2
      /\ WorkLeft = Pending * PerEvent + ((Len(out) - 1) * PerDatagram + InCall)
      /\ InCall \in 1..PerDatagram
    BY WorkIs, CallIsShort
<1>3. /\ WorkLeft' = Pending' * PerEvent' + ((Len(out') - 1) * PerDatagram' + InCall')
      /\ InCall' \in 1..PerDatagram'
    <2>1. ~Finished'
        BY DEF Finished, Blocked
    <2>2. WorkLeft' = Pending' * PerEvent' + ((Len(out') - 1) * PerDatagram' + InCall')
        BY <2>1, Zenon DEF WorkLeft, ToSend
    <2>3. attempt' \in 0..Retransmissions
        BY DEF Types
    <2>4. InCall' \in 1..PerDatagram'
        <3>1. PICK a : a = attempt'
            OBVIOUS
        <3>2. \/ InCall' = 2 * (Retransmissions - a) + 2
              \/ InCall' = 2 * (Retransmissions - a) + 1
            BY <3>1, Zenon DEF InCall
        <3>3. a \in 0..Retransmissions /\ PerDatagram' = 2 * Retransmissions + 2
            BY <2>3, <3>1 DEF PerDatagram
        <3> QED
            BY <3>2, <3>3, RetransmissionsAssumption
    <2> QED
        BY <2>2, <2>4
<1>4. Pending' = Pending /\ PerEvent' = PerEvent /\ PerDatagram' = PerDatagram
    BY DEF Pending, PerEvent, PerDatagram
<1>5. PICK x, y : x = Pending * PerEvent /\ y = (Len(out) - 1) * PerDatagram
    OBVIOUS
<1>6. x \in Nat /\ y \in Nat
    <2>1. PICK n, k : n = Pending /\ k = Len(out) - 1
        OBVIOUS
    <2>2. n \in 0..2 /\ k \in 0..2 /\ x = n * PerEvent /\ y = k * PerDatagram
        BY <1>2, <1>5, <2>1
    <2> QED
        BY <2>2, WorkUnits, Multiples
<1>7. WorkLeft = x + (y + InCall) /\ WorkLeft' = x + (y + InCall')
    BY <1>2, <1>3, <1>4, <1>5
<1>8. PICK v, w : v = InCall /\ w = InCall'
    OBVIOUS
<1>9. v \in 1..PerDatagram /\ w \in 1..PerDatagram /\ w < v
    BY <1>2, <1>3, <1>4, <1>8, Zenon
<1>10. WorkLeft = x + (y + v) /\ WorkLeft' = x + (y + w)
    BY <1>7, <1>8, Zenon
<1> HIDE DEF WorkLeft, PerDatagram, PerEvent, InCall
<1>11. WorkLeft' < WorkLeft
    BY <1>6, <1>9, <1>10, WorkUnits
<1> QED
    BY <1>1, <1>11 DEF Advances

LEMMA UdpSendAdvances ==
    ASSUME IInv, Short, Transmit \/ GiveUp \/ RecvTimeout \/ RecvInSend \/ RecvInterrupted
    PROVE  Advances
<1>1. Types /\ Types' /\ Blocked /\ UNCHANGED then /\ (HeadIsSent \/ UNCHANGED <<out, events>>)
    BY UdpSendTypes DEF IInv
<1>2. CASE HeadIsSent
    BY <1>1, <1>2, HeadSentAdvances
<1>3. CASE ~HeadIsSent
    <2>1. UNCHANGED <<out, events>>
        BY <1>1, <1>3
    <2>2. CASE GiveUp
        <3>1. pc' = "failed"
            BY <2>2 DEF GiveUp
        <3>2. WorkLeft' = 0 /\ Short'
            BY <3>1 DEF WorkLeft, Finished, Short, Blocked
        <3>3. WorkLeft \in Nat /\ WorkLeft > 0
            <4>1. WorkBounded
                BY <1>1, WorkIsBounded
            <4>2. ~Finished
                BY <1>1 DEF Finished, Blocked
            <4> HIDE DEF WorkLeft, PerEvent
            <4> QED
                BY <1>1, <4>1, <4>2 DEF WorkBounded
        <3> QED
            BY <3>2, <3>3 DEF Advances
    <2>3. CASE Transmit
        <3>1. /\ pc = "send" /\ pc' = "recv" /\ attempt' = attempt + 1
              /\ attempt \in 0..Retransmissions
            BY <1>1, <1>3, <2>3 DEF Transmit, Types
        <3>2. InCall' < InCall /\ Blocked'
            BY <3>1, RetransmissionsAssumption DEF InCall, Blocked
        <3> QED
            BY <1>1, <2>1, <3>2, CallAdvances
    <2>4. CASE RecvTimeout \/ RecvInSend \/ RecvInterrupted
        <3>1. pc = "recv" /\ pc' = "send" /\ UNCHANGED attempt /\ attempt \in 0..Retransmissions
            BY <1>1, <1>3, <2>4 DEF RecvTimeout, RecvInSend, RecvInterrupted, Types
        <3>2. InCall' < InCall /\ Blocked'
            BY <3>1, RetransmissionsAssumption DEF InCall, Blocked
        <3> QED
            BY <1>1, <2>1, <3>2, CallAdvances
    <2> QED
        BY <2>2, <2>3, <2>4
<1> QED
    BY <1>2, <1>3

\* A handler that ends without sending anything: one event less.
LEMMA DoneAdvances ==
    ASSUME Types, Short, pc = "epoll", events # <<>>, NEW s, Done(s)
    PROVE  Advances
<1>1. events' = Tail(events) /\ UNCHANGED <<pc, out, then>>
    BY DEF Done, sending
<1>2. Short'
    BY <1>1 DEF Short, Blocked
<1>3. Len(events) \in 0..2 /\ Len(events) # 0 /\ Len(events') = Len(events) - 1
    BY <1>1, BatchLength DEF Types
<1>4. WorkLeft = Len(events) * PerEvent
    BY WorkIs
<1>5. WorkLeft' = Len(events') * PerEvent' + 0
    <2>1. ~Finished' /\ ~Blocked'
        BY <1>1 DEF Finished, Blocked
    <2> QED
        BY <2>1, Zenon DEF WorkLeft, ToSend, Pending
<1>6. PerEvent' = PerEvent
    BY DEF PerEvent, PerDatagram
<1>7. PICK n, x : n = Len(events) - 1 /\ x = n * PerEvent
    OBVIOUS
<1>8. x \in Nat /\ WorkLeft = x + PerEvent
    <2>1. PICK k : k = Len(events)
        OBVIOUS
    <2>2. k \in 0..2 /\ k # 0 /\ n = k - 1 /\ n \in 0..2
        BY <1>3, <1>7, <2>1
    <2>3. k * PerEvent = (k - 1) * PerEvent + PerEvent /\ x \in Nat
        BY <1>7, <2>2, WorkUnits, Multiples
    <2> QED
        BY <1>4, <1>7, <2>1, <2>2, <2>3
<1>9. WorkLeft' = x + 0
    BY <1>3, <1>5, <1>6, <1>7, Zenon
<1> HIDE DEF WorkLeft, PerDatagram, PerEvent
<1>10. WorkLeft' < WorkLeft
    BY <1>8, <1>9, WorkUnits
<1> QED
    BY <1>2, <1>10 DEF Advances

\* A handler that begins to send: its event is exchanged for at most three calls
\* of udp_send.
LEMMA SendAllAdvances ==
    ASSUME Types, Short, pc = "epoll", events # <<>>,
           NEW ds, NEW s, SendAll(ds, s), s # "exit", Len(ds) \in 1..3
    PROVE  Advances
<1>1. pc' = "send" /\ out' = ds /\ then' = s /\ UNCHANGED <<events, attempt>>
    BY DEF SendAll
<1>2. Short'
    BY <1>1 DEF Short, Blocked
<1>3. Len(events) \in 0..2 /\ Len(events) # 0
    BY BatchLength DEF Types
<1>4. WorkLeft = Len(events) * PerEvent
    BY WorkIs
<1>5. WorkLeft' = (Len(events) - 1) * PerEvent' + ((Len(ds) - 1) * PerDatagram' + InCall')
    <2>1. ~Finished' /\ Blocked'
        BY <1>1 DEF Finished, Blocked
    <2> QED
        BY <1>1, <2>1, Zenon DEF WorkLeft, ToSend, Pending
<1>6. PerEvent' = PerEvent /\ PerDatagram' = PerDatagram
    BY DEF PerEvent, PerDatagram
<1>7. PICK n, k, x, y, w : /\ n = Len(events) - 1 /\ x = n * PerEvent
                           /\ k = Len(ds) - 1 /\ y = k * PerDatagram /\ w = InCall'
    OBVIOUS
<1>8. WorkLeft' = x + (y + w)
    BY <1>5, <1>6, <1>7, Zenon
<1>9. x \in Nat /\ WorkLeft = x + PerEvent
    <2>1. PICK m : m = Len(events)
        OBVIOUS
    <2>2. m \in 0..2 /\ m # 0 /\ n = m - 1 /\ n \in 0..2
        BY <1>3, <1>7, <2>1
    <2>3. m * PerEvent = (m - 1) * PerEvent + PerEvent /\ x \in Nat
        BY <1>7, <2>2, WorkUnits, Multiples
    <2> QED
        BY <1>4, <1>7, <2>1, <2>2, <2>3
<1>10. y \in 0..(PerDatagram + PerDatagram)
    <2>1. k \in 0..2
        BY <1>7
    <2>2. /\ y \in Nat /\ (k = 0 => y = 0) /\ (k = 1 => y = PerDatagram)
          /\ k = 2 => y = PerDatagram + PerDatagram
        BY <1>7, <2>1, WorkUnits, Multiples
    <2> QED
        BY <2>1, <2>2, WorkUnits
<1>11. w \in 1..PerDatagram
    <2>1. attempt \in 0..Retransmissions
        BY DEF Types
    <2>2. InCall' \in 1..PerDatagram
        BY <1>1, <2>1, RetransmissionsAssumption DEF InCall, PerDatagram
    <2> QED
        BY <1>7, <2>2
<1> HIDE DEF WorkLeft, PerDatagram, PerEvent, InCall
<1>12. WorkLeft' < WorkLeft
    BY <1>8, <1>9, <1>10, <1>11, WorkUnits
<1> QED
    BY <1>2, <1>12 DEF Advances

LEMMA LineAdvances ==
    ASSUME IInv, Short, NEW c \in Commands, StdinLine(c)
    PROVE  Advances
<1>1. Types /\ pc = "epoll" /\ events # <<>>
    BY LineOutcome DEF IInv, Handling
<1>2. \/ pc' = "crashed"
      \/ Done(curr_state)
      \/ \E type \in Requests : SendAll(<<Datagram(type, message_id)>>, curr_state)
    BY <1>1, LineOutcome, Zenon
<1>3. CASE pc' = "crashed"
    <2>1. WorkLeft' = 0 /\ Short'
        BY <1>3 DEF WorkLeft, Finished, Short, Blocked
    <2>2. WorkBounded /\ ~Finished
        BY <1>1, WorkIsBounded DEF Finished
    <2> HIDE DEF WorkLeft, PerEvent
    <2>3. WorkLeft \in Nat /\ WorkLeft > 0
        BY <1>1, <2>2 DEF WorkBounded
    <2> QED
        BY <2>1, <2>3 DEF Advances
<1>4. CASE Done(curr_state)
    BY <1>1, <1>4, DoneAdvances
<1>5. ASSUME NEW type \in Requests, SendAll(<<Datagram(type, message_id)>>, curr_state)
      PROVE  Advances
    <2>1. curr_state # "exit"
        BY <1>1 DEF Types
    <2>2. PICK d : d = Datagram(type, message_id)
        OBVIOUS
    <2>3. Len(<<d>>) \in 1..3 /\ SendAll(<<d>>, curr_state)
        BY <1>5, <2>2
    <2> QED
        BY <1>1, <2>1, <2>3, SendAllAdvances
<1> QED
    BY <1>2, <1>3, <1>4, <1>5

LEMMA SocketAdvances ==
    ASSUME IInv, Short, SocketDatagram \/ SocketTimeout \/ StdinEof
    PROVE  Advances
<1>1. Types /\ pc = "epoll" /\ events # <<>> /\ curr_state # "exit"
    BY DEF IInv, Types, SocketDatagram, SocketTimeout, StdinEof, Handling
<1>2. \/ \E s : Done(s)
      \/ \E ds, s : SendAll(ds, s) /\ Fit(ds) /\ s \in {curr_state, "END", "OPEN"}
    <2>1. CASE SocketDatagram
        BY <1>1, <2>1, DatagramOutcome, Zenon
    <2>2. CASE SocketTimeout \/ StdinEof
        BY <2>2, Zenon DEF SocketTimeout, StdinEof
    <2> QED
        BY <2>1, <2>2
<1>3. ASSUME NEW s, Done(s) PROVE Advances
    BY <1>1, <1>3, DoneAdvances
<1>4. ASSUME NEW ds, NEW s, SendAll(ds, s), Fit(ds), s \in {curr_state, "END", "OPEN"}
      PROVE  Advances
    <2>1. s # "exit" /\ Len(ds) \in 1..3
        BY <1>1, <1>4 DEF Fit
    <2> QED
        BY <1>1, <1>4, <2>1, SendAllAdvances
<1> QED
    BY <1>2, <1>3, <1>4

\* Signals, the server and the network leave the work alone.
LEMMA OthersLeaveWork ==
    ASSUME Short, Interrupt \/ InterruptHandler \/ ServerReceives
                  \/ (\E type \in ServerTypes : ServerSends(type)) \/ UNCHANGED vars
    PROVE  Short' /\ WorkLeft' = WorkLeft
<1>1. UNCHANGED <<pc, out, then, attempt, events>>
    BY DEF Interrupt, InterruptHandler, ServerReceives, ServerSends, vars, client, sending
<1>2. Short'
    BY <1>1 DEF Short, Blocked
<1>3. /\ Blocked' = Blocked /\ Finished' = Finished
      /\ PerEvent' = PerEvent /\ PerDatagram' = PerDatagram
    BY <1>1 DEF Blocked, Finished, PerEvent, PerDatagram
<1>4. Pending' = Pending /\ InCall' = InCall
    BY <1>1, <1>3 DEF Pending, InCall
<1>5. ToSend' = ToSend
    BY <1>1, <1>3, <1>4, Zenon DEF ToSend
<1> QED
    BY <1>2, <1>3, <1>4, <1>5, Zenon DEF WorkLeft

\* Work begins only where there was none: main waits or says BYE.
LEMMA MainBeginsWork ==
    ASSUME Types, Short, EpollWait \/ Closing
    PROVE  Short' /\ WorkLeft = 0
<1>1. pc = "epoll" /\ events = <<>>
    BY DEF EpollWait, Closing
<1>2. Len(events) = 0 /\ WorkLeft = Len(events) * PerEvent
    BY <1>1, BatchLength, WorkIs DEF Types
<1>3. WorkLeft = 0
    BY <1>2, WorkUnits, Multiples
<1>4. CASE EpollWait
    BY <1>1, <1>3, <1>4 DEF EpollWait, sending, Short, Blocked
<1>5. CASE Closing
    <2>1. PICK d : d = Datagram("BYE", message_id)
        OBVIOUS
    <2>2. out' = <<d>> /\ then' = "exit" /\ UNCHANGED events
        BY <1>5, <2>1, Zenon DEF Closing, client
    <2>3. Short'
        BY <1>1, <2>2 DEF Short
    <2> QED
        BY <1>3, <2>3
<1> QED
    BY <1>4, <1>5

\* No handler of fsm_udp runs for ever, whatever the network loses, repeats and
\* reorders: udp_send waits for at most Retransmissions CONFIRMs, a handler sends
\* at most three datagrams and epoll_wait returns at most two events.
THEOREM HandlersAdvanceTheorem == Spec => HandlersAdvance
<1>1. Init => Short
    BY DEF Init, Short, Blocked
<1>2. IInv /\ Short /\ [Next]_vars => Short' /\ [WorkDone]_vars
    <2> SUFFICES ASSUME IInv, Short, [Next]_vars PROVE Short' /\ [WorkDone]_vars
        OBVIOUS
    <2>1. WorkLeft \in Nat
        <3>1. WorkBounded
            BY WorkIsBounded DEF IInv
        <3> HIDE DEF WorkLeft, PerEvent
        <3> QED
            BY <3>1, WorkUnits DEF WorkBounded
    <2>2. ASSUME Advances PROVE Short' /\ [WorkDone]_vars
        <3> HIDE DEF WorkLeft, ClientNext
        <3>1. Short' /\ WorkLeft' < WorkLeft
            BY <2>2 DEF Advances
        <3> QED
            BY <2>1, <3>1 DEF WorkDone
    <2>3. CASE EpollWait \/ Closing
        <3>1. Short' /\ WorkLeft = 0
            BY <2>3, MainBeginsWork DEF IInv
        <3> HIDE DEF WorkLeft, ClientNext
        <3> QED
            BY <3>1 DEF WorkDone
    <2>4. CASE Interrupt \/ InterruptHandler \/ ServerReceives
                 \/ (\E type \in ServerTypes : ServerSends(type))
        <3>1. Short' /\ WorkLeft' = WorkLeft
            BY <2>4, OthersLeaveWork, Zenon
        <3>2. ~ClientNext \/ Advances \/ WorkLeft = 0
            <4> SUFFICES ASSUME ClientNext PROVE Advances \/ WorkLeft = 0
                OBVIOUS
            <4> QED
                BY UdpSendAdvances, LineAdvances, SocketAdvances, MainBeginsWork, Zenon
                   DEF ClientNext, IInv
        <3> HIDE DEF WorkLeft, ClientNext
        <3> QED
            BY <2>1, <2>2, <3>1, <3>2 DEF WorkDone
    <2>5. CASE UNCHANGED vars
        BY <2>5, OthersLeaveWork, Zenon
    <2> QED
        BY <2>2, <2>3, <2>4, <2>5, UdpSendAdvances, LineAdvances, SocketAdvances, Zenon
           DEF Next, ClientNext
<1>3. IInv /\ Short => WorkBounded
    BY WorkIsBounded DEF IInv
<1> QED
    BY <1>1, <1>2, <1>3, Invariance, PTL DEF Spec, HandlersAdvance
=============================================================================
