---------------------------- MODULE ChatTcpProofs ---------------------------
(***************************************************************************)
(* The invariants of ChatTcp hold for any number of lines and of messages  *)
(* of the server, and fsm_tcp implements the session of ChatSession.       *)
(*                                                                         *)
(* IInv is inductive. What it adds to the invariants is what the client    *)
(* knows without looking at its history: the name and the answer it has    *)
(* got in each state, and that a REPLY in the stream answers something.    *)
(***************************************************************************)
EXTENDS ChatTcp, SequenceTheorems, FiniteSetTheorems, TLAPS

Talking == {"MSG", "JOIN", "ERR"}
SentAuth == \E j \in DOMAIN sent : sent[j].type = "AUTH"
Accepted == accepted \in 1..Len(sent) /\ \E j \in 1..accepted : sent[j].type = "AUTH"

\* fsm_tcp leaves START with a name, and OPEN is entered by an answer only.
KnowsState ==
    /\ curr_state \in {"AUTH", "OPEN"} => display_name # NoName
    /\ curr_state \in {"START", "AUTH"} => accepted = 0
    /\ curr_state = "OPEN" => Accepted

\* An answer in the stream means that an /auth was sent, although the one that
\* brought the client to AUTH may have been lost.
AnswersAreAsked == (\E i \in DOMAIN inbound : inbound[i] \in Reply) => SentAuth

IInv == LeavesWithBye /\ KnowsState /\ AnswersAreAsked /\ TalksOnlyAfterOk

----------------------------------------------------------------------------
(* send() and recv *)

MessageTypes == {"AUTH", "MSG", "JOIN", "BYE", "ERR"}
Names == {NoName, "auth", "renamed"}

\* send() adds at most one message, at the end.
LEMMA SendAppends ==
    ASSUME TypeOK, NEW type \in MessageTypes, NEW name \in Names,
           NEW p \in {"running", "exited"}, Send(type, name, p)
    PROVE  /\ sent' \in Seq([type : MessageTypes, name : Names])
           /\ proc' \in {p, "killed"} /\ link' \in {"up", "closed", "probed", "reset"}
           /\ link' = "up" <=> link = "up"
           /\ \/ sent' = sent /\ link # "up"
              \/ /\ Len(sent') = Len(sent) + 1
                 /\ \A j \in 1..Len(sent) : sent'[j] = sent[j]
                 /\ sent'[Len(sent) + 1] = [type |-> type, name |-> name]
<1> DEFINE m == [type |-> type, name |-> name]
           Messages == [type : MessageTypes, name : Names]
<1>1. sent \in Seq(Messages) /\ m \in Messages
    BY DEF TypeOK, MessageTypes, Names
<1>2. /\ proc' \in {p, "killed"} /\ link' \in {"up", "closed", "probed", "reset"}
      /\ link' = "up" <=> link = "up"
    BY DEF Send, TypeOK
<1> HIDE DEF m, Messages
<1>3. CASE link \in {"up", "closed"}
    <2>1. sent' = Append(sent, m)
        BY <1>3 DEF Send, m
    <2>2. /\ sent' \in Seq(Messages) /\ Len(sent') = Len(sent) + 1
          /\ \A j \in 1..Len(sent) : sent'[j] = sent[j]
          /\ sent'[Len(sent) + 1] = m
        BY <1>1, <2>1, AppendProperties
    <2> QED
        BY <1>2, <2>2 DEF m, Messages
<1>4. CASE link \notin {"up", "closed"}
    BY <1>1, <1>2, <1>4 DEF Send, Messages
<1> QED
    BY <1>3, <1>4

\* recv takes a part of the stream that is a suffix of what was there.
LEMMA RecvTakes ==
    ASSUME TypeOK, NEW k \in 1..Len(inbound), Recv(k)
    PROVE  /\ inbound' \in Seq(ServerMessages)
           /\ \A i \in DOMAIN inbound' : i + k \in DOMAIN inbound /\ inbound'[i] = inbound[i + k]
           /\ Head(inbound) = inbound[1] /\ 1 \in DOMAIN inbound
           /\ Head(inbound) \in ServerMessages
<1>0. inbound \in Seq(ServerMessages)
    BY Zenon DEF TypeOK
<1>1. inbound \in Seq(ServerMessages) /\ DOMAIN inbound = 1..Len(inbound)
    BY <1>0
<1>2. inbound' = SubSeq(inbound, k + 1, Len(inbound))
    BY DEF Recv
<1> HIDE DEF ServerMessages
<1>3. /\ inbound' \in Seq(ServerMessages)
      /\ \A i \in DOMAIN inbound' : i + k \in 1..Len(inbound) /\ inbound'[i] = inbound[i + k]
    BY <1>1, <1>2, SubSeqProperties
<1>4. Head(inbound) = inbound[1] /\ 1 \in 1..Len(inbound) /\ Head(inbound) \in ServerMessages
    BY <1>1
<1> QED
    BY <1>1, <1>3, <1>4

LEMMA InitIInv == Init => IInv
<1> SUFFICES ASSUME Init PROVE IInv
    OBVIOUS
<1>1. inbound = <<>> /\ sent = <<>>
    BY DEF Init
<1>2. TypeOK
    <2>1. inbound \in Seq(ServerMessages) /\ sent \in Seq([type : MessageTypes, name : Names])
        BY <1>1, EmptySeq
    <2>2. stale \in BOOLEAN /\ dropped \in BOOLEAN
        BY Zenon DEF Init
    <2>3. /\ lines \in 0..MaxLines /\ msgs \in 0..MaxServerMsgs /\ replies \in 0..msgs
          /\ accepted \in Nat
        <3>1. lines = 0 /\ msgs = 0 /\ replies = 0 /\ accepted = 0
            BY Zenon DEF Init
        <3> QED
            BY <3>1, BoundsAssumption
    <2> QED
        BY <2>1, <2>2, <2>3, Zenon DEF Init, TypeOK, MessageTypes, Names
<1>3. KnowsState
    BY DEF Init, KnowsState
<1>4. AnswersAreAsked /\ TalksOnlyAfterOk
    BY <1>1 DEF AnswersAreAsked, TalksOnlyAfterOk
<1> QED
    BY <1>2, <1>3, <1>4 DEF Init, IInv, LeavesWithBye
----------------------------------------------------------------------------
(* One step *)

\* What send() keeps of the history, and that a BYE is then the last message.
LEMMA SendKeeps ==
    ASSUME IInv, NEW type \in MessageTypes, NEW name \in Names,
           NEW p \in {"running", "exited"}, Send(type, name, p),
           accepted' = accepted,
           type \in Talking => name # NoName /\ curr_state = "OPEN"
    PROVE  /\ TalksOnlyAfterOk'
           /\ SentAuth => SentAuth'
           /\ Accepted => Accepted'
           /\ link' = "up" => sent' # <<>> /\ sent'[Len(sent')].type = type
<1> DEFINE Messages == [type : MessageTypes, name : Names]
           m == [type |-> type, name |-> name]
           Added == /\ Len(sent') = Len(sent) + 1
                    /\ \A j \in 1..Len(sent) : sent'[j] = sent[j]
                    /\ sent'[Len(sent) + 1] = m
<1>1. TypeOK /\ TalksOnlyAfterOk /\ accepted \in Nat
    BY Zenon DEF IInv, LeavesWithBye, TypeOK
<1>2. sent \in Seq(Messages)
    BY <1>1, Zenon DEF TypeOK, MessageTypes, Names
<1>3. /\ sent' \in Seq(Messages)
      /\ link' = "up" <=> link = "up"
      /\ (sent' = sent /\ link # "up") \/ Added
    BY <1>1, SendAppends, Zenon
<1>4. m.type = type /\ m.name = name
    OBVIOUS
<1> HIDE DEF Messages, m, Added
<1>5. CASE sent' = sent /\ link # "up"
    BY <1>1, <1>3, <1>5, Zenon DEF TalksOnlyAfterOk, SentAuth, Accepted
<1>6. CASE Added
    <2>1. Len(sent) \in Nat /\ DOMAIN sent = 1..Len(sent) /\ DOMAIN sent' = 1..(Len(sent) + 1)
        <3>1. Len(sent') = Len(sent) + 1
            BY <1>6 DEF Added
        <3>2. sent' \in Seq(Messages)
            BY <1>3
        <3> QED
            BY <1>2, <3>1, <3>2
    <2>2. sent' # <<>> /\ sent'[Len(sent')].type = type
        BY <1>2, <1>4, <1>6, <2>1 DEF Added
    <2>3. (SentAuth => SentAuth') /\ (Accepted => Accepted')
        BY <1>1, <1>6, <2>1 DEF Added, SentAuth, Accepted
    <2>4. TalksOnlyAfterOk'
        <3> SUFFICES ASSUME NEW i \in DOMAIN sent', sent'[i].type \in Talking
                     PROVE  /\ sent'[i].name # NoName
                            /\ accepted \in 1..(i - 1)
                            /\ \E j \in 1..accepted : sent'[j].type = "AUTH"
            BY DEF TalksOnlyAfterOk, Talking
        <3>1. CASE i = Len(sent) + 1
            BY <1>4, <1>6, <2>1, <3>1 DEF Added, IInv, KnowsState, Accepted
        <3>2. CASE i \in 1..Len(sent)
            BY <1>1, <1>6, <2>1, <3>2 DEF Added, TalksOnlyAfterOk, Talking
        <3> QED
            BY <2>1, <3>1, <3>2
    <2> QED
        BY <2>2, <2>3, <2>4
<1> QED
    BY <1>3, <1>5, <1>6

LEMMA ServerStep ==
    ASSUME IInv, (\E m \in ServerMessages : ServerSends(m)) \/ ServerCloses \/ ResetArrives
    PROVE  IInv'
<1> USE BoundsAssumption DEF IInv, history, env
<1>1. ASSUME NEW m \in ServerMessages, ServerSends(m)
      PROVE  IInv'
    <2>1. /\ inbound \in Seq(ServerMessages) /\ msgs \in 0..MaxServerMsgs /\ replies \in 0..msgs
          /\ sent' = sent /\ accepted' = accepted /\ proc' = proc /\ link' = link
        BY <1>1 DEF ServerSends, LeavesWithBye, TypeOK
    <2>2. /\ inbound' \in Seq(ServerMessages)
          /\ Len(inbound') = Len(inbound) + 1 /\ inbound'[Len(inbound) + 1] = m
          /\ \A i \in 1..Len(inbound) : inbound'[i] = inbound[i]
        BY <1>1, <2>1, AppendProperties DEF ServerSends
    <2>3. TypeOK'
        BY <1>1, <2>1, <2>2 DEF ServerSends, LeavesWithBye, TypeOK
    <2>4. KnowsState' /\ TalksOnlyAfterOk'
        BY <1>1, <2>1 DEF ServerSends, KnowsState, Accepted, TalksOnlyAfterOk
    <2>5. ASSUME m \in Reply PROVE SentAuth
        <3>1. Requests # {}
            <4>1. replies < Cardinality(Requests)
                BY <1>1, <2>5 DEF ServerSends
            <4>2. replies \in Nat
                BY <2>1
            <4>3. Cardinality({}) = 0
                BY FS_EmptySet
            <4> QED
                BY <4>1, <4>2, <4>3
        <3>2. PICK i \in DOMAIN sent : sent[i].type \in {"AUTH", "JOIN"}
            BY <3>1 DEF Requests
        <3>3. CASE sent[i].type = "AUTH"
            BY <3>3 DEF SentAuth
        <3>4. CASE sent[i].type = "JOIN"
            <4>1. accepted \in 1..(i - 1) /\ \E j \in 1..accepted : sent[j].type = "AUTH"
                BY <3>4 DEF TalksOnlyAfterOk
            <4>2. DOMAIN sent = 1..Len(sent) /\ Len(sent) \in Nat
                BY DEF LeavesWithBye, TypeOK
            <4> QED
                BY <4>1, <4>2 DEF SentAuth
        <3> QED
            BY <3>2, <3>3, <3>4
    <2>6. AnswersAreAsked'
        <3>1. SentAuth <=> SentAuth'
            BY <2>1 DEF SentAuth
        <3>2. DOMAIN inbound = 1..Len(inbound) /\ DOMAIN inbound' = 1..(Len(inbound) + 1)
            BY <2>1, <2>2
        <3> QED
            BY <2>1, <2>2, <2>5, <3>1, <3>2 DEF AnswersAreAsked, SentAuth
    <2> QED
        BY <2>1, <2>3, <2>4, <2>6 DEF LeavesWithBye
<1>2. ASSUME ServerCloses PROVE IInv'
    BY <1>2 DEF ServerCloses, LeavesWithBye, TypeOK, KnowsState, Accepted,
        AnswersAreAsked, SentAuth, TalksOnlyAfterOk
<1>3. ASSUME ResetArrives PROVE IInv'
    BY <1>3 DEF ResetArrives, LeavesWithBye, TypeOK, KnowsState, Accepted,
        AnswersAreAsked, SentAuth, TalksOnlyAfterOk
<1> QED
    BY <1>1, <1>2, <1>3

\* A handler that sends one message and may then exit, having said BYE.
LEMMA SendStep ==
    ASSUME IInv, NEW type \in MessageTypes, NEW name \in Names,
           NEW p \in {"running", "exited"}, Send(type, name, p),
           proc = "running", UNCHANGED <<msgs, replies, accepted>>,
           type \in Talking => name # NoName /\ curr_state = "OPEN",
           p = "exited" => type = "BYE",
           curr_state' \in {"START", "AUTH", "OPEN", "END"},
           curr_state' = "START" => curr_state = "START",
           curr_state' = "AUTH" => curr_state \in {"START", "AUTH"},
           curr_state' = "OPEN" => curr_state = "OPEN",
           display_name' \in Names,
           curr_state' \in {"AUTH", "OPEN"} => display_name' # NoName,
           lines' \in 0..MaxLines, stale' \in BOOLEAN, dropped' \in BOOLEAN,
           inbound' \in Seq(ServerMessages),
           (\E i \in DOMAIN inbound' : inbound'[i] \in Reply)
               => \E i \in DOMAIN inbound : inbound[i] \in Reply
    PROVE  IInv'
<1>1. TypeOK
    BY Zenon DEF IInv, LeavesWithBye
<1>2. TypeOK'
    BY <1>1, SendAppends DEF TypeOK, MessageTypes, Names
<1>3. /\ TalksOnlyAfterOk'
      /\ SentAuth => SentAuth'
      /\ Accepted => Accepted'
      /\ link' = "up" => sent' # <<>> /\ sent'[Len(sent')].type = type
    BY SendKeeps
<1>4. KnowsState'
    BY <1>3 DEF IInv, KnowsState, Accepted
<1>5. AnswersAreAsked'
    BY <1>3 DEF IInv, AnswersAreAsked, SentAuth
<1>6. proc' = "exited" => p = "exited"
    BY DEF Send
<1> QED
    BY <1>2, <1>3, <1>4, <1>5, <1>6 DEF IInv, LeavesWithBye

\* A handler that sends nothing and leaves the state alone or resets it.
LEMMA SilentStep ==
    ASSUME IInv, proc = "running", UNCHANGED <<link, sent, msgs, replies, accepted>>,
           proc' \in {"running", "crashed"},
           curr_state' \in {"START", "AUTH", "OPEN", "END"},
           curr_state' = "START" => curr_state \in {"START", "AUTH"},
           curr_state' = "AUTH" => curr_state = "AUTH",
           curr_state' = "OPEN" => curr_state = "OPEN",
           display_name' \in Names,
           curr_state' \in {"AUTH", "OPEN"} => display_name' # NoName,
           lines' \in 0..MaxLines, stale' \in BOOLEAN, dropped' \in BOOLEAN,
           inbound' \in Seq(ServerMessages),
           (\E i \in DOMAIN inbound' : inbound'[i] \in Reply)
               => \E i \in DOMAIN inbound : inbound[i] \in Reply
    PROVE  IInv'
<1>1. TypeOK'
    BY DEF IInv, LeavesWithBye, TypeOK, Names
<1>2. KnowsState'
    BY DEF IInv, KnowsState, Accepted
<1>3. AnswersAreAsked'
    BY DEF IInv, AnswersAreAsked, SentAuth
<1>4. TalksOnlyAfterOk'
    BY DEF IInv, TalksOnlyAfterOk
<1> QED
    BY <1>1, <1>2, <1>3, <1>4 DEF IInv, LeavesWithBye

LEMMA LineStep ==
    ASSUME IInv, NEW c \in Commands, StartLine(c) \/ AuthLine(c) \/ OpenLine(c)
    PROVE  IInv'
<1>1. /\ curr_state \in {"START", "AUTH", "OPEN", "END"} /\ display_name \in Names
      /\ lines \in 0..MaxLines /\ stale \in BOOLEAN /\ dropped \in BOOLEAN
      /\ inbound \in Seq(ServerMessages)
    BY DEF IInv, LeavesWithBye, TypeOK, Names
<1>2. Typed(c)
    BY DEF StartLine, AuthLine, OpenLine
<1>3. /\ proc = "running" /\ lines' \in 0..MaxLines
      /\ UNCHANGED <<inbound, stale, msgs, replies, accepted, dropped>>
    BY <1>1, <1>2, BoundsAssumption DEF Typed
<1>4. CASE StartLine(c)
    <2>1. CASE c = "/auth"
        <3>1. /\ display_name' = "auth" /\ curr_state = "START" /\ curr_state' = "AUTH"
              /\ Send("AUTH", "auth", "running")
            BY <1>4, <2>1 DEF StartLine
        <3> QED
            BY <1>1, <1>3, <3>1, SendStep DEF MessageTypes, Names, Talking, NoName
    <2>2. CASE c # "/auth"
        BY <1>1, <1>3, <1>4, <2>2, SilentStep DEF StartLine
    <2> QED
        BY <2>1, <2>2
<1>5. CASE AuthLine(c)
    BY <1>1, <1>3, <1>5, SilentStep DEF AuthLine, IInv, KnowsState
<1>6. CASE OpenLine(c)
    <2>1. curr_state = "OPEN" /\ curr_state' = "OPEN" /\ display_name # NoName
        BY <1>6 DEF OpenLine, IInv, KnowsState
    <2>2. ASSUME NEW type \in {"MSG", "JOIN"}, Send(type, display_name, "running"),
                 UNCHANGED display_name
          PROVE  IInv'
        BY <1>1, <1>3, <2>1, <2>2, SendStep DEF MessageTypes, Talking
    <2>3. CASE c = "/rename"
        BY <1>1, <1>3, <1>6, <2>1, <2>3, SilentStep DEF OpenLine, Names, NoName
    <2>4. CASE c = "/rename ?"
        BY <1>1, <1>3, <1>6, <2>1, <2>4, SilentStep DEF OpenLine
    <2>5. CASE c \in {"/auth", "/auth ?", "/help"}
        BY <1>1, <1>3, <1>6, <2>1, <2>5, SilentStep DEF OpenLine
    <2> QED
        BY <1>6, <2>2, <2>3, <2>4, <2>5 DEF OpenLine
<1> QED
    BY <1>4, <1>5, <1>6

LEMMA EndStep == ASSUME IInv, StdinEof \/ Interrupt \/ EndSocket PROVE IInv'
<1>1. /\ Send("BYE", NoName, "exited") /\ proc = "running"
      /\ UNCHANGED <<display_name, inbound, stale, env, accepted, dropped>>
      /\ curr_state' \in {curr_state, "END"}
    BY DEF StdinEof, Interrupt, EndSocket, EndEvent, Readable
<1>2. /\ curr_state \in {"START", "AUTH", "OPEN", "END"} /\ display_name \in Names
      /\ lines \in 0..MaxLines /\ stale \in BOOLEAN /\ dropped \in BOOLEAN
      /\ inbound \in Seq(ServerMessages)
      /\ curr_state \in {"AUTH", "OPEN"} => display_name # NoName
    BY DEF IInv, LeavesWithBye, TypeOK, Names, KnowsState
<1> QED
    BY <1>1, <1>2, SendStep DEF env, MessageTypes, Names, Talking

LEMMA SocketStep == ASSUME IInv, SocketNext PROVE IInv'
<1>1. /\ curr_state \in {"START", "AUTH", "OPEN", "END"} /\ display_name \in Names
      /\ lines \in 0..MaxLines /\ stale \in BOOLEAN /\ dropped \in BOOLEAN
      /\ inbound \in Seq(ServerMessages)
      /\ curr_state \in {"AUTH", "OPEN"} => display_name # NoName
    BY DEF IInv, LeavesWithBye, TypeOK, Names, KnowsState
<1>2. CASE HangUp
    BY <1>2 DEF HangUp, IInv, LeavesWithBye, TypeOK, KnowsState, Accepted,
        AnswersAreAsked, SentAuth, TalksOnlyAfterOk, env, history
<1>3. CASE StartSocket
    BY <1>1, <1>3, SendStep DEF StartSocket, Readable, env, MessageTypes, Names, Talking
<1>4. CASE EndSocket
    BY <1>4, EndStep
<1>5. CASE RecvEof
    <2>1. /\ proc = "running" /\ UNCHANGED <<curr_state, display_name, inbound, stale,
                                            lines, msgs, replies, accepted, dropped>>
        BY <1>5 DEF RecvEof, Readable, env
    <2>2. CASE curr_state = "OPEN" /\ Send("ERR", display_name, "running")
        BY <1>1, <2>1, <2>2, SendStep DEF MessageTypes, Talking
    <2>3. CASE proc' \in {"running", "crashed"} /\ UNCHANGED <<link, sent>>
        BY <1>1, <2>1, <2>3, SilentStep
    <2> QED
        BY <1>5, <2>1, <2>2, <2>3 DEF RecvEof
<1>6. ASSUME NEW k \in 1..Len(inbound), AuthRecv(k) \/ OpenRecv(k) PROVE IInv'
    <2>1. TypeOK /\ Recv(k)
        BY <1>6, Zenon DEF AuthRecv, OpenRecv, IInv, LeavesWithBye
    <2>2. /\ inbound' \in Seq(ServerMessages)
          /\ (\E i \in DOMAIN inbound' : inbound'[i] \in Reply)
                 => \E i \in DOMAIN inbound : inbound[i] \in Reply
          /\ Head(inbound) \in Reply => \E i \in DOMAIN inbound : inbound[i] \in Reply
        BY <2>1, RecvTakes
    <2>3. proc = "running" /\ UNCHANGED <<display_name, lines, msgs, replies>>
        BY <2>1 DEF Recv, Readable, env
    <2>4. stale' \in BOOLEAN /\ dropped' \in BOOLEAN
        BY <1>6, <2>1, Zenon DEF AuthRecv, OpenRecv, Recv
    <2>5. CASE AuthRecv(k) /\ Head(inbound) = "REPLY OK"
        <3>1. /\ curr_state' = "OPEN" /\ accepted' = Len(sent)
              /\ curr_state = "AUTH" /\ UNCHANGED <<proc, link, sent>>
            BY <2>5 DEF AuthRecv
        <3>2. SentAuth
            BY <2>2, <2>5 DEF IInv, AnswersAreAsked, Reply
        <3>3. Len(sent) \in Nat /\ DOMAIN sent = 1..Len(sent)
            BY DEF IInv, LeavesWithBye, TypeOK
        <3>4. Accepted'
            BY <3>1, <3>2, <3>3 DEF SentAuth, Accepted
        <3>5. TypeOK'
            BY <1>1, <2>1, <2>2, <2>3, <2>4, <3>1, <3>3 DEF TypeOK
        <3>6. KnowsState' /\ AnswersAreAsked'
            BY <1>1, <2>2, <2>3, <3>1, <3>2, <3>4 DEF KnowsState, AnswersAreAsked, SentAuth
        <3>7. TalksOnlyAfterOk'
            <4>1. accepted = 0
                BY <3>1 DEF IInv, KnowsState
            <4> QED
                BY <3>1, <3>3, <4>1 DEF IInv, TalksOnlyAfterOk
        <3> QED
            BY <2>3, <3>1, <3>5, <3>6, <3>7 DEF IInv, LeavesWithBye
    <2>6. CASE AuthRecv(k) /\ Head(inbound) = "REPLY NOK"
        BY <1>1, <2>2, <2>3, <2>4, <2>6, SilentStep DEF AuthRecv
    <2>7. CASE AuthRecv(k) /\ Head(inbound) = "ERR"
        BY <1>1, <2>2, <2>3, <2>4, <2>7, SendStep DEF AuthRecv, MessageTypes, Names, Talking
    <2>8. CASE AuthRecv(k) /\ Head(inbound) \in {"MSG", "BYE"}
        BY <1>1, <2>2, <2>3, <2>4, <2>8, SilentStep DEF AuthRecv
    <2>9. CASE OpenRecv(k) /\ Head(inbound) # "BYE"
        BY <1>1, <2>2, <2>3, <2>4, <2>9, SilentStep DEF OpenRecv
    <2>10. CASE OpenRecv(k) /\ Head(inbound) = "BYE"
        BY <1>1, <2>2, <2>3, <2>4, <2>10, SendStep DEF OpenRecv, MessageTypes, Talking
    <2> QED
        BY <1>6, <2>5, <2>6, <2>7, <2>8, <2>9, <2>10 DEF AuthRecv
<1> QED
    BY <1>2, <1>3, <1>4, <1>5, <1>6 DEF SocketNext

LEMMA NextIInv == IInv /\ [Next]_vars => IInv'
<1> SUFFICES ASSUME IInv, [Next]_vars PROVE IInv'
    OBVIOUS
<1>1. CASE UNCHANGED vars
    BY <1>1 DEF vars, env, history, IInv, LeavesWithBye, TypeOK, KnowsState, Accepted,
        AnswersAreAsked, SentAuth, TalksOnlyAfterOk
<1>2. CASE Next
    BY <1>2, ServerStep, LineStep, EndStep, SocketStep DEF Next
<1> QED
    BY <1>1, <1>2

\* IInv holds at every event fsm_tcp and the loop of main handle.
THEOREM Invariance == Spec => []IInv
BY InitIInv, NextIInv, PTL DEF Spec

\* Chat messages and joins are sent only after the server has accepted an /auth
\* and under a name, for any number of lines and of messages: fsm_tcp cannot be
\* brought to OPEN by anything but the answer it waits for.
THEOREM TalkingTheorem == Spec => []TalksOnlyAfterOk
<1>1. IInv => TalksOnlyAfterOk
    BY DEF IInv
<1> QED
    BY Invariance, <1>1, PTL

\* Wherever the end of input, SIGINT or the END state meets the client on a live
\* connection, BYE is the last thing it has sent.
THEOREM ByeTheorem == Spec => []LeavesWithBye
<1>1. IInv => LeavesWithBye
    BY DEF IInv
<1> QED
    BY Invariance, <1>1, PTL

----------------------------------------------------------------------------
(* fsm_tcp implements the session. *)

\* send() adds nothing to what the user has said but a MSG, a JOIN or an ERR.
LEMMA SendSays ==
    ASSUME IInv, NEW type \in MessageTypes, NEW name \in Names,
           NEW p \in {"running", "exited"}, Send(type, name, p)
    PROVE  /\ type \notin Talking => Said' = Said
           /\ Said' = Said \/ (proc' = p /\ Said' = Said \cup {Len(sent) + 1})
<1>1. TypeOK
    BY Zenon DEF IInv, LeavesWithBye
<1>2. Len(sent) \in Nat /\ DOMAIN sent = 1..Len(sent)
    BY <1>1 DEF TypeOK
<1>3. CASE sent' = sent
    BY <1>3 DEF Said
<1>4. CASE /\ link # "reset"
           /\ sent' = Append(sent, [type |-> type, name |-> name])
    <2> DEFINE m == [type |-> type, name |-> name]
               Messages == [type : MessageTypes, name : Names]
    <2>1. sent \in Seq(Messages) /\ m \in Messages /\ m.type = type
        BY <1>1 DEF TypeOK, MessageTypes, Names
    <2> HIDE DEF m, Messages
    <2>2. /\ sent' \in Seq(Messages) /\ Len(sent') = Len(sent) + 1
          /\ \A j \in 1..Len(sent) : sent'[j] = sent[j]
          /\ sent'[Len(sent) + 1].type = type
        BY <1>4, <2>1, AppendProperties DEF m
    <2>3. DOMAIN sent' = 1..(Len(sent) + 1)
        BY <2>2
    <2>4. Said' = IF type \in Talking THEN Said \cup {Len(sent) + 1} ELSE Said
        BY <1>2, <2>2, <2>3 DEF Said, Talking
    <2>5. proc' = p
        BY <1>4 DEF Send
    <2> QED
        BY <2>4, <2>5
<1> QED
    BY <1>3, <1>4 DEF Send

LEMMA StepRefines == ASSUME IInv, [Next]_vars PROVE [Session!Next]_(Session!sessionVars)
<1> USE DEF Session!sessionVars
<1>1. /\ curr_state \in {"START", "AUTH", "OPEN", "END"} /\ display_name \in Names
      /\ sent' = sent => Said' = Said
    BY DEF IInv, LeavesWithBye, TypeOK, Names, Said
<1>2. ASSUME UNCHANGED <<curr_state, proc, sent>>
      PROVE  UNCHANGED Session!sessionVars
    BY <1>1, <1>2 DEF SessionState
<1>3. ASSUME proc = "running", Said' = Said, proc' # "running" \/ curr_state' = "END"
      PROVE  Session!Leave \/ UNCHANGED Session!sessionVars
    BY <1>1, <1>3 DEF SessionState, Session!Leave
<1>4. ASSUME NEW type \in Talking, Send(type, display_name, "running"),
             curr_state = "OPEN", proc = "running", UNCHANGED curr_state
      PROVE  [Session!Next]_(Session!sessionVars)
    <2>1. Said' = Said \/ (proc' = "running" /\ Said' = Said \cup {Len(sent) + 1})
        BY <1>1, <1>4, SendSays DEF Talking, MessageTypes
    <2>2. CASE proc' # "running"
        BY <1>3, <1>4, <2>1, <2>2 DEF Session!Next
    <2>3. CASE proc' = "running" /\ Said' = Said
        BY <1>4, <2>3 DEF SessionState
    <2>4. CASE proc' = "running" /\ Said' = Said \cup {Len(sent) + 1}
        <3>1. SessionState = "in" /\ SessionState' = "in"
            BY <1>4, <2>4 DEF SessionState
        <3>2. Session!Talk
            BY <2>4, <3>1 DEF Session!Talk
        <3> QED
            BY <3>2 DEF Session!Next
    <2> QED
        BY <2>1, <2>2, <2>3, <2>4
<1>5. ASSUME NEW p \in {"running", "exited"}, Send("BYE", NoName, p) PROVE Said' = Said
    BY <1>5, SendSays DEF MessageTypes, Names, Talking
<1>6. CASE UNCHANGED vars \/ (\E m \in ServerMessages : ServerSends(m)) \/ ServerCloses \/ ResetArrives
    BY <1>2, <1>6 DEF vars, history, env, ServerSends, ServerCloses, ResetArrives
<1>7. ASSUME NEW c \in Commands, StartLine(c)
      PROVE  [Session!Next]_(Session!sessionVars)
    <2>1. CASE c = "/auth"
        <3>1. /\ proc = "running" /\ curr_state = "START" /\ curr_state' = "AUTH"
              /\ Send("AUTH", "auth", "running")
            BY <1>7, <2>1 DEF StartLine, Typed
        <3>2. Said' = Said
            BY <3>1, SendSays DEF MessageTypes, Names, Talking
        <3>3. proc' = "running" => Session!Ask
            BY <3>1, <3>2 DEF SessionState, Session!Ask
        <3> QED
            BY <1>3, <3>1, <3>2, <3>3 DEF Session!Next
    <2>2. CASE c # "/auth"
        BY <1>2, <1>7, <2>2 DEF StartLine
    <2> QED
        BY <2>1, <2>2
<1>8. ASSUME NEW c \in Commands, AuthLine(c) \/ OpenLine(c)
      PROVE  [Session!Next]_(Session!sessionVars)
    <2>1. CASE AuthLine(c)
        BY <1>2, <2>1 DEF AuthLine
    <2>2. CASE OpenLine(c) /\ c \in {"text", "/join"}
        <3>1. /\ curr_state = "OPEN" /\ proc = "running" /\ UNCHANGED curr_state
              /\ Send("MSG", display_name, "running") \/ Send("JOIN", display_name, "running")
            BY <2>2 DEF OpenLine, Typed
        <3> QED
            BY <1>4, <3>1 DEF Talking
    <2>3. CASE OpenLine(c) /\ c = "/rename ?"
        <3>1. proc = "running" /\ proc' = "crashed" /\ sent' = sent
            BY <2>3 DEF OpenLine, Typed
        <3> QED
            BY <1>1, <1>3, <3>1 DEF Session!Next
    <2>4. CASE OpenLine(c) /\ c \notin {"text", "/join", "/rename ?"}
        BY <1>2, <2>4 DEF OpenLine
    <2> QED
        BY <1>8, <2>1, <2>2, <2>3, <2>4
<1>9. CASE StdinEof \/ Interrupt \/ EndSocket \/ StartSocket
    <2>1. /\ proc = "running" /\ (proc' # "running" \/ curr_state' = "END")
          /\ Send("BYE", NoName, "exited") \/ Send("BYE", NoName, "running")
        BY <1>9 DEF StdinEof, Interrupt, EndSocket, EndEvent, StartSocket, Readable, Send
    <2>2. Said' = Said
        BY <1>5, <2>1
    <2> QED
        BY <1>3, <2>1, <2>2 DEF Session!Next
<1>10. CASE HangUp
    BY <1>1, <1>3, <1>10 DEF HangUp, Readable, history, Session!Next
<1>11. CASE RecvEof
    <2>1. proc = "running" /\ UNCHANGED curr_state
        BY <1>11 DEF RecvEof, Readable
    <2>2. CASE curr_state = "OPEN" /\ Send("ERR", display_name, "running")
        BY <1>4, <2>1, <2>2 DEF Talking
    <2>3. CASE UNCHANGED <<proc, sent>>
        BY <1>2, <2>1, <2>3
    <2>4. CASE proc' = "crashed" /\ sent' = sent
        BY <1>1, <1>3, <2>1, <2>4 DEF Session!Next
    <2> QED
        BY <1>11, <2>2, <2>3, <2>4 DEF RecvEof
<1>12. ASSUME NEW k \in 1..Len(inbound), AuthRecv(k)
       PROVE  [Session!Next]_(Session!sessionVars)
    <2>1. proc = "running" /\ curr_state = "AUTH" /\ link # "reset"
        BY <1>12 DEF AuthRecv, Recv, Readable
    <2>2. CASE curr_state' = "OPEN" /\ UNCHANGED <<proc, sent>>
        <3>1. Session!Accept
            BY <1>1, <2>1, <2>2 DEF SessionState, Session!Accept
        <3> QED
            BY <3>1 DEF Session!Next
    <2>3. CASE curr_state' = "START" /\ UNCHANGED <<proc, sent>>
        <3>1. Session!Refuse
            BY <1>1, <2>1, <2>3 DEF SessionState, Session!Refuse
        <3> QED
            BY <3>1 DEF Session!Next
    <2>4. CASE Send("BYE", NoName, "running") /\ UNCHANGED curr_state
        <3>1. Said' = Said /\ proc' = proc
            BY <1>5, <2>1, <2>4 DEF Send
        <3> QED
            BY <2>4, <3>1 DEF SessionState
    <2>5. CASE UNCHANGED <<curr_state, proc, sent>>
        BY <1>2, <2>5
    <2> QED
        BY <1>12, <2>2, <2>3, <2>4, <2>5 DEF AuthRecv
<1>13. ASSUME NEW k \in 1..Len(inbound), OpenRecv(k)
       PROVE  [Session!Next]_(Session!sessionVars)
    <2>1. proc = "running" /\ curr_state = "OPEN" /\ UNCHANGED curr_state
        BY <1>13 DEF OpenRecv, Recv, Readable
    <2>2. CASE Send("ERR", display_name, "running")
        BY <1>4, <2>1, <2>2 DEF Talking
    <2>3. CASE UNCHANGED <<proc, sent>>
        BY <1>2, <2>1, <2>3
    <2> QED
        BY <1>13, <2>2, <2>3 DEF OpenRecv
<1> QED
    BY <1>6, <1>7, <1>8, <1>9, <1>10, <1>11, <1>12, <1>13 DEF Next, SocketNext

\* fsm_tcp implements the session: logged in only by an answer to /auth, talking
\* only while logged in, one message at a time, and nothing after the end,
\* although the socket goes on being read.
THEOREM Refinement == Spec => SessionSpec
<1>1. Init => Session!Init
    BY DEF Init, SessionState, Said, Session!Init
<1>2. ASSUME IInv, [Next]_vars PROVE [Session!Next]_(Session!sessionVars)
    BY <1>2, StepRefines
<1> QED
    BY <1>1, <1>2, Invariance, PTL DEF Spec, SessionSpec, Session!Spec
=============================================================================
