----------------------------- MODULE ChatSession ----------------------------
(***************************************************************************)
(* The session of the chat client of ipk/1 as its user sees it, whichever  *)
(* transport carries it: logged out, waiting for the answer to /auth,      *)
(* logged in, over. ChatTcp and ChatUdp implement it.                      *)
(***************************************************************************)
VARIABLES
    session,    \* "out", "asked", "in" or "over"
    said        \* the MSG, JOIN and ERR messages handed to the network

sessionVars == <<session, said>>

Init == session = "out" /\ said = {}

Ask == session = "out" /\ session' = "asked" /\ UNCHANGED said

Refuse == session = "asked" /\ session' = "out" /\ UNCHANGED said

Accept == session = "asked" /\ session' = "in" /\ UNCHANGED said

\* One thing is said at a time, and only while logged in.
Talk ==
    /\ session = "in" /\ UNCHANGED session
    /\ \E m \in said' : said' = said \cup {m}

\* By the user, by the server or because of a fault; there is no way back.
Leave == session # "over" /\ session' = "over" /\ UNCHANGED said

Next == Ask \/ Refuse \/ Accept \/ Talk \/ Leave

Spec == Init /\ [][Next]_sessionVars
=============================================================================
