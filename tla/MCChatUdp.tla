----------------------------- MODULE MCChatUdp ------------------------------
(* Instances of ChatUdp for TLC. *)
EXTENDS ChatUdp
=============================================================================
