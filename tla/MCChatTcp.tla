----------------------------- MODULE MCChatTcp ------------------------------
(* Instances of ChatTcp for TLC. *)
EXTENDS ChatTcp
=============================================================================
