------------------------------ MODULE MCUartRx ------------------------------
(* An instance of UartRx for TLC. *)
EXTENDS UartRx

(* The bits of a byte, the lowest first. *)
Byte(n) == [i \in 0 .. 7 |-> (n \div 2^i) % 2]

(* All zeros and all ones, a lone lowest and a lone highest bit, and the two  *)
(* bytes of the testbench whose bits alternate.                               *)
MCBytes == {Byte(n) : n \in {0, 255, 1, 128, 85, 170}}
=============================================================================
