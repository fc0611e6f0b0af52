---------------------------- MODULE MCKeyFilter ----------------------------
(* An instance of KeyFilter for TLC. *)
EXTENDS KeyFilter

(* 1, 2 and 3 are upper case, 12 is the lower case of 2. *)
MCtoupper == [c \in {1, 2, 3, 12} |-> IF c = 12 THEN 2 ELSE c]

(* All addresses of up to two of three letters, and one of each length around *)
(* the limit.                                                                 *)
Short == {<<>>} \cup {<<a>> : a \in {1, 3, 12}}
               \cup {<<a, b>> : a \in {1, 12}, b \in {1, 2, 3}}
MCLines == Short \cup {<<2, 1, 3>>, <<2, 1, 3, 1>>, <<2, 1, 3, 1, 1>>}

MCArguments == {<<>>, <<<<2>>>>, <<<<12, 1>>>>, <<<<2, 1, 3>>>>, <<<<2, 1, 3, 1>>>>}
=============================================================================
