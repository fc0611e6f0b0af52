---------------------------- MODULE MCSkibusRuns ----------------------------
(* An instance of SkibusRuns for TLC: one of the five names without a number, *)
(* since all five are created and unlinked in a row by every run.             *)
EXTENDS SkibusRuns

MCFixedNames == <<"write_sync">>
=============================================================================
