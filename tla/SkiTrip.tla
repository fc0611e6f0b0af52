------------------------------ MODULE SkiTrip -------------------------------
(***************************************************************************)
(* What the ski bus promises, without processes, semaphores or counters:   *)
(* the bus goes round the stops in order and then to the final stop;       *)
(* skiers board at their own stop while there is room, get off at the      *)
(* final stop, and the bus does not leave it before everyone is off.       *)
(***************************************************************************)
EXTENDS Integers

CONSTANTS
    Skiers, NumStops,
    Fits(_)  \* which sets of skiers fit in the bus

VARIABLES
    place,  \* where each skier is
    stop,   \* the stop each skier has chosen
    at,     \* where the bus is
    last    \* the stop it is at or has left last, 0 before the first

tripVars == <<place, stop, at, last>>

OnBus == {s \in Skiers : place[s] = "bus"}

Init ==
    /\ place = [s \in Skiers |-> "home"]
    /\ stop = [s \in Skiers |-> 1]
    /\ at = "road" /\ last = 0

SetOut(s) ==
    /\ place[s] = "home"
    /\ place' = [place EXCEPT ![s] = "out"]
    /\ \E b \in 1..NumStops : stop' = [stop EXCEPT ![s] = b]
    /\ UNCHANGED <<at, last>>

ArriveAtStop ==
    /\ at = "road" /\ last < NumStops
    /\ at' = "stop" /\ last' = last + 1
    /\ UNCHANGED <<place, stop>>

Board(s) ==
    /\ at = "stop" /\ last = stop[s]
    /\ place[s] = "out"
    /\ Fits(OnBus \cup {s})
    /\ place' = [place EXCEPT ![s] = "bus"]
    /\ UNCHANGED <<stop, at, last>>

LeaveStop ==
    /\ at = "stop"
    /\ at' = "road"
    /\ UNCHANGED <<place, stop, last>>

ArriveAtFinal ==
    /\ at = "road" /\ last = NumStops
    /\ at' = "final"
    /\ UNCHANGED <<place, stop, last>>

GetOff(s) ==
    /\ at = "final"
    /\ place[s] = "bus"
    /\ place' = [place EXCEPT ![s] = "slope"]
    /\ UNCHANGED <<stop, at, last>>

LeaveFinal ==
    /\ at = "final"
    /\ OnBus = {}
    /\ at' = "road" /\ last' = 0
    /\ UNCHANGED <<place, stop>>

Finish ==
    /\ at = "road" /\ last = 0
    /\ \A s \in Skiers : place[s] = "slope"
    /\ at' = "end"
    /\ UNCHANGED <<place, stop, last>>

Next ==
    \/ ArriveAtStop \/ LeaveStop \/ ArriveAtFinal \/ LeaveFinal \/ Finish
    \/ \E s \in Skiers : SetOut(s) \/ Board(s) \/ GetOff(s)

Spec == Init /\ [][Next]_tripVars
=============================================================================
