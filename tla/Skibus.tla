------------------------------- MODULE Skibus -------------------------------
(***************************************************************************)
(* The ski bus of ios/skibus: one bus process and one process per skier,   *)
(* synchronised by POSIX semaphores and sharing a few counters.            *)
(*                                                                         *)
(* One action per step between two synchronisation points of actors.c.     *)
(* `waiting` is raced on: an arriving skier updates it under `mutex`, a    *)
(* boarding skier without it, so each update is a load and a store.        *)
(* The other counters are touched only by the holder of the boarding or    *)
(* leaving turn (invariant TurnIsUnique), so their updates are one step.   *)
(***************************************************************************)
EXTENDS Integers, FiniteSets

CONSTANTS
    Skiers,     \* skier_id of every skier; num_skiers of them
    NumStops,   \* cli_args.num_stops
    Capacity,   \* cli_args.capacity
    Tls, Tbs    \* the values of cli_args.tl and cli_args.tb considered

ASSUME SkiersAssumption == IsFiniteSet(Skiers) /\ "bus" \notin Skiers
ASSUME StopsAssumption == NumStops \in Nat \ {0}
ASSUME CapacityAssumption == Capacity \in Nat \ {0}
ASSUME TimesAssumption == Tls \subseteq Nat /\ Tbs \subseteq Nat

VARIABLES
    write_sync, mutex, all_aboard, let_skiers_leave,  \* semaphores
    bus_stops,              \* a semaphore per stop
    A,                      \* number of the last line taken
    num_skiers_onboard, num_skiers_skiing,
    waiting,                \* per stop, the counter of skiers waiting there
    bus, bus_stop,          \* the bus process: where it is, its loop variable
    skier, stop, reg,       \* each skier: where it is, its stop, its register
    num,                    \* the line number a process is about to print
    printed,                \* number on the last line of proj2.out
    tl, tb                  \* cli_args.tl, cli_args.tb

sems == <<write_sync, mutex, all_aboard, let_skiers_leave, bus_stops>>
counters == <<num_skiers_onboard, num_skiers_skiing, waiting>>
log == <<A, num, printed>>
args == <<tl, tb>>
busVars == <<bus, bus_stop>>
skierVars == <<skier, stop, reg>>
vars == <<sems, counters, log, args, busVars, skierVars>>

Stops == 1..NumStops
Procs == Skiers \cup {"bus"}
num_skiers == Cardinality(Skiers)

BusPrints == {"started", "arrived", "leaving", "final", "leaving_final", "finish"}
BusLabels == BusPrints \cup
    {"drive", "check", "capacity", "aboard", "drive_final", "open", "empty",
     "done", "killed"}
SkierPrints == {"started", "arrived", "boarding", "going_to_ski"}
SkierLabels == SkierPrints \cup
    {"breakfast", "count", "count_store", "wait", "load", "store", "pass",
     "ride", "off", "done", "killed"}

(***************************************************************************)
(* main: shared memory and semaphores are created before any fork, so a    *)
(* process that is not forked yet is one that has not taken its first step.*)
(***************************************************************************)
Init ==
    /\ write_sync = 1 /\ mutex = 1 /\ all_aboard = 0 /\ let_skiers_leave = 0
    /\ bus_stops = [b \in Stops |-> 0]
    /\ A = 0 /\ num = [p \in Procs |-> 0] /\ printed = 0
    /\ num_skiers_onboard = 0 /\ num_skiers_skiing = 0
    /\ waiting = [b \in Stops |-> 0]
    /\ bus = "started" /\ bus_stop = 1
    /\ skier = [s \in Skiers |-> "started"]
    /\ stop = [s \in Skiers |-> 1] /\ reg = [s \in Skiers |-> 0]
    /\ tl \in Tls /\ tb \in Tbs

----------------------------------------------------------------------------
(* Printing a line: lock write_sync and take a number; print it and unlock. *)

\* Mutant: the number is taken without waiting for write_sync.
LockWriteUnguarded(p) ==
    /\ num[p] = 0
    /\ write_sync' = IF write_sync > 0 THEN write_sync - 1 ELSE 0
    /\ A' = A + 1
    /\ num' = [num EXCEPT ![p] = A + 1]
    /\ UNCHANGED <<printed, mutex, all_aboard, let_skiers_leave, bus_stops>>

LockWrite(p) ==
    /\ num[p] = 0
    /\ write_sync > 0
    /\ write_sync' = write_sync - 1
    /\ A' = A + 1
    /\ num' = [num EXCEPT ![p] = A + 1]
    /\ UNCHANGED <<printed, mutex, all_aboard, let_skiers_leave, bus_stops>>

UnlockWrite(p) ==
    /\ num[p] # 0
    /\ printed' = num[p]
    /\ num' = [num EXCEPT ![p] = 0]
    /\ write_sync' = write_sync + 1
    /\ UNCHANGED <<A, mutex, all_aboard, let_skiers_leave, bus_stops>>

----------------------------------------------------------------------------
(* skibus_process *)

BusLock ==
    /\ bus \in BusPrints
    /\ LockWrite("bus")
    /\ UNCHANGED <<counters, args, busVars, skierVars>>

BusPrintStarted ==
    /\ bus = "started"
    /\ UnlockWrite("bus")
    /\ bus' = "drive" /\ bus_stop' = 1
    /\ UNCHANGED <<counters, args, skierVars>>

\* usleep(rand() % tb): the division traps when tb is zero.
Ride(from, to) ==
    /\ bus = from
    /\ bus' = IF tb = 0 THEN "killed" ELSE to
    /\ UNCHANGED <<sems, counters, log, args, bus_stop, skierVars>>

BusDrive == Ride("drive", "arrived")

BusPrintArrived ==
    /\ bus = "arrived"
    /\ UnlockWrite("bus")
    /\ bus' = "check"
    /\ UNCHANGED <<counters, args, bus_stop, skierVars>>

\* Mutant: the doors are opened whether or not somebody is waiting.
BusCheckWaitingAlways ==
    /\ bus = "check"
    /\ mutex > 0
    /\ bus' = "capacity"
    /\ UNCHANGED <<sems, counters, log, args, bus_stop, skierVars>>

\* The only access under mutex is one read: lock, read and unlock in a step.
BusCheckWaiting ==
    /\ bus = "check"
    /\ mutex > 0
    /\ bus' = IF waiting[bus_stop] > 0 THEN "capacity" ELSE "leaving"
    /\ UNCHANGED <<sems, counters, log, args, bus_stop, skierVars>>

BusCheckCapacity ==
    /\ bus = "capacity"
    /\ \/ /\ num_skiers_onboard < Capacity
          /\ bus_stops' = [bus_stops EXCEPT ![bus_stop] = @ + 1]
          /\ bus' = "aboard"
       \/ /\ num_skiers_onboard >= Capacity
          /\ bus' = "leaving"
          /\ UNCHANGED bus_stops
    /\ UNCHANGED <<write_sync, mutex, all_aboard, let_skiers_leave,
                   counters, log, args, bus_stop, skierVars>>

BusWait(from, to) ==
    /\ bus = from
    /\ all_aboard > 0
    /\ all_aboard' = all_aboard - 1
    /\ bus' = to
    /\ UNCHANGED <<write_sync, mutex, let_skiers_leave, bus_stops,
                   counters, log, args, bus_stop, skierVars>>

BusAllAboard == BusWait("aboard", "leaving")

\* Mutant: the loop over the stops ends one too early.
BusPrintLeavingShort ==
    /\ bus = "leaving"
    /\ UnlockWrite("bus")
    /\ \/ bus_stop < NumStops - 1 /\ bus' = "drive" /\ bus_stop' = bus_stop + 1
       \/ bus_stop >= NumStops - 1 /\ bus' = "drive_final" /\ UNCHANGED bus_stop
    /\ UNCHANGED <<counters, args, skierVars>>

BusPrintLeaving ==
    /\ bus = "leaving"
    /\ UnlockWrite("bus")
    /\ \/ bus_stop < NumStops /\ bus' = "drive" /\ bus_stop' = bus_stop + 1
       \/ bus_stop = NumStops /\ bus' = "drive_final" /\ UNCHANGED bus_stop
    /\ UNCHANGED <<counters, args, skierVars>>

BusDriveFinal == Ride("drive_final", "final")

BusPrintFinal ==
    /\ bus = "final"
    /\ UnlockWrite("bus")
    /\ bus' = "open"
    /\ UNCHANGED <<counters, args, bus_stop, skierVars>>

BusOpen ==
    /\ bus = "open"
    /\ let_skiers_leave' = let_skiers_leave + 1
    /\ bus' = "empty"
    /\ UNCHANGED <<write_sync, mutex, all_aboard, bus_stops,
                   counters, log, args, bus_stop, skierVars>>

BusAllOff == BusWait("empty", "leaving_final")

BusPrintLeavingFinal ==
    /\ bus = "leaving_final"
    /\ UnlockWrite("bus")
    /\ \/ num_skiers_skiing >= num_skiers /\ bus' = "finish" /\ UNCHANGED bus_stop
       \/ num_skiers_skiing < num_skiers /\ bus' = "drive" /\ bus_stop' = 1
    /\ UNCHANGED <<counters, args, skierVars>>

BusPrintFinish ==
    /\ bus = "finish"
    /\ UnlockWrite("bus")
    /\ bus' = "done"
    /\ UNCHANGED <<counters, args, bus_stop, skierVars>>

BusNext ==
    \/ BusLock \/ BusPrintStarted \/ BusDrive \/ BusPrintArrived
    \/ BusCheckWaiting \/ BusCheckCapacity \/ BusAllAboard \/ BusPrintLeaving
    \/ BusDriveFinal \/ BusPrintFinal \/ BusOpen \/ BusAllOff
    \/ BusPrintLeavingFinal \/ BusPrintFinish

----------------------------------------------------------------------------
(* skier_process *)

SkierLock(s) ==
    /\ skier[s] \in SkierPrints
    /\ LockWrite(s)
    /\ UNCHANGED <<counters, args, busVars, skierVars>>

SkierPrint(s, from, to) ==
    /\ skier[s] = from
    /\ UnlockWrite(s)
    /\ skier' = [skier EXCEPT ![s] = to]
    /\ UNCHANGED <<counters, args, busVars, stop, reg>>

SkierPrintStarted(s) == SkierPrint(s, "started", "breakfast")

\* rand() % num_stops picks the stop; rand() % tl traps when tl is zero.
SkierBreakfast(s) ==
    /\ skier[s] = "breakfast"
    /\ \E b \in Stops : stop' = [stop EXCEPT ![s] = b]
    /\ skier' = [skier EXCEPT ![s] = IF tl = 0 THEN "killed" ELSE "arrived"]
    /\ UNCHANGED <<sems, counters, log, args, busVars, reg>>

SkierPrintArrived(s) == SkierPrint(s, "arrived", "count")

\* (*waiting)++ under mutex: lock and load ...
SkierCountLoad(s) ==
    /\ skier[s] = "count"
    /\ mutex > 0
    /\ mutex' = mutex - 1
    /\ reg' = [reg EXCEPT ![s] = waiting[stop[s]]]
    /\ skier' = [skier EXCEPT ![s] = "count_store"]
    /\ UNCHANGED <<write_sync, all_aboard, let_skiers_leave, bus_stops,
                   counters, log, args, busVars, stop>>

\* ... store and unlock.
SkierCountStore(s) ==
    /\ skier[s] = "count_store"
    /\ waiting' = [waiting EXCEPT ![stop[s]] = reg[s] + 1]
    /\ reg' = [reg EXCEPT ![s] = 0]
    /\ mutex' = mutex + 1
    /\ skier' = [skier EXCEPT ![s] = "wait"]
    /\ UNCHANGED <<write_sync, all_aboard, let_skiers_leave, bus_stops,
                   num_skiers_onboard, num_skiers_skiing,
                   log, args, busVars, stop>>

SkierBoard(s) ==
    /\ skier[s] = "wait"
    /\ bus_stops[stop[s]] > 0
    /\ bus_stops' = [bus_stops EXCEPT ![stop[s]] = @ - 1]
    /\ num_skiers_onboard' = num_skiers_onboard + 1
    /\ num_skiers_skiing' = num_skiers_skiing + 1
    /\ skier' = [skier EXCEPT ![s] = "boarding"]
    /\ UNCHANGED <<write_sync, mutex, all_aboard, let_skiers_leave, waiting,
                   log, args, busVars, stop, reg>>

SkierPrintBoarding(s) == SkierPrint(s, "boarding", "load")

\* --(*waiting) without mutex: load ...
SkierPassLoad(s) ==
    /\ skier[s] = "load"
    /\ reg' = [reg EXCEPT ![s] = waiting[stop[s]]]
    /\ skier' = [skier EXCEPT ![s] = "store"]
    /\ UNCHANGED <<sems, counters, log, args, busVars, stop>>

\* ... store ...
SkierPassStore(s) ==
    /\ skier[s] = "store"
    /\ waiting' = [waiting EXCEPT ![stop[s]] = reg[s] - 1]
    /\ reg' = [reg EXCEPT ![s] = 0]
    /\ skier' = [skier EXCEPT ![s] = "pass"]
    /\ UNCHANGED <<sems, num_skiers_onboard, num_skiers_skiing,
                   log, args, busVars, stop>>

\* Mutant: the last seat is given away twice.
SkierPassOffByOne(s) ==
    /\ skier[s] = "pass"
    /\ \/ /\ waiting[stop[s]] = 0 \/ num_skiers_onboard > Capacity
          /\ all_aboard' = all_aboard + 1
          /\ UNCHANGED bus_stops
       \/ /\ waiting[stop[s]] # 0 /\ num_skiers_onboard <= Capacity
          /\ bus_stops' = [bus_stops EXCEPT ![stop[s]] = @ + 1]
          /\ UNCHANGED all_aboard
    /\ skier' = [skier EXCEPT ![s] = "ride"]
    /\ UNCHANGED <<write_sync, mutex, let_skiers_leave,
                   counters, log, args, busVars, stop, reg>>

\* Mutant: the bus is sent on and the next skier let in.
SkierPassBoth(s) ==
    /\ skier[s] = "pass"
    /\ all_aboard' = all_aboard + 1
    /\ bus_stops' = IF waiting[stop[s]] = 0 \/ num_skiers_onboard >= Capacity
                    THEN bus_stops ELSE [bus_stops EXCEPT ![stop[s]] = @ + 1]
    /\ skier' = [skier EXCEPT ![s] = "ride"]
    /\ UNCHANGED <<write_sync, mutex, let_skiers_leave,
                   counters, log, args, busVars, stop, reg>>

\* ... and hand the turn to the bus or to the next skier at the stop. The
\* build (no -O flag) tests the counter by loading it again.
SkierPass(s) ==
    /\ skier[s] = "pass"
    /\ \/ /\ waiting[stop[s]] = 0 \/ num_skiers_onboard >= Capacity
          /\ all_aboard' = all_aboard + 1
          /\ UNCHANGED bus_stops
       \/ /\ waiting[stop[s]] # 0 /\ num_skiers_onboard < Capacity
          /\ bus_stops' = [bus_stops EXCEPT ![stop[s]] = @ + 1]
          /\ UNCHANGED all_aboard
    /\ skier' = [skier EXCEPT ![s] = "ride"]
    /\ UNCHANGED <<write_sync, mutex, let_skiers_leave,
                   counters, log, args, busVars, stop, reg>>

SkierGetOff(s) ==
    /\ skier[s] = "ride"
    /\ let_skiers_leave > 0
    /\ let_skiers_leave' = let_skiers_leave - 1
    /\ num_skiers_onboard' = num_skiers_onboard - 1
    /\ skier' = [skier EXCEPT ![s] = "going_to_ski"]
    /\ UNCHANGED <<write_sync, mutex, all_aboard, bus_stops,
                   num_skiers_skiing, waiting, log, args, busVars, stop, reg>>

SkierPrintGoingToSki(s) == SkierPrint(s, "going_to_ski", "off")

\* Mutant: the first skier off tells the bus that all are.
SkierLetNextOffEarly(s) ==
    /\ skier[s] = "off"
    /\ all_aboard' = all_aboard + 1
    /\ skier' = [skier EXCEPT ![s] = "done"]
    /\ UNCHANGED <<write_sync, mutex, let_skiers_leave, bus_stops,
                   counters, log, args, busVars, stop, reg>>

\* Mutant: the last skier off does not tell the bus.
SkierLetNextOffSilent(s) ==
    /\ skier[s] = "off"
    /\ let_skiers_leave' =
          IF num_skiers_onboard # 0 THEN let_skiers_leave + 1 ELSE let_skiers_leave
    /\ skier' = [skier EXCEPT ![s] = "done"]
    /\ UNCHANGED <<write_sync, mutex, all_aboard, bus_stops,
                   counters, log, args, busVars, stop, reg>>

SkierLetNextOff(s) ==
    /\ skier[s] = "off"
    /\ \/ /\ num_skiers_onboard = 0
          /\ all_aboard' = all_aboard + 1
          /\ UNCHANGED let_skiers_leave
       \/ /\ num_skiers_onboard # 0
          /\ let_skiers_leave' = let_skiers_leave + 1
          /\ UNCHANGED all_aboard
    /\ skier' = [skier EXCEPT ![s] = "done"]
    /\ UNCHANGED <<write_sync, mutex, bus_stops,
                   counters, log, args, busVars, stop, reg>>

SkierNext(s) ==
    \/ SkierLock(s) \/ SkierPrintStarted(s) \/ SkierBreakfast(s)
    \/ SkierPrintArrived(s) \/ SkierCountLoad(s) \/ SkierCountStore(s)
    \/ SkierBoard(s) \/ SkierPrintBoarding(s) \/ SkierPassLoad(s)
    \/ SkierPassStore(s) \/ SkierPass(s) \/ SkierGetOff(s)
    \/ SkierPrintGoingToSki(s) \/ SkierLetNextOff(s)

----------------------------------------------------------------------------
Next == BusNext \/ \E s \in Skiers : SkierNext(s)

Spec == Init /\ [][Next]_vars

\* Every process is scheduled for as long as it can run.
FairSpec == Spec /\ WF_vars(BusNext) /\ \A s \in Skiers : WF_vars(SkierNext(s))

----------------------------------------------------------------------------
(* Properties *)

Boarding(s) == skier[s] \in {"boarding", "load", "store", "pass"}
Leaving(s) == skier[s] \in {"going_to_ski", "off"}
Onboard == {s \in Skiers : Boarding(s) \/ skier[s] = "ride"}
Boarded == {s \in Skiers : Boarding(s) \/ Leaving(s) \/ skier[s] \in {"ride", "done"}}

\* Types: the semaphores are binary, although sem_post (semaphors.c) would raise
\* them without bound.
TypeOK ==
    /\ write_sync \in {0, 1} /\ mutex \in {0, 1}
    /\ all_aboard \in {0, 1} /\ let_skiers_leave \in {0, 1}
    /\ bus_stops \in [Stops -> {0, 1}]
    /\ A \in Nat /\ num \in [Procs -> Nat] /\ printed \in Nat
    /\ num_skiers_onboard \in Int /\ num_skiers_skiing \in Int
    /\ waiting \in [Stops -> Int]
    /\ bus \in BusLabels /\ bus_stop \in Stops
    /\ skier \in [Skiers -> SkierLabels]
    /\ stop \in [Skiers -> Stops] /\ reg \in [Skiers -> Int]
    /\ tl \in Tls /\ tb \in Tbs

\* actors.c never locks num_skiers_onboard and num_skiers_skiing: they are safe
\* only if a single token or a single skier holds the turn to board or leave.
InTurn(s) == Boarding(s) \/ Leaving(s)
NoTurn == \A s \in Skiers : ~InTurn(s)
NoStopToken == \A b \in Stops : bus_stops[b] = 0

TurnIsUnique ==
    /\ \A s, r \in Skiers : InTurn(s) /\ InTurn(r) => s = r
    /\ \A b, c \in Stops : bus_stops[b] = 1 /\ bus_stops[c] = 1 => b = c
    /\ ~NoStopToken => NoTurn
    /\ all_aboard = 1 \/ let_skiers_leave = 1 => NoTurn /\ NoStopToken
    /\ all_aboard = 0 \/ let_skiers_leave = 0

\* Skiers board only the bus that stands at their own stop with its doors open
\* (test_boarding_at_stop) and leave it only at the final stop
\* (test_going_to_ski_final); a token is never left behind for later.
BoardsAtStop ==
    /\ \A b \in Stops : bus_stops[b] = 1 => bus = "aboard" /\ bus_stop = b
    /\ \A s \in Skiers : Boarding(s) => bus = "aboard" /\ bus_stop = stop[s]
    /\ \A s \in Skiers : Leaving(s) => bus = "empty"
    /\ let_skiers_leave = 1 => bus = "empty"
    /\ all_aboard = 1 => bus \in {"aboard", "empty"}

\* The lines of proj2.out are numbered 1, 2, ... in the order they are written
\* (test_log_numbering): whoever has taken a number writes the next line.
LogInOrder ==
    /\ \A p \in Procs : num[p] # 0 => write_sync = 0 /\ num[p] = printed + 1
    /\ A = printed + 1 - write_sync
    /\ \A p, q \in Procs : num[p] # 0 /\ num[q] # 0 => p = q

\* The counters kept without a lock are exact and the bus is never overfull.
OnboardExact ==
    /\ num_skiers_onboard = Cardinality(Onboard)
    /\ num_skiers_skiing = Cardinality(Boarded)
    /\ num_skiers_onboard <= Capacity

\* However the two racing updates interleave, the counter of a stop never
\* drops below zero: `--(*waiting) == 0` cannot step over zero.
WaitingNotNegative == \A b \in Stops : waiting[b] >= 0

\* The bus writes its last line after every skier has written his
\* (test_file_end), although num_skiers_skiing is raised on boarding.
FinishLast ==
    bus \in {"finish", "done"} => \A s \in Skiers : skier[s] = "done"

(* What the proofs need besides: the strengthening of the invariants above. *)

MutexHeld ==
    /\ \A s \in Skiers : skier[s] = "count_store" => mutex = 0
    /\ \A s, r \in Skiers :
          skier[s] = "count_store" /\ skier[r] = "count_store" => s = r

\* A token at a stop promises room in the bus.
RoomForToken == \A b \in Stops : bus_stops[b] = 1 => num_skiers_onboard < Capacity

\* A token at a stop, and the skier who took it, are counted there.
TokenIsCounted ==
    /\ bus = "capacity" => waiting[bus_stop] >= 1
    /\ \A b \in Stops : bus_stops[b] = 1 => waiting[b] >= 1
    /\ \A s \in Skiers : skier[s] \in {"boarding", "load"} => waiting[stop[s]] >= 1
    /\ \A s \in Skiers : reg[s] >= 0 /\ (skier[s] = "store" => reg[s] >= 1)

\* The bus is told to leave the final stop only when it is empty.
EmptyWhenTold ==
    bus = "leaving_final" \/ (bus = "empty" /\ all_aboard = 1) => num_skiers_onboard = 0

Round ==
    /\ bus = "started" => bus_stop = 1
    /\ bus \in {"drive_final", "final", "open", "empty", "leaving_final"} => bus_stop = NumStops
    /\ bus \notin {"started", "drive", "killed"} => tb # 0

IInv ==
    /\ TypeOK /\ TurnIsUnique /\ BoardsAtStop /\ LogInOrder /\ OnboardExact
    /\ WaitingNotNegative /\ FinishLast
    /\ MutexHeld /\ RoomForToken /\ TokenIsCounted /\ EmptyWhenTold /\ Round

AllDone == bus = "done" /\ \A s \in Skiers : skier[s] = "done"
Trapped == bus = "killed" \/ \E s \in Skiers : skier[s] = "killed"

\* The bus waits at the final stop to be told that the last skier got off, but
\* brought nobody.
EmptyAtFinal == bus = "empty" /\ let_skiers_leave = 1 /\ Onboard = {}

\* The bus waits for a skier to board at a stop where nobody is or will come.
NobodyToBoard ==
    /\ bus = "aboard" /\ bus_stops[bus_stop] = 1
    /\ \A s \in Skiers :
          \/ skier[s] \in {"ride", "done"}
          \/ stop[s] # bus_stop /\ skier[s] \in {"arrived", "count", "count_store", "wait"}

\* Every run ends with everyone on the slope, or in one of the two states in
\* which the bus waits for a skier who does not exist, or with a trap: there is
\* no other way for the processes to wait on each other.
Progress == <>(AllDone \/ EmptyAtFinal \/ NobodyToBoard \/ Trapped)

\* CHANGELOG.md: "The program is able to solve the synchronization problem":
\* all skiers get to the slope and the bus finishes.
AllGetToSlope == <>AllDone

----------------------------------------------------------------------------
(* The processes implement the trip. *)

PlaceOf(s) ==
    CASE skier[s] \in {"started", "breakfast"} -> "home"
      [] s \in Onboard -> "bus"
      [] Leaving(s) \/ skier[s] = "done" -> "slope"
      [] OTHER -> "out"    \* on the way to the stop (or killed), or waiting

BusAt ==
    CASE bus \in {"check", "capacity", "aboard", "leaving"} -> "stop"
      [] bus \in {"open", "empty", "leaving_final"} -> "final"
      [] bus = "done" -> "end"
      [] OTHER -> "road"

\* BusPrintLeavingFinal ends a round: the next one starts at the first stop.
\* A zero tb kills the bus on its first ride.
LastStop ==
    CASE bus \in {"started", "finish", "done"} -> 0
      [] bus \in {"drive", "arrived", "killed"} -> bus_stop - 1
      [] OTHER -> bus_stop

Fits(group) == Cardinality(group) <= Capacity

Trip == INSTANCE SkiTrip
    WITH place <- [s \in Skiers |-> PlaceOf(s)], at <- BusAt, last <- LastStop

\* Every interleaving of the processes is a trip as the abstract bus makes it:
\* stops in order, boarding at the own stop and within the capacity, nobody
\* carried past the final stop, no finish before the last skier.
TripSpec == Trip!Spec

=============================================================================
