---------------------------- MODULE SkibusProofs ----------------------------
(***************************************************************************)
(* The invariants of Skibus hold for any number of skiers, stops and seats,*)
(* the processes implement the trip of SkiTrip, and they never wait on     *)
(* each other.                                                             *)
(*                                                                         *)
(* IInv is inductive. Its control part says who holds the turn; it needs   *)
(* no counting. Its counting part says that num_skiers_onboard and         *)
(* num_skiers_skiing are the sizes of two sets of skiers, and only the     *)
(* holder of the turn changes these sets.                                  *)
(***************************************************************************)
EXTENDS Skibus, FiniteSetTheorems, TLAPS

Control ==
    /\ TypeOK /\ TurnIsUnique /\ BoardsAtStop /\ LogInOrder
    /\ WaitingNotNegative /\ MutexHeld /\ RoomForToken /\ TokenIsCounted
    /\ EmptyWhenTold /\ Round

LEMMA InitIInv == Init => IInv
<1> SUFFICES ASSUME Init PROVE IInv
    OBVIOUS
<1>1. Control
    BY StopsAssumption, CapacityAssumption, TimesAssumption
    DEF Init, Control, TypeOK, TurnIsUnique, BoardsAtStop, LogInOrder,
        WaitingNotNegative, MutexHeld, RoomForToken, TokenIsCounted,
        EmptyWhenTold, Round, Stops, Procs, Boarding, Leaving, InTurn, NoTurn,
        NoStopToken, BusPrints, SkierPrints, BusLabels, SkierLabels
<1>2. Onboard = {} /\ Boarded = {}
    BY DEF Init, Onboard, Boarded, Boarding, Leaving
<1>3. OnboardExact
    BY <1>2, FS_EmptySet, CapacityAssumption DEF Init, OnboardExact
<1>4. FinishLast
    BY DEF Init, FinishLast
<1> QED
    BY <1>1, <1>3, <1>4 DEF Control, IInv

----------------------------------------------------------------------------
(* The control part. *)

LEMMA BusControl == ASSUME IInv, BusNext PROVE Control'
<1> USE StopsAssumption, CapacityAssumption
    DEF IInv, TypeOK, Stops, Procs, sems, counters, log, args, busVars,
        skierVars, Boarding, Leaving, InTurn, NoTurn, NoStopToken, BusPrints,
        BusLabels, LockWrite, UnlockWrite, Ride, BusWait
<1> USE DEF Control, TurnIsUnique, BoardsAtStop, LogInOrder,
        WaitingNotNegative, MutexHeld, RoomForToken, TokenIsCounted,
        EmptyWhenTold, Round
<1>1. CASE BusLock
    BY <1>1 DEF BusLock
<1>2. CASE BusPrintStarted
    BY <1>2 DEF BusPrintStarted
<1>3. CASE BusDrive
    BY <1>3 DEF BusDrive
<1>4. CASE BusPrintArrived
    BY <1>4 DEF BusPrintArrived
<1>5. CASE BusCheckWaiting
    BY <1>5 DEF BusCheckWaiting
<1>6. CASE BusCheckCapacity
    <2>1. TypeOK' /\ MutexHeld' /\ LogInOrder' /\ Round' /\ EmptyWhenTold'
        BY <1>6 DEF BusCheckCapacity
    <2>2. TurnIsUnique' /\ BoardsAtStop'
        BY <1>6 DEF BusCheckCapacity
    <2>3. WaitingNotNegative' /\ TokenIsCounted'
        BY <1>6 DEF BusCheckCapacity
    <2>4. RoomForToken'
        BY <1>6 DEF BusCheckCapacity
    <2> QED
        BY <2>1, <2>2, <2>3, <2>4
<1>7. CASE BusAllAboard
    BY <1>7 DEF BusAllAboard
<1>8. CASE BusPrintLeaving
    BY <1>8 DEF BusPrintLeaving
<1>9. CASE BusDriveFinal
    BY <1>9 DEF BusDriveFinal
<1>10. CASE BusPrintFinal
    BY <1>10 DEF BusPrintFinal
<1>11. CASE BusOpen
    BY <1>11 DEF BusOpen
<1>12. CASE BusAllOff
    BY <1>12 DEF BusAllOff
<1>13. CASE BusPrintLeavingFinal
    BY <1>13 DEF BusPrintLeavingFinal
<1>14. CASE BusPrintFinish
    BY <1>14 DEF BusPrintFinish
<1> QED
    BY <1>1, <1>2, <1>3, <1>4, <1>5, <1>6, <1>7,
       <1>8, <1>9, <1>10, <1>11, <1>12, <1>13, <1>14 DEF BusNext

LEMMA SkierControl == ASSUME IInv, NEW s \in Skiers, SkierNext(s) PROVE Control'
<1> USE SkiersAssumption, StopsAssumption, CapacityAssumption
    DEF IInv, TypeOK, Stops, Procs, sems, counters, log, args, busVars,
        skierVars, Boarding, Leaving, InTurn, NoTurn, NoStopToken, SkierPrints,
        SkierLabels, LockWrite, UnlockWrite, SkierPrint
<1>1. CASE SkierLock(s)
    <2>1. TypeOK' /\ MutexHeld' /\ LogInOrder' /\ Round'
        BY <1>1 DEF SkierLock, MutexHeld, LogInOrder, Round,
               TurnIsUnique, BoardsAtStop
    <2>2. TurnIsUnique' /\ BoardsAtStop'
        BY <1>1 DEF SkierLock, TurnIsUnique, BoardsAtStop
    <2>3. WaitingNotNegative' /\ TokenIsCounted'
        BY <1>1 DEF SkierLock, WaitingNotNegative, TokenIsCounted,
               TurnIsUnique, BoardsAtStop
    <2>4. RoomForToken' /\ EmptyWhenTold'
        BY <1>1 DEF SkierLock, RoomForToken, EmptyWhenTold,
               TurnIsUnique, BoardsAtStop, OnboardExact
    <2> QED
        BY <2>1, <2>2, <2>3, <2>4 DEF Control
<1>2. CASE SkierPrintStarted(s)
    <2>1. TypeOK' /\ MutexHeld' /\ LogInOrder' /\ Round'
        BY <1>2 DEF SkierPrintStarted, MutexHeld, LogInOrder, Round,
               TurnIsUnique, BoardsAtStop
    <2>2. TurnIsUnique' /\ BoardsAtStop'
        BY <1>2 DEF SkierPrintStarted, TurnIsUnique, BoardsAtStop
    <2>3. WaitingNotNegative' /\ TokenIsCounted'
        BY <1>2 DEF SkierPrintStarted, WaitingNotNegative, TokenIsCounted,
               TurnIsUnique, BoardsAtStop
    <2>4. RoomForToken' /\ EmptyWhenTold'
        BY <1>2 DEF SkierPrintStarted, RoomForToken, EmptyWhenTold,
               TurnIsUnique, BoardsAtStop, OnboardExact
    <2> QED
        BY <2>1, <2>2, <2>3, <2>4 DEF Control
<1>3. CASE SkierBreakfast(s)
    <2>1. TypeOK' /\ MutexHeld' /\ LogInOrder' /\ Round'
        BY <1>3 DEF SkierBreakfast, MutexHeld, LogInOrder, Round,
               TurnIsUnique, BoardsAtStop
    <2>2. TurnIsUnique' /\ BoardsAtStop'
        BY <1>3 DEF SkierBreakfast, TurnIsUnique, BoardsAtStop
    <2>3. WaitingNotNegative' /\ TokenIsCounted'
        BY <1>3 DEF SkierBreakfast, WaitingNotNegative, TokenIsCounted,
               TurnIsUnique, BoardsAtStop
    <2>4. RoomForToken' /\ EmptyWhenTold'
        BY <1>3 DEF SkierBreakfast, RoomForToken, EmptyWhenTold,
               TurnIsUnique, BoardsAtStop, OnboardExact
    <2> QED
        BY <2>1, <2>2, <2>3, <2>4 DEF Control
<1>4. CASE SkierPrintArrived(s)
    <2>1. TypeOK' /\ MutexHeld' /\ LogInOrder' /\ Round'
        BY <1>4 DEF SkierPrintArrived, MutexHeld, LogInOrder, Round,
               TurnIsUnique, BoardsAtStop
    <2>2. TurnIsUnique' /\ BoardsAtStop'
        BY <1>4 DEF SkierPrintArrived, TurnIsUnique, BoardsAtStop
    <2>3. WaitingNotNegative' /\ TokenIsCounted'
        BY <1>4 DEF SkierPrintArrived, WaitingNotNegative, TokenIsCounted,
               TurnIsUnique, BoardsAtStop
    <2>4. RoomForToken' /\ EmptyWhenTold'
        BY <1>4 DEF SkierPrintArrived, RoomForToken, EmptyWhenTold,
               TurnIsUnique, BoardsAtStop, OnboardExact
    <2> QED
        BY <2>1, <2>2, <2>3, <2>4 DEF Control
<1>5. CASE SkierCountLoad(s)
    <2>1. TypeOK' /\ MutexHeld' /\ LogInOrder' /\ Round'
        BY <1>5 DEF SkierCountLoad, MutexHeld, LogInOrder, Round,
               TurnIsUnique, BoardsAtStop
    <2>2. TurnIsUnique' /\ BoardsAtStop'
        BY <1>5 DEF SkierCountLoad, TurnIsUnique, BoardsAtStop
    <2>3. WaitingNotNegative' /\ TokenIsCounted'
        BY <1>5 DEF SkierCountLoad, WaitingNotNegative, TokenIsCounted,
               TurnIsUnique, BoardsAtStop
    <2>4. RoomForToken' /\ EmptyWhenTold'
        BY <1>5 DEF SkierCountLoad, RoomForToken, EmptyWhenTold,
               TurnIsUnique, BoardsAtStop, OnboardExact
    <2> QED
        BY <2>1, <2>2, <2>3, <2>4 DEF Control
<1>6. CASE SkierCountStore(s)
    <2>1. TypeOK' /\ MutexHeld' /\ LogInOrder' /\ Round'
        BY <1>6 DEF SkierCountStore, MutexHeld, LogInOrder, Round,
               TurnIsUnique, BoardsAtStop
    <2>2. TurnIsUnique' /\ BoardsAtStop'
        BY <1>6 DEF SkierCountStore, TurnIsUnique, BoardsAtStop
    <2>3. WaitingNotNegative' /\ TokenIsCounted'
        BY <1>6 DEF SkierCountStore, WaitingNotNegative, TokenIsCounted,
               TurnIsUnique, BoardsAtStop
    <2>4. RoomForToken' /\ EmptyWhenTold'
        BY <1>6 DEF SkierCountStore, RoomForToken, EmptyWhenTold,
               TurnIsUnique, BoardsAtStop, OnboardExact
    <2> QED
        BY <2>1, <2>2, <2>3, <2>4 DEF Control
<1>7. CASE SkierBoard(s)
    <2>1. TypeOK' /\ MutexHeld' /\ LogInOrder' /\ Round'
        BY <1>7 DEF SkierBoard, MutexHeld, LogInOrder, Round,
               TurnIsUnique, BoardsAtStop
    <2>2. TurnIsUnique' /\ BoardsAtStop'
        BY <1>7 DEF SkierBoard, TurnIsUnique, BoardsAtStop
    <2>3. WaitingNotNegative' /\ TokenIsCounted'
        BY <1>7 DEF SkierBoard, WaitingNotNegative, TokenIsCounted,
               TurnIsUnique, BoardsAtStop
    <2>4. RoomForToken' /\ EmptyWhenTold'
        <3>1. NoStopToken'
            BY <1>7 DEF SkierBoard, TurnIsUnique
        <3> QED
            BY <1>7, <3>1 DEF SkierBoard, RoomForToken, EmptyWhenTold, BoardsAtStop
    <2> QED
        BY <2>1, <2>2, <2>3, <2>4 DEF Control
<1>8. CASE SkierPrintBoarding(s)
    <2>1. TypeOK' /\ MutexHeld' /\ LogInOrder' /\ Round'
        BY <1>8 DEF SkierPrintBoarding, MutexHeld, LogInOrder, Round,
               TurnIsUnique, BoardsAtStop
    <2>2. TurnIsUnique' /\ BoardsAtStop'
        BY <1>8 DEF SkierPrintBoarding, TurnIsUnique, BoardsAtStop
    <2>3. WaitingNotNegative' /\ TokenIsCounted'
        BY <1>8 DEF SkierPrintBoarding, WaitingNotNegative, TokenIsCounted,
               TurnIsUnique, BoardsAtStop
    <2>4. RoomForToken' /\ EmptyWhenTold'
        BY <1>8 DEF SkierPrintBoarding, RoomForToken, EmptyWhenTold,
               TurnIsUnique, BoardsAtStop, OnboardExact
    <2> QED
        BY <2>1, <2>2, <2>3, <2>4 DEF Control
<1>9. CASE SkierPassLoad(s)
    <2>1. TypeOK' /\ MutexHeld' /\ LogInOrder' /\ Round'
        BY <1>9 DEF SkierPassLoad, MutexHeld, LogInOrder, Round,
               TurnIsUnique, BoardsAtStop
    <2>2. TurnIsUnique' /\ BoardsAtStop'
        BY <1>9 DEF SkierPassLoad, TurnIsUnique, BoardsAtStop
    <2>3. WaitingNotNegative' /\ TokenIsCounted'
        BY <1>9 DEF SkierPassLoad, WaitingNotNegative, TokenIsCounted,
               TurnIsUnique, BoardsAtStop
    <2>4. RoomForToken' /\ EmptyWhenTold'
        BY <1>9 DEF SkierPassLoad, RoomForToken, EmptyWhenTold,
               TurnIsUnique, BoardsAtStop, OnboardExact
    <2> QED
        BY <2>1, <2>2, <2>3, <2>4 DEF Control
<1>10. CASE SkierPassStore(s)
    <2>1. TypeOK' /\ MutexHeld' /\ LogInOrder' /\ Round'
        BY <1>10 DEF SkierPassStore, MutexHeld, LogInOrder, Round,
               TurnIsUnique, BoardsAtStop
    <2>2. TurnIsUnique' /\ BoardsAtStop'
        BY <1>10 DEF SkierPassStore, TurnIsUnique, BoardsAtStop
    <2>3. WaitingNotNegative' /\ TokenIsCounted'
        BY <1>10 DEF SkierPassStore, WaitingNotNegative, TokenIsCounted,
               TurnIsUnique, BoardsAtStop
    <2>4. RoomForToken' /\ EmptyWhenTold'
        BY <1>10 DEF SkierPassStore, RoomForToken, EmptyWhenTold,
               TurnIsUnique, BoardsAtStop, OnboardExact
    <2> QED
        BY <2>1, <2>2, <2>3, <2>4 DEF Control
<1>11. CASE SkierPass(s)
    <2>1. TypeOK' /\ MutexHeld' /\ LogInOrder' /\ Round'
        BY <1>11 DEF SkierPass, MutexHeld, LogInOrder, Round,
               TurnIsUnique, BoardsAtStop
    <2>2. TurnIsUnique' /\ BoardsAtStop'
        BY <1>11 DEF SkierPass, TurnIsUnique, BoardsAtStop
    <2>3. WaitingNotNegative' /\ TokenIsCounted'
        BY <1>11 DEF SkierPass, WaitingNotNegative, TokenIsCounted,
               TurnIsUnique, BoardsAtStop
    <2>4. RoomForToken' /\ EmptyWhenTold'
        BY <1>11 DEF SkierPass, RoomForToken, EmptyWhenTold,
               TurnIsUnique, BoardsAtStop, OnboardExact
    <2> QED
        BY <2>1, <2>2, <2>3, <2>4 DEF Control
<1>12. CASE SkierGetOff(s)
    <2>1. TypeOK' /\ MutexHeld' /\ LogInOrder' /\ Round'
        BY <1>12 DEF SkierGetOff, MutexHeld, LogInOrder, Round,
               TurnIsUnique, BoardsAtStop
    <2>2. TurnIsUnique' /\ BoardsAtStop'
        BY <1>12 DEF SkierGetOff, TurnIsUnique, BoardsAtStop
    <2>3. WaitingNotNegative' /\ TokenIsCounted'
        BY <1>12 DEF SkierGetOff, WaitingNotNegative, TokenIsCounted,
               TurnIsUnique, BoardsAtStop
    <2>4. RoomForToken' /\ EmptyWhenTold'
        BY <1>12 DEF SkierGetOff, RoomForToken, EmptyWhenTold,
               TurnIsUnique, BoardsAtStop, OnboardExact
    <2> QED
        BY <2>1, <2>2, <2>3, <2>4 DEF Control
<1>13. CASE SkierPrintGoingToSki(s)
    <2>1. TypeOK' /\ MutexHeld' /\ LogInOrder' /\ Round'
        BY <1>13 DEF SkierPrintGoingToSki, MutexHeld, LogInOrder, Round,
               TurnIsUnique, BoardsAtStop
    <2>2. TurnIsUnique' /\ BoardsAtStop'
        BY <1>13 DEF SkierPrintGoingToSki, TurnIsUnique, BoardsAtStop
    <2>3. WaitingNotNegative' /\ TokenIsCounted'
        BY <1>13 DEF SkierPrintGoingToSki, WaitingNotNegative, TokenIsCounted,
               TurnIsUnique, BoardsAtStop
    <2>4. RoomForToken' /\ EmptyWhenTold'
        BY <1>13 DEF SkierPrintGoingToSki, RoomForToken, EmptyWhenTold,
               TurnIsUnique, BoardsAtStop, OnboardExact
    <2> QED
        BY <2>1, <2>2, <2>3, <2>4 DEF Control
<1>14. CASE SkierLetNextOff(s)
    <2>1. TypeOK' /\ MutexHeld' /\ LogInOrder' /\ Round'
        BY <1>14 DEF SkierLetNextOff, MutexHeld, LogInOrder, Round,
               TurnIsUnique, BoardsAtStop
    <2>2. TurnIsUnique' /\ BoardsAtStop'
        BY <1>14 DEF SkierLetNextOff, TurnIsUnique, BoardsAtStop
    <2>3. WaitingNotNegative' /\ TokenIsCounted'
        BY <1>14 DEF SkierLetNextOff, WaitingNotNegative, TokenIsCounted,
               TurnIsUnique, BoardsAtStop
    <2>4. RoomForToken' /\ EmptyWhenTold'
        BY <1>14 DEF SkierLetNextOff, RoomForToken, EmptyWhenTold,
               TurnIsUnique, BoardsAtStop, OnboardExact
    <2> QED
        BY <2>1, <2>2, <2>3, <2>4 DEF Control
<1> QED
    BY <1>1, <1>2, <1>3, <1>4, <1>5, <1>6, <1>7,
       <1>8, <1>9, <1>10, <1>11, <1>12, <1>13, <1>14 DEF SkierNext

----------------------------------------------------------------------------
(* The counting part. *)

\* What a skier's step does to the sets of skiers aboard and ever boarded.
LEMMA SetsAfterBoard ==
    ASSUME TypeOK, NEW s \in Skiers, SkierBoard(s)
    PROVE  /\ s \notin Onboard /\ Onboard' = Onboard \cup {s}
           /\ s \notin Boarded /\ Boarded' = Boarded \cup {s}
BY DEF TypeOK, SkierBoard, Onboard, Boarded, Boarding, Leaving

LEMMA SetsAfterGetOff ==
    ASSUME TypeOK, NEW s \in Skiers, SkierGetOff(s)
    PROVE  s \in Onboard /\ Onboard' = Onboard \ {s} /\ Boarded' = Boarded
BY DEF TypeOK, SkierGetOff, Onboard, Boarded, Boarding, Leaving

LEMMA SetsAreFinite ==
    /\ Onboard \subseteq Skiers /\ IsFiniteSet(Onboard) /\ Cardinality(Onboard) \in Nat
    /\ Boarded \subseteq Skiers /\ IsFiniteSet(Boarded) /\ Cardinality(Boarded) \in Nat
<1>1. Onboard \subseteq Skiers /\ Boarded \subseteq Skiers
    BY DEF Onboard, Boarded
<1> QED
    BY <1>1, SkiersAssumption, FS_Subset, FS_CardinalityType

\* No other step of a skier changes the sets or the counters.
LEMMA OtherSkierSteps ==
    ASSUME TypeOK, NEW s \in Skiers, SkierNext(s), ~SkierBoard(s), ~SkierGetOff(s)
    PROVE  /\ UNCHANGED <<num_skiers_onboard, num_skiers_skiing>>
           /\ Onboard' = Onboard /\ Boarded' = Boarded
<1> USE DEF TypeOK, Onboard, Boarded, Boarding, Leaving, counters, skierVars, SkierPrint
<1>1. CASE SkierLock(s)
    BY <1>1 DEF SkierLock
<1>2. CASE SkierPrintStarted(s)
    BY <1>2 DEF SkierPrintStarted
<1>3. CASE SkierBreakfast(s)
    BY <1>3 DEF SkierBreakfast
<1>4. CASE SkierPrintArrived(s)
    BY <1>4 DEF SkierPrintArrived
<1>5. CASE SkierCountLoad(s)
    BY <1>5 DEF SkierCountLoad
<1>6. CASE SkierCountStore(s)
    BY <1>6 DEF SkierCountStore
<1>7. CASE SkierPrintBoarding(s)
    BY <1>7 DEF SkierPrintBoarding
<1>8. CASE SkierPassLoad(s)
    BY <1>8 DEF SkierPassLoad
<1>9. CASE SkierPassStore(s)
    BY <1>9 DEF SkierPassStore
<1>10. CASE SkierPass(s)
    BY <1>10 DEF SkierPass
<1>11. CASE SkierPrintGoingToSki(s)
    BY <1>11 DEF SkierPrintGoingToSki
<1>12. CASE SkierLetNextOff(s)
    BY <1>12 DEF SkierLetNextOff
<1> QED
    BY <1>1, <1>2, <1>3, <1>4, <1>5, <1>6,
       <1>7, <1>8, <1>9, <1>10, <1>11, <1>12 DEF SkierNext

LEMMA OtherBusSteps ==
    ASSUME BusNext
    PROVE  /\ UNCHANGED <<num_skiers_onboard, num_skiers_skiing>>
           /\ Onboard' = Onboard /\ Boarded' = Boarded
BY DEF BusNext, BusLock, BusPrintStarted, BusDrive, BusPrintArrived,
       BusCheckWaiting, BusCheckCapacity, BusAllAboard, BusPrintLeaving,
       BusDriveFinal, BusPrintFinal, BusOpen, BusAllOff, BusPrintLeavingFinal,
       BusPrintFinish, Ride, BusWait, counters, skierVars, Onboard, Boarded,
       Boarding, Leaving

LEMMA CountStep == ASSUME IInv, Next PROVE OnboardExact'
<1> USE DEF IInv, OnboardExact
<1>1. CASE BusNext
    BY <1>1, OtherBusSteps
<1>2. ASSUME NEW s \in Skiers, SkierNext(s) PROVE OnboardExact'
    <2>1. CASE SkierBoard(s)
        <3>1. num_skiers_onboard < Capacity
            BY <2>1 DEF SkierBoard, RoomForToken, TypeOK, Stops
        <3>2. /\ Cardinality(Onboard') = Cardinality(Onboard) + 1
              /\ Cardinality(Boarded') = Cardinality(Boarded) + 1
            BY <2>1, SetsAfterBoard, SetsAreFinite, FS_AddElement
        <3> QED
            BY <2>1, <3>1, <3>2, SetsAreFinite, CapacityAssumption DEF SkierBoard
    <2>2. CASE SkierGetOff(s)
        <3>1. Cardinality(Onboard') = Cardinality(Onboard) - 1
            BY <2>2, SetsAfterGetOff, SetsAreFinite, FS_RemoveElement
        <3>2. Boarded' = Boarded
            BY <2>2, SetsAfterGetOff
        <3>3. /\ num_skiers_onboard' = num_skiers_onboard - 1
              /\ num_skiers_skiing' = num_skiers_skiing
            BY <2>2 DEF SkierGetOff
        <3> QED
            BY <3>1, <3>2, <3>3, SetsAreFinite, CapacityAssumption
    <2>3. CASE ~SkierBoard(s) /\ ~SkierGetOff(s)
        BY <1>2, <2>3, OtherSkierSteps
    <2> QED
        BY <2>1, <2>2, <2>3
<1> QED
    BY <1>1, <1>2 DEF Next

----------------------------------------------------------------------------
(* The bus finishes last. *)

\* When the bus leaves the final stop for good, everyone has boarded and nobody
\* is aboard or on the way out.
LEMMA FinishStep == ASSUME IInv, Next PROVE FinishLast'
<1> USE DEF IInv, FinishLast
<1>1. CASE BusPrintLeavingFinal
    <2>1. SUFFICES ASSUME bus = "leaving_final", num_skiers_skiing >= num_skiers
                   PROVE  \A s \in Skiers : skier[s] = "done"
        BY <1>1 DEF BusPrintLeavingFinal, skierVars
    <2>2. Onboard = {}
        BY <2>1, SetsAreFinite, FS_EmptySet DEF EmptyWhenTold, OnboardExact
    <2>3. Boarded = Skiers
        BY <2>1, SetsAreFinite, SkiersAssumption, FS_Subset, FS_CardinalityType
        DEF OnboardExact, num_skiers
    <2> QED
        BY <2>1, <2>2, <2>3 DEF BoardsAtStop, Onboard, Boarded
<1>2. CASE BusNext /\ ~BusPrintLeavingFinal
    BY <1>2
    DEF BusNext, BusLock, BusPrintStarted, BusDrive, BusPrintArrived,
        BusCheckWaiting, BusCheckCapacity, BusAllAboard, BusPrintLeaving,
        BusDriveFinal, BusPrintFinal, BusOpen, BusAllOff, BusPrintFinish,
        Ride, BusWait, busVars, skierVars
<1>3. ASSUME NEW s \in Skiers, SkierNext(s) PROVE FinishLast'
    <2>1. bus' = bus /\ skier[s] # "done"
        BY <1>3 DEF SkierNext, SkierLock, SkierPrintStarted, SkierBreakfast,
            SkierPrintArrived, SkierCountLoad, SkierCountStore, SkierBoard,
            SkierPrintBoarding, SkierPassLoad, SkierPassStore, SkierPass,
            SkierGetOff, SkierPrintGoingToSki, SkierLetNextOff, SkierPrint,
            SkierPrints, busVars
    <2> QED
        BY <2>1
<1> QED
    BY <1>1, <1>2, <1>3 DEF Next

----------------------------------------------------------------------------
LEMMA StutterIInv == ASSUME IInv, UNCHANGED vars PROVE IInv'
BY DEF vars, sems, counters, log, args, busVars, skierVars, IInv, TypeOK,
       TurnIsUnique, BoardsAtStop, LogInOrder, OnboardExact, Onboard, Boarded,
       WaitingNotNegative, FinishLast, MutexHeld, RoomForToken, TokenIsCounted,
       EmptyWhenTold, Round, Boarding, Leaving, InTurn, NoTurn, NoStopToken

\* IInv is an invariant of the bus and the skiers, for every number of skiers,
\* stops and seats.
THEOREM Invariance == Spec => []IInv
<1>1. ASSUME IInv, [Next]_vars PROVE IInv'
    <2>1. CASE Next
        <3>1. Control'
            BY <1>1, <2>1, BusControl, SkierControl DEF Next
        <3> QED
            BY <1>1, <2>1, <3>1, CountStep, FinishStep DEF Control, IInv
    <2>2. CASE UNCHANGED vars
        BY <1>1, <2>2, StutterIInv
    <2> QED
        BY <1>1, <2>1, <2>2
<1> QED
    BY InitIInv, <1>1, PTL DEF Spec

\* Semaphores stay binary and every variable keeps its type.
THEOREM TypeCorrect == Spec => []TypeOK
BY Invariance, PTL DEF IInv

\* At most one token or skier ever holds the turn to board or to leave, so
\* the counters that actors.c updates without a lock are not raced on.
THEOREM TurnTheorem == Spec => []TurnIsUnique
BY Invariance, PTL DEF IInv

\* Skiers board only at their own stop while the bus stands there, and get off
\* only at the final stop.
THEOREM BoardingTheorem == Spec => []BoardsAtStop
BY Invariance, PTL DEF IInv

\* The lines of proj2.out are numbered consecutively in the order written.
THEOREM LogTheorem == Spec => []LogInOrder
BY Invariance, PTL DEF IInv

\* The counters of skiers aboard and boarded are exact and the bus never
\* carries more than Capacity skiers.
THEOREM OnboardTheorem == Spec => []OnboardExact
BY Invariance, PTL DEF IInv

\* The racy counter of a stop never becomes negative.
THEOREM WaitingTheorem == Spec => []WaitingNotNegative
BY Invariance, PTL DEF IInv

\* The bus finishes after every skier is done.
THEOREM FinishTheorem == Spec => []FinishLast
BY Invariance, PTL DEF IInv

----------------------------------------------------------------------------
(* The processes implement the trip. *)

LEMMA InitRefines == Init => Trip!Init
<1> SUFFICES ASSUME Init PROVE Trip!Init
    OBVIOUS
<1>1. \A s \in Skiers : PlaceOf(s) = "home"
    BY DEF Init, PlaceOf, Onboard, Boarding, Leaving
<1>2. BusAt = "road" /\ LastStop = 0
    BY DEF Init, BusAt, LastStop
<1> QED
    BY <1>1, <1>2 DEF Init, Trip!Init

\* Where a step leaves the process of skier s alone, his place stays.
LEMMA SamePlaces == ASSUME UNCHANGED skier PROVE UNCHANGED [s \in Skiers |-> PlaceOf(s)]
BY DEF PlaceOf, Onboard, Boarding, Leaving

\* The bus steps that are not visible in the trip, and the ones that are.
LEMMA BusRefines == ASSUME IInv, BusNext PROVE [Trip!Next]_(Trip!tripVars)
<1>0. UNCHANGED <<skier, stop>> /\ UNCHANGED [s \in Skiers |-> PlaceOf(s)]
    <2>1. UNCHANGED <<skier, stop>>
        BY DEF BusNext, BusLock, BusPrintStarted, BusDrive, BusPrintArrived,
            BusCheckWaiting, BusCheckCapacity, BusAllAboard, BusPrintLeaving,
            BusDriveFinal, BusPrintFinal, BusOpen, BusAllOff,
            BusPrintLeavingFinal, BusPrintFinish, Ride, BusWait, skierVars
    <2> QED
        BY <2>1, SamePlaces
<1> USE <1>0, StopsAssumption
    DEF IInv, TypeOK, Stops, Round, BusAt, LastStop, Trip!tripVars
<1>1. CASE BusPrintArrived
    <2>1. Trip!ArriveAtStop
        BY <1>1 DEF BusPrintArrived, Trip!ArriveAtStop
    <2> QED
        BY <2>1 DEF Trip!Next
<1>2. CASE BusPrintLeaving
    <2>1. BusAt = "stop" /\ BusAt' = "road"
        BY <1>2 DEF BusPrintLeaving
    <2>2. LastStop' = LastStop
        <3>1. LastStop = bus_stop
            BY <1>2 DEF BusPrintLeaving
        <3>2. CASE bus' = "drive" /\ bus_stop' = bus_stop + 1
            BY <3>1, <3>2
        <3>3. CASE bus' = "drive_final" /\ bus_stop' = bus_stop
            BY <3>1, <3>3
        <3> QED
            BY <1>2, <3>2, <3>3 DEF BusPrintLeaving
    <2>3. Trip!LeaveStop
        BY <2>1, <2>2 DEF Trip!LeaveStop
    <2> QED
        BY <2>3 DEF Trip!Next
<1>3. CASE BusPrintFinal
    <2>1. Trip!ArriveAtFinal
        BY <1>3 DEF BusPrintFinal, Trip!ArriveAtFinal
    <2> QED
        BY <2>1 DEF Trip!Next
<1>4. CASE BusPrintLeavingFinal
    <2>1. Onboard = {}
        BY <1>4, SetsAreFinite, FS_EmptySet
        DEF BusPrintLeavingFinal, EmptyWhenTold, OnboardExact
    <2>2. Trip!OnBus = {}
        BY <2>1 DEF Trip!OnBus, PlaceOf
    <2>3. Trip!LeaveFinal
        BY <1>4, <2>2 DEF BusPrintLeavingFinal, Trip!LeaveFinal
    <2> QED
        BY <2>3 DEF Trip!Next
<1>5. CASE BusPrintFinish
    <2>1. \A s \in Skiers : PlaceOf(s) = "slope"
        BY <1>5 DEF BusPrintFinish, FinishLast, PlaceOf, Onboard, Boarding, Leaving
    <2>2. Trip!Finish
        BY <1>5, <2>1 DEF BusPrintFinish, Trip!Finish
    <2> QED
        BY <2>2 DEF Trip!Next
<1>6. CASE BusPrintStarted
    BY <1>6 DEF BusPrintStarted
<1>7. CASE BusDrive \/ BusDriveFinal
    BY <1>7 DEF BusDrive, BusDriveFinal, Ride
<1>8. CASE BusLock \/ BusCheckWaiting \/ BusCheckCapacity \/ BusOpen
    BY <1>8 DEF BusLock, BusCheckWaiting, BusCheckCapacity, BusOpen, busVars
<1>9. CASE BusAllAboard \/ BusAllOff
    BY <1>9 DEF BusAllAboard, BusAllOff, BusWait
<1> QED
    BY <1>1, <1>2, <1>3, <1>4, <1>5, <1>6, <1>7, <1>8, <1>9 DEF BusNext

LEMMA SkierRefines ==
    ASSUME IInv, NEW s \in Skiers, SkierNext(s)
    PROVE  [Trip!Next]_(Trip!tripVars)
<1>0. UNCHANGED <<bus, bus_stop>> /\ UNCHANGED <<BusAt, LastStop>>
    BY DEF SkierNext, SkierLock, SkierPrintStarted, SkierBreakfast,
        SkierPrintArrived, SkierCountLoad, SkierCountStore, SkierBoard,
        SkierPrintBoarding, SkierPassLoad, SkierPassStore, SkierPass,
        SkierGetOff, SkierPrintGoingToSki, SkierLetNextOff, SkierPrint,
        busVars, BusAt, LastStop
<1> DEFINE places == [r \in Skiers |-> PlaceOf(r)]
<1> USE <1>0 DEF IInv, TypeOK, Stops, PlaceOf, Boarding, Leaving, Onboard
<1>1. CASE SkierBreakfast(s)
    <2>1. PlaceOf(s) = "home" /\ places' = [places EXCEPT ![s] = "out"]
        BY <1>1 DEF SkierBreakfast
    <2>2. Trip!SetOut(s)
        BY <1>1, <2>1 DEF SkierBreakfast, Trip!SetOut
    <2> QED
        BY <2>2 DEF Trip!Next
<1>2. CASE SkierBoard(s)
    <2>1. PlaceOf(s) = "out" /\ places' = [places EXCEPT ![s] = "bus"]
        BY <1>2 DEF SkierBoard
    <2>2. Trip!OnBus = Onboard
        BY DEF Trip!OnBus
    <2>3. Fits(Trip!OnBus \cup {s})
        <3>1. Onboard' = Trip!OnBus \cup {s}
            BY <1>2, <2>2, SetsAfterBoard
        <3>2. Cardinality(Onboard') <= Capacity
            BY CountStep DEF Next, OnboardExact
        <3> QED
            BY <3>1, <3>2 DEF Fits
    <2>4. BusAt = "stop" /\ LastStop = stop[s]
        BY <1>2 DEF SkierBoard, BoardsAtStop, BusAt, LastStop
    <2>5. UNCHANGED stop
        BY <1>2 DEF SkierBoard
    <2> HIDE DEF PlaceOf, Onboard, Boarding, Leaving, TypeOK, IInv
    <2>6. Trip!Board(s)
        BY <2>1, <2>3, <2>4, <2>5 DEF Trip!Board
    <2> QED
        BY <2>6 DEF Trip!Next
<1>3. CASE SkierGetOff(s)
    <2>1. PlaceOf(s) = "bus" /\ places' = [places EXCEPT ![s] = "slope"]
        BY <1>3 DEF SkierGetOff
    <2>2. BusAt = "final"
        BY <1>3 DEF SkierGetOff, BoardsAtStop, BusAt
    <2>3. Trip!GetOff(s)
        BY <1>3, <2>1, <2>2 DEF SkierGetOff, Trip!GetOff
    <2> QED
        BY <2>3 DEF Trip!Next
<1>4. CASE SkierLock(s)
    BY <1>4, SamePlaces DEF SkierLock, skierVars, Trip!tripVars
<1>5. ASSUME NEW from, NEW to, SkierPrint(s, from, to),
             <<from, to>> \in {<<"started", "breakfast">>, <<"arrived", "count">>,
                               <<"boarding", "load">>, <<"going_to_ski", "off">>}
      PROVE  UNCHANGED Trip!tripVars
    <2>1. UNCHANGED places
        BY <1>5 DEF SkierPrint
    <2> QED
        BY <1>5, <2>1 DEF SkierPrint, Trip!tripVars
<1>6. CASE SkierCountLoad(s) \/ SkierCountStore(s)
    <2>1. UNCHANGED places
        BY <1>6 DEF SkierCountLoad, SkierCountStore
    <2> QED
        BY <1>6, <2>1 DEF SkierCountLoad, SkierCountStore, Trip!tripVars
<1>7. CASE SkierPassLoad(s) \/ SkierPassStore(s) \/ SkierPass(s) \/ SkierLetNextOff(s)
    <2>1. UNCHANGED places
        BY <1>7 DEF SkierPassLoad, SkierPassStore, SkierPass, SkierLetNextOff
    <2> QED
        BY <1>7, <2>1
        DEF SkierPassLoad, SkierPassStore, SkierPass, SkierLetNextOff, Trip!tripVars
<1> QED
    BY <1>1, <1>2, <1>3, <1>4, <1>5, <1>6, <1>7
    DEF SkierNext, SkierPrintStarted, SkierPrintArrived, SkierPrintBoarding,
        SkierPrintGoingToSki

LEMMA StutterRefines == ASSUME UNCHANGED vars PROVE UNCHANGED Trip!tripVars
<1>1. UNCHANGED <<skier, stop, bus, bus_stop>>
    BY DEF vars, busVars, skierVars
<1>2. UNCHANGED [s \in Skiers |-> PlaceOf(s)] /\ UNCHANGED <<BusAt, LastStop>>
    BY <1>1, SamePlaces DEF BusAt, LastStop
<1> QED
    BY <1>1, <1>2 DEF Trip!tripVars

\* The bus and skier processes implement the abstract trip: stops in order,
\* boarding at the own stop and within the capacity, nobody carried past the
\* final stop, no finish before the last skier.
THEOREM Refinement == Spec => TripSpec
<1>1. ASSUME IInv, [Next]_vars PROVE [Trip!Next]_(Trip!tripVars)
    BY <1>1, BusRefines, SkierRefines, StutterRefines DEF Next
<1> QED
    BY InitRefines, Invariance, <1>1, PTL DEF Spec, TripSpec, Trip!Spec

----------------------------------------------------------------------------
(* Who waits for whom. *)

\* While the bus waits, somebody has the turn or a token passes it on.
TurnNotLost ==
    /\ bus = "aboard" => \/ bus_stops[bus_stop] = 1 \/ all_aboard = 1
                         \/ \E s \in Skiers : Boarding(s)
    /\ bus = "empty" => \/ let_skiers_leave = 1 \/ all_aboard = 1
                        \/ \E s \in Skiers : Leaving(s)

\* A lock that is taken is held by a process that is going to release it.
LocksHeld ==
    /\ write_sync = 0 => \E p \in Procs : num[p] # 0
    /\ num["bus"] # 0 => bus \in BusPrints
    /\ \A s \in Skiers : num[s] # 0 => skier[s] \in SkierPrints
    /\ mutex = 0 => \E s \in Skiers : skier[s] = "count_store"

\* The bus hands out the turn and takes it back.
LEMMA BusLeavesTurn ==
    ASSUME IInv, TurnNotLost, LocksHeld, BusNext
    PROVE  TurnNotLost' /\ LocksHeld'
<1> USE SkiersAssumption, StopsAssumption
    DEF IInv, TypeOK, Stops, Procs, sems, counters, log, args, busVars, skierVars,
        Boarding, Leaving, BusPrints, LockWrite, UnlockWrite, Ride, BusWait,
        TurnNotLost, LocksHeld
<1>1. CASE BusLock
    BY <1>1 DEF BusLock
<1>2. CASE BusPrintStarted
    BY <1>2 DEF BusPrintStarted
<1>3. CASE BusDrive
    BY <1>3 DEF BusDrive
<1>4. CASE BusPrintArrived
    BY <1>4 DEF BusPrintArrived
<1>5. CASE BusCheckWaiting
    BY <1>5 DEF BusCheckWaiting
<1>6. CASE BusCheckCapacity
    BY <1>6 DEF BusCheckCapacity, BoardsAtStop
<1>7. CASE BusAllAboard
    BY <1>7 DEF BusAllAboard
<1>8. CASE BusPrintLeaving
    BY <1>8 DEF BusPrintLeaving
<1>9. CASE BusDriveFinal
    BY <1>9 DEF BusDriveFinal
<1>10. CASE BusPrintFinal
    BY <1>10 DEF BusPrintFinal
<1>11. CASE BusOpen
    BY <1>11 DEF BusOpen, BoardsAtStop
<1>12. CASE BusAllOff
    BY <1>12 DEF BusAllOff
<1>13. CASE BusPrintLeavingFinal
    BY <1>13 DEF BusPrintLeavingFinal
<1>14. CASE BusPrintFinish
    BY <1>14 DEF BusPrintFinish
<1> QED
    BY <1>1, <1>2, <1>3, <1>4, <1>5, <1>6, <1>7,
       <1>8, <1>9, <1>10, <1>11, <1>12, <1>13, <1>14 DEF BusNext

\* A skier passes the turn on.
LEMMA SkierLeavesTurn ==
    ASSUME IInv, TurnNotLost, LocksHeld, NEW s \in Skiers, SkierNext(s)
    PROVE  TurnNotLost' /\ LocksHeld'
<1> USE SkiersAssumption, StopsAssumption
    DEF IInv, TypeOK, Stops, Procs, sems, counters, log, args, busVars, skierVars,
        Boarding, Leaving, SkierPrints, LockWrite, UnlockWrite, SkierPrint
<1>1. CASE SkierLock(s)
    <2>1. TurnNotLost'
        BY <1>1 DEF SkierLock, TurnNotLost, TurnIsUnique, BoardsAtStop, InTurn, NoTurn, NoStopToken
    <2>2. LocksHeld'
        BY <1>1 DEF SkierLock, LocksHeld, LogInOrder, MutexHeld
    <2> QED
        BY <2>1, <2>2
<1>2. CASE SkierPrintStarted(s)
    <2>1. TurnNotLost'
        BY <1>2 DEF SkierPrintStarted, TurnNotLost, TurnIsUnique, BoardsAtStop, InTurn, NoTurn, NoStopToken
    <2>2. LocksHeld'
        BY <1>2 DEF SkierPrintStarted, LocksHeld, LogInOrder, MutexHeld
    <2> QED
        BY <2>1, <2>2
<1>3. CASE SkierBreakfast(s)
    <2>1. TurnNotLost'
        BY <1>3 DEF SkierBreakfast, TurnNotLost, TurnIsUnique, BoardsAtStop, InTurn, NoTurn, NoStopToken
    <2>2. LocksHeld'
        BY <1>3 DEF SkierBreakfast, LocksHeld, LogInOrder, MutexHeld
    <2> QED
        BY <2>1, <2>2
<1>4. CASE SkierPrintArrived(s)
    <2>1. TurnNotLost'
        BY <1>4 DEF SkierPrintArrived, TurnNotLost, TurnIsUnique, BoardsAtStop, InTurn, NoTurn, NoStopToken
    <2>2. LocksHeld'
        BY <1>4 DEF SkierPrintArrived, LocksHeld, LogInOrder, MutexHeld
    <2> QED
        BY <2>1, <2>2
<1>5. CASE SkierCountLoad(s)
    <2>1. TurnNotLost'
        BY <1>5 DEF SkierCountLoad, TurnNotLost, TurnIsUnique, BoardsAtStop, InTurn, NoTurn, NoStopToken
    <2>2. LocksHeld'
        BY <1>5 DEF SkierCountLoad, LocksHeld, LogInOrder, MutexHeld
    <2> QED
        BY <2>1, <2>2
<1>6. CASE SkierCountStore(s)
    <2>1. TurnNotLost'
        BY <1>6 DEF SkierCountStore, TurnNotLost, TurnIsUnique, BoardsAtStop, InTurn, NoTurn, NoStopToken
    <2>2. LocksHeld'
        BY <1>6 DEF SkierCountStore, LocksHeld, LogInOrder, MutexHeld
    <2> QED
        BY <2>1, <2>2
<1>7. CASE SkierBoard(s)
    <2>1. TurnNotLost'
        BY <1>7 DEF SkierBoard, TurnNotLost, TurnIsUnique, BoardsAtStop, InTurn, NoTurn, NoStopToken
    <2>2. LocksHeld'
        BY <1>7 DEF SkierBoard, LocksHeld, LogInOrder, MutexHeld
    <2> QED
        BY <2>1, <2>2
<1>8. CASE SkierPrintBoarding(s)
    <2>1. TurnNotLost'
        BY <1>8 DEF SkierPrintBoarding, TurnNotLost, TurnIsUnique, BoardsAtStop, InTurn, NoTurn, NoStopToken
    <2>2. LocksHeld'
        BY <1>8 DEF SkierPrintBoarding, LocksHeld, LogInOrder, MutexHeld
    <2> QED
        BY <2>1, <2>2
<1>9. CASE SkierPassLoad(s)
    <2>1. TurnNotLost'
        BY <1>9 DEF SkierPassLoad, TurnNotLost, TurnIsUnique, BoardsAtStop, InTurn, NoTurn, NoStopToken
    <2>2. LocksHeld'
        BY <1>9 DEF SkierPassLoad, LocksHeld, LogInOrder, MutexHeld
    <2> QED
        BY <2>1, <2>2
<1>10. CASE SkierPassStore(s)
    <2>1. TurnNotLost'
        BY <1>10 DEF SkierPassStore, TurnNotLost, TurnIsUnique, BoardsAtStop, InTurn, NoTurn, NoStopToken
    <2>2. LocksHeld'
        BY <1>10 DEF SkierPassStore, LocksHeld, LogInOrder, MutexHeld
    <2> QED
        BY <2>1, <2>2
<1>11. CASE SkierPass(s)
    <2>1. TurnNotLost'
        BY <1>11 DEF SkierPass, TurnNotLost, TurnIsUnique, BoardsAtStop, InTurn, NoTurn, NoStopToken
    <2>2. LocksHeld'
        BY <1>11 DEF SkierPass, LocksHeld, LogInOrder, MutexHeld
    <2> QED
        BY <2>1, <2>2
<1>12. CASE SkierGetOff(s)
    <2>1. TurnNotLost'
        BY <1>12 DEF SkierGetOff, TurnNotLost, TurnIsUnique, BoardsAtStop, InTurn, NoTurn, NoStopToken
    <2>2. LocksHeld'
        BY <1>12 DEF SkierGetOff, LocksHeld, LogInOrder, MutexHeld
    <2> QED
        BY <2>1, <2>2
<1>13. CASE SkierPrintGoingToSki(s)
    <2>1. TurnNotLost'
        BY <1>13 DEF SkierPrintGoingToSki, TurnNotLost, TurnIsUnique, BoardsAtStop, InTurn, NoTurn, NoStopToken
    <2>2. LocksHeld'
        BY <1>13 DEF SkierPrintGoingToSki, LocksHeld, LogInOrder, MutexHeld
    <2> QED
        BY <2>1, <2>2
<1>14. CASE SkierLetNextOff(s)
    <2>1. TurnNotLost'
        BY <1>14 DEF SkierLetNextOff, TurnNotLost, TurnIsUnique, BoardsAtStop, InTurn, NoTurn, NoStopToken
    <2>2. LocksHeld'
        BY <1>14 DEF SkierLetNextOff, LocksHeld, LogInOrder, MutexHeld
    <2> QED
        BY <2>1, <2>2
<1> QED
    BY <1>1, <1>2, <1>3, <1>4, <1>5, <1>6, <1>7,
       <1>8, <1>9, <1>10, <1>11, <1>12, <1>13, <1>14 DEF SkierNext

\* The guards of the processes: what each may wait for is a semaphore.
MayPrint(p) == num[p] # 0 \/ write_sync = 1

BusReady ==
    \/ bus \in BusPrints /\ MayPrint("bus")
    \/ bus \in {"drive", "capacity", "drive_final", "open"}
    \/ bus = "check" /\ mutex = 1
    \/ bus \in {"aboard", "empty"} /\ all_aboard = 1

SkierReady(s) ==
    \/ skier[s] \in SkierPrints /\ MayPrint(s)
    \/ skier[s] \in {"breakfast", "count_store", "load", "store", "pass", "off"}
    \/ skier[s] = "count" /\ mutex = 1
    \/ skier[s] = "wait" /\ bus_stops[stop[s]] = 1
    \/ skier[s] = "ride" /\ let_skiers_leave = 1

\* Somebody can take a step, unless the run has ended as Progress allows.
SomebodyReady ==
    \/ BusReady \/ \E s \in Skiers : SkierReady(s)
    \/ AllDone \/ EmptyAtFinal \/ NobodyToBoard \/ Trapped

\* When nobody is ready, nobody holds a lock or the turn: the token waits for a
\* skier, and none is there to take it.
LEMMA ReadyOrEnded == ASSUME IInv, TurnNotLost, LocksHeld PROVE SomebodyReady
<1> SUFFICES ASSUME ~BusReady, \A s \in Skiers : ~SkierReady(s), ~Trapped
             PROVE  AllDone \/ EmptyAtFinal \/ NobodyToBoard
    BY DEF SomebodyReady
<1>1. /\ TypeOK /\ FinishLast
    BY DEF IInv
<1>2. write_sync = 1 /\ \A p \in Procs : num[p] = 0
    <2>1. \A s \in Skiers : num[s] = 0
        BY DEF LocksHeld, SkierReady, MayPrint
    <2>2. num["bus"] = 0
        BY DEF LocksHeld, BusReady, MayPrint
    <2> QED
        BY <1>1, <2>1, <2>2 DEF LocksHeld, Procs, TypeOK
<1>3. mutex = 1
    BY <1>1 DEF LocksHeld, SkierReady, TypeOK
<1>4. bus \in {"aboard", "empty", "done"}
    BY <1>1, <1>2, <1>3 DEF BusReady, MayPrint, TypeOK, BusLabels, Trapped
<1>5. \A s \in Skiers : /\ skier[s] \in {"wait", "ride", "done"}
                        /\ skier[s] = "wait" => bus_stops[stop[s]] # 1
                        /\ skier[s] = "ride" => let_skiers_leave # 1
    BY <1>1, <1>2, <1>3 DEF SkierReady, MayPrint, TypeOK, SkierLabels, Trapped
<1>6. \A s \in Skiers : ~Boarding(s) /\ ~Leaving(s)
    BY <1>5 DEF Boarding, Leaving
<1>7. CASE bus = "aboard"
    <2>1. bus_stops[bus_stop] = 1
        BY <1>6, <1>7 DEF TurnNotLost, BusReady
    <2>2. NobodyToBoard
        BY <1>5, <1>7, <2>1 DEF NobodyToBoard
    <2> QED
        BY <2>2
<1>8. CASE bus = "empty"
    <2>1. let_skiers_leave = 1
        BY <1>6, <1>8 DEF TurnNotLost, BusReady
    <2>2. EmptyAtFinal
        BY <1>5, <1>6, <1>8, <2>1 DEF EmptyAtFinal, Onboard
    <2> QED
        BY <2>2
<1>9. CASE bus = "done"
    BY <1>1, <1>9 DEF FinishLast, AllDone
<1> QED
    BY <1>4, <1>7, <1>8, <1>9

\* Deadlock freedom of actors.c, for any number of skiers, stops and seats: the
\* turn to board or to leave is never lost and every lock has a holder who can
\* go on, so that the processes wait on each other only in the two states that
\* Progress names, where the bus waits for a skier who does not exist.
THEOREM DeadlockTheorem == Spec => []SomebodyReady
<1>1. Init => TurnNotLost /\ LocksHeld
    BY SkiersAssumption DEF Init, TurnNotLost, LocksHeld, Procs
<1>2. IInv /\ TurnNotLost /\ LocksHeld /\ [Next]_vars => (TurnNotLost /\ LocksHeld)'
    <2> SUFFICES ASSUME IInv, TurnNotLost, LocksHeld, [Next]_vars
                 PROVE  TurnNotLost' /\ LocksHeld'
        OBVIOUS
    <2>1. CASE UNCHANGED vars
        BY <2>1 DEF vars, sems, counters, log, busVars, skierVars, TurnNotLost, LocksHeld,
                    Boarding, Leaving
    <2> QED
        BY <2>1, BusLeavesTurn, SkierLeavesTurn DEF Next
<1>3. IInv /\ TurnNotLost /\ LocksHeld => SomebodyReady
    BY ReadyOrEnded
<1> QED
    BY <1>1, <1>2, <1>3, Invariance, PTL DEF Spec

=============================================================================
