-------------------------- MODULE SkibusRunsProofs --------------------------
(* The named semaphores of ios/skibus over any number of runs, killed at any   *)
(* moment: no run that ends leaves a name, and a run that is alone gets all    *)
(* its names once a run with as many stops was alone and ended.                *)
(*                                                                             *)
(* IInv is inductive.  A name that is owned has an owner that still runs and   *)
(* will come to it in destroy_semaphores; while a run is alone nobody but it   *)
(* creates names or leaves any.                                                *)
EXTENDS SkibusRuns, SequenceTheorems, TLAPS

Destroying == {"cleanup", "handler"}

NotStarted == \A r \in Runs : phase[r] = "idle" => kid[r] = 0 /\ got[r] = {}

InList == \A r \in Runs : phase[r] \in {"create"} \cup Destroying =>
                              at[r] <= Len(Order(stops[r]))

Owned == \A name \in DOMAIN owner : owner[name] \in Runs =>
             phase[owner[name]] \in Active /\ name \in NamesOf(owner[name])

(* What destroy_semaphores has passed is not the run's any more. *)
Unlinked == \A r \in Runs : phase[r] \in Destroying =>
                \A i \in 1 .. at[r] - 1 :
                    /\ owner[Order(stops[r])[i]] # r
                    /\ alone[r] => owner[Order(stops[r])[i]] = None

Solo == \A r \in Runs : alone[r] => /\ phase[r] \in Active
                                    /\ \A s \in Runs \ {r} : phase[s] \notin Active

Cleared == cleared > 0 => \A name \in Names(cleared) : owner[name] # Left

(* A run that found no name finds none that it did not create. *)
Fresh(r) == alone[r] /\ before[r] >= stops[r]

GetsAll == \A r \in Runs : Fresh(r) =>
               /\ phase[r] = "create" =>
                      /\ \A name \in NamesOf(r) : owner[name] = None \/ name \in got[r]
                      /\ \A i \in 1 .. at[r] - 1 : Order(stops[r])[i] \in got[r]
               /\ phase[r] \in {"ready", "running"} => NamesOf(r) \subseteq got[r]

IInv == TypeOK /\ NotStarted /\ InList /\ Owned /\ Unlinked /\ Solo /\ Cleared /\ GetsAll

-----------------------------------------------------------------------------
(* The names *)

Fixed == {<<FixedNames[i], 0>> : i \in DOMAIN FixedNames}
Numbered(n) == {<<"bus_stop", i - 1>> : i \in 1 .. n + 1}

LEMMA FunctionIsSeq ==
    ASSUME NEW S, NEW m \in Nat, NEW f \in [1 .. m -> S]
    PROVE  f \in Seq(S) /\ Len(f) = m
<1>1. f \in Seq(S)
    BY SeqDef
<1>2. DOMAIN f = 1 .. Len(f) /\ DOMAIN f = 1 .. m /\ Len(f) \in Nat
    BY <1>1, LenProperties
<1> QED
    BY <1>1, <1>2

LEMMA NamesAre ==
    ASSUME NEW n \in Nat
    PROVE  /\ Len(Order(n)) \in Nat \ {0} /\ DOMAIN Order(n) = 1 .. Len(Order(n))
           /\ Names(n) = Fixed \cup Numbered(n)
<1> DEFINE S == Fixed \cup Numbered(n)
           s == [i \in DOMAIN FixedNames |-> <<FixedNames[i], 0>>]
           t == [i \in 1 .. n + 1 |-> <<"bus_stop", i - 1>>]
<1>1. Len(FixedNames) \in Nat /\ DOMAIN FixedNames = 1 .. Len(FixedNames)
    BY RunsAssumption, LenProperties
<1>2. s \in [1 .. Len(FixedNames) -> S]
    BY <1>1 DEF Fixed
<1>3. t \in [1 .. n + 1 -> S]
    BY DEF Numbered
<1>4. s \in Seq(S) /\ Len(s) = Len(FixedNames)
    BY <1>1, <1>2, FunctionIsSeq
<1>5. t \in Seq(S) /\ Len(t) = n + 1
    BY <1>3, FunctionIsSeq
<1>6. Order(n) = s \o t
    BY DEF Order
<1>7. \A i \in 1 .. Len(FixedNames) : s[i] = <<FixedNames[i], 0>>
    BY <1>1
<1>8. \A i \in 1 .. n + 1 : t[i] = <<"bus_stop", i - 1>>
    OBVIOUS
<1> HIDE DEF S, s, t
<1>9. /\ Order(n) \in Seq(S) /\ Len(Order(n)) = Len(FixedNames) + n + 1
      /\ \A i \in 1 .. Len(FixedNames) + n + 1 :
             Order(n)[i] = IF i <= Len(FixedNames) THEN s[i] ELSE t[i - Len(FixedNames)]
    <2>1. /\ s \o t \in Seq(S) /\ Len(s \o t) = Len(s) + Len(t)
          /\ \A i \in 1 .. Len(s) + Len(t) :
                 (s \o t)[i] = IF i <= Len(s) THEN s[i] ELSE t[i - Len(s)]
        <3>1. s \in Seq(S) /\ t \in Seq(S)
            BY <1>4, <1>5
        <3> QED
            BY <3>1, ConcatProperties
    <2>2. Len(FixedNames) + (n + 1) = Len(FixedNames) + n + 1
        BY <1>1
    <2> QED
        BY <1>4, <1>5, <1>6, <2>1, <2>2, Zenon
<1>10. Len(Order(n)) \in Nat \ {0} /\ DOMAIN Order(n) = 1 .. Len(Order(n))
    BY <1>1, <1>9, LenProperties
<1>11. \A i \in DOMAIN Order(n) : Order(n)[i] \in S
    BY <1>9, <1>10, ElementOfSeq
<1>12. ASSUME NEW name \in Fixed PROVE name \in Names(n)
    <2>1. PICK i \in 1 .. Len(FixedNames) : name = <<FixedNames[i], 0>>
        BY <1>1, <1>12 DEF Fixed
    <2>2. i \in DOMAIN Order(n) /\ Order(n)[i] = s[i]
        BY <1>1, <1>9, <1>10
    <2> QED
        BY <1>7, <2>1, <2>2 DEF Names
<1>13. ASSUME NEW name \in Numbered(n) PROVE name \in Names(n)
    <2>1. PICK i \in 1 .. n + 1 : name = <<"bus_stop", i - 1>>
        BY <1>13 DEF Numbered
    <2> DEFINE k == Len(FixedNames) + i
    <2>2. k \in DOMAIN Order(n) /\ k \in 1 .. Len(FixedNames) + n + 1 /\ ~(k <= Len(FixedNames))
          /\ k - Len(FixedNames) = i
        BY <1>1, <1>9, <1>10
    <2>3. Order(n)[k] = t[i]
        BY <1>9, <2>2
    <2> QED
        BY <1>8, <2>1, <2>2, <2>3 DEF Names
<1>14. Names(n) \subseteq S
    BY <1>11 DEF Names
<1> QED
    BY <1>10, <1>12, <1>13, <1>14 DEF S

LEMMA NamesGrow ==
    ASSUME NEW m \in Nat, NEW n \in Nat, m <= n
    PROVE  Names(m) \subseteq Names(n)
<1>1. Numbered(m) \subseteq Numbered(n)
    BY DEF Numbered
<1> QED
    BY <1>1, NamesAre

LEMMA MostStops == MaxStops \in StopCounts /\ \A n \in StopCounts : n <= MaxStops
BY RunsAssumption DEF MaxStops

-----------------------------------------------------------------------------
(* Types *)

LEMMA Types ==
    ASSUME TypeOK
    PROVE  /\ phase \in [Runs -> Active \cup {"idle", "gone"}] /\ stops \in [Runs -> StopCounts]
           /\ at \in [Runs -> Nat] /\ kid \in [Runs -> Nat]
           /\ got \in [Runs -> SUBSET Names(MaxStops)]
           /\ owner \in [Names(MaxStops) -> Runs \cup {None, Left}]
           /\ cleared \in Nat /\ cleared <= MaxStops
           /\ \A r \in Runs : /\ at[r] \in 1 .. Len(Order(stops[r])) + 1
                              /\ kid[r] \in 0 .. Len(Order(stops[r]))
                              /\ got[r] \subseteq NamesOf(r)
           /\ before \in [Runs -> Nat]
<1>1. MaxStops \in Nat
    BY MostStops, RunsAssumption
<1>2. /\ phase \in [Runs -> Active \cup {"idle", "gone"}] /\ stops \in [Runs -> StopCounts]
      /\ at \in [Runs -> Nat] /\ kid \in [Runs -> Nat]
      /\ got \in [Runs -> SUBSET Names(MaxStops)]
      /\ owner \in [Names(MaxStops) -> Runs \cup {None, Left}]
      /\ cleared \in 0 .. MaxStops /\ before \in [Runs -> 0 .. MaxStops]
      /\ \A r \in Runs : /\ at[r] \in 1 .. Len(Order(stops[r])) + 1
                         /\ kid[r] \in 0 .. Len(Order(stops[r]))
                         /\ got[r] \subseteq NamesOf(r)
    BY Zenon DEF TypeOK
<1>3. before \in [Runs -> Nat] /\ cleared \in Nat /\ cleared <= MaxStops
    BY <1>1, <1>2
<1> QED
    BY <1>2, <1>3, Zenon

LEMMA CountNames ==
    ASSUME NEW n \in StopCounts
    PROVE  /\ n \in Nat \ {0} /\ Len(Order(n)) \in Nat \ {0}
           /\ Names(n) \subseteq Names(MaxStops)
           /\ \A i \in 1 .. Len(Order(n)) : Order(n)[i] \in Names(n)
           /\ \A name \in Names(n) : \E i \in 1 .. Len(Order(n)) : name = Order(n)[i]
<1>1. n \in Nat \ {0} /\ MaxStops \in Nat /\ n <= MaxStops
    BY MostStops, RunsAssumption
<1>2. Len(Order(n)) \in Nat \ {0} /\ DOMAIN Order(n) = 1 .. Len(Order(n))
    BY <1>1, NamesAre
<1>3. Names(n) \subseteq Names(MaxStops)
    BY <1>1, NamesGrow
<1>4. Names(n) = {Order(n)[i] : i \in 1 .. Len(Order(n))}
    BY <1>2 DEF Names
<1> QED
    BY <1>1, <1>2, <1>3, <1>4

LEMMA NameFacts ==
    ASSUME TypeOK, NEW r \in Runs
    PROVE  /\ stops[r] \in Nat \ {0} /\ Len(Order(stops[r])) \in Nat \ {0}
           /\ NamesOf(r) \subseteq Names(MaxStops)
           /\ \A i \in 1 .. Len(Order(stops[r])) : Order(stops[r])[i] \in NamesOf(r)
           /\ \A name \in NamesOf(r) : \E i \in 1 .. Len(Order(stops[r])) : name = Order(stops[r])[i]
<1>1. stops[r] \in StopCounts
    BY Types
<1> QED
    BY <1>1, CountNames DEF NamesOf

LEMMA ClearedNames == ASSUME TypeOK PROVE Names(cleared) \subseteq Names(MaxStops)
<1>1. cleared \in Nat /\ MaxStops \in Nat /\ cleared <= MaxStops
    BY Types, MostStops, RunsAssumption
<1> QED
    BY <1>1, NamesGrow

LEMMA RunNumbers == None \notin Runs /\ Left \notin Runs /\ None # Left /\ Runs \subseteq Nat
BY RunsAssumption DEF None, Left, Runs

-----------------------------------------------------------------------------
(* A child unlinks *)

LEMMA ChildDestroysStep == ASSUME IInv, NEW r \in Runs, ChildDestroys(r) PROVE IInv'
<1> DEFINE name == Order(stops[r])[kid[r]]
<1>1. /\ TypeOK /\ NotStarted /\ InList /\ Owned /\ Unlinked /\ Solo /\ Cleared /\ GetsAll
    BY Zenon DEF IInv
<1>2. /\ kid[r] # 0 /\ owner' = [owner EXCEPT ![name] = None]
      /\ kid' = [kid EXCEPT ![r] = IF kid[r] = Len(Order(stops[r])) THEN 0 ELSE kid[r] + 1]
      /\ UNCHANGED <<stops, alone, before, phase, at, got, cleared>>
    BY DEF ChildDestroys, sem_unlink, Kept
<1>3. /\ kid \in [Runs -> Nat] /\ kid[r] \in 0 .. Len(Order(stops[r]))
      /\ owner \in [Names(MaxStops) -> Runs \cup {None, Left}]
      /\ phase \in [Runs -> Active \cup {"idle", "gone"}]
    BY <1>1, Types
<1>4. Len(Order(stops[r])) \in Nat \ {0} /\ name \in Names(MaxStops)
    BY <1>1, <1>2, <1>3, NameFacts
<1> HIDE DEF name
<1>5. /\ owner' \in [Names(MaxStops) -> Runs \cup {None, Left}]
      /\ \A x \in Names(MaxStops) : owner'[x] = owner[x] \/ owner'[x] = None
    BY <1>2, <1>3, <1>4
<1>6. /\ kid' \in [Runs -> Nat] /\ kid'[r] \in 0 .. Len(Order(stops[r]))
      /\ \A s \in Runs : s # r => kid'[s] = kid[s]
    BY <1>2, <1>3, <1>4
<1>7. TypeOK'
    <2>1. \A s \in Runs : kid'[s] \in 0 .. Len(Order(stops[s]))
        BY <1>1, <1>6, Types
    <2> QED
        BY <1>1, <1>2, <1>5, <1>6, <2>1, Zenon DEF TypeOK, NamesOf
<1>8. NotStarted'
    BY <1>1, <1>2, <1>3, <1>6 DEF NotStarted
<1>9. InList' /\ Solo'
    BY <1>1, <1>2, Zenon DEF InList, Solo
<1>10. Owned'
    BY <1>1, <1>2, <1>3, <1>5, RunNumbers DEF Owned, NamesOf
<1>11. Unlinked'
    BY <1>1, <1>2, <1>3, <1>5, RunNumbers, NameFacts DEF Unlinked
<1>12. Cleared'
    BY <1>1, <1>2, <1>3, <1>5, RunNumbers, ClearedNames DEF Cleared
<1>13. GetsAll'
    BY <1>1, <1>2, <1>3, <1>5, NameFacts DEF GetsAll, Fresh, NamesOf
<1> QED
    BY <1>7, <1>8, <1>9, <1>10, <1>11, <1>12, <1>13, Zenon DEF IInv

-----------------------------------------------------------------------------
(* A run goes on without touching a name *)

LEMMA MoveOn ==
    ASSUME IInv, NEW r \in Runs, NEW p \in {"running", "cleanup", "handler"},
           phase[r] \in Active, p = "running" => phase[r] = "ready" /\ at' = at,
           p # "running" => at' = [at EXCEPT ![r] = 1],
           NEW k \in {0, 1}, kid' = kid \/ kid' = [kid EXCEPT ![r] = k],
           phase' = [phase EXCEPT ![r] = p],
           UNCHANGED <<stops, alone, before, got, owner, cleared>>
    PROVE  IInv'
<1>1. /\ TypeOK /\ NotStarted /\ InList /\ Owned /\ Unlinked /\ Solo /\ Cleared /\ GetsAll
    BY Zenon DEF IInv
<1>2. /\ phase \in [Runs -> Active \cup {"idle", "gone"}]
      /\ at \in [Runs -> Nat] /\ kid \in [Runs -> Nat]
      /\ \A s \in Runs : /\ at[s] \in 1 .. Len(Order(stops[s])) + 1
                         /\ kid[s] \in 0 .. Len(Order(stops[s]))
                         /\ Len(Order(stops[s])) \in Nat \ {0}
    BY <1>1, Types, NameFacts
<1>3. p \in Active /\ p # "idle" /\ p # "create" /\ p # "ready"
    BY DEF Active
<1>4. phase'[r] = p /\ \A s \in Runs \ {r} : phase'[s] = phase[s]
    BY <1>2
<1>5. /\ at' \in [Runs -> Nat] /\ (p # "running" => at'[r] = 1)
      /\ \A s \in Runs \ {r} : at'[s] = at[s]
    BY <1>2
<1>6. kid' \in [Runs -> Nat] /\ (kid'[r] \in {0, 1, kid[r]}) /\ \A s \in Runs \ {r} : kid'[s] = kid[s]
    <2>1. CASE kid' = kid
        BY <1>2, <2>1
    <2>2. CASE kid' = [kid EXCEPT ![r] = k]
        BY <1>2, <2>2
    <2> QED
        BY <2>1, <2>2
<1>7. TypeOK'
    <2>1. phase' \in [Runs -> Active \cup {"idle", "gone"}]
        BY <1>2, <1>3
    <2>2. \A s \in Runs : at'[s] \in 1 .. Len(Order(stops[s])) + 1 /\ kid'[s] \in 0 .. Len(Order(stops[s]))
        <3> SUFFICES ASSUME NEW s \in Runs
                     PROVE  at'[s] \in 1 .. Len(Order(stops[s])) + 1 /\ kid'[s] \in 0 .. Len(Order(stops[s]))
            OBVIOUS
        <3>1. CASE s = r
            BY <1>2, <1>5, <1>6, <3>1
        <3>2. CASE s # r
            BY <1>2, <1>5, <1>6, <3>2
        <3> QED
            BY <3>1, <3>2
    <2> QED
        BY <1>1, <1>5, <1>6, <2>1, <2>2, Zenon DEF TypeOK, NamesOf
<1>8. NotStarted'
    BY <1>1, <1>3, <1>4, <1>6 DEF NotStarted
<1>9. InList'
    BY <1>1, <1>2, <1>3, <1>4, <1>5 DEF InList, Destroying
<1>10. Owned'
    BY <1>1, <1>3, <1>4 DEF Owned, NamesOf
<1>11. Unlinked'
    BY <1>1, <1>3, <1>4, <1>5 DEF Unlinked, Destroying
<1>12. Solo'
    BY <1>1, <1>3, <1>4, Zenon DEF Solo
<1>13. Cleared'
    BY <1>1 DEF Cleared
<1>14. GetsAll'
    BY <1>1, <1>3, <1>4, <1>5 DEF GetsAll, Fresh, NamesOf
<1> QED
    BY <1>7, <1>8, <1>9, <1>10, <1>11, <1>12, <1>13, <1>14, Zenon DEF IInv

LEMMA InstallHandlerStep == ASSUME IInv, NEW r \in Runs, InstallHandler(r) PROVE IInv'
<1>1. /\ phase[r] = "ready" /\ phase' = [phase EXCEPT ![r] = "running"] /\ at' = at /\ kid' = kid
      /\ UNCHANGED <<stops, alone, before, got, owner, cleared>> /\ phase[r] \in Active
    BY DEF InstallHandler, Go, Kept, Active
<1> QED
    BY <1>1, MoveOn, Zenon

LEMMA ChildrenEndStep == ASSUME IInv, NEW r \in Runs, ChildrenEnd(r) PROVE IInv'
<1>1. /\ phase[r] \in Active /\ phase' = [phase EXCEPT ![r] = "cleanup"]
      /\ at' = [at EXCEPT ![r] = 1] /\ kid' = kid
      /\ UNCHANGED <<stops, alone, before, got, owner, cleared>> /\ "cleanup" # "running"
    BY DEF ChildrenEnd, Go, Kept, Active
<1> QED
    BY <1>1, MoveOn, Zenon

LEMMA signal_handlerStep == ASSUME IInv, NEW r \in Runs, signal_handler(r) PROVE IInv'
<1>1. /\ phase[r] \in Active /\ phase' = [phase EXCEPT ![r] = "handler"]
      /\ at' = [at EXCEPT ![r] = 1]
      /\ UNCHANGED <<stops, alone, before, got, owner, cleared>> /\ "handler" # "running"
    BY DEF signal_handler, Go, Kept, Active
<1>2. \E k \in {0, 1} : kid' = [kid EXCEPT ![r] = k]
    BY Zenon DEF signal_handler
<1> QED
    BY <1>1, <1>2, MoveOn, Zenon

-----------------------------------------------------------------------------
(* A run is started *)

LEMMA StartStep == ASSUME IInv, NEW r \in Runs, NEW n \in StopCounts, Start(r, n) PROVE IInv'
<1>1. /\ TypeOK /\ NotStarted /\ InList /\ Owned /\ Unlinked /\ Solo /\ Cleared /\ GetsAll
    BY Zenon DEF IInv
<1>2. /\ phase[r] = "idle" /\ phase' = [phase EXCEPT ![r] = "create"]
      /\ stops' = [stops EXCEPT ![r] = n] /\ at' = [at EXCEPT ![r] = 1]
      /\ UNCHANGED <<kid, got, owner, cleared>>
    BY DEF Start, Go
<1>3. alone' = [s \in Runs |-> IF s = r THEN Others(r) = {} ELSE alone[s] /\ phase[s] \notin Active]
    BY Zenon DEF Start
<1>4. before' = [s \in Runs |-> IF ~alone'[s] THEN 0 ELSE IF s = r THEN cleared ELSE before[s]]
    BY Zenon DEF Start
<1>5. /\ phase \in [Runs -> Active \cup {"idle", "gone"}] /\ stops \in [Runs -> StopCounts]
      /\ at \in [Runs -> Nat] /\ kid[r] = 0 /\ got[r] = {}
      /\ \A s \in Runs : /\ at[s] \in 1 .. Len(Order(stops[s])) + 1
                         /\ kid[s] \in 0 .. Len(Order(stops[s]))
                         /\ got[s] \subseteq NamesOf(s)
    BY <1>1, <1>2, Types DEF NotStarted
<1>6. n \in Nat \ {0} /\ Len(Order(n)) \in Nat \ {0} /\ Names(n) \subseteq Names(MaxStops)
    BY CountNames
<1>7. /\ phase'[r] = "create" /\ stops'[r] = n /\ at'[r] = 1
      /\ \A s \in Runs \ {r} : phase'[s] = phase[s] /\ stops'[s] = stops[s] /\ at'[s] = at[s]
    BY <1>2, <1>5
<1>8. "idle" \notin Active /\ "create" \in Active
    BY DEF Active
<1>9. ASSUME NEW s \in Runs, alone'[s] PROVE s = r /\ Others(r) = {}
    <2>1. CASE s = r
        BY <1>3, <1>9, <2>1, Zenon
    <2>2. CASE s # r
        <3>1. alone[s] /\ phase[s] \notin Active
            BY <1>3, <1>9, <2>2, Zenon
        <3> QED
            BY <1>1, <3>1, Zenon DEF Solo
    <2> QED
        BY <2>1, <2>2
<1>10. TypeOK'
    <2>1. phase' \in [Runs -> Active \cup {"idle", "gone"}] /\ stops' \in [Runs -> StopCounts] /\ at' \in [Runs -> Nat]
        BY <1>2, <1>5, <1>8
    <2>2. \A s \in Runs : /\ at'[s] \in 1 .. Len(Order(stops'[s])) + 1
                          /\ kid[s] \in 0 .. Len(Order(stops'[s]))
                          /\ got[s] \subseteq Names(stops'[s])
        <3> SUFFICES ASSUME NEW s \in Runs
                     PROVE  /\ at'[s] \in 1 .. Len(Order(stops'[s])) + 1
                            /\ kid[s] \in 0 .. Len(Order(stops'[s]))
                            /\ got[s] \subseteq Names(stops'[s])
            OBVIOUS
        <3>1. CASE s = r
            BY <1>5, <1>6, <1>7, <3>1
        <3>2. CASE s # r
            BY <1>5, <1>7, <3>2 DEF NamesOf
        <3> QED
            BY <3>1, <3>2
    <2>3. alone' \in [Runs -> BOOLEAN]
        <3>1. alone \in [Runs -> BOOLEAN]
            BY <1>1, Zenon DEF TypeOK
        <3> QED
            BY <1>3, <3>1, Zenon
    <2>4. before' \in [Runs -> 0 .. MaxStops]
        <3>1. before \in [Runs -> 0 .. MaxStops] /\ cleared \in 0 .. MaxStops
            BY <1>1, Zenon DEF TypeOK
        <3>2. MaxStops \in Nat
            BY MostStops, RunsAssumption
        <3>3. 0 \in 0 .. MaxStops
            BY <3>2
        <3> QED
            BY <1>4, <3>1, <3>3, Zenon
    <2> QED
        BY <1>1, <1>2, <2>1, <2>2, <2>3, <2>4, Zenon DEF TypeOK, NamesOf
<1>11. NotStarted'
    BY <1>1, <1>2, <1>7 DEF NotStarted
<1>12. InList'
    BY <1>1, <1>6, <1>7 DEF InList, Destroying
<1>13. Owned'
    BY <1>1, <1>2, <1>7, <1>8 DEF Owned, NamesOf
<1>14. Unlinked'
    <2> SUFFICES ASSUME NEW s \in Runs, phase'[s] \in Destroying, NEW i \in 1 .. at'[s] - 1
                 PROVE  owner'[Order(stops'[s])[i]] # s /\ ~alone'[s]
        BY Zenon DEF Unlinked
    <2>1. s # r
        BY <1>7 DEF Destroying
    <2> QED
        BY <1>1, <1>2, <1>7, <1>9, <2>1 DEF Unlinked
<1>15. Solo'
    <2> SUFFICES ASSUME NEW s \in Runs, alone'[s]
                 PROVE  phase'[s] \in Active /\ \A t \in Runs \ {s} : phase'[t] \notin Active
        BY Zenon DEF Solo
    <2> QED
        BY <1>7, <1>8, <1>9 DEF Others
<1>16. Cleared'
    BY <1>1, <1>2 DEF Cleared
<1>17. GetsAll'
    <2> SUFFICES ASSUME NEW s \in Runs, Fresh(s)'
                 PROVE  /\ phase'[s] = "create"
                        /\ \A name \in NamesOf(s)' : owner'[name] = None
                        /\ \A i \in 1 .. at'[s] - 1 : Order(stops'[s])[i] \in got'[s]
        BY Zenon DEF GetsAll
    <2>1. s = r /\ Others(r) = {}
        BY <1>9, Zenon DEF Fresh
    <2>2. before'[r] = cleared
        BY <1>4, <2>1, Zenon DEF Fresh
    <2>3. cleared >= n
        BY <1>7, <2>1, <2>2 DEF Fresh
    <2>4. cleared \in Nat /\ cleared > 0 /\ Names(n) \subseteq Names(cleared)
        BY <1>1, <1>6, <2>3, Types, NamesGrow
    <2>5. ASSUME NEW name \in Names(n) PROVE owner[name] = None
        <3>1. owner[name] \in Runs \cup {None, Left} /\ name \in DOMAIN owner
            BY <1>1, <1>6, Types
        <3>2. owner[name] # Left
            BY <1>1, <2>4 DEF Cleared
        <3>3. owner[name] \notin Runs
            BY <1>1, <1>2, <1>8, <2>1, <3>1 DEF Owned, Others
        <3> QED
            BY <3>1, <3>2, <3>3
    <2>6. 1 .. at'[r] - 1 = {}
        BY <1>7
    <2> QED
        BY <1>2, <1>7, <2>1, <2>5, <2>6, Zenon DEF NamesOf
<1> QED
    BY <1>10, <1>11, <1>12, <1>13, <1>14, <1>15, <1>16, <1>17, Zenon DEF IInv

-----------------------------------------------------------------------------
(* sem_open *)

LEMMA CreateStep == ASSUME IInv, NEW r \in Runs, create_semaphores(r) PROVE IInv'
<1> DEFINE name == Order(stops[r])[at[r]]
           last == at[r] = Len(Order(stops[r]))
<1>1. /\ TypeOK /\ NotStarted /\ InList /\ Owned /\ Unlinked /\ Solo /\ Cleared /\ GetsAll
    BY Zenon DEF IInv
<1>2. /\ phase[r] = "create" /\ at' = [at EXCEPT ![r] = at[r] + 1]
      /\ phase' = IF last THEN [phase EXCEPT ![r] = "ready"] ELSE phase
      /\ UNCHANGED <<stops, alone, before, kid, cleared>>
    BY DEF create_semaphores, Go, Kept
<1>3. IF owner[name] = None
      THEN owner' = [owner EXCEPT ![name] = r] /\ got' = [got EXCEPT ![r] = got[r] \cup {name}]
      ELSE owner' = owner /\ got' = got
    BY DEF create_semaphores, sem_open
<1>4. /\ phase \in [Runs -> Active \cup {"idle", "gone"}] /\ at \in [Runs -> Nat]
      /\ got \in [Runs -> SUBSET Names(MaxStops)]
      /\ owner \in [Names(MaxStops) -> Runs \cup {None, Left}]
      /\ \A s \in Runs : /\ at[s] \in 1 .. Len(Order(stops[s])) + 1
                         /\ got[s] \subseteq NamesOf(s)
    BY <1>1, Types
<1>5. at[r] \in 1 .. Len(Order(stops[r])) /\ Len(Order(stops[r])) \in Nat
    BY <1>1, <1>2, <1>4, NameFacts DEF InList
<1>6. name \in NamesOf(r) /\ name \in Names(MaxStops) /\ NamesOf(r) \subseteq Names(MaxStops)
    BY <1>1, <1>5, NameFacts
<1> HIDE DEF name, last
<1>7. /\ owner' \in [Names(MaxStops) -> Runs \cup {None, Left}]
      /\ \A x \in Names(MaxStops) : owner'[x] = IF x = name /\ owner[x] = None THEN r ELSE owner[x]
    <2>1. CASE owner[name] = None
        BY <1>3, <1>4, <1>6, <2>1
    <2>2. CASE owner[name] # None
        BY <1>3, <1>4, <1>6, <2>2
    <2> QED
        BY <2>1, <2>2
<1>8. /\ got' \in [Runs -> SUBSET Names(MaxStops)] /\ \A s \in Runs \ {r} : got'[s] = got[s]
      /\ got[r] \subseteq got'[r] /\ got'[r] \subseteq got[r] \cup {name}
      /\ owner[name] = None => name \in got'[r]
    <2>1. CASE owner[name] = None
        <3>1. got' = [got EXCEPT ![r] = got[r] \cup {name}]
            BY <1>3, <2>1, Zenon
        <3>2. got[r] \in SUBSET Names(MaxStops) /\ got[r] \cup {name} \in SUBSET Names(MaxStops)
            BY <1>4, <1>6
        <3>3. got'[r] = got[r] \cup {name} /\ \A s \in Runs \ {r} : got'[s] = got[s]
            BY <1>4, <3>1
        <3>4. got' \in [Runs -> SUBSET Names(MaxStops)]
            BY <1>4, <3>1, <3>2, Zenon
        <3> QED
            BY <3>3, <3>4, Zenon
    <2>2. CASE owner[name] # None
        BY <1>3, <1>4, <1>6, <2>2
    <2> QED
        BY <2>1, <2>2
<1>9. /\ at'[r] = at[r] + 1 /\ \A s \in Runs \ {r} : at'[s] = at[s]
      /\ at' \in [Runs -> Nat]
    BY <1>2, <1>4
<1>10. /\ phase'[r] = (IF last THEN "ready" ELSE "create")
       /\ \A s \in Runs \ {r} : phase'[s] = phase[s]
       /\ phase' \in [Runs -> Active \cup {"idle", "gone"}]
    <2>1. CASE last
        BY <1>2, <1>4, <2>1 DEF Active
    <2>2. CASE ~last
        BY <1>2, <1>4, <2>2
    <2> QED
        BY <2>1, <2>2
<1>11. "create" \in Active /\ "ready" \in Active
    BY DEF Active
<1>12. \A s \in Runs \ {r} : ~alone[s]
    BY <1>1, <1>2, <1>11, Zenon DEF Solo
<1>13. TypeOK'
    <2>1. \A s \in Runs : at'[s] \in 1 .. Len(Order(stops[s])) + 1
        BY <1>4, <1>5, <1>9
    <2>2. \A s \in Runs : got'[s] \subseteq NamesOf(s)
        BY <1>4, <1>6, <1>8
    <2> QED
        BY <1>1, <1>2, <1>7, <1>8, <1>9, <1>10, <2>1, <2>2, Zenon DEF TypeOK, NamesOf
<1>14. NotStarted'
    BY <1>1, <1>2, <1>8, <1>10 DEF NotStarted
<1>15. InList'
    BY <1>1, <1>2, <1>5, <1>9, <1>10 DEF InList, Destroying, last
<1>16. Owned'
    BY <1>1, <1>2, <1>4, <1>6, <1>7, <1>10, <1>11 DEF Owned, NamesOf
<1>17. Unlinked'
    <2> SUFFICES ASSUME NEW s \in Runs, phase'[s] \in Destroying, NEW i \in 1 .. at'[s] - 1
                 PROVE  owner'[Order(stops[s])[i]] # s /\ ~alone'[s]
        BY <1>2, Zenon DEF Unlinked
    <2>1. s # r
        BY <1>10 DEF Destroying
    <2>2. ~alone'[s]
        BY <1>2, <1>12, <2>1, Zenon
    <2>3. owner[Order(stops[s])[i]] # s /\ i \in 1 .. Len(Order(stops[s]))
        BY <1>1, <1>4, <1>9, <1>10, <2>1, NameFacts DEF Unlinked
    <2>4. Order(stops[s])[i] \in Names(MaxStops)
        BY <1>1, <2>3, NameFacts
    <2> QED
        BY <1>7, <2>1, <2>2, <2>3, <2>4
<1>18. Solo'
    BY <1>1, <1>2, <1>10, <1>11, <1>12, Zenon DEF Solo
<1>19. Cleared'
    BY <1>1, <1>2, <1>7, RunNumbers, ClearedNames DEF Cleared
<1>20. GetsAll'
    <2> SUFFICES ASSUME NEW s \in Runs, Fresh(s)'
                 PROVE  /\ phase'[s] = "create" =>
                               /\ \A x \in NamesOf(s)' : owner'[x] = None \/ x \in got'[s]
                               /\ \A i \in 1 .. at'[s] - 1 : Order(stops'[s])[i] \in got'[s]
                        /\ phase'[s] \in {"ready", "running"} => NamesOf(s)' \subseteq got'[s]
        BY Zenon DEF GetsAll
    <2>1. s = r /\ Fresh(r)
        BY <1>2, <1>12, Zenon DEF Fresh
    <2>2. /\ \A x \in NamesOf(r) : owner[x] = None \/ x \in got[r]
          /\ \A i \in 1 .. at[r] - 1 : Order(stops[r])[i] \in got[r]
        BY <1>1, <1>2, <2>1, Zenon DEF GetsAll
    <2>3. \A x \in NamesOf(r) : owner'[x] = None \/ x \in got'[r]
        BY <1>6, <1>7, <1>8, <2>2
    <2>4. name \in got'[r]
        BY <1>6, <1>8, <2>2
    <2>5. \A i \in 1 .. at[r] : Order(stops[r])[i] \in got'[r]
        BY <1>5, <1>8, <2>2, <2>4 DEF name
    <2>6. last => NamesOf(r) \subseteq got'[r]
        BY <1>1, <1>5, <2>5, NameFacts DEF last
    <2>7. NamesOf(r)' = NamesOf(r) /\ 1 .. at'[r] - 1 = 1 .. at[r] /\ stops' = stops
        BY <1>2, <1>5, <1>9 DEF NamesOf
    <2>8. "create" # "ready" /\ "create" # "running"
        OBVIOUS
    <2> QED
        BY <1>10, <2>1, <2>3, <2>5, <2>6, <2>7, <2>8, Zenon
<1> QED
    BY <1>13, <1>14, <1>15, <1>16, <1>17, <1>18, <1>19, <1>20, Zenon DEF IInv

-----------------------------------------------------------------------------
(* A process is gone *)

(* What a run that is gone leaves behind, whichever way it went. *)
LEMMA ExitParts ==
    ASSUME TypeOK, NotStarted, InList, Solo, NEW r \in Runs, Exit(r), phase[r] \in Active, stops' = stops,
           kid' = kid \/ kid' = [kid EXCEPT ![r] = 0],
           owner' \in [Names(MaxStops) -> Runs \cup {None, Left}], cleared' \in 0 .. MaxStops
    PROVE  /\ TypeOK' /\ NotStarted' /\ InList' /\ Solo'
           /\ phase'[r] = "gone" /\ \A s \in Runs \ {r} : phase'[s] = phase[s] /\ at'[s] = at[s]
           /\ \A s \in Runs : alone'[s] => s # r /\ alone[s]
<1>1. /\ phase' = [phase EXCEPT ![r] = "gone"] /\ at' = [at EXCEPT ![r] = 1]
      /\ got' = [got EXCEPT ![r] = {}]
      /\ before' = [before EXCEPT ![r] = 0] /\ alone' = [alone EXCEPT ![r] = FALSE]
    BY DEF Exit, Go
<1>2. /\ phase \in [Runs -> Active \cup {"idle", "gone"}] /\ at \in [Runs -> Nat]
      /\ got \in [Runs -> SUBSET Names(MaxStops)] /\ kid \in [Runs -> Nat]
      /\ \A s \in Runs : /\ at[s] \in 1 .. Len(Order(stops[s])) + 1
                         /\ kid[s] \in 0 .. Len(Order(stops[s]))
                         /\ got[s] \subseteq NamesOf(s)
                         /\ Len(Order(stops[s])) \in Nat \ {0}
    BY Types, NameFacts
<1>3. /\ phase'[r] = "gone" /\ at'[r] = 1 /\ at' \in [Runs -> Nat]
      /\ \A s \in Runs \ {r} : phase'[s] = phase[s] /\ at'[s] = at[s]
      /\ phase' \in [Runs -> Active \cup {"idle", "gone"}]
    BY <1>1, <1>2
<1>4. got'[r] = {} /\ \A s \in Runs \ {r} : got'[s] = got[s]
    BY <1>1, <1>2
<1>5. got' \in [Runs -> SUBSET Names(MaxStops)]
    BY <1>1, <1>2
<1>6. kid' \in [Runs -> Nat] /\ kid'[r] \in {0, kid[r]} /\ \A s \in Runs \ {r} : kid'[s] = kid[s]
    <2>1. CASE kid' = kid
        BY <1>2, <2>1
    <2>2. CASE kid' = [kid EXCEPT ![r] = 0]
        BY <1>2, <2>2
    <2> QED
        BY <2>1, <2>2
<1>7. alone \in [Runs -> BOOLEAN] /\ before \in [Runs -> 0 .. MaxStops]
    BY Zenon DEF TypeOK
<1>8. alone' \in [Runs -> BOOLEAN]
    BY <1>1, <1>7, Zenon
<1>9. \A s \in Runs : alone'[s] => s # r /\ alone[s]
    BY <1>1, <1>7, Zenon
<1>10. before' \in [Runs -> 0 .. MaxStops]
    <2>1. 0 \in 0 .. MaxStops
        BY MostStops, RunsAssumption
    <2> QED
        BY <1>1, <1>7, <2>1, Zenon
<1>11. TypeOK'
    <2>1. \A s \in Runs : /\ at'[s] \in 1 .. Len(Order(stops[s])) + 1
                          /\ kid'[s] \in 0 .. Len(Order(stops[s]))
                          /\ got'[s] \subseteq NamesOf(s)
        <3> SUFFICES ASSUME NEW s \in Runs
                     PROVE  /\ at'[s] \in 1 .. Len(Order(stops[s])) + 1
                            /\ kid'[s] \in 0 .. Len(Order(stops[s]))
                            /\ got'[s] \subseteq NamesOf(s)
            OBVIOUS
        <3>1. CASE s = r
            BY <1>2, <1>3, <1>4, <1>6, <3>1
        <3>2. CASE s # r
            BY <1>2, <1>3, <1>4, <1>6, <3>2
        <3> QED
            BY <3>1, <3>2
    <2>2. stops \in [Runs -> StopCounts]
        BY Types
    <2> QED
        BY <1>3, <1>5, <1>6, <1>8, <1>10, <2>1, <2>2, Zenon DEF TypeOK, NamesOf
<1>12. NotStarted'
    BY <1>3, <1>4, <1>6 DEF NotStarted
<1>13. InList'
    BY <1>3 DEF InList, Destroying
<1>14. Solo'
    <2>1. "gone" \notin Active
        BY DEF Active
    <2>2. \A s \in Runs : ~alone'[s]
        BY <1>9, Zenon DEF Solo
    <2> QED
        BY <2>2, Zenon DEF Solo
<1> QED
    BY <1>3, <1>9, <1>11, <1>12, <1>13, <1>14, Zenon

LEMMA DestroyStep == ASSUME IInv, NEW r \in Runs, destroy_semaphores(r) PROVE IInv'
<1> DEFINE name == Order(stops[r])[at[r]]
           last == at[r] = Len(Order(stops[r]))
<1>1. /\ TypeOK /\ NotStarted /\ InList /\ Owned /\ Unlinked /\ Solo /\ Cleared /\ GetsAll
    BY Zenon DEF IInv
<1>2. /\ phase[r] \in Destroying /\ owner' = [owner EXCEPT ![name] = None] /\ UNCHANGED <<stops, kid>>
    BY DEF destroy_semaphores, sem_unlink, Destroying
<1>3. /\ phase \in [Runs -> Active \cup {"idle", "gone"}] /\ at \in [Runs -> Nat]
      /\ owner \in [Names(MaxStops) -> Runs \cup {None, Left}]
      /\ \A s \in Runs : at[s] \in 1 .. Len(Order(stops[s])) + 1
    BY <1>1, Types
<1>4. at[r] \in 1 .. Len(Order(stops[r])) /\ Len(Order(stops[r])) \in Nat
    BY <1>1, <1>2, <1>3, NameFacts DEF InList
<1>5. name \in NamesOf(r) /\ name \in Names(MaxStops)
    BY <1>1, <1>4, NameFacts
<1>6. phase[r] \in Active
    BY <1>2 DEF Destroying, Active
<1>7. \A s \in Runs : \A i \in 1 .. at[s] - 1 : Order(stops[s])[i] \in Names(MaxStops)
    BY <1>1, <1>3, NameFacts
<1>8. \A s \in Runs \ {r} : ~alone[s]
    BY <1>1, <1>6, Zenon DEF Solo
<1> HIDE DEF name, last
<1>9. /\ owner' \in [Names(MaxStops) -> Runs \cup {None, Left}] /\ owner'[name] = None
      /\ \A x \in Names(MaxStops) : owner'[x] = owner[x] \/ owner'[x] = None
    BY <1>2, <1>3, <1>5
<1>10. ASSUME ~last PROVE IInv'
    <2>1. at' = [at EXCEPT ![r] = at[r] + 1] /\ UNCHANGED <<phase, got, alone, before, cleared>>
        BY <1>10 DEF destroy_semaphores, last
    <2>2. /\ at'[r] = at[r] + 1 /\ \A s \in Runs \ {r} : at'[s] = at[s]
          /\ at' \in [Runs -> Nat] /\ at[r] < Len(Order(stops[r]))
        BY <1>3, <1>4, <1>10, <2>1 DEF last
    <2>3. TypeOK'
        <3>1. at'[r] \in 1 .. Len(Order(stops[r])) + 1
            BY <1>4, <2>2
        <3>2. \A s \in Runs : at'[s] \in 1 .. Len(Order(stops[s])) + 1
            BY <1>3, <2>2, <3>1, Zenon
        <3> QED
            BY <1>1, <1>2, <1>9, <2>1, <2>2, <3>2, Zenon DEF TypeOK, NamesOf
    <2>4. NotStarted' /\ Solo'
        BY <1>1, <1>2, <2>1, Zenon DEF NotStarted, Solo
    <2>5. InList'
        BY <1>1, <1>2, <1>4, <2>1, <2>2 DEF InList
    <2>6. Owned'
        BY <1>1, <1>2, <1>3, <1>9, <2>1, RunNumbers DEF Owned, NamesOf
    <2>7. Unlinked'
        <3> SUFFICES ASSUME NEW s \in Runs, phase'[s] \in Destroying, NEW i \in 1 .. at'[s] - 1
                     PROVE  /\ owner'[Order(stops'[s])[i]] # s
                            /\ alone'[s] => owner'[Order(stops'[s])[i]] = None
            BY Zenon DEF Unlinked
        <3>0. stops' = stops /\ phase' = phase /\ alone' = alone
            BY <1>2, <2>1
        <3>1. CASE s = r /\ i = at[r]
            <4>1. owner'[Order(stops[s])[i]] = None
                BY <1>9, <3>1 DEF name
            <4>2. None # s
                BY RunNumbers
            <4> QED
                BY <3>0, <4>1, <4>2, Zenon
        <3>2. CASE i \in 1 .. at[s] - 1
            <4>1. owner[Order(stops[s])[i]] # s /\ (alone[s] => owner[Order(stops[s])[i]] = None)
                BY <1>1, <3>0, <3>2, Zenon DEF Unlinked
            <4>2. Order(stops[s])[i] \in Names(MaxStops) /\ None # s
                BY <1>7, <3>2, RunNumbers
            <4> QED
                BY <1>9, <3>0, <4>1, <4>2, Zenon
        <3> QED
            BY <1>3, <1>4, <2>2, <3>1, <3>2
    <2>8. Cleared'
        BY <1>1, <1>9, <2>1, RunNumbers, ClearedNames DEF Cleared
    <2>9. GetsAll'
        <3> SUFFICES ASSUME NEW s \in Runs, Fresh(s)'
                     PROVE  phase'[s] \in Destroying
            BY Zenon DEF GetsAll, Destroying
        <3>1. s = r
            BY <1>8, <2>1, Zenon DEF Fresh
        <3> QED
            BY <1>2, <2>1, <3>1
    <2> QED
        BY <2>3, <2>4, <2>5, <2>6, <2>7, <2>8, <2>9, Zenon DEF IInv
<1>11. ASSUME last PROVE IInv'
    <2>1. /\ Exit(r)
          /\ cleared' = IF alone[r] /\ stops[r] > cleared THEN stops[r] ELSE cleared
        BY <1>11, Zenon DEF destroy_semaphores, last
    <2>2. cleared' \in 0 .. MaxStops
        <3>1. stops[r] \in StopCounts /\ cleared \in 0 .. MaxStops /\ MaxStops \in Nat
            BY <1>1, MostStops, RunsAssumption, Types
        <3>2. stops[r] \in Nat /\ stops[r] <= MaxStops
            BY <3>1, MostStops, CountNames
        <3>3. stops[r] \in 0 .. MaxStops
            BY <3>1, <3>2
        <3> QED
            BY <2>1, <3>1, <3>3, Zenon
    <2>3. /\ TypeOK' /\ NotStarted' /\ InList' /\ Solo'
          /\ phase'[r] = "gone" /\ \A s \in Runs \ {r} : phase'[s] = phase[s] /\ at'[s] = at[s]
          /\ \A s \in Runs : alone'[s] => s # r /\ alone[s]
        BY <1>1, <1>2, <1>6, <1>9, <2>1, <2>2, ExitParts, Zenon
    <2>4. \A s \in Runs : ~alone'[s]
        BY <1>8, <2>3, Zenon
    <2>5. ASSUME NEW x \in NamesOf(r)
          PROVE  owner'[x] # r /\ (alone[r] => owner'[x] = None)
        <3>1. PICK i \in 1 .. Len(Order(stops[r])) : x = Order(stops[r])[i]
            BY <1>1, NameFacts
        <3>2. CASE i = at[r]
            <4>1. owner'[x] = None
                BY <1>9, <3>1, <3>2 DEF name
            <4> QED
                BY <4>1, RunNumbers
        <3>3. CASE i # at[r]
            <4>1. i \in 1 .. at[r] - 1
                BY <1>4, <1>11, <3>3 DEF last
            <4>2. owner[x] # r /\ (alone[r] => owner[x] = None)
                BY <1>1, <1>2, <3>1, <4>1, Zenon DEF Unlinked
            <4>3. x \in Names(MaxStops) /\ None # r
                BY <1>7, <3>1, <4>1, RunNumbers
            <4> QED
                BY <1>9, <4>2, <4>3, Zenon
        <3> QED
            BY <3>2, <3>3
    <2>6. Owned'
        <3> SUFFICES ASSUME NEW x \in Names(MaxStops), owner'[x] \in Runs
                     PROVE  phase'[owner'[x]] \in Active /\ x \in NamesOf(owner'[x])
            BY <1>2, <1>9 DEF Owned, NamesOf
        <3>1. owner'[x] = owner[x] /\ owner[x] \in Runs
            BY <1>9, RunNumbers
        <3>2. phase[owner[x]] \in Active /\ x \in NamesOf(owner[x])
            BY <1>1, <1>3, <3>1 DEF Owned
        <3>3. owner[x] # r
            BY <2>5, <3>1, <3>2
        <3> QED
            BY <2>3, <3>1, <3>2, <3>3
    <2>7. Unlinked'
        <3> SUFFICES ASSUME NEW s \in Runs, phase'[s] \in Destroying, NEW i \in 1 .. at'[s] - 1
                     PROVE  owner'[Order(stops[s])[i]] # s
            BY <1>2, <2>4, Zenon DEF Unlinked
        <3>1. s # r
            BY <2>3 DEF Destroying
        <3>2. /\ owner[Order(stops[s])[i]] # s /\ Order(stops[s])[i] \in Names(MaxStops) /\ None # s
            BY <1>1, <1>7, <2>3, <3>1, RunNumbers DEF Unlinked
        <3> QED
            BY <1>9, <3>2, Zenon
    <2>8. Cleared'
        <3>1. CASE alone[r] /\ stops[r] > cleared
            <4>1. cleared' = stops[r]
                BY <2>1, <3>1, Zenon
            <4>2. \A x \in Names(cleared') : owner'[x] = None
                BY <2>5, <3>1, <4>1, Zenon DEF NamesOf
            <4> QED
                BY <4>2, RunNumbers DEF Cleared
        <3>2. CASE ~(alone[r] /\ stops[r] > cleared)
            <4>1. cleared' = cleared
                BY <2>1, <3>2, Zenon
            <4> QED
                BY <1>1, <1>9, <4>1, RunNumbers, ClearedNames DEF Cleared
        <3> QED
            BY <3>1, <3>2
    <2>9. GetsAll'
        BY <2>4, Zenon DEF GetsAll, Fresh
    <2> QED
        BY <2>3, <2>6, <2>7, <2>8, <2>9, Zenon DEF IInv
<1> QED
    BY <1>10, <1>11

LEMMA KillStep == ASSUME IInv, NEW r \in Runs, Kill(r) PROVE IInv'
<1>1. /\ TypeOK /\ NotStarted /\ InList /\ Owned /\ Unlinked /\ Solo /\ Cleared /\ GetsAll
    BY Zenon DEF IInv
<1>2. /\ phase[r] \in Active /\ Exit(r) /\ cleared' = 0 /\ stops' = stops
      /\ kid' = kid \/ kid' = [kid EXCEPT ![r] = 0]
      /\ owner' = [name \in DOMAIN owner |-> IF owner[name] = r THEN Left ELSE owner[name]]
    BY DEF Kill
<1>3. /\ owner \in [Names(MaxStops) -> Runs \cup {None, Left}]
      /\ \A s \in Runs : at[s] \in 1 .. Len(Order(stops[s])) + 1
    BY <1>1, Types
<1>4. /\ owner' \in [Names(MaxStops) -> Runs \cup {None, Left}]
      /\ \A x \in Names(MaxStops) : owner'[x] = IF owner[x] = r THEN Left ELSE owner[x]
    BY <1>2, <1>3
<1>5. cleared' \in 0 .. MaxStops
    BY <1>2, MostStops, RunsAssumption
<1>6. /\ TypeOK' /\ NotStarted' /\ InList' /\ Solo'
      /\ phase'[r] = "gone" /\ \A s \in Runs \ {r} : phase'[s] = phase[s] /\ at'[s] = at[s]
      /\ \A s \in Runs : alone'[s] => s # r /\ alone[s]
    BY <1>1, <1>2, <1>4, <1>5, ExitParts, Zenon
<1>7. \A s \in Runs : ~alone'[s]
    BY <1>1, <1>2, <1>6, Zenon DEF Solo
<1>8. Owned'
    <2> SUFFICES ASSUME NEW x \in Names(MaxStops), owner'[x] \in Runs
                 PROVE  phase'[owner'[x]] \in Active /\ x \in NamesOf(owner'[x])
        BY <1>2, <1>4 DEF Owned, NamesOf
    <2>1. owner'[x] = owner[x] /\ owner[x] # r /\ owner[x] \in Runs
        BY <1>4, RunNumbers
    <2> QED
        BY <1>1, <1>3, <1>6, <2>1 DEF Owned
<1>9. Unlinked'
    <2> SUFFICES ASSUME NEW s \in Runs, phase'[s] \in Destroying, NEW i \in 1 .. at'[s] - 1
                 PROVE  owner'[Order(stops[s])[i]] # s
        BY <1>2, <1>7, Zenon DEF Unlinked
    <2>1. s # r
        BY <1>6 DEF Destroying
    <2>2. owner[Order(stops[s])[i]] # s /\ i \in 1 .. Len(Order(stops[s]))
        BY <1>1, <1>3, <1>6, <2>1, NameFacts DEF Unlinked
    <2>3. Order(stops[s])[i] \in Names(MaxStops)
        BY <1>1, <2>2, NameFacts
    <2> QED
        BY <1>4, <2>2, <2>3, RunNumbers
<1>10. Cleared'
    BY <1>2 DEF Cleared
<1>11. GetsAll'
    BY <1>7, Zenon DEF GetsAll, Fresh
<1> QED
    BY <1>6, <1>8, <1>9, <1>10, <1>11, Zenon DEF IInv

-----------------------------------------------------------------------------
LEMMA InitIInv == Init => IInv
<1> SUFFICES ASSUME Init PROVE IInv
    OBVIOUS
<1>1. /\ phase = [r \in Runs |-> "idle"] /\ stops = [r \in Runs |-> MaxStops]
      /\ at = [r \in Runs |-> 1] /\ kid = [r \in Runs |-> 0] /\ got = [r \in Runs |-> {}]
      /\ owner = [name \in Names(MaxStops) |-> None] /\ alone = [r \in Runs |-> FALSE]
      /\ cleared = MaxStops /\ before = [r \in Runs |-> 0]
    BY Zenon DEF Init
<1>2. MaxStops \in StopCounts /\ MaxStops \in Nat /\ Len(Order(MaxStops)) \in Nat \ {0}
    BY MostStops, CountNames
<1>3. "idle" \notin Active /\ "idle" \notin Destroying /\ "idle" \notin {"create", "ready", "running"}
    BY DEF Active, Destroying
<1>4. \A r \in Runs : phase[r] = "idle" /\ stops[r] = MaxStops /\ at[r] = 1 /\ kid[r] = 0 /\ got[r] = {}
    BY <1>1
<1>5. \A r \in Runs : ~alone[r]
    BY <1>1, Zenon
<1>6. \A name \in Names(MaxStops) : owner[name] = None
    BY <1>1
<1>7. TypeOK
    <2>1. /\ phase \in [Runs -> Active \cup {"idle", "gone"}] /\ stops \in [Runs -> StopCounts]
          /\ got \in [Runs -> SUBSET Names(MaxStops)]
          /\ owner \in [Names(MaxStops) -> Runs \cup {None, Left}]
          /\ alone \in [Runs -> BOOLEAN]
        BY <1>1, <1>2, Zenon
    <2>2. /\ at \in [Runs -> Nat] /\ kid \in [Runs -> Nat]
          /\ cleared \in 0 .. MaxStops /\ before \in [Runs -> 0 .. MaxStops]
        BY <1>1, <1>2
    <2>3. \A r \in Runs : /\ at[r] \in 1 .. Len(Order(stops[r])) + 1
                          /\ kid[r] \in 0 .. Len(Order(stops[r]))
                          /\ got[r] \subseteq NamesOf(r)
        BY <1>2, <1>4
    <2> QED
        BY <2>1, <2>2, <2>3, Zenon DEF TypeOK
<1>8. NotStarted /\ InList
    BY <1>3, <1>4 DEF NotStarted, InList, Destroying
<1>9. Owned
    BY <1>1, <1>6, RunNumbers DEF Owned
<1>10. Unlinked
    BY <1>3, <1>4 DEF Unlinked
<1>11. Solo /\ GetsAll
    BY <1>5, Zenon DEF Solo, GetsAll, Fresh
<1>12. Cleared
    BY <1>1, <1>6, RunNumbers DEF Cleared
<1> QED
    BY <1>7, <1>8, <1>9, <1>10, <1>11, <1>12, Zenon DEF IInv

LEMMA NextIInv == IInv /\ [Next]_vars => IInv'
<1> SUFFICES ASSUME IInv, [Next]_vars PROVE IInv'
    OBVIOUS
<1>1. CASE Next
    <2>1. PICK r \in Runs : RunNext(r)
        BY <1>1, Zenon DEF Next
    <2> QED
        BY <2>1, StartStep, CreateStep, InstallHandlerStep, ChildrenEndStep, signal_handlerStep,
           DestroyStep, ChildDestroysStep, KillStep, Zenon DEF RunNext
<1>2. CASE UNCHANGED vars
    BY <1>2, Zenon DEF vars, IInv, TypeOK, NotStarted, InList, Owned, Unlinked, Solo, Cleared, GetsAll,
       Fresh, NamesOf
<1> QED
    BY <1>1, <1>2

-----------------------------------------------------------------------------
(* IInv holds whatever number of runs create, destroy and are killed. *)
THEOREM Invariance == Spec => []IInv
BY InitIInv, NextIInv, PTL DEF Spec

(* destroy_semaphores leaves no name of a run that came to its end, in         *)
(* whatever order the run, its children and other runs unlink and create.      *)
THEOREM NoLeakTheorem == Spec => []NoLeak
<1>1. IInv => NoLeak
    <2> SUFFICES ASSUME IInv PROVE NoLeak
        OBVIOUS
    <2>1. TypeOK /\ Owned
        BY Zenon DEF IInv
    <2>2. "gone" \notin Active
        BY DEF Active
    <2> QED
        BY <2>1, <2>2, Zenon DEF NoLeak, Owned
<1> QED
    BY <1>1, Invariance, PTL

(* create_semaphores gets every name for a run that is alone, once a run with  *)
(* as many stops was alone and ended after the last one that was killed.       *)
THEOREM SecondRunTheorem == Spec => []SecondRunWorks
<1>1. IInv => SecondRunWorks
    <2> SUFFICES ASSUME IInv, NEW r \in Runs, phase[r] = "running", alone[r], before[r] >= stops[r]
                 PROVE  got[r] = NamesOf(r)
        BY Zenon DEF SecondRunWorks
    <2>1. NamesOf(r) \subseteq got[r]
        BY Zenon DEF IInv, GetsAll, Fresh
    <2>2. got[r] \subseteq NamesOf(r)
        BY Zenon DEF IInv, TypeOK
    <2> QED
        BY <2>1, <2>2
<1> QED
    BY <1>1, Invariance, PTL
=============================================================================
