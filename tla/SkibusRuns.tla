----------------------------- MODULE SkibusRuns -----------------------------
(* Runs of ios/skibus on one machine: main, the named semaphores of           *)
(* semaphors.c and the signals of proj2.c.                                    *)
(*                                                                            *)
(* The names outlive a process. create_semaphores opens each with O_EXCL and  *)
(* does not look at the result: a name that exists gives SEM_FAILED.          *)
(* destroy_semaphores unlinks the names of its own number of stops. A SIGINT  *)
(* reaches main and its children, who all inherited the handler and all       *)
(* destroy; before the handler is installed it ends main, and while it runs   *)
(* SIGINT is blocked. SIGKILL cannot be handled. What the processes do in     *)
(* between is the module Skibus.                                              *)
EXTENDS Naturals, Sequences, FiniteSets

CONSTANTS MaxRuns,      \* bound: how often the program is started
          MaxAtOnce,    \* bound: how many processes create or unlink at a time
          StopCounts,   \* num_stops of a command line
          FixedNames    \* the names without a number, in the order of creation

(* sem_open of write_sync, which every process needs first, is the first one; *)
(* parse_arguments admits at most ten stops.                                  *)
ASSUME RunsAssumption ==
    /\ MaxRuns \in Nat /\ MaxAtOnce \in Nat
    /\ StopCounts \subseteq Nat \ {0}
    /\ \E n \in StopCounts : \A m \in StopCounts : m <= n
    /\ FixedNames \in Seq(STRING) /\ FixedNames # <<>>

VARIABLES phase,    \* of each run
          stops,    \* its num_stops
          at,       \* the name it creates or unlinks next
          kid,      \* the name a child of it unlinks next, 0 if none does
          got,      \* the names its sem_open succeeded for
          owner,    \* the creator of each name, None, or Left by a run that was killed
          alone,    \* history: no other run was under way since it was started
          cleared,  \* history: no run left a stop with a number up to this one
          before    \* history: cleared when the run was started, for one that is alone

vars == <<phase, stops, at, kid, got, owner, alone, cleared, before>>

Runs == 1 .. MaxRuns    \* in the order in which they are started
None == 0
Left == MaxRuns + 1
MaxStops == CHOOSE n \in StopCounts : \A m \in StopCounts : m <= n

(* A name is a word and a number: bus_stop0 .. bus_stop<num_stops>. *)
Order(n) == [i \in DOMAIN FixedNames |-> <<FixedNames[i], 0>>]
            \o [i \in 1 .. n + 1 |-> <<"bus_stop", i - 1>>]
Names(n) == {Order(n)[i] : i \in DOMAIN Order(n)}
NamesOf(r) == Names(stops[r])

Active == {"create", "ready", "running", "cleanup", "handler"}
Busy == Cardinality({s \in Runs : phase[s] \in Active})
        + Cardinality({s \in Runs : kid[s] # 0})
Others(r) == {s \in Runs \ {r} : phase[s] \in Active}

Go(r, p) == phase' = [phase EXCEPT ![r] = p]
Kept == <<stops, alone, before>>

(* A process that is gone has nothing open; its other variables do not matter. *)
Exit(r) ==
    /\ Go(r, "gone")
    /\ at' = [at EXCEPT ![r] = 1]
    /\ got' = [got EXCEPT ![r] = {}]
    /\ alone' = [alone EXCEPT ![r] = FALSE]
    /\ before' = [before EXCEPT ![r] = 0]

-----------------------------------------------------------------------------
Start(r, n) ==
    /\ phase[r] = "idle" /\ \A s \in 1 .. r - 1 : phase[s] # "idle"
    /\ Busy < MaxAtOnce
    /\ Go(r, "create")
    /\ stops' = [stops EXCEPT ![r] = n]
    /\ at' = [at EXCEPT ![r] = 1]
    /\ alone' = [s \in Runs |-> IF s = r THEN Others(r) = {}
                                ELSE alone[s] /\ phase[s] \notin Active]
    /\ before' = [s \in Runs |-> IF ~alone'[s] THEN 0
                                 ELSE IF s = r THEN cleared ELSE before[s]]
    /\ UNCHANGED <<kid, got, owner, cleared>>

(* sem_open with O_CREAT | O_EXCL. *)
sem_open(r, name) ==
    IF owner[name] = None
    THEN /\ owner' = [owner EXCEPT ![name] = r]
         /\ got' = [got EXCEPT ![r] = @ \cup {name}]
    ELSE UNCHANGED <<owner, got>>

create_semaphores(r) ==
    /\ phase[r] = "create"
    /\ sem_open(r, Order(stops[r])[at[r]])
    /\ at' = [at EXCEPT ![r] = @ + 1]
    /\ IF at[r] = Len(Order(stops[r])) THEN Go(r, "ready") ELSE UNCHANGED phase
    /\ UNCHANGED <<Kept, kid, cleared>>

InstallHandler(r) ==
    /\ phase[r] = "ready"
    /\ Go(r, "running")
    /\ UNCHANGED <<Kept, at, kid, got, owner, cleared>>

(* Mutant: main waits for children that exit, and not for those that trap. *)
ChildrenEndNormally(r) ==
    /\ phase[r] = "running" /\ FixedNames[1] \in {name[1] : name \in got[r]}
    /\ Go(r, "cleanup")
    /\ at' = [at EXCEPT ![r] = 1]
    /\ UNCHANGED <<Kept, kid, got, owner, cleared>>

(* All children have ended, by exit or by a trap, and wait has returned. *)
ChildrenEnd(r) ==
    /\ phase[r] = "running"
    /\ Go(r, "cleanup")
    /\ at' = [at EXCEPT ![r] = 1]
    /\ UNCHANGED <<Kept, kid, got, owner, cleared>>

(* In main, also when it has begun to destroy, and in a child if there is one. *)
signal_handler(r) ==
    /\ phase[r] \in {"running", "cleanup"}
    /\ Go(r, "handler")
    /\ at' = [at EXCEPT ![r] = 1]
    /\ \E k \in IF phase[r] = "running" /\ Busy < MaxAtOnce THEN {0, 1} ELSE {0} :
           kid' = [kid EXCEPT ![r] = k]
    /\ UNCHANGED <<Kept, got, owner, cleared>>

sem_unlink(name) == owner' = [owner EXCEPT ![name] = None]

(* Mutant: the loop over the stops ends one early. *)
destroy_semaphores_short(r) ==
    /\ phase[r] \in {"cleanup", "handler"}
    /\ sem_unlink(Order(stops[r])[at[r]])
    /\ IF at[r] = Len(Order(stops[r])) - 1
       THEN /\ Exit(r)
            /\ cleared' = IF alone[r] /\ stops[r] > cleared THEN stops[r] ELSE cleared
       ELSE /\ at' = [at EXCEPT ![r] = @ + 1]
            /\ UNCHANGED <<phase, got, alone, before, cleared>>
    /\ UNCHANGED <<stops, kid>>

(* Mutant: only what was opened is closed and unlinked. *)
destroy_semaphores_own(r) ==
    /\ phase[r] \in {"cleanup", "handler"}
    /\ IF Order(stops[r])[at[r]] \in got[r]
       THEN sem_unlink(Order(stops[r])[at[r]])
       ELSE UNCHANGED owner
    /\ IF at[r] = Len(Order(stops[r]))
       THEN /\ Exit(r)
            /\ cleared' = IF alone[r] /\ stops[r] > cleared THEN stops[r] ELSE cleared
       ELSE /\ at' = [at EXCEPT ![r] = @ + 1]
            /\ UNCHANGED <<phase, got, alone, before, cleared>>
    /\ UNCHANGED <<stops, kid>>

destroy_semaphores(r) ==
    /\ phase[r] \in {"cleanup", "handler"}
    /\ sem_unlink(Order(stops[r])[at[r]])
    /\ IF at[r] = Len(Order(stops[r]))
       THEN /\ Exit(r)
            /\ cleared' = IF alone[r] /\ stops[r] > cleared THEN stops[r] ELSE cleared
       ELSE /\ at' = [at EXCEPT ![r] = @ + 1]
            /\ UNCHANGED <<phase, got, alone, before, cleared>>
    /\ UNCHANGED <<stops, kid>>

(* A child may be slower than main, and than the user who starts the next run. *)
ChildDestroys(r) ==
    /\ kid[r] # 0
    /\ sem_unlink(Order(stops[r])[kid[r]])
    /\ kid' = [kid EXCEPT ![r] = IF @ = Len(Order(stops[r])) THEN 0 ELSE @ + 1]
    /\ UNCHANGED <<Kept, phase, at, got, cleared>>

(* SIGKILL of main, or of all, at any time; SIGINT while its action is still   *)
(* the default one; a fork that fails, upon which main exits.                 *)
Kill(r) ==
    /\ phase[r] \in Active
    /\ Exit(r)
    /\ kid' \in {kid, [kid EXCEPT ![r] = 0]}
    /\ cleared' = 0
    /\ owner' = [name \in DOMAIN owner |-> IF owner[name] = r THEN Left ELSE owner[name]]
    /\ UNCHANGED stops

-----------------------------------------------------------------------------
Init == /\ phase = [r \in Runs |-> "idle"]
        /\ stops = [r \in Runs |-> MaxStops]
        /\ at = [r \in Runs |-> 1]
        /\ kid = [r \in Runs |-> 0]
        /\ got = [r \in Runs |-> {}]
        /\ owner = [name \in Names(MaxStops) |-> None]
        /\ alone = [r \in Runs |-> FALSE]
        /\ cleared = MaxStops
        /\ before = [r \in Runs |-> 0]

RunNext(r) == \/ \E n \in StopCounts : Start(r, n)
              \/ create_semaphores(r) \/ InstallHandler(r)
              \/ ChildrenEnd(r) \/ signal_handler(r)
              \/ destroy_semaphores(r) \/ ChildDestroys(r)
              \/ Kill(r)

Next == \E r \in Runs : RunNext(r)

Spec == Init /\ [][Next]_vars

(* Every process locks write_sync first, and traps if it is SEM_FAILED. *)
Traps(r) == Order(stops[r])[1] \notin got[r]

(* main runs; children that trap end. *)
FairSpec == /\ Spec
            /\ \A r \in Runs :
                   /\ WF_vars(create_semaphores(r)) /\ WF_vars(InstallHandler(r))
                   /\ WF_vars(destroy_semaphores(r))
                   /\ WF_vars(Traps(r) /\ ChildrenEnd(r))

-----------------------------------------------------------------------------
TypeOK ==
    /\ phase \in [Runs -> Active \cup {"idle", "gone"}]
    /\ stops \in [Runs -> StopCounts]
    /\ at \in [Runs -> Nat] /\ kid \in [Runs -> Nat]
    /\ got \in [Runs -> SUBSET Names(MaxStops)]
    /\ \A r \in Runs : /\ at[r] \in 1 .. Len(Order(stops[r])) + 1
                       /\ kid[r] \in 0 .. Len(Order(stops[r]))
                       /\ got[r] \subseteq NamesOf(r)
    /\ owner \in [Names(MaxStops) -> Runs \cup {None, Left}]
    /\ alone \in [Runs -> BOOLEAN] /\ cleared \in 0 .. MaxStops
    /\ before \in [Runs -> 0 .. MaxStops]

(* A run that came to its end, by itself or by SIGINT, has left no name, in   *)
(* whatever order it, its children and other runs unlink and create.          *)
NoLeak == /\ TypeOK
          /\ \A name \in DOMAIN owner :
                 owner[name] \in Runs => phase[owner[name]] # "gone"

(* A run has all its semaphores if it is alone and if, since the last run     *)
(* that was killed, one with at least as many stops was alone and ended: one  *)
(* failing run clears what a killed one left, but only for its own stops.     *)
SecondRunWorks ==
    \A r \in Runs : phase[r] = "running" /\ alone[r] /\ before[r] >= stops[r] =>
                        got[r] = NamesOf(r)

(* A run that finds the names of another one does not hang: it ends, and so   *)
(* clears the names away.                                                     *)
FailingRunEnds ==
    \A r \in Runs : phase[r] = "running" /\ Traps(r) ~> phase[r] = "gone"
=============================================================================
