-------------------------------- MODULE Maze --------------------------------
(* The maze of src/izp/projekt_2/maze.c: a grid of triangles is loaded from a *)
(* file, and is tested for consistent walls, left by the left- or the         *)
(* right-hand rule, or searched for a shortest path out of it.                *)
(*                                                                            *)
(* One behaviour is one run of the program.  A cell has three sides: left,    *)
(* right, and either a top or a bottom one.  Positions are <<row, col>>,      *)
(* counted from 0 as in Map_solve.  What happens after the program reads or   *)
(* writes memory that is not its own is not followed: pc is "undefined".      *)
EXTENDS Integers, FiniteSets, SequencesExt

CONSTANT Commands

(* A command line: an option, a start that counts from 1 and may lie outside  *)
(* the maze, and a maze file, which is its numbers in order and whether some  *)
(* other character stands where a number should.                              *)
ASSUME CommandsAssumption ==
    \A c \in Commands :
        /\ c.option \in {"test", "lpath", "rpath", "shortest"}
        /\ c.start \in Int \X Int
        /\ c.numbers \in Seq(Nat)
        /\ c.foreign \in BOOLEAN

VARIABLES command,
          pc,
          map,        \* [rows, cols, cells]; cells are stored row after row
          verdict,    \* what --test, or a refusal, prints
          pos, from,  \* the arguments of Map_solve
          queue, pre, node,      \* the breadth-first search
          path        \* what --shortest prints, in reverse of print_arr

vars == <<command, pc, map, verdict, pos, from, queue, pre, node, path>>
search == <<queue, pre, node, path>>

option == command.option
start == command.start

Sides == {"TOP", "RIGHT", "BOTTOM", "LEFT"}
None == <<-1, -1>>
NoMap == [rows |-> 0, cols |-> 0, cells |-> <<>>]
NoQueue == [nodes |-> <<>>, size |-> 0, front |-> 0, rear |-> 0]

Size(m) == m.rows * m.cols
Index(m, p) == p[1] * m.cols + p[2]
Inside(m, p) == p[1] \in 0 .. m.rows - 1 /\ p[2] \in 0 .. m.cols - 1
Cells(m) == (0 .. m.rows - 1) \X (0 .. m.cols - 1)

-----------------------------------------------------------------------------
(* Cells and their walls. *)

(* A number is kept as the character num + '0' in an unsigned char, and      *)
(* dec_to_bin takes it as a signed one: 256 is again 0.                      *)
Digit(num) == LET byte == (num + 48) % 256
              IN  (IF byte > 127 THEN byte - 256 ELSE byte) - 48

(* dec_to_bin refuses all but 0 .. 7; isborder then says: no wall. *)
HasBits(dec) == dec \in 0 .. 7

Bit(dec, border) == (dec \div (CASE border = "TOP_WALL"   -> 4
                                 [] border = "RIGHT_WALL" -> 2
                                 [] border = "LEFT_WALL"  -> 1)) % 2

isborder(m, p, border) ==
    LET dec == m.cells[Index(m, p)] IN HasBits(dec) /\ Bit(dec, border) = 1

has_top_wall(p) == (p[1] + p[2]) % 2 = 0

(* BOTTOM_WALL is the same bit as TOP_WALL. *)
Border(side) == CASE side = "RIGHT" -> "RIGHT_WALL"
                  [] side = "LEFT"  -> "LEFT_WALL"
                  [] OTHER          -> "TOP_WALL"

SidesOf(p) == {"LEFT", "RIGHT", IF has_top_wall(p) THEN "TOP" ELSE "BOTTOM"}

Open(m, p, side) == side \in SidesOf(p) /\ ~isborder(m, p, Border(side))

Neighbour(p, side) == CASE side = "TOP"    -> <<p[1] - 1, p[2]>>
                        [] side = "BOTTOM" -> <<p[1] + 1, p[2]>>
                        [] side = "LEFT"   -> <<p[1], p[2] - 1>>
                        [] side = "RIGHT"  -> <<p[1], p[2] + 1>>

Opposite(side) == CASE side = "TOP"    -> "BOTTOM"
                    [] side = "BOTTOM" -> "TOP"
                    [] side = "LEFT"   -> "RIGHT"
                    [] side = "RIGHT"  -> "LEFT"

-----------------------------------------------------------------------------
(* The program is started. *)

Init ==
    /\ command \in Commands
    /\ pc = "load"
    /\ map = NoMap
    /\ verdict = "none"
    /\ pos = None /\ from = "none"
    /\ queue = NoQueue /\ pre = <<>> /\ node = None /\ path = <<>>

-----------------------------------------------------------------------------
(* Map_loader. *)

NumbersMissing(f) == Len(f.numbers) < 2
BadSize(f) == \E i \in 1 .. 2 : i <= Len(f.numbers) /\ f.numbers[i] < 1
NumCells(f) == Len(f.numbers) - 2
Announced(f) == f.numbers[1] * f.numbers[2]

Refused(f) ==
    ~(/\ ~f.foreign /\ ~NumbersMissing(f) /\ ~BadSize(f)
      /\ NumCells(f) = Announced(f))

(* Without two numbers the map is an uninitialized pointer; with too many     *)
(* the cells are written past their end before they are counted.              *)
Trespasses(f) ==
    ~BadSize(f) /\ ~(~NumbersMissing(f) /\ NumCells(f) <= Announced(f))

Loaded(f) == [rows |-> f.numbers[1], cols |-> f.numbers[2],
              cells |-> [i \in 0 .. NumCells(f) - 1 |->
                             Digit(f.numbers[i + 3])]]

(* The side on which the start lies open; the first that fits is taken.  A    *)
(* start outside the map asks for the walls of the cell that has its index.   *)
start_border(m, s) ==
    LET p == <<s[1] - 1, s[2] - 1>>
        free(border) == ~isborder(m, p, border)
    IN  CASE s[1] = 1 /\ free("TOP_WALL")             -> "TOP"
          [] s[1] = m.rows /\ free("TOP_WALL")        -> "BOTTOM"
          [] s[2] = 1 /\ free("LEFT_WALL")            -> "LEFT"
          [] s[2] = m.cols /\ free("RIGHT_WALL")      -> "RIGHT"
          [] OTHER                                    -> "none"

(* No cell has its index: start_border reads foreign memory, ... *)
ForeignStart(m, s) ==
    /\ s[1] \in {1, m.rows} \/ s[2] \in {1, m.cols}
    /\ Index(m, <<s[1] - 1, s[2] - 1>>) \notin DOMAIN m.cells

(* ... and reports what the byte it finds there makes of it. *)
start_borders(m, s) ==
    IF ForeignStart(m, s)
    THEN {side \in Sides : \/ side = "TOP" /\ s[1] = 1
                           \/ side = "BOTTOM" /\ s[1] = m.rows /\ s[1] # 1
                           \/ side = "LEFT" /\ s[2] = 1
                           \/ side = "RIGHT" /\ s[2] = m.cols} \cup {"none"}
    ELSE {start_border(m, s)}

(* Only then does start_border say "Invalid"; the walk goes on regardless. *)
IsInterior(m, s) == s[1] \in 2 .. m.rows - 2 /\ s[2] \in 2 .. m.cols - 2

Refuse ==
    /\ pc = "load" /\ Refused(command)
    /\ verdict' = "Invalid"
    /\ pc' = "done"
    /\ UNCHANGED <<command, map, pos, from, search>>

LoadTrap ==
    /\ pc = "load"
    /\ \/ Trespasses(command)
       \/ /\ ~Refused(command) /\ option # "test"
          /\ ForeignStart(Loaded(command), start)
    /\ pc' = "undefined"
    /\ UNCHANGED <<command, map, verdict, pos, from, search>>

Load ==
    /\ pc = "load" /\ ~Refused(command)
    /\ map' = Loaded(command)
    /\ IF option = "test"
       THEN pc' = "test" /\ UNCHANGED <<verdict, pos, from>>
       ELSE /\ pc' = "solve"
            /\ pos' = <<start[1] - 1, start[2] - 1>>
            /\ from' \in start_borders(map', start)
            /\ verdict' = IF IsInterior(map', start) THEN "Invalid" ELSE "none"
    /\ UNCHANGED <<command, search>>

-----------------------------------------------------------------------------
(* Map_valid_maze: the pairs its two loops compare. *)

RowPairs(m) == {p \in Cells(m) : p[2] < m.cols - 1}
(* Mutant: the parity of the rows is mistaken. *)
ColumnPairsShifted(m) == {p \in Cells(m) : /\ p[1] < m.rows - 1
                                           /\ p[2] % 2 = p[1] % 2}
ColumnPairs(m) == {p \in Cells(m) : /\ p[1] < m.rows - 1
                                    /\ p[2] % 2 = (p[1] + 1) % 2}

Map_valid_maze(m) ==
    /\ \A p \in RowPairs(m) :
          isborder(m, p, "RIGHT_WALL")
              = isborder(m, Neighbour(p, "RIGHT"), "LEFT_WALL")
    /\ \A p \in ColumnPairs(m) :
          isborder(m, p, "TOP_WALL")
              = isborder(m, Neighbour(p, "BOTTOM"), "TOP_WALL")

Test ==
    /\ pc = "test"
    /\ verdict' = IF Map_valid_maze(map) THEN "Valid" ELSE "Invalid"
    /\ pc' = "done"
    /\ UNCHANGED <<command, map, pos, from, search>>

-----------------------------------------------------------------------------
(* Map_solve with 'l' or 'r': one call per step. *)

(* Mutant: straight on before the turn, when coming from the right. *)
TriedStraight(hand, side) ==
    CASE side = "TOP" /\ hand = "lpath"    -> <<"RIGHT", "LEFT">>
      [] side = "TOP" /\ hand = "rpath"    -> <<"LEFT", "RIGHT">>
      [] side = "BOTTOM" /\ hand = "lpath" -> <<"LEFT", "RIGHT">>
      [] side = "BOTTOM" /\ hand = "rpath" -> <<"RIGHT", "LEFT">>
      [] side = "RIGHT"                    -> <<"LEFT", "TOP", "BOTTOM">>
      [] side = "LEFT" /\ hand = "lpath"   -> <<"TOP", "RIGHT", "BOTTOM">>
      [] side = "LEFT" /\ hand = "rpath"   -> <<"BOTTOM", "RIGHT", "TOP">>

(* The sides a hand tries after coming from a side; else it goes back. *)
Tried(hand, side) ==
    CASE hand = "lpath" /\ side = "TOP"    -> <<"RIGHT", "LEFT">>
      [] hand = "lpath" /\ side = "RIGHT"  -> <<"BOTTOM", "LEFT", "TOP">>
      [] hand = "lpath" /\ side = "BOTTOM" -> <<"LEFT", "RIGHT">>
      [] hand = "lpath" /\ side = "LEFT"   -> <<"TOP", "RIGHT", "BOTTOM">>
      [] hand = "rpath" /\ side = "TOP"    -> <<"LEFT", "RIGHT">>
      [] hand = "rpath" /\ side = "RIGHT"  -> <<"TOP", "LEFT", "BOTTOM">>
      [] hand = "rpath" /\ side = "BOTTOM" -> <<"RIGHT", "LEFT">>
      [] hand = "rpath" /\ side = "LEFT"   -> <<"BOTTOM", "RIGHT", "TOP">>

(* Mutant: in a blind alley the walk goes on instead of back. *)
TurnOnward(m, p, hand, side) ==
    LET i == SelectInSeq(Tried(hand, side), LAMBDA s : Open(m, p, s))
    IN  IF i = 0 THEN Opposite(side) ELSE Tried(hand, side)[i]

Turn(m, p, hand, side) ==
    LET i == SelectInSeq(Tried(hand, side), LAMBDA s : Open(m, p, s))
    IN  IF i = 0 THEN side ELSE Tried(hand, side)[i]

CellAt(p) == map.cells[Index(map, p)]

LeaveMap ==
    /\ pc = "solve" /\ ~Inside(map, pos)
    /\ pc' = "done"
    /\ UNCHANGED <<command, map, verdict, pos, from, search>>

(* A cell dec_to_bin refuses: the null pointer it returns is read. *)
NoBits ==
    /\ pc = "solve" /\ Inside(map, pos) /\ ~HasBits(CellAt(pos))
    /\ pc' = "undefined"
    /\ UNCHANGED <<command, map, verdict, pos, from, search>>

DeadEnd ==
    /\ pc = "solve" /\ Inside(map, pos) /\ CellAt(pos) = 7
    /\ pc' = "deadend"
    /\ UNCHANGED <<command, map, verdict, pos, from, search>>

Enters == pc = "solve" /\ Inside(map, pos) /\ CellAt(pos) \in 0 .. 6

(* Mutant: the side that was left is passed on, not the one entered by. *)
WalkUnturned ==
    /\ Enters /\ option \in {"lpath", "rpath"} /\ from # "none"
    /\ LET side == Turn(map, pos, option, from)
       IN  pos' = Neighbour(pos, side) /\ from' = side
    /\ UNCHANGED <<command, pc, map, verdict, search>>

Walk ==
    /\ Enters /\ option \in {"lpath", "rpath"} /\ from # "none"
    /\ LET side == Turn(map, pos, option, from)
       IN  pos' = Neighbour(pos, side) /\ from' = Opposite(side)
    /\ UNCHANGED <<command, pc, map, verdict, search>>

NoDirection ==
    /\ Enters /\ option \in {"lpath", "rpath"} /\ from = "none"
    /\ pc' = "done"
    /\ UNCHANGED <<command, map, verdict, pos, from, search>>

-----------------------------------------------------------------------------
(* Map_solve with 's': a breadth-first search over a ring buffer. *)

Enqueue(q, n) ==
    IF q.size = Size(map) THEN q
    ELSE [q EXCEPT !.nodes[q.rear] = n,
                   !.rear = (q.rear + 1) % Size(map),
                   !.size = q.size + 1]

Dequeue(q) == [q EXCEPT !.front = (q.front + 1) % Size(map),
                        !.size = q.size - 1]

q_ctor == [nodes |-> [i \in 0 .. Size(map) - 1 |-> None],
           size |-> 0, front |-> 0, rear |-> 0]

Indices == 0 .. Size(map) - 1

SearchStart ==
    /\ Enters /\ option = "shortest"
    /\ queue' = Enqueue(q_ctor, pos)
    /\ pre' = [[i \in Indices |-> None] EXCEPT ![Index(map, pos)] = pos]
    /\ pc' = "search"
    /\ UNCHANGED <<command, map, verdict, pos, from, node, path>>

(* The condition of the four breaks: a way out, but in another row and in     *)
(* another column than the start.                                             *)
IsExit(m, p, s) ==
    \E side \in Sides : /\ Open(m, p, side) /\ ~Inside(m, Neighbour(p, side))
                        /\ p[1] # s[1] /\ p[2] # s[2]

(* Mutant: a node is enqueued and not marked. *)
DiscoverUnmarked(s, n, side) ==
    LET i == Index(map, Neighbour(n, side))
    IN  IF Open(map, n, side) /\ i \in Indices /\ s.pre[i][1] = -1
        THEN [s EXCEPT !.queue = Enqueue(s.queue, Neighbour(n, side))]
        ELSE s

(* pre_nodes is indexed by the neighbour even when that lies outside the map, *)
(* where the index is the one of another cell or of none.                     *)
Discover(s, n, side) ==
    LET i == Index(map, Neighbour(n, side))
    IN  IF Open(map, n, side) /\ i \in Indices /\ s.pre[i][1] = -1
        THEN [queue |-> Enqueue(s.queue, Neighbour(n, side)),
              pre |-> [s.pre EXCEPT ![i] = n]]
        ELSE s

Discovered(q, n) ==
    LET top == Discover([queue |-> q, pre |-> pre], n, "TOP")
        right == Discover(top, n, "RIGHT")
        bottom == Discover(right, n, "BOTTOM")
    IN  Discover(bottom, n, "LEFT")

SearchStep ==
    /\ pc = "search" /\ queue.size > 0
    /\ LET n == queue.nodes[queue.front]
           q == Dequeue(queue)
       IN  /\ node' = n
           /\ \/ /\ ~Inside(map, n)
                 /\ queue' = q /\ UNCHANGED <<pc, pre>>
              \/ /\ Inside(map, n) /\ IsExit(map, n, pos)
                 /\ queue' = q /\ pc' = "print" /\ UNCHANGED pre
              \/ /\ Inside(map, n) /\ ~IsExit(map, n, pos)
                 /\ queue' = Discovered(q, n).queue
                 /\ pre' = Discovered(q, n).pre
                 /\ UNCHANGED pc
    /\ UNCHANGED <<command, map, verdict, pos, from, path>>

(* An index of no cell reads foreign memory.  If that happens to hold -1, the *)
(* program goes on to write there.                                            *)
SearchTrap ==
    /\ pc = "search" /\ queue.size > 0
    /\ LET n == queue.nodes[queue.front]
       IN  /\ Inside(map, n) /\ ~IsExit(map, n, pos)
           /\ \E side \in Sides : /\ Open(map, n, side)
                                  /\ Index(map, Neighbour(n, side)) \notin Indices
    /\ pc' = "undefined"
    /\ UNCHANGED <<command, map, verdict, pos, from, search>>

SearchEmpty ==
    /\ pc = "search" /\ queue.size = 0
    /\ pc' = "print"
    /\ UNCHANGED <<command, map, verdict, pos, from, search>>

(* Mutant: print_arr is printed as it was filled. *)
PrintNodeForward ==
    /\ pc = "print"
    /\ path' = Append(path, node)
    /\ IF node = pos THEN pc' = "done" /\ UNCHANGED node
                     ELSE node' = pre[Index(map, node)] /\ UNCHANGED pc
    /\ UNCHANGED <<command, map, verdict, pos, from, queue, pre>>

(* One node of the path, from the last to the first. *)
PrintNode ==
    /\ pc = "print"
    /\ path' = <<node>> \o path
    /\ IF node = pos THEN pc' = "done" /\ UNCHANGED node
                     ELSE node' = pre[Index(map, node)] /\ UNCHANGED pc
    /\ UNCHANGED <<command, map, verdict, pos, from, queue, pre>>

-----------------------------------------------------------------------------
Next ==
    \/ Refuse \/ LoadTrap \/ Load \/ Test
    \/ LeaveMap \/ NoBits \/ DeadEnd \/ Walk \/ NoDirection
    \/ SearchStart \/ SearchStep \/ SearchTrap \/ SearchEmpty \/ PrintNode

Spec == Init /\ [][Next]_vars

(* The program is sequential and runs until it ends. *)
FairSpec == Spec /\ WF_vars(Next)

-----------------------------------------------------------------------------
Start == <<start[1] - 1, start[2] - 1>>

(* What a consistent map is, side by side: two cells agree on the wall        *)
(* between them.                                                              *)
Consistent(m) ==
    \A p \in Cells(m) : \A side \in SidesOf(p) :
        Inside(m, Neighbour(p, side)) =>
            (Open(m, p, side) <=> Open(m, Neighbour(p, side), Opposite(side)))

(* The walks that begin as the assignment has them begin: on a consistent map *)
(* of digits, at a side that the start cell has and that is open.             *)
Genuine == /\ option \in {"lpath", "rpath"}
           /\ Consistent(map) /\ \A i \in DOMAIN map.cells : HasBits(map.cells[i])
           /\ Inside(map, Start)
           /\ start_border(map, start) # "none"
           /\ Open(map, Start, start_border(map, start))

(* Types: the map, the arguments of Map_solve, and the ring buffer with its    *)
(* indices inside the capacity q_ctor gave it.                                *)
TypeOK ==
    /\ pc \in {"load", "test", "solve", "search", "print", "done", "deadend",
               "undefined"}
    /\ verdict \in {"none", "Valid", "Invalid"}
    /\ from \in Sides \cup {"none"}
    /\ DOMAIN map.cells = 0 .. Size(map) - 1 \/ map = NoMap
    /\ pc \in {"search", "print"} =>
          /\ DOMAIN queue.nodes = Indices /\ DOMAIN pre = Indices
          /\ queue.front \in Indices /\ queue.rear \in Indices
          /\ queue.size \in 0 .. Size(map)
          /\ queue.rear = (queue.front + queue.size) % Size(map)

(* --test answers "Valid" exactly when every two cells agree on the wall they *)
(* share: the loops of Map_valid_maze visit each shared wall, and only those. *)
TestIsExact ==
    pc = "done" /\ option = "test" =>
        (verdict = "Valid" <=> map # NoMap /\ Consistent(map))

(* A walk that begins at an opening never goes through a wall: the side it    *)
(* says it came from is open on both sides of the step, also when the step    *)
(* left the maze (switch of Map_solve).                                       *)
CameThroughOpening ==
    pc = "solve" /\ Genuine =>
        LET behind == Neighbour(pos, from)
        IN  /\ Inside(map, pos) => Open(map, pos, from)
            /\ Inside(map, behind) => Open(map, behind, Opposite(from))

OtherHand(hand) == IF hand = "lpath" THEN "rpath" ELSE "lpath"

(* The two rules of Map_solve are inverses: turned round after any step, the  *)
(* other hand goes back the way it came.  This is why a walk can never enter  *)
(* a loop it did not start in.                                                *)
Reversible ==
    [][pos # None /\ pos' # pos /\ Genuine =>
           Turn(map, pos, OtherHand(option), Opposite(from')) = from]_vars

(* "Queue is full. This should not happen.": a queue at its capacity has no   *)
(* node left to discover, because every node enqueued takes one free entry of *)
(* pre_nodes (enqueue, Map_solve).                                            *)
QueueNeverFull ==
    /\ TypeOK
    /\ pc = "search" =>
          queue.size <= Cardinality({i \in Indices : pre[i] # None})

(* What --shortest prints fits print_arr, begins at the start, visits nothing *)
(* twice and goes from cell to cell through open sides; only its last node    *)
(* may lie outside.                                                           *)
PathIsWalk ==
    pc = "done" /\ option = "shortest" /\ path # <<>> =>
        /\ Len(path) <= Size(map)
        /\ path[1] = Start
        /\ \A i, j \in 1 .. Len(path) : path[i] = path[j] => i = j
        /\ \A i \in 1 .. Len(path) - 1 :
              /\ Inside(map, path[i])
              /\ \E side \in Sides : /\ Open(map, path[i], side)
                                     /\ path[i + 1] = Neighbour(path[i], side)

(* Map_solve ends. A walk that begins at an opening leaves the maze; it       *)
(* neither circles for ever nor ends in the "dead end". The search and the    *)
(* printing of its path end.                                                  *)
SolveEnds ==
    /\ (pc = "solve" /\ Genuine) ~> (pc = "done" /\ ~Inside(map, pos))
    /\ (pc = "search") ~> (pc \in {"done", "undefined"})

WayOut(p) == \E side \in Sides : /\ Open(map, p, side)
                                 /\ ~Inside(map, Neighbour(p, side))

(* Every set of cells that holds the start and all it leads to holds p. *)
Reachable(p) ==
    \A S \in SUBSET Cells(map) :
        /\ Start \in S
        /\ \A q \in S, side \in Sides :
              /\ Open(map, q, side) /\ Inside(map, Neighbour(q, side))
              => Neighbour(q, side) \in S
        => p \in S

(* "are we at an edge with free wall out?": in a consistent maze entered at   *)
(* an opening, if another cell has a way out and can be reached, the path     *)
(* that --shortest prints ends at such a cell (the breaks of Map_solve).      *)
FindsExit ==
    /\ pc = "done" /\ option = "shortest" /\ path # <<>>
    /\ Consistent(map) /\ WayOut(Start)
    /\ \E p \in Cells(map) \ {Start} : WayOut(p) /\ Reachable(p)
    => Last(path) \in Cells(map) \ {Start} /\ WayOut(Last(path))
=============================================================================
