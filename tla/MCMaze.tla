------------------------------- MODULE MCMaze -------------------------------
(* Instances of Maze for TLC. *)
EXTENDS Maze

Grid(rows, cols) == (0 .. rows - 1) \X (0 .. cols - 1)

File(rows, cols, digits) ==
    [numbers |-> <<rows, cols>> \o
                 [i \in 1 .. rows * cols |->
                      digits[<<(i - 1) \div cols, (i - 1) % cols>>]],
     foreign |-> FALSE]

(* Every file of a size, consistent or not. *)
AnyWalls(rows, cols, values) ==
    {File(rows, cols, d) : d \in [Grid(rows, cols) -> values]}

(* A side is the pair of the cells it separates, one of which may lie outside. *)
Side(p, s) == {p, Neighbour(p, s)}
AllSides(grid) == UNION {{Side(p, s) : s \in SidesOf(p)} : p \in grid}
Outer(grid) == {w \in AllSides(grid) : ~(w \subseteq grid)}

(* The consistent maze of a size that has these sides open. *)
Wall(p, s, open, weight) == IF Side(p, s) \in open THEN 0 ELSE weight
WithOpen(rows, cols, open) ==
    File(rows, cols,
         [p \in Grid(rows, cols) |->
              Wall(p, "LEFT", open, 1) + Wall(p, "RIGHT", open, 2)
              + Wall(p, IF has_top_wall(p) THEN "TOP" ELSE "BOTTOM", open, 4)])

(* Every consistent 2x2 maze, and the 2x4 mazes with an opening at the top    *)
(* left and one at another corner: 2x4 is the smallest grid with a cycle.     *)
Small == {WithOpen(2, 2, open) : open \in SUBSET AllSides(Grid(2, 2))}

Entrance == Side(<<0, 0>>, "TOP")
LongOuter == Outer(Grid(2, 4))
LongInner == AllSides(Grid(2, 4)) \ LongOuter
LongExits == {Side(<<1, 0>>, "LEFT"), Side(<<1, 3>>, "RIGHT")}
Long == {WithOpen(2, 4, inner \cup {Entrance, exit}) :
             inner \in SUBSET LongInner, exit \in LongExits}

Command(opt, s, f) ==
    [option |-> opt, start |-> s, numbers |-> f.numbers, foreign |-> f.foreign]

SolveOptions == {"lpath", "rpath", "shortest"}

Solving(rows, cols, files) ==
    {Command(o, s, f) : o \in SolveOptions, s \in (1 .. rows) \X (1 .. cols),
                        f \in files}

Testing(files) == {Command("test", <<1, 1>>, f) : f \in files}

Plain(numbers) == [numbers |-> numbers, foreign |-> FALSE]

Malformed ==
    {Plain(n) : n \in {<<>>, <<2>>, <<0>>, <<0, 1>>, <<1, 0>>, <<1, 1>>,
                       <<1, 1, 3, 3>>, <<2, 2, 0, 0, 0>>}}
    \cup {[numbers |-> <<1, 1, 3>>, foreign |-> TRUE]}

(* Digits with their neighbours, and numbers that are not digits of a maze. *)
Odd == AnyWalls(1, 2, {0, 1, 2, 3, 7, 8, 255, 256})

MCCommands ==
    Testing(AnyWalls(2, 2, 0 .. 7) \cup Odd \cup Malformed)
    \cup Solving(2, 2, Small)
    \cup Solving(2, 4, Long)
    \cup {Command(o, s, f) : o \in SolveOptions, s \in (0 .. 2) \X (0 .. 3),
                             f \in Odd}
    \cup Solving(4, 4, {File(4, 4, [p \in Grid(4, 4) |-> 0])})

ExitCommands == {c \in Solving(2, 4, Long) : c.option = "shortest"}
=============================================================================
