----------------------------- MODULE MazeProofs -----------------------------
(* maze.c for mazes of any size: --test is exact, the walk by either hand      *)
(* never goes through a wall and can be walked back by the other one, the      *)
(* queue of --shortest never overflows, what it prints is a walk, and neither  *)
(* the walk nor the search can go on for ever.                                 *)
EXTENDS Maze, FiniteSetTheorems, TLAPS

-----------------------------------------------------------------------------
(* Sides and positions *)

Positions == Int \X Int

LEMMA NeighbourIs ==
    ASSUME NEW p \in Positions
    PROVE  /\ Neighbour(p, "TOP") = <<p[1] - 1, p[2]>>
           /\ Neighbour(p, "BOTTOM") = <<p[1] + 1, p[2]>>
           /\ Neighbour(p, "LEFT") = <<p[1], p[2] - 1>>
           /\ Neighbour(p, "RIGHT") = <<p[1], p[2] + 1>>
BY Zenon DEF Neighbour

LEMMA OppositeIs ==
    /\ Opposite("TOP") = "BOTTOM" /\ Opposite("BOTTOM") = "TOP"
    /\ Opposite("LEFT") = "RIGHT" /\ Opposite("RIGHT") = "LEFT"
BY Zenon DEF Opposite

LEMMA OppositeTwice ==
    ASSUME NEW side \in Sides
    PROVE  Opposite(side) \in Sides /\ Opposite(Opposite(side)) = side
BY OppositeIs, Zenon DEF Sides

LEMMA NeighbourBack ==
    ASSUME NEW p \in Positions, NEW side \in Sides
    PROVE  /\ Neighbour(p, side) \in Positions
           /\ Neighbour(Neighbour(p, side), Opposite(side)) = p
<1>1. p[1] \in Int /\ p[2] \in Int /\ p = <<p[1], p[2]>>
    BY DEF Positions
<1> DEFINE up == <<p[1] - 1, p[2]>>  down == <<p[1] + 1, p[2]>>
           left == <<p[1], p[2] - 1>>  right == <<p[1], p[2] + 1>>
<1>2. up \in Positions /\ down \in Positions /\ left \in Positions /\ right \in Positions
    BY <1>1 DEF Positions
<1>3. /\ <<up[1] + 1, up[2]>> = p /\ <<down[1] - 1, down[2]>> = p
      /\ <<left[1], left[2] + 1>> = p /\ <<right[1], right[2] - 1>> = p
    BY <1>1
<1>4. /\ Neighbour(p, "TOP") = up /\ Neighbour(p, "BOTTOM") = down
      /\ Neighbour(p, "LEFT") = left /\ Neighbour(p, "RIGHT") = right
    BY NeighbourIs, Zenon
<1>5. /\ Neighbour(up, "BOTTOM") = <<up[1] + 1, up[2]>>
      /\ Neighbour(down, "TOP") = <<down[1] - 1, down[2]>>
      /\ Neighbour(left, "RIGHT") = <<left[1], left[2] + 1>>
      /\ Neighbour(right, "LEFT") = <<right[1], right[2] - 1>>
    BY Zenon DEF Neighbour
<1> HIDE DEF up, down, left, right
<1> QED
    BY <1>2, <1>3, <1>4, <1>5, OppositeIs, Zenon DEF Sides

LEMMA BorderIs ==
    /\ Border("LEFT") = "LEFT_WALL" /\ Border("RIGHT") = "RIGHT_WALL"
    /\ Border("TOP") = "TOP_WALL" /\ Border("BOTTOM") = "TOP_WALL"
BY Zenon DEF Border

LEMMA SidesAre ==
    ASSUME NEW p
    PROVE  /\ "LEFT" \in SidesOf(p) /\ "RIGHT" \in SidesOf(p)
           /\ "TOP" \in SidesOf(p) <=> has_top_wall(p)
           /\ "BOTTOM" \in SidesOf(p) <=> ~has_top_wall(p)
           /\ SidesOf(p) \subseteq Sides
<1>1. CASE has_top_wall(p)
    <2>1. SidesOf(p) = {"LEFT", "RIGHT", "TOP"}
        BY <1>1, Zenon DEF SidesOf
    <2> QED
        BY <1>1, <2>1 DEF Sides
<1>2. CASE ~has_top_wall(p)
    <2>1. SidesOf(p) = {"LEFT", "RIGHT", "BOTTOM"}
        BY <1>2, Zenon DEF SidesOf
    <2> QED
        BY <1>2, <2>1 DEF Sides
<1> QED
    BY <1>1, <1>2

LEMMA OpenIs ==
    ASSUME NEW m, NEW p
    PROVE  /\ Open(m, p, "LEFT") <=> ~isborder(m, p, "LEFT_WALL")
           /\ Open(m, p, "RIGHT") <=> ~isborder(m, p, "RIGHT_WALL")
           /\ Open(m, p, "TOP") <=> has_top_wall(p) /\ ~isborder(m, p, "TOP_WALL")
           /\ Open(m, p, "BOTTOM") <=> ~has_top_wall(p) /\ ~isborder(m, p, "TOP_WALL")
BY SidesAre, BorderIs, Zenon DEF Open

-----------------------------------------------------------------------------
(* --test *)

LEMMA ValidIsConsistent ==
    ASSUME NEW m, m.rows \in Nat, m.cols \in Nat
    PROVE  Map_valid_maze(m) <=> Consistent(m)
<1>1. \A p \in Cells(m) : /\ p \in Positions /\ p = <<p[1], p[2]>> /\ p[1] \in Int /\ p[2] \in Int
                          /\ p[1] \in 0 .. m.rows - 1 /\ p[2] \in 0 .. m.cols - 1
    BY DEF Cells, Positions
<1>2. \A p \in Positions : Inside(m, p) => p \in Cells(m)
    BY DEF Cells, Positions, Inside
<1>3. ASSUME Map_valid_maze(m), NEW p \in Cells(m), NEW side \in SidesOf(p), Inside(m, Neighbour(p, side))
      PROVE  Open(m, p, side) <=> Open(m, Neighbour(p, side), Opposite(side))
    <2> DEFINE q == Neighbour(p, side)
    <2>1. side \in Sides /\ p \in Positions /\ p = <<p[1], p[2]>> /\ p[1] \in Int /\ p[2] \in Int
        BY <1>1, SidesAre
    <2>2. q \in Positions /\ q \in Cells(m) /\ Neighbour(q, Opposite(side)) = p
        BY <1>2, <1>3, <2>1, NeighbourBack
    <2>3. CASE side = "RIGHT"
        <3>1. q = <<p[1], p[2] + 1>>
            BY <2>1, <2>3, NeighbourIs
        <3>2. p \in RowPairs(m)
            BY <1>1, <2>1, <2>2, <3>1 DEF RowPairs
        <3>3. isborder(m, p, "RIGHT_WALL") = isborder(m, q, "LEFT_WALL")
            BY <1>3, <2>3, <3>2, Zenon DEF Map_valid_maze
        <3> QED
            BY <2>3, <3>3, OpenIs, OppositeIs, Zenon
    <2>4. CASE side = "LEFT"
        <3>1. q = <<p[1], p[2] - 1>> /\ Neighbour(q, "RIGHT") = p
            BY <2>1, <2>2, <2>4, NeighbourIs, OppositeIs
        <3>2. q \in RowPairs(m)
            BY <1>1, <2>1, <2>2, <3>1 DEF RowPairs
        <3>3. isborder(m, q, "RIGHT_WALL") = isborder(m, p, "LEFT_WALL")
            BY <1>3, <3>1, <3>2, Zenon DEF Map_valid_maze
        <3> QED
            BY <2>4, <3>3, OpenIs, OppositeIs, Zenon
    <2>5. CASE side = "TOP"
        <3>1. q = <<p[1] - 1, p[2]>> /\ Neighbour(q, "BOTTOM") = p /\ has_top_wall(p)
            BY <2>1, <2>2, <2>5, NeighbourIs, OppositeIs, SidesAre
        <3>2. (p[1] + p[2]) % 2 = 0
            BY <3>1, Zenon DEF has_top_wall
        <3>3. q[2] % 2 = (q[1] + 1) % 2 /\ (q[1] + q[2]) % 2 # 0 /\ q[1] < m.rows - 1
            BY <1>1, <2>1, <3>1, <3>2
        <3>4. q \in ColumnPairs(m) /\ ~has_top_wall(q)
            BY <2>2, <3>3 DEF ColumnPairs, has_top_wall
        <3>5. isborder(m, q, "TOP_WALL") = isborder(m, p, "TOP_WALL")
            BY <1>3, <3>1, <3>4, Zenon DEF Map_valid_maze
        <3> QED
            BY <2>5, <3>1, <3>4, <3>5, OpenIs, OppositeIs, Zenon
    <2>6. CASE side = "BOTTOM"
        <3>1. q = <<p[1] + 1, p[2]>> /\ ~has_top_wall(p)
            BY <2>1, <2>6, NeighbourIs, SidesAre
        <3>2. (p[1] + p[2]) % 2 # 0
            BY <3>1, Zenon DEF has_top_wall
        <3>3. p[2] % 2 = (p[1] + 1) % 2 /\ (q[1] + q[2]) % 2 = 0 /\ p[1] < m.rows - 1
            BY <1>1, <2>1, <2>2, <3>1, <3>2
        <3>4. p \in ColumnPairs(m) /\ has_top_wall(q)
            BY <3>3 DEF ColumnPairs, has_top_wall
        <3>5. isborder(m, p, "TOP_WALL") = isborder(m, q, "TOP_WALL")
            BY <1>3, <2>6, <3>4, Zenon DEF Map_valid_maze
        <3> QED
            BY <2>6, <3>1, <3>4, <3>5, OpenIs, OppositeIs, Zenon
    <2> QED
        BY <2>1, <2>3, <2>4, <2>5, <2>6 DEF Sides
<1>4. ASSUME Consistent(m), NEW p \in RowPairs(m)
      PROVE  isborder(m, p, "RIGHT_WALL") = isborder(m, Neighbour(p, "RIGHT"), "LEFT_WALL")
    <2>1. /\ p \in Cells(m) /\ p[2] < m.cols - 1 /\ p \in Positions /\ p[1] \in Int /\ p[2] \in Int
          /\ p[1] \in 0 .. m.rows - 1 /\ p[2] \in 0 .. m.cols - 1
        BY <1>1, <1>4 DEF RowPairs
    <2>2. Inside(m, Neighbour(p, "RIGHT"))
        BY <2>1, NeighbourIs DEF Inside
    <2>3. Open(m, p, "RIGHT") <=> Open(m, Neighbour(p, "RIGHT"), "LEFT")
        <3>1. "RIGHT" \in SidesOf(p)
            BY SidesAre, Zenon
        <3>2. Open(m, p, "RIGHT") <=> Open(m, Neighbour(p, "RIGHT"), Opposite("RIGHT"))
            BY <1>4, <2>1, <2>2, <3>1, Zenon DEF Consistent
        <3> QED
            BY <3>2, OppositeIs, Zenon
    <2>4. isborder(m, p, "RIGHT_WALL") <=> isborder(m, Neighbour(p, "RIGHT"), "LEFT_WALL")
        BY <2>3, OpenIs, Zenon
    <2> QED
        BY <2>4, Zenon DEF isborder
<1>5. ASSUME Consistent(m), NEW p \in ColumnPairs(m)
      PROVE  isborder(m, p, "TOP_WALL") = isborder(m, Neighbour(p, "BOTTOM"), "TOP_WALL")
    <2>1. /\ p \in Cells(m) /\ p[1] < m.rows - 1 /\ p[2] % 2 = (p[1] + 1) % 2 /\ p \in Positions
          /\ p[1] \in Int /\ p[2] \in Int
          /\ p[1] \in 0 .. m.rows - 1 /\ p[2] \in 0 .. m.cols - 1
        BY <1>1, <1>5 DEF ColumnPairs
    <2>2. Inside(m, Neighbour(p, "BOTTOM"))
        BY <2>1, NeighbourIs DEF Inside
    <2>3. (p[1] + p[2]) % 2 # 0
        BY <2>1
    <2>4. ~has_top_wall(p)
        BY <2>3, Zenon DEF has_top_wall
    <2>5. Open(m, p, "BOTTOM") <=> Open(m, Neighbour(p, "BOTTOM"), "TOP")
        <3>1. "BOTTOM" \in SidesOf(p)
            BY <2>4, SidesAre, Zenon
        <3>2. Open(m, p, "BOTTOM") <=> Open(m, Neighbour(p, "BOTTOM"), Opposite("BOTTOM"))
            BY <1>5, <2>1, <2>2, <3>1, Zenon DEF Consistent
        <3> QED
            BY <3>2, OppositeIs, Zenon
    <2>6. has_top_wall(Neighbour(p, "BOTTOM"))
        <3>1. Neighbour(p, "BOTTOM") = <<p[1] + 1, p[2]>>
            BY <2>1, NeighbourIs
        <3>2. ((p[1] + 1) + p[2]) % 2 = 0
            BY <2>1
        <3> QED
            BY <3>1, <3>2 DEF has_top_wall
    <2>7. isborder(m, p, "TOP_WALL") <=> isborder(m, Neighbour(p, "BOTTOM"), "TOP_WALL")
        BY <2>4, <2>5, <2>6, OpenIs, Zenon
    <2> QED
        BY <2>7, Zenon DEF isborder
<1>6. Map_valid_maze(m) => Consistent(m)
    BY <1>3, Zenon DEF Consistent
<1>7. Consistent(m) => Map_valid_maze(m)
    BY <1>4, <1>5, Zenon DEF Map_valid_maze
<1> QED
    BY <1>6, <1>7

-----------------------------------------------------------------------------
(* The phases of a run *)

GoodMap(m) == /\ m.rows \in Nat \ {0} /\ m.cols \in Nat \ {0}
              /\ DOMAIN m.cells = 0 .. Size(m) - 1

Phases ==
    /\ command \in Commands
    /\ pc = "load" => map = NoMap /\ verdict = "none" /\ pos = None
    /\ pc \in {"test", "solve", "search", "print", "deadend"} => GoodMap(map)
    /\ pc \in {"test", "solve", "search", "print", "deadend"} =>
          (pc = "test" <=> option = "test")
    /\ pc \in {"load", "test", "solve", "search", "print", "done", "deadend",
               "undefined"}

LEMMA LoadedIsGood ==
    ASSUME NEW f \in Commands, ~Refused(f)
    PROVE  GoodMap(Loaded(f))
<1>1. /\ Len(f.numbers) >= 2 /\ f.numbers[1] >= 1 /\ f.numbers[2] >= 1
      /\ NumCells(f) = Announced(f) /\ f.numbers[1] \in Nat /\ f.numbers[2] \in Nat
    <2>1. /\ ~NumbersMissing(f) /\ ~BadSize(f) /\ NumCells(f) = Announced(f)
        BY Zenon DEF Refused
    <2>2. f.numbers \in Seq(Nat)
        BY CommandsAssumption, Zenon
    <2>3. Len(f.numbers) >= 2
        BY <2>1, <2>2 DEF NumbersMissing
    <2>4. f.numbers[1] \in Nat /\ f.numbers[2] \in Nat
        BY <2>2, <2>3
    <2>5. ~(f.numbers[1] < 1) /\ ~(f.numbers[2] < 1)
        BY <2>1, <2>2, <2>3 DEF BadSize
    <2> QED
        BY <2>1, <2>3, <2>4, <2>5
<1>2. /\ Loaded(f).rows = f.numbers[1] /\ Loaded(f).cols = f.numbers[2]
      /\ DOMAIN Loaded(f).cells = 0 .. NumCells(f) - 1
    BY DEF Loaded
<1>3. NumCells(f) = Size(Loaded(f))
    BY <1>1, <1>2, Zenon DEF Announced, Size
<1> QED
    BY <1>1, <1>2, <1>3 DEF GoodMap

LEMMA PhasesKept ==
    ASSUME Phases, [Next]_vars
    PROVE  Phases'
<1>1. CASE Refuse
    BY <1>1, Zenon DEF Phases, Refuse, option
<1>2. CASE LoadTrap
    BY <1>2, Zenon DEF Phases, LoadTrap, option
<1>3. CASE Load
    <2>1. GoodMap(map)' /\ command' = command /\ command \in Commands
        BY <1>3, LoadedIsGood, Zenon DEF Phases, Load
    <2>2. \/ pc' = "test" /\ option = "test"
          \/ pc' = "solve" /\ option # "test"
        BY <1>3, Zenon DEF Load
    <2>3. option' = option
        BY <2>1, Zenon DEF option
    <2> QED
        BY <2>1, <2>2, <2>3 DEF Phases
<1>4. CASE Test
    BY <1>4, Zenon DEF Phases, Test, option
<1>5. CASE LeaveMap \/ NoBits \/ DeadEnd \/ NoDirection \/ SearchTrap \/ SearchEmpty
    <2>1. /\ command' = command /\ map' = map /\ pc \in {"solve", "search"}
          /\ pc' \in {"done", "undefined", "deadend", "print"}
        BY <1>5 DEF LeaveMap, NoBits, DeadEnd, NoDirection, SearchTrap, SearchEmpty, Enters
    <2>2. option' = option /\ (GoodMap(map)' <=> GoodMap(map))
        BY <2>1, Zenon DEF option, GoodMap, Size
    <2> QED
        BY <2>1, <2>2 DEF Phases
<1>6. CASE Walk \/ SearchStart \/ SearchStep \/ PrintNode
    <2>1. /\ command' = command /\ map' = map /\ pc \in {"solve", "search", "print"}
          /\ pc' \in {pc, "search", "print", "done"}
        BY <1>6 DEF Walk, SearchStart, SearchStep, PrintNode, Enters
    <2>2. option' = option /\ (GoodMap(map)' <=> GoodMap(map))
        BY <2>1, Zenon DEF option, GoodMap, Size
    <2> QED
        BY <2>1, <2>2 DEF Phases
<1>7. CASE UNCHANGED vars
    BY <1>7, Zenon DEF Phases, vars, option, GoodMap, Size
<1> QED
    BY <1>1, <1>2, <1>3, <1>4, <1>5, <1>6, <1>7 DEF Next

-----------------------------------------------------------------------------
(* --test *)

LEMMA GoodIsMap ==
    ASSUME NEW m, GoodMap(m)
    PROVE  m # NoMap
<1>1. NoMap.rows = 0
    BY DEF NoMap
<1> QED
    BY <1>1, Zenon DEF GoodMap

LEMMA TestKept ==
    ASSUME Phases, TestIsExact, [Next]_vars
    PROVE  TestIsExact'
<1>1. CASE Refuse
    <2>1. map' = NoMap /\ verdict' = "Invalid"
        BY <1>1, Zenon DEF Phases, Refuse
    <2> QED
        BY <2>1, Zenon DEF TestIsExact
<1>2. CASE Test
    <2>1. map' = map /\ GoodMap(map) /\ verdict' = (IF Map_valid_maze(map) THEN "Valid" ELSE "Invalid")
        BY <1>2, Zenon DEF Phases, Test
    <2>2. map.rows \in Nat /\ map.cols \in Nat
        BY <2>1 DEF GoodMap
    <2>3. Map_valid_maze(map) <=> Consistent(map)
        BY <2>2, ValidIsConsistent, Zenon
    <2>4. verdict' = "Valid" <=> Consistent(map)
        BY <2>1, <2>3
    <2>5. map # NoMap
        BY <2>1, GoodIsMap
    <2>6. Consistent(map)' <=> Consistent(map)
        BY <2>1, Zenon
    <2> QED
        BY <2>1, <2>4, <2>5, <2>6, Zenon DEF TestIsExact
<1>3. CASE LoadTrap \/ Load \/ NoBits \/ DeadEnd \/ SearchTrap \/ SearchEmpty \/ SearchStart
           \/ Walk \/ SearchStep
    <2>1. pc' # "done"
        <3>1. CASE Load
            BY <3>1, Zenon DEF Load
        <3>2. CASE Walk \/ SearchStep
            BY <3>2 DEF Walk, Enters, SearchStep
        <3>3. CASE LoadTrap \/ NoBits \/ DeadEnd \/ SearchTrap \/ SearchEmpty \/ SearchStart
            BY <3>3 DEF LoadTrap, NoBits, DeadEnd, SearchTrap, SearchEmpty, SearchStart
        <3> QED
            BY <1>3, <3>1, <3>2, <3>3
    <2> QED
        BY <2>1, Zenon DEF TestIsExact
<1>4. CASE LeaveMap \/ NoDirection \/ PrintNode
    <2>1. pc \in {"solve", "print"} /\ command' = command
        BY <1>4 DEF LeaveMap, NoDirection, PrintNode, Enters
    <2>2. option # "test"
        BY <2>1 DEF Phases
    <2> QED
        BY <2>1, <2>2, Zenon DEF TestIsExact, option
<1>5. CASE UNCHANGED vars
    <2>1. /\ pc' = pc /\ verdict' = verdict /\ option' = option /\ map' = map
          /\ Consistent(map)' <=> Consistent(map)
        BY <1>5, Zenon DEF vars, option
    <2> QED
        BY <2>1, Zenon DEF TestIsExact
<1> QED
    BY <1>1, <1>2, <1>3, <1>4, <1>5 DEF Next

-----------------------------------------------------------------------------
(* The walk by one hand *)

LEMMA TriedIs ==
    /\ Tried("lpath", "TOP") = <<"RIGHT", "LEFT">>
    /\ Tried("lpath", "RIGHT") = <<"BOTTOM", "LEFT", "TOP">>
    /\ Tried("lpath", "BOTTOM") = <<"LEFT", "RIGHT">>
    /\ Tried("lpath", "LEFT") = <<"TOP", "RIGHT", "BOTTOM">>
    /\ Tried("rpath", "TOP") = <<"LEFT", "RIGHT">>
    /\ Tried("rpath", "RIGHT") = <<"TOP", "LEFT", "BOTTOM">>
    /\ Tried("rpath", "BOTTOM") = <<"RIGHT", "LEFT">>
    /\ Tried("rpath", "LEFT") = <<"BOTTOM", "RIGHT", "TOP">>
BY Zenon DEF Tried

LEMMA LeastIs ==
    ASSUME NEW S \in SUBSET Int, NEW x \in S, \A y \in S : x <= y
    PROVE  Min(S) = x
<1>1. Min(S) \in S /\ \A y \in S : Min(S) <= y
    BY Zenon DEF Min
<1>2. Min(S) \in Int /\ x \in Int
    BY <1>1
<1>3. Min(S) <= x /\ x <= Min(S)
    BY <1>1, Zenon
<1> QED
    BY <1>2, <1>3

LEMMA FirstOfTwo ==
    ASSUME NEW m, NEW p, NEW hand, NEW side, NEW a, NEW b, Tried(hand, side) = <<a, b>>
    PROVE  Turn(m, p, hand, side) =
               IF Open(m, p, a) THEN a ELSE IF Open(m, p, b) THEN b ELSE side
<1> DEFINE t == Tried(hand, side)
           I == {i \in 1 .. Len(t) : Open(m, p, t[i])}
<1>1. Turn(m, p, hand, side) = LET i == IF I # {} THEN Min(I) ELSE 0
                               IN  IF i = 0 THEN side ELSE t[i]
    BY Zenon DEF Turn, SelectInSeq
<1>2. Len(t) = 2 /\ t[1] = a /\ t[2] = b
    OBVIOUS
<1> HIDE DEF t
<1>3. I \subseteq {1, 2} /\ (1 \in I <=> Open(m, p, a)) /\ (2 \in I <=> Open(m, p, b))
    <2>1. 1 .. Len(t) = {1, 2}
        BY <1>2
    <2> QED
        BY <1>2, <2>1, Zenon
<1> HIDE DEF I
<1>4. CASE 1 \in I
    <2>1. Min(I) = 1
        BY <1>3, <1>4, LeastIs
    <2> QED
        BY <1>1, <1>2, <1>3, <1>4, <2>1
<1>5. CASE 1 \notin I /\ 2 \in I
    <2>1. Min(I) = 2
        BY <1>3, <1>5, LeastIs
    <2> QED
        BY <1>1, <1>2, <1>3, <1>5, <2>1
<1>6. CASE I = {}
    BY <1>1, <1>3, <1>6
<1> QED
    BY <1>3, <1>4, <1>5, <1>6

LEMMA FirstOfThree ==
    ASSUME NEW m, NEW p, NEW hand, NEW side, NEW a, NEW b, NEW c, Tried(hand, side) = <<a, b, c>>
    PROVE  Turn(m, p, hand, side) =
               IF Open(m, p, a) THEN a ELSE IF Open(m, p, b) THEN b
               ELSE IF Open(m, p, c) THEN c ELSE side
<1> DEFINE t == Tried(hand, side)
           I == {i \in 1 .. Len(t) : Open(m, p, t[i])}
<1>1. Turn(m, p, hand, side) = LET i == IF I # {} THEN Min(I) ELSE 0
                               IN  IF i = 0 THEN side ELSE t[i]
    BY Zenon DEF Turn, SelectInSeq
<1>2. Len(t) = 3 /\ t[1] = a /\ t[2] = b /\ t[3] = c
    OBVIOUS
<1> HIDE DEF t
<1>3. /\ I \subseteq {1, 2, 3} /\ (1 \in I <=> Open(m, p, a)) /\ (2 \in I <=> Open(m, p, b))
      /\ 3 \in I <=> Open(m, p, c)
    <2>1. 1 .. Len(t) = {1, 2, 3}
        BY <1>2
    <2> QED
        BY <1>2, <2>1, Zenon
<1> HIDE DEF I
<1>4. CASE 1 \in I
    <2>1. Min(I) = 1
        BY <1>3, <1>4, LeastIs
    <2> QED
        BY <1>1, <1>2, <1>3, <1>4, <2>1
<1>5. CASE 1 \notin I /\ 2 \in I
    <2>1. Min(I) = 2
        BY <1>3, <1>5, LeastIs
    <2> QED
        BY <1>1, <1>2, <1>3, <1>5, <2>1
<1>6. CASE 1 \notin I /\ 2 \notin I /\ 3 \in I
    <2>1. Min(I) = 3
        BY <1>3, <1>6, LeastIs
    <2> QED
        BY <1>1, <1>2, <1>3, <1>6, <2>1
<1>7. CASE I = {}
    BY <1>1, <1>3, <1>7
<1> QED
    BY <1>3, <1>4, <1>5, <1>6, <1>7

OpenSides(m, p) == {side \in Sides : Open(m, p, side)}

(* Turn as a function of the open sides. *)
TurnIn(open, hand, side) ==
    LET first(a, b, c) == IF a \in open THEN a ELSE IF b \in open THEN b
                          ELSE IF c \in open THEN c ELSE side
    IN  IF hand = "lpath"
        THEN IF side = "TOP" THEN first("RIGHT", "LEFT", "TOP")
             ELSE IF side = "RIGHT" THEN first("BOTTOM", "LEFT", "TOP")
             ELSE IF side = "BOTTOM" THEN first("LEFT", "RIGHT", "BOTTOM")
             ELSE first("TOP", "RIGHT", "BOTTOM")
        ELSE IF side = "TOP" THEN first("LEFT", "RIGHT", "TOP")
             ELSE IF side = "RIGHT" THEN first("TOP", "LEFT", "BOTTOM")
             ELSE IF side = "BOTTOM" THEN first("RIGHT", "LEFT", "BOTTOM")
             ELSE first("BOTTOM", "RIGHT", "TOP")

LEMMA TurnIs ==
    ASSUME NEW m, NEW p, NEW hand \in {"lpath", "rpath"}, NEW side \in Sides
    PROVE  Turn(m, p, hand, side) = TurnIn(OpenSides(m, p), hand, side)
<1> DEFINE open == OpenSides(m, p)
<1>1. \A s \in Sides : s \in open <=> Open(m, p, s)
    BY Zenon DEF OpenSides
<1>2. /\ "TOP" \in Sides /\ "RIGHT" \in Sides /\ "BOTTOM" \in Sides /\ "LEFT" \in Sides
    BY DEF Sides
<1> HIDE DEF open
<1>3. ASSUME NEW a \in Sides, NEW b \in Sides, Tried(hand, side) = <<a, b>>
      PROVE  Turn(m, p, hand, side) = IF a \in open THEN a ELSE IF b \in open THEN b
                                      ELSE IF side \in open THEN side ELSE side
    <2>1. Turn(m, p, hand, side) = IF Open(m, p, a) THEN a ELSE IF Open(m, p, b) THEN b ELSE side
        BY ONLY <1>3, FirstOfTwo
    <2>2. (a \in open <=> Open(m, p, a)) /\ (b \in open <=> Open(m, p, b))
        BY <1>1, Zenon
    <2> QED
        BY <2>1, <2>2
<1>4. ASSUME NEW a \in Sides, NEW b \in Sides, NEW c \in Sides, Tried(hand, side) = <<a, b, c>>
      PROVE  Turn(m, p, hand, side) = IF a \in open THEN a ELSE IF b \in open THEN b
                                      ELSE IF c \in open THEN c ELSE side
    <2>1. Turn(m, p, hand, side) = IF Open(m, p, a) THEN a ELSE IF Open(m, p, b) THEN b
                                   ELSE IF Open(m, p, c) THEN c ELSE side
        BY ONLY <1>4, FirstOfThree
    <2>2. /\ a \in open <=> Open(m, p, a)
          /\ b \in open <=> Open(m, p, b)
          /\ c \in open <=> Open(m, p, c)
        BY <1>1, Zenon
    <2> QED
        BY <2>1, <2>2
<1>5. CASE hand = "lpath" /\ side = "TOP"
    <2>1. Tried(hand, side) = <<"RIGHT", "LEFT">>
        BY <1>5, TriedIs
    <2> QED
        BY <1>2, <1>3, <1>5, <2>1 DEF TurnIn, open
<1>6. CASE hand = "lpath" /\ side = "RIGHT"
    <2>1. Tried(hand, side) = <<"BOTTOM", "LEFT", "TOP">>
        BY <1>6, TriedIs
    <2> QED
        BY <1>2, <1>4, <1>6, <2>1 DEF TurnIn, open
<1>7. CASE hand = "lpath" /\ side = "BOTTOM"
    <2>1. Tried(hand, side) = <<"LEFT", "RIGHT">>
        BY <1>7, TriedIs
    <2> QED
        BY <1>2, <1>3, <1>7, <2>1 DEF TurnIn, open
<1>8. CASE hand = "lpath" /\ side = "LEFT"
    <2>1. Tried(hand, side) = <<"TOP", "RIGHT", "BOTTOM">>
        BY <1>8, TriedIs
    <2> QED
        BY <1>2, <1>4, <1>8, <2>1 DEF TurnIn, open
<1>9. CASE hand = "rpath" /\ side = "TOP"
    <2>1. Tried(hand, side) = <<"LEFT", "RIGHT">>
        BY <1>9, TriedIs
    <2> QED
        BY <1>2, <1>3, <1>9, <2>1 DEF TurnIn, open
<1>10. CASE hand = "rpath" /\ side = "RIGHT"
    <2>1. Tried(hand, side) = <<"TOP", "LEFT", "BOTTOM">>
        BY <1>10, TriedIs
    <2> QED
        BY <1>2, <1>4, <1>10, <2>1 DEF TurnIn, open
<1>11. CASE hand = "rpath" /\ side = "BOTTOM"
    <2>1. Tried(hand, side) = <<"RIGHT", "LEFT">>
        BY <1>11, TriedIs
    <2> QED
        BY <1>2, <1>3, <1>11, <2>1 DEF TurnIn, open
<1>12. CASE hand = "rpath" /\ side = "LEFT"
    <2>1. Tried(hand, side) = <<"BOTTOM", "RIGHT", "TOP">>
        BY <1>12, TriedIs
    <2> QED
        BY <1>2, <1>4, <1>12, <2>1 DEF TurnIn, open
<1> QED
    BY <1>5, <1>6, <1>7, <1>8, <1>9, <1>10, <1>11, <1>12, Zenon DEF Sides

(* What either hand chooses is open, if the side it came by is. *)
LEMMA TurnIsOpen ==
    ASSUME NEW m, NEW p, NEW hand \in {"lpath", "rpath"}, NEW side \in Sides, Open(m, p, side)
    PROVE  /\ Turn(m, p, hand, side) \in Sides
           /\ Open(m, p, Turn(m, p, hand, side))
<1>1. side \in OpenSides(m, p) /\ OpenSides(m, p) \subseteq Sides
    BY Zenon DEF OpenSides
<1>2. TurnIn(OpenSides(m, p), hand, side) \in OpenSides(m, p)
    BY <1>1 DEF TurnIn, Sides
<1>3. Turn(m, p, hand, side) \in OpenSides(m, p)
    BY <1>2, TurnIs
<1> QED
    BY <1>3, Zenon DEF OpenSides

(* One hand undoes the step of the other: a cell has three sides. *)
LEMMA TurnBack ==
    ASSUME NEW m, NEW p, NEW hand \in {"lpath", "rpath"}, NEW side \in Sides, Open(m, p, side)
    PROVE  Turn(m, p, OtherHand(hand), Turn(m, p, hand, side)) = side
<1> DEFINE open == OpenSides(m, p)
<1>1. side \in open /\ open \subseteq Sides
    BY Zenon DEF OpenSides
<1>2. ~("TOP" \in open /\ "BOTTOM" \in open)
    BY OpenIs, Zenon DEF OpenSides
<1>3. OtherHand(hand) \in {"lpath", "rpath"} /\ OtherHand(hand) # hand
    BY DEF OtherHand
<1>4. Turn(m, p, hand, side) = TurnIn(open, hand, side)
    BY TurnIs
<1>5. Turn(m, p, hand, side) \in Sides
    BY TurnIsOpen
<1>6. Turn(m, p, OtherHand(hand), Turn(m, p, hand, side)) = TurnIn(open, OtherHand(hand), TurnIn(open, hand, side))
    BY <1>3, <1>4, <1>5, TurnIs
<1> HIDE DEF open
<1>7. TurnIn(open, OtherHand(hand), TurnIn(open, hand, side)) = side
    <2>1. CASE hand = "lpath"
        BY <1>1, <1>2, <1>3, <2>1 DEF TurnIn, Sides
    <2>2. CASE hand = "rpath"
        BY <1>1, <1>2, <1>3, <2>2 DEF TurnIn, Sides
    <2> QED
        BY <2>1, <2>2
<1> QED
    BY <1>6, <1>7

Walking ==
    /\ pos \in Positions
    /\ from \in Sides \cup {"none"}
    /\ pc = "solve" /\ Genuine => from # "none"

(* A cell of the map has an entry of cells and of pre_nodes. *)
LEMMA IndexOfCell ==
    ASSUME NEW m, GoodMap(m), NEW p, Inside(m, p)
    PROVE  Index(m, p) \in 0 .. Size(m) - 1
<1>1. /\ m.rows \in Nat /\ m.cols \in Nat /\ p[1] \in 0 .. m.rows - 1 /\ p[2] \in 0 .. m.cols - 1
    BY DEF GoodMap, Inside
<1>2. \A r, c \in Nat : \A a \in 0 .. r - 1 : \A b \in 0 .. c - 1 : a * c + b \in 0 .. r * c - 1
    OBVIOUS
<1>3. p[1] * m.cols + p[2] \in 0 .. m.rows * m.cols - 1
    BY <1>1, <1>2, Zenon
<1> QED
    BY <1>3 DEF Index, Size

LEMMA BorderOfStart ==
    ASSUME NEW m, NEW s
    PROVE  /\ start_border(m, s) \in Sides \cup {"none"}
           /\ start_borders(m, s) \subseteq Sides \cup {"none"}
<1>1. start_border(m, s) \in {"TOP", "BOTTOM", "LEFT", "RIGHT", "none"}
    BY Zenon DEF start_border
<1>2. start_border(m, s) \in Sides \cup {"none"}
    BY <1>1 DEF Sides
<1> QED
    BY <1>2, Zenon DEF start_borders

(* A start inside the map asks for the walls of its own cell. *)
LEMMA BorderInside ==
    ASSUME NEW m, GoodMap(m), NEW s, Inside(m, <<s[1] - 1, s[2] - 1>>),
           NEW b \in start_borders(m, s)
    PROVE  b = start_border(m, s)
<1>1. Index(m, <<s[1] - 1, s[2] - 1>>) \in DOMAIN m.cells
    BY IndexOfCell, Zenon DEF GoodMap
<1> QED
    BY <1>1, Zenon DEF start_borders, ForeignStart

(* In a consistent map an open side is open from both of its cells. *)
LEMMA OtherHalf ==
    ASSUME NEW m, Consistent(m), m.rows \in Nat, m.cols \in Nat,
           NEW p \in Positions, Inside(m, p), NEW side \in Sides, Open(m, p, side),
           Inside(m, Neighbour(p, side))
    PROVE  Open(m, Neighbour(p, side), Opposite(side))
<1>1. p \in Cells(m)
    BY DEF Cells, Inside, Positions
<1>2. side \in SidesOf(p)
    BY Zenon DEF Open
<1> QED
    BY <1>1, <1>2, Zenon DEF Consistent

LEMMA StartIsPosition ==
    ASSUME command \in Commands
    PROVE  Start \in Positions
<1>1. start \in Int \X Int
    BY CommandsAssumption, Zenon DEF start
<1> QED
    BY <1>1 DEF Start, Positions

(* Once the map is loaded, whether the walk is a genuine one is settled. *)
LEMMA GenuineStays ==
    ASSUME command' = command, map' = map
    PROVE  Genuine' <=> Genuine
<1>1. option' = option /\ start' = start
    BY Zenon DEF option, start
<1>2. Start' = Start
    BY <1>1, Zenon DEF Start
<1> QED
    BY <1>1, <1>2, Zenon DEF Genuine

LEMMA WalkStep ==
    ASSUME Phases, Walking, CameThroughOpening, Genuine, Walk
    PROVE  /\ from \in Sides /\ Open(map, pos, from) /\ option \in {"lpath", "rpath"}
           /\ LET side == Turn(map, pos, option, from)
              IN  /\ side \in Sides /\ Open(map, pos, side)
                  /\ pos' = Neighbour(pos, side) /\ from' = Opposite(side)
<1>1. /\ pc = "solve" /\ Inside(map, pos) /\ option \in {"lpath", "rpath"} /\ from # "none"
      /\ pos' = Neighbour(pos, Turn(map, pos, option, from))
      /\ from' = Opposite(Turn(map, pos, option, from))
    BY Zenon DEF Walk, Enters
<1>2. from \in Sides
    BY <1>1 DEF Walking
<1>3. Open(map, pos, from)
    BY <1>1, Zenon DEF CameThroughOpening
<1> QED
    BY <1>1, <1>2, <1>3, TurnIsOpen, Zenon

LEMMA WalkKept ==
    ASSUME Phases, Walking, CameThroughOpening, [Next]_vars
    PROVE  Walking' /\ CameThroughOpening'
<1>1. CASE Load
    <2>1. CASE option = "test"
        <3>1. pc' = "test" /\ pos' = pos /\ from' = from
            BY <1>1, <2>1, Zenon DEF Load
        <3> QED
            BY <3>1, Zenon DEF Walking, CameThroughOpening
    <2>2. CASE option # "test"
        <3>1. /\ pos' = Start /\ from' \in start_borders(map', start) /\ command' = command
              /\ command \in Commands
            BY <1>1, <2>2, Zenon DEF Load, Start, Phases
        <3>2. start' = start /\ Start' = Start
            BY <3>1, Zenon DEF start, Start
        <3>3. pos' \in Positions /\ from' \in Sides \cup {"none"}
            BY <3>1, StartIsPosition, BorderOfStart
        <3>4. GoodMap(map')
            BY <1>1, LoadedIsGood, Zenon DEF Phases, Load
        <3>5. map'.rows \in Nat /\ map'.cols \in Nat
            BY <3>4 DEF GoodMap
        <3>6. ASSUME Genuine'
              PROVE  /\ from' # "none" /\ Consistent(map') /\ Inside(map', pos')
                     /\ Open(map', pos', from')
            <4>1. from' = start_border(map', start)
                <5>1. Inside(map', Start)
                    BY <3>2, <3>6, Zenon DEF Genuine
                <5> QED
                    BY <3>1, <3>4, <5>1, BorderInside, Zenon DEF Start
            <4> QED
                BY <3>1, <3>2, <3>6, <4>1, Zenon DEF Genuine
        <3>7. Walking'
            BY <3>3, <3>6 DEF Walking
        <3>8. ASSUME Genuine', Inside(map', Neighbour(pos', from'))
              PROVE  Open(map', Neighbour(pos', from'), Opposite(from'))
            <4>1. from' \in Sides
                BY <3>3, <3>6, <3>8
            <4> QED
                BY <3>3, <3>5, <3>6, <3>8, <4>1, OtherHalf, Zenon
        <3> QED
            BY <3>6, <3>7, <3>8, Zenon DEF CameThroughOpening
    <2> QED
        BY <2>1, <2>2
<1>2. CASE Walk
    <2> DEFINE side == Turn(map, pos, option, from)
    <2>1. /\ command' = command /\ map' = map /\ pc' = pc /\ pc = "solve" /\ Inside(map, pos)
          /\ pos' = Neighbour(pos, side) /\ from' = Opposite(side) /\ from # "none"
          /\ option \in {"lpath", "rpath"}
        BY <1>2, Zenon DEF Walk, Enters
    <2>2. Genuine' <=> Genuine
        BY <2>1, GenuineStays, Zenon
    <2>3. from \in Sides
        BY <2>1 DEF Walking
    <2>4. side \in Sides
        <3>1. side = TurnIn(OpenSides(map, pos), option, from)
            BY <2>1, <2>3, TurnIs
        <3> QED
            BY <2>3, <3>1 DEF TurnIn, Sides
    <2>5. /\ pos' \in Positions /\ from' \in Sides /\ Neighbour(pos', from') = pos
          /\ Opposite(from') = side
        BY <2>1, <2>4, NeighbourBack, OppositeTwice, Zenon DEF Walking
    <2>6. from' # "none"
        BY <2>5 DEF Sides
    <2>7. Walking'
        BY <2>5, <2>6 DEF Walking
    <2>8. ASSUME Genuine
          PROVE  /\ Open(map, pos, side)
                 /\ Inside(map, pos') => Open(map, pos', from')
        <3>1. Open(map, pos, side)
            BY <1>2, <2>8, WalkStep, Zenon
        <3>2. GoodMap(map) /\ Consistent(map)
            BY <2>1, <2>8, Zenon DEF Phases, Genuine
        <3>3. map.rows \in Nat /\ map.cols \in Nat
            BY <3>2 DEF GoodMap
        <3>4. pos \in Positions
            BY Zenon DEF Walking
        <3>5. Inside(map, Neighbour(pos, side)) => Open(map, Neighbour(pos, side), Opposite(side))
            BY <2>1, <2>4, <3>1, <3>2, <3>3, <3>4, OtherHalf, Zenon
        <3> QED
            BY <2>1, <3>1, <3>5, Zenon
    <2> HIDE DEF side
    <2> QED
        BY <2>1, <2>2, <2>5, <2>7, <2>8, Zenon DEF CameThroughOpening
<1>3. CASE UNCHANGED <<command, map, pos, from>> /\ (pc' = "solve" => pc = "solve")
    <2>1. Genuine' <=> Genuine
        BY <1>3, GenuineStays, Zenon
    <2> QED
        BY <1>3, <2>1, Zenon DEF Walking, CameThroughOpening
<1>4. CASE Refuse \/ LoadTrap \/ Test \/ LeaveMap \/ NoBits \/ DeadEnd \/ NoDirection
           \/ SearchStart \/ SearchStep \/ SearchTrap \/ SearchEmpty \/ PrintNode \/ UNCHANGED vars
    <2>1. UNCHANGED <<command, map, pos, from>>
        BY <1>4 DEF Refuse, LoadTrap, Test, LeaveMap, NoBits, DeadEnd, NoDirection,
                    SearchStart, SearchStep, SearchTrap, SearchEmpty, PrintNode, vars
    <2>2. pc' = "solve" => pc = "solve"
        BY <1>4 DEF Refuse, LoadTrap, Test, LeaveMap, NoBits, DeadEnd, NoDirection,
                    SearchStart, SearchStep, SearchTrap, SearchEmpty, PrintNode, vars
    <2> QED
        BY <1>3, <2>1, <2>2
<1> QED
    BY <1>1, <1>2, <1>4 DEF Next

-----------------------------------------------------------------------------
(* The ring buffer of --shortest *)

LEMMA ModBelow ==
    ASSUME NEW N \in Nat \ {0}, NEW x \in 0 .. N - 1
    PROVE  x % N = x
OBVIOUS

LEMMA ModAround ==
    ASSUME NEW N \in Nat \ {0}, NEW x \in N .. 2 * N - 1
    PROVE  x % N = x - N
OBVIOUS

(* One step on from (f + z) mod N, and the same place from one step on of f. *)
LEMMA RingAfterRear ==
    ASSUME NEW N \in Nat \ {0}, NEW f \in 0 .. N - 1, NEW z \in 0 .. N - 1, NEW r, r = (f + z) % N
    PROVE  (r + 1) % N = (f + (z + 1)) % N /\ (r + 1) % N \in 0 .. N - 1
<1>1. CASE f + z < N
    <2>1. f + z \in 0 .. N - 1
        BY <1>1
    <2>2. r = f + z
        BY <2>1, ModBelow
    <2>3. r + 1 = f + (z + 1) /\ r + 1 \in Nat
        BY <2>1, <2>2
    <2> QED
        BY <2>3
<1>2. CASE f + z >= N
    <2> DEFINE x == f + z  y == x + 1
    <2>1. x \in N .. 2 * N - 1 /\ y \in N .. 2 * N - 1 /\ f + (z + 1) = y
        BY <1>2
    <2> HIDE DEF x, y
    <2>2. r = x - N /\ y % N = y - N
        BY <2>1, ModAround DEF x
    <2>3. r + 1 \in 0 .. N - 1 /\ r + 1 = y - N
        BY <2>1, <2>2 DEF y
    <2>4. (r + 1) % N = r + 1
        BY <2>3, ModBelow
    <2> QED
        BY <2>1, <2>2, <2>3, <2>4
<1> QED
    BY <1>1, <1>2

LEMMA RingAfterFront ==
    ASSUME NEW N \in Nat \ {0}, NEW f \in 0 .. N - 1, NEW z \in 1 .. N
    PROVE  (((f + 1) % N) + (z - 1)) % N = (f + z) % N /\ (f + 1) % N \in 0 .. N - 1
<1>1. CASE f + 1 < N
    <2>1. f + 1 \in 0 .. N - 1
        BY <1>1
    <2>2. (f + 1) % N = f + 1
        BY <2>1, ModBelow
    <2>3. (f + 1) + (z - 1) = f + z
        OBVIOUS
    <2> QED
        BY <2>1, <2>2, <2>3
<1>2. CASE f + 1 = N
    <2>1. N \in N .. 2 * N - 1
        OBVIOUS
    <2>2. (f + 1) % N = 0
        BY <1>2, <2>1, ModAround
    <2> DEFINE x == f + z  y == z - 1
    <2>3. x \in N .. 2 * N - 1 /\ y \in 0 .. N - 1 /\ y = x - N /\ 0 + y = y
        BY <1>2
    <2> HIDE DEF x, y
    <2>4. x % N = x - N /\ y % N = y
        BY <2>3, ModAround, ModBelow
    <2>5. 0 \in 0 .. N - 1
        OBVIOUS
    <2> QED
        BY <2>2, <2>3, <2>4, <2>5 DEF x, y
<1> QED
    BY <1>1, <1>2

LEMMA SizeIsPositive ==
    ASSUME NEW m, GoodMap(m)
    PROVE  Size(m) \in Nat \ {0}
<1>1. m.rows \in Nat \ {0} /\ m.cols \in Nat \ {0}
    BY DEF GoodMap
<1>2. \A a, b \in Nat \ {0} : a * b \in Nat \ {0}
    OBVIOUS
<1> QED
    BY <1>1, <1>2, Zenon DEF Size

RingOk(q) ==
    /\ DOMAIN q = {"nodes", "size", "front", "rear"}
    /\ DOMAIN q.nodes = Indices
    /\ q.front \in Indices /\ q.rear \in Indices
    /\ q.size \in 0 .. Size(map)
    /\ q.rear = (q.front + q.size) % Size(map)

LEMMA EnqueueKeeps ==
    ASSUME NEW q, GoodMap(map), RingOk(q), NEW n
    PROVE  RingOk(Enqueue(q, n)) /\ Enqueue(q, n).size <= q.size + 1
<1> DEFINE N == Size(map)  r == Enqueue(q, n)
<1>1. N \in Nat \ {0}
    BY SizeIsPositive
<1>2. /\ DOMAIN q = {"nodes", "size", "front", "rear"}
      /\ DOMAIN q.nodes = 0 .. N - 1
      /\ q.front \in 0 .. N - 1 /\ q.rear \in 0 .. N - 1
      /\ q.size \in 0 .. N
      /\ q.rear = (q.front + q.size) % N
    BY Zenon DEF RingOk, Indices
<1>3. CASE q.size = N
    BY <1>1, <1>2, <1>3 DEF Enqueue
<1>4. CASE q.size # N
    <2>1. /\ DOMAIN r = DOMAIN q
          /\ r.nodes = [q.nodes EXCEPT ![q.rear] = n] /\ r.size = q.size + 1
          /\ r.front = q.front /\ r.rear = (q.rear + 1) % N
        BY <1>2, <1>4 DEF Enqueue
    <2> HIDE DEF r, N
    <2>2. /\ DOMAIN r = {"nodes", "size", "front", "rear"}
          /\ DOMAIN r.nodes = 0 .. N - 1
        BY <1>2, <2>1
    <2>3. r.front \in 0 .. N - 1 /\ r.size \in 0 .. N /\ r.size <= q.size + 1
        BY <1>1, <1>2, <1>4, <2>1
    <2>4. q.size \in 0 .. N - 1
        BY <1>1, <1>2, <1>4
    <2>5. r.rear = (r.front + r.size) % N /\ r.rear \in 0 .. N - 1
        <3>1. (q.rear + 1) % N = (q.front + (q.size + 1)) % N /\ (q.rear + 1) % N \in 0 .. N - 1
            BY <1>1, <1>2, <2>4, RingAfterRear, Zenon
        <3> QED
            BY <2>1, <3>1, Zenon
    <2> QED
        BY <2>2, <2>3, <2>5, Zenon DEF RingOk, Indices, r, N
<1> QED
    BY <1>3, <1>4

LEMMA DequeueKeeps ==
    ASSUME NEW q, GoodMap(map), RingOk(q), q.size > 0
    PROVE  RingOk(Dequeue(q)) /\ Dequeue(q).size = q.size - 1
<1> DEFINE N == Size(map)  r == Dequeue(q)
<1>1. N \in Nat \ {0}
    BY SizeIsPositive
<1>2. /\ DOMAIN q = {"nodes", "size", "front", "rear"}
      /\ DOMAIN q.nodes = 0 .. N - 1
      /\ q.front \in 0 .. N - 1 /\ q.rear \in 0 .. N - 1
      /\ q.size \in 0 .. N
      /\ q.rear = (q.front + q.size) % N
    BY Zenon DEF RingOk, Indices
<1>3. /\ DOMAIN r = DOMAIN q
      /\ r.nodes = q.nodes /\ r.size = q.size - 1 /\ r.front = (q.front + 1) % N /\ r.rear = q.rear
    BY <1>2 DEF Dequeue
<1> HIDE DEF r, N
<1>4. /\ DOMAIN r = {"nodes", "size", "front", "rear"}
      /\ DOMAIN r.nodes = 0 .. N - 1
    BY <1>2, <1>3
<1>5. r.size \in 0 .. N
    BY <1>1, <1>2, <1>3
<1>6. r.front \in 0 .. N - 1 /\ q.rear = (r.front + r.size) % N
    <2>1. q.size \in 1 .. N
        BY <1>1, <1>2
    <2> QED
        BY <1>1, <1>2, <1>3, <2>1, RingAfterFront, Zenon
<1> QED
    BY <1>2, <1>3, <1>4, <1>5, <1>6, Zenon DEF RingOk, Indices, r, N

-----------------------------------------------------------------------------
(* Marked nodes *)

Marked(f) == {i \in Indices : f[i] # None}

(* pre_nodes holds nodes of the map, or <<-1, -1>>. *)
MarksOk(f) == DOMAIN f = Indices /\ \A i \in Indices : f[i] = None \/ f[i][1] # -1

SearchOk(s) ==
    /\ RingOk(s.queue) /\ MarksOk(s.pre)
    /\ s.queue.size <= Cardinality(Marked(s.pre))

LEMMA MarkedIsFinite ==
    ASSUME NEW f, GoodMap(map)
    PROVE  IsFiniteSet(Marked(f)) /\ Cardinality(Marked(f)) \in Nat
<1>1. Size(map) - 1 \in Int
    BY SizeIsPositive
<1>2. IsFiniteSet(0 .. Size(map) - 1)
    BY <1>1, FS_Interval
<1>3. IsFiniteSet(Marked(f))
    BY <1>2, FS_Subset, Zenon DEF Marked, Indices
<1> QED
    BY <1>3, FS_CardinalityType

(* The mark that Discover sets is a new one. *)
LEMMA MarkOne ==
    ASSUME NEW f, MarksOk(f), GoodMap(map), NEW i \in Indices, f[i][1] = -1, NEW n, n[1] # -1
    PROVE  /\ MarksOk([f EXCEPT ![i] = n])
           /\ Cardinality(Marked([f EXCEPT ![i] = n])) = Cardinality(Marked(f)) + 1
<1> DEFINE g == [f EXCEPT ![i] = n]
<1>1. f[i] = None
    BY DEF MarksOk
<1>2. n # None
    BY DEF None
<1>3. DOMAIN g = Indices /\ g[i] = n /\ \A k \in Indices \ {i} : g[k] = f[k]
    BY DEF MarksOk
<1> HIDE DEF g
<1>4. MarksOk(g)
    BY <1>3 DEF MarksOk
<1>5. Marked(g) = Marked(f) \cup {i} /\ i \notin Marked(f)
    BY <1>1, <1>2, <1>3 DEF Marked
<1>6. IsFiniteSet(Marked(f))
    BY MarkedIsFinite
<1>7. Cardinality(Marked(f) \cup {i}) = Cardinality(Marked(f)) + 1
    BY <1>5, <1>6, FS_AddElement
<1> QED
    BY <1>4, <1>5, <1>7 DEF g

LEMMA DiscoverKeeps ==
    ASSUME NEW s, GoodMap(map), SearchOk(s), NEW n, n[1] # -1, NEW side
    PROVE  SearchOk(Discover(s, n, side))
<1> DEFINE i == Index(map, Neighbour(n, side))
           q == Enqueue(s.queue, Neighbour(n, side))
           f == [s.pre EXCEPT ![i] = n]
<1>1. CASE Open(map, n, side) /\ i \in Indices /\ s.pre[i][1] = -1
    <2>1. Discover(s, n, side) = [queue |-> q, pre |-> f]
        BY <1>1, Zenon DEF Discover
    <2>2. RingOk(q) /\ q.size <= s.queue.size + 1
        BY EnqueueKeeps, Zenon DEF SearchOk
    <2>3. MarksOk(f) /\ Cardinality(Marked(f)) = Cardinality(Marked(s.pre)) + 1
        BY <1>1, MarkOne, Zenon DEF SearchOk
    <2>4. s.queue.size <= Cardinality(Marked(s.pre))
        BY Zenon DEF SearchOk
    <2>5. /\ Cardinality(Marked(s.pre)) \in Nat /\ s.queue.size \in Int /\ q.size \in Int
        BY <2>2, MarkedIsFinite, SizeIsPositive DEF SearchOk, RingOk
    <2> HIDE DEF q, f, i
    <2>6. q.size <= Cardinality(Marked(f))
        BY <2>2, <2>3, <2>4, <2>5
    <2>7. [queue |-> q, pre |-> f].queue = q /\ [queue |-> q, pre |-> f].pre = f
        OBVIOUS
    <2> QED
        BY <2>1, <2>2, <2>3, <2>6, <2>7, Zenon DEF SearchOk
<1>2. CASE ~(Open(map, n, side) /\ i \in Indices /\ s.pre[i][1] = -1)
    <2>1. Discover(s, n, side) = s
        BY <1>2, Zenon DEF Discover
    <2> QED
        BY <2>1
<1> QED
    BY <1>1, <1>2

LEMMA DiscoveredKeeps ==
    ASSUME NEW q, GoodMap(map), SearchOk([queue |-> q, pre |-> pre]), NEW n, n[1] # -1
    PROVE  SearchOk(Discovered(q, n))
BY DiscoverKeeps, Zenon DEF Discovered

Searching ==
    /\ pc \in {"search", "print"} => RingOk(queue) /\ DOMAIN pre = Indices
    /\ pc = "search" => /\ MarksOk(pre)
                        /\ queue.size <= Cardinality(Marked(pre))

LEMMA SearchKept ==
    ASSUME Phases, Searching, [Next]_vars
    PROVE  Searching'
<1>1. CASE SearchStart
    <2> DEFINE q == Enqueue(q_ctor, pos)
               f == [[i \in Indices |-> None] EXCEPT ![Index(map, pos)] = pos]
    <2>1. /\ map' = map /\ pc = "solve" /\ Inside(map, pos) /\ queue' = q /\ pre' = f
        BY <1>1, Zenon DEF SearchStart, Enters
    <2>2. GoodMap(map) /\ Indices' = Indices
        BY <2>1, Zenon DEF Phases, Indices, Size
    <2>3. Size(map) \in Nat \ {0}
        BY <2>2, SizeIsPositive
    <2>4. 0 % Size(map) = 0
        BY <2>3, ModBelow
    <2>5. RingOk(q_ctor) /\ q_ctor.size = 0
        BY <2>3, <2>4 DEF RingOk, q_ctor, Indices
    <2>6. RingOk(q) /\ q.size <= 1
        <3>1. q.size <= 0 + 1 /\ RingOk(q)
            BY <2>2, <2>5, EnqueueKeeps, Zenon
        <3> QED
            BY <3>1
    <2>7. Index(map, pos) \in Indices /\ pos[1] # -1
        <3>1. /\ map.rows \in Nat /\ map.cols \in Nat /\ pos[1] \in 0 .. map.rows - 1
              /\ pos[2] \in 0 .. map.cols - 1
            BY <2>1, <2>2 DEF GoodMap, Inside
        <3>2. \A r, c \in Nat : \A a \in 0 .. r - 1 : \A b \in 0 .. c - 1 : a * c + b \in 0 .. r * c - 1
            OBVIOUS
        <3>3. pos[1] * map.cols + pos[2] \in 0 .. map.rows * map.cols - 1
            BY <3>1, <3>2, Zenon
        <3> QED
            BY <3>1, <3>3 DEF Index, Indices, Size
    <2> DEFINE e == [i \in Indices |-> None]
    <2>8. MarksOk(e) /\ e[Index(map, pos)][1] = -1 /\ Marked(e) = {}
        BY <2>7 DEF MarksOk, Marked, None
    <2>9. MarksOk(f) /\ Cardinality(Marked(f)) = Cardinality(Marked(e)) + 1
        BY <2>2, <2>7, <2>8, MarkOne, Zenon
    <2>10. Cardinality(Marked(f)) = 1
        BY <2>8, <2>9, FS_EmptySet
    <2> HIDE DEF q, f
    <2>11. RingOk(queue)' /\ MarksOk(pre)'
        BY <2>1, <2>2, <2>6, <2>9, Zenon DEF RingOk, MarksOk, Size
    <2>12. Marked(pre)' = Marked(f)
        BY <2>1, <2>2, Zenon DEF Marked
    <2>13. queue'.size <= Cardinality(Marked(pre)')
        BY <2>1, <2>6, <2>10, <2>12, Zenon
    <2> QED
        BY <2>11, <2>13, Zenon DEF Searching, MarksOk
<1>2. CASE SearchStep
    <2> DEFINE n == queue.nodes[queue.front]
               q == Dequeue(queue)
    <2>1. /\ map' = map /\ pc = "search" /\ queue.size > 0
          /\ \/ queue' = q /\ pre' = pre /\ pc' \in {"search", "print"}
             \/ /\ Inside(map, n) /\ pc' = pc
                /\ queue' = Discovered(q, n).queue /\ pre' = Discovered(q, n).pre
        <3>1. CASE ~Inside(map, n)
            BY <1>2, <3>1 DEF SearchStep
        <3>2. CASE Inside(map, n) /\ IsExit(map, n, pos)
            BY <1>2, <3>2 DEF SearchStep
        <3>3. CASE Inside(map, n) /\ ~IsExit(map, n, pos)
            BY <1>2, <3>3, Zenon DEF SearchStep
        <3> QED
            BY <3>1, <3>2, <3>3
    <2>2. GoodMap(map) /\ Indices' = Indices /\ Size(map)' = Size(map)
        BY <2>1, Zenon DEF Phases, Indices, Size
    <2>3. RingOk(queue) /\ MarksOk(pre) /\ queue.size <= Cardinality(Marked(pre))
        BY <2>1, Zenon DEF Searching
    <2>4. RingOk(q) /\ q.size = queue.size - 1
        BY <2>1, <2>2, <2>3, DequeueKeeps, Zenon
    <2>5. Cardinality(Marked(pre)) \in Nat /\ queue.size \in Int
        BY <2>2, <2>3, MarkedIsFinite, SizeIsPositive DEF RingOk
    <2> HIDE DEF q
    <2>6. q.size <= Cardinality(Marked(pre))
        BY <2>3, <2>4, <2>5
    <2>7. /\ RingOk(queue)' <=> RingOk(queue')
          /\ MarksOk(pre)' <=> MarksOk(pre')
          /\ Marked(pre)' = Marked(pre')
        BY <2>2, Zenon DEF RingOk, MarksOk, Marked
    <2>8. CASE queue' = q /\ pre' = pre
        BY <2>3, <2>4, <2>6, <2>7, <2>8, Zenon DEF Searching, MarksOk
    <2>9. CASE /\ Inside(map, n) /\ pc' = pc
               /\ queue' = Discovered(q, n).queue /\ pre' = Discovered(q, n).pre
        <3>1. n[1] # -1
            <4>1. n[1] \in 0 .. map.rows - 1 /\ map.rows \in Nat
                BY <2>2, <2>9, Zenon DEF Inside, GoodMap
            <4> QED
                BY <4>1
        <3>2. [queue |-> q, pre |-> pre].queue = q /\ [queue |-> q, pre |-> pre].pre = pre
            OBVIOUS
        <3>3. SearchOk([queue |-> q, pre |-> pre])
            BY <2>3, <2>4, <2>6, <3>2, Zenon DEF SearchOk
        <3>4. SearchOk(Discovered(q, n))
            BY <2>2, <3>1, <3>3, DiscoveredKeeps, Zenon
        <3> QED
            BY <2>7, <2>9, <3>4, Zenon DEF SearchOk, Searching, MarksOk
    <2> QED
        BY <2>1, <2>8, <2>9
<1>3. CASE UNCHANGED <<map, queue, pre>> /\ (pc' = pc \/ (pc' = "print" /\ pc = "search"))
    BY <1>3, Zenon DEF Searching, RingOk, MarksOk, Marked, Indices, Size
<1>4. CASE SearchEmpty \/ (PrintNode /\ pc' = pc) \/ UNCHANGED vars
    <2>1. UNCHANGED <<map, queue, pre>> /\ (pc' = pc \/ (pc' = "print" /\ pc = "search"))
        BY <1>4 DEF SearchEmpty, PrintNode, vars, search
    <2> QED
        BY <1>3, <2>1
<1>5. CASE Refuse \/ LoadTrap \/ Load \/ Test \/ LeaveMap \/ NoBits \/ DeadEnd \/ Walk
           \/ NoDirection \/ SearchTrap \/ (PrintNode /\ pc' # pc)
    <2>1. pc' \notin {"search", "print"}
        <3>1. CASE Load
            BY <1>5, <3>1 DEF Load
        <3>2. CASE PrintNode /\ pc' # pc
            BY <3>2 DEF PrintNode
        <3>3. CASE Refuse \/ LoadTrap \/ Test \/ LeaveMap \/ NoBits \/ DeadEnd \/ Walk
                   \/ NoDirection \/ SearchTrap
            BY <3>3 DEF Refuse, LoadTrap, Test, LeaveMap, NoBits, DeadEnd, Walk, Enters,
                        NoDirection, SearchTrap
        <3> QED
            BY <1>5, <3>1, <3>2, <3>3
    <2> QED
        BY <2>1 DEF Searching
<1> QED
    BY <1>1, <1>2, <1>4, <1>5 DEF Next

-----------------------------------------------------------------------------
(* The path *)

(* q is discovered from p. *)
Leads(p, q) ==
    Inside(map, p) /\ \E side \in Sides : Open(map, p, side) /\ q = Neighbour(p, side)

(* f numbers the nodes that are marked in marks, in the order in which they    *)
(* were: they differ in the entry they take, although some lie outside, and    *)
(* the entry of each but the first holds an earlier one that leads to it.      *)
Ordered(marks, K, f) ==
    /\ K = Cardinality(Marked(marks)) /\ K \in Nat \ {0} /\ f \in [1 .. K -> Positions]
    /\ f[1] = pos
    /\ \A j \in 1 .. K : Index(map, f[j]) \in Indices /\ marks[Index(map, f[j])] # None
    /\ \A i, j \in 1 .. K : Index(map, f[i]) = Index(map, f[j]) => i = j
    /\ \A j \in 2 .. K : \E e \in 1 .. j - 1 :
          marks[Index(map, f[j])] = f[e] /\ Leads(f[e], f[j])

(* What waits in the ring buffer was discovered. *)
Queued(q, K, f) ==
    \A m \in 0 .. q.size - 1 : \E j \in 1 .. K : q.nodes[(q.front + m) % Size(map)] = f[j]

(* Both, while node n is being looked at. *)
Discovering(s, n) ==
    \E K, f : Ordered(s.pre, K, f) /\ Queued(s.queue, K, f) /\ \E e \in 1 .. K : n = f[e]

(* One more node in the order. *)
LEMMA OrderedMore ==
    ASSUME NEW marks, MarksOk(marks), GoodMap(map), NEW K, NEW f, Ordered(marks, K, f),
           NEW e \in 1 .. K, NEW p, Leads(f[e], p), p \in Positions,
           NEW i, i = Index(map, p), i \in Indices, marks[i][1] = -1,
           NEW more, more = [marks EXCEPT ![i] = f[e]],
           NEW g, g = [j \in 1 .. K + 1 |-> IF j = K + 1 THEN p ELSE f[j]]
    PROVE  Ordered(more, K + 1, g)
<1>1. /\ K = Cardinality(Marked(marks)) /\ K \in Nat \ {0} /\ f \in [1 .. K -> Positions]
      /\ f[1] = pos
      /\ \A j \in 1 .. K : Index(map, f[j]) \in Indices /\ marks[Index(map, f[j])] # None
      /\ \A a, j \in 1 .. K : Index(map, f[a]) = Index(map, f[j]) => a = j
      /\ \A j \in 2 .. K : \E a \in 1 .. j - 1 :
            marks[Index(map, f[j])] = f[a] /\ Leads(f[a], f[j])
    BY DEF Ordered
<1>2. marks[i] = None /\ DOMAIN marks = Indices
    BY DEF MarksOk
<1>3. f[e][1] # -1
    <2>1. f[e][1] \in 0 .. map.rows - 1 /\ map.rows \in Nat
        BY DEF Leads, Inside, GoodMap
    <2> QED
        BY <2>1
<1>4. f[e] # None
    BY <1>3 DEF None
<1>5. K + 1 = Cardinality(Marked(more))
    BY <1>1, <1>3, MarkOne
<1>6. more[i] = f[e] /\ \A k \in Indices : k # i => more[k] = marks[k]
    BY <1>2
<1>7. \A j \in 1 .. K : g[j] = f[j] /\ Index(map, f[j]) # i /\ j \in 1 .. K + 1
    BY <1>1, <1>2
<1>8. g[K + 1] = p /\ \A j \in 1 .. K + 1 : j = K + 1 \/ j \in 1 .. K
    BY <1>1
<1>9. K + 1 \in Nat \ {0} /\ g \in [1 .. K + 1 -> Positions] /\ g[1] = pos
    BY <1>1
<1>10. \A j \in 1 .. K + 1 : Index(map, g[j]) \in Indices /\ more[Index(map, g[j])] # None
    BY <1>1, <1>4, <1>6, <1>7, <1>8
<1>11. \A a, j \in 1 .. K + 1 : Index(map, g[a]) = Index(map, g[j]) => a = j
    BY <1>1, <1>7, <1>8
<1>12. ASSUME NEW j \in 2 .. K + 1
       PROVE  \E a \in 1 .. j - 1 : more[Index(map, g[j])] = g[a] /\ Leads(g[a], g[j])
    <2>1. CASE j = K + 1
        <3>1. e \in 1 .. j - 1 /\ g[e] = f[e]
            BY <1>1, <1>7, <2>1
        <3> QED
            BY <1>6, <1>8, <2>1, <3>1
    <2>2. CASE j # K + 1
        <3>1. j \in 2 .. K /\ j \in 1 .. K
            BY <1>1, <2>2
        <3>2. PICK a \in 1 .. j - 1 : marks[Index(map, f[j])] = f[a] /\ Leads(f[a], f[j])
            BY <1>1, <3>1
        <3>3. a \in 1 .. K
            BY <1>1, <3>1
        <3>4. more[Index(map, f[j])] = marks[Index(map, f[j])]
            BY <1>1, <1>6, <1>7, <3>1
        <3> QED
            BY <1>7, <3>1, <3>2, <3>3, <3>4
    <2> QED
        BY <2>1, <2>2
<1> QED
    BY <1>5, <1>9, <1>10, <1>11, <1>12 DEF Ordered

(* What is enqueued is discovered. *)
LEMMA EnqueueQueued ==
    ASSUME NEW q, GoodMap(map), RingOk(q), NEW K, NEW f, Queued(q, K, f),
           NEW L, NEW g, K \in Nat, L \in Nat, K <= L, \A j \in 1 .. K : g[j] = f[j],
           NEW e \in 1 .. L, NEW n, n = g[e]
    PROVE  Queued(Enqueue(q, n), L, g)
<1>0. \A j \in 1 .. K : j \in 1 .. L
    OBVIOUS
<1>1. ASSUME NEW m \in 0 .. q.size - 1
      PROVE  \E j \in 1 .. L : q.nodes[(q.front + m) % Size(map)] = g[j]
    <2>1. PICK j \in 1 .. K : q.nodes[(q.front + m) % Size(map)] = f[j]
        BY Zenon DEF Queued
    <2> QED
        BY <1>0, <2>1
<1> DEFINE N == Size(map)  r == Enqueue(q, n)
<1>2. N \in Nat \ {0}
    BY SizeIsPositive
<1>3. /\ DOMAIN q = {"nodes", "size", "front", "rear"}
      /\ DOMAIN q.nodes = 0 .. N - 1
      /\ q.front \in 0 .. N - 1 /\ q.size \in 0 .. N
      /\ q.rear = (q.front + q.size) % N
    BY Zenon DEF RingOk, Indices
<1>4. CASE q.size = N
    <2>1. r = q
        BY <1>4, Zenon DEF Enqueue
    <2> QED
        BY <1>1, <2>1, Zenon DEF Queued
<1>5. CASE q.size # N
    <2>1. r.nodes = [q.nodes EXCEPT ![q.rear] = n] /\ r.size = q.size + 1 /\ r.front = q.front
        BY <1>3, <1>5 DEF Enqueue
    <2> HIDE DEF r, N
    <2>2. ASSUME NEW m \in 0 .. r.size - 1
          PROVE  \E j \in 1 .. L : r.nodes[(r.front + m) % N] = g[j]
        <3> DEFINE x == (r.front + m) % N
        <3>1. x \in 0 .. N - 1
            BY <1>2, <1>3, <2>1
        <3>2. CASE x = q.rear
            <4>1. r.nodes[x] = n
                BY <1>3, <2>1, <3>1, <3>2
            <4> QED
                BY <4>1
        <3>3. CASE x # q.rear
            <4>1. r.nodes[x] = q.nodes[x] /\ m # q.size
                BY <1>3, <2>1, <3>1, <3>3
            <4>2. m \in 0 .. q.size - 1
                BY <1>2, <1>3, <2>1, <4>1
            <4> QED
                BY <1>1, <2>1, <4>1, <4>2 DEF N
        <3> QED
            BY <3>2, <3>3
    <2> QED
        BY <2>2, Zenon DEF Queued, r, N
<1> QED
    BY <1>4, <1>5

(* What is dequeued was discovered, and so is what still waits. *)
LEMMA DequeueQueued ==
    ASSUME NEW q, GoodMap(map), RingOk(q), q.size > 0, NEW K, NEW f, Queued(q, K, f)
    PROVE  Queued(Dequeue(q), K, f) /\ \E e \in 1 .. K : q.nodes[q.front] = f[e]
<1> DEFINE N == Size(map)  r == Dequeue(q)
<1>1. N \in Nat \ {0}
    BY SizeIsPositive
<1>2. /\ DOMAIN q = {"nodes", "size", "front", "rear"}
      /\ q.front \in 0 .. N - 1 /\ q.size \in 0 .. N
    BY Zenon DEF RingOk, Indices
<1>3. r.nodes = q.nodes /\ r.size = q.size - 1 /\ r.front = (q.front + 1) % N
    BY <1>2 DEF Dequeue
<1>4. \A m \in 0 .. q.size - 1 : \E j \in 1 .. K : q.nodes[(q.front + m) % N] = f[j]
    BY Zenon DEF Queued
<1> HIDE DEF r, N
<1>5. ASSUME NEW m \in 0 .. r.size - 1
      PROVE  \E j \in 1 .. K : r.nodes[(r.front + m) % N] = f[j]
    <2> DEFINE z == m + 1
    <2>1. z \in 1 .. N /\ z \in 0 .. q.size - 1 /\ z - 1 = m
        BY <1>1, <1>2, <1>3
    <2> HIDE DEF z
    <2>2. (((q.front + 1) % N) + (z - 1)) % N = (q.front + z) % N
        BY <1>1, <1>2, <2>1, RingAfterFront, Zenon
    <2> QED
        BY <1>3, <1>4, <2>1, <2>2, Zenon
<1>6. (q.front + 0) % N = q.front /\ 0 \in 0 .. q.size - 1
    <2>1. q.front + 0 = q.front /\ 0 \in 0 .. q.size - 1
        BY <1>1, <1>2
    <2> QED
        BY <1>1, <1>2, <2>1, ModBelow, Zenon
<1>7. \E e \in 1 .. K : q.nodes[q.front] = f[e]
    BY <1>4, <1>6, Zenon
<1> QED
    BY <1>5, <1>7, Zenon DEF Queued, r, N

(* A neighbour is marked and enqueued as the last one discovered, or nothing   *)
(* changes.                                                                    *)
LEMMA DiscoverOrders ==
    ASSUME NEW s, GoodMap(map), SearchOk(s), NEW n, Inside(map, n), Discovering(s, n), NEW side \in Sides
    PROVE  Discovering(Discover(s, n, side), n)
<1>1. PICK K, f : Ordered(s.pre, K, f) /\ Queued(s.queue, K, f) /\ \E e \in 1 .. K : n = f[e]
    BY Zenon DEF Discovering
<1>2. PICK e \in 1 .. K : n = f[e]
    BY <1>1
<1>3. K \in Nat \ {0} /\ f \in [1 .. K -> Positions] /\ n \in Positions
    BY <1>1, <1>2 DEF Ordered
<1>4. RingOk(s.queue) /\ MarksOk(s.pre)
    BY Zenon DEF SearchOk
<1>5. PICK p : p = Neighbour(n, side)
    OBVIOUS
<1>6. p \in Positions
    BY <1>3, <1>5, NeighbourBack
<1>7. PICK i : i = Index(map, p)
    OBVIOUS
<1> DEFINE q == Enqueue(s.queue, p)
           more == [s.pre EXCEPT ![i] = n]
           g == [j \in 1 .. K + 1 |-> IF j = K + 1 THEN p ELSE f[j]]
<1>8. CASE Open(map, n, side) /\ i \in Indices /\ s.pre[i][1] = -1
    <2>1. Discover(s, n, side) = [queue |-> q, pre |-> more]
        BY <1>5, <1>7, <1>8, Zenon DEF Discover
    <2>2. Leads(f[e], p)
        BY <1>2, <1>5, <1>8, Zenon DEF Leads
    <2>3. more = [s.pre EXCEPT ![i] = f[e]]
        BY <1>2, Zenon
    <2>4. Ordered(more, K + 1, g)
        <3> HIDE DEF more
        <3> QED
            BY <1>1, <1>4, <1>6, <1>7, <1>8, <2>2, <2>3, OrderedMore
    <2>5. /\ K + 1 \in Nat /\ K \in Nat /\ K <= K + 1 /\ (\A j \in 1 .. K : g[j] = f[j])
          /\ K + 1 \in 1 .. K + 1 /\ p = g[K + 1]
        BY <1>3
    <2> HIDE DEF g
    <2>6. Queued(q, K + 1, g)
        BY <1>1, <1>4, <2>5, EnqueueQueued
    <2>7. e \in 1 .. K + 1 /\ n = g[e]
        BY <1>2, <1>3, <2>5
    <2> HIDE DEF q, more
    <2>8. [queue |-> q, pre |-> more].queue = q /\ [queue |-> q, pre |-> more].pre = more
        OBVIOUS
    <2> QED
        BY <2>1, <2>4, <2>6, <2>7, <2>8, Zenon DEF Discovering
<1>9. CASE ~(Open(map, n, side) /\ i \in Indices /\ s.pre[i][1] = -1)
    <2>1. Discover(s, n, side) = s
        BY <1>5, <1>7, <1>9, Zenon DEF Discover
    <2> QED
        BY <2>1
<1> QED
    BY <1>8, <1>9

(* The four sides of a node, one after the other. *)
LEMMA DiscoveredOrders ==
    ASSUME NEW q, GoodMap(map), SearchOk([queue |-> q, pre |-> pre]), NEW n, Inside(map, n), n[1] # -1,
           Discovering([queue |-> q, pre |-> pre], n)
    PROVE  Discovering(Discovered(q, n), n)
<1>1. "TOP" \in Sides /\ "RIGHT" \in Sides /\ "BOTTOM" \in Sides /\ "LEFT" \in Sides
    BY DEF Sides
<1> QED
    BY <1>1, DiscoverKeeps, DiscoverOrders, Zenon DEF Discovered

(* The nodes of the path that are printed so far come after node in the order  *)
(* of discovery, and each leads to the next.                                   *)
Traced(K, f, n, t) ==
    \E j \in 1 .. K :
        /\ n = f[j] /\ t \in Seq(Positions) /\ Len(t) <= K - j
        /\ \A i \in 1 .. Len(t) : \E r \in j + 1 .. K : t[i] = f[r]
        /\ \A a, b \in 1 .. Len(t) : t[a] = t[b] => a = b
        /\ \A i \in 1 .. Len(t) - 1 : Leads(t[i], t[i + 1])
        /\ Len(t) > 0 => Leads(n, t[1])

(* u visits nothing twice, goes from node to node and fits print_arr. *)
Printed(u) ==
    /\ Len(u) <= Size(map)
    /\ \A a, b \in 1 .. Len(u) : u[a] = u[b] => a = b
    /\ \A i \in 1 .. Len(u) - 1 : Leads(u[i], u[i + 1])

(* print_arr is filled from its end. *)
LEMMA PutInFront ==
    ASSUME NEW S, NEW x \in S, NEW t \in Seq(S)
    PROVE  /\ <<x>> \o t \in Seq(S) /\ Len(<<x>> \o t) = Len(t) + 1 /\ (<<x>> \o t)[1] = x
           /\ \A i \in 1 .. Len(t) : (<<x>> \o t)[i + 1] = t[i]
           /\ \A i \in 2 .. Len(t) + 1 : (<<x>> \o t)[i] = t[i - 1]
OBVIOUS

(* print_arr and pre_nodes have one entry per cell. *)
LEMMA FewMarks ==
    ASSUME NEW marks, GoodMap(map)
    PROVE  Cardinality(Marked(marks)) <= Size(map)
<1>1. Size(map) \in Nat \ {0}
    BY SizeIsPositive
<1>2. IsFiniteSet(Indices) /\ Cardinality(Indices) = Size(map)
    <2>1. 0 \in Int /\ Size(map) - 1 \in Int /\ 0 <= Size(map) - 1 /\ (Size(map) - 1) - 0 + 1 = Size(map)
        BY <1>1
    <2>2. IsFiniteSet(0 .. Size(map) - 1) /\ Cardinality(0 .. Size(map) - 1) = (Size(map) - 1) - 0 + 1
        BY <1>1, <2>1, FS_Interval
    <2> QED
        BY <2>1, <2>2 DEF Indices
<1>3. Marked(marks) \subseteq Indices
    BY DEF Marked
<1> QED
    BY <1>2, <1>3, FS_Subset

(* Printing one more node. *)
LEMMA TraceMore ==
    ASSUME NEW marks, GoodMap(map), NEW K, NEW f, Ordered(marks, K, f), NEW n, NEW t, Traced(K, f, n, t),
           NEW u, u = <<n>> \o t
    PROVE  /\ n # pos => Traced(K, f, marks[Index(map, n)], u)
           /\ u[1] = n /\ Printed(u)
<1>1. /\ K = Cardinality(Marked(marks)) /\ K \in Nat \ {0} /\ f \in [1 .. K -> Positions]
      /\ f[1] = pos
      /\ \A i, j \in 1 .. K : Index(map, f[i]) = Index(map, f[j]) => i = j
      /\ \A j \in 2 .. K : \E e \in 1 .. j - 1 :
            marks[Index(map, f[j])] = f[e] /\ Leads(f[e], f[j])
    BY DEF Ordered
<1>2. PICK j \in 1 .. K :
        /\ n = f[j] /\ t \in Seq(Positions) /\ Len(t) <= K - j
        /\ \A i \in 1 .. Len(t) : \E r \in j + 1 .. K : t[i] = f[r]
        /\ \A a, b \in 1 .. Len(t) : t[a] = t[b] => a = b
        /\ \A i \in 1 .. Len(t) - 1 : Leads(t[i], t[i + 1])
        /\ Len(t) > 0 => Leads(n, t[1])
    BY DEF Traced
<1> DEFINE l == Len(t)
<1>3. l \in Nat /\ n \in Positions /\ j \in Int
    BY <1>1, <1>2
<1>4. /\ u \in Seq(Positions) /\ Len(u) = l + 1 /\ u[1] = n
      /\ \A i \in 2 .. l + 1 : u[i] = t[i - 1] /\ i - 1 \in 1 .. l
      /\ \A i \in 1 .. l : u[i + 1] = t[i]
    <2>1. /\ u \in Seq(Positions) /\ Len(u) = Len(t) + 1 /\ u[1] = n
          /\ \A i \in 2 .. Len(t) + 1 : u[i] = t[i - 1]
          /\ \A i \in 1 .. Len(t) : u[i + 1] = t[i]
        <3>1. t \in Seq(Positions) /\ n \in Positions
            BY <1>2, <1>3
        <3> QED
            BY <3>1, PutInFront
    <2> QED
        BY <1>3, <2>1
<1>5. Len(u) <= K /\ K <= Size(map) /\ Size(map) \in Nat
    BY <1>1, <1>2, <1>3, <1>4, FewMarks, SizeIsPositive
<1>6. \A i \in 1 .. l : t[i] # n
    <2> SUFFICES ASSUME NEW i \in 1 .. l
                 PROVE  t[i] # n
        OBVIOUS
    <2>1. PICK r \in j + 1 .. K : t[i] = f[r]
        BY <1>2
    <2>2. r \in 1 .. K /\ r # j
        BY <1>1, <1>3
    <2> QED
        BY <1>1, <1>2, <2>1, <2>2
<1> HIDE DEF l
<1>7. ASSUME NEW a \in 1 .. Len(u), NEW b \in 1 .. Len(u), u[a] = u[b]
      PROVE  a = b
    <2>1. \A i \in 1 .. l + 1 : i = 1 \/ i \in 2 .. l + 1
        BY <1>3
    <2>2. CASE a = 1 /\ b # 1
        BY <1>4, <1>6, <1>7, <2>1, <2>2
    <2>3. CASE a # 1 /\ b = 1
        BY <1>4, <1>6, <1>7, <2>1, <2>3
    <2>4. CASE a # 1 /\ b # 1
        <3>1. a \in 2 .. l + 1 /\ b \in 2 .. l + 1
            BY <1>4, <2>1, <2>4
        <3>2. t[a - 1] = t[b - 1] /\ a - 1 \in 1 .. l /\ b - 1 \in 1 .. l
            BY <1>4, <1>7, <3>1
        <3>3. a - 1 = b - 1
            BY <1>2, <3>2 DEF l
        <3> QED
            BY <1>3, <3>1, <3>3
    <2> QED
        BY <2>2, <2>3, <2>4
<1>8. ASSUME NEW i \in 1 .. Len(u) - 1
      PROVE  Leads(u[i], u[i + 1])
    <2>1. i \in 1 .. l /\ u[i + 1] = t[i]
        BY <1>3, <1>4
    <2>2. CASE i = 1
        BY <1>2, <1>3, <1>4, <2>1, <2>2 DEF l
    <2>3. CASE i # 1
        <3>1. i \in 2 .. l + 1 /\ i - 1 \in 1 .. l - 1 /\ (i - 1) + 1 = i
            BY <1>3, <2>1, <2>3
        <3>2. Leads(t[i - 1], t[(i - 1) + 1])
            BY <1>2, <3>1 DEF l
        <3> QED
            BY <1>4, <2>1, <3>1, <3>2
    <2> QED
        BY <2>2, <2>3
<1>9. ASSUME n # pos
      PROVE  Traced(K, f, marks[Index(map, n)], u)
    <2>1. j \in 2 .. K
        BY <1>1, <1>2, <1>3, <1>9
    <2>2. PICK e \in 1 .. j - 1 : marks[Index(map, n)] = f[e] /\ Leads(f[e], n)
        BY <1>1, <1>2, <2>1
    <2>3. e \in 1 .. K /\ e \in Int /\ e < j
        BY <1>1, <1>3, <2>1
    <2>4. Len(u) <= K - e
        BY <1>1, <1>2, <1>3, <1>4, <2>3 DEF l
    <2>5. ASSUME NEW i \in 1 .. Len(u)
          PROVE  \E r \in e + 1 .. K : u[i] = f[r]
        <3>1. CASE i = 1
            <4>1. j \in e + 1 .. K
                BY <1>1, <1>3, <2>1, <2>3
            <4> QED
                BY <1>2, <1>4, <3>1, <4>1
        <3>2. CASE i # 1
            <4>1. i \in 2 .. l + 1
                BY <1>3, <1>4, <3>2
            <4>2. PICK r \in j + 1 .. K : t[i - 1] = f[r]
                BY <1>2, <1>4, <4>1 DEF l
            <4>3. r \in e + 1 .. K
                BY <1>1, <1>3, <2>3
            <4> QED
                BY <1>4, <4>1, <4>2, <4>3
        <3> QED
            BY <3>1, <3>2
    <2>6. \A a, b \in 1 .. Len(u) : u[a] = u[b] => a = b
        BY <1>7
    <2> QED
        BY <1>4, <1>8, <2>2, <2>3, <2>4, <2>5, <2>6 DEF Traced
<1>10. Len(u) <= Size(map)
    BY <1>1, <1>3, <1>4, <1>5
<1> QED
    BY <1>4, <1>7, <1>8, <1>9, <1>10 DEF Printed

(* The search and the path it prints. *)
Tracing ==
    /\ pc \in {"load", "test", "solve", "search"} => path = <<>>
    /\ pc \in {"solve", "search", "print"} /\ option = "shortest" => pos = Start
    /\ pc \in {"search", "print"} => option = "shortest"
    /\ pc = "search" => \E K, f : /\ Ordered(pre, K, f) /\ Queued(queue, K, f)
                                  /\ queue.size > 0 \/ \E e \in 1 .. K : node = f[e]
    /\ pc = "print" => \E K, f : Ordered(pre, K, f) /\ Traced(K, f, node, path)

(* The search starts with one node in the order and in the queue. *)
LEMMA SearchStartOrders ==
    ASSUME GoodMap(map), pos \in Positions, SearchStart
    PROVE  \E K, f : Ordered(pre', K, f) /\ Queued(queue', K, f) /\ queue'.size > 0
<1> DEFINE e == [i \in Indices |-> None]
           f == [j \in 1 .. 1 |-> pos]
<1>1. /\ Inside(map, pos) /\ queue' = Enqueue(q_ctor, pos) /\ pre' = [e EXCEPT ![Index(map, pos)] = pos]
    BY Zenon DEF SearchStart, Enters
<1>2. Size(map) \in Nat \ {0}
    BY SizeIsPositive
<1>3. RingOk(q_ctor) /\ q_ctor.size = 0 /\ DOMAIN q_ctor = {"nodes", "size", "front", "rear"}
    <2>1. 0 % Size(map) = 0
        BY <1>2, ModBelow
    <2> QED
        BY <1>2, <2>1 DEF RingOk, q_ctor, Indices
<1>4. Index(map, pos) \in Indices
    BY <1>1, IndexOfCell DEF Indices
<1>5. pos[1] # -1
    <2>1. pos[1] \in 0 .. map.rows - 1 /\ map.rows \in Nat
        BY <1>1 DEF GoodMap, Inside
    <2> QED
        BY <2>1
<1>6. MarksOk(e) /\ e[Index(map, pos)][1] = -1 /\ Marked(e) = {}
    BY <1>4 DEF MarksOk, Marked, None
<1>7. Cardinality(Marked(pre')) = 1
    <2>1. Cardinality(Marked(pre')) = Cardinality(Marked(e)) + 1
        BY <1>1, <1>4, <1>5, <1>6, MarkOne, Zenon
    <2> QED
        BY <1>6, <2>1, FS_EmptySet
<1>8. pre'[Index(map, pos)] = pos /\ pos # None
    BY <1>1, <1>4, <1>5 DEF None
<1> HIDE DEF e
<1>9. f \in [1 .. 1 -> Positions] /\ f[1] = pos
    OBVIOUS
<1> HIDE DEF f
<1>10. Ordered(pre', 1, f)
    <2>1. \A j \in 1 .. 1 : j = 1
        OBVIOUS
    <2>2. 2 .. 1 = {} /\ 1 \in Nat \ {0}
        OBVIOUS
    <2> QED
        BY <1>4, <1>7, <1>8, <1>9, <2>1, <2>2 DEF Ordered
<1>11. Queued(q_ctor, 1, f)
    <2>1. 0 .. q_ctor.size - 1 = {}
        BY <1>3
    <2> QED
        BY <2>1, Zenon DEF Queued
<1>12. Queued(queue', 1, f)
    <2>1. 1 \in Nat /\ 1 <= 1 /\ 1 \in 1 .. 1
        OBVIOUS
    <2>2. Queued(Enqueue(q_ctor, pos), 1, f)
        BY <1>3, <1>9, <1>11, <2>1, EnqueueQueued
    <2> QED
        BY <1>1, <2>2, Zenon
<1>13. queue'.size > 0
    <2>1. q_ctor.size # Size(map)
        BY <1>2, <1>3
    <2>2. queue'.size = q_ctor.size + 1
        BY <1>1, <1>3, <2>1 DEF Enqueue
    <2> QED
        BY <1>3, <2>2
<1> QED
    BY <1>10, <1>12, <1>13

(* A step of the search keeps the order or adds to it. *)
LEMMA SearchStepOrders ==
    ASSUME Phases, Searching, Tracing, SearchStep
    PROVE  \E K, f : Ordered(pre', K, f) /\ Queued(queue', K, f) /\ \E e \in 1 .. K : node' = f[e]
<1> DEFINE n == queue.nodes[queue.front]
           q == Dequeue(queue)
<1>1. /\ pc = "search" /\ queue.size > 0 /\ node' = n
      /\ \/ queue' = q /\ pre' = pre
         \/ /\ Inside(map, n)
            /\ queue' = Discovered(q, n).queue /\ pre' = Discovered(q, n).pre
    <2>1. CASE ~Inside(map, n)
        BY <2>1 DEF SearchStep
    <2>2. CASE Inside(map, n) /\ IsExit(map, n, pos)
        BY <2>2 DEF SearchStep
    <2>3. CASE Inside(map, n) /\ ~IsExit(map, n, pos)
        BY <2>3, Zenon DEF SearchStep
    <2> QED
        BY <2>1, <2>2, <2>3
<1>2. GoodMap(map)
    BY <1>1, Zenon DEF Phases
<1>3. RingOk(queue) /\ MarksOk(pre) /\ queue.size <= Cardinality(Marked(pre))
    BY <1>1, Zenon DEF Searching
<1>4. PICK K, f : Ordered(pre, K, f) /\ Queued(queue, K, f)
    BY <1>1 DEF Tracing
<1>5. Queued(q, K, f) /\ \E e \in 1 .. K : n = f[e]
    BY <1>1, <1>2, <1>3, <1>4, DequeueQueued, Zenon
<1>6. RingOk(q) /\ q.size = queue.size - 1
    BY <1>1, <1>2, <1>3, DequeueKeeps, Zenon
<1>7. Cardinality(Marked(pre)) \in Nat /\ queue.size \in Int
    BY <1>2, <1>3, MarkedIsFinite, SizeIsPositive DEF RingOk
<1> HIDE DEF q, n
<1>8. q.size <= Cardinality(Marked(pre))
    BY <1>3, <1>6, <1>7
<1>9. CASE queue' = q /\ pre' = pre
    BY <1>1, <1>4, <1>5, <1>9, Zenon
<1>10. CASE Inside(map, n) /\ queue' = Discovered(q, n).queue /\ pre' = Discovered(q, n).pre
    <2>1. n[1] # -1
        <3>1. n[1] \in 0 .. map.rows - 1 /\ map.rows \in Nat
            BY <1>2, <1>10, Zenon DEF Inside, GoodMap
        <3> QED
            BY <3>1
    <2>2. [queue |-> q, pre |-> pre].queue = q /\ [queue |-> q, pre |-> pre].pre = pre
        OBVIOUS
    <2>3. SearchOk([queue |-> q, pre |-> pre])
        BY <1>3, <1>6, <1>8, <2>2, Zenon DEF SearchOk
    <2>4. Discovering([queue |-> q, pre |-> pre], n)
        BY <1>4, <1>5, <2>2, Zenon DEF Discovering
    <2>5. Discovering(Discovered(q, n), n)
        BY <1>2, <1>10, <2>1, <2>3, <2>4, DiscoveredOrders, Zenon
    <2> QED
        BY <1>1, <1>10, <2>5, Zenon DEF Discovering
<1> QED
    BY <1>1, <1>9, <1>10

(* The order only reads the map and the start, which a search leaves alone. *)
LEMMA OrderPrimed ==
    ASSUME map' = map, pos' = pos, NEW K, NEW f
    PROVE  /\ Ordered(pre, K, f)' <=> Ordered(pre', K, f)
           /\ Queued(queue, K, f)' <=> Queued(queue', K, f)
           /\ Traced(K, f, node, path)' <=> Traced(K, f, node', path')
<1>1. Indices' = Indices
    BY Zenon DEF Indices, Size
<1>2. \A p, q : Leads(p, q)' <=> Leads(p, q)
    BY Zenon DEF Leads
<1>3. Marked(pre)' = Marked(pre')
    BY <1>1, Zenon DEF Marked
<1>4. Ordered(pre, K, f)' <=> Ordered(pre', K, f)
    BY <1>1, <1>2, <1>3, Zenon DEF Ordered
<1>5. Queued(queue, K, f)' <=> Queued(queue', K, f)
    BY Zenon DEF Queued, Size
<1>6. Traced(K, f, node, path)' <=> Traced(K, f, node', path')
    BY <1>2, Zenon DEF Traced
<1> QED
    BY <1>4, <1>5, <1>6

(* The node that the search ends at is the last one of the path. *)
LEMMA TraceStarts ==
    ASSUME NEW marks, NEW K, NEW f, Ordered(marks, K, f), NEW e \in 1 .. K
    PROVE  Traced(K, f, f[e], <<>>)
<1>1. K \in Nat
    BY DEF Ordered
<1> DEFINE t == <<>>
<1>2. t \in Seq(Positions) /\ Len(t) = 0
    OBVIOUS
<1>3. 1 .. 0 = {} /\ 1 .. 0 - 1 = {} /\ ~(0 > 0) /\ 0 <= K - e
    BY <1>1
<1> HIDE DEF t
<1>4. Traced(K, f, f[e], t)
    BY <1>2, <1>3 DEF Traced
<1> QED
    BY <1>4 DEF t

(* A step keeps the order of discovery and what is printed along it. *)
LEMMA TraceKept ==
    ASSUME Phases, Walking, Searching, Tracing, PathIsWalk, [Next]_vars
    PROVE  Tracing' /\ PathIsWalk'
<1>1. CASE Refuse \/ LoadTrap \/ Test \/ LeaveMap \/ NoBits \/ DeadEnd \/ NoDirection \/ SearchTrap
    <2>1. /\ pc \in {"load", "test", "solve", "search"} /\ pc' \in {"done", "undefined", "deadend"}
          /\ path' = path
        BY <1>1 DEF Refuse, LoadTrap, Test, LeaveMap, NoBits, DeadEnd, NoDirection, SearchTrap, Enters, search
    <2>2. path' = <<>>
        BY <2>1 DEF Tracing
    <2> QED
        BY <2>1, <2>2 DEF Tracing, PathIsWalk
<1>2. CASE Load
    <2>1. /\ pc = "load" /\ path' = path /\ command' = command /\ pc' \in {"test", "solve"}
          /\ pc' = "solve" => pos' = <<start[1] - 1, start[2] - 1>>
        BY <1>2, Zenon DEF Load, search
    <2>2. path' = <<>> /\ start' = start
        BY <2>1 DEF Tracing, start
    <2>3. pc' = "solve" => pos' = Start'
        BY <2>1, <2>2 DEF Start
    <2> QED
        BY <2>1, <2>2, <2>3 DEF Tracing, PathIsWalk
<1>3. CASE Walk
    <2>1. pc = "solve" /\ pc' = pc /\ path' = path /\ command' = command /\ option \in {"lpath", "rpath"}
        BY <1>3 DEF Walk, Enters, search
    <2>2. option' # "shortest" /\ path' = <<>>
        BY <2>1 DEF Tracing, option
    <2> QED
        BY <2>1, <2>2 DEF Tracing, PathIsWalk
<1>4. CASE SearchStart
    <2>1. /\ pc = "solve" /\ pc' = "search" /\ path' = path /\ command' = command /\ pos' = pos
          /\ map' = map /\ option = "shortest"
        BY <1>4 DEF SearchStart, Enters
    <2>2. GoodMap(map) /\ pos \in Positions /\ path' = <<>> /\ pos = Start
        BY <2>1 DEF Phases, Walking, Tracing
    <2>3. option' = option /\ Start' = Start
        BY <2>1 DEF option, Start, start
    <2>4. \E K, f : Ordered(pre', K, f) /\ Queued(queue', K, f) /\ queue'.size > 0
        BY <1>4, <2>2, SearchStartOrders
    <2>5. \E K, f : Ordered(pre, K, f)' /\ Queued(queue, K, f)' /\ queue'.size > 0
        BY <2>1, <2>4, OrderPrimed, Zenon
    <2> QED
        BY <2>1, <2>2, <2>3, <2>5, Zenon DEF Tracing, PathIsWalk
<1>5. CASE SearchStep
    <2>1. /\ pc = "search" /\ pc' \in {"search", "print"} /\ path' = path /\ command' = command /\ pos' = pos
          /\ map' = map
        BY <1>5 DEF SearchStep
    <2>2. path' = <<>> /\ pos = Start /\ option = "shortest"
        BY <2>1 DEF Tracing
    <2>3. option' = option /\ Start' = Start
        BY <2>1 DEF option, Start, start
    <2>4. PICK K, f : Ordered(pre', K, f) /\ Queued(queue', K, f) /\ \E e \in 1 .. K : node' = f[e]
        BY <1>5, SearchStepOrders
    <2>5. Traced(K, f, node', path')
        BY <2>2, <2>4, TraceStarts
    <2>6. Ordered(pre, K, f)' /\ Queued(queue, K, f)' /\ Traced(K, f, node, path)'
        BY <2>1, <2>4, <2>5, OrderPrimed, Zenon
    <2> QED
        BY <2>1, <2>2, <2>3, <2>4, <2>6, Zenon DEF Tracing, PathIsWalk
<1>6. CASE SearchEmpty
    <2>1. /\ pc = "search" /\ queue.size = 0 /\ pc' = "print" /\ path' = path /\ command' = command
          /\ pos' = pos /\ map' = map /\ pre' = pre /\ node' = node
        BY <1>6 DEF SearchEmpty, search
    <2>2. path' = <<>> /\ pos = Start /\ option = "shortest"
        BY <2>1 DEF Tracing
    <2>3. option' = option /\ Start' = Start
        BY <2>1 DEF option, Start, start
    <2>4. PICK K, f : Ordered(pre, K, f) /\ \E e \in 1 .. K : node = f[e]
        BY <2>1 DEF Tracing
    <2>5. Ordered(pre', K, f) /\ Traced(K, f, node', path')
        BY <2>1, <2>2, <2>4, TraceStarts
    <2>6. Ordered(pre, K, f)' /\ Traced(K, f, node, path)'
        BY <2>1, <2>5, OrderPrimed, Zenon
    <2> QED
        BY <2>1, <2>2, <2>3, <2>6, Zenon DEF Tracing, PathIsWalk
<1>7. CASE PrintNode
    <2>1. /\ pc = "print" /\ path' = <<node>> \o path /\ command' = command
          /\ pos' = pos /\ map' = map /\ pre' = pre
          /\ \/ node = pos /\ pc' = "done"
             \/ node # pos /\ pc' = "print" /\ node' = pre[Index(map, node)]
        BY <1>7 DEF PrintNode
    <2>2. GoodMap(map) /\ pos = Start /\ option = "shortest"
        BY <2>1 DEF Tracing, Phases
    <2>3. option' = option /\ Start' = Start
        BY <2>1 DEF option, Start, start
    <2>4. PICK K, f : Ordered(pre, K, f) /\ Traced(K, f, node, path)
        BY <2>1 DEF Tracing
    <2>5. /\ node # pos => Traced(K, f, pre[Index(map, node)], path')
          /\ Len(path') <= Size(map) /\ path'[1] = node
          /\ \A a, b \in 1 .. Len(path') : path'[a] = path'[b] => a = b
          /\ \A i \in 1 .. Len(path') - 1 : Leads(path'[i], path'[i + 1])
        <3>1. /\ node # pos => Traced(K, f, pre[Index(map, node)], path')
              /\ path'[1] = node /\ Printed(path')
            <4>1. PICK u : u = <<node>> \o path
                OBVIOUS
            <4>2. u = path'
                BY <2>1, <4>1
            <4>3. node # pos => Traced(K, f, pre[Index(map, node)], u)
                BY <2>2, <2>4, <4>1, TraceMore
            <4>4. u[1] = node
                BY <2>2, <2>4, <4>1, TraceMore
            <4>5. Printed(u)
                BY <2>2, <2>4, <4>1, TraceMore
            <4> QED
                BY <4>2, <4>3, <4>4, <4>5, Zenon
        <3> QED
            BY <3>1, Zenon DEF Printed
    <2>6. CASE node = pos /\ pc' = "done"
        <3>1. PathIsWalk'
            BY <2>1, <2>2, <2>3, <2>5, <2>6, Zenon DEF PathIsWalk, Leads, Size
        <3> QED
            BY <2>6, <3>1 DEF Tracing
    <2>7. CASE node # pos /\ pc' = "print" /\ node' = pre[Index(map, node)]
        <3>1. Ordered(pre', K, f) /\ Traced(K, f, node', path')
            BY <2>1, <2>4, <2>5, <2>7, Zenon
        <3>2. Ordered(pre, K, f)' /\ Traced(K, f, node, path)'
            BY <2>1, <3>1, OrderPrimed, Zenon
        <3> QED
            BY <2>1, <2>2, <2>3, <2>7, <3>2, Zenon DEF Tracing, PathIsWalk
    <2> QED
        BY <2>1, <2>6, <2>7
<1>8. CASE UNCHANGED vars
    <2>1. /\ map' = map /\ pos' = pos /\ pc' = pc /\ path' = path /\ command' = command
          /\ queue' = queue /\ pre' = pre /\ node' = node
        BY <1>8, Zenon DEF vars
    <2>2. option' = option /\ Start' = Start
        BY <2>1, Zenon DEF option, Start, start
    <2>3. PathIsWalk'
        BY <2>1, <2>2, Zenon DEF PathIsWalk, Size
    <2>4. ASSUME NEW K, NEW f
          PROVE  /\ Ordered(pre, K, f) => Ordered(pre, K, f)'
                 /\ Queued(queue, K, f) => Queued(queue, K, f)'
                 /\ Traced(K, f, node, path) => Traced(K, f, node, path)'
        BY <2>1, OrderPrimed, Zenon
    <2>5. pc = "search" => \E K, f : /\ Ordered(pre, K, f)' /\ Queued(queue, K, f)'
                                     /\ queue'.size > 0 \/ \E e \in 1 .. K : node' = f[e]
        BY <2>1, <2>4, Zenon DEF Tracing
    <2>6. pc = "print" => \E K, f : Ordered(pre, K, f)' /\ Traced(K, f, node, path)'
        BY <2>1, <2>4, Zenon DEF Tracing
    <2>7. /\ pc \in {"load", "test", "solve", "search"} => path = <<>>
          /\ pc \in {"solve", "search", "print"} /\ option = "shortest" => pos = Start
          /\ pc \in {"search", "print"} => option = "shortest"
        BY Zenon DEF Tracing
    <2> QED
        BY <2>1, <2>2, <2>3, <2>5, <2>6, <2>7, Zenon DEF Tracing
<1> QED
    BY <1>1, <1>2, <1>3, <1>4, <1>5, <1>6, <1>7, <1>8 DEF Next

-----------------------------------------------------------------------------
(* The theorems *)

MapOk == (map = NoMap \/ GoodMap(map)) /\ verdict \in {"none", "Valid", "Invalid"}

LEMMA MapKept ==
    ASSUME Phases, MapOk, [Next]_vars
    PROVE  MapOk'
<1>1. CASE Load
    <2>1. GoodMap(map)'
        BY <1>1, LoadedIsGood, Zenon DEF Phases, Load
    <2>2. verdict' \in {verdict, "none", "Invalid"}
        BY <1>1 DEF Load
    <2> QED
        BY <2>1, <2>2 DEF MapOk
<1>2. CASE ~Load
    <2>1. map' = map /\ verdict' \in {verdict, "Valid", "Invalid"}
        BY <1>2 DEF Next, vars, Refuse, LoadTrap, Test, LeaveMap, NoBits, DeadEnd, NoDirection, Walk,
                    SearchStart, SearchStep, SearchTrap, SearchEmpty, PrintNode
    <2>2. GoodMap(map)' <=> GoodMap(map)
        BY <2>1, Zenon DEF GoodMap, Size
    <2> QED
        BY <2>1, <2>2 DEF MapOk
<1> QED
    BY <1>1, <1>2

(* QueueNeverFull, CameThroughOpening and PathIsWalk are not inductive: the    *)
(* first needs the ring of Enqueue and Dequeue and what a mark is (Searching), *)
(* the second the positions and sides of the walk (Walking), the third the     *)
(* order in which the nodes were marked (Tracing), and all three which phase   *)
(* the run is in and that a map was loaded (Phases).                           *)
IInv == /\ Phases /\ MapOk /\ Walking /\ Searching /\ Tracing
        /\ TestIsExact /\ CameThroughOpening /\ PathIsWalk

(* The inductive invariant of main and Map_solve holds in every state. *)
THEOREM Invariance == Spec => []IInv
<1>1. Init => IInv
    <2> SUFFICES ASSUME Init PROVE IInv
        OBVIOUS
    <2>1. Phases /\ MapOk
        BY DEF Init, Phases, MapOk
    <2>2. pos \in Positions /\ from = "none" /\ pc = "load"
        BY DEF Init, Positions, None
    <2> QED
        <3>1. path = <<>>
            BY DEF Init
        <3>2. Tracing /\ PathIsWalk
            BY <2>2, <3>1 DEF Tracing, PathIsWalk
        <3> QED
            BY <2>1, <2>2, <3>2 DEF IInv, Walking, Searching, TestIsExact, CameThroughOpening
<1>2. IInv /\ [Next]_vars => IInv'
    BY PhasesKept, MapKept, WalkKept, SearchKept, TestKept, TraceKept, Zenon DEF IInv
<1> QED
    BY <1>1, <1>2, PTL DEF Spec

(* --test prints "Valid" exactly for the maps on whose walls every two cells   *)
(* agree, whatever file is loaded (Map_valid_maze).                            *)
THEOREM TestTheorem == Spec => []TestIsExact
<1>1. IInv => TestIsExact
    BY DEF IInv
<1> QED
    BY <1>1, Invariance, PTL

(* In a consistent maze of any size, a walk that begins at an opening never    *)
(* goes through a wall (the switch of Map_solve).                              *)
THEOREM OpeningTheorem == Spec => []CameThroughOpening
<1>1. IInv => CameThroughOpening
    BY DEF IInv
<1> QED
    BY <1>1, Invariance, PTL

(* The left hand and the right hand of Map_solve undo each other's steps.      *)
THEOREM ReversibleTheorem == Spec => Reversible
<1> DEFINE Undone == pos # None /\ pos' # pos /\ Genuine =>
                         Turn(map, pos, OtherHand(option), Opposite(from')) = from
<1>1. IInv /\ [Next]_vars => [Undone]_vars
    <2> SUFFICES ASSUME IInv, [Next]_vars, pos # None, pos' # pos, Genuine
                 PROVE  Turn(map, pos, OtherHand(option), Opposite(from')) = from
        OBVIOUS
    <2>1. Phases /\ Walking /\ CameThroughOpening
        BY DEF IInv
    <2>2. Walk
        <3>1. pc # "load"
            BY <2>1 DEF Phases
        <3>2. CASE Load
            BY <3>1, <3>2 DEF Load
        <3> QED
            BY <3>2 DEF Next, vars, Refuse, LoadTrap, Test, LeaveMap, NoBits, DeadEnd, NoDirection,
                        SearchStart, SearchStep, SearchTrap, SearchEmpty, PrintNode
    <2> DEFINE side == Turn(map, pos, option, from)
    <2>3. /\ from \in Sides /\ Open(map, pos, from) /\ option \in {"lpath", "rpath"}
          /\ side \in Sides /\ from' = Opposite(side)
        BY <2>1, <2>2, WalkStep, Zenon
    <2>4. Opposite(from') = side
        BY <2>3, OppositeTwice, Zenon
    <2> QED
        <3>1. Turn(map, pos, OtherHand(option), side) = from
            BY <2>3, TurnBack, Zenon
        <3> HIDE DEF side
        <3> QED
            BY <2>4, <3>1, Zenon
<1> QED
    BY <1>1, Invariance, PTL DEF Spec, Reversible

(* The queue of --shortest holds no more nodes than are marked, for a map of   *)
(* any size: enqueue never meets a full queue with a node still unmarked.      *)
THEOREM QueueTheorem == Spec => []QueueNeverFull
<1>1. IInv => QueueNeverFull
    <2> SUFFICES ASSUME IInv PROVE QueueNeverFull
        OBVIOUS
    <2>1. Phases /\ MapOk /\ Walking /\ Searching
        BY DEF IInv
    <2>2. DOMAIN map.cells = 0 .. Size(map) - 1 \/ map = NoMap
        BY <2>1, Zenon DEF MapOk, GoodMap
    <2>3. TypeOK
        BY <2>1, <2>2, Zenon DEF TypeOK, Phases, MapOk, Walking, Searching, RingOk
    <2> QED
        BY <2>1, <2>3, Zenon DEF QueueNeverFull, Searching, Marked
<1> QED
    BY <1>1, Invariance, PTL

(* What --shortest prints, in a maze of any size, fits print_arr, begins at    *)
(* the start, visits nothing twice and goes from cell to cell through open     *)
(* sides: following pre_nodes back always leads to a node marked earlier,      *)
(* although nodes outside the map share entries with cells (Map_solve).        *)
THEOREM PathTheorem == Spec => []PathIsWalk
<1>1. IInv => PathIsWalk
    BY DEF IInv
<1> QED
    BY <1>1, Invariance, PTL

-----------------------------------------------------------------------------
(* The search ends *)

(* Twice the nodes left to mark, and the nodes left to look at. *)
Weight(q, marks) == 2 * (Size(map) - Cardinality(Marked(marks))) + q.size
Left == Weight(queue, pre)

(* It is a number of steps. *)
LEMMA WeightIsNat ==
    ASSUME NEW q, NEW marks, GoodMap(map), RingOk(q)
    PROVE  Weight(q, marks) \in Nat
<1>1. Size(map) \in Nat
    BY SizeIsPositive
<1>2. q.size \in Nat
    BY <1>1 DEF RingOk
<1>3. Cardinality(Marked(marks)) \in Nat /\ Cardinality(Marked(marks)) <= Size(map)
    BY MarkedIsFinite, FewMarks
<1> QED
    BY <1>1, <1>2, <1>3 DEF Weight

(* A node that is enqueued takes an entry of pre_nodes, which weighs more. *)
LEMMA DiscoverPays ==
    ASSUME NEW s, GoodMap(map), SearchOk(s), NEW n, n[1] # -1, NEW side
    PROVE  Weight(Discover(s, n, side).queue, Discover(s, n, side).pre) <= Weight(s.queue, s.pre)
<1> DEFINE i == Index(map, Neighbour(n, side))
           q == Enqueue(s.queue, Neighbour(n, side))
           f == [s.pre EXCEPT ![i] = n]
<1>1. RingOk(s.queue) /\ MarksOk(s.pre)
    BY Zenon DEF SearchOk
<1>2. Weight(s.queue, s.pre) \in Nat
    BY <1>1, WeightIsNat, Zenon
<1>3. CASE Open(map, n, side) /\ i \in Indices /\ s.pre[i][1] = -1
    <2>1. Discover(s, n, side) = [queue |-> q, pre |-> f]
        BY <1>3, Zenon DEF Discover
    <2>2. RingOk(q) /\ q.size <= s.queue.size + 1
        BY <1>1, EnqueueKeeps, Zenon
    <2>3. Cardinality(Marked(f)) = Cardinality(Marked(s.pre)) + 1
        BY <1>1, <1>3, MarkOne, Zenon
    <2>4. /\ Cardinality(Marked(s.pre)) \in Nat /\ s.queue.size \in Int /\ q.size \in Int
          /\ Size(map) \in Nat
        BY <1>1, <2>2, MarkedIsFinite, SizeIsPositive DEF RingOk
    <2> HIDE DEF q, f, i
    <2>5. Weight(q, f) <= Weight(s.queue, s.pre)
        BY <2>2, <2>3, <2>4 DEF Weight
    <2>6. [queue |-> q, pre |-> f].queue = q /\ [queue |-> q, pre |-> f].pre = f
        OBVIOUS
    <2> QED
        BY <2>1, <2>5, <2>6, Zenon
<1>4. CASE ~(Open(map, n, side) /\ i \in Indices /\ s.pre[i][1] = -1)
    <2>1. Discover(s, n, side) = s
        BY <1>4, Zenon DEF Discover
    <2>2. Weight(s.queue, s.pre) <= Weight(s.queue, s.pre)
        BY <1>2
    <2> QED
        BY <2>1, <2>2, Zenon
<1> QED
    BY <1>3, <1>4

(* All four sides together weigh no more than before. *)
LEMMA DiscoveredPays ==
    ASSUME NEW q, GoodMap(map), SearchOk([queue |-> q, pre |-> pre]), NEW n, n[1] # -1
    PROVE  Weight(Discovered(q, n).queue, Discovered(q, n).pre) <= Weight(q, pre)
<1> DEFINE W(s) == Weight(s.queue, s.pre)
           none == [queue |-> q, pre |-> pre]
           top == Discover(none, n, "TOP")
           right == Discover(top, n, "RIGHT")
           bottom == Discover(right, n, "BOTTOM")
           left == Discover(bottom, n, "LEFT")
<1>1. none.queue = q /\ none.pre = pre
    OBVIOUS
<1>2. Discovered(q, n) = left
    BY Zenon DEF Discovered
<1>3. SearchOk(none) /\ SearchOk(top) /\ SearchOk(right) /\ SearchOk(bottom) /\ SearchOk(left)
    BY DiscoverKeeps, Zenon
<1>4. W(top) <= W(none)
    BY <1>3, DiscoverPays, Zenon
<1>5. W(right) <= W(top)
    BY <1>3, DiscoverPays, Zenon
<1>6. W(bottom) <= W(right)
    BY <1>3, DiscoverPays, Zenon
<1>7. W(left) <= W(bottom)
    BY <1>3, DiscoverPays, Zenon
<1>8. W(none) \in Nat /\ W(top) \in Nat /\ W(right) \in Nat /\ W(bottom) \in Nat /\ W(left) \in Nat
    BY <1>3, WeightIsNat, Zenon DEF SearchOk
<1> HIDE DEF W, none, top, right, bottom, left
<1>9. W(left) <= W(none)
    BY <1>4, <1>5, <1>6, <1>7, <1>8
<1> QED
    BY <1>1, <1>2, <1>9, Zenon DEF W

(* The map and the marks are what the weight reads. *)
LEMMA WeightPrimed ==
    ASSUME map' = map
    PROVE  Left' = Weight(queue', pre')
BY Zenon DEF Left, Weight, Marked, Indices, Size

(* Every node but the start is to be marked, and the start to be looked at. *)
LEMMA SearchStartWeighs ==
    ASSUME Phases, Walking, SearchStart
    PROVE  Left' = 2 * Size(map) - 1
<1>1. map' = map /\ Inside(map, pos) /\ pc = "solve" /\ queue' = Enqueue(q_ctor, pos)
    BY Zenon DEF SearchStart, Enters
<1>2. GoodMap(map) /\ pos \in Positions
    BY <1>1 DEF Phases, Walking
<1>3. Size(map) \in Nat \ {0}
    BY <1>2, SizeIsPositive
<1>4. q_ctor.size = 0 /\ DOMAIN q_ctor = {"nodes", "size", "front", "rear"}
    BY DEF q_ctor
<1>5. q_ctor.size # Size(map)
    BY <1>3, <1>4
<1>6. queue'.size = 1
    BY <1>1, <1>4, <1>5 DEF Enqueue
<1>7. Cardinality(Marked(pre')) = 1
    <2> DEFINE e == [i \in Indices |-> None]
    <2>1. pre' = [e EXCEPT ![Index(map, pos)] = pos]
        BY Zenon DEF SearchStart
    <2>2. Index(map, pos) \in Indices
        BY <1>1, <1>2, IndexOfCell DEF Indices
    <2>3. pos[1] # -1
        <3>1. pos[1] \in 0 .. map.rows - 1 /\ map.rows \in Nat
            BY <1>1, <1>2 DEF GoodMap, Inside
        <3> QED
            BY <3>1
    <2>4. MarksOk(e) /\ e[Index(map, pos)][1] = -1 /\ Marked(e) = {}
        BY <2>2 DEF MarksOk, Marked, None
    <2>5. Cardinality(Marked(pre')) = Cardinality(Marked(e)) + 1
        BY <1>2, <2>1, <2>2, <2>3, <2>4, MarkOne, Zenon
    <2> QED
        BY <2>4, <2>5, FS_EmptySet
<1>8. Weight(queue', pre') = 2 * Size(map) - 1
    BY <1>3, <1>6, <1>7 DEF Weight
<1> QED
    BY <1>1, <1>8, WeightPrimed, Zenon

(* The node looked at is no longer left to look at. *)
LEMMA SearchStepWeighs ==
    ASSUME Phases, Searching, SearchStep
    PROVE  Left' < Left
<1> DEFINE n == queue.nodes[queue.front]
           q == Dequeue(queue)
<1>1. /\ map' = map /\ pc = "search" /\ queue.size > 0
      /\ \/ queue' = q /\ pre' = pre
         \/ /\ Inside(map, n)
            /\ queue' = Discovered(q, n).queue /\ pre' = Discovered(q, n).pre
    <2>1. CASE ~Inside(map, n)
        BY <2>1 DEF SearchStep
    <2>2. CASE Inside(map, n) /\ IsExit(map, n, pos)
        BY <2>2 DEF SearchStep
    <2>3. CASE Inside(map, n) /\ ~IsExit(map, n, pos)
        BY <2>3, Zenon DEF SearchStep
    <2> QED
        BY <2>1, <2>2, <2>3
<1>2. GoodMap(map)
    BY <1>1, Zenon DEF Phases
<1>3. RingOk(queue) /\ MarksOk(pre) /\ queue.size <= Cardinality(Marked(pre))
    BY <1>1, Zenon DEF Searching
<1>4. RingOk(q) /\ q.size = queue.size - 1
    BY <1>1, <1>2, <1>3, DequeueKeeps, Zenon
<1>5. Cardinality(Marked(pre)) \in Nat /\ queue.size \in Int /\ Size(map) \in Nat
    BY <1>2, <1>3, MarkedIsFinite, SizeIsPositive DEF RingOk
<1> HIDE DEF q, n
<1>6. Weight(q, pre) < Weight(queue, pre) /\ q.size <= Cardinality(Marked(pre))
    BY <1>3, <1>4, <1>5 DEF Weight
<1>7. Weight(q, pre) \in Nat /\ Weight(queue, pre) \in Nat
    BY <1>2, <1>3, <1>4, WeightIsNat
<1>8. Weight(queue', pre') < Weight(queue, pre)
    <2>1. CASE queue' = q /\ pre' = pre
        BY <1>6, <2>1, Zenon
    <2>2. CASE Inside(map, n) /\ queue' = Discovered(q, n).queue /\ pre' = Discovered(q, n).pre
        <3>1. n[1] # -1
            <4>1. n[1] \in 0 .. map.rows - 1 /\ map.rows \in Nat
                BY <1>2, <2>2, Zenon DEF Inside, GoodMap
            <4> QED
                BY <4>1
        <3>2. [queue |-> q, pre |-> pre].queue = q /\ [queue |-> q, pre |-> pre].pre = pre
            OBVIOUS
        <3>3. SearchOk([queue |-> q, pre |-> pre])
            BY <1>3, <1>4, <1>6, <3>2, Zenon DEF SearchOk
        <3>4. Weight(queue', pre') <= Weight(q, pre)
            BY <1>2, <2>2, <3>1, <3>3, DiscoveredPays, Zenon
        <3>5. Weight(queue', pre') \in Nat
            <4>1. RingOk(queue')
                BY <1>2, <2>2, <3>1, <3>3, DiscoveredKeeps, Zenon DEF SearchOk
            <4> QED
                BY <1>2, <4>1, WeightIsNat, Zenon
        <3> QED
            BY <1>6, <1>7, <3>4, <3>5
    <2> QED
        BY <1>1, <2>1, <2>2
<1> QED
    BY <1>1, <1>8, WeightPrimed, Zenon DEF Left

(* print_arr has room for the node. *)
LEMMA PrintNodeFits ==
    ASSUME Phases, Tracing, PrintNode
    PROVE  Len(path') = Len(path) + 1 /\ Len(path') <= Size(map)
<1>1. pc = "print" /\ path' = <<node>> \o path
    BY DEF PrintNode
<1>2. GoodMap(map)
    BY <1>1 DEF Phases
<1>3. PICK K, f : Ordered(pre, K, f) /\ Traced(K, f, node, path)
    BY <1>1 DEF Tracing
<1>4. path \in Seq(Positions) /\ node \in Positions
    BY <1>3 DEF Traced, Ordered
<1>5. PICK u : u = <<node>> \o path
    OBVIOUS
<1>6. Printed(u)
    BY <1>2, <1>3, <1>5, TraceMore
<1>7. Len(u) = Len(path) + 1
    BY <1>4, <1>5, PutInFront
<1> QED
    BY <1>1, <1>5, <1>6, <1>7 DEF Printed

(* What the search has left is a number that every step lessens, and every     *)
(* turn of the second loop puts one more node into print_arr.                  *)
SearchAdvances ==
    /\ [](pc = "search" => Left \in Nat)
    /\ [][/\ SearchStart => Left' = 2 * Size(map) - 1
          /\ SearchStep => Left' < Left
          /\ PrintNode => Len(path') = Len(path) + 1 /\ Len(path') <= Size(map)]_vars

(* The while loops of --shortest cannot go on for ever: in a maze of any size  *)
(* the first takes at most 2 * rows * cols - 1 turns and the second at most    *)
(* rows * cols, since a node is enqueued only with a free entry of pre_nodes   *)
(* (Map_solve).                                                                *)
THEOREM SearchAdvancesTheorem == Spec => SearchAdvances
<1> DEFINE A == /\ SearchStart => Left' = 2 * Size(map) - 1
                /\ SearchStep => Left' < Left
                /\ PrintNode => Len(path') = Len(path) + 1 /\ Len(path') <= Size(map)
           B == pc = "search" => Left \in Nat
<1>1. IInv => B
    BY WeightIsNat, Zenon DEF IInv, Phases, Searching, Left
<1>2. IInv /\ [Next]_vars => [A]_vars
    BY SearchStartWeighs, SearchStepWeighs, PrintNodeFits, Zenon DEF IInv
<1>3. Spec => []B /\ [][A]_vars
    BY <1>1, <1>2, Invariance, PTL DEF Spec
<1> QED
    BY <1>3 DEF SearchAdvances

-----------------------------------------------------------------------------
(* The walk ends *)

(* The side by which the walk leaves p. *)
Turned(p, side) == Turn(map, p, option, side)

(* The cells and sides of a walk of n - 1 steps that begins at the start and   *)
(* is at x, come by y: it was inside until now, and nowhere twice by one side. *)
Trail(n, p, d, x, y) ==
    /\ n \in Nat \ {0} /\ p \in [1 .. n -> Positions] /\ d \in [1 .. n -> Sides]
    /\ p[1] = Start /\ d[1] = start_border(map, start)
    /\ p[n] = x /\ d[n] = y
    /\ \A i \in 1 .. n - 1 : /\ Inside(map, p[i]) /\ Open(map, p[i], d[i])
                             /\ p[i + 1] = Neighbour(p[i], Turned(p[i], d[i]))
                             /\ d[i + 1] = Opposite(Turned(p[i], d[i]))
    /\ \A i, j \in 1 .. n : p[i] = p[j] /\ d[i] = d[j] => i = j

(* The walk is where n - 1 steps lead. *)
Walked(n) == \E p, d : Trail(n, p, d, pos, from)

(* start_border only names a side that leads out. *)
LEMMA BehindTheStart ==
    ASSUME NEW m, GoodMap(m), NEW s \in Int \X Int, start_border(m, s) # "none",
           NEW p, p = <<s[1] - 1, s[2] - 1>>
    PROVE  ~Inside(m, Neighbour(p, start_border(m, s)))
<1> DEFINE b == start_border(m, s)
<1>1. \/ b = "TOP" /\ s[1] = 1
      \/ b = "BOTTOM" /\ s[1] = m.rows
      \/ b = "LEFT" /\ s[2] = 1
      \/ b = "RIGHT" /\ s[2] = m.cols
    BY DEF start_border
<1> HIDE DEF b
<1>2. /\ s[1] \in Int /\ s[2] \in Int /\ m.rows \in Nat /\ m.cols \in Nat
      /\ p \in Positions /\ p[1] = s[1] - 1 /\ p[2] = s[2] - 1
    BY DEF GoodMap, Positions
<1>3. CASE b = "TOP" /\ s[1] = 1
    BY <1>2, <1>3, NeighbourIs DEF Inside, b
<1>4. CASE b = "BOTTOM" /\ s[1] = m.rows
    BY <1>2, <1>4, NeighbourIs DEF Inside, b
<1>5. CASE b = "LEFT" /\ s[2] = 1
    BY <1>2, <1>5, NeighbourIs DEF Inside, b
<1>6. CASE b = "RIGHT" /\ s[2] = m.cols
    BY <1>2, <1>6, NeighbourIs DEF Inside, b
<1> QED
    BY <1>1, <1>3, <1>4, <1>5, <1>6

(* Two walks by the same hand never meet: where one came from can be told by   *)
(* the other hand.                                                             *)
LEMMA StepsDiffer ==
    ASSUME option \in {"lpath", "rpath"}, NEW p \in Positions, NEW q \in Positions,
           NEW a \in Sides, NEW b \in Sides, Open(map, p, a), Open(map, q, b),
           Neighbour(p, Turned(p, a)) = Neighbour(q, Turned(q, b)),
           Opposite(Turned(p, a)) = Opposite(Turned(q, b))
    PROVE  p = q /\ a = b
<1> DEFINE t == Turned(p, a)  u == Turned(q, b)
<1>1. t \in Sides /\ u \in Sides
    BY TurnIsOpen, Zenon DEF Turned
<1>2. Turn(map, p, OtherHand(option), t) = a /\ Turn(map, q, OtherHand(option), u) = b
    BY TurnBack, Zenon DEF Turned
<1> HIDE DEF t, u
<1>3. t = u
    BY <1>1, OppositeTwice, Zenon DEF t, u
<1>4. p = q
    <2>1. Neighbour(Neighbour(p, t), Opposite(t)) = p /\ Neighbour(Neighbour(q, u), Opposite(u)) = q
        BY <1>1, NeighbourBack, Zenon
    <2>2. Neighbour(p, t) = Neighbour(q, u)
        BY Zenon DEF t, u
    <2> QED
        BY <1>3, <2>1, <2>2, Zenon
<1> QED
    BY <1>2, <1>3, <1>4, Zenon

(* One more step of a walk: it comes to no place a second time, since it can   *)
(* neither come there in another way nor enter at the start from inside.       *)
LEMMA TrailMore ==
    ASSUME Phases, Walking, CameThroughOpening, Genuine, Walk,
           NEW n, NEW p, NEW d, Trail(n, p, d, pos, from),
           NEW q, q = [i \in 1 .. n + 1 |-> IF i = n + 1 THEN pos' ELSE p[i]],
           NEW e, e = [i \in 1 .. n + 1 |-> IF i = n + 1 THEN from' ELSE d[i]]
    PROVE  Trail(n + 1, q, e, pos', from')
<1> DEFINE side == Turned(pos, from)
<1>1. /\ from \in Sides /\ Open(map, pos, from) /\ option \in {"lpath", "rpath"}
      /\ side \in Sides /\ pos' = Neighbour(pos, side) /\ from' = Opposite(side)
    BY WalkStep, Zenon DEF Turned
<1>2. Inside(map, pos) /\ pc = "solve" /\ pos \in Positions
    BY Zenon DEF Walk, Enters, Walking
<1>3. GoodMap(map) /\ command \in Commands
    BY <1>2, Zenon DEF Phases
<1>4. pos' \in Positions /\ from' \in Sides /\ Neighbour(pos', from') = pos
    BY <1>1, <1>2, NeighbourBack, OppositeTwice, Zenon
<1>5. /\ n \in Nat \ {0} /\ p \in [1 .. n -> Positions] /\ d \in [1 .. n -> Sides]
      /\ p[1] = Start /\ d[1] = start_border(map, start)
      /\ p[n] = pos /\ d[n] = from
      /\ \A i \in 1 .. n - 1 : /\ Inside(map, p[i]) /\ Open(map, p[i], d[i])
                               /\ p[i + 1] = Neighbour(p[i], Turned(p[i], d[i]))
                               /\ d[i + 1] = Opposite(Turned(p[i], d[i]))
      /\ \A i, j \in 1 .. n : p[i] = p[j] /\ d[i] = d[j] => i = j
    BY Zenon DEF Trail
<1> HIDE DEF side
<1>6. \A i \in 1 .. n : q[i] = p[i] /\ e[i] = d[i] /\ i \in 1 .. n + 1
    BY <1>5
<1>7. q[n + 1] = pos' /\ e[n + 1] = from' /\ \A i \in 1 .. n + 1 : i = n + 1 \/ i \in 1 .. n
    BY <1>5
<1>8. /\ n + 1 \in Nat \ {0} /\ q \in [1 .. n + 1 -> Positions] /\ e \in [1 .. n + 1 -> Sides]
      /\ 1 \in 1 .. n /\ n \in 1 .. n /\ (n + 1) - 1 = n
    BY <1>4, <1>5
<1>9. \A i \in 1 .. n : /\ Inside(map, q[i]) /\ Open(map, q[i], e[i])
                        /\ q[i + 1] = Neighbour(q[i], Turned(q[i], e[i]))
                        /\ e[i + 1] = Opposite(Turned(q[i], e[i]))
    <2> SUFFICES ASSUME NEW i \in 1 .. n
                 PROVE  /\ Inside(map, q[i]) /\ Open(map, q[i], e[i])
                        /\ q[i + 1] = Neighbour(q[i], Turned(q[i], e[i]))
                        /\ e[i + 1] = Opposite(Turned(q[i], e[i]))
        BY Zenon
    <2>1. CASE i = n
        BY <1>1, <1>2, <1>5, <1>6, <1>7, <1>8, <2>1, Zenon DEF side
    <2>2. CASE i # n
        <3>1. i \in 1 .. n - 1 /\ i + 1 \in 1 .. n
            BY <1>5, <2>2
        <3> QED
            BY <1>5, <1>6, <3>1, Zenon
    <2> QED
        BY <2>1, <2>2
<1>10. ASSUME NEW i \in 1 .. n, p[i] = pos', d[i] = from'
       PROVE  FALSE
    <2>1. CASE i = 1
        <3>1. /\ start \in Int \X Int /\ Start = <<start[1] - 1, start[2] - 1>>
              /\ start_border(map, start) # "none"
            BY <1>3, CommandsAssumption, Zenon DEF start, Start, Genuine
        <3>2. ~Inside(map, Neighbour(Start, start_border(map, start)))
            BY <1>3, <3>1, BehindTheStart, Zenon
        <3> QED
            BY <1>2, <1>4, <1>5, <1>10, <2>1, <3>2, Zenon
    <2>2. CASE i # 1
        <3>1. i - 1 \in 1 .. n - 1 /\ (i - 1) + 1 = i /\ i - 1 \in 1 .. n /\ i - 1 # n
            BY <1>5, <2>2
        <3> DEFINE k == i - 1
        <3> HIDE DEF k
        <3>2. k \in 1 .. n - 1 /\ k + 1 = i /\ k \in 1 .. n /\ k # n
            BY <3>1 DEF k
        <3>3. /\ Open(map, p[k], d[k]) /\ p[k] \in Positions /\ d[k] \in Sides
              /\ pos' = Neighbour(p[k], Turned(p[k], d[k]))
              /\ from' = Opposite(Turned(p[k], d[k]))
            BY <1>5, <1>10, <3>2
        <3>4. p[k] = pos /\ d[k] = from
            BY <1>1, <1>2, <3>3, StepsDiffer, Zenon DEF side
        <3> QED
            BY <1>5, <1>8, <3>2, <3>4, Zenon
    <2> QED
        BY <2>1, <2>2
<1>11. \A i, j \in 1 .. n + 1 : q[i] = q[j] /\ e[i] = e[j] => i = j
    BY <1>5, <1>6, <1>7, <1>10, Zenon
<1>12. q[1] = Start /\ e[1] = start_border(map, start)
    BY <1>5, <1>6, <1>8, Zenon
<1> QED
    BY <1>7, <1>8, <1>9, <1>11, <1>12, Zenon DEF Trail

(* There are no more cells and sides than these. *)
LEMMA TrailIsShort ==
    ASSUME GoodMap(map), NEW n, NEW p, NEW d, NEW x, NEW y, Trail(n, p, d, x, y)
    PROVE  n - 1 <= 4 * Size(map)
<1>1. /\ n \in Nat \ {0} /\ p \in [1 .. n -> Positions] /\ d \in [1 .. n -> Sides]
      /\ \A i \in 1 .. n - 1 : Inside(map, p[i])
      /\ \A i, j \in 1 .. n : p[i] = p[j] /\ d[i] = d[j] => i = j
    BY Zenon DEF Trail
<1>2. IsFiniteSet(Cells(map)) /\ Cardinality(Cells(map)) = Size(map)
    <2> DEFINE R == 0 .. map.rows - 1  C == 0 .. map.cols - 1
    <2>1. map.rows \in Nat \ {0} /\ map.cols \in Nat \ {0}
        BY DEF GoodMap
    <2>2. IsFiniteSet(R) /\ Cardinality(R) = map.rows
        <3>1. 0 \in Int /\ map.rows - 1 \in Int /\ 0 <= map.rows - 1 /\ (map.rows - 1) - 0 + 1 = map.rows
            BY <2>1
        <3>2. IsFiniteSet(R) /\ Cardinality(R) = (map.rows - 1) - 0 + 1
            BY <3>1, FS_Interval
        <3> QED
            BY <3>1, <3>2
    <2>3. IsFiniteSet(C) /\ Cardinality(C) = map.cols
        <3>1. 0 \in Int /\ map.cols - 1 \in Int /\ 0 <= map.cols - 1 /\ (map.cols - 1) - 0 + 1 = map.cols
            BY <2>1
        <3>2. IsFiniteSet(C) /\ Cardinality(C) = (map.cols - 1) - 0 + 1
            BY <3>1, FS_Interval
        <3> QED
            BY <3>1, <3>2
    <2> HIDE DEF R, C
    <2>4. IsFiniteSet(R \X C) /\ Cardinality(R \X C) = map.rows * map.cols
        BY <2>2, <2>3, FS_Product
    <2> QED
        BY <2>4, Zenon DEF R, C, Cells, Size
<1>3. IsFiniteSet(Sides) /\ Cardinality(Sides) = 4
    <2>1. IsFiniteSet({}) /\ Cardinality({}) = 0
        BY FS_EmptySet
    <2>2. IsFiniteSet({} \cup {"TOP"}) /\ Cardinality({} \cup {"TOP"}) = 0 + 1
        BY <2>1, FS_AddElement
    <2> DEFINE a == {} \cup {"TOP"}
               b == a \cup {"RIGHT"}
               c == b \cup {"BOTTOM"}
               z == c \cup {"LEFT"}
    <2>3. "RIGHT" \notin a /\ "BOTTOM" \notin b /\ "LEFT" \notin c /\ z = Sides
        BY DEF Sides
    <2>4. IsFiniteSet(a) /\ Cardinality(a) = 1
        BY <2>2
    <2> HIDE DEF a
    <2>5. IsFiniteSet(b) /\ Cardinality(b) = 2
        <3>1. IsFiniteSet(b) /\ Cardinality(b) = 1 + 1
            BY <2>3, <2>4, FS_AddElement
        <3> QED
            BY <3>1
    <2> HIDE DEF b
    <2>6. IsFiniteSet(c) /\ Cardinality(c) = 3
        <3>1. IsFiniteSet(c) /\ Cardinality(c) = 2 + 1
            BY <2>3, <2>5, FS_AddElement
        <3> QED
            BY <3>1
    <2> HIDE DEF c
    <2>7. IsFiniteSet(z) /\ Cardinality(z) = 4
        <3>1. IsFiniteSet(z) /\ Cardinality(z) = 3 + 1
            BY <2>3, <2>6, FS_AddElement
        <3> QED
            BY <3>1
    <2> QED
        BY <2>3, <2>7, Zenon
<1> DEFINE S == 1 .. n - 1
           T == Cells(map) \X Sides
           f == [i \in S |-> <<p[i], d[i]>>]
<1>4. IsFiniteSet(S) /\ Cardinality(S) = n - 1
    <2>1. CASE n = 1
        <3>1. S = {}
            BY <2>1
        <3> QED
            BY <2>1, <3>1, FS_EmptySet
    <2>2. CASE n # 1
        <3>1. 1 \in Int /\ n - 1 \in Int /\ 1 <= n - 1 /\ (n - 1) - 1 + 1 = n - 1
            BY <1>1, <2>2
        <3>2. IsFiniteSet(S) /\ Cardinality(S) = (n - 1) - 1 + 1
            BY <3>1, FS_Interval
        <3> QED
            BY <3>1, <3>2
    <2> QED
        BY <2>1, <2>2
<1>5. IsFiniteSet(T) /\ Cardinality(T) = Size(map) * 4
    BY <1>2, <1>3, FS_Product
<1>6. \A i \in S : i \in 1 .. n
    BY <1>1
<1>7. \A i \in S : p[i] \in Cells(map) /\ d[i] \in Sides
    BY <1>1, <1>6 DEF Cells, Inside, Positions
<1> HIDE DEF S
<1>8. f \in [S -> T]
    BY <1>7
<1>9. \A i, j \in S : f[i] = f[j] => i = j
    <2> SUFFICES ASSUME NEW i \in S, NEW j \in S, f[i] = f[j]
                 PROVE  i = j
        BY Zenon
    <2>1. p[i] = p[j] /\ d[i] = d[j]
        BY SMT
    <2> QED
        BY <1>1, <1>6, <2>1, Zenon
<1> HIDE DEF f, T
<1>10. ~(Cardinality(T) < Cardinality(S))
    <2> SUFFICES ASSUME Cardinality(T) < Cardinality(S)
                 PROVE  FALSE
        OBVIOUS
    <2>1. IsFiniteSet(S) /\ IsFiniteSet(T)
        BY <1>4, <1>5
    <2>2. \E i, j \in S : i # j /\ f[i] = f[j]
        BY <1>8, <2>1, FS_PigeonHole
    <2> QED
        BY <1>9, <2>2
<1>11. Size(map) \in Nat
    BY SizeIsPositive
<1> QED
    BY <1>1, <1>4, <1>5, <1>10, <1>11

(* A cell whose walls are all there has no open side. *)
LEMMA SevenIsClosed ==
    ASSUME NEW m, NEW p, m.cells[Index(m, p)] = 7, NEW side \in Sides
    PROVE  ~Open(m, p, side)
<1>1. Bit(7, "TOP_WALL") = (7 \div 4) % 2 /\ Bit(7, "RIGHT_WALL") = (7 \div 2) % 2
      /\ Bit(7, "LEFT_WALL") = (7 \div 1) % 2
    BY Zenon DEF Bit
<1>2. (7 \div 4) % 2 = 1 /\ (7 \div 2) % 2 = 1 /\ (7 \div 1) % 2 = 1 /\ 7 \in 0 .. 7
    OBVIOUS
<1>3. isborder(m, p, "TOP_WALL") /\ isborder(m, p, "RIGHT_WALL") /\ isborder(m, p, "LEFT_WALL")
    BY <1>1, <1>2, Zenon DEF isborder, HasBits
<1> QED
    BY <1>3, OpenIs, Zenon DEF Sides

(* A walk that begins at an opening takes a step or leaves. *)
LEMMA WalkGoesOn ==
    ASSUME Phases, Walking, CameThroughOpening, Genuine, pc = "solve", Next
    PROVE  Walk \/ LeaveMap
<1>1. GoodMap(map) /\ option \in {"lpath", "rpath"} /\ from # "none" /\ from \in Sides
    BY DEF Phases, Walking, Genuine
<1>2. ~NoBits
    <2> SUFFICES ASSUME NoBits PROVE FALSE
        OBVIOUS
    <2>1. Inside(map, pos) /\ ~HasBits(map.cells[Index(map, pos)])
        BY Zenon DEF NoBits, CellAt
    <2>2. Index(map, pos) \in DOMAIN map.cells
        BY <1>1, <2>1, IndexOfCell, Zenon DEF GoodMap
    <2> QED
        BY <2>1, <2>2, Zenon DEF Genuine
<1>3. ~DeadEnd
    <2> SUFFICES ASSUME DeadEnd PROVE FALSE
        OBVIOUS
    <2>1. Inside(map, pos) /\ map.cells[Index(map, pos)] = 7
        BY Zenon DEF DeadEnd, CellAt
    <2>2. Open(map, pos, from)
        BY <2>1, Zenon DEF CameThroughOpening
    <2> QED
        BY <1>1, <2>1, <2>2, SevenIsClosed, Zenon
<1> QED
    BY <1>1, <1>2, <1>3 DEF Next, Refuse, LoadTrap, Load, Test, NoDirection, SearchStart, SearchStep,
                            SearchTrap, SearchEmpty, PrintNode

(* The walk only reads the map and the command. *)
LEMMA TrailPrimed ==
    ASSUME map' = map, command' = command, NEW n
    PROVE  Walked(n)' <=> \E p, d : Trail(n, p, d, pos', from')
<1>1. option' = option /\ start' = start /\ Start' = Start
    BY Zenon DEF option, start, Start
<1>2. \A p, side : Turned(p, side)' = Turned(p, side)
    BY <1>1, Zenon DEF Turned
<1> QED
    <2>1. ASSUME NEW p, NEW d
          PROVE  Trail(n, p, d, pos, from)' <=> Trail(n, p, d, pos', from')
        BY <1>1, <1>2 DEF Trail
    <2> QED
        BY <2>1, Zenon DEF Walked

(* A step of a walk makes it longer by one. *)
LEMMA WalkIsLonger ==
    ASSUME Phases, Walking, CameThroughOpening, Genuine, Walk, NEW n, Walked(n)
    PROVE  Walked(n + 1)'
<1>1. map' = map /\ command' = command
    BY Zenon DEF Walk
<1>2. PICK p, d : Trail(n, p, d, pos, from)
    BY Zenon DEF Walked
<1>3. PICK q : q = [i \in 1 .. n + 1 |-> IF i = n + 1 THEN pos' ELSE p[i]]
    OBVIOUS
<1>4. PICK e : e = [i \in 1 .. n + 1 |-> IF i = n + 1 THEN from' ELSE d[i]]
    OBVIOUS
<1>5. Trail(n + 1, q, e, pos', from')
    BY <1>2, <1>3, <1>4, TrailMore
<1>6. PICK k : k = n + 1
    OBVIOUS
<1>7. Walked(k)'
    BY <1>1, <1>5, <1>6, TrailPrimed, Zenon
<1> QED
    BY <1>6, <1>7, Zenon

(* The walk so far is one from the start. *)
OnTrail == pc = "solve" /\ Genuine => \E n : Walked(n)

LEMMA OnTrailKept ==
    ASSUME Phases, Walking, CameThroughOpening, OnTrail, [Next]_vars
    PROVE  OnTrail'
<1> SUFFICES ASSUME pc' = "solve", Genuine'
             PROVE  \E n : Walked(n)'
    BY Zenon DEF OnTrail
<1>1. CASE pc = "load"
    <2>1. Load
        BY <1>1 DEF Next, vars, Refuse, LoadTrap, Load, Test, LeaveMap, NoBits, DeadEnd, Walk, NoDirection,
                    SearchStart, SearchStep, SearchTrap, SearchEmpty, PrintNode, Enters
    <2>2. /\ pos' = Start /\ from' = start_border(map', start) /\ command' = command /\ command \in Commands
        <3>1. /\ pos' = Start /\ from' \in start_borders(map', start) /\ command' = command
              /\ command \in Commands
            BY <2>1, Zenon DEF Load, Start, Phases
        <3>2. GoodMap(map')
            BY <2>1, LoadedIsGood, Zenon DEF Phases, Load
        <3>3. Inside(map', Start)
            BY <3>1, Zenon DEF Genuine, start, Start
        <3> QED
            BY <3>1, <3>2, <3>3, BorderInside, Zenon DEF Start
    <2>3. start' = start /\ Start' = Start
        BY <2>2, Zenon DEF start, Start
    <2>4. pos' \in Positions /\ from' \in Sides
        <3>1. start_border(map', start) # "none"
            BY <2>3, Zenon DEF Genuine
        <3> QED
            BY <2>2, <3>1, StartIsPosition, BorderOfStart
    <2>5. PICK p : p = [i \in 1 .. 1 |-> pos']
        OBVIOUS
    <2>6. PICK d : d = [i \in 1 .. 1 |-> from']
        OBVIOUS
    <2>7. /\ p \in [1 .. 1 -> Positions] /\ d \in [1 .. 1 -> Sides] /\ p[1] = pos' /\ d[1] = from'
          /\ 1 \in Nat \ {0} /\ \A i, j \in 1 .. 1 : i = j
        BY <2>4, <2>5, <2>6
    <2>8. Trail(1, p, d, pos, from)'
        <3>1. \A i \in 1 .. 1 - 1 : FALSE
            OBVIOUS
        <3>2. p[1] = Start' /\ d[1] = start_border(map, start)'
            BY <2>2, <2>3, <2>7, Zenon
        <3> QED
            BY <2>7, <3>1, <3>2, Zenon DEF Trail
    <2> QED
        BY <2>8, Zenon DEF Walked
<1>2. CASE pc # "load"
    <2>1. pc = "solve" /\ map' = map /\ command' = command /\ (Walk \/ (pos' = pos /\ from' = from))
        BY <1>2 DEF Next, vars, Refuse, LoadTrap, Load, Test, LeaveMap, NoBits, DeadEnd, Walk, NoDirection,
                    SearchStart, SearchStep, SearchTrap, SearchEmpty, PrintNode, Enters
    <2>2. Genuine
        BY <2>1, GenuineStays, Zenon
    <2>3. PICK n : Walked(n)
        BY <2>1, <2>2, Zenon DEF OnTrail
    <2>4. CASE Walk
        BY <2>2, <2>3, <2>4, WalkIsLonger, Zenon
    <2>5. CASE pos' = pos /\ from' = from
        <3>1. \E p, d : Trail(n, p, d, pos', from')
            BY <2>3, <2>5, Zenon DEF Walked
        <3> QED
            BY <2>1, <3>1, TrailPrimed, Zenon
    <2> QED
        BY <2>1, <2>4, <2>5
<1> QED
    BY <1>1, <1>2

(* A walk that begins at an opening is never in the same place twice, so that  *)
(* it has taken at most as many steps as there are cells and sides; each of    *)
(* its steps is a new one, and it stops nowhere but outside.                   *)
WalkAdvances ==
    /\ [](pc = "solve" /\ Genuine =>
              /\ \E n : Walked(n)
              /\ \A n : Walked(n) => n - 1 <= 4 * Size(map))
    /\ [][pc = "solve" /\ Genuine =>
              LeaveMap \/ (Walk /\ \A n : Walked(n) => Walked(n + 1)')]_vars

(* The recursion of Map_solve by either hand ends outside a consistent maze of *)
(* any size, after at most 4 * rows * cols calls.                              *)
THEOREM WalkAdvancesTheorem == Spec => WalkAdvances
<1> DEFINE A == pc = "solve" /\ Genuine =>
                    LeaveMap \/ (Walk /\ \A n : Walked(n) => Walked(n + 1)')
           B == pc = "solve" /\ Genuine =>
                    /\ \E n : Walked(n)
                    /\ \A n : Walked(n) => n - 1 <= 4 * Size(map)
<1>1. Init => OnTrail
    BY DEF Init, OnTrail
<1>2. IInv /\ OnTrail /\ [Next]_vars => OnTrail'
    BY OnTrailKept, Zenon DEF IInv
<1>3. Spec => []OnTrail
    BY <1>1, <1>2, Invariance, PTL DEF Spec
<1>4. IInv /\ OnTrail => B
    <2> SUFFICES ASSUME IInv, OnTrail, pc = "solve", Genuine
                 PROVE  \A n : Walked(n) => n - 1 <= 4 * Size(map)
        BY Zenon DEF OnTrail
    <2>1. GoodMap(map)
        BY Zenon DEF IInv, Phases
    <2> QED
        BY <2>1, TrailIsShort, Zenon DEF Walked
<1>5. IInv /\ [Next]_vars => [A]_vars
    <2> SUFFICES ASSUME IInv, Next, pc = "solve", Genuine
                 PROVE  LeaveMap \/ (Walk /\ \A n : Walked(n) => Walked(n + 1)')
        BY Zenon
    <2>1. Phases /\ Walking /\ CameThroughOpening
        BY DEF IInv
    <2> QED
        BY <2>1, WalkGoesOn, WalkIsLonger, Zenon
<1>6. Spec => []B /\ [][A]_vars
    BY <1>3, <1>4, <1>5, Invariance, PTL DEF Spec
<1> QED
    BY <1>6 DEF WalkAdvances
=============================================================================
