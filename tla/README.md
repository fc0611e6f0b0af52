# Verification of the FIT-VUT programs

The repository is a collection of independent programs. For the ones that keep
state, react to other processes or follow an algorithm that is easy to get
wrong, this project holds a TLA+ model translated from the source, TLC runs that
explore small instances of it exhaustively, and TLAPS proofs of what holds for
every instance. `PROJECT.json` relates every definition to the lines it models.

## Inventory

### `ios/skibus` - a bus and N skiers (modelled)

- *State.* Five kinds of POSIX semaphores (`write_sync`, `mutex`, `all_aboard`,
  `let_skiers_leave`, one per stop), and counters in shared memory: the line
  number `A`, `waiting` per stop, `num_skiers_onboard`, `num_skiers_skiing`.
- *Operations.* `skibus_process` and `skier_process` (`actors.c`), forked by
  `main` (`proj2.c`). They interact only through the semaphores and counters.
  `create_semaphores`, `destroy_semaphores` and `signal_handler` decide which of
  the *named* semaphores exist, and these outlive the program.
- *Hard.* `waiting` is incremented under `mutex` and decremented without it;
  two other counters have no lock at all; the right to board or leave is a token
  handed from process to process; everyone may end up waiting on everyone. A
  name that exists makes `sem_open` fail unnoticed; main and all children unlink.
- *Correct if* at most one process holds the turn, skiers board at their stop
  and leave at the final one, the log is numbered in order, nobody is left
  behind and the bus finishes last; a run that ends leaves no name, and after
  one that was killed the program works again.

### `ipk/1` - the IPK24-CHAT client (TCP and UDP modelled)

- *State.* Protocol state (`START`, `AUTH`, `OPEN`, `END`), display name, and
  for UDP the message id, the table of received ids, `errno`.
- *Operations.* `main` waits with epoll and calls `fsm_tcp` or `fsm_udp` for one
  event at a time: a line typed, or a readable socket. `udp_send` blocks inside
  a handler, waits for a CONFIRM and retries.
- *Hard.* TCP segments that hold several messages; EOF and reset; datagrams
  lost, duplicated, reordered; a timeout racing a late CONFIRM; an event whose
  datagram another handler has consumed; the wrap of 16-bit ids.
- *Correct if* nobody talks before REPLY OK, a message is shown once, different
  requests have different ids, a client that leaves says BYE, every handler
  ends, an answer or an interrupt is not waited past, and both clients are the
  same session to their user.

### `isa/isa-top` - network traffic monitor (modelled)

- *State.* A doubly linked list of communications with byte and packet counters
  in both directions; `llist` itself, one mutex.
- *Operations.* The capture thread finds, inserts, adds to and moves nodes; the
  display thread prints the rows that fit and, without `-c`, replaces the list.
- *Hard.* The list is freed and replaced outside the mutex; nodes are unlinked
  and linked at the front; display and reset are two critical sections.
- *Correct if* the list stays linked in both directions, counts are exact and in
  their direction, a pair of endpoints has one row, nothing is overstated or
  lost.

### `izp/projekt_2` - maze of triangles (modelled)

- *State.* The map, the position and the side one came from; for the shortest
  path a ring buffer and the array of predecessors.
- *Operations.* `Map_loader`, `Map_valid_maze`, `start_border`, `Map_solve`.
- *Hard.* 32 hand-written turns that must fit each other; termination; parity of
  rows; indices of neighbours outside the map; a queue at its limit.
- *Correct if* `--test` is exact, a walk entering at an opening crosses no wall
  and leaves, and the shortest path is a path to an exit.

### `inc/proj` - UART receiver (modelled)

- *State.* The state of the FSM, a 5-bit counter of clocks, a 4-bit counter of
  bits, `DOUT`, `DOUT_VLD`.
- *Operations.* Two processes clocked by `CLK`, and `RST` (`uart_rx.vhd`,
  `uart_rx_fsm.vhd`). They see the sender through `DIN` only.
- *Hard.* The receiver counts edges from the start bit on and has no clock of the
  sender; one edge too many or too few adds up over eight bits; bytes follow each
  other without a pause; `RST` falls within a byte.
- *Correct if* each sample lies in its bit, each byte is announced once, as sent
  and before the next one, and a reception out of step comes to an end.

### `izp/projekt_1` - keyfilter (modelled)

- *State.* The search, the characters that may follow it, the last address that
  matched.
- *Operations.* `main` reads lines with `load_line`; `print_result` removes
  duplicates, sorts and prints.
- *Hard.* `remove_duplicates` shortens the array under its own loop; lengths at the
  limit.
- *Correct if* the answer is the one the lines alone define.

### Not modelled

| part | why |
|---|---|
| `inp/projekt_2` processor (`cpu.vhd`) | unfinished: `S_WHILE` and `S_END_WHILE` name no next state, `<` decrements the program counter and the address of the data is never selected, so there is no instruction cycle to state properties of |
| `ipp/1` parser, `ipp/2` interpreter of SOL25 | sequential and recursive over a syntax tree; what there is to check is the meaning of whole programs, which are far larger than TLC can enumerate. The table of classes alone is small, but a class must come after its parent, so it is a tree by construction |
| `ios/xtf`, `izu`, `ids`, `iss`, `ijc`, `isu`, exercises | scripts, worksheets, SQL declarations and exercises without state of their own |

Within the modelled programs these are left out: the ports of the UDP client and
what follows an overflow of its table of 100 ids; the splitting of one TCP
message over two reads, whose effect depends on the text; more than one line per
read of stdin (a line that is lost is like one never typed); decoding of packet
headers (it changes no state, and neither does the early return for frames that are
neither IPv4 nor IPv6, which the filter `ip or ip6` keeps away) and the pcap session; the layout of the screen; usage errors; bytes
outside ASCII in keyfilter.

## Modules

| module | models | state and actions |
|---|---|---|
| `Skibus` | `actors.c`, `semaphors.c`, `shared.c`, `proj2.c` | one variable per semaphore and counter; a program counter per process; one action per step between two synchronisation points. The load and the store of `waiting` are separate steps, since it is raced on |
| `SkibusRuns` | `proj2.c`, `semaphors.c` | runs of the program on one machine: which names exist and who created them; one `sem_open` or `sem_unlink` per step, by main and by a child; SIGINT and SIGKILL at any time. `got`, `alone`, `cleared` and `before` are what a run has open and histories for the properties |
| `SkiTrip` | what the program promises | where every skier and the bus are; boarding, leaving, driving |
| `SkibusProofs`, `SkibusRunsProofs`, `ChatTcpProofs`, `ChatUdpProofs`, `KeyFilterProofs`, `UartRxProofs`, `MazeProofs`, `IsaTopProofs` | theorems about the module they extend | |
| `ChatTcp` | `fsm_tcp.c`, `tcp_handler.c`, the loop of `ipkchat24-client.c` | one action per protocol state and event; the server and the stream are external |
| `ChatUdp` | `fsm_udp.c`, `udp_handler.c`, the loop | a handler is cut where `udp_send` blocks; every datagram ever sent may be received at any time, any number of times or never |
| `ChatSession` | what either client promises | logged out, asked, logged in, over; only who is logged in talks |
| `IsaTop` | `linked_list.c`, `stats.c`, `packet_handler.c` | the heap of nodes with their pointers; a step of the capture thread ends where it looks at `llist->head`, and replacing the list is two steps. `captured`, `since`, `shown` and `missed` are histories for the properties |
| `Maze` | `maze.c` | one call of `Map_solve`, or one turn of a loop, per step. A command line and a file are chosen initially. A start whose index is of no cell makes `start_border` read foreign memory: any side that the row and the column allow, none, or "undefined" |
| `UartRx` | `uart_rx.vhd`, `uart_rx_fsm.vhd`, the sender of `testbench.vhd` | all registers; one step per rising edge, composed with a step of the line |
| `KeyFilter` | `keyfilter.c` | one line of stdin, or one turn of a loop, per step; a write behind an array is undefined |
| `MC*` | | the instances for TLC |

`Skibus` instantiates `SkiTrip` with a refinement mapping (`TripSpec`). `ChatTcp` and
`ChatUdp` both instantiate `ChatSession` (`SessionSpec`): the protocol state, with
what the server answered, is mapped to the four states of a session. Receiver and
line are composed in `UartRx`. The programs do not interact with each other.

Definitions whose comment begins with "Mutant" are variations of the definition
that follows them, the way a plausible slip would change the code. They are used
by no action: each shows that a property notices it.

## Runs

| run | shows |
|---|---|
| `skibus_trip` | 3 skiers, 2 stops, 2 seats, times 0 or not: `TurnIsUnique`, `LogInOrder`, `OnboardExact`, `WaitingNotNegative`, `FinishLast`; the refinement `TripSpec`; and `Progress`: the only ways not to finish are an empty round, a token for nobody and a trap |
| `skibus_empty_round` (violated) | a bus that reaches the final stop with nobody aboard waits for ever |
| `skibus_runs` | 3 runs of 1 or 2 stops, killed or interrupted anywhere: `NoLeak`, `FailingRunEnds`, and `SecondRunWorks`: one failing run clears what a killed one left, for as many stops as it has itself |
| `tcp_session` | 4 lines, 4 server messages, in every order and grouping, the connection closed or reset anywhere: `TalksOnlyAfterOk`, `LeavesWithBye`, `EndExits`; `AnswerEndsWaiting` (unless the answer was swallowed by the recv before it), `ClosedSessionEnds`; the refinement `SessionSpec` |
| `udp_session` | 3 lines, 2 server datagrams, 3 transmissions, across a carry and the wrap of the ids: `TalksOnlyAfterOk`, `ShownOnce`, `UserIdsDistinct`, `HandlersFinish`; `InterruptEnds`: SIGINT ends the client, except in the gap between the test of `exit_flag` and `epoll_wait`; `SessionSpec` |
| `udp_loss` (violated) | after one timeout `errno` stays EAGAIN and every later CONFIRM is ignored until the client gives up |
| `isa_lists` | 4 packets among 2 endpoints, with and without `-c`: `WellFormed`, `CountsExact`, `OneRowPerPair`; `NeverOverstates`: no row reports more than was captured, nor anything from before the list was last replaced, except that a replacement in the middle of a move is undone by `update_node_position`, which makes the node the head again; `LossOnlyInGaps`: bytes are lost only if captured between a display and the replacement of the list that follows, or if the screen has no row for them |
| `isa_sorted` (violated) | a new communication is appended and not moved to its place |
| `maze_runs` | `TestIsExact`, `CameThroughOpening`, `Reversible`, `QueueNeverFull`, `PathIsWalk`, `SolveEnds` |
| `maze_exit` (violated) | `--shortest` ends at no exit although one can be reached |
| `uart` | 6 bytes in any sequence, 16 or 17 edges per bit, any pause, RST at any edge: `SamplesRightBit`, `AnnouncedOnceAsSent`, `ReadyForNext` (also after a reception out of step), `HoldsAnnouncedByte` |
| `keyfilter` | up to 4 lines, lengths around the limits: `LoopInvariant` (no key is lost and what was settled stays so, at every turn of the loops), `AnswerIsRight`, `Ends` |

`TypeOK` of each module is the first conjunct of one of these invariants; that of
`Skibus`, and its `BoardsAtStop`, are proved instead.

The violated runs are findings: each property is what a comment, document or
test of the repository says, and `PROJECT.json` quotes it.

### Bounds and why they are enough

- *Skibus.* Three skiers and two seats force a second round with a bus that was
  full, and leave room for one skier to arrive at any moment of the other two.
  The safety properties and the refinement are also proved for any number.
- *SkibusRuns.* Three runs are one that is killed, one that fails and one that
  should work; stops of 1 and 2 leave a name that the second run does not know.
  Two processes at a time are two runs, or main and a child, or a late child and
  the next run. One of the five fixed names stands for all of them.
- *ChatTcp.* Four lines are /auth, refusal, /auth and a message; four server
  messages suffice for a refusal, a reply and two that arrive together.
- *ChatUdp.* A MessageID is two bytes, incremented byte by byte. `Byte`, the number
  of values of one, is 2 in the runs, so that the client's low byte overflows into
  the high one at the second id, and `FirstServerId` is 3, so that the ids of the
  server wrap; the theorems hold for every `Byte`, 256 included. Three
  lines are a login, a message and one more. Three transmissions leave two
  retries, so that a timeout, a late and a missing CONFIRM all happen.
- *IsaTop.* Two endpoints give four directed pairs, a pair with itself included,
  so three nodes: head, middle and tail of a list can each be moved. Endpoints
  are symmetric.
- *Maze.* Every 2x2 file, consistent or not, is tested; every consistent 2x2
  maze is solved from every start, and the 2x4 mazes with two openings, 2x4
  being the smallest grid in which one can walk in a circle. 1x2 files hold
  numbers that are no digits (8, 255, and 256, which a byte stores as 0).

- *UartRx.* All zeros, all ones, a lone lowest and a lone highest bit, and
  alternating ones: a low and a high neighbour of the stop bit, both orders of
  the bits, and every change between two bits. A pause is counted
  up to 140 edges, when every reception has ended.
- *KeyFilter.* Limits of 3 in place of 101 and 26; lines of every length up to
  two beyond. Four matches make room for two duplicates of the last entry.

CHECK_DEADLOCK is off because all these programs may end; not so for the
receiver, whose clock does not.

### Fairness

- *Skibus*: weak fairness of each process. The operating system runs a process
  that is not blocked; no fairness between waiters of a semaphore is assumed.
- *ChatTcp*: the loop of `main` serves a readable socket, and a reset answers
  data sent to a closed connection. Nothing is assumed of user and server.
- *ChatUdp*: the client takes a step when it can; a `recv` with a timeout
  returns. Nothing is assumed of network and server.
- *Maze*, *KeyFilter*: a sequential program runs until it ends, and stdin ends.
- *SkibusRuns*: main takes its steps, and children whose `write_sync` is
  SEM_FAILED trap at their first line, so that `wait` returns. Children that work
  need not end.

`UartRx` needs none: that a byte is announced is a safety property there, since its
stop bit does not end before.

## Proofs

Every proof follows the same plan: an inductive invariant `IInv` is shown to hold
initially and to be kept by every action, and the properties follow from it. The
results hold for every value of the constants that the ASSUMEs of the modules admit;
the assumptions are

- `Skibus`: a finite set of skiers, at least one stop and one seat, any times;
- `SkibusRuns`: any set of runs; the numbers of stops are positive and bounded, as
  `parse_arguments` has them (`cli.c:32`);
- `ChatTcp`: any number of lines and of server messages;
- `ChatUdp`: any number of lines and transmissions and any first id of the server; at most
  99 datagrams that the server originates, because `received_message_ids` has 100
  entries and is not checked (`udp_handler.c:185`), and fewer than there are ids; any
  width of the two bytes of an id, `Byte` values each (256 in the program);
- `KeyFilter`: any limits, characters and lines;
- `UartRx`: any bytes; 16 or 17 edges per bit (15 are not understood);
- `Maze`: any command lines and files;
- `IsaTop`: a finite set of endpoints (an address and a port are a finite number of bits), any
  packet lengths, any number of packets and of rows, a positive interval.

**`SkibusProofs`**: `TypeOK`, `TurnIsUnique`, `BoardsAtStop`, `LogInOrder`, `OnboardExact`,
`WaitingNotNegative`, `FinishLast`, and the refinement of `SkiTrip`. None of them is
inductive alone. `IInv` adds:

- `MutexHeld`: a skier between the load and the store of the locked increment
  has `mutex`, so increments never race with each other;
- `TokenIsCounted`: a token at a stop, and the skier who took it, are still
  counted in `waiting`. This is what keeps the racy decrement above zero although
  updates are lost: an arrival that overwrites a decrement can only leave the
  counter too high;
- `RoomForToken`: a token is posted only when there is a free seat;
- `EmptyWhenTold`: the bus is told to leave the final stop only by the last
  skier who gets off; with `OnboardExact` this gives `FinishLast`, although
  `num_skiers_skiing` counts boarded, not skiing, people;
- `Round`: where the bus is in its loop over the stops.

`SomebodyReady` is deadlock freedom: whenever the run has not come to an outcome that `Progress`
names, the bus or a skier can take a step, however many skiers, stops and seats there are. The
conditions to take one are written out (`BusReady`, `SkierReady`), since ENABLED is out of the prover's
reach. It needs two facts more: while the bus waits, a token or a skier has the turn
(`TurnNotLost`), and a lock that is taken has an owner who is about to release it (`LocksHeld`).

**`SkibusRunsProofs`**: `NoLeak`, `SecondRunWorks`. `Owned` says that a name belongs to a run
that is under way, was killed or left it to a child; `Unlinked` and `InList` how far main
and a late child are in the list of names to unlink; `Solo`, `Cleared` and `GetsAll` what a
run that is alone may rely on: everything up to its own number of stops is gone once
such a run has ended, and is then its own again.

**`ChatTcpProofs`**: `TalksOnlyAfterOk`, `LeavesWithBye`, and the refinement of
`ChatSession`. `KnowsState` relates the protocol state to what was sent and accepted,
`AnswersAreAsked` says that an answer the client takes is to something it asked: a reply
in the stream that was not asked for cannot open a session.

**`ChatUdpProofs`**: `TalksOnlyAfterOk`, `ShownOnce`, the refinement of `ChatSession`, and, for at
most as many lines as there are ids, `UserIdsDistinct`. `HandlerFits` says which
protocol state a handler blocked in `udp_send` belongs to, `OkMeansAuth` that a REPLY OK
on the network answers an AUTH, `ShownReceived` that whatever was displayed is in the
table of received ids, also while the handler that displayed it is still blocked. For the
ids, `LinesLeft` and `IdsUsed` bound what `increment_message_id` has used by the lines typed,
so it wraps only after the last one; that its two bytes together count one up is `NextMessageId`. `HandlersAdvance` bounds a handler: `WorkLeft` counts the
transmissions and waits left for the datagrams a handler has to send, at most three (`Short`),
and for the events it has not come to. Every step of the client takes from it; the network, the server
and the user never add to it, and it is zero only when main is back in its loop with no event at hand or the client has ended.

**`KeyFilterProofs`**: `LoopInvariant`, `AnswerIsRight`. The added parts are that the loops
start with the matches (`StartsEmpty`) and that the number of matches kept is the number of
lines that matched (`CountsMatches`).

**`UartRxProofs`**: `SamplesRightBit`, `AnnouncedOnceAsSent`, `ReadyForNext`, and the action
property `HoldsAnnouncedByte`. `Synced` gives the place of the receiver in the byte as a
function of state, `clk_cnt` and `bit_cnt` (`Elapsed`) and compares it with the place of the
sender: the two differ by a constant up to the stop bit. `RunsDry` does the same for a
quiet line: what a reception has left to do (`Remaining`) fits into `ResyncClocks`.

**`MazeProofs`**: `TestIsExact`, `CameThroughOpening`, `QueueNeverFull`, `PathIsWalk`, and the action property
`Reversible`. That the loops of `Map_valid_maze` are exact is a fact about the parity of rows
and columns (`ValidIsConsistent`); that no wall is crossed needs that a turn is an open side
whenever the side one came by is (`TurnIsOpen`), and `Reversible` that of three sides the
one hand's choice is undone by the other's (`TurnBack`). For the queue, `Searching` states the ring
(`rear = front + size` modulo the capacity, `RingAfterRear`, `RingAfterFront`) and that each
node enqueued takes one free entry of `pre_nodes` (`MarkOne`). For the printed path, `Tracing` says
that the marked nodes can be numbered in the order in which they were (`Ordered`): the entry
of each but the first holds one with a smaller number that leads to it. What is in the queue
has a number (`Queued`), and so have the node at hand and all that is printed so far, the node
the smallest of them (`Traced`); hence nothing is printed twice and `print_arr` is large enough. The
nodes are told apart by the entry they take, not by their place: a neighbour outside the map
takes the entry of another cell, which is then never visited, and the numbering must
survive that. It is quantified over in the invariant, since no variable holds it.

Two theorems bound the loops. `SearchAdvances`: the nodes without a mark, counted twice, and the
nodes in the queue are a number (`Left`) that starts at `2 * rows * cols - 1` and is less after every
turn of the search, and each turn of the printing loop adds one of at most `rows * cols`
nodes. `WalkAdvances`: a walk through an opening of a consistent maze has a history (`Trail`) in which no
cell is entered twice by the same side: the first such repetition could be undone by the other
hand (`TurnBack`) back to the start, which was entered from outside. So it has at most
`4 * rows * cols` steps, and each of them makes it longer or leaves the maze.

**`IsaTopProofs`**: `WellFormed`, `CountsExact`, `OneRowPerPair`, `NeverOverstates`, `LossOnlyInGaps`.
The list is stated by a sequence that the pointers follow in both directions (`Chain`), and a
node being moved by one that is not on it (`Apart`). `IInv` says what each phase of the capture
thread finds: `AtRest`, `Leaving` (the node is still linked) or `Apiece` (it is not), in each case
with a head that `init_llist` may have made garbage or NULL in the meantime.
That no row comes back after a replacement is an invariant of its own, `Replaced`: of the nodes ever
allocated the first ones, which were there when the list was last replaced, count what was captured until
then (`Dropped`), and neither the head, nor the node being moved, nor a pointer of a later node leads
to them (`Beyond`).
`Complete` says that with `-c` every node is on the list; `Kept` that without `-c` what was captured
was displayed or counted in `missed`, or is in nodes that are going to be the list again, which
is only so while `display` is at "print" and the head has not been replaced; `Counted` that all nodes ever
allocated, the leaked ones included, count what was captured. A chain stays one when a node is
taken out (`ChainWithout`) or put behind another (`ChainWith`, `ChainFirst`), and `PlaceBefore` shows that
`update_node_position` finds a node before the one it moves, or NULL. `List` and the sums are defined
by recursive functions; what they compute (`ListOfChain`, `SumIs`, `SumAlong`) is shown with a
least counterexample, a set of numbers or of subsets, in place of an induction theorem.

### Only model-checked

- Everything under fairness (`Progress`, `FailingRunEnds`, `EndExits`, `AnswerEndsWaiting`,
  `ClosedSessionEnds`, `HandlersFinish`, `InterruptEnds`, `SolveEnds`, `Ends`): liveness is
  outside what the proof system handles. Of three of them the part that is safety is proved for
  every size: what bounds the steps (`WorkLeft` for `HandlersFinish`, `Left` and `Trail` for `SolveEnds`)
  and that nobody waits for nobody (`SomebodyReady` for `Progress`). That the steps are taken is
  left to TLC.
- Every invariant and every action property of a passing run is a theorem.

## Observations that no run states

Seen while modelling; either no document says otherwise, or the model abstracts
from them.

- TCP: one `recv` may return several messages, of which only the first is handled:
  the others are neither displayed nor answered (`tcp_handler.c:125`);
  `AnswerEndsWaiting` says what follows for a login.
- TCP: `BYE` is not final: the server's BYE is treated as an unknown message and
  answered by ERR (`fsm_tcp.c`); at EOF the uninitialised buffer is parsed and the
  loop spins (`tcp_handler.c:126`).
- UDP: any CONFIRM confirms any datagram, since the id is not compared
  (`udp_handler.c:307`); a reference id is built from signed bytes and is wrong from
  128 on (`udp_handler.c:226`); END is not left (`fsm_udp.c:302`); the server's new
  port is forgotten (`fsm_udp.c:102`); an event whose datagram `udp_send` has read
  ends the session (`fsm_udp.c:98`).
- isa-top: display and reset are two critical sections, and what is captured in
  between is never displayed (`stats.c:76`); an interval of 2^32 is stored as 0 and
  divides (`cli.c:45`).
- isa-top: `init_llist` frees the list while the capture thread may hold it
  (`linked_list.c:13`); rates below 1024 bits are not divided by the interval
  (`linked_list.c:149`).
- skibus: the unlocked decrement of `waiting` (`actors.c:124`) loses an update when
  it meets the locked increment; a token is then left for a skier who does not
  exist and the bus waits for ever: one of the outcomes `Progress` names.
- skibus: after a run that was killed the next one traps everywhere, clears the
  names and ends (`semaphors.c:5`); but if it had fewer stops, the one after it
  misses the semaphores of the others and a skier there traps. SIGKILL cannot be
  handled (`proj2.c:26`), and SIGINT before `proj2.c:25` leaves all names behind.
- UART: a byte whose top bit is 1 is announced within that bit, before its stop
  bit, since `Stop` only waits for a 1; a stop bit of 0 is not reported. The comment
  "0 - 24" at `uart_rx_fsm.vhd:13` is one short: `clk_cnt` reaches 25, and after a
  long low stop bit wraps at 32. Senders of 16 or 17 edges per bit are understood,
  of 15 not.
- keyfilter: a line or a search of exactly 101 characters is accepted and written
  with its '\0' behind the array (`keyfilter.c:102`, `keyfilter.c:188`), and so is
  the 27th match (`keyfilter.c:212`).
- skibus: `tb` or `tl` of 0 divides by zero (`actors.c:19`).
- maze: `start_border` reports TOP or BOTTOM for a cell that has no such side
  (`maze.c:182`), and such a walk may leave through a wall; an inconsistent maze
  is solved without being tested and the recursion may never end; a letter that
  follows a digit is skipped (`maze.c:251`); with fewer than two numbers in the
  file the map is an uninitialised pointer (`maze.c:281`).

## Plan

Done: `Skibus` with `SkiTrip`, `SkibusRuns`, `ChatTcp` and `ChatUdp` with `ChatSession`, `Maze`,
`UartRx`, `KeyFilter` and `IsaTop`, each with its proofs.

All invariants, action properties and refinements of the passing runs are proved. What is only
model-checked is liveness under fairness; what is not modelled is listed in the inventory.
