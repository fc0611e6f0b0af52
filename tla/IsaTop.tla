------------------------------- MODULE IsaTop -------------------------------
(***************************************************************************)
(* The traffic monitor isa/isa-top: a capture thread that counts packets   *)
(* in a doubly linked list of communications, and a display thread that    *)
(* prints the list and, unless the statistics are cumulative, replaces it. *)
(*                                                                         *)
(* The mutex protects the nodes, not llist itself: init_llist runs after   *)
(* the display thread has unlocked. A step of the capture thread therefore *)
(* ends at every access to llist->head, and init_llist is two steps. The   *)
(* chunk that is freed is the one malloc returns next, its first word, the *)
(* head, holding the allocator's data in between: Garbage.                 *)
(***************************************************************************)
EXTENDS Integers, Sequences, FiniteSets, FiniteSetsExt, Functions

CONSTANTS
    Endpoints,      \* pairs of address and port
    Lengths,        \* packet lengths in bytes
    Sort,           \* cli_args.sort
    Interval,       \* cli_args.interval
    DisplayRows,    \* rows print_llist has room for
    MaxPackets      \* bound on the packets captured

ASSUME ArgumentsAssumption ==
    /\ Sort \in {"b", "p"} /\ Interval \in Nat \ {0}
    /\ IsFiniteSet(Endpoints) /\ Lengths \subseteq Nat
    /\ DisplayRows \in Nat /\ MaxPackets \in Nat

VARIABLES
    cumulative, \* cli_args.cumulative
    heap,       \* every Node ever allocated, with its CommunicationInfo
    head,       \* llist->head
    mutex,      \* app_context.mutex is locked by the capture thread
    capture,    \* where the capture thread is
    display,    \* where the display thread is
    c_info,     \* the packet being inserted
    node,       \* the node being moved to the front
    rows,       \* what is on the screen
    packets,    \* packets captured so far
    captured,   \* history: bytes inserted, by source and destination
    since,      \* history: captured when the list was last replaced, unless
                \* a node was being moved in it
    shown,      \* history: bytes displayed, summed over the updates
    missed      \* history: bytes inserted between display and reset, or listed
                \* below the last row of the screen when they were reset

vars == <<cumulative, heap, head, mutex, capture, display, c_info, node, rows, packets,
          captured, since, shown, missed>>

NULL == 0
Garbage == -1
NoPacket == [src |-> NULL, dst |-> NULL, len |-> 0]
Packets == [src : Endpoints, dst : Endpoints, len : Lengths]

\* init_communication and init_node
NewNode(p) == [src |-> p.src, dst |-> p.dst, Rx |-> 0, Tx |-> p.len,
               packets_sent_Rx |-> 0, packets_sent_Tx |-> 1,
               next |-> NULL, prev |-> NULL]

Init ==
    /\ cumulative \in BOOLEAN
    /\ heap = <<>> /\ head = NULL /\ mutex = FALSE
    /\ capture = "loop" /\ display = "print"
    /\ c_info = NoPacket /\ node = NULL /\ rows = <<>> /\ packets = 0
    /\ captured = [p \in Endpoints \X Endpoints |-> 0] /\ since = captured
    /\ shown = 0 /\ missed = 0

----------------------------------------------------------------------------
(* linked_list.c and stats.c *)

\* The pointers met when following next from the head, up to NULL or Garbage.
Pointers ==
    LET at[k \in 0..Len(heap)] ==
            IF k = 0 THEN head
            ELSE IF at[k - 1] \in {NULL, Garbage} THEN at[k - 1] ELSE heap[at[k - 1]].next
    IN [k \in 1..Len(heap) + 1 |-> at[k - 1]]

List == SubSeq(Pointers, 1, Cardinality({k \in DOMAIN Pointers :
                                            Pointers[k] \notin {NULL, Garbage}}))
HasGarbage == Pointers[Len(Pointers)] = Garbage

\* Mutant: the direction matters.
CompareDirected(one, two) == one.src = two.src /\ one.dst = two.dst

compare_communications(one, two) ==
    \/ one.src = two.src /\ one.dst = two.dst
    \/ one.src = two.dst /\ one.dst = two.src

\* The nodes of c_info's communication, at most one.
Found == {i \in DOMAIN List : compare_communications(c_info, heap[List[i]])}

get_nodes_order(h, n) ==
    IF Sort = "b" THEN (h[n].Rx + h[n].Tx) \div Interval
    ELSE (h[n].packets_sent_Rx + h[n].packets_sent_Tx) \div Interval

\* Mutant: the direction of the packet is ignored.
AddUndirected(n) == [heap EXCEPT ![n].Tx = @ + c_info.len, ![n].packets_sent_Tx = @ + 1]

\* add_communications: the heap with c_info added to node n.
Add(n) ==
    IF heap[n].src = c_info.src
    THEN [heap EXCEPT ![n].Tx = @ + c_info.len, ![n].packets_sent_Tx = @ + 1]
    ELSE [heap EXCEPT ![n].Rx = @ + c_info.len, ![n].packets_sent_Rx = @ + 1]

\* The node after which n belongs: the nearest one before it that is not smaller.
Place(h, n) ==
    LET back[k \in 0..Len(h)] ==
            IF k = 0 THEN h[n].prev
            ELSE IF back[k - 1] = NULL THEN NULL
            ELSE IF get_nodes_order(h, back[k - 1]) < get_nodes_order(h, n)
                 THEN h[back[k - 1]].prev
            ELSE back[k - 1]
    IN back[Len(h)]

\* Mutant: the next node keeps pointing at the node removed.
UnlinkNextOnly(h, n) == [h EXCEPT ![h[n].prev].next = h[n].next]

Unlink(h, n) ==
    [m \in DOMAIN h |->
        [h[m] EXCEPT !.prev = IF m = h[n].next THEN h[n].prev ELSE @,
                     !.next = IF m = h[n].prev THEN h[n].next ELSE @]]

InsertAfter(h, p, n) ==
    [m \in DOMAIN h |->
        [h[m] EXCEPT !.prev = IF m = n THEN p ELSE IF m = h[p].next THEN n ELSE @,
                     !.next = IF m = p THEN n ELSE IF m = n THEN h[p].next ELSE @]]

\* A row of the table; units and the packet columns are left out.
Row(n) == [src |-> heap[n].src, dst |-> heap[n].dst,
           rx |-> heap[n].Rx, tx |-> heap[n].Tx]

BytesIn(rs) == SumFunction([i \in DOMAIN rs |-> rs[i].rx + rs[i].tx])
Bytes(h) == [n \in DOMAIN h |-> h[n].Rx + h[n].Tx]
Listed == SumFunctionOnSet(Bytes(heap), Range(List))

----------------------------------------------------------------------------
(* The capture thread: packet_handler, insert_communication. *)

counted == <<captured, missed>>

Crash == capture' = "crashed" /\ UNCHANGED <<heap, head, node, counted>>

Inserted ==
    /\ captured' = [captured EXCEPT ![<<c_info.src, c_info.dst>>] = @ + c_info.len]
    /\ missed' = IF display = "print" THEN missed ELSE missed + c_info.len

PacketArrives ==
    /\ capture = "loop" /\ ~mutex /\ packets < MaxPackets
    /\ c_info' \in Packets
    /\ packets' = packets + 1
    /\ mutex' = TRUE /\ capture' = "get_node"
    /\ UNCHANGED <<heap, head, display, node, rows, counted, shown>>

\* get_node reads the head of the list. No further access to llist is needed to
\* append the node or to move it behind another one.
GetNode ==
    /\ capture = "get_node"
    /\ \/ head = NULL /\ capture' = "first" /\ UNCHANGED <<heap, head, node, counted>>
       \/ head # NULL /\ Found = {} /\ HasGarbage /\ Crash
       \/ /\ head # NULL /\ Found = {} /\ ~HasGarbage
          /\ LET last == List[Len(List)]
                 new == Len(heap) + 1
             IN heap' = Append([heap EXCEPT ![last].next = new],
                               [NewNode(c_info) EXCEPT !.prev = last])
          /\ Inserted /\ capture' = "unlock" /\ UNCHANGED <<head, node>>
       \/ /\ Found # {}
          /\ LET n == List[Min(Found)]
                 p == Place(Add(n), n)
             IN IF heap[n].prev = NULL \/ (p # NULL /\ heap[p].next = n)
                THEN heap' = Add(n) /\ Inserted /\ capture' = "unlock" /\ UNCHANGED <<head, node>>
                ELSE IF p = NULL
                THEN heap' = Add(n) /\ Inserted /\ capture' = "move" /\ node' = n /\ UNCHANGED head
                ELSE /\ heap' = InsertAfter(Unlink(Add(n), n), p, n)
                     /\ Inserted /\ capture' = "unlock" /\ UNCHANGED <<head, node>>
    /\ UNCHANGED <<mutex, display, c_info, rows, packets, shown>>

SetFirst ==
    /\ capture = "first"
    /\ heap' = Append(heap, NewNode(c_info))
    /\ head' = Len(heap) + 1
    /\ Inserted /\ capture' = "unlock"
    /\ UNCHANGED <<mutex, display, c_info, node, rows, packets, shown>>

\* update_node_position when node becomes the head. (The test whether it is the
\* head already fails: such a node has no prev and was left where it is.)
MoveOut ==
    /\ capture = "move"
    /\ heap' = Unlink(heap, node) /\ capture' = "link_prev"
    /\ UNCHANGED <<head, mutex, display, c_info, node, rows, packets, counted, shown>>

LinkPrev ==
    /\ capture = "link_prev"
    /\ \/ head \in {NULL, Garbage} /\ Crash
       \/ /\ head \notin {NULL, Garbage}
          /\ heap' = [heap EXCEPT ![head].prev = node]
          /\ capture' = "link_next" /\ UNCHANGED <<head, node, counted>>
    /\ UNCHANGED <<mutex, display, c_info, rows, packets, shown>>

\* Mutant: the node moved does not point at the old head.
LinkNextForgotten ==
    /\ capture = "link_next"
    /\ capture' = "set_head"
    /\ UNCHANGED <<heap, head, mutex, display, c_info, node, rows, packets, counted, shown>>

LinkNext ==
    /\ capture = "link_next"
    /\ heap' = [heap EXCEPT ![node].next = head]
    /\ capture' = "set_head"
    /\ UNCHANGED <<head, mutex, display, c_info, node, rows, packets, counted, shown>>

SetHead ==
    /\ capture = "set_head"
    /\ head' = node
    /\ heap' = [heap EXCEPT ![node].prev = NULL]
    /\ node' = NULL /\ capture' = "unlock"
    /\ UNCHANGED <<mutex, display, c_info, rows, packets, counted, shown>>

Unlock ==
    /\ capture = "unlock"
    /\ mutex' = FALSE /\ capture' = "loop" /\ c_info' = NoPacket
    /\ UNCHANGED <<heap, head, display, node, rows, packets, counted, shown>>

CaptureNext ==
    \/ PacketArrives \/ GetNode \/ SetFirst
    \/ MoveOut \/ LinkPrev \/ LinkNext \/ SetHead
    \/ Unlock

----------------------------------------------------------------------------
(* The display thread: display_stats, print_llist, init_llist. *)

\* Lock, print and unlock. Only this thread changes llist without the mutex.
PrintList ==
    /\ display = "print" /\ ~mutex /\ capture # "crashed"
    /\ LET room == SubSeq(List, 1, Min({DisplayRows, Len(List)}))
           new == [i \in DOMAIN room |-> Row(room[i])]
       IN \/ /\ HasGarbage /\ Len(room) = Len(List) /\ Len(room) < DisplayRows
             /\ capture' = "crashed" /\ UNCHANGED <<rows, shown, missed, display>>
          \/ /\ ~(HasGarbage /\ Len(room) = Len(List) /\ Len(room) < DisplayRows)
             /\ rows' = new
             /\ display' = IF cumulative THEN "print" ELSE "free"
             /\ shown' = IF cumulative THEN shown ELSE shown + BytesIn(new)
             /\ missed' = IF cumulative THEN missed ELSE missed + Listed - BytesIn(new)
             /\ UNCHANGED capture
    /\ UNCHANGED <<heap, head, mutex, c_info, node, packets, captured>>

FreeList ==
    /\ display = "free" /\ capture # "crashed"
    /\ head' = Garbage /\ display' = "clear"
    /\ UNCHANGED <<heap, mutex, capture, c_info, node, rows, packets, counted, shown>>

ClearList ==
    /\ display = "clear" /\ capture # "crashed"
    /\ head' = NULL /\ display' = "print"
    /\ since' = IF node = NULL THEN captured ELSE since
    /\ UNCHANGED <<heap, mutex, capture, c_info, node, rows, packets, counted, shown>>

\* Mutant: the old list is not replaced.
DisplayNextKept ==
    \/ PrintList /\ UNCHANGED since
    \/ /\ display = "free" /\ display' = "print"
       /\ since' = IF node = NULL THEN captured ELSE since
       /\ UNCHANGED <<heap, head, mutex, capture, c_info, node, rows, packets, counted, shown>>

DisplayNext ==
    \/ (PrintList \/ FreeList) /\ UNCHANGED since
    \/ ClearList

Next ==
    /\ \/ CaptureNext /\ UNCHANGED since
       \/ DisplayNext
    /\ UNCHANGED cumulative

Spec == Init /\ [][Next]_vars

----------------------------------------------------------------------------
(* Properties *)

\* Types; every pointer of linked_list.c is NULL, a node that was allocated, or,
\* for the head and what was copied from it, the garbage of a freed chunk.
TypeOK ==
    /\ heap \in Seq([src : Endpoints, dst : Endpoints, Rx : Nat, Tx : Nat,
                     packets_sent_Rx : Nat, packets_sent_Tx : Nat,
                     next : -1..Len(heap), prev : 0..Len(heap)])
    /\ head \in -1..Len(heap) /\ node \in 0..Len(heap) /\ mutex \in BOOLEAN
    /\ capture \in {"loop", "get_node", "first", "move", "link_prev", "link_next",
                    "set_head", "unlock", "crashed"}
    /\ display \in {"print", "free", "clear"}
    /\ cumulative \in BOOLEAN /\ packets \in 0..MaxPackets
    /\ shown \in Nat /\ missed \in Nat

\* Between two packets the list is doubly linked, without a cycle, from a head
\* that has no predecessor: moving nodes around loses and repeats none.
WellFormed ==
    /\ TypeOK
    /\ cumulative /\ ~mutex =>
          /\ \A n \in DOMAIN heap : \E i \in DOMAIN List : List[i] = n
          /\ Len(List) = Len(heap)
          /\ \A i \in DOMAIN List :
                heap[List[i]].prev = IF i = 1 THEN NULL ELSE List[i - 1]

\* Both directions of a communication share one row.
OneRowPerPair ==
    \A i, j \in DOMAIN rows :
        i # j => {rows[i].src, rows[i].dst} # {rows[j].src, rows[j].dst}

BytesShown(x, y) ==
    SumFunction([i \in DOMAIN rows |->
                    (IF rows[i].src = x /\ rows[i].dst = y THEN rows[i].tx ELSE 0)
                  + (IF rows[i].src = y /\ rows[i].dst = x THEN rows[i].rx ELSE 0)])

\* The bytes each node counts from x to y.
Sent(h, x, y) ==
    [n \in DOMAIN h |-> (IF h[n].src = x /\ h[n].dst = y THEN h[n].Tx ELSE 0)
                      + (IF h[n].src = y /\ h[n].dst = x THEN h[n].Rx ELSE 0)]

BytesListed(x, y) == SumFunctionOnSet(Sent(heap, x, y), Range(List))

\* With -c every byte captured is in the list, in the direction it was sent.
CountsExact ==
    cumulative /\ ~mutex =>
        \A x, y \in Endpoints : BytesListed(x, y) = captured[<<x, y>>]

\* Whatever the display thread does to the list at any moment, no row reports
\* more than was captured in its direction, and without -c no more than was
\* captured since init_llist last replaced the list: a row that was on the screen
\* before does not come back. The one exception is a list replaced while a node
\* is moved to its front, which update_node_position then makes the head again.
NeverOverstates ==
    \A x, y \in Endpoints :
        /\ BytesShown(x, y) <= captured[<<x, y>>]
        /\ display # "print" => BytesShown(x, y) <= captured[<<x, y>>] - since[<<x, y>>]

\* linked_list.h: "an automatically sorted LinkedList", which the tests assert
\* of the list between two packets.
SortedList ==
    ~mutex => \A i, j \in DOMAIN List :
                 i < j => get_nodes_order(heap, List[i]) >= get_nodes_order(heap, List[j])

\* Without -c, what was captured is displayed in some update or still in the
\* list, except for what comes between the display and the reset of the list and
\* for the rows the screen has no room for: the reset, which is not under the
\* mutex, loses nothing else, and neither does a move that it interrupts.
LossOnlyInGaps ==
    ~cumulative /\ display = "print" /\ ~mutex /\ capture # "crashed" =>
        SumFunction(captured) <= shown + missed + Listed

=============================================================================
