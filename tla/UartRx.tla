------------------------------- MODULE UartRx -------------------------------
(* The serial receiver of src/inc/proj (UART_RX and UART_RX_FSM) and the line *)
(* it listens to.                                                             *)
(*                                                                            *)
(* One step is one rising edge of CLK.  All signals of the two processes are  *)
(* registers: a step computes their next values from the present ones and     *)
(* from DIN.  The sender is external, as in testbench.vhd: a start bit, eight *)
(* data bits with the lowest first, a stop bit, and any pause, or none, up to *)
(* the next byte.  RST may be raised at any edge, also within a byte, after   *)
(* which the receiver hears the rest of that byte as something else.          *)
EXTENDS Integers

CONSTANTS Bytes,        \* the bytes that are sent
          BitLengths    \* for how many edges a sender may hold one bit

(* testbench.vhd sends at CLK/16.  Sample k is taken at edge 24 + 16k of a    *)
(* byte, which lies in data bit k when a bit lasts 16 or 17 edges.            *)
ASSUME UartAssumption ==
    /\ Bytes \subseteq [0 .. 7 -> {0, 1}]
    /\ BitLengths \subseteq {16, 17}

VARIABLES byte, slot, age, len,   \* the line
          curr_state,             \* UART_RX_FSM
          clk_cnt, bit_cnt, DOUT, DOUT_VLD,    \* UART_RX
          synced,     \* history: Idle met the start bit of byte, no RST since
          announced   \* history: how often DOUT_VLD rose since that start bit

line == <<byte, slot, age, len>>
registers == <<curr_state, clk_cnt, bit_cnt, DOUT, DOUT_VLD>>
vars == <<line, registers, synced, announced>>

-----------------------------------------------------------------------------
(* The line.  slot is 0 in the start bit, 1 .. 8 in the data bits, 9 in the   *)
(* stop bit; age counts the edges of the slot, and of a pause up to a limit.  *)
StopBit == 9
Quiet == 10

(* On a quiet line any reception, however it began, is over by then. *)
ResyncClocks == 140

DIN == CASE slot = 0       -> 0
         [] slot \in 1 .. 8 -> byte[slot - 1]
         [] OTHER          -> 1

Bits == [0 .. 7 -> {0, 1}]
Zeros == [i \in 0 .. 7 |-> 0]

BitOver == slot # Quiet /\ age = len - 1

(* The present byte, if any, is through after this edge. *)
FrameOver == slot = Quiet \/ (slot = StopBit /\ BitOver)

HoldBit == /\ slot # Quiet /\ ~BitOver
           /\ age' = age + 1
           /\ UNCHANGED <<byte, slot, len>>

NextBit == /\ BitOver /\ slot < StopBit
           /\ slot' = slot + 1
           /\ age' = 0
           /\ UNCHANGED <<byte, len>>

Pause == /\ FrameOver
         /\ slot' = Quiet
         /\ age' = IF slot # Quiet THEN 0
                   ELSE IF age < ResyncClocks THEN age + 1 ELSE age
         /\ UNCHANGED <<byte, len>>

StartBit(b, l) == /\ FrameOver
                  /\ slot' = 0
                  /\ age' = 0
                  /\ byte' = b
                  /\ len' = l

-----------------------------------------------------------------------------
(* UART_RX_FSM. *)
activate_clk_cnt == curr_state \notin {"Idle", "Valid"}
activate_bit_cnt == curr_state = "Data"
valid_data == curr_state = "Valid"

(* Mutants: the data bits begin in the start bit, or the stop bit is not      *)
(* waited for.                                                                *)
Fsm(start, stop) ==
    CASE curr_state = "Idle"  -> IF DIN = 0 THEN "Start" ELSE "Idle"
      [] curr_state = "Start" -> IF clk_cnt >= start THEN "Data" ELSE "Start"
      [] curr_state = "Data"  -> IF bit_cnt >= 8 THEN "Stop" ELSE "Data"
      [] curr_state = "Stop"  -> IF DIN = 1 THEN "Valid" ELSE stop
      [] curr_state = "Valid" -> "Idle"
next_state_early == Fsm(8, "Stop")
next_state_no_stop == Fsm(24, "Valid")

next_state ==
    CASE curr_state = "Idle"  -> IF DIN = 0 THEN "Start" ELSE "Idle"
      [] curr_state = "Start" -> IF clk_cnt >= 24 THEN "Data" ELSE "Start"
      [] curr_state = "Data"  -> IF bit_cnt >= 8 THEN "Stop" ELSE "Data"
      [] curr_state = "Stop"  -> IF DIN = 1 THEN "Valid" ELSE "Stop"
      [] curr_state = "Valid" -> "Idle"

(* UART_RX: counters of 5 and 4 bits, and the byte put together bit by bit. *)
Sampling == activate_bit_cnt /\ clk_cnt >= 15
Announcing == bit_cnt = 8 /\ valid_data

NextClkCnt == IF Sampling THEN 0
              ELSE IF activate_clk_cnt THEN (clk_cnt + 1) % 32 ELSE 2

(* Mutant: bit_cnt is not cleared when the byte is announced. *)
NextBitCntKept == IF Sampling THEN (bit_cnt + 1) % 16 ELSE bit_cnt

NextBitCnt == IF Sampling THEN (bit_cnt + 1) % 16
              ELSE IF Announcing THEN 0 ELSE bit_cnt

(* Mutant: DOUT is cleared with bit_cnt. *)
NextDoutCleared == IF Sampling THEN [DOUT EXCEPT ![bit_cnt] = DIN]
                   ELSE IF Announcing THEN Zeros ELSE DOUT

NextDout == IF Sampling THEN [DOUT EXCEPT ![bit_cnt] = DIN] ELSE DOUT

Edge == /\ curr_state' = next_state
        /\ clk_cnt' = NextClkCnt
        /\ bit_cnt' = NextBitCnt
        /\ DOUT' = NextDout
        /\ DOUT_VLD' = IF Announcing THEN 1 ELSE 0

Reset == /\ curr_state' = "Idle"
         /\ clk_cnt' = 0
         /\ bit_cnt' = 0
         /\ DOUT' = Zeros
         /\ DOUT_VLD' = 0

-----------------------------------------------------------------------------
(* A step of the receiver with a step of the line. *)
Carry == /\ HoldBit \/ NextBit \/ Pause
         /\ announced' = announced + DOUT_VLD'

Begin == /\ \E b \in Bytes, l \in BitLengths : StartBit(b, l)
         /\ synced' = (curr_state' = "Idle")
         /\ announced' = 0

Listen == Edge /\ Carry /\ UNCHANGED synced
ResetWithin == Reset /\ Carry /\ synced' = FALSE
BeginByte == Edge /\ Begin
BeginWithReset == Reset /\ Begin

Init == /\ byte = Zeros /\ slot = Quiet /\ age = 0 /\ len = 16
        /\ curr_state = "Idle" /\ clk_cnt = 0 /\ bit_cnt = 0
        /\ DOUT = Zeros /\ DOUT_VLD = 0
        /\ synced = FALSE /\ announced = 0

Next == Listen \/ ResetWithin \/ BeginByte \/ BeginWithReset

Spec == Init /\ [][Next]_vars

-----------------------------------------------------------------------------
TypeOK ==
    /\ byte \in Bits /\ slot \in 0 .. Quiet /\ len \in {16, 17}
    /\ age \in 0 .. ResyncClocks
    /\ curr_state \in {"Idle", "Start", "Data", "Stop", "Valid"}
    /\ clk_cnt \in 0 .. 31 /\ bit_cnt \in 0 .. 15
    /\ DOUT \in Bits /\ DOUT_VLD \in {0, 1}
    /\ synced \in BOOLEAN /\ announced \in Nat

(* The receiver has no clock of the sender: it counts edges from the start    *)
(* bit on.  When it stores DIN as bit k of DOUT, the line carries data bit k, *)
(* up to the eighth bit and for senders up to one edge per bit too slow.  A   *)
(* sample has a place in DOUT also when RST fell within a byte.               *)
SamplesRightBit ==
    /\ TypeOK
    /\ Sampling => bit_cnt \in DOMAIN DOUT
    /\ synced /\ slot # Quiet /\ Sampling => slot = bit_cnt + 1

(* A byte is announced once, for one clock, as it was sent, and before its    *)
(* stop bit ends, so also when the next byte follows without a pause.         *)
AnnouncedOnceAsSent ==
    synced => /\ slot \in 1 .. 9 /\ DOUT_VLD = 1 => DOUT = byte
              /\ announced <= 1
              /\ FrameOver => announced = 1

(* At the end of a byte the receiver waits for a start bit with all counters  *)
(* cleared: a byte that follows at once is received in step as well.  However *)
(* a reception began, a quiet line of ResyncClocks edges ends it likewise.    *)
ReadyForNext ==
    (synced /\ FrameOver) \/ (slot = Quiet /\ age = ResyncClocks) =>
        curr_state = "Idle" /\ bit_cnt = 0 /\ DOUT_VLD = 0

(* An announced byte can be read until the first data bit of the next one:    *)
(* DOUT changes while the data bits of a byte not yet announced are on the    *)
(* line, and by RST.                                                          *)
HoldsAnnouncedByte ==
    [][synced /\ DOUT' # DOUT =>
           Reset \/ (announced = 0 /\ slot \in 1 .. 8)]_vars
=============================================================================
