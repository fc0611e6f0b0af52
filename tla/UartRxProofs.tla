---------------------------- MODULE UartRxProofs ----------------------------
(* The receiver of src/inc/proj hears every byte as it was sent, whatever the  *)
(* bytes, the pauses between them and the edges at which RST falls.            *)
(*                                                                             *)
(* IInv is inductive.  Its parts are the states the registers can be in at     *)
(* all, also after a reset within a byte; where the receiver is, edge by edge, *)
(* in a byte whose start bit it met; and how long a reception still lasts on a *)
(* quiet line.                                                                 *)
EXTENDS UartRx, TLAPS

(* The two counters in each state of the automaton. *)
Counters ==
    /\ curr_state \in {"Idle", "Start"} => bit_cnt = 0
    /\ curr_state = "Start" => clk_cnt \in 2 .. 24
    /\ curr_state = "Data" => /\ bit_cnt \in 0 .. 8
                              /\ bit_cnt = 0 => clk_cnt = 25
                              /\ bit_cnt > 0 => clk_cnt <= 15
                              /\ bit_cnt = 8 => clk_cnt = 0
    /\ curr_state \in {"Stop", "Valid"} => bit_cnt = 8
    /\ DOUT_VLD = 1 => curr_state = "Idle"

InBit == slot # Quiet => age < len

(* The edges since the start bit of the byte on the line. *)
Elapsed == slot * len + age

Heard(count) == \A k \in 0 .. 7 : k < count => DOUT[k] = byte[k]

(* What the receiver knows of a byte whose start bit it met. *)
MetStart == Elapsed = 0 /\ announced = 0
ByteDone == /\ announced = 1
            /\ slot \in {8, 9} /\ DIN = 1 /\ Heard(8)
            /\ DOUT_VLD = 1 => Elapsed <= 9 * len + 2

InStep ==
    IF slot = Quiet THEN curr_state = "Idle" /\ announced = 1 /\ DOUT_VLD = 0
    ELSE /\ curr_state = "Idle" => MetStart \/ ByteDone
         /\ curr_state # "Idle" => announced = 0
         /\ curr_state = "Start" => Elapsed = clk_cnt - 1
         /\ curr_state = "Data" =>
                /\ Elapsed = IF bit_cnt = 0 THEN clk_cnt - 1 ELSE 9 + 16 * bit_cnt + clk_cnt
                /\ Heard(bit_cnt)
         /\ curr_state = "Stop" => slot \in {8, 9} /\ Heard(8) /\ Elapsed <= 9 * len
         /\ curr_state = "Valid" => /\ slot \in {8, 9} /\ DIN = 1 /\ Heard(8)
                                    /\ Elapsed <= 9 * len + 1

Synced == synced => InStep

(* The edges up to the end of a reception when the line stays quiet. *)
Remaining ==
    CASE curr_state = "Idle"  -> DOUT_VLD
      [] curr_state = "Start" -> 142 - clk_cnt
      [] curr_state = "Data"  -> IF bit_cnt = 0 THEN 117 ELSE 132 - 16 * bit_cnt - clk_cnt
      [] curr_state = "Stop"  -> 3
      [] curr_state = "Valid" -> 2

RunsDry == slot = Quiet => Remaining + age <= ResyncClocks

IInv == TypeOK /\ Counters /\ InBit /\ Synced /\ RunsDry

-----------------------------------------------------------------------------
(* The signals *)

LEMMA Types ==
    ASSUME TypeOK
    PROVE  /\ slot \in 0 .. 10 /\ age \in 0 .. 140 /\ len \in {16, 17}
           /\ clk_cnt \in 0 .. 31 /\ bit_cnt \in 0 .. 15 /\ DOUT_VLD \in {0, 1}
           /\ announced \in Nat
           /\ byte \in [0 .. 7 -> {0, 1}] /\ DOUT \in [0 .. 7 -> {0, 1}]
           /\ curr_state \in {"Idle", "Start", "Data", "Stop", "Valid"}
BY Zenon DEF TypeOK, Bits, Quiet, ResyncClocks

LEMMA Line ==
    ASSUME TypeOK
    PROVE  /\ DIN \in {0, 1}
           /\ slot = 0 => DIN = 0
           /\ slot \in 1 .. 8 => DIN = byte[slot - 1]
           /\ slot \in {9, 10} => DIN = 1
<1>1. slot \in 0 .. 10 /\ byte \in [0 .. 7 -> {0, 1}]
    BY Types
<1>2. CASE slot = 0
    BY <1>2 DEF DIN
<1>3. CASE slot \in 1 .. 8
    <2>1. DIN = byte[slot - 1]
        BY <1>3 DEF DIN
    <2>2. slot - 1 \in 0 .. 7
        BY <1>3
    <2> QED
        BY <1>1, <1>3, <2>1, <2>2
<1>4. CASE slot \in {9, 10}
    BY <1>4 DEF DIN
<1> QED
    BY <1>1, <1>2, <1>3, <1>4

(* What an edge does in each state of the automaton. *)
LEMMA IdleEdge ==
    ASSUME curr_state = "Idle", Edge, TypeOK
    PROVE  /\ curr_state' = IF DIN = 0 THEN "Start" ELSE "Idle"
           /\ clk_cnt' = 2 /\ bit_cnt' = bit_cnt /\ DOUT' = DOUT /\ DOUT_VLD' = 0
BY DEF Edge, next_state, NextClkCnt, NextBitCnt, NextDout, Sampling, Announcing,
       activate_clk_cnt, activate_bit_cnt, valid_data

LEMMA StartEdge ==
    ASSUME curr_state = "Start", Edge, TypeOK, Counters
    PROVE  /\ curr_state' = IF clk_cnt = 24 THEN "Data" ELSE "Start"
           /\ clk_cnt' = clk_cnt + 1 /\ bit_cnt' = 0 /\ DOUT' = DOUT /\ DOUT_VLD' = 0
<1>1. clk_cnt \in 2 .. 24 /\ bit_cnt = 0
    BY DEF Counters
<1>2. ~Sampling /\ ~Announcing /\ activate_clk_cnt
    BY DEF Sampling, Announcing, activate_clk_cnt, activate_bit_cnt, valid_data
<1>3. (clk_cnt + 1) % 32 = clk_cnt + 1
    BY <1>1
<1>4. next_state = IF clk_cnt = 24 THEN "Data" ELSE "Start"
    BY <1>1 DEF next_state
<1> QED
    BY <1>1, <1>2, <1>3, <1>4 DEF Edge, NextClkCnt, NextBitCnt, NextDout

LEMMA DataEdge ==
    ASSUME curr_state = "Data", Edge, TypeOK, Counters
    PROVE  /\ DOUT_VLD' = 0
           /\ bit_cnt = 8 =>
                 curr_state' = "Stop" /\ clk_cnt' = 1 /\ bit_cnt' = 8 /\ DOUT' = DOUT
           /\ bit_cnt < 8 /\ clk_cnt >= 15 =>
                 /\ curr_state' = "Data" /\ clk_cnt' = 0 /\ bit_cnt' = bit_cnt + 1
                 /\ DOUT' = [DOUT EXCEPT ![bit_cnt] = DIN]
           /\ bit_cnt < 8 /\ clk_cnt < 15 =>
                 /\ curr_state' = "Data" /\ clk_cnt' = clk_cnt + 1 /\ bit_cnt' = bit_cnt
                 /\ DOUT' = DOUT
<1>1. bit_cnt \in 0 .. 8 /\ clk_cnt \in 0 .. 31 /\ (bit_cnt = 8 => clk_cnt = 0)
    BY Types DEF Counters
<1>2. (Sampling <=> clk_cnt >= 15) /\ ~Announcing /\ activate_clk_cnt
    BY DEF Sampling, Announcing, activate_clk_cnt, activate_bit_cnt, valid_data
<1>3. clk_cnt < 15 => (clk_cnt + 1) % 32 = clk_cnt + 1
    BY <1>1
<1>4. (bit_cnt + 1) % 16 = bit_cnt + 1
    BY <1>1
<1>5. next_state = IF bit_cnt = 8 THEN "Stop" ELSE "Data"
    BY <1>1 DEF next_state
<1>6. DOUT_VLD' = 0 /\ curr_state' = next_state
    BY <1>2 DEF Edge
<1>7. CASE clk_cnt >= 15
    <2>1. clk_cnt' = 0 /\ bit_cnt' = bit_cnt + 1 /\ DOUT' = [DOUT EXCEPT ![bit_cnt] = DIN]
        BY <1>2, <1>4, <1>7 DEF Edge, NextClkCnt, NextBitCnt, NextDout
    <2> QED
        BY <1>1, <1>5, <1>6, <1>7, <2>1
<1>8. CASE clk_cnt < 15
    <2>1. clk_cnt' = clk_cnt + 1 /\ bit_cnt' = bit_cnt /\ DOUT' = DOUT
        BY <1>1, <1>2, <1>3, <1>8 DEF Edge, NextClkCnt, NextBitCnt, NextDout
    <2> QED
        BY <1>1, <1>5, <1>6, <1>8, <2>1
<1> QED
    BY <1>1, <1>7, <1>8

LEMMA StopEdge ==
    ASSUME curr_state = "Stop", Edge, TypeOK
    PROVE  /\ curr_state' = IF DIN = 1 THEN "Valid" ELSE "Stop"
           /\ clk_cnt' \in 0 .. 31 /\ bit_cnt' = bit_cnt /\ DOUT' = DOUT /\ DOUT_VLD' = 0
<1>1. ~Sampling /\ ~Announcing /\ activate_clk_cnt
    BY DEF Sampling, Announcing, activate_clk_cnt, activate_bit_cnt, valid_data
<1>2. next_state = IF DIN = 1 THEN "Valid" ELSE "Stop"
    BY DEF next_state
<1>3. (clk_cnt + 1) % 32 \in 0 .. 31
    BY Types
<1> QED
    BY <1>1, <1>2, <1>3 DEF Edge, NextClkCnt, NextBitCnt, NextDout

LEMMA ValidEdge ==
    ASSUME curr_state = "Valid", Edge, TypeOK, Counters
    PROVE  /\ curr_state' = "Idle" /\ clk_cnt' = 2 /\ bit_cnt' = 0
           /\ DOUT' = DOUT /\ DOUT_VLD' = 1
<1>1. ~Sampling /\ Announcing /\ ~activate_clk_cnt
    BY DEF Sampling, Announcing, activate_clk_cnt, activate_bit_cnt, valid_data, Counters
<1>2. next_state = "Idle"
    BY DEF next_state
<1> QED
    BY <1>1, <1>2 DEF Edge, NextClkCnt, NextBitCnt, NextDout

-----------------------------------------------------------------------------
(* The line *)

Advance == HoldBit \/ NextBit \/ Pause

LEMMA ElapsedIs ==
    ASSUME TypeOK
    PROVE  /\ Elapsed = slot * len + age
           /\ len = 16 => Elapsed = 16 * slot + age
           /\ len = 17 => Elapsed = 17 * slot + age
           /\ Elapsed \in Nat
<1>1. slot \in 0 .. 10 /\ age \in 0 .. 140 /\ len \in {16, 17}
    BY Types
<1> QED
    BY <1>1 DEF Elapsed

LEMMA LineType ==
    ASSUME TypeOK, InBit, Advance
    PROVE  /\ slot' \in 0 .. 10 /\ age' \in 0 .. 140 /\ InBit'
           /\ byte' = byte /\ len' = len
<1>1. slot \in 0 .. 10 /\ age \in 0 .. 140 /\ len \in {16, 17}
    BY Types
<1> QED
    BY <1>1 DEF Advance, HoldBit, NextBit, Pause, BitOver, FrameOver, InBit, Quiet, StopBit,
       ResyncClocks

LEMMA LineStep ==
    ASSUME TypeOK, InBit, Advance, slot # Quiet
    PROVE  \/ /\ slot' \in {slot, slot + 1} /\ slot' \in 0 .. 9
              /\ Elapsed' = Elapsed + 1
           \/ slot = 9 /\ slot' = 10 /\ age' = 0 /\ Elapsed = 10 * len - 1
<1>1. slot \in 0 .. 9 /\ age \in 0 .. 140 /\ len \in {16, 17}
    BY Types DEF Quiet
<1>2. CASE HoldBit
    BY <1>1, <1>2 DEF HoldBit, Elapsed, Quiet
<1>3. CASE NextBit
    BY <1>1, <1>3 DEF NextBit, BitOver, Elapsed, StopBit
<1>4. CASE Pause
    BY <1>1, <1>4 DEF Pause, FrameOver, BitOver, Elapsed, StopBit, Quiet
<1> QED
    BY <1>2, <1>3, <1>4 DEF Advance

(* A one that was on the line at the end of a byte stays there. *)
LEMMA LineStaysHigh ==
    ASSUME TypeOK, InBit, Advance, slot \in {8, 9}, DIN = 1, slot' \in {slot, slot + 1}
    PROVE  DIN' = 1
<1>1. slot' = 8 => slot = 8 /\ DIN = byte[7] /\ DIN' = byte'[7]
    <2> SUFFICES ASSUME slot' = 8 PROVE slot = 8 /\ DIN = byte[7] /\ DIN' = byte'[7]
        OBVIOUS
    <2>1. slot = 8
        OBVIOUS
    <2>2. DIN = byte[slot - 1]
        BY <2>1, Line
    <2>3. slot' \in 1 .. 8 => DIN' = byte'[slot' - 1]
        BY DEF DIN
    <2> QED
        BY <2>1, <2>2, <2>3
<1>2. slot' \in {9, 10} => DIN' = 1
    BY DEF DIN
<1>3. byte' = byte
    BY LineType
<1> QED
    BY <1>1, <1>2, <1>3

-----------------------------------------------------------------------------
(* The registers *)

LEMMA CountersStep == ASSUME TypeOK, Counters, Edge \/ Reset PROVE Counters'
<1>1. /\ clk_cnt \in 0 .. 31 /\ bit_cnt \in 0 .. 15
      /\ curr_state \in {"Idle", "Start", "Data", "Stop", "Valid"}
    BY Types
<1>2. CASE Reset
    BY <1>2 DEF Reset, Counters
<1>3. CASE Edge /\ curr_state = "Idle"
    BY <1>3, IdleEdge DEF Counters
<1>4. CASE Edge /\ curr_state = "Start"
    BY <1>4, StartEdge DEF Counters
<1>5. CASE Edge /\ curr_state = "Data"
    BY <1>1, <1>5, DataEdge DEF Counters
<1>6. CASE Edge /\ curr_state = "Stop"
    BY <1>6, StopEdge DEF Counters
<1>7. CASE Edge /\ curr_state = "Valid"
    BY <1>7, ValidEdge DEF Counters
<1> QED
    BY <1>1, <1>2, <1>3, <1>4, <1>5, <1>6, <1>7

LEMMA RegisterTypes ==
    ASSUME TypeOK, Counters, Edge \/ Reset
    PROVE  /\ curr_state' \in {"Idle", "Start", "Data", "Stop", "Valid"}
           /\ clk_cnt' \in 0 .. 31 /\ bit_cnt' \in 0 .. 15
           /\ DOUT' \in Bits /\ DOUT_VLD' \in {0, 1}
<1>1. /\ clk_cnt \in 0 .. 31 /\ bit_cnt \in 0 .. 15 /\ DOUT \in Bits
      /\ curr_state \in {"Idle", "Start", "Data", "Stop", "Valid"} /\ DIN \in {0, 1}
    BY Types, Line DEF Bits
<1>2. CASE Reset
    BY <1>2 DEF Reset, Zeros, Bits
<1>3. CASE Edge /\ curr_state = "Idle"
    BY <1>1, <1>3, IdleEdge
<1>4. CASE Edge /\ curr_state = "Start"
    BY <1>1, <1>4, StartEdge DEF Counters
<1>5. CASE Edge /\ curr_state = "Data"
    <2>1. bit_cnt < 8 => [DOUT EXCEPT ![bit_cnt] = DIN] \in Bits
        BY <1>1 DEF Bits
    <2> QED
        BY <1>1, <1>5, <2>1, DataEdge DEF Counters
<1>6. CASE Edge /\ curr_state = "Stop"
    BY <1>1, <1>6, StopEdge
<1>7. CASE Edge /\ curr_state = "Valid"
    BY <1>1, <1>7, ValidEdge
<1> QED
    BY <1>1, <1>2, <1>3, <1>4, <1>5, <1>6, <1>7

-----------------------------------------------------------------------------
(* A byte whose start bit was met *)

(* The eight samples lie in the eight data bits. *)
LEMMA SampleBit ==
    ASSUME TypeOK, Counters, InBit, InStep, slot # Quiet, Sampling
    PROVE  bit_cnt \in 0 .. 7 /\ slot = bit_cnt + 1 /\ DIN = byte[bit_cnt] /\ announced = 0
<1>1. /\ slot \in 0 .. 9 /\ age \in 0 .. 140 /\ len \in {16, 17} /\ clk_cnt \in 0 .. 31
      /\ age < len
    BY Types DEF InBit, Quiet
<1>2. curr_state = "Data" /\ clk_cnt >= 15
    BY DEF Sampling, activate_bit_cnt
<1>3. bit_cnt \in 0 .. 7 /\ announced = 0 /\ Elapsed = 24 + 16 * bit_cnt
    BY <1>1, <1>2 DEF Counters, InStep
<1>4. slot = bit_cnt + 1
    <2>1. len = 16 => 16 * slot + age = 24 + 16 * bit_cnt
        BY <1>3, ElapsedIs
    <2>2. len = 17 => 17 * slot + age = 24 + 16 * bit_cnt
        BY <1>3, ElapsedIs
    <2> QED
        BY <1>1, <1>3, <2>1, <2>2
<1>5. DIN = byte[slot - 1]
    BY <1>3, <1>4, Line
<1> QED
    BY <1>3, <1>4, <1>5

LEMMA InStepKept ==
    ASSUME TypeOK, Counters, InBit, InStep, Edge, Carry
    PROVE  InStep'
<1>1. Advance /\ announced' = announced + DOUT_VLD'
    BY DEF Carry, Advance
<1>2. /\ slot \in 0 .. 10 /\ age \in 0 .. 140 /\ len \in {16, 17} /\ clk_cnt \in 0 .. 31
      /\ curr_state \in {"Idle", "Start", "Data", "Stop", "Valid"}
      /\ byte \in [0 .. 7 -> {0, 1}] /\ DOUT \in [0 .. 7 -> {0, 1}]
    BY Types
<1>3. byte' = byte /\ len' = len
    BY <1>1, LineType
<1>4. CASE slot = Quiet
    <2>1. curr_state = "Idle" /\ announced = 1
        BY <1>4 DEF InStep
    <2>2. DIN = 1
        BY <1>4, Line DEF Quiet
    <2>3. slot' = Quiet
        BY <1>1, <1>4 DEF Advance, HoldBit, NextBit, Pause, BitOver
    <2>4. curr_state' = "Idle" /\ DOUT_VLD' = 0
        BY <2>1, <2>2, IdleEdge
    <2> QED
        BY <1>1, <2>1, <2>3, <2>4 DEF InStep
<1>5. CASE slot # Quiet
    <2> DEFINE Moves == slot' \in {slot, slot + 1} /\ slot' \in 0 .. 9 /\ Elapsed' = Elapsed + 1
    <2>1. Moves \/ (slot = 9 /\ slot' = Quiet /\ Elapsed = 10 * len - 1)
        BY <1>1, <1>5, LineStep DEF Quiet
    <2>2. Elapsed \in Nat /\ slot \in 0 .. 9
        BY <1>2, <1>5, ElapsedIs DEF Quiet
    <2>3. slot' \in 0 .. 9 => slot' # Quiet
        BY DEF Quiet
    <2>4. \A count : Heard(count) /\ DOUT' = DOUT => Heard(count)'
        BY <1>3 DEF Heard
    <2>5. CASE curr_state = "Idle" /\ MetStart
        <3>1. Elapsed = 0 /\ announced = 0
            BY <2>5 DEF MetStart
        <3>2. slot = 0 /\ DIN = 0
            BY <1>2, <2>2, <3>1, ElapsedIs, Line
        <3>3. curr_state' = "Start" /\ clk_cnt' = 2 /\ DOUT_VLD' = 0
            BY <2>5, <3>2, IdleEdge
        <3> QED
            BY <1>1, <2>1, <2>3, <3>1, <3>2, <3>3 DEF InStep
    <2>6. CASE curr_state = "Idle" /\ ByteDone
        <3>1. announced = 1 /\ slot \in {8, 9} /\ DIN = 1 /\ Heard(8)
            BY <2>6 DEF ByteDone
        <3>2. curr_state' = "Idle" /\ DOUT_VLD' = 0 /\ DOUT' = DOUT
            BY <2>6, <3>1, IdleEdge
        <3>3. announced' = 1 /\ Heard(8)'
            BY <1>1, <2>4, <3>1, <3>2
        <3>4. CASE Moves
            <4>1. slot' \in {8, 9} /\ DIN' = 1
                BY <1>1, <3>1, <3>4, LineStaysHigh
            <4> QED
                BY <2>3, <3>2, <3>3, <3>4, <4>1 DEF InStep, ByteDone
        <3>5. CASE slot' = Quiet
            BY <3>2, <3>3, <3>5 DEF InStep
        <3> QED
            BY <2>1, <3>4, <3>5
    <2>7. CASE curr_state = "Start"
        <3>1. Elapsed = clk_cnt - 1 /\ announced = 0 /\ clk_cnt <= 24
            BY <1>5, <2>7 DEF InStep, Counters
        <3>2. Moves
            BY <1>2, <2>1, <3>1
        <3>3. /\ curr_state' = IF clk_cnt = 24 THEN "Data" ELSE "Start"
              /\ clk_cnt' = clk_cnt + 1 /\ bit_cnt' = 0 /\ DOUT_VLD' = 0
            BY <2>7, StartEdge
        <3>4. Heard(0)'
            BY DEF Heard
        <3> QED
            BY <1>1, <1>2, <2>3, <3>1, <3>2, <3>3, <3>4 DEF InStep
    <2>8. CASE curr_state = "Data" /\ bit_cnt = 8
        <3>1. Elapsed = 137 /\ announced = 0 /\ Heard(8)
            BY <1>5, <2>8 DEF InStep, Counters
        <3>2. Moves
            BY <1>2, <2>1, <3>1
        <3>3. curr_state' = "Stop" /\ DOUT' = DOUT /\ DOUT_VLD' = 0
            BY <2>8, DataEdge
        <3>4. slot \in {7, 8}
            BY <1>2, <2>2, <3>1, ElapsedIs DEF InBit, Quiet
        <3>5. slot' \in {8, 9}
            BY <1>2, <1>3, <2>2, <3>1, <3>2, ElapsedIs, LineType DEF InBit, Quiet
        <3> QED
            BY <1>1, <1>2, <1>3, <2>3, <2>4, <3>1, <3>2, <3>3, <3>5 DEF InStep
    <2>9. CASE curr_state = "Data" /\ bit_cnt # 8 /\ clk_cnt >= 15
        <3>1. Sampling
            BY <2>9 DEF Sampling, activate_bit_cnt
        <3>2. bit_cnt \in 0 .. 7 /\ slot = bit_cnt + 1 /\ DIN = byte[bit_cnt] /\ announced = 0
            BY <1>5, <3>1, SampleBit
        <3>3. Elapsed = 24 + 16 * bit_cnt /\ Heard(bit_cnt)
            BY <1>2, <1>5, <2>9, <3>2 DEF InStep, Counters
        <3>4. Moves
            BY <2>1, <1>2, <3>2, <3>3
        <3>5. /\ curr_state' = "Data" /\ clk_cnt' = 0 /\ bit_cnt' = bit_cnt + 1 /\ DOUT_VLD' = 0
              /\ DOUT' = [DOUT EXCEPT ![bit_cnt] = DIN]
            BY <2>9, <3>2, DataEdge
        <3>6. \A k \in 0 .. 7 : k < bit_cnt + 1 => DOUT'[k] = byte[k]
            BY <1>2, <3>2, <3>3, <3>5 DEF Heard
        <3>7. Heard(bit_cnt)'
            BY <1>3, <3>5, <3>6 DEF Heard
        <3> QED
            BY <1>1, <2>3, <3>2, <3>3, <3>4, <3>5, <3>7 DEF InStep
    <2>10. CASE curr_state = "Data" /\ bit_cnt # 8 /\ clk_cnt < 15
        <3>1. bit_cnt \in 1 .. 7 /\ Elapsed = 9 + 16 * bit_cnt + clk_cnt /\ Heard(bit_cnt) /\ announced = 0
            BY <1>2, <1>5, <2>10 DEF InStep, Counters
        <3>2. Moves
            BY <1>2, <2>1, <2>10, <3>1
        <3>3. /\ curr_state' = "Data" /\ clk_cnt' = clk_cnt + 1 /\ bit_cnt' = bit_cnt /\ DOUT_VLD' = 0
              /\ DOUT' = DOUT
            BY <2>10, <3>1, DataEdge
        <3>4. Heard(bit_cnt)'
            BY <1>3, <3>1, <3>3 DEF Heard
        <3> QED
            BY <1>1, <1>2, <2>3, <3>1, <3>2, <3>3, <3>4 DEF InStep
    <2>11. CASE curr_state = "Stop"
        <3>1. slot \in {8, 9} /\ Heard(8) /\ Elapsed <= 9 * len /\ announced = 0
            BY <1>5, <2>11 DEF InStep
        <3>2. Moves
            BY <1>2, <2>1, <2>2, <3>1
        <3>3. /\ curr_state' = IF DIN = 1 THEN "Valid" ELSE "Stop"
              /\ DOUT' = DOUT /\ DOUT_VLD' = 0
            BY <2>11, StopEdge
        <3>4. Heard(8)' /\ announced' = 0 /\ slot' \in {8, 9}
            BY <1>1, <2>4, <3>1, <3>2, <3>3
        <3>5. CASE DIN = 1
            <4>1. DIN' = 1
                BY <1>1, <3>1, <3>2, <3>5, LineStaysHigh
            <4> QED
                BY <1>2, <1>3, <2>2, <2>3, <3>1, <3>2, <3>3, <3>4, <3>5, <4>1 DEF InStep
        <3>6. CASE DIN # 1
            <4>1. slot = 8
                BY <3>1, <3>6, Line
            <4>2. Elapsed + 1 <= 9 * len
                BY <1>2, <4>1, ElapsedIs DEF InBit, Quiet
            <4> QED
                BY <1>3, <2>3, <3>2, <3>3, <3>4, <3>6, <4>2 DEF InStep
        <3> QED
            BY <3>5, <3>6
    <2>12. CASE curr_state = "Valid"
        <3>1. slot \in {8, 9} /\ DIN = 1 /\ Heard(8) /\ Elapsed <= 9 * len + 1 /\ announced = 0
            BY <1>5, <2>12 DEF InStep
        <3>2. Moves
            BY <1>2, <2>1, <2>2, <3>1
        <3>3. curr_state' = "Idle" /\ DOUT' = DOUT /\ DOUT_VLD' = 1
            BY <2>12, ValidEdge
        <3>4. Heard(8)' /\ announced' = 1 /\ slot' \in {8, 9} /\ DIN' = 1
            BY <1>1, <2>4, <3>1, <3>2, <3>3, LineStaysHigh
        <3>5. ByteDone'
            BY <1>2, <1>3, <2>2, <3>1, <3>2, <3>4 DEF ByteDone
        <3> QED
            BY <2>3, <3>2, <3>3, <3>5 DEF InStep
    <2>13. curr_state = "Idle" => MetStart \/ ByteDone
        BY <1>5 DEF InStep
    <2>14. clk_cnt >= 15 \/ clk_cnt < 15
        BY <1>2
    <2> QED
        BY <1>2, <2>5, <2>6, <2>7, <2>8, <2>9, <2>10, <2>11, <2>12, <2>13, <2>14, Zenon
<1> QED
    BY <1>4, <1>5

-----------------------------------------------------------------------------
(* A quiet line *)

LEMMA RemainingIs ==
    /\ curr_state = "Idle" => Remaining = DOUT_VLD
    /\ curr_state = "Start" => Remaining = 142 - clk_cnt
    /\ curr_state = "Data" =>
           Remaining = IF bit_cnt = 0 THEN 117 ELSE 132 - 16 * bit_cnt - clk_cnt
    /\ curr_state = "Stop" => Remaining = 3
    /\ curr_state = "Valid" => Remaining = 2
BY Zenon DEF Remaining

LEMMA RemainingNext ==
    /\ curr_state' = "Idle" => Remaining' = DOUT_VLD'
    /\ curr_state' = "Start" => Remaining' = 142 - clk_cnt'
    /\ curr_state' = "Data" =>
           Remaining' = IF bit_cnt' = 0 THEN 117 ELSE 132 - 16 * bit_cnt' - clk_cnt'
    /\ curr_state' = "Stop" => Remaining' = 3
    /\ curr_state' = "Valid" => Remaining' = 2
BY Zenon DEF Remaining

LEMMA RemainingBound == ASSUME TypeOK, Counters PROVE Remaining \in 0 .. ResyncClocks
<1>1. /\ clk_cnt \in 0 .. 31 /\ DOUT_VLD \in {0, 1}
      /\ curr_state \in {"Idle", "Start", "Data", "Stop", "Valid"}
    BY Types
<1> QED
    BY <1>1, RemainingIs DEF Counters, ResyncClocks

LEMMA RemainingFalls ==
    ASSUME TypeOK, Counters, Edge, DIN = 1
    PROVE  Remaining' = IF Remaining = 0 THEN 0 ELSE Remaining - 1
<1>1. /\ clk_cnt \in 0 .. 31 /\ DOUT_VLD \in {0, 1}
      /\ curr_state \in {"Idle", "Start", "Data", "Stop", "Valid"}
    BY Types
<1>2. CASE curr_state = "Idle"
    BY <1>1, <1>2, IdleEdge, RemainingIs, RemainingNext
<1>3. CASE curr_state = "Start"
    BY <1>1, <1>3, StartEdge, RemainingIs, RemainingNext DEF Counters
<1>4. CASE curr_state = "Data"
    BY <1>1, <1>4, DataEdge, RemainingIs, RemainingNext DEF Counters
<1>5. CASE curr_state = "Stop"
    BY <1>5, StopEdge, RemainingIs, RemainingNext
<1>6. CASE curr_state = "Valid"
    BY <1>6, ValidEdge, RemainingIs, RemainingNext
<1> QED
    BY <1>1, <1>2, <1>3, <1>4, <1>5, <1>6

LEMMA RunsDryKept ==
    ASSUME TypeOK, TypeOK', Counters, Counters', RunsDry, Edge \/ Reset, Advance \/ slot' = 0
    PROVE  RunsDry'
<1> SUFFICES ASSUME slot' = Quiet PROVE Remaining' + age' <= 140
    BY DEF RunsDry, ResyncClocks
<1>0. \A r, a \in 0 .. 140 : r = 0 \/ a = 0 => r + a <= 140
    OBVIOUS
<1>1. slot \in 0 .. 10 /\ age \in 0 .. 140 /\ age' \in 0 .. 140
    BY Types DEF TypeOK, ResyncClocks
<1>2. Pause
    BY <1>1 DEF Advance, HoldBit, NextBit, BitOver, Quiet, StopBit
<1>3. CASE Reset
    <2>1. curr_state' = "Idle" /\ DOUT_VLD' = 0
        BY <1>3 DEF Reset
    <2>2. Remaining' = 0
        BY <2>1, RemainingNext
    <2>3. Remaining' \in 0 .. 140
        BY <2>2
    <2> QED
        BY <1>1, <1>0, <2>2, <2>3, Zenon
<1>4. CASE Edge /\ slot # Quiet
    <2>1. age' = 0
        BY <1>2, <1>4 DEF Pause
    <2>2. /\ clk_cnt' \in 0 .. 31 /\ DOUT_VLD' \in {0, 1} /\ bit_cnt' \in 0 .. 15
          /\ curr_state' \in {"Idle", "Start", "Data", "Stop", "Valid"}
        BY <1>4, RegisterTypes
    <2>3. Remaining' \in 0 .. 140
        BY <2>2, RemainingNext DEF Counters
    <2> QED
        BY <1>0, <1>1, <2>1, <2>3, Zenon
<1>5. CASE Edge /\ slot = Quiet
    <2>1. DIN = 1
        BY <1>5, Line DEF Quiet
    <2>2. Remaining' = IF Remaining = 0 THEN 0 ELSE Remaining - 1
        BY <1>5, <2>1, RemainingFalls
    <2>3. Remaining \in 0 .. 140 /\ Remaining + age <= 140
        BY <1>5, RemainingBound DEF RunsDry, ResyncClocks
    <2>4. age' = IF age < 140 THEN age + 1 ELSE age
        BY <1>2, <1>5 DEF Pause, ResyncClocks
    <2> QED
        BY <1>1, <2>2, <2>3, <2>4
<1> QED
    BY <1>3, <1>4, <1>5

-----------------------------------------------------------------------------
LEMMA InitIInv == Init => IInv
<1> SUFFICES ASSUME Init PROVE IInv
    OBVIOUS
<1>1. /\ byte = Zeros /\ slot = 10 /\ age = 0 /\ len = 16
      /\ curr_state = "Idle" /\ clk_cnt = 0 /\ bit_cnt = 0
      /\ DOUT = Zeros /\ DOUT_VLD = 0 /\ announced = 0 /\ synced = FALSE
    BY Zenon DEF Init, Quiet
<1>2. Zeros \in Bits
    BY DEF Zeros, Bits
<1>3. /\ 10 \in 0 .. 10 /\ 0 \in 0 .. 140 /\ 0 \in 0 .. 31 /\ 0 \in 0 .. 15 /\ 0 \in Nat
    OBVIOUS
<1>4. TypeOK
    BY <1>1, <1>2, <1>3, Zenon DEF TypeOK, Quiet, ResyncClocks
<1>5. Counters
    BY <1>1 DEF Counters
<1>6. InBit
    BY <1>1 DEF InBit
<1>7. RunsDry
    <2>1. Remaining = 0
        BY <1>1, RemainingIs
    <2> QED
        BY <1>1, <2>1 DEF RunsDry, ResyncClocks
<1> QED
    BY <1>1, <1>4, <1>5, <1>6, <1>7, Zenon DEF IInv, Synced

(* Every step is a step of the receiver and one of the line. *)
LEMMA StepParts ==
    ASSUME Next
    PROVE  /\ Edge \/ Reset
           /\ \/ Advance /\ announced' = announced + DOUT_VLD'
              \/ /\ slot' = 0 /\ age' = 0 /\ byte' \in Bytes /\ len' \in BitLengths
                 /\ announced' = 0
BY Zenon DEF Next, Listen, ResetWithin, BeginByte, BeginWithReset, Carry, Begin, StartBit, Advance

LEMMA TypeStep == ASSUME IInv, Next PROVE TypeOK' /\ InBit'
<1>1. TypeOK /\ Counters /\ InBit
    BY Zenon DEF IInv
<1>2. Edge \/ Reset
    BY StepParts
<1>3. /\ curr_state' \in {"Idle", "Start", "Data", "Stop", "Valid"}
      /\ clk_cnt' \in 0 .. 31 /\ bit_cnt' \in 0 .. 15
      /\ DOUT' \in Bits /\ DOUT_VLD' \in {0, 1}
    BY <1>1, <1>2, RegisterTypes
<1>4. synced' \in BOOLEAN
    <2>1. synced \in BOOLEAN
        BY <1>1, Zenon DEF TypeOK
    <2> QED
        BY <2>1, Zenon DEF Next, Listen, ResetWithin, BeginByte, BeginWithReset, Begin
<1>5. CASE Advance /\ announced' = announced + DOUT_VLD'
    <2>1. slot' \in 0 .. 10 /\ age' \in 0 .. 140 /\ InBit' /\ byte' = byte /\ len' = len
        BY <1>1, <1>5, LineType
    <2>2. byte \in Bits /\ len \in {16, 17} /\ announced \in Nat
        BY <1>1, Types DEF Bits
    <2>3. announced' \in Nat
        <3>1. \A v \in {0, 1} : announced + v \in Nat
            BY <2>2
        <3> QED
            BY <1>3, <1>5, <3>1, Zenon
    <2> QED
        BY <1>3, <1>4, <2>1, <2>2, <2>3, Zenon DEF TypeOK, Quiet, ResyncClocks
<1>6. CASE slot' = 0 /\ age' = 0 /\ byte' \in Bytes /\ len' \in BitLengths /\ announced' = 0
    <2>1. byte' \in Bits /\ len' \in {16, 17}
        BY <1>6, UartAssumption, Zenon DEF Bits
    <2>2. slot' \in 0 .. 10 /\ age' \in 0 .. 140 /\ announced' \in Nat
        BY <1>6
    <2>3. InBit'
        BY <1>6, <2>1 DEF InBit
    <2> QED
        BY <1>3, <1>4, <2>1, <2>2, <2>3, Zenon DEF TypeOK, Quiet, ResyncClocks
<1> QED
    BY <1>5, <1>6, StepParts, Zenon

LEMMA SyncedStep == ASSUME IInv, Next PROVE Synced'
<1> SUFFICES ASSUME synced' PROVE InStep'
    BY Zenon DEF Synced
<1>1. TypeOK /\ Counters /\ InBit /\ Synced
    BY Zenon DEF IInv
<1>2. CASE Listen
    <2>1. InStep /\ Edge /\ Carry
        BY <1>1, <1>2, Zenon DEF Listen, Synced
    <2> QED
        BY <1>1, <2>1, InStepKept
<1>3. CASE ResetWithin
    BY <1>3, Zenon DEF ResetWithin
<1>4. CASE BeginByte \/ BeginWithReset
    <2>1. curr_state' = "Idle" /\ slot' = 0 /\ age' = 0 /\ announced' = 0 /\ len' \in BitLengths
        BY <1>4, Zenon DEF BeginByte, BeginWithReset, Begin, StartBit
    <2>2. \A l \in {16, 17} : 0 * l + 0 = 0
        OBVIOUS
    <2>3. MetStart'
        BY <2>1, <2>2, UartAssumption, Zenon DEF MetStart, Elapsed
    <2> QED
        BY <2>1, <2>3 DEF InStep, Quiet
<1> QED
    BY <1>2, <1>3, <1>4, Zenon DEF Next

LEMMA NextIInv == IInv /\ [Next]_vars => IInv'
<1> SUFFICES ASSUME IInv, [Next]_vars PROVE IInv'
    OBVIOUS
<1>1. CASE Next
    <2>1. TypeOK /\ Counters /\ RunsDry /\ (Edge \/ Reset) /\ (Advance \/ slot' = 0)
        BY <1>1, StepParts, Zenon DEF IInv
    <2>2. TypeOK' /\ InBit' /\ Synced'
        BY <1>1, TypeStep, SyncedStep, Zenon
    <2>3. Counters'
        BY <2>1, CountersStep, Zenon
    <2>4. RunsDry'
        BY <2>1, <2>2, <2>3, RunsDryKept, Zenon
    <2> QED
        BY <2>2, <2>3, <2>4, Zenon DEF IInv
<1>2. CASE UNCHANGED vars
    BY <1>2, Zenon DEF vars, line, registers, IInv, TypeOK, Counters, InBit, Synced, InStep, MetStart,
       ByteDone, Heard, Elapsed, DIN, RunsDry, Remaining
<1> QED
    BY <1>1, <1>2

-----------------------------------------------------------------------------
(* IInv holds at every clock edge of UART_RX and its automaton. *)
THEOREM Invariance == Spec => []IInv
BY InitIInv, NextIInv, PTL DEF Spec

(* UART_RX stores data bit k of the line as bit k of DOUT, and never a bit     *)
(* that DOUT does not have.                                                    *)
THEOREM SampleTheorem == Spec => []SamplesRightBit
<1>1. IInv => SamplesRightBit
    <2> SUFFICES ASSUME IInv PROVE SamplesRightBit
        OBVIOUS
    <2>1. TypeOK /\ Counters /\ InBit /\ Synced
        BY Zenon DEF IInv
    <2>2. ASSUME Sampling PROVE bit_cnt \in DOMAIN DOUT
        <3>1. curr_state = "Data" /\ clk_cnt >= 15
            BY <2>2 DEF Sampling, activate_bit_cnt
        <3>2. bit_cnt \in 0 .. 7
            BY <2>1, <3>1 DEF Counters
        <3> QED
            BY <2>1, <3>2, Types
    <2>3. ASSUME synced, slot # Quiet, Sampling PROVE slot = bit_cnt + 1
        <3>1. InStep
            BY <2>1, <2>3, Zenon DEF Synced
        <3> QED
            BY <2>1, <2>3, <3>1, SampleBit
    <2> QED
        BY <2>1, <2>2, <2>3, Zenon DEF SamplesRightBit
<1> QED
    BY <1>1, Invariance, PTL

LEMMA FrameOverMeans ==
    ASSUME TypeOK, Counters, InBit, InStep, FrameOver
    PROVE  curr_state = "Idle" /\ bit_cnt = 0 /\ DOUT_VLD = 0 /\ announced = 1
<1>1. /\ slot \in 0 .. 10 /\ age \in 0 .. 140 /\ len \in {16, 17} /\ clk_cnt \in 0 .. 31
      /\ DOUT_VLD \in {0, 1} /\ curr_state \in {"Idle", "Start", "Data", "Stop", "Valid"}
    BY Types
<1>2. CASE slot = Quiet
    BY <1>2 DEF InStep, Counters
<1>3. CASE slot # Quiet
    <2>1. Elapsed = 10 * len - 1
        BY <1>1, <1>3, ElapsedIs DEF FrameOver, BitOver, StopBit
    <2>2. curr_state = "Idle"
        BY <1>1, <1>3, <2>1 DEF InStep, Counters
    <2>3. ByteDone
        BY <1>1, <1>3, <2>1, <2>2 DEF InStep, MetStart
    <2>4. DOUT_VLD = 0
        BY <1>1, <2>1, <2>3 DEF ByteDone
    <2> QED
        BY <2>2, <2>3, <2>4 DEF ByteDone, Counters
<1> QED
    BY <1>2, <1>3

(* DOUT_VLD rises once for every byte whose start bit the automaton met, while *)
(* DOUT is that byte and before its stop bit is over.                          *)
THEOREM AnnouncedTheorem == Spec => []AnnouncedOnceAsSent
<1>1. IInv => AnnouncedOnceAsSent
    <2> SUFFICES ASSUME IInv, synced
                 PROVE  /\ slot \in 1 .. 9 /\ DOUT_VLD = 1 => DOUT = byte
                        /\ announced <= 1
                        /\ FrameOver => announced = 1
        BY Zenon DEF AnnouncedOnceAsSent
    <2>1. TypeOK /\ Counters /\ InBit /\ InStep
        BY Zenon DEF IInv, Synced
    <2>2. announced <= 1
        BY <2>1 DEF InStep, MetStart, ByteDone
    <2>3. FrameOver => announced = 1
        BY <2>1, FrameOverMeans
    <2>4. ASSUME slot \in 1 .. 9, DOUT_VLD = 1 PROVE DOUT = byte
        <3>1. slot # Quiet /\ curr_state = "Idle"
            BY <2>1, <2>4 DEF Counters, Quiet
        <3>2. len \in {16, 17} /\ age \in 0 .. 140 /\ byte \in [0 .. 7 -> {0, 1}] /\ DOUT \in [0 .. 7 -> {0, 1}]
            BY <2>1, Types
        <3>3. ~MetStart
            BY <2>1, <2>4, <3>2, ElapsedIs DEF MetStart
        <3>4. Heard(8)
            BY <2>1, <3>1, <3>3 DEF InStep, ByteDone
        <3>5. \A k \in 0 .. 7 : DOUT[k] = byte[k]
            BY <3>4 DEF Heard
        <3> QED
            BY <3>2, <3>5
    <2> QED
        BY <2>2, <2>3, <2>4
<1> QED
    BY <1>1, Invariance, PTL

(* The automaton is back in Idle with bit_cnt cleared when a byte is over, and *)
(* ResyncClocks edges into a pause, however the reception began.               *)
THEOREM ReadyTheorem == Spec => []ReadyForNext
<1>1. IInv => ReadyForNext
    <2> SUFFICES ASSUME IInv PROVE ReadyForNext
        OBVIOUS
    <2>1. TypeOK /\ Counters /\ InBit /\ Synced /\ RunsDry
        BY Zenon DEF IInv
    <2>2. ASSUME synced, FrameOver PROVE curr_state = "Idle" /\ bit_cnt = 0 /\ DOUT_VLD = 0
        <3>1. InStep
            BY <2>1, <2>2, Zenon DEF Synced
        <3> QED
            BY <2>1, <2>2, <3>1, FrameOverMeans
    <2>3. ASSUME slot = Quiet, age = ResyncClocks
          PROVE  curr_state = "Idle" /\ bit_cnt = 0 /\ DOUT_VLD = 0
        <3>1. Remaining \in 0 .. 140 /\ Remaining + 140 <= 140
            BY <2>1, <2>3, RemainingBound DEF RunsDry, ResyncClocks
        <3>2. Remaining = 0
            BY <3>1
        <3>3. /\ curr_state \in {"Idle", "Start", "Data", "Stop", "Valid"} /\ clk_cnt \in 0 .. 31
              /\ DOUT_VLD \in {0, 1}
            BY <2>1, Types
        <3>4. curr_state = "Idle"
            BY <2>1, <3>2, <3>3, RemainingIs DEF Counters
        <3> QED
            BY <2>1, <3>2, <3>4, RemainingIs DEF Counters
    <2> QED
        BY <2>2, <2>3, Zenon DEF ReadyForNext
<1> QED
    BY <1>1, Invariance, PTL

(* DOUT keeps an announced byte up to the first data bit of the next one:      *)
(* apart from RST it changes only at a sample of a byte not yet announced.     *)
THEOREM HoldsTheorem == Spec => HoldsAnnouncedByte
<1>1. ASSUME IInv, [Next]_vars
      PROVE  [synced /\ DOUT' # DOUT => Reset \/ (announced = 0 /\ slot \in 1 .. 8)]_vars
    <2> SUFFICES ASSUME Next, synced, DOUT' # DOUT, ~Reset PROVE announced = 0 /\ slot \in 1 .. 8
        BY <1>1, Zenon
    <2>1. TypeOK /\ Counters /\ InBit /\ InStep
        BY <1>1, Zenon DEF IInv, Synced
    <2>2. Edge
        BY StepParts, Zenon
    <2>3. Sampling
        BY <2>2, Zenon DEF Edge, NextDout
    <2>4. slot # Quiet
        BY <2>1, <2>3 DEF InStep, Sampling, activate_bit_cnt
    <2>5. bit_cnt \in 0 .. 7 /\ slot = bit_cnt + 1 /\ announced = 0
        BY <2>1, <2>3, <2>4, SampleBit
    <2> QED
        BY <2>5
<1> QED
    BY <1>1, Invariance, PTL DEF Spec, HoldsAnnouncedByte
=============================================================================
