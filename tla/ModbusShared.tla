---------------------------- MODULE ModbusShared ----------------------------
(***************************************************************************)
(* app/user/modbus.c with its two users: modbus_send, called from the      *)
(* network callbacks in the task, and modbus_receive, called from the UART *)
(* interrupt.  Both run modbus_crc16 on the same globals crcH, crcL and    *)
(* idx.  The interrupt runs to completion between any two statements of    *)
(* the task's loop.                                                        *)
(*                                                                         *)
(* The race is undefined behaviour: the build may keep the three globals   *)
(* in registers during the task's loop, or work on memory.  inRegisters is *)
(* the choice it made.                                                     *)
(***************************************************************************)
EXTENDS Integers, Sequences, SequencesExt, Bitwise

(* The CRC: the two tables as they stand in the code, the step per byte,    *)
(* and the CRC of a frame.  crcH, crcL and idx are one record.             *)

Byte == 0 .. 255

auchCRCHi == <<
      0, 193, 129,  64,   1, 192, 128,  65,   1, 192, 128,  65,   0, 193, 129,  64,
      1, 192, 128,  65,   0, 193, 129,  64,   0, 193, 129,  64,   1, 192, 128,  65,
      1, 192, 128,  65,   0, 193, 129,  64,   0, 193, 129,  64,   1, 192, 128,  65,
      0, 193, 129,  64,   1, 192, 128,  65,   1, 192, 128,  65,   0, 193, 129,  64,
      1, 192, 128,  65,   0, 193, 129,  64,   0, 193, 129,  64,   1, 192, 128,  65,
      0, 193, 129,  64,   1, 192, 128,  65,   1, 192, 128,  65,   0, 193, 129,  64,
      0, 193, 129,  64,   1, 192, 128,  65,   1, 192, 128,  65,   0, 193, 129,  64,
      1, 192, 128,  65,   0, 193, 129,  64,   0, 193, 129,  64,   1, 192, 128,  65,
      1, 192, 128,  65,   0, 193, 129,  64,   0, 193, 129,  64,   1, 192, 128,  65,
      0, 193, 129,  64,   1, 192, 128,  65,   1, 192, 128,  65,   0, 193, 129,  64,
      0, 193, 129,  64,   1, 192, 128,  65,   1, 192, 128,  65,   0, 193, 129,  64,
      1, 192, 128,  65,   0, 193, 129,  64,   0, 193, 129,  64,   1, 192, 128,  65,
      0, 193, 129,  64,   1, 192, 128,  65,   1, 192, 128,  65,   0, 193, 129,  64,
      1, 192, 128,  65,   0, 193, 129,  64,   0, 193, 129,  64,   1, 192, 128,  65,
      1, 192, 128,  65,   0, 193, 129,  64,   0, 193, 129,  64,   1, 192, 128,  65,
      0, 193, 129,  64,   1, 192, 128,  65,   1, 192, 128,  65,   0, 193, 129,  64>>

auchCRCLo == <<
      0, 192, 193,   1, 195,   3,   2, 194, 198,   6,   7, 199,   5, 197, 196,   4,
    204,  12,  13, 205,  15, 207, 206,  14,  10, 202, 203,  11, 201,   9,   8, 200,
    216,  24,  25, 217,  27, 219, 218,  26,  30, 222, 223,  31, 221,  29,  28, 220,
     20, 212, 213,  21, 215,  23,  22, 214, 210,  18,  19, 211,  17, 209, 208,  16,
    240,  48,  49, 241,  51, 243, 242,  50,  54, 246, 247,  55, 245,  53,  52, 244,
     60, 252, 253,  61, 255,  63,  62, 254, 250,  58,  59, 251,  57, 249, 248,  56,
     40, 232, 233,  41, 235,  43,  42, 234, 238,  46,  47, 239,  45, 237, 236,  44,
    228,  36,  37, 229,  39, 231, 230,  38,  34, 226, 227,  35, 225,  33,  32, 224,
    160,  96,  97, 161,  99, 163, 162,  98, 102, 166, 167, 103, 165, 101, 100, 164,
    108, 172, 173, 109, 175, 111, 110, 174, 170, 106, 107, 171, 105, 169, 168, 104,
    120, 184, 185, 121, 187, 123, 122, 186, 190, 126, 127, 191, 125, 189, 188, 124,
    180, 116, 117, 181, 119, 183, 182, 118, 114, 178, 179, 115, 177, 113, 112, 176,
     80, 144, 145,  81, 147,  83,  82, 146, 150,  86,  87, 151,  85, 149, 148,  84,
    156,  92,  93, 157,  95, 159, 158,  94,  90, 154, 155,  91, 153,  89,  88, 152,
    136,  72,  73, 137,  75, 139, 138,  74,  78, 142, 143,  79, 141,  77,  76, 140,
     68, 132, 133,  69, 135,  71,  70, 134, 130,  66,  67, 131,  65, 129, 128,  64>>

\* The state that modbus_crc16_init sets and modbus_crc16 starts from.
Reset == [crcH |-> 255, crcL |-> 255, idx |-> 0]

\* idx = crcL ^ byte;
WithIdx(crc, byte) == [crc EXCEPT !.idx = crc.crcL ^^ byte]

\* crcL = crcH ^ auchCRCHi[idx];
WithLow(crc) == [crc EXCEPT !.crcL = crc.crcH ^^ auchCRCHi[crc.idx + 1]]

\* crcH = auchCRCLo[idx];
WithHigh(crc) == [crc EXCEPT !.crcH = auchCRCLo[crc.idx + 1]]

\* The body of the loop, and modbus_crc16_once.
Fed(crc, byte) == WithHigh(WithLow(WithIdx(crc, byte)))

\* crcH << 8 | crcL
Value(crc) == 256 * crc.crcH + crc.crcL

modbus_crc16(buf) == Value(FoldLeft(Fed, Reset, buf))

-----------------------------------------------------------------------------
(* The reference: CRC-16 with the reflected polynomial x^16+x^15+x^2+1, bit *)
(* by bit, as the Modbus protocol defines it.                              *)

ShiftedOut(r) ==
  IF r % 2 = 1 THEN (r \div 2) ^^ 40961 ELSE r \div 2

ReferenceFed(r, byte) ==
  FoldLeft(LAMBDA x, k : ShiftedOut(x), r ^^ byte, <<1, 2, 3, 4, 5, 6, 7, 8>>)

ReferenceCrc(buf) == FoldLeft(ReferenceFed, 65535, buf)

\* The 512 table entries are right: from the state that modbus_crc16_init sets,
\* each of the 256 next bytes gives what the bitwise definition gives.  (A step
\* looks both tables up at crcL ^ byte, so that all the entries are used.)
TablesRight ==
  \A byte \in Byte : Value(Fed(Reset, byte)) = ReferenceFed(65535, byte)

-----------------------------------------------------------------------------
(* The two users. *)

CONSTANT Frames    \* the byte strings sent and received

VARIABLES
  mem,          \* the globals crcH, crcL and idx
  reg,          \* the registers the task may keep them in
  inRegisters,  \* the build's choice
  pc,           \* the statement modbus_send executes next
  buf, i,       \* its frame and the next byte of it
  uart,         \* the frames given to uart0_send_byte: the last one, and how
                \* many bytes of it are out
  net           \* the last frame given to modbus_recv_frame_cb

(* History, used by the properties only. *)
VARIABLE interrupted   \* a frame was received since modbus_send began

vars == <<mem, reg, inRegisters, pc, buf, i, uart, net, interrupted>>

Silent == [frame |-> <<>>, out |-> 0]

Init ==
  /\ mem = Reset /\ reg = Reset
  /\ inRegisters \in BOOLEAN
  /\ pc = "idle" /\ buf = <<>> /\ i = 0
  /\ uart = Silent /\ net = <<>>
  /\ interrupted = FALSE

-----------------------------------------------------------------------------
(* The interrupt *)

\* modbus_receive: a frame is passed on if its CRC is 0.
modbus_receive(frame) ==
  LET crc == FoldLeft(Fed, Reset, frame)
  IN  /\ mem' = crc
      /\ net' = IF Value(crc) = 0 THEN frame ELSE net
      /\ interrupted' = (pc # "idle")
      /\ UNCHANGED <<reg, inRegisters, pc, buf, i, uart>>

-----------------------------------------------------------------------------
(* The task *)

\* The copy of the globals the task's loop works on.
Task == IF inRegisters THEN reg ELSE mem

SetTask(value) ==
  IF inRegisters THEN reg' = value /\ UNCHANGED mem
  ELSE mem' = value /\ UNCHANGED reg

modbus_sendNoReset(frame) ==
  /\ pc = "idle"
  /\ SetTask(Task)
  /\ buf' = frame /\ i' = 1 /\ pc' = "loop"
  /\ uart' = Silent /\ interrupted' = FALSE
  /\ UNCHANGED <<inRegisters, net>>

\* modbus_send calls modbus_crc16, which resets the globals.
modbus_send(frame) ==
  /\ pc = "idle"
  /\ SetTask(Reset)
  /\ buf' = frame
  /\ i' = 1
  /\ pc' = "loop"
  /\ uart' = Silent
  /\ interrupted' = FALSE
  /\ UNCHANGED <<inRegisters, net>>

\* idx = crcL ^ *buf++;
SetIdx ==
  /\ pc = "loop" /\ i <= Len(buf)
  /\ SetTask(WithIdx(Task, buf[i]))
  /\ i' = i + 1
  /\ pc' = "low"
  /\ UNCHANGED <<inRegisters, buf, uart, net, interrupted>>

\* crcL = crcH ^ auchCRCHi[idx];
SetLow ==
  /\ pc = "low"
  /\ SetTask(WithLow(Task))
  /\ pc' = "high"
  /\ UNCHANGED <<inRegisters, buf, i, uart, net, interrupted>>

\* crcH = auchCRCLo[idx];
SetHigh ==
  /\ pc = "high"
  /\ SetTask(WithHigh(Task))
  /\ pc' = "loop"
  /\ UNCHANGED <<inRegisters, buf, i, uart, net, interrupted>>

\* The loop is over: the frame is sent if the result is 0.  Registers are
\* written back to the globals.
Verdict ==
  /\ pc = "loop" /\ i > Len(buf)
  /\ pc' = IF Value(Task) = 0 THEN "send" ELSE "idle"
  /\ mem' = Task
  /\ UNCHANGED <<reg, inRegisters, buf, i, uart, net, interrupted>>

\* One uart0_send_byte.
SendByte ==
  /\ pc = "send" /\ uart.out < Len(buf)
  /\ uart' = [frame |-> buf, out |-> uart.out + 1]
  /\ pc' = IF uart.out + 1 = Len(buf) THEN "idle" ELSE "send"
  /\ UNCHANGED <<mem, reg, inRegisters, buf, i, net, interrupted>>

Next ==
  \/ \E frame \in Frames : modbus_receive(frame) \/ modbus_send(frame)
  \/ SetIdx \/ SetLow \/ SetHigh \/ Verdict \/ SendByte

Spec == Init /\ [][Next]_vars

-----------------------------------------------------------------------------
(* Properties *)

\* modbus_send puts a frame on the bus exactly if its CRC, as the protocol
\* defines it bit by bit, is 0, unless a frame came in while the loop ran on
\* the globals themselves.
VerdictRight ==
  (pc = "loop" /\ pc' \in {"send", "idle"}) =>
    \/ (pc' = "send") = (ReferenceCrc(buf) = 0)
    \/ interrupted /\ ~ inRegisters
SendVerdictRight == [][VerdictRight]_vars
=============================================================================
