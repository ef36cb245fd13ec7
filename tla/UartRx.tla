------------------------------- MODULE UartRx -------------------------------
(***************************************************************************)
(* The receive side of app/user/user_uart.c: the UART's FIFO and status    *)
(* bits, and uart_intr_handler, which empties the FIFO into the buffer     *)
(* that modbus_receive gets.                                               *)
(*                                                                         *)
(* Modbus marks the end of a frame by silence: the UART raises the timeout *)
(* when it has been idle for frame_interval bits.  It also raises a bit    *)
(* when the FIFO reaches the threshold, and one when it overflows.  The    *)
(* bits stay set until software clears them, as app/driver/uart.c takes    *)
(* for granted; of the receive bits uart_intr_handler clears the timeout   *)
(* and the frame error only.                                               *)
(*                                                                         *)
(* The handler may come late, and bytes go on arriving while it runs, but  *)
(* it is over before the line has been idle for a frame interval.  The     *)
(* handler's last part serves UART1, the debug port, whose status and      *)
(* FIFO are its own: it is left out.                                       *)
(***************************************************************************)
EXTENDS Integers, Sequences

CONSTANTS
  Depth,       \* bytes the FIFO holds, 128
  Threshold,   \* UART_RXFIFO_FULL_THRHD as set, 96
  MaxFrame,    \* the longest frame on the bus
  Errors       \* whether bytes with a bad stop bit occur

UartAssumption ==
  /\ Threshold \in Nat \ {0}
  /\ Depth \in Nat /\ Threshold <= Depth
  /\ MaxFrame \in Nat \ {0}
  /\ Errors \in BOOLEAN

VARIABLES
  line,      \* the frame on the bus: its length, and how much of it is over
  fifo,
  tout, full, ovf, frm_err, tx_empty,   \* the bits of UART_INT_ST
  handler,        \* "read": the handler is emptying the FIFO
  fifo_len,       \* the FIFO count it read
  rx         \* p_rx_buffer, as last handed to uart0_rx_cb when handler is "idle"

(* History, used by the properties only. *)
VARIABLE late   \* a frame began before the previous one was taken from the
                \* FIFO, and the FIFO has not been found empty between two
                \* frames since

status == <<tout, full, ovf, frm_err, tx_empty>>
uartVars == <<line, fifo, tout, full, ovf, frm_err, tx_empty, handler, fifo_len, rx, late>>

\* A byte, by its place in its frame.
Byte(n, k) == [n |-> n, k |-> k]

UartInit ==
  /\ line = [n |-> 0, k |-> 0]
  /\ fifo = <<>>
  /\ tout = FALSE /\ full = FALSE /\ ovf = FALSE /\ frm_err = FALSE
  /\ tx_empty = TRUE
  /\ handler = "idle" /\ fifo_len = 0 /\ rx = <<>>
  /\ late = FALSE

-----------------------------------------------------------------------------
(* The UART (external) *)

\* A frame is over when the line has been silent; n = 0 stands for that.
Silent == line.n = 0

Receive(n, k, bad) ==
  /\ line' = [n |-> n, k |-> k]
  /\ IF Len(fifo) < Depth
     THEN fifo' = Append(fifo, Byte(n, k)) /\ UNCHANGED ovf
     ELSE ovf' = TRUE /\ UNCHANGED fifo
  /\ full' = (full \/ Len(fifo') >= Threshold)
  /\ frm_err' = (frm_err \/ bad)
  /\ UNCHANGED <<tout, tx_empty, handler, fifo_len, rx>>

\* The first byte of a frame, and the bytes after it.
FrameBegins(n, bad) ==
  /\ Silent
  /\ Receive(n, 1, bad)
  /\ late' = (fifo # <<>> \/ handler = "read")

FrameGoesOn(bad) ==
  /\ ~ Silent /\ line.k < line.n
  /\ Receive(line.n, line.k + 1, bad)
  /\ UNCHANGED late

\* The frame interval has passed.
Silence ==
  /\ ~ Silent /\ line.k = line.n
  /\ handler = "idle"
  /\ line' = [n |-> 0, k |-> 0]
  /\ tout' = (tout \/ fifo # <<>>)
  /\ UNCHANGED <<fifo, full, ovf, frm_err, tx_empty, handler, fifo_len, rx, late>>

-----------------------------------------------------------------------------
(* uart_intr_handler *)

\* A frame error hides every other bit until the handler is called again.
IntrFrameError ==
  /\ handler = "idle" /\ frm_err
  /\ frm_err' = FALSE
  /\ UNCHANGED <<line, fifo, tout, full, ovf, tx_empty, handler, fifo_len, rx, late>>

IntrReceiveFullOnly ==
  /\ handler = "idle" /\ ~ frm_err
  /\ full \/ ovf
  /\ rx' = <<>> /\ fifo_len' = Len(fifo) /\ handler' = "read"
  /\ UNCHANGED <<line, fifo, late>> /\ UNCHANGED status

\* Timeout, overflow or threshold: read the count ...
IntrReceive ==
  /\ handler = "idle" /\ ~ frm_err
  /\ tout \/ ovf \/ full
  /\ rx' = <<>>
  /\ fifo_len' = Len(fifo)
  /\ handler' = "read"
  /\ UNCHANGED <<line, fifo, late>>
  /\ UNCHANGED status

\* ... then that many bytes ...
IntrRead ==
  /\ handler = "read" /\ Len(rx) < fifo_len
  /\ rx' = Append(rx, Head(fifo))
  /\ fifo' = Tail(fifo)
  /\ UNCHANGED <<line, handler, fifo_len, late>>
  /\ UNCHANGED status

IntrDoneEarly ==
  /\ handler = "read" /\ Len(rx) + 1 >= fifo_len
  /\ tout' = FALSE /\ handler' = "idle"
  /\ UNCHANGED <<line, fifo, full, ovf, frm_err, tx_empty, fifo_len, rx, late>>

\* ... then clear the timeout, and only it, and call uart0_rx_cb.
IntrDone ==
  /\ handler = "read" /\ Len(rx) = fifo_len
  /\ tout' = FALSE
  /\ handler' = "idle"
  /\ UNCHANGED <<line, fifo, full, ovf, frm_err, tx_empty, fifo_len, rx, late>>

\* Nothing to receive: the transmit FIFO has run empty.  The interrupt is
\* disabled for good (no uart0_tx_empty_cb is set).
IntrTxEmpty ==
  /\ handler = "idle" /\ ~ (frm_err \/ tout \/ ovf \/ full)
  /\ tx_empty
  /\ tx_empty' = FALSE
  /\ UNCHANGED <<line, fifo, tout, full, ovf, frm_err, handler, fifo_len, rx, late>>

uart_intr_handler ==
  IntrFrameError \/ IntrReceive \/ IntrRead \/ IntrDone \/ IntrTxEmpty

UartNext ==
  \/ \E bad \in {FALSE, Errors} :
       FrameGoesOn(bad) \/ \E n \in 1 .. MaxFrame : FrameBegins(n, bad)
  \/ Silence
  \/ uart_intr_handler

\* A pending interrupt is served, and a frame that began comes to its end.
UartFairness ==
  /\ WF_uartVars(uart_intr_handler)
  /\ WF_uartVars(FrameGoesOn(FALSE))
  /\ WF_uartVars(Silence)

UartSpec == UartInit /\ [][UartNext]_uartVars /\ UartFairness

-----------------------------------------------------------------------------
(* Properties *)

FrameBytes == [n : 1 .. MaxFrame, k : 1 .. MaxFrame]

\* Consecutive bytes of a buffer belong together: the next byte of the same
\* frame, or the first of the next frame after the last.
Joined(b, c) ==
  IF b.k = b.n THEN c.k = 1 ELSE c.n = b.n /\ c.k = b.k + 1

\* No byte is lost, doubled or moved on its way through the FIFO, unless the
\* FIFO overflows.
InOrder ==
  LET on == IF handler = "read" THEN rx \o fifo ELSE fifo
  IN  ovf \/ \A i \in 1 .. Len(on) - 1 : Joined(on[i], on[i + 1])

\* uart0_rx_cb gets exactly one whole frame each time, as modbus_receive
\* needs for its CRC, unless the threshold was ever reached (the bit is never
\* cleared, so that from then on frames are cut) or the handler was so late
\* that the next frame had begun; and the bytes stay in order.
WholeFrame ==
  (handler = "read" /\ handler' = "idle" /\ ~ full /\ ~ ovf /\ ~ late) =>
    /\ rx' # <<>>
    /\ Len(rx') = rx'[1].n
    /\ rx'[1].k = 1
OneFrameAtATime == [][InOrder' /\ WholeFrame]_uartVars

\* No byte stays in the FIFO: the handler comes for it, however short the
\* frame, unless frame errors keep hiding the other bits.
FifoServed == []<>(fifo = <<>> \/ handler = "read" \/ frm_err)

\* The receive interrupt subsides, so that the task can run, as long as the
\* threshold is not reached and frame errors stop.
InterruptSubsides ==
  []<>(full \/ ovf \/ frm_err \/ (~ tout /\ handler = "idle"))
=============================================================================
