------------------------------ MODULE BleUart ------------------------------
(***************************************************************************)
(* The BLE link: the interrupt handler ble_isr, the functions of BLE.c     *)
(* that the main program calls, and the UART component in HDL/BLE with its *)
(* two FIFOs, its interrupt line and its framing error flag.               *)
(*                                                                         *)
(* The handler makes at most READS turns; each turn looks at the error     *)
(* flag, at the transmit FIFO and at the receive FIFO, and the hardware    *)
(* moves between these reads.  The main program does not run while the     *)
(* handler does, and what it does with the interrupt masked is one action. *)
(***************************************************************************)
EXTENDS Naturals, Sequences

CONSTANTS
  SIZE,      \* STANDARD_BLE_BUFFER_SIZE
  CONSOLE,   \* BUFFER_SIZE of the console that reads the lines
  READS,     \* MAX_READS_WRITES_ON_ONE_ISR
  TXDEPTH,   \* bytes the transmit FIFO can hold
  RXDEPTH,   \* bytes the receive FIFO can hold
  NL, Chr, Nul,  \* the bytes: '\n', any other, 0
  Message,   \* what BLE_send_data is called with, up to its '\n' or its end
  Banner     \* the chunks of the line that init_BLE prints

(* Every call in the program passes at least two bytes: with one the       *)
(* handler would send the buffer to its end (write_pos starts at 1).       *)
ASSUME BleConstantsOK ==
  /\ {SIZE, CONSOLE, READS, TXDEPTH, RXDEPTH} \subseteq Nat \ {0}
  /\ SIZE > 1 /\ TXDEPTH > 1
  /\ Message \subseteq Seq({NL, Chr}) /\ \A m \in Message : Len(m) \in 2 .. SIZE
  /\ Banner \in Seq(Seq({NL, Chr})) /\ Len(Banner) > 0
  /\ \A i \in DOMAIN Banner : Len(Banner[i]) \in 2 .. SIZE

VARIABLES
  \* BLE_UART_t
  message_in, read_pos, read_len, read_rdy,
  message_out, write_pos, write_len, operation,
  \* hardware
  tx,         \* bytes in the transmit FIFO and the shift register
  rx,         \* the receive FIFO
  error,      \* BLEUART_error_catcher
  irq,        \* the interrupt line
  connected,  \* the status pin of the module
  \* control
  isr,        \* where the handler is
  turn,       \* its loop counter
  fresh,      \* bytes it has written in this run
  gone,       \* a byte has left during this run
  pc,         \* where the main program is
  chunk,      \* the chunk of Banner that is printed
  registered, \* the handler is installed
  \* history
  cur,        \* the message that is being transmitted
  told,       \* its bytes that entered the FIFO
  dropped,    \* the FIFO was full for its first byte
  line, last  \* bytes since '\n' or the end of the buffer; the last line

inVars   == <<message_in, read_pos, read_len, read_rdy, line, last>>
outVars  == <<message_out, write_pos, write_len, operation, cur, told, dropped>>
isrVars  == <<isr, turn, fresh, gone>>
mainVars == <<pc, chunk, registered>>
vars == <<inVars, outVars, tx, rx, error, irq, connected, isrVars, mainVars>>

Byte == {NL, Chr, Nul}
Cells == 0 .. SIZE - 1

(* main() is about to call init_BLE for the first time: buart is a local   *)
(* of main() that nothing has initialised.                                 *)
Init ==
  /\ message_in = [n \in Cells |-> Nul] /\ message_out = [n \in Cells |-> Nul]
  /\ read_pos = 0 /\ read_len = 0 /\ read_rdy \in BOOLEAN
  /\ write_pos = 0 /\ write_len = 0 /\ operation \in {"none", "write"}
  /\ tx = 0 /\ rx = <<>> /\ error = FALSE /\ irq = FALSE
  /\ connected \in BOOLEAN
  /\ isr = "idle" /\ turn = 0 /\ fresh = 0 /\ gone = FALSE
  /\ pc = "init" /\ chunk = 1 /\ registered = FALSE
  /\ cur = <<>> /\ told = <<>> /\ dropped = FALSE
  /\ line = <<>> /\ last = <<>>

-----------------------------------------------------------------------------
(* Hardware *)

(* A byte arrives; its stop bit may be wrong.  A full FIFO drops it. *)
HwReceive ==
  /\ \E b \in {NL, Chr}, bad \in BOOLEAN :
       /\ rx' = IF Len(rx) < RXDEPTH THEN Append(rx, b) ELSE rx
       /\ error' = (error \/ bad)
  /\ irq' = TRUE
  /\ UNCHANGED <<inVars, outVars, tx, connected, isrVars, mainVars>>

(* Mutant: the interrupt is not raised when a byte has left. *)
M_HwSent ==
  /\ tx > fresh
  /\ isr # "idle" => ~gone
  /\ gone' = (isr # "idle")
  /\ tx' = tx - 1 /\ UNCHANGED irq
  /\ UNCHANGED <<inVars, outVars, rx, error, connected, isr, turn, fresh,
                 mainVars>>

(* A byte has left.  That takes longer than one run of the handler: at     *)
(* most one leaves during a run, and none that the run has written.        *)
HwSent ==
  /\ tx > fresh
  /\ isr # "idle" => ~gone
  /\ gone' = (isr # "idle")
  /\ tx' = tx - 1 /\ irq' = TRUE
  /\ UNCHANGED <<inVars, outVars, rx, error, connected, isr, turn, fresh,
                 mainVars>>

(* A central connects or leaves. *)
HwLink == /\ connected' = ~connected
          /\ UNCHANGED <<inVars, outVars, tx, rx, error, irq, isrVars, mainVars>>

(* A write to BLE_BYTE_SEND; every access to a FIFO clears the error. *)
Transmit(b) ==
  /\ error' = FALSE
  /\ IF tx < TXDEPTH
     THEN tx' = tx + 1 /\ told' = Append(told, b)
     ELSE UNCHANGED <<tx, told>>

-----------------------------------------------------------------------------
(* ble_isr *)

IsrEnter ==
  /\ isr = "idle" /\ irq /\ registered
  /\ isr' = "check" /\ UNCHANGED <<turn, fresh, gone>>
  /\ UNCHANGED <<inVars, outVars, tx, rx, error, irq, connected, mainVars>>

IsrCheck ==                  \* for (...) if((*BLE_STATUS & 0x4) == 0)
  /\ isr = "check" /\ turn < READS /\ ~error
  /\ isr' = "write"
  /\ UNCHANGED <<inVars, outVars, tx, rx, error, irq, connected, turn, fresh,
                 gone, mainVars>>

IsrError ==                  \* else: everything but operation is reset
  /\ isr = "check" /\ turn < READS /\ error
  /\ read_len' = 0 /\ read_pos' = 0 /\ read_rdy' = FALSE
  /\ write_len' = 0 /\ write_pos' = 0
  /\ line' = <<>> /\ isr' = "return"
  /\ UNCHANGED <<message_in, last, message_out, operation, cur, told, dropped,
                 tx, rx, error, irq, connected, turn, fresh, gone,
                 mainVars>>

IsrWrite ==                  \* one byte, if the FIFO has room for it
  /\ isr = "write" /\ operation = "write"
  /\ read_rdy' = FALSE
  /\ IF tx < TXDEPTH
     THEN /\ Transmit(message_out[write_pos])
          /\ write_pos' = write_pos + 1
          /\ operation' = IF write_pos + 1 \in {SIZE, write_len}
                          THEN "none" ELSE "write"
          /\ fresh' = fresh + 1
     ELSE UNCHANGED <<error, tx, told, write_pos, operation, fresh>>
  /\ isr' = "read"
  /\ UNCHANGED <<message_in, read_pos, read_len, line, last, message_out,
                 write_len, cur, dropped, rx, irq, connected, turn, gone,
                 mainVars>>

IsrNoWrite ==
  /\ isr = "write" /\ operation # "write" /\ isr' = "read"
  /\ UNCHANGED <<inVars, outVars, tx, rx, error, irq, connected, turn, fresh,
                 gone, mainVars>>

(* '\n': the line is ready; the write of its terminator past a full buffer *)
(* goes outside the buffer and is not modelled.                            *)
IsrLine ==
  /\ isr = "read" /\ rx # <<>> /\ Head(rx) = NL
  /\ rx' = Tail(rx) /\ error' = FALSE
  /\ message_in' = [n \in Cells |->
       CASE n = read_pos -> NL [] n = read_pos + 1 -> Nul
         [] OTHER -> message_in[n]]
  /\ read_len' = read_pos + 2 /\ read_rdy' = TRUE /\ read_pos' = 0
  /\ line' = <<>> /\ last' = Append(line, NL)
  /\ isr' = "return"
  /\ UNCHANGED <<outVars, tx, irq, connected, turn, fresh, gone,
                 mainVars>>

(* Mutant: a new line does not take back the one that was ready. *)
M_IsrByte ==
  /\ isr = "read" /\ rx # <<>> /\ Head(rx) # NL
  /\ rx' = Tail(rx) /\ error' = FALSE
  /\ message_in' = [message_in EXCEPT ![read_pos] = Head(rx)]
  /\ IF read_pos + 1 = SIZE
     THEN read_pos' = 0 /\ line' = <<>>
     ELSE read_pos' = read_pos + 1 /\ line' = Append(line, Head(rx))
  /\ isr' = "check" /\ turn' = turn + 1
  /\ UNCHANGED <<read_len, read_rdy, last, outVars, tx, irq, connected, fresh,
                 gone, mainVars>>

(* Mutant: the end of the buffer is tested before the position moves. *)
M_IsrByteWrap ==
  /\ isr = "read" /\ rx # <<>> /\ Head(rx) # NL
  /\ rx' = Tail(rx) /\ error' = FALSE
  /\ message_in' = [n \in Cells |-> IF n = read_pos THEN Head(rx)
                                    ELSE message_in[n]]
  /\ read_rdy' = FALSE
  /\ IF read_pos = SIZE
     THEN read_pos' = 0 /\ line' = <<>>
     ELSE read_pos' = read_pos + 1 /\ line' = Append(line, Head(rx))
  /\ isr' = "check" /\ turn' = turn + 1
  /\ UNCHANGED <<read_len, last, outVars, tx, irq, connected, fresh, gone,
                 mainVars>>

IsrByte ==                   \* any other byte; the buffer wraps
  /\ isr = "read" /\ rx # <<>> /\ Head(rx) # NL
  /\ rx' = Tail(rx) /\ error' = FALSE
  /\ message_in' = [message_in EXCEPT ![read_pos] = Head(rx)]
  /\ read_rdy' = FALSE
  /\ IF read_pos + 1 = SIZE
     THEN read_pos' = 0 /\ line' = <<>>
     ELSE read_pos' = read_pos + 1 /\ line' = Append(line, Head(rx))
  /\ isr' = "check" /\ turn' = turn + 1
  /\ UNCHANGED <<read_len, last, outVars, tx, irq, connected, fresh, gone,
                 mainVars>>

IsrNoRead ==
  /\ isr = "read" /\ rx = <<>> /\ isr' = "check" /\ turn' = turn + 1
  /\ UNCHANGED <<inVars, outVars, tx, rx, error, irq, connected, fresh,
                 gone, mainVars>>

IsrReturn ==                 \* the loop is over: *BLE_IRQ_RET = 0
  /\ isr = "return" \/ (isr = "check" /\ turn = READS)
  /\ irq' = FALSE /\ isr' = "idle" /\ turn' = 0 /\ fresh' = 0 /\ gone' = FALSE
  /\ UNCHANGED <<inVars, outVars, tx, rx, error, connected, mainVars>>

ble_isr == \/ IsrEnter \/ IsrCheck \/ IsrError \/ IsrWrite \/ IsrNoWrite
           \/ IsrLine \/ IsrByte \/ IsrNoRead \/ IsrReturn

-----------------------------------------------------------------------------
(* The main program, while the handler does not run *)

Main == isr = "idle"

(* BLE_send_data(m), first part: a message that finds another one in       *)
(* transmission, or nobody connected, is refused.                          *)
SendCopy(m) ==
  /\ connected /\ operation # "write"
  /\ message_out' = [n \in Cells |-> IF n < Len(m) THEN m[n + 1]
                                     ELSE message_out[n]]
  /\ cur' = m /\ told' = <<>> /\ dropped' = FALSE

Refused == ~connected \/ operation = "write"

(* Mutant: the position is not reset. *)
M_SendStart ==
  /\ Main /\ pc \in {"start", "print_start"}
  /\ write_len' = Len(cur) /\ operation' = "write"
  /\ dropped' = (tx = TXDEPTH)
  /\ Transmit(message_out[0])
  /\ IF pc = "print_start" /\ chunk < Len(Banner)
     THEN pc' = "print" /\ chunk' = chunk + 1
     ELSE pc' = "idle" /\ UNCHANGED chunk
  /\ UNCHANGED <<inVars, message_out, write_pos, cur, rx, irq, connected,
                 isrVars, registered>>

(* Mutant: BLE_print_str does not leave its loop after BLE_WRITE_OK. *)
M_SendStartAgain ==
  /\ Main /\ pc \in {"start", "print_start"}
  /\ write_pos' = 1 /\ write_len' = Len(cur) /\ operation' = "write"
  /\ dropped' = (tx = TXDEPTH)
  /\ Transmit(message_out[0])
  /\ IF pc = "print_start" /\ chunk < Len(Banner)
     THEN pc' = "print" /\ UNCHANGED chunk
     ELSE pc' = "idle" /\ UNCHANGED chunk
  /\ UNCHANGED <<inVars, message_out, cur, rx, irq, connected, isrVars,
                 registered>>

(* Its second part, with the interrupt masked; the room in the FIFO is not *)
(* tested.                                                                 *)
SendStart ==
  /\ Main /\ pc \in {"start", "print_start"}
  /\ write_pos' = 1 /\ write_len' = Len(cur) /\ operation' = "write"
  /\ dropped' = (tx = TXDEPTH)
  /\ Transmit(message_out[0])
  /\ IF pc = "print_start" /\ chunk < Len(Banner)
     THEN pc' = "print" /\ chunk' = chunk + 1
     ELSE pc' = "idle" /\ UNCHANGED chunk
  /\ UNCHANGED <<inVars, message_out, cur, rx, irq, connected, isrVars,
                 registered>>

(* A word, an error message, or the reply to a command *)
BLE_send_data ==
  /\ Main /\ pc \in {"idle", "reply"}
  /\ \/ /\ \E m \in Message : SendCopy(m)
        /\ pc' = "start"
        /\ UNCHANGED <<write_pos, write_len, operation>>
     \/ /\ Refused /\ pc' = "idle" /\ UNCHANGED outVars
  /\ UNCHANGED <<inVars, tx, rx, error, irq, connected, isrVars, chunk,
                 registered>>

(* BLE_console: BLE_read_data and, for a line that fits, the reply.  A     *)
(* longer line stays where it is.                                          *)
BLE_console ==
  /\ Main /\ pc = "idle" /\ connected /\ read_rdy /\ read_len <= CONSOLE
  /\ read_rdy' = FALSE /\ pc' = "reply"
  /\ UNCHANGED <<message_in, read_pos, read_len, line, last, outVars, tx, rx,
                 error, irq, connected, isrVars, chunk, registered>>

(* init_BLE: wait for a central, a second, then the fields one by one, ... *)
InitOperation ==
  /\ Main /\ pc = "init" /\ connected
  /\ operation' = "none" /\ pc' = "init_read"
  /\ UNCHANGED <<inVars, message_out, write_pos, write_len, cur, told, dropped,
                 tx, rx, error, irq, connected, isrVars, chunk, registered>>

InitRead ==
  /\ Main /\ pc = "init_read"
  /\ read_len' = 0 /\ read_pos' = 0 /\ line' = <<>> /\ pc' = "init_write"
  /\ UNCHANGED <<message_in, read_rdy, last, outVars, tx, rx, error, irq,
                 connected, isrVars, chunk, registered>>

InitWrite ==
  /\ Main /\ pc = "init_write"
  /\ write_len' = 0 /\ write_pos' = 0 /\ pc' = "init_rdy"
  /\ UNCHANGED <<inVars, message_out, operation, cur, told, dropped, tx, rx,
                 error, irq, connected, isrVars, chunk, registered>>

InitReady ==
  /\ Main /\ pc = "init_rdy"
  /\ read_rdy' = FALSE /\ registered' = TRUE /\ pc' = "print" /\ chunk' = 1
  /\ UNCHANGED <<message_in, read_pos, read_len, line, last, outVars, tx, rx,
                 error, irq, connected, isrVars>>

(* ... then BLE_print_str, which tries each chunk until it is accepted. *)
BLE_print_str ==
  /\ Main /\ pc = "print"
  /\ SendCopy(Banner[chunk])
  /\ pc' = "print_start"
  /\ UNCHANGED <<inVars, write_pos, write_len, operation, tx, rx, error, irq,
                 connected, isrVars, chunk, registered>>

init_BLE == \/ InitOperation \/ InitRead \/ InitWrite \/ InitReady
            \/ BLE_print_str

(* The reset button: app() returns and main() calls init_BLE again. *)
Restart ==
  /\ Main /\ pc = "idle" /\ pc' = "init"
  /\ UNCHANGED <<inVars, outVars, tx, rx, error, irq, connected, isrVars,
                 chunk, registered>>

Next == \/ HwReceive \/ HwSent \/ HwLink \/ ble_isr
        \/ init_BLE \/ SendStart \/ BLE_send_data \/ BLE_console \/ Restart

Spec == Init /\ [][Next]_vars

-----------------------------------------------------------------------------
(* Properties *)

(* Every field keeps its type, and the positions stay inside the buffers.  *)
TypeOK ==
  /\ message_in \in [Cells -> Byte] /\ message_out \in [Cells -> Byte]
  /\ read_pos \in Cells /\ read_len \in 0 .. SIZE + 1 /\ read_rdy \in BOOLEAN
  /\ write_pos \in 0 .. SIZE /\ write_len \in 0 .. SIZE
  /\ operation \in {"none", "write"}
  /\ tx \in 0 .. TXDEPTH /\ rx \in Seq({NL, Chr}) /\ Len(rx) <= RXDEPTH
  /\ error \in BOOLEAN /\ irq \in BOOLEAN /\ connected \in BOOLEAN
  /\ registered \in BOOLEAN /\ dropped \in BOOLEAN /\ gone \in BOOLEAN
  /\ isr \in {"idle", "check", "write", "read", "return"}
  /\ turn \in 0 .. READS /\ fresh \in 0 .. READS
  /\ pc \in {"init", "init_read", "init_write", "init_rdy", "print",
             "print_start", "start", "idle", "reply"}
  /\ chunk \in DOMAIN Banner
  /\ {cur, told, line, last} \subseteq Seq(Byte)
  /\ Len(told) <= Len(cur) /\ Len(line) < SIZE /\ Len(last) <= SIZE

(* The line that the console finds ready is the last line that arrived,    *)
(* whole (or, of a line longer than the buffer, what came after its last   *)
(* wrap), although the handler may be collecting the next one in the same  *)
(* buffer.                                                                 *)
LineIntact ==
  pc = "idle" /\ read_rdy =>
    /\ read_len = Len(last) + 1
    /\ \A i \in 1 .. Len(last) : message_in[i - 1] = last[i]

(* A message whose transmission was started enters the FIFO byte after     *)
(* byte and never mixed with another one; when the handler reports that it *)
(* is done all of it went in, but for a first byte that found it full.     *)
Written == IF dropped THEN SubSeq(cur, 2, Len(cur)) ELSE cur
MessageWhole ==
  /\ \E k \in 0 .. Len(Written) : told = SubSeq(Written, 1, k)
  /\ pc \in {"idle", "reply"} /\ operation = "none" => told = Written

(* What makes them inductive: how far the handler has come, and what the   *)
(* main program's place says of the driver, ...                            *)
Handling ==
  /\ isr = "idle" => turn = 0 /\ fresh = 0
  /\ isr \in {"check", "write"} => fresh <= turn
  /\ isr \in {"write", "read"} => turn < READS /\ fresh <= turn + 1
  /\ ~registered => isr = "idle"
  /\ pc \in {"print", "print_start", "start", "idle", "reply"} => registered
  /\ pc \in {"init_read", "init_write", "init_rdy", "start", "print_start"}
       => operation = "none"

(* ... that the buffer holds the line under way up to read_pos, and the    *)
(* last one while it is ready, but for the fields init_BLE is resetting,   *)
Holds(buffer, text) == \A i \in 1 .. Len(text) : buffer[i - 1] = text[i]
LineHeld ==
  /\ read_pos = Len(line) /\ Holds(message_in, line)
  /\ registered /\ read_rdy /\ pc \notin {"init_write", "init_rdy"}
       => read_len = Len(last) + 1 /\ Holds(message_in, last)

(* ... what has entered the FIFO is as much of the message as the position *)
(* says; and an error in a transmission stops the handler from then on.    *)
Lag == IF dropped THEN 1 ELSE 0
OutHolds == Len(cur) \in 2 .. SIZE /\ Holds(message_out, cur)
Entered ==
  /\ Len(told) + Lag <= Len(cur)
  /\ \A i \in 1 .. Len(told) : told[i] = cur[i + Lag]
  /\ pc \in {"start", "print_start"} => OutHolds /\ told = <<>> /\ ~dropped
  /\ pc \in {"idle", "reply"} /\ operation = "none" => Len(told) + Lag = Len(cur)
  /\ registered /\ operation = "write" =>
       \/ error /\ isr \in {"idle", "check", "return"}
       \/ /\ OutHolds /\ write_len = Len(cur) /\ write_pos = Len(told) + Lag
          /\ write_pos \in 1 .. Len(cur) - 1

IInv == TypeOK /\ Handling /\ LineHeld /\ Entered

(* Fairness: the processor runs, a byte in the FIFO leaves in the end, and *)
(* the handler comes between any two actions of the main program when its  *)
(* line is up.                                                             *)
Fairness == /\ WF_vars(HwSent) /\ WF_vars(ble_isr)
            /\ SF_vars(init_BLE) /\ SF_vars(SendStart)

FairSpec == Spec /\ Fairness

(* A transmission ends, unless a framing error meets it: then operation    *)
(* stays BLE_WRITE and every later message is refused until a restart.     *)
TransmissionEnds ==
  registered /\ operation = "write" ~> (operation = "none" \/ error)

(* init_BLE comes to its end: the interrupt that asks for the next byte of *)
(* a chunk is never lost.  It waits for a central, and a framing error in  *)
(* its own transmission blocks it.                                         *)
InitEnds == pc = "print" ~> (pc = "idle" \/ error \/ ~connected)

(* thesis/tex/1-wstep.tex:1714: a line, once its end was seen, is copied   *)
(* to the output array and handed to the main program.                     *)
LineHandedOver == [][read_rdy /\ ~read_rdy' => pc' = "reply"]_vars

(* thesis/tex/1-wstep.tex:1712: every byte received is signalled by an     *)
(* interrupt.                                                              *)
EveryByteSignalled == rx # <<>> /\ isr = "idle" => irq
=============================================================================
