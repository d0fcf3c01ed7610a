--------------------------- MODULE BleUart_proofs ---------------------------
(***************************************************************************)
(* Theorems about BleUart, for every size of the buffers and FIFOs, every  *)
(* number of turns of the handler, every message and every banner.         *)
(***************************************************************************)
EXTENDS BleUart, SequenceTheorems, TLAPS

Text == Seq({NL, Chr})

LEMMA Constants ==
  /\ SIZE \in Nat /\ SIZE > 1 /\ READS \in Nat \ {0}
  /\ TXDEPTH \in Nat /\ TXDEPTH > 1 /\ RXDEPTH \in Nat \ {0}
  /\ \A m \in Message : m \in Text /\ Len(m) \in 2 .. SIZE
  /\ 1 \in DOMAIN Banner /\ DOMAIN Banner = 1 .. Len(Banner)
  /\ \A i \in DOMAIN Banner : Banner[i] \in Text /\ Len(Banner[i]) \in 2 .. SIZE
BY BleConstantsOK DEF Text

LEMMA InitIInv == Init => IInv
<1> SUFFICES ASSUME Init PROVE IInv
  OBVIOUS
<1> USE Constants
<1>1. /\ read_rdy \in BOOLEAN /\ error \in BOOLEAN /\ irq \in BOOLEAN
      /\ connected \in BOOLEAN /\ registered \in BOOLEAN /\ dropped \in BOOLEAN
      /\ gone \in BOOLEAN /\ ~registered /\ ~dropped
  BY Zenon DEF Init
<1>2. /\ message_in \in [Cells -> Byte] /\ message_out \in [Cells -> Byte]
  BY DEF Init, Byte
<1>3. /\ read_pos = 0 /\ read_len = 0 /\ write_pos = 0 /\ write_len = 0
      /\ operation \in {"none", "write"} /\ tx = 0 /\ rx = << >>
      /\ isr = "idle" /\ turn = 0 /\ fresh = 0 /\ pc = "init" /\ chunk = 1
      /\ cur = << >> /\ told = << >> /\ line = << >> /\ last = << >>
  BY DEF Init
<1>4. TypeOK
  BY <1>1, <1>2, <1>3 DEF TypeOK, Cells
<1>5. Handling
  BY <1>1, <1>3 DEF Handling
<1>6. LineHeld
  BY <1>1, <1>3 DEF LineHeld, Holds
<1>7. Entered
  BY <1>1, <1>3 DEF Entered, Lag
<1> QED
  BY <1>4, <1>5, <1>6, <1>7 DEF IInv

-----------------------------------------------------------------------------
(* How far the handler has come and where the main program is. *)
LEMMA HandlingStep == IInv /\ [Next]_vars => Handling'
<1> SUFFICES ASSUME IInv, [Next]_vars PROVE Handling'
  OBVIOUS
<1> USE Constants DEF Handling
<1>0. /\ Handling /\ turn \in 0 .. READS /\ fresh \in 0 .. READS
      /\ operation \in {"none", "write"}
  BY DEF IInv, TypeOK
<1>1. CASE HwReceive \/ HwSent \/ HwLink
  BY <1>0, <1>1 DEF HwReceive, HwSent, HwLink, inVars, outVars, isrVars, mainVars
<1>2. CASE ble_isr
  <2> USE <1>0 DEF isrVars, mainVars, outVars, inVars
  <2>1. CASE IsrEnter \/ IsrCheck \/ IsrError \/ IsrNoWrite
    BY <2>1 DEF IsrEnter, IsrCheck, IsrError, IsrNoWrite
  <2>2. CASE IsrWrite
    BY <2>2 DEF IsrWrite
  <2>3. CASE IsrLine \/ IsrByte \/ IsrNoRead \/ IsrReturn
    BY <2>3 DEF IsrLine, IsrByte, IsrNoRead, IsrReturn
  <2> QED
    BY <1>2, <2>1, <2>2, <2>3 DEF ble_isr
<1>3. CASE init_BLE \/ Restart
  BY <1>0, <1>3
  DEF init_BLE, InitOperation, InitRead, InitWrite, InitReady, BLE_print_str,
      SendCopy, Restart, Main, isrVars, outVars
<1>4. CASE SendStart \/ BLE_console
  BY <1>0, <1>4 DEF SendStart, BLE_console, Main, isrVars, outVars
<1>5. CASE BLE_send_data
  BY <1>0, <1>5 DEF BLE_send_data, SendCopy, Refused, Main, isrVars, outVars
<1>6. CASE UNCHANGED vars
  BY <1>0, <1>6 DEF vars, isrVars, mainVars, outVars
<1> QED
  BY <1>1, <1>2, <1>3, <1>4, <1>5, <1>6 DEF Next

-----------------------------------------------------------------------------
(* Types, and with them the line in the input buffer and the message in    *)
(* the output buffer.                                                      *)
LEMMA BooleanStep ==
  IInv /\ [Next]_vars
    => /\ read_rdy' \in BOOLEAN /\ error' \in BOOLEAN /\ irq' \in BOOLEAN
       /\ connected' \in BOOLEAN /\ registered' \in BOOLEAN
       /\ dropped' \in BOOLEAN /\ gone' \in BOOLEAN
<1> SUFFICES ASSUME IInv, [Next]_vars
             PROVE  /\ read_rdy' \in BOOLEAN /\ error' \in BOOLEAN
                    /\ irq' \in BOOLEAN /\ connected' \in BOOLEAN
                    /\ registered' \in BOOLEAN /\ dropped' \in BOOLEAN
                    /\ gone' \in BOOLEAN
  OBVIOUS
<1>0. /\ read_rdy \in BOOLEAN /\ error \in BOOLEAN /\ irq \in BOOLEAN
      /\ connected \in BOOLEAN /\ registered \in BOOLEAN
      /\ dropped \in BOOLEAN /\ gone \in BOOLEAN
  BY DEF IInv, TypeOK
<1> USE <1>0 DEF inVars, outVars, isrVars, mainVars
<1>1. CASE HwReceive \/ HwSent \/ HwLink
  BY <1>1, Zenon DEF HwReceive, HwSent, HwLink
<1>2. CASE ble_isr
  BY <1>2, Zenon
  DEF ble_isr, IsrEnter, IsrCheck, IsrError, IsrWrite, IsrNoWrite, IsrLine,
      IsrByte, IsrNoRead, IsrReturn, Transmit
<1>3. CASE init_BLE \/ Restart
  BY <1>3, Zenon
  DEF init_BLE, InitOperation, InitRead, InitWrite, InitReady, BLE_print_str,
      SendCopy, Restart
<1>4. CASE SendStart \/ BLE_console \/ BLE_send_data
  BY <1>4, Zenon DEF SendStart, BLE_console, BLE_send_data, SendCopy, Transmit
<1>5. CASE UNCHANGED vars
  BY <1>5, Zenon DEF vars
<1> QED
  BY <1>1, <1>2, <1>3, <1>4, <1>5 DEF Next

LEMMA ControlStep ==
  IInv /\ [Next]_vars
    => /\ tx' \in 0 .. TXDEPTH
       /\ isr' \in {"idle", "check", "write", "read", "return"}
       /\ turn' \in 0 .. READS /\ fresh' \in 0 .. READS
       /\ pc' \in {"init", "init_read", "init_write", "init_rdy", "print",
                   "print_start", "start", "idle", "reply"}
       /\ chunk' \in DOMAIN Banner
<1> SUFFICES ASSUME IInv, [Next]_vars
             PROVE  /\ tx' \in 0 .. TXDEPTH
                    /\ isr' \in {"idle", "check", "write", "read", "return"}
                    /\ turn' \in 0 .. READS /\ fresh' \in 0 .. READS
                    /\ pc' \in {"init", "init_read", "init_write", "init_rdy",
                                "print", "print_start", "start", "idle",
                                "reply"}
                    /\ chunk' \in DOMAIN Banner
  OBVIOUS
<1>0. /\ tx \in 0 .. TXDEPTH /\ Handling
      /\ isr \in {"idle", "check", "write", "read", "return"}
      /\ turn \in 0 .. READS /\ fresh \in 0 .. READS
      /\ pc \in {"init", "init_read", "init_write", "init_rdy", "print",
                 "print_start", "start", "idle", "reply"}
      /\ chunk \in DOMAIN Banner
  BY DEF IInv, TypeOK
<1> USE <1>0, Constants DEF outVars, isrVars, mainVars
<1>1. CASE HwReceive \/ HwSent \/ HwLink
  BY <1>1 DEF HwReceive, HwSent, HwLink
<1>2. CASE ble_isr
  <2>1. CASE IsrEnter \/ IsrCheck \/ IsrError \/ IsrNoWrite
    BY <2>1 DEF IsrEnter, IsrCheck, IsrError, IsrNoWrite
  <2>2. CASE IsrWrite
    BY <2>2 DEF IsrWrite, Transmit, Handling
  <2>3. CASE IsrLine \/ IsrByte \/ IsrNoRead \/ IsrReturn
    BY <2>3 DEF IsrLine, IsrByte, IsrNoRead, IsrReturn, Handling
  <2> QED
    BY <1>2, <2>1, <2>2, <2>3 DEF ble_isr
<1>3. CASE init_BLE \/ Restart
  BY <1>3
  DEF init_BLE, InitOperation, InitRead, InitWrite, InitReady, BLE_print_str,
      SendCopy, Restart
<1>4. CASE SendStart
  BY <1>4 DEF SendStart, Transmit
<1>5. CASE BLE_console \/ BLE_send_data
  BY <1>5 DEF BLE_console, BLE_send_data
<1>6. CASE UNCHANGED vars
  BY <1>6 DEF vars
<1> QED
  BY <1>1, <1>2, <1>3, <1>4, <1>5, <1>6 DEF Next

-----------------------------------------------------------------------------
InType == /\ message_in \in [Cells -> Byte]
          /\ read_pos \in Cells /\ read_len \in 0 .. SIZE + 1
          /\ rx \in Seq({NL, Chr}) /\ Len(rx) <= RXDEPTH
          /\ line \in Seq(Byte) /\ last \in Seq(Byte)
          /\ Len(line) < SIZE /\ Len(last) <= SIZE

LEMMA InStep == IInv /\ [Next]_vars => InType' /\ LineHeld'
<1> SUFFICES ASSUME IInv, [Next]_vars PROVE InType' /\ LineHeld'
  OBVIOUS
<1>0. InType /\ LineHeld /\ Handling
  BY DEF IInv, TypeOK, InType
<1>00. read_rdy \in BOOLEAN /\ registered \in BOOLEAN
  BY DEF IInv, TypeOK
<1> USE <1>0, Constants
<1>01. /\ read_pos \in 0 .. SIZE - 1 /\ read_pos = Len(line)
       /\ Holds(message_in, line)
  BY DEF InType, LineHeld, Cells
<1>1. CASE HwReceive
  <2>1. PICK b \in {NL, Chr} :
          rx' = IF Len(rx) < RXDEPTH THEN Append(rx, b) ELSE rx
    BY <1>1 DEF HwReceive
  <2>2. rx' \in Seq({NL, Chr}) /\ Len(rx') <= RXDEPTH
    BY <2>1 DEF InType
  <2> QED
    BY <1>1, <2>2 DEF HwReceive, InType, LineHeld, inVars, mainVars
<1>2. CASE IsrError
  <2>1. /\ read_pos' = 0 /\ read_len' = 0 /\ line' = << >>
        /\ UNCHANGED <<message_in, last, rx>>
    BY <1>2 DEF IsrError
  <2>2. ~read_rdy'
    BY <1>2, Zenon DEF IsrError
  <2> QED
    BY <2>1, <2>2 DEF InType, LineHeld, Holds, Cells
<1>3. ASSUME rx # << >>, rx' = Tail(rx)
      PROVE  /\ rx' \in Seq({NL, Chr}) /\ Len(rx') <= RXDEPTH
             /\ Head(rx) \in Byte
  BY <1>3 DEF InType, Byte
<1>4. CASE IsrLine
  <2>1. /\ rx # << >> /\ rx' = Tail(rx)
        /\ message_in' = [n \in Cells |->
              CASE n = read_pos -> NL [] n = read_pos + 1 -> Nul
                [] OTHER -> message_in[n]]
        /\ read_len' = read_pos + 2 /\ read_pos' = 0
        /\ line' = << >> /\ last' = Append(line, NL)
    BY <1>4 DEF IsrLine
  <2>2. /\ message_in' \in [Cells -> Byte] /\ message_in'[read_pos] = NL
        /\ \A n \in Cells : n < read_pos => message_in'[n] = message_in[n]
    BY <2>1 DEF InType, Byte, Cells
  <2>3. /\ last' \in Seq(Byte) /\ Len(last') = Len(line) + 1
        /\ last'[Len(line) + 1] = NL
        /\ \A i \in 1 .. Len(line) : last'[i] = line[i]
    BY <2>1 DEF InType, Byte
  <2>4. Holds(message_in', last')
    <3> SUFFICES ASSUME NEW i \in 1 .. read_pos + 1
                 PROVE  message_in'[i - 1] = last'[i]
      BY <1>01, <2>3 DEF Holds
    <3>1. CASE i = read_pos + 1
      BY <1>01, <2>2, <2>3, <3>1
    <3>2. CASE i \in 1 .. read_pos
      <4>1. i - 1 \in Cells /\ i - 1 < read_pos
        BY <1>01, <3>2 DEF Cells
      <4>2. message_in[i - 1] = line[i]
        BY <1>01, <3>2 DEF Holds
      <4>3. message_in'[i - 1] = message_in[i - 1]
        BY <2>2, <4>1
      <4> QED
        BY <1>01, <2>3, <3>2, <4>2, <4>3
    <3> QED
      BY <1>01, <3>1, <3>2
  <2>5. InType'
    BY <1>3, <2>1, <2>2, <2>3 DEF InType, LineHeld, Cells
  <2>6. read_len' = Len(last') + 1 /\ Len(line') = read_pos'
    BY <1>01, <2>1, <2>3
  <2>7. Holds(message_in', line')
    BY <2>1 DEF Holds
  <2> QED
    BY <2>4, <2>5, <2>6, <2>7 DEF LineHeld
<1>5. CASE IsrByte
  <2>1. /\ rx # << >> /\ rx' = Tail(rx) /\ UNCHANGED <<read_len, last>>
        /\ message_in' = [message_in EXCEPT ![read_pos] = Head(rx)]
        /\ IF read_pos + 1 = SIZE
           THEN read_pos' = 0 /\ line' = << >>
           ELSE read_pos' = read_pos + 1 /\ line' = Append(line, Head(rx))
    BY <1>5 DEF IsrByte
  <2>2. ~read_rdy'
    BY <1>5, Zenon DEF IsrByte
  <2>3. /\ message_in' \in [Cells -> Byte]
        /\ message_in'[read_pos] = Head(rx)
        /\ \A n \in Cells : n < read_pos => message_in'[n] = message_in[n]
    BY <1>3, <2>1 DEF InType, Cells
  <2>4. CASE read_pos + 1 = SIZE
    BY <1>3, <2>1, <2>2, <2>3, <2>4 DEF InType, LineHeld, Holds, Cells
  <2>5. CASE read_pos + 1 # SIZE
    <3>1. /\ line' \in Seq(Byte) /\ Len(line') = Len(line) + 1
          /\ line'[Len(line) + 1] = Head(rx)
          /\ \A i \in 1 .. Len(line) : line'[i] = line[i]
      <4>1. Head(rx) \in Byte /\ line \in Seq(Byte)
        BY <1>3, <2>1 DEF InType
      <4>2. line' = Append(line, Head(rx))
        BY <2>1, <2>5
      <4> QED
        BY <4>1, <4>2, AppendProperties
    <3>2. Holds(message_in', line')
      <4> SUFFICES ASSUME NEW i \in 1 .. read_pos + 1
                   PROVE  message_in'[i - 1] = line'[i]
        BY <1>01, <3>1 DEF Holds
      <4>1. CASE i = read_pos + 1
        BY <1>01, <2>3, <3>1, <4>1
      <4>2. CASE i \in 1 .. read_pos
        <5>1. i - 1 \in Cells /\ i - 1 < read_pos
          BY <1>01, <4>2 DEF Cells
        <5>2. message_in[i - 1] = line[i]
          BY <1>01, <4>2 DEF Holds
        <5>3. message_in'[i - 1] = message_in[i - 1]
          BY <2>3, <5>1
        <5> QED
          BY <1>01, <3>1, <4>2, <5>2, <5>3
      <4> QED
        BY <1>01, <4>1, <4>2
    <3>3. read_pos' = Len(line') /\ read_pos' \in Cells
      BY <1>01, <2>1, <2>5, <3>1 DEF Cells
    <3>4. InType'
      BY <1>3, <2>1, <2>3, <3>1, <3>3 DEF InType, Cells
    <3> QED
      BY <2>2, <3>2, <3>3, <3>4 DEF LineHeld
  <2> QED
    BY <2>4, <2>5
<1>6. CASE InitRead
  BY <1>6 DEF InitRead, InType, LineHeld, Holds, Cells
<1>7. CASE InitReady
  <2>1. ~read_rdy' /\ UNCHANGED <<message_in, read_pos, read_len, line, last, rx>>
    BY <1>7 DEF InitReady
  <2> QED
    BY <2>1 DEF InType, LineHeld
<1>8. CASE IsrWrite \/ BLE_console
  <2>1. ~read_rdy' /\ UNCHANGED <<message_in, read_pos, read_len, line, last, rx>>
    BY <1>8 DEF IsrWrite, BLE_console
  <2> QED
    BY <2>1 DEF InType, LineHeld
<1>9. ASSUME UNCHANGED <<inVars, registered, rx>>,
             pc' = pc \/ pc' \in {"init_rdy"} \/ pc \notin {"init_write", "init_rdy"}
      PROVE  InType' /\ LineHeld'
  BY <1>9 DEF InType, LineHeld, inVars
<1>10. CASE \/ HwSent \/ HwLink \/ IsrEnter \/ IsrCheck \/ IsrNoWrite
            \/ IsrNoRead \/ IsrReturn
  BY <1>9, <1>10
  DEF HwSent, HwLink, IsrEnter, IsrCheck, IsrNoWrite, IsrNoRead, IsrReturn,
      mainVars
<1>11. CASE \/ InitOperation \/ InitWrite \/ BLE_print_str \/ SendStart
            \/ BLE_send_data \/ Restart \/ UNCHANGED vars
  BY <1>9, <1>11
  DEF InitOperation, InitWrite, BLE_print_str, SendStart, BLE_send_data,
      Restart, vars, mainVars
<1> QED
  BY <1>1, <1>2, <1>4, <1>5, <1>6, <1>7, <1>8, <1>10, <1>11
  DEF Next, ble_isr, init_BLE

-----------------------------------------------------------------------------
OutType == /\ message_out \in [Cells -> Byte]
           /\ write_pos \in 0 .. SIZE /\ write_len \in 0 .. SIZE
           /\ operation \in {"none", "write"}
           /\ cur \in Seq(Byte) /\ told \in Seq(Byte)

(* What SendCopy leaves: the message in the buffer, none of it in the FIFO. *)
LEMMA Copied ==
  ASSUME IInv, NEW m, m \in Text, Len(m) \in 2 .. SIZE, SendCopy(m)
  PROVE  /\ message_out' \in [Cells -> Byte] /\ Holds(message_out', m)
         /\ cur' = m /\ m \in Seq(Byte) /\ told' = << >> /\ ~dropped'
         /\ operation = "none"
<1> USE Constants
<1>1. message_out \in [Cells -> Byte] /\ operation \in {"none", "write"}
  BY DEF IInv, TypeOK
<1>2. m \in Seq(Byte)
  BY DEF Text, Byte
<1>3. /\ message_out' = [n \in Cells |-> IF n < Len(m) THEN m[n + 1]
                                         ELSE message_out[n]]
      /\ cur' = m /\ told' = << >> /\ operation = "none"
  BY <1>1 DEF SendCopy
<1>4. ~dropped'
  BY Zenon DEF SendCopy
<1>5. message_out' \in [Cells -> Byte]
  <2> SUFFICES ASSUME NEW n \in Cells, n < Len(m) PROVE m[n + 1] \in Byte
    BY <1>1, <1>3
  <2> QED
    BY <1>2 DEF Cells
<1>6. Holds(message_out', m)
  <2> SUFFICES ASSUME NEW i \in 1 .. Len(m) PROVE message_out'[i - 1] = m[i]
    BY DEF Holds
  <2>1. i - 1 \in Cells /\ i - 1 < Len(m) /\ i - 1 + 1 = i
    BY DEF Cells
  <2> QED
    BY <1>3, <2>1
<1> QED
  BY <1>2, <1>3, <1>4, <1>5, <1>6

(* After SendCopy, the handler or the main program in between or not.      *)
LEMMA CopiedStep ==
  ASSUME IInv, NEW m, m \in Text, Len(m) \in 2 .. SIZE, SendCopy(m),
         pc' \in {"start", "print_start"},
         UNCHANGED <<write_pos, write_len, operation>>
  PROVE  OutType' /\ Entered'
<1>1. write_pos \in 0 .. SIZE /\ write_len \in 0 .. SIZE
  BY DEF IInv, TypeOK
<1>2. Len(m) \in 2 .. SIZE /\ SIZE \in Nat
  BY Constants
<1>3. /\ message_out' \in [Cells -> Byte] /\ Holds(message_out', m)
      /\ cur' = m /\ m \in Seq(Byte) /\ told' = << >> /\ ~dropped'
      /\ operation = "none"
  BY Copied
<1>4. Lag' = 0 /\ Len(told') = 0
  BY <1>3 DEF Lag
<1>5. OutHolds'
  BY <1>2, <1>3 DEF OutHolds
<1>6. OutType'
  BY <1>1, <1>3 DEF OutType
<1>7. operation' = "none"
  BY <1>3
<1> QED
  BY <1>2, <1>3, <1>4, <1>5, <1>6, <1>7 DEF Entered

LEMMA OutStep == IInv /\ [Next]_vars => OutType' /\ Entered'
<1> SUFFICES ASSUME IInv, [Next]_vars PROVE OutType' /\ Entered'
  OBVIOUS
<1>0. OutType /\ Entered /\ Handling
  BY DEF IInv, TypeOK, OutType
<1>01. /\ dropped \in BOOLEAN /\ error \in BOOLEAN /\ registered \in BOOLEAN
       /\ tx \in 0 .. TXDEPTH
  BY DEF IInv, TypeOK
<1> USE Constants
(* What leaves the message and its transmission alone. *)
<1>1. ASSUME UNCHANGED <<outVars, pc>>, registered' = registered,
             error => error',
             isr' = isr \/ isr' \in {"idle", "check", "return"} \/ ~error
      PROVE  OutType' /\ Entered'
  BY <1>0, <1>01, <1>1 DEF OutType, Entered, OutHolds, Holds, Lag, outVars
<1>2. CASE HwReceive
  <2>1. UNCHANGED <<outVars, pc>> /\ registered' = registered /\ isr' = isr
    BY <1>2 DEF HwReceive, mainVars, isrVars
  <2>2. error => error'
    BY <1>2, Zenon DEF HwReceive
  <2> QED
    BY <1>1, <2>1, <2>2, Zenon
<1>3. CASE \/ HwSent \/ HwLink \/ IsrEnter \/ IsrCheck \/ IsrReturn
           \/ UNCHANGED vars
  BY <1>1, <1>3
  DEF HwSent, HwLink, IsrEnter, IsrCheck, IsrReturn, vars, mainVars, isrVars
<1>4. CASE IsrError
  <2>1. /\ UNCHANGED <<message_out, operation, cur, told, pc, registered>>
        /\ write_len' = 0 /\ write_pos' = 0 /\ isr' = "return"
    BY <1>4 DEF IsrError, mainVars
  <2>2. dropped' = dropped /\ error' = error /\ error
    BY <1>4, Zenon DEF IsrError
  <2> QED
    BY <1>0, <2>1, <2>2 DEF OutType, Entered, OutHolds, Holds, Lag
(* At "write" and "read" no error was met: the transmission is under way.  *)
<1>5. ASSUME isr \in {"write", "read"}, UNCHANGED <<outVars, pc, registered>>
      PROVE  OutType' /\ Entered'
  BY <1>0, <1>01, <1>5 DEF OutType, Entered, OutHolds, Holds, Lag, outVars
<1>6. CASE IsrNoWrite \/ IsrLine \/ IsrByte \/ IsrNoRead
  BY <1>5, <1>6 DEF IsrNoWrite, IsrLine, IsrByte, IsrNoRead, mainVars
<1>7. CASE IsrWrite /\ tx < TXDEPTH
  <2>1. /\ isr = "write" /\ operation = "write"
        /\ told' = Append(told, message_out[write_pos])
        /\ write_pos' = write_pos + 1
        /\ operation' = IF write_pos + 1 \in {SIZE, write_len}
                        THEN "none" ELSE "write"
        /\ UNCHANGED <<message_out, write_len, cur, pc, registered>>
    BY <1>7 DEF IsrWrite, Transmit, mainVars
  <2>2. dropped' = dropped
    BY <1>7, Zenon DEF IsrWrite
  <2>3. registered
    BY <1>0, <2>1 DEF Handling
  <2>4. /\ OutHolds /\ write_len = Len(cur) /\ write_pos = Len(told) + Lag
        /\ write_pos \in 1 .. Len(cur) - 1
    BY <1>0, <2>1, <2>3 DEF Entered
  <2>5. /\ told \in Seq(Byte) /\ cur \in Seq(Byte) /\ Lag \in {0, 1}
        /\ Len(told) \in Nat /\ Len(cur) \in 2 .. SIZE
        /\ Holds(message_out, cur) /\ pc \notin {"start", "print_start"}
    BY <1>0, <2>1, <2>4 DEF OutType, OutHolds, Lag, Handling
  <2>6. message_out[write_pos] = cur[write_pos + 1]
    <3>1. write_pos + 1 \in 1 .. Len(cur) /\ (write_pos + 1) - 1 = write_pos
      BY <2>4, <2>5
    <3>2. \A i \in 1 .. Len(cur) : message_out[i - 1] = cur[i]
      BY <2>5 DEF Holds
    <3>3. message_out[(write_pos + 1) - 1] = cur[write_pos + 1]
      BY ONLY <3>1, <3>2, Zenon
    <3> QED
      BY ONLY <3>1, <3>3
  <2>7. cur[write_pos + 1] \in Byte
    BY <2>4, <2>5
  <2>8. /\ told' \in Seq(Byte) /\ Len(told') = Len(told) + 1
        /\ told'[Len(told) + 1] = cur[write_pos + 1]
        /\ \A i \in 1 .. Len(told) : told'[i] = told[i]
    BY <2>1, <2>5, <2>6, <2>7, AppendProperties
  <2>9. Lag' = Lag
    BY <2>2 DEF Lag
  <2>10. \A i \in 1 .. Len(told') : told'[i] = cur'[i + Lag']
    <3> SUFFICES ASSUME NEW i \in 1 .. Len(told) + 1
                 PROVE  told'[i] = cur[i + Lag]
      BY <2>1, <2>8, <2>9
    <3>1. CASE i = Len(told) + 1
      <4>1. i + Lag = write_pos + 1
        BY <2>4, <2>5, <3>1
      <4> QED
        BY <2>8, <3>1, <4>1
    <3>2. CASE i \in 1 .. Len(told)
      BY <1>0, <2>8, <3>2 DEF Entered
    <3> QED
      BY <2>5, <3>1, <3>2
  <2>11. OutHolds'
    BY <2>1, <2>4 DEF OutHolds, Holds
  <2>12. OutType'
    BY <1>0, <2>1, <2>4, <2>5, <2>8 DEF OutType
  <2>13. Len(told') + Lag' = write_pos + 1
    BY <2>4, <2>5, <2>8, <2>9
  <2>14. /\ operation' = "none" => write_pos + 1 = Len(cur)
         /\ operation' = "write" => write_pos + 1 \in 1 .. Len(cur) - 1
         /\ write_pos + 1 <= Len(cur)
    BY <2>1, <2>4, <2>5
  <2> QED
    BY <2>1, <2>4, <2>5, <2>10, <2>11, <2>12, <2>13, <2>14 DEF Entered
<1>8. CASE IsrWrite /\ ~(tx < TXDEPTH)
  <2>1. isr = "write" /\ UNCHANGED <<outVars, pc, registered>>
    BY <1>8 DEF IsrWrite, outVars, mainVars
  <2> QED
    BY <1>5, <2>1
<1>9. CASE BLE_send_data
  <2>1. CASE \E m \in Message : SendCopy(m)
    <3>1. PICK m \in Message : SendCopy(m)
      BY <2>1
    <3>2. operation # "write"
      BY <3>1 DEF SendCopy
    <3>3. pc' = "start" /\ UNCHANGED <<write_pos, write_len, operation>>
      BY <1>9, <3>2, <2>1 DEF BLE_send_data, Refused, SendCopy
    <3> QED
      BY <3>1, <3>3, CopiedStep
  <2>2. CASE Refused /\ pc' = "idle" /\ UNCHANGED outVars
    <3>1. /\ pc \in {"idle", "reply"} /\ pc' = "idle" /\ isr' = isr
          /\ registered' = registered /\ UNCHANGED outVars
      BY <1>9, <2>2 DEF BLE_send_data, isrVars
    <3>2. error' = error
      BY <1>9, Zenon DEF BLE_send_data
    <3> QED
      BY <1>0, <3>1, <3>2 DEF OutType, Entered, OutHolds, Holds, Lag, outVars
  <2> QED
    BY <1>9, <2>1, <2>2 DEF BLE_send_data
<1>10. CASE BLE_print_str
  <2>1. /\ SendCopy(Banner[chunk]) /\ pc' = "print_start"
        /\ UNCHANGED <<write_pos, write_len, operation>>
    BY <1>10 DEF BLE_print_str
  <2>2. chunk \in DOMAIN Banner
    BY DEF IInv, TypeOK
  <2>3. Banner[chunk] \in Text /\ Len(Banner[chunk]) \in 2 .. SIZE
    BY <2>2
  <2> QED
    BY <2>1, <2>3, CopiedStep
<1>11. CASE SendStart
  <2>1. /\ pc \in {"start", "print_start"} /\ pc' \in {"print", "idle"}
        /\ write_pos' = 1 /\ write_len' = Len(cur) /\ operation' = "write"
        /\ UNCHANGED <<message_out, cur, registered>>
        /\ IF tx < TXDEPTH THEN told' = Append(told, message_out[0])
           ELSE told' = told
    BY <1>11 DEF SendStart, Transmit
  <2>2. dropped' <=> tx = TXDEPTH
    BY <1>11, Zenon DEF SendStart
  <2>3. /\ OutHolds /\ told = << >> /\ cur \in Seq(Byte)
        /\ Len(cur) \in 2 .. SIZE /\ Holds(message_out, cur)
    BY <1>0, <2>1 DEF Entered, OutType, OutHolds
  <2>4. message_out[0] = cur[1] /\ cur[1] \in Byte
    <3>1. 1 \in 1 .. Len(cur) /\ 1 - 1 = 0
      BY <2>3
    <3> QED
      BY <2>3, <3>1 DEF Holds
  <2>5. OutHolds'
    BY <2>1, <2>3 DEF OutHolds, Holds
  <2>6. CASE tx < TXDEPTH
    <3>1. told' \in Seq(Byte) /\ Len(told') = 1 /\ told'[1] = cur[1]
      <4>1. told' = Append(told, cur[1])
        BY <2>1, <2>4, <2>6
      <4>2. told \in Seq(Byte) /\ Len(told) = 0
        BY <2>3
      <4> QED
        BY <2>4, <4>1, <4>2, AppendProperties
    <3>2. Lag' = 0
      BY <1>01, <2>2, <2>6 DEF Lag
    <3>3. OutType'
      BY <1>0, <2>1, <2>3, <3>1 DEF OutType
    <3>4. \A i \in 1 .. Len(told') : told'[i] = cur'[i + Lag']
      BY <2>1, <2>3, <3>1, <3>2
    <3> QED
      BY <2>1, <2>3, <2>5, <3>1, <3>2, <3>3, <3>4 DEF Entered
  <2>7. CASE tx = TXDEPTH
    <3>1. told' = << >> /\ told' \in Seq(Byte) /\ Len(told') = 0
      <4>1. ~(tx < TXDEPTH)
        BY <2>7, Constants
      <4> QED
        BY <2>1, <2>3, <4>1
    <3>2. Lag' = 1
      BY <2>2, <2>7 DEF Lag
    <3>3. OutType'
      BY <1>0, <2>1, <2>3, <3>1 DEF OutType
    <3> QED
      BY <2>1, <2>3, <2>5, <3>1, <3>2, <3>3 DEF Entered
  <2> QED
    BY <1>01, <2>6, <2>7
<1>12. CASE BLE_console
  <2>1. /\ pc = "idle" /\ pc' = "reply" /\ isr' = isr
        /\ registered' = registered /\ UNCHANGED outVars
    BY <1>12 DEF BLE_console, isrVars
  <2>2. error' = error
    BY <1>12, Zenon DEF BLE_console
  <2> QED
    BY <1>0, <2>1, <2>2 DEF OutType, Entered, OutHolds, Holds, Lag, outVars
<1>13. ASSUME UNCHANGED <<message_out, cur, told>>, operation' = "none",
              dropped' = dropped, write_pos' \in 0 .. SIZE,
              write_len' \in 0 .. SIZE,
              pc' \notin {"start", "print_start", "idle", "reply"}
       PROVE  OutType' /\ Entered'
  BY <1>0, <1>13 DEF OutType, Entered, Lag
<1>14. CASE InitOperation \/ InitRead \/ InitWrite \/ InitReady
  <2>1. /\ UNCHANGED <<message_out, cur, told>> /\ operation' = "none"
        /\ pc' \notin {"start", "print_start", "idle", "reply"}
        /\ write_pos' \in 0 .. SIZE /\ write_len' \in 0 .. SIZE
    BY <1>0, <1>14
    DEF InitOperation, InitRead, InitWrite, InitReady, outVars, Handling,
        OutType
  <2>2. dropped' = dropped
    BY <1>14, Zenon DEF InitOperation, InitRead, InitWrite, InitReady, outVars
  <2> QED
    BY <1>13, <2>1, <2>2
<1>15. CASE Restart
  <2>1. /\ pc' = "init" /\ isr' = isr /\ registered' = registered
        /\ UNCHANGED outVars
    BY <1>15 DEF Restart, isrVars
  <2>2. error' = error
    BY <1>15, Zenon DEF Restart
  <2> QED
    BY <1>0, <2>1, <2>2 DEF OutType, Entered, OutHolds, Holds, Lag, outVars
<1> QED
  BY <1>01, <1>2, <1>3, <1>4, <1>6, <1>7, <1>8, <1>9, <1>10, <1>11, <1>12,
     <1>14, <1>15
  DEF Next, ble_isr, init_BLE

-----------------------------------------------------------------------------
(* In every reachable state of BleUart the inductive invariant holds. *)
THEOREM Invariance == Spec => []IInv
<1>1. IInv /\ [Next]_vars => IInv'
  <2> SUFFICES ASSUME IInv, [Next]_vars PROVE IInv'
    OBVIOUS
  <2>1. Handling' /\ LineHeld' /\ Entered'
    BY HandlingStep, InStep, OutStep
  <2>2. Len(told') <= Len(cur')
    <3>1. Lag' \in {0, 1} /\ Len(told') + Lag' <= Len(cur') /\ OutType'
      BY <2>1, OutStep DEF Lag, Entered
    <3> QED
      BY <3>1 DEF OutType
  <2>3. TypeOK'
    BY <2>2, BooleanStep, ControlStep, InStep, OutStep
    DEF TypeOK, InType, OutType
  <2> QED
    BY <2>1, <2>3 DEF IInv
<1> QED
  BY InitIInv, <1>1, PTL DEF Spec

(* Every field keeps its type and every position stays inside its buffer,  *)
(* whatever arrives and however the hardware and the handler interleave.   *)
THEOREM TypeCorrect == Spec => []TypeOK
<1>1. IInv => TypeOK
  BY DEF IInv
<1> QED
  BY Invariance, <1>1, PTL

(* The line the console finds ready is the last line, whole.               *)
THEOREM LineIsIntact == Spec => []LineIntact
<1>1. IInv => LineIntact
  BY DEF IInv, Handling, LineHeld, Holds, LineIntact
<1> QED
  BY Invariance, <1>1, PTL

(* A message enters the FIFO in order, unmixed, and to its end.            *)
THEOREM MessageIsWhole == Spec => []MessageWhole
<1>1. IInv => MessageWhole
  <2> SUFFICES ASSUME IInv PROVE MessageWhole
    OBVIOUS
  <2>1. /\ cur \in Seq(Byte) /\ told \in Seq(Byte) /\ Entered
    BY DEF IInv, TypeOK
  <2>2. /\ Written \in Seq(Byte)
        /\ Len(cur) >= Lag => /\ Len(Written) = Len(cur) - Lag
                              /\ \A i \in 1 .. Len(Written) :
                                   Written[i] = cur[i + Lag]
    <3>1. CASE dropped
      <4>1. /\ SubSeq(cur, 2, Len(cur)) \in Seq(Byte)
            /\ Len(SubSeq(cur, 2, Len(cur))) = IF 2 <= Len(cur) THEN Len(cur) - 1
                                               ELSE 0
            /\ \A i \in 1 .. Len(cur) - 1 :
                 SubSeq(cur, 2, Len(cur))[i] = cur[i + 1]
        BY <2>1, SubSeqProperties
      <4>2. Written = SubSeq(cur, 2, Len(cur)) /\ Lag = 1
        BY <3>1 DEF Written, Lag
      <4>3. /\ Len(cur) \in Nat
            /\ Len(cur) >= 1 => /\ Len(Written) = Len(cur) - 1
                                /\ \A i \in 1 .. Len(Written) :
                                     Written[i] = cur[i + 1]
        <5>1. Len(cur) \in Nat
          BY <2>1
        <5>2. ASSUME Len(cur) >= 1
              PROVE  Len(SubSeq(cur, 2, Len(cur))) = Len(cur) - 1
          <6>1. CASE Len(cur) = 1
            BY <4>1, <5>1, <6>1
          <6>2. CASE 2 <= Len(cur)
            BY <4>1, <5>1, <6>2
          <6> QED
            BY <5>1, <5>2, <6>1, <6>2
        <5> QED
          BY <4>1, <4>2, <5>1, <5>2
      <4> QED
        BY <4>1, <4>2, <4>3
    <3>2. CASE ~dropped
      BY <2>1, <3>2 DEF Written, Lag
    <3> QED
      BY <3>1, <3>2
  <2>3. Lag \in {0, 1} /\ Len(told) + Lag <= Len(cur)
    BY <2>1 DEF Lag, Entered
  <2>4. /\ Len(Written) = Len(cur) - Lag
        /\ \A i \in 1 .. Len(told) : told[i] = Written[i]
        /\ Len(told) \in 0 .. Len(Written)
    BY <2>1, <2>2, <2>3 DEF Entered
  <2>5. told = SubSeq(Written, 1, Len(told))
    <3>1. /\ SubSeq(Written, 1, Len(told)) \in Seq(Byte)
          /\ Len(SubSeq(Written, 1, Len(told))) = Len(told)
          /\ \A i \in 1 .. Len(told) :
               SubSeq(Written, 1, Len(told))[i] = Written[i]
      BY <2>1, <2>2, <2>4, SubSeqProperties
    <3> QED
      BY <2>1, <2>4, <3>1, SeqEqual
  <2>6. ASSUME pc \in {"idle", "reply"}, operation = "none"
        PROVE  told = Written
    <3>1. Len(told) = Len(Written)
      BY <2>1, <2>3, <2>4, <2>6 DEF Entered
    <3> QED
      BY <2>1, <2>2, <2>4, <3>1, SeqEqual
  <2> QED
    BY <2>4, <2>5, <2>6 DEF MessageWhole
<1> QED
  BY Invariance, <1>1, PTL

-----------------------------------------------------------------------------
(* What TransmissionEnds and InitEnds rest on: while a message is under    *)
(* way, the interrupt that asks for its next byte is up or a byte in the   *)
(* FIFO will raise it, although the handler takes the interrupt back after *)
(* its last look; unless a framing error has stopped the transmission.     *)
SignalComes ==
  registered /\ operation = "write" /\ isr = "idle" => irq \/ error \/ tx > 0

(* For the handler: after its first look at the transmit FIFO at least one *)
(* byte is left there, its own or, of a full FIFO, what one byte that may  *)
(* leave in the meantime leaves behind.                                    *)
Filled == tx > 0 /\ (fresh = 0 /\ ~gone => tx > 1)
FilledOnce ==
  /\ fresh <= tx
  /\ isr = "idle" => ~gone
  /\ operation = "write" =>
       /\ isr = "read" \/ (isr \in {"check", "write"} /\ turn > 0) => Filled
       /\ isr = "return" => Filled \/ error

LEMMA FilledOnceStep == IInv /\ FilledOnce /\ [Next]_vars => FilledOnce'
<1> SUFFICES ASSUME IInv, FilledOnce, [Next]_vars PROVE FilledOnce'
  OBVIOUS
<1> USE Constants DEF FilledOnce, Filled
<1>0. /\ turn \in 0 .. READS /\ fresh \in 0 .. READS /\ tx \in 0 .. TXDEPTH
      /\ isr \in {"idle", "check", "write", "read", "return"}
      /\ isr = "idle" => turn = 0 /\ fresh = 0
      /\ isr \in {"check", "write"} => fresh <= turn
      /\ pc \in {"init_read", "init_write", "init_rdy", "start", "print_start"}
           => operation = "none"
  BY DEF IInv, TypeOK, Handling
<1>1. CASE HwReceive
  BY <1>0, <1>1 DEF HwReceive, outVars, isrVars
<1>2. CASE HwSent
  <2>1. (isr = "idle" => ~gone') /\ (isr # "idle" => ~gone /\ gone')
    BY <1>2, Zenon DEF HwSent
  <2>2. /\ tx' = tx - 1 /\ fresh < tx
        /\ UNCHANGED <<isr, turn, fresh, operation, error>>
    BY <1>0, <1>2 DEF HwSent, outVars
  <2>3. isr' = "idle" => ~gone'
    BY <2>1, <2>2
  <2>4. ASSUME isr' # "idle" PROVE gone'
    BY <2>1, <2>2, <2>4
  <2> QED
    BY <1>0, <2>1, <2>2, <2>3, <2>4
<1>3. CASE HwLink
  BY <1>0, <1>3 DEF HwLink, outVars, isrVars
<1>4. CASE ble_isr
  <2> USE <1>0
  <2>1. CASE IsrEnter \/ IsrCheck \/ IsrError
    BY <2>1 DEF IsrEnter, IsrCheck, IsrError, outVars
  <2>2. CASE IsrWrite
    <3>1. CASE tx < TXDEPTH
      <4>1. /\ tx' = tx + 1 /\ fresh' = fresh + 1 /\ isr' = "read"
        BY <2>2, <3>1 DEF IsrWrite, Transmit
      <4> QED
        BY <4>1
    <3>2. CASE ~(tx < TXDEPTH)
      <4>1. /\ tx' = tx /\ fresh' = fresh /\ isr' = "read" /\ tx = TXDEPTH
        BY <2>2, <3>2 DEF IsrWrite
      <4> QED
        BY <4>1
    <3> QED
      BY <3>1, <3>2
  <2>3. CASE IsrNoWrite
    BY <2>3 DEF IsrNoWrite, outVars
  <2>4. CASE IsrLine \/ IsrByte \/ IsrNoRead
    BY <2>4 DEF IsrLine, IsrByte, IsrNoRead, outVars
  <2>5. CASE IsrReturn
    BY <2>5 DEF IsrReturn
  <2> QED
    BY <1>4, <2>1, <2>2, <2>3, <2>4, <2>5 DEF ble_isr
<1>5. CASE init_BLE \/ Restart
  BY <1>0, <1>5
  DEF init_BLE, InitOperation, InitRead, InitWrite, InitReady, BLE_print_str,
      Restart, Main, isrVars
<1>6. CASE SendStart
  BY <1>0, <1>6 DEF SendStart, Transmit, Main, isrVars
<1>7. CASE BLE_console \/ BLE_send_data
  BY <1>0, <1>7 DEF BLE_console, BLE_send_data, Main, isrVars
<1>8. CASE UNCHANGED vars
  BY <1>0, <1>8 DEF vars, outVars, isrVars
<1> QED
  BY <1>1, <1>2, <1>3, <1>4, <1>5, <1>6, <1>7, <1>8 DEF Next

LEMMA SignalStep ==
  IInv /\ FilledOnce /\ SignalComes /\ [Next]_vars => SignalComes'
<1> SUFFICES ASSUME IInv, FilledOnce, SignalComes, [Next]_vars
             PROVE  SignalComes'
  OBVIOUS
<1> USE Constants DEF SignalComes
<1>0. /\ tx \in 0 .. TXDEPTH /\ READS \in Nat \ {0}
      /\ isr = "idle" => fresh = 0
      /\ pc \in {"init_read", "init_write", "init_rdy", "start", "print_start"}
           => operation = "none"
  BY DEF IInv, TypeOK, Handling
<1>1. CASE HwReceive \/ HwSent
  <2>1. irq'
    BY <1>1, Zenon DEF HwReceive, HwSent
  <2> QED
    BY <2>1
<1>2. CASE HwLink
  BY <1>2 DEF HwLink, outVars, isrVars, mainVars
<1>3. CASE ble_isr
  <2>1. CASE IsrReturn
    BY <1>0, <2>1 DEF IsrReturn, FilledOnce, Filled, outVars
  <2>2. CASE ~IsrReturn
    BY <1>3, <2>2
    DEF ble_isr, IsrEnter, IsrCheck, IsrError, IsrWrite, IsrNoWrite, IsrLine,
        IsrByte, IsrNoRead
  <2> QED
    BY <2>1, <2>2
<1>4. CASE init_BLE
  BY <1>0, <1>4
  DEF init_BLE, InitOperation, InitRead, InitWrite, InitReady, BLE_print_str,
      outVars, isrVars
<1>5. CASE Restart
  BY <1>5 DEF Restart, outVars, isrVars
<1>6. CASE SendStart
  <2>1. tx' > 0
    BY <1>0, <1>6 DEF SendStart, Transmit
  <2> QED
    BY <2>1
<1>7. CASE BLE_console \/ BLE_send_data
  BY <1>7 DEF BLE_console, BLE_send_data, outVars, isrVars
<1>8. CASE UNCHANGED vars
  BY <1>8 DEF vars, outVars, isrVars, mainVars
<1> QED
  BY <1>1, <1>2, <1>3, <1>4, <1>5, <1>6, <1>7, <1>8 DEF Next

(* No message waits for an interrupt that was lost, for every number of    *)
(* turns of the handler and every transmit FIFO of two bytes or more: the  *)
(* handler that finds it full and acknowledges leaves a byte in it.        *)
THEOREM SignalIsComing == Spec => []SignalComes
<1>1. Init => FilledOnce /\ SignalComes
  BY DEF Init, FilledOnce, SignalComes
<1> QED
  BY Invariance, FilledOnceStep, SignalStep, <1>1, PTL DEF Spec
=============================================================================
