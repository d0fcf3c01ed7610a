-------------------------------- MODULE Disk --------------------------------
(***************************************************************************)
(* The SD cards: the program's side (disk.c, ai_fs.c) and the part of      *)
(* SpeedSPI it talks to, a reader that copies sectors of the first card    *)
(* into the sample table and a starter for each of the four cards.         *)
(*                                                                         *)
(* The program is one flow of control, pc; load_disk is a subroutine that  *)
(* comes back to ret.  The registers, the flag and START are written one   *)
(* after the other, because the interrupt may come in between.             *)
(***************************************************************************)
EXTENDS Naturals, Sequences

CONSTANTS
  BANK,    \* words of half the sample table: one load of 32 blocks
  HEADER,  \* words of the directory's load, less one
  CARDS,   \* SPI_CARDS_NUMBER = 4
  TRIES    \* MAX_RETRIES_AMOUNT = 3

ASSUME DiskConstantsOK ==
  /\ BANK \in Nat \ {0} /\ HEADER \in 0 .. BANK - 1
  /\ CARDS \in Nat \ {0} /\ TRIES \in Nat \ {0}

VARIABLES
  reg,        \* SPI_STARTADDR and SPI_SDSECTOR
  reader,     \* SPI_reader_memory
  starter,    \* what SPI_starter is doing and SPI_registers holds, per card
  spi_irq,    \* SPI_av_irq
  table,      \* memories->table: which word of which load it holds
  disk_flag, disk_status,
  n, tries,   \* q_start_cards' and init_disk's counters
  pc, ret,
  answer,     \* what check_disk or wait_for_disk said last
  failed      \* history: the last load ended with an error

hardware == <<reg, reader, starter, spi_irq, table, failed>>
driver   == <<disk_flag, disk_status, tries, answer>>
diskVars == <<hardware, driver, n, pc, ret>>

Words == 0 .. 2 * BANK - 1
Nothing == <<0, 2 * BANK>>     \* no load has a word of this number

DiskInit ==
  /\ reg = [addr |-> 0, sector |-> 0, len |-> 0]
  /\ reader = [state |-> "idle", addr |-> 0, sector |-> 0, count |-> 0]
  /\ starter = [c \in 1 .. CARDS |-> [state |-> "idle", result |-> "none"]]
  /\ spi_irq = 0 /\ table = [w \in Words |-> Nothing] /\ failed = FALSE
  /\ disk_flag = "DOWN" /\ disk_status = "NONE" /\ tries = 0 /\ n = 1
  /\ answer = "NONE"

-----------------------------------------------------------------------------
(* Hardware *)

(* Mutant: the length is the number of words, not of the last. *)
M_ReadWord ==
  /\ reader.state = "read"
  /\ table' = [table EXCEPT ![reader.addr] = <<reader.sector, reader.count>>]
  /\ reader' = IF reader.count = reg.len + 1
               THEN [reader EXCEPT !.state = "done"]
               ELSE [reader EXCEPT !.addr = @ + 1, !.count = @ + 1]
  /\ UNCHANGED <<reg, starter, spi_irq, failed>>

(* One word; the last is found by comparing with the length register as it *)
(* is now, and for equality.                                               *)
ReadWord ==
  /\ reader.state = "read"
  /\ table' = [table EXCEPT ![reader.addr] = <<reader.sector, reader.count>>]
  /\ reader' = IF reader.count = reg.len
               THEN [reader EXCEPT !.state = "done"]
               ELSE [reader EXCEPT !.addr = @ + 1, !.count = @ + 1]
  /\ UNCHANGED <<reg, starter, spi_irq, failed>>

(* A sector that does not begin with 0: error is up in this state only. *)
ReadFails ==
  /\ reader.state = "read"
  /\ reader' = [reader EXCEPT !.state = "error"] /\ failed' = TRUE
  /\ UNCHANGED <<reg, starter, spi_irq, table>>

GiveUp ==
  /\ reader.state = "error"
  /\ reader' = [reader EXCEPT !.state = "done"]
  /\ UNCHANGED <<reg, starter, spi_irq, table, failed>>

ReadEnds ==
  /\ reader.state = "done"
  /\ reader' = [reader EXCEPT !.state = "idle"] /\ spi_irq' = 1
  /\ UNCHANGED <<reg, starter, table, failed>>

Reader == ReadWord \/ ReadFails \/ GiveUp \/ ReadEnds

StarterEnds(c, r) ==
  /\ starter[c].state = "busy"
  /\ starter' = [starter EXCEPT ![c] = [state |-> "idle", result |-> r]]
  /\ spi_irq' = 1
  /\ UNCHANGED <<reg, reader, table, failed>>

Starter == \E c \in 1 .. CARDS, r \in {"success", "error"} : StarterEnds(c, r)

(* What SPI_output puts on the bus when SPI_Q2_ERROR is read. *)
Q2Error == reader.state = "error"

spi_isr ==
  /\ spi_irq = 1
  /\ disk_flag' = "UP" /\ spi_irq' = 0
  /\ UNCHANGED <<reg, reader, starter, table, failed, disk_status, tries,
                 answer, n, pc, ret>>

-----------------------------------------------------------------------------
(* Loading *)

load_disk(sector, len, start, return) ==
  /\ reg' = [addr |-> start, sector |-> sector, len |-> len]
  /\ pc' = "load_flag" /\ ret' = return
  /\ UNCHANGED <<reader, starter, spi_irq, table, failed, disk_flag,
                 disk_status, tries>>

(* Mutant: the flag is left as the last operation left it. *)
M_LoadFlag ==
  /\ pc = "load_flag" /\ pc' = "load_start"
  /\ UNCHANGED <<hardware, driver, n, ret>>

LoadFlag ==
  /\ pc = "load_flag" /\ pc' = "load_start"
  /\ disk_flag' = "DOWN"
  /\ UNCHANGED <<hardware, disk_status, tries, answer, n, ret>>

(* A reader that is busy takes no notice. *)
LoadStart ==
  /\ pc = "load_start" /\ pc' = ret
  /\ reader' = IF reader.state = "idle"
               THEN [state |-> "read", addr |-> reg.addr,
                     sector |-> reg.sector, count |-> 0]
               ELSE reader
  /\ failed' = FALSE /\ answer' = "NONE"
  /\ UNCHANGED <<reg, starter, spi_irq, table, disk_flag, disk_status, tries,
                 n, ret>>

(* check_disk, and wait_for_disk once it may go on. *)
check_disk == IF disk_flag = "DOWN" THEN "IN_PROGRESS"
              ELSE IF Q2Error THEN "FAIL" ELSE "OK"

-----------------------------------------------------------------------------
(* init_disk: every card in turn, and all of them again after an error *)
InitDisk(return) ==
  /\ n' = 1 /\ tries' = 0 /\ pc' = "card_wait" /\ ret' = return
  /\ UNCHANGED <<hardware, disk_status, answer>>

CardWait ==              \* DELAY_BEETWEN_INIT passes, flag = DISK_FLAG_DOWN
  /\ pc = "card_wait" /\ pc' = "card_start"
  /\ disk_flag' = "DOWN"
  /\ UNCHANGED <<hardware, disk_status, tries, answer, n, ret>>

CardStart ==
  /\ pc = "card_start" /\ pc' = "card_result"
  /\ starter' = [starter EXCEPT ![n].state = "busy"]
  /\ UNCHANGED <<reg, reader, spi_irq, table, failed, driver, n, ret>>

CardReady ==
  /\ pc = "card_result" /\ disk_flag = "UP"
  /\ starter[n].result = "success"
  /\ IF n = CARDS
     THEN /\ disk_status' = "READY" /\ pc' = ret /\ UNCHANGED n
     ELSE /\ n' = n + 1 /\ pc' = "card_wait" /\ UNCHANGED disk_status
  /\ UNCHANGED <<hardware, disk_flag, tries, answer, ret>>

(* Mutant: errors are not counted. *)
M_CardError ==
  /\ pc = "card_result" /\ disk_flag = "UP"
  /\ starter[n].result # "success"
  /\ n' = 1 /\ pc' = "card_wait"
  /\ UNCHANGED <<hardware, disk_flag, disk_status, tries, answer, ret>>

CardError ==
  /\ pc = "card_result" /\ disk_flag = "UP"
  /\ starter[n].result # "success"
  /\ n' = 1 /\ tries' = tries + 1
  /\ IF tries + 1 = TRIES
     THEN disk_status' = "ERROR" /\ pc' = ret
     ELSE pc' = "card_wait" /\ UNCHANGED disk_status
  /\ UNCHANGED <<hardware, disk_flag, answer, ret>>

DiskProgram == \/ LoadFlag \/ LoadStart
               \/ CardWait \/ CardStart \/ CardReady \/ CardError

-----------------------------------------------------------------------------
(* The directory: a card is its header, its files in the order they are    *)
(* listed, whether an 'E' ends them, and whether the check sum is right.   *)
(* A name is terminated or it fills its field.                             *)

(* compare: the first name ends where it ends, the second may go on. *)
compare(a, b) == /\ Len(a) <= Len(b)
                 /\ \A i \in 1 .. Len(a) : a[i] = b[i]

(* File_exists after its load; the answer DATA_FALSE to a name that fills  *)
(* its field is FILE_SYSTEM_OK.                                            *)
Stops(card, name) ==
  {k \in DOMAIN card.files :
     ~card.files[k].terminated \/ compare(name, card.files[k].name)}

FirstStop(card, name, k) ==
  /\ k \in Stops(card, name)
  /\ \A l \in Stops(card, name) : k <= l

File_exists(card, name) ==
  LET summed(s) == IF card.csum THEN s ELSE "ERROR"
  IN  IF check_disk = "FAIL" THEN "NO_DISK"
      ELSE IF table[0] # <<0, 0>> \/ card.header \in {"foreign", "newer"}
      THEN "NO_FS"
      ELSE IF card.header # "proper" THEN "ERROR"
      ELSE IF Stops(card, name) = {}
           THEN IF card.ends THEN summed("NOT_EXISTS") ELSE "ERROR"
      ELSE IF \E k \in DOMAIN card.files :
                FirstStop(card, name, k) /\ card.files[k].terminated
           THEN summed("EXISTS")
      ELSE "OK"

-----------------------------------------------------------------------------
HardwareType ==
  /\ reg \in [addr : Words, sector : Nat, len : 0 .. BANK - 1]
  /\ reader \in [state : {"idle", "read", "error", "done"}, addr : Words,
                 sector : Nat, count : 0 .. BANK - 1]
  /\ starter \in [1 .. CARDS -> [state : {"idle", "busy"},
                                 result : {"none", "success", "error"}]]
  /\ table \in [Words -> Nat \X Nat]
  /\ spi_irq \in {0, 1}

DriverType ==
  /\ disk_flag \in {"UP", "DOWN"}
  /\ disk_status \in {"NONE", "READY", "ERROR"}
  /\ n \in Nat /\ tries \in 0 .. TRIES
  /\ answer \in {"NONE", "OK", "FAIL"} /\ failed \in BOOLEAN
=============================================================================
