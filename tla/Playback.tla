------------------------------ MODULE Playback ------------------------------
(***************************************************************************)
(* Recorded answers: say() (sound.c), the speaker's driver (speaker.c) and *)
(* PWM_Audio.  The sample table is two banks, one played while the other   *)
(* is loaded from the card.                                                *)
(*                                                                         *)
(* main() starts the speaker and the cards (hello_world_small.c), app()    *)
(* then calls say() again and again; reset starts main() over.             *)
(***************************************************************************)
EXTENDS Disk

CONSTANTS
  Cards,  \* what the first card may hold
  Names   \* what app() says

(* The fields that are read from the card. *)
ASSUME CardsOK ==
  \A c \in Cards : \A k \in DOMAIN c.files :
    c.files[k].addr \in Nat /\ c.files[k].len \in Nat

VARIABLES
  card,
  file,       \* say's file
  bank,
  spk_flag,
  au_reg,     \* AUDIO_START_ADDR, AUDIO_STOP_ADDR
  au,         \* PWM_loader
  pwm_irq,
  lamp,       \* the READY lamp: what was last asked of it
  status,     \* what say returned last
  \* history
  heard,      \* the words played since say was called
  broken      \* a load failed since say was called

audio == <<au_reg, au, pwm_irq, heard>>
local == <<file, bank, lamp, status>>
vars  == <<diskVars, card, local, spk_flag, audio, broken>>

NoFile == [addr |-> 0, len |-> 0]

Init ==
  /\ DiskInit /\ pc = "boot" /\ ret = "boot"
  /\ card \in Cards /\ file = NoFile /\ bank = 1
  /\ spk_flag = "DOWN" /\ au_reg = [start |-> 0, stop |-> 0]
  /\ au = [state |-> "idle", addr |-> 0] /\ pwm_irq = 0
  /\ lamp = "flash" /\ status = "NONE" /\ heard = << >> /\ broken = FALSE

-----------------------------------------------------------------------------
(* Hardware *)
PlayWord ==
  /\ au.state = "play"
  /\ heard' = Append(heard, table[au.addr])
  /\ au' = IF au.addr = au_reg.stop THEN [au EXCEPT !.state = "end"]
           ELSE [au EXCEPT !.addr = @ + 1]
  /\ UNCHANGED <<diskVars, card, local, spk_flag, au_reg, pwm_irq, broken>>

(* An assumption about time: 16 kB come from a card in a small part of the *)
(* 170 ms they are played, so a load begun before a bank is played, with   *)
(* its interrupt, is over before the bank is.                              *)
DiskKeepsUp == reader.state = "idle" /\ spi_irq = 0

PlayEnds ==
  /\ au.state = "end" /\ DiskKeepsUp
  /\ au' = [au EXCEPT !.state = "idle"] /\ pwm_irq' = 1
  /\ UNCHANGED <<diskVars, card, local, spk_flag, au_reg, heard, broken>>

Audio == PlayWord \/ PlayEnds

Cards_ ==
  /\ Reader \/ Starter
  /\ broken' = (broken \/ failed')
  /\ UNCHANGED <<driver, n, pc, ret, card, local, spk_flag, audio>>

audio_isr ==
  /\ pwm_irq = 1
  /\ spk_flag' = "UP" /\ pwm_irq' = 0
  /\ UNCHANGED <<diskVars, card, local, au_reg, au, heard, broken>>

Interrupts == \/ audio_isr
              \/ spi_isr /\ UNCHANGED <<card, local, spk_flag, audio, broken>>

-----------------------------------------------------------------------------
(* Speaker_read_first_half, Speaker_second_first_half *)
Start(b) == IF b = 1 THEN 0 ELSE BANK

ReadHalf(b, return) ==
  /\ au_reg' = [start |-> Start(b), stop |-> Start(b) + BANK - 1]
  /\ pc' = "spk_flag" /\ ret' = return
  /\ UNCHANGED <<hardware, driver, n, card, local, spk_flag, au, pwm_irq,
                 heard, broken>>

(* Mutant: the flag keeps what the last interrupt left. *)
M_SpkFlag ==
  /\ pc = "spk_flag" /\ pc' = "spk_start"
  /\ UNCHANGED <<hardware, driver, n, ret, card, local, spk_flag, audio, broken>>

SpkFlag ==
  /\ pc = "spk_flag" /\ pc' = "spk_start"
  /\ spk_flag' = "DOWN"
  /\ UNCHANGED <<hardware, driver, n, ret, card, local, audio, broken>>

(* AUDIO_START, and the lamp that playing() first asks for. *)
SpkStart ==
  /\ pc = "spk_start" /\ pc' = ret
  /\ au' = IF au.state = "idle" THEN [state |-> "play", addr |-> au_reg.start]
           ELSE au
  /\ lamp' = IF ret = "playing" THEN "pulse" ELSE lamp
  /\ UNCHANGED <<hardware, driver, n, ret, card, file, bank, status, spk_flag,
                 au_reg, pwm_irq, heard, broken>>

-----------------------------------------------------------------------------
(* main() *)
Speaker_init ==
  /\ pc = "boot"
  /\ ReadHalf(1, "disk")

BootDisk ==
  /\ pc = "disk" /\ InitDisk("booted")
  /\ UNCHANGED <<disk_flag, card, local, spk_flag, audio, broken>>

(* 500 ms later, with what Speaker_init started played. *)
Booted ==
  /\ pc = "booted" /\ au.state = "idle" /\ pwm_irq = 0
  /\ IF disk_status = "ERROR"
     THEN pc' = "panic" /\ lamp' = "dark"
     ELSE pc' = "idle" /\ lamp' = "ready"
  /\ UNCHANGED <<hardware, driver, n, ret, card, file, bank, status, spk_flag,
                 audio, broken>>

(* Reset, in a panic or anywhere in app() but inside say(). *)
StartOver ==
  /\ pc \in {"idle", "panic"} /\ pc' = "boot"
  /\ disk_flag' = "DOWN" /\ disk_status' = "NONE" /\ spk_flag' = "DOWN"
  /\ lamp' = "flash" /\ heard' = << >> /\ status' = "NONE"
  /\ file' = NoFile
  /\ UNCHANGED <<hardware, tries, answer, n, ret, card, bank, au_reg, au,
                 pwm_irq, broken>>

-----------------------------------------------------------------------------
(* say() *)
Return(s) == pc' = "idle" /\ status' = s

Say ==
  /\ pc = "idle"
  /\ load_disk(0, HEADER, 0, "file_exists")
  /\ file' = NoFile /\ bank' = 1 /\ status' = "NONE"
  /\ heard' = << >> /\ broken' = FALSE
  /\ UNCHANGED <<answer, n, card, lamp, spk_flag, au_reg, au, pwm_irq>>

Looked ==
  /\ pc = "file_exists" /\ check_disk # "IN_PROGRESS"
  /\ answer' = check_disk
  /\ UNCHANGED <<hardware, disk_flag, disk_status, tries, n, ret, card, bank,
                 lamp, spk_flag, audio, broken>>

FileExists ==
  /\ Looked
  /\ \E name \in Names, k \in DOMAIN card.files :
       /\ File_exists(card, name) = "EXISTS" /\ FirstStop(card, name, k)
       /\ file' = [addr |-> card.files[k].addr, len |-> card.files[k].len]
  /\ pc' = "preload" /\ UNCHANGED status

NoFileToSay ==
  /\ Looked
  /\ \E name \in Names :
       /\ File_exists(card, name) # "EXISTS"
       /\ Return(IF File_exists(card, name) = "NOT_EXISTS" THEN "NO_FILE"
                 ELSE "DISK_ERROR")
  /\ UNCHANGED file

Preload ==
  /\ pc = "preload"
  /\ load_disk(file.addr, BANK - 1, 0, "preloading")
  /\ UNCHANGED <<answer, n, card, local, spk_flag, audio, broken>>

Preloaded ==
  /\ pc = "preloading" /\ check_disk # "IN_PROGRESS"
  /\ answer' = check_disk
  /\ IF check_disk = "FAIL" THEN Return("DISK_ERROR") /\ UNCHANGED n
     ELSE n' = file.addr + 2 /\ pc' = "loop" /\ UNCHANGED status
  /\ UNCHANGED <<hardware, disk_flag, disk_status, tries, ret, card, file,
                 bank, lamp, spk_flag, audio, broken>>

(* Mutant: the next part goes where the last one went. *)
M_LoadNext ==
  /\ pc = "loop" /\ n < file.addr + file.len
  /\ load_disk(n, BANK - 1, Start(bank), "play")
  /\ UNCHANGED <<answer, n, card, local, spk_flag, audio, broken>>

LoadNext ==
  /\ pc = "loop" /\ n < file.addr + file.len
  /\ load_disk(n, BANK - 1, Start(3 - bank), "play")
  /\ UNCHANGED <<answer, n, card, local, spk_flag, audio, broken>>

Play ==
  /\ pc = "play"
  /\ ReadHalf(bank, "playing")

(* Mutant: the last part is left out. *)
M_Played ==
  /\ pc = "playing" /\ spk_flag = "UP"
  /\ spk_flag' = "DOWN" /\ bank' = 3 - bank /\ n' = n + 2
  /\ IF n + 4 < file.addr + file.len THEN pc' = "loop" /\ UNCHANGED status
     ELSE Return("OK")
  /\ UNCHANGED <<hardware, driver, ret, card, file, lamp, audio, broken>>

Played ==
  /\ pc = "playing" /\ spk_flag = "UP"
  /\ spk_flag' = "DOWN" /\ bank' = 3 - bank /\ n' = n + 2
  /\ pc' = "loop"
  /\ UNCHANGED <<hardware, driver, ret, card, file, lamp, status, audio,
                 broken>>

Said ==
  /\ pc = "loop" /\ n >= file.addr + file.len
  /\ lamp' = "ready" /\ Return("OK")
  /\ UNCHANGED <<hardware, driver, n, ret, card, file, bank, spk_flag, audio,
                 broken>>

Program ==
  \/ DiskProgram /\ UNCHANGED <<card, local, spk_flag, audio, broken>>
  \/ Speaker_init \/ BootDisk \/ Booted \/ SpkFlag \/ SpkStart
  \/ FileExists \/ NoFileToSay \/ Preload \/ Preloaded
  \/ LoadNext \/ Play \/ Played \/ Said

Next == Audio \/ Cards_ \/ Interrupts \/ Program \/ Say \/ StartOver

Spec == Init /\ [][Next]_vars

(* The hardware ends what it began, an interrupt is taken, and the program *)
(* waits for nothing but flags.                                            *)
FairSpec == Spec /\ WF_vars(Audio) /\ WF_vars(Cards_) /\ WF_vars(Interrupts)
                 /\ WF_vars(Program)

-----------------------------------------------------------------------------
(* Properties *)
SpeakerType ==
  /\ au_reg \in [start : Words, stop : Words]
  /\ au \in [state : {"idle", "play", "end"}, addr : Words]
  /\ pwm_irq \in {0, 1} /\ spk_flag \in {"UP", "DOWN"}
  /\ heard \in Seq(Nat \X Nat)

SayType ==
  /\ card \in Cards /\ file \in [addr : Nat, len : Nat] /\ bank \in 1 .. 2
  /\ lamp \in {"flash", "dark", "ready", "pulse"}
  /\ status \in {"NONE", "OK", "NO_FILE", "DISK_ERROR"}
  /\ broken \in BOOLEAN

ControlType ==
  /\ pc \in {"boot", "spk_flag", "spk_start", "disk", "card_wait",
             "card_start", "card_result", "booted", "panic", "idle",
             "load_flag", "load_start", "file_exists", "preload",
             "preloading", "loop", "play", "playing"}
  /\ ret \in {"boot", "disk", "booted", "file_exists", "preloading", "play",
              "playing"}

(* Types, and that neither machine ever leaves the sample table: the card  *)
(* finds its last word by comparing a length, the audio by an address.     *)
TypeOK == HardwareType /\ DriverType /\ SpeakerType /\ SayType /\ ControlType

(* The card never writes into the bank that is being played (sound.c:34),  *)
(* although the two addresses are written by different parts of the code   *)
(* and only the audio's interrupt is waited for.                           *)
Half(w) == IF w < BANK THEN 1 ELSE 2
BanksApart ==
  au.state = "play" /\ reader.state = "read"
    => Half(reader.addr) # Half(au.addr)

(* As long as no load fails, what is heard is the file's words, in order   *)
(* and none twice, across both banks.                                      *)
HeardInOrder ==
  ~broken /\ file # NoFile =>
    \A k \in DOMAIN heard :
      heard[k] = <<file.addr + 2 * ((k - 1) \div BANK), (k - 1) % BANK>>

(* say() returns OK only after all parts but the last loaded one were      *)
(* heard, and the lamp says that the node listens again.                   *)
Parts == IF file.len = 0 THEN 0 ELSE (file.len - 1) \div 2
SaidWhole ==
  pc = "idle" /\ status = "OK" => Len(heard) = BANK * Parts /\ lamp = "ready"

(* When say() returns, both machines are at rest: its last load, which     *)
(* nobody waits for, writes into the table the recorder uses next, and a   *)
(* START would be ignored.                                                 *)
LeftAtRest ==
  pc = "idle" => /\ reader.state = "idle" /\ spi_irq = 0
                 /\ au.state = "idle" /\ pwm_irq = 0

(* The answer is given, or the missing cards are shown, with any errors of *)
(* the cards: no flag is waited for whose interrupt has come before.       *)
AnswerEnds == pc \notin {"idle", "panic"} ~> pc \in {"idle", "panic"}

(* What makes them inductive: where in the program each machine may be at  *)
(* work, ...                                                               *)
InPlay == \/ pc \in {"play", "playing"}
          \/ pc \in {"spk_flag", "spk_start"} /\ ret = "playing"
Waiting == pc \in {"file_exists", "preloading"}
Booting == pc \in {"disk", "card_wait", "card_start", "card_result", "booted"}

Returns ==
  /\ pc \in {"spk_flag", "spk_start"} => ret \in {"disk", "playing"}
  /\ pc \in {"load_flag", "load_start"} =>
       ret \in {"file_exists", "preloading", "play"}
  /\ pc \in {"card_wait", "card_start", "card_result"} =>
       ret = "booted" /\ n \in 1 .. CARDS /\ tries < TRIES

DiskAtWork ==
  /\ reader.state # "idle" => InPlay \/ Waiting
  /\ spi_irq = 1 => /\ reader.state = "idle"
                    /\ InPlay \/ Waiting \/ pc = "card_result"
  /\ \A c \in 1 .. CARDS : starter[c].state = "busy" =>
       pc = "card_result" /\ c = n /\ disk_flag = "DOWN" /\ spi_irq = 0
  /\ pc \in {"load_start", "card_start"} => disk_flag = "DOWN"
  /\ Waiting \/ pc = "card_result" =>
       (disk_flag = "UP" => reader.state = "idle" /\ spi_irq = 0)

AudioAtWork ==
  /\ au.state # "idle" \/ pwm_irq = 1 => pc = "playing" \/ Booting
  /\ pwm_irq = 1 => au.state = "idle"
  /\ pc = "spk_start" => spk_flag = "DOWN"
  /\ pc = "playing" =>
       /\ spk_flag = "UP" => au.state = "idle" /\ pwm_irq = 0
       /\ au.state = "idle" => DiskKeepsUp

(* ... and where they are in the table. *)
Places ==
  /\ reg.addr \in {0, BANK} /\ au_reg.start \in {0, BANK}
  /\ reader.state = "read" =>
       reader.addr = reg.addr + reader.count /\ reader.count <= reg.len
  /\ pc \in {"spk_flag", "spk_start"} \/ au.state = "play" =>
       au_reg.stop = au_reg.start + BANK - 1
  /\ au.state = "play" => au.addr \in au_reg.start .. au_reg.stop
  /\ InPlay \/ (pc \in {"load_flag", "load_start"} /\ ret = "play") =>
       reg.addr = Start(3 - bank)
  /\ InPlay /\ pc # "play" => au_reg.start = Start(bank)

IInv == TypeOK /\ Returns /\ DiskAtWork /\ AudioAtWork /\ Places

(* On top of it: what a load that did not fail has brought, ...            *)
Filled(count) ==
  \A w \in 0 .. count - 1 : table[reg.addr + w] = <<reg.sector, w>>
Brought ==
  /\ reader.state = "read" => reader.sector = reg.sector /\ Filled(reader.count)
  /\ ~broken => reader.state # "error"
  /\ ~broken /\ (\/ reader.state = "done"
                 \/ reader.state = "idle" /\ (InPlay \/ Waiting)) =>
       Filled(reg.len + 1)

(* ... how many parts say() has played, and how much of the next one, ...  *)
Calls(return) == pc \in {"load_flag", "load_start"} /\ ret = return
Starting  == \/ pc = "boot" \/ Booting
             \/ pc \in {"spk_flag", "spk_start"} /\ ret = "disk"
Looking   == pc = "file_exists" \/ Calls("file_exists")
Fetching  == pc = "preloading" \/ Calls("preloading")
Following == InPlay \/ Calls("play")
Telling   == pc = "loop" \/ Following

Part == (n - file.addr) \div 2 - 1
Within == IF pc # "playing" THEN 0
          ELSE IF au.state = "play" THEN au.addr - au_reg.start ELSE BANK

Counted ==
  /\ Looking \/ Starting => file = NoFile
  /\ Starting => status = "NONE"
  /\ Looking \/ Fetching \/ pc = "preload" => heard = << >> /\ bank = 1
  /\ Fetching => reg = [addr |-> 0, sector |-> file.addr, len |-> BANK - 1]
  /\ Following => /\ reg.sector = n /\ reg.len = BANK - 1
                  /\ n < file.addr + file.len
  /\ Telling => /\ Part \in Nat /\ n = file.addr + 2 * Part + 2
                /\ Len(heard) = BANK * Part + Within
                /\ Part = 0 \/ 2 * Part < file.len
  /\ SaidWhole

(* ... and that both are the file's words.                                 *)
Loaded(b, sector) ==
  \A w \in 0 .. BANK - 1 : table[Start(b) + w] = <<sector, w>>
Told ==
  \A p \in Nat, w \in 0 .. BANK - 1 :
    BANK * p + w < Len(heard) =>
      heard[BANK * p + w + 1] = <<file.addr + 2 * p, w>>
InOrder ==
  /\ ~broken /\ Telling => Loaded(bank, n - 2)
  /\ ~broken /\ file # NoFile => Told

Story == Brought /\ Counted /\ InOrder

(* thesis/tex/1-wstep.tex:1703: after the interrupt that ends a load the   *)
(* error register can be checked.                                          *)
FailedLoadReported == answer = "OK" => ~failed
=============================================================================
