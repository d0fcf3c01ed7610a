--------------------------- MODULE Playback_proofs ---------------------------
(***************************************************************************)
(* Theorems about Playback, for every size of the banks and of the         *)
(* directory's load, every number of cards and of tries, and whatever the  *)
(* cards hold.                                                             *)
(***************************************************************************)
EXTENDS Playback, Integers, SequenceTheorems, TLAPS

LEMMA InitIInv == Init => IInv
<1> SUFFICES ASSUME Init PROVE IInv
  OBVIOUS
<1> USE DiskConstantsOK
<1>1. HardwareType
  <2>1. 0 \in Words /\ 0 \in Nat /\ 0 \in 0 .. BANK - 1
    BY DEF Words
  <2>2. Nothing \in Nat \X Nat
    BY DEF Nothing
  <2> QED
    BY <2>1, <2>2 DEF Init, DiskInit, HardwareType
<1>2. DriverType
  <2>1. failed \in BOOLEAN
    BY Zenon DEF Init, DiskInit
  <2> QED
    BY <2>1 DEF Init, DiskInit, DriverType
<1>6. SpeakerType
  <2>1. 0 \in Words
    BY DEF Words
  <2> QED
    BY <2>1 DEF Init, SpeakerType
<1>7. SayType
  <2>1. broken \in BOOLEAN
    BY Zenon DEF Init
  <2> QED
    BY <2>1 DEF Init, SayType, NoFile
<1>8. ControlType
  BY DEF Init, ControlType
<1>3. Returns /\ AudioAtWork
  <2>1. pc = "boot" /\ au.state = "idle" /\ pwm_irq = 0
    BY DEF Init
  <2> QED
    BY <2>1 DEF Returns, AudioAtWork, Booting, DiskKeepsUp
<1>4. DiskAtWork
  BY DEF Init, DiskInit, DiskAtWork, Waiting, InPlay
<1>5. Places
  BY DEF Init, DiskInit, Places, InPlay
<1> QED
  BY <1>1, <1>2, <1>3, <1>4, <1>5, <1>6, <1>7, <1>8 DEF IInv, TypeOK

-----------------------------------------------------------------------------
(* The steps of the program, named once for the lemmas below. *)
Boot == Speaker_init \/ BootDisk \/ Booted \/ StartOver
Sound == SpkFlag \/ SpkStart \/ Play \/ Played
File == Say \/ FileExists \/ NoFileToSay \/ Preload \/ Preloaded \/ LoadNext
          \/ Said

LEMMA Cases ==
  ASSUME [Next]_vars
  PROVE  \/ PlayWord \/ PlayEnds \/ Cards_ \/ audio_isr
         \/ spi_isr /\ UNCHANGED <<card, local, spk_flag, audio, broken>>
         \/ DiskProgram /\ UNCHANGED <<card, local, spk_flag, audio, broken>>
         \/ Boot \/ Sound \/ File \/ UNCHANGED vars
BY DEF Next, Audio, Interrupts, Program, Boot, Sound, File

LEMMA ReturnsStep == IInv /\ [Next]_vars => Returns'
<1> SUFFICES ASSUME IInv, [Next]_vars PROVE Returns'
  OBVIOUS
<1> USE DiskConstantsOK
<1>0. Returns
  BY DEF IInv
<1>t. n \in Nat /\ tries \in 0 .. TRIES
  BY DEF IInv, TypeOK, DriverType
<1>1. CASE PlayWord \/ PlayEnds \/ Cards_ \/ audio_isr \/ UNCHANGED vars
  BY <1>0, <1>1 DEF PlayWord, PlayEnds, Cards_, audio_isr, vars, diskVars,
                    driver, Returns
<1>2. CASE spi_isr
  BY <1>0, <1>2 DEF spi_isr, Returns
<1>3. CASE DiskProgram
  <2>1. CASE LoadFlag \/ LoadStart \/ CardWait \/ CardStart
    BY <1>0, <2>1 DEF LoadFlag, LoadStart, CardWait, CardStart, driver, Returns
  <2>2. CASE CardReady \/ CardError
    <3>1. pc = "card_result" /\ ret' = "booted"
      BY <1>0, <2>2 DEF CardReady, CardError, Returns
    <3>2. n \in 1 .. CARDS /\ tries < TRIES
      BY <1>0, <3>1 DEF Returns
    <3>3. pc' = "card_wait" => n' \in 1 .. CARDS /\ tries' < TRIES
      <4>1. CASE CardReady
        BY <1>0, <1>t, <3>1, <3>2, <4>1 DEF CardReady, Returns
      <4>2. CASE CardError
        BY <1>0, <1>t, <3>1, <3>2, <4>2 DEF CardError, Returns
      <4> QED
        BY <2>2, <4>1, <4>2
    <3>4. pc' \in {"card_wait", "booted"}
      BY <1>0, <2>2, <3>1 DEF CardReady, CardError, Returns
    <3> QED
      BY <3>1, <3>3, <3>4 DEF Returns
  <2> QED
    BY <1>3, <2>1, <2>2 DEF DiskProgram
<1>4. CASE Boot
  <2>1. CASE BootDisk
    BY <2>1 DEF BootDisk, InitDisk, Returns
  <2>2. CASE Speaker_init \/ Booted \/ StartOver
    BY <2>2 DEF Speaker_init, Booted, StartOver, ReadHalf, Returns
  <2> QED
    BY <1>4, <2>1, <2>2 DEF Boot
<1>5. CASE Sound
  BY <1>0, <1>5 DEF Sound, SpkFlag, SpkStart, Play, Played, ReadHalf, Returns
<1>6. CASE File
  BY <1>0, <1>6 DEF File, Say, FileExists, NoFileToSay, Looked, Preload,
                    Preloaded, LoadNext, Said, load_disk, Return, Returns
<1> QED
  BY <1>1, <1>2, <1>3, <1>4, <1>5, <1>6, Cases

LEMMA DiskAtWorkStep == IInv /\ [Next]_vars => DiskAtWork'
<1> SUFFICES ASSUME IInv, [Next]_vars PROVE DiskAtWork'
  OBVIOUS
<1> USE DiskConstantsOK
<1>0. DiskAtWork /\ Returns /\ AudioAtWork
  BY DEF IInv
<1>t. /\ reader \in [state : {"idle", "read", "error", "done"}, addr : Words,
                     sector : Nat, count : 0 .. BANK - 1]
      /\ starter \in [1 .. CARDS -> [state : {"idle", "busy"},
                                     result : {"none", "success", "error"}]]
      /\ spi_irq \in {0, 1} /\ disk_flag \in {"UP", "DOWN"}
  BY DEF IInv, TypeOK, HardwareType, DriverType
<1> USE DEF DiskAtWork, InPlay, Waiting
<1>1. CASE PlayWord \/ PlayEnds \/ audio_isr \/ UNCHANGED vars
  BY <1>0, <1>1 DEF PlayWord, PlayEnds, audio_isr, vars, diskVars, hardware,
                    driver
<1>2. CASE Cards_
  <2>1. CASE Reader
    BY <1>0, <1>2, <1>t, <2>1
    DEF Cards_, Reader, ReadWord, ReadFails, GiveUp, ReadEnds, driver
  <2>2. CASE Starter
    <3>1. PICK c \in 1 .. CARDS, r \in {"success", "error"} : StarterEnds(c, r)
      BY <2>2 DEF Starter
    <3>2. /\ starter[c].state = "busy" /\ spi_irq' = 1
          /\ UNCHANGED <<reader, disk_flag, pc, ret, n>>
          /\ \A d \in 1 .. CARDS :
               starter'[d].state = IF d = c THEN "idle" ELSE starter[d].state
      BY <1>2, <1>t, <3>1 DEF Cards_, StarterEnds, driver
    <3>3. /\ pc = "card_result" /\ c = n /\ disk_flag = "DOWN"
          /\ reader.state = "idle"
      BY <1>0, <3>1, <3>2
    <3>4. \A d \in 1 .. CARDS : starter'[d].state # "busy"
      BY <1>0, <3>2, <3>3
    <3> QED
      BY <3>2, <3>3, <3>4
  <2> QED
    BY <1>2, <2>1, <2>2 DEF Cards_
<1>3. CASE spi_isr
  BY <1>0, <1>3, <1>t DEF spi_isr
<1>4. CASE DiskProgram
  <2>1. CASE LoadFlag
    BY <1>0, <2>1 DEF LoadFlag, Returns, hardware
  <2>2. CASE LoadStart
    BY <1>0, <2>2 DEF LoadStart, Returns
  <2>3. CASE CardWait
    BY <1>0, <2>3 DEF CardWait, hardware
  <2>4. CASE CardStart
    <3>0. n \in 1 .. CARDS
      BY <1>0, <2>4 DEF CardStart, Returns
    <3>1. \A c \in 1 .. CARDS :
            c # n => starter'[c].state = starter[c].state
      BY <1>t, <2>4 DEF CardStart
    <3>2. /\ pc = "card_start" /\ pc' = "card_result" /\ ret' = ret /\ n' = n
          /\ UNCHANGED <<reader, spi_irq, disk_flag>>
      BY <2>4 DEF CardStart, driver
    <3>3. /\ reader.state = "idle" /\ spi_irq = 0 /\ disk_flag = "DOWN"
          /\ \A c \in 1 .. CARDS : starter[c].state # "busy"
      BY <1>0, <1>t, <3>2
    <3>4. \A c \in 1 .. CARDS : starter'[c].state = "busy" => c = n'
      BY <3>1, <3>2, <3>3
    <3> QED
      BY <3>2, <3>3, <3>4
  <2>5. CASE CardReady \/ CardError
    BY <1>0, <1>t, <2>5 DEF CardReady, CardError, Returns, hardware
  <2> QED
    BY <1>4, <2>1, <2>2, <2>3, <2>4, <2>5 DEF DiskProgram
<1>5. CASE Boot
  BY <1>0, <1>5, <1>t
  DEF Boot, Speaker_init, BootDisk, Booted, StartOver, ReadHalf, InitDisk,
      hardware, driver
<1>6. CASE Sound
  BY <1>0, <1>6, <1>t
  DEF Sound, SpkFlag, SpkStart, Play, Played, ReadHalf, Returns, hardware,
      driver, AudioAtWork, DiskKeepsUp
<1>7. CASE File
  BY <1>0, <1>7, <1>t
  DEF File, Say, FileExists, NoFileToSay, Looked, Preload, Preloaded, LoadNext,
      Said, load_disk, Return, Returns, hardware, driver, check_disk
<1> QED
  BY <1>1, <1>2, <1>3, <1>4, <1>5, <1>6, <1>7, Cases

LEMMA AudioAtWorkStep == IInv /\ [Next]_vars => AudioAtWork'
<1> SUFFICES ASSUME IInv, [Next]_vars PROVE AudioAtWork'
  OBVIOUS
<1>0. DiskAtWork /\ Returns /\ AudioAtWork
  BY DEF IInv
<1>t. /\ au \in [state : {"idle", "play", "end"}, addr : Words]
      /\ pwm_irq \in {0, 1} /\ spk_flag \in {"UP", "DOWN"}
  BY DEF IInv, TypeOK, SpeakerType
<1> USE DEF AudioAtWork, Booting, DiskKeepsUp
<1>1. CASE PlayWord \/ PlayEnds \/ audio_isr \/ UNCHANGED vars
  BY <1>0, <1>1, <1>t
  DEF PlayWord, PlayEnds, audio_isr, vars, diskVars, hardware, audio
<1>2. CASE Cards_
  <2>1. UNCHANGED <<pc, spk_flag, au, pwm_irq>>
    BY <1>2 DEF Cards_, audio
  <2>2. CASE Reader
    BY <1>0, <2>1, <2>2
    DEF Reader, ReadWord, ReadFails, GiveUp, ReadEnds
  <2>3. CASE Starter
    <3>1. pc = "card_result"
      BY <1>0, <2>3 DEF Starter, StarterEnds, DiskAtWork
    <3> QED
      BY <1>0, <2>1, <3>1
  <2> QED
    BY <1>2, <2>2, <2>3 DEF Cards_
<1>3. CASE spi_isr /\ UNCHANGED <<card, local, spk_flag, audio, broken>>
  BY <1>0, <1>3 DEF spi_isr, audio
<1>4. CASE DiskProgram /\ UNCHANGED <<card, local, spk_flag, audio, broken>>
  BY <1>0, <1>4
  DEF DiskProgram, LoadFlag, LoadStart, CardWait, CardStart, CardReady,
      CardError, Returns, audio
<1>5. CASE Boot
  BY <1>0, <1>5
  DEF Boot, Speaker_init, BootDisk, Booted, StartOver, ReadHalf, InitDisk,
      audio
<1>6. CASE Sound
  BY <1>0, <1>6, <1>t
  DEF Sound, SpkFlag, SpkStart, Play, Played, ReadHalf, Returns, audio
<1>7. CASE File
  BY <1>0, <1>7
  DEF File, Say, FileExists, NoFileToSay, Looked, Preload, Preloaded, LoadNext,
      Said, load_disk, Return, audio
<1> QED
  BY <1>1, <1>2, <1>3, <1>4, <1>5, <1>6, <1>7, Cases

LEMMA PlacesStep == IInv /\ [Next]_vars => Places'
<1> SUFFICES ASSUME IInv, [Next]_vars PROVE Places'
  OBVIOUS
<1> USE DiskConstantsOK
<1>0. Places /\ Returns /\ AudioAtWork /\ DiskAtWork
  BY DEF IInv
<1>t. /\ reader \in [state : {"idle", "read", "error", "done"}, addr : Words,
                     sector : Nat, count : 0 .. BANK - 1]
      /\ reg \in [addr : Words, sector : Nat, len : 0 .. BANK - 1]
      /\ au \in [state : {"idle", "play", "end"}, addr : Words]
      /\ au_reg \in [start : Words, stop : Words] /\ bank \in 1 .. 2
  BY DEF IInv, TypeOK, HardwareType, SpeakerType, SayType
<1> USE DEF Places, InPlay, Start
<1>1. CASE PlayWord \/ PlayEnds \/ audio_isr \/ UNCHANGED vars
  <2>1. CASE PlayWord
    <3>1. /\ au.state = "play" /\ UNCHANGED <<pc, ret, reg, reader, bank, au_reg>>
          /\ au'.state = "play" =>
               au.addr # au_reg.stop /\ au'.addr = au.addr + 1
      BY <1>t, <2>1 DEF PlayWord, diskVars, hardware, local
    <3>2. /\ au_reg.start \in Nat /\ au_reg.stop \in Nat /\ au.addr \in Nat
          /\ au.addr \in au_reg.start .. au_reg.stop
      BY <1>0, <1>t, <3>1 DEF Words
    <3>3. au'.state = "play" => au'.addr \in au_reg.start .. au_reg.stop
      BY <3>1, <3>2
    <3> QED
      BY <1>0, <3>1, <3>3
  <2>2. CASE PlayEnds
    BY <1>0, <1>t, <2>2 DEF PlayEnds, diskVars, hardware, local
  <2>3. CASE audio_isr \/ UNCHANGED vars
    BY <1>0, <2>3 DEF audio_isr, vars, diskVars, hardware, audio, local
  <2> QED
    BY <1>1, <2>1, <2>2, <2>3
<1>2. CASE Cards_
  <2>1. UNCHANGED <<pc, ret, au, au_reg, bank>>
    BY <1>2 DEF Cards_, audio, local
  <2>2. CASE Reader
    <3>1. UNCHANGED reg
      BY <2>2 DEF Reader, ReadWord, ReadFails, GiveUp, ReadEnds
    <3>2. reader'.state = "read" =>
            /\ reader.state = "read" /\ reader.count # reg.len
            /\ reader'.addr = reader.addr + 1
            /\ reader'.count = reader.count + 1
      BY <1>t, <2>2 DEF Reader, ReadWord, ReadFails, GiveUp, ReadEnds
    <3>3. /\ reg.addr \in Nat /\ reg.len \in Nat /\ reader.count \in Nat
          /\ reader.addr \in Nat
      BY <1>t DEF Words
    <3>4. reader'.state = "read" =>
            /\ reader'.addr = reg.addr + reader'.count
            /\ reader'.count <= reg.len
      BY <1>0, <3>2, <3>3
    <3> QED
      BY <1>0, <2>1, <3>1, <3>4
  <2>3. CASE Starter
    BY <1>0, <2>1, <2>3 DEF Starter, StarterEnds
  <2> QED
    BY <1>2, <2>2, <2>3 DEF Cards_
<1>3. CASE spi_isr /\ UNCHANGED <<card, local, spk_flag, audio, broken>>
  BY <1>0, <1>3 DEF spi_isr, audio, local
<1>4. CASE DiskProgram /\ UNCHANGED <<card, local, spk_flag, audio, broken>>
  BY <1>0, <1>4, <1>t
  DEF DiskProgram, LoadFlag, LoadStart, CardWait, CardStart, CardReady,
      CardError, Returns, audio, local, hardware
<1>5. CASE Boot
  BY <1>0, <1>5, <1>t
  DEF Boot, Speaker_init, BootDisk, Booted, StartOver, ReadHalf, InitDisk,
      audio, local, hardware, Booting, AudioAtWork
<1>6. CASE Sound
  BY <1>0, <1>6, <1>t
  DEF Sound, SpkFlag, SpkStart, Play, Played, ReadHalf, Returns, audio, local,
      hardware, AudioAtWork, Booting
<1>7. CASE File
  BY <1>0, <1>7, <1>t
  DEF File, Say, FileExists, NoFileToSay, Looked, Preload, Preloaded, LoadNext,
      Said, load_disk, Return, audio, local, hardware, AudioAtWork, Booting,
      DiskAtWork, Waiting
<1> QED
  BY <1>1, <1>2, <1>3, <1>4, <1>5, <1>6, <1>7, Cases

-----------------------------------------------------------------------------
LEMMA HardwareStep == IInv /\ [Next]_vars => HardwareType'
<1> SUFFICES ASSUME IInv, [Next]_vars PROVE HardwareType'
  OBVIOUS
<1> USE DiskConstantsOK
<1>0. Places /\ HardwareType
  BY DEF IInv, TypeOK
<1>n. n \in Nat /\ file \in [addr : Nat, len : Nat] /\ bank \in 1 .. 2
  BY DEF IInv, TypeOK, DriverType, SayType
<1> USE DEF HardwareType
<1>1. CASE PlayWord \/ PlayEnds \/ audio_isr \/ UNCHANGED vars
  BY <1>0, <1>1
  DEF PlayWord, PlayEnds, audio_isr, vars, diskVars, hardware
<1>2. CASE Cards_
  <2>1. CASE ReadWord
    <3>1. reader.addr \in Words /\ <<reader.sector, reader.count>> \in Nat \X Nat
      BY <1>0
    <3>2. table' \in [Words -> Nat \X Nat]
      BY <1>0, <2>1, <3>1 DEF ReadWord
    <3>3. reader.count # reg.len =>
            reader.addr + 1 \in Words /\ reader.count + 1 \in 0 .. BANK - 1
      <4>1. /\ reg.addr \in {0, BANK} /\ reg.len \in 0 .. BANK - 1
            /\ reader.count \in 0 .. BANK - 1 /\ reader.count <= reg.len
            /\ reader.addr = reg.addr + reader.count
        BY <1>0, <2>1 DEF ReadWord, Places
      <4> QED
        BY <4>1 DEF Words
    <3>4. reader' \in [state : {"idle", "read", "error", "done"}, addr : Words,
                       sector : Nat, count : 0 .. BANK - 1]
      BY <1>0, <2>1, <3>3 DEF ReadWord
    <3> QED
      BY <1>0, <2>1, <3>2, <3>4 DEF ReadWord
  <2>2. CASE ReadFails \/ GiveUp \/ ReadEnds
    BY <1>0, <2>2 DEF ReadFails, GiveUp, ReadEnds
  <2>3. CASE Starter
    BY <1>0, <2>3 DEF Starter, StarterEnds
  <2> QED
    BY <1>2, <2>1, <2>2, <2>3 DEF Cards_, Reader
<1>3. CASE spi_isr
  BY <1>0, <1>3 DEF spi_isr
<1>4. CASE DiskProgram
  <2>1. CASE LoadStart
    <3>1. reader' \in [state : {"idle", "read", "error", "done"},
                       addr : Words, sector : Nat, count : 0 .. BANK - 1]
      BY <1>0, <2>1 DEF LoadStart
    <3> QED
      BY <1>0, <2>1, <3>1 DEF LoadStart
  <2>2. CASE CardStart
    <3>1. starter' \in [1 .. CARDS -> [state : {"idle", "busy"},
                                       result : {"none", "success", "error"}]]
      BY <1>0, <2>2 DEF CardStart
    <3> QED
      BY <1>0, <2>2, <3>1 DEF CardStart
  <2>3. CASE LoadFlag \/ CardWait \/ CardReady \/ CardError
    BY <1>0, <2>3 DEF LoadFlag, CardWait, CardReady, CardError, hardware
  <2> QED
    BY <1>4, <2>1, <2>2, <2>3 DEF DiskProgram
<1>5. CASE Boot \/ Sound
  BY <1>0, <1>5
  DEF Boot, Speaker_init, BootDisk, Booted, StartOver, ReadHalf, InitDisk,
      Sound, SpkFlag, SpkStart, Play, Played, hardware
<1>6. CASE File
  <2>1. ASSUME NEW a \in Nat, NEW l \in 0 .. BANK - 1, NEW s \in {0, BANK},
               NEW r, load_disk(a, l, s, r)
        PROVE  HardwareType'
    <3>1. s \in Words
      BY DEF Words
    <3>2. reg' \in [addr : Words, sector : Nat, len : 0 .. BANK - 1]
      BY <2>1, <3>1 DEF load_disk
    <3> QED
      BY <1>0, <2>1, <3>2 DEF load_disk
  <2>2. 0 \in 0 .. BANK - 1 /\ BANK - 1 \in 0 .. BANK - 1
        /\ Start(1) \in {0, BANK} /\ Start(2) \in {0, BANK}
    BY DEF Start
  <2>3. CASE Say \/ Preload \/ LoadNext
    BY <1>n, <2>1, <2>2, <2>3 DEF Say, Preload, LoadNext, Start
  <2>4. CASE FileExists \/ NoFileToSay \/ Preloaded \/ Said
    BY <1>0, <2>4 DEF FileExists, NoFileToSay, Looked, Preloaded, Said, hardware
  <2> QED
    BY <1>6, <2>3, <2>4 DEF File
<1> QED
  BY <1>1, <1>2, <1>3, <1>4, <1>5, <1>6, Cases

LEMMA DriverStep == IInv /\ [Next]_vars => DriverType'
<1> SUFFICES ASSUME IInv, [Next]_vars PROVE DriverType'
  OBVIOUS
<1> USE DiskConstantsOK
<1>0. DriverType /\ Returns /\ file \in [addr : Nat, len : Nat]
  BY DEF IInv, TypeOK, SayType
<1>1. failed' \in BOOLEAN
  <2>1. failed \in BOOLEAN
    BY <1>0 DEF DriverType
  <2> QED
    BY <2>1, Cases, Zenon
    DEF PlayWord, PlayEnds, Cards_, Reader, ReadWord, ReadFails, GiveUp,
        ReadEnds, Starter, StarterEnds, audio_isr, spi_isr, DiskProgram,
        LoadFlag, LoadStart, CardWait, CardStart, CardReady, CardError, Boot,
        Speaker_init, BootDisk, Booted, StartOver, ReadHalf, InitDisk, Sound,
        SpkFlag, SpkStart, Play, Played, File, Say, FileExists, NoFileToSay,
        Looked, Preload, Preloaded, LoadNext, Said, load_disk, vars, diskVars,
        hardware
<1> USE DEF DriverType
<1>2. CASE PlayWord \/ PlayEnds \/ Cards_ \/ audio_isr \/ UNCHANGED vars
  BY <1>0, <1>1, <1>2
  DEF PlayWord, PlayEnds, Cards_, audio_isr, vars, diskVars, driver
<1>3. CASE spi_isr
  BY <1>0, <1>1, <1>3 DEF spi_isr
<1>4. CASE DiskProgram
  <2>1. pc = "card_result" => tries + 1 \in 0 .. TRIES
    BY <1>0 DEF Returns
  <2> QED
    BY <1>0, <1>1, <1>4, <2>1
    DEF DiskProgram, LoadFlag, LoadStart, CardWait, CardStart, CardReady,
        CardError, driver
<1>5. CASE Boot \/ Sound
  BY <1>0, <1>1, <1>5
  DEF Boot, Speaker_init, BootDisk, Booted, StartOver, ReadHalf, InitDisk,
      Sound, SpkFlag, SpkStart, Play, Played, driver
<1>6. CASE File
  BY <1>0, <1>1, <1>6
  DEF File, Say, FileExists, NoFileToSay, Looked, Preload, Preloaded, LoadNext,
      Said, load_disk, Return, driver, check_disk
<1> QED
  BY <1>2, <1>3, <1>4, <1>5, <1>6, Cases
LEMMA SpeakerStep == IInv /\ [Next]_vars => SpeakerType'
<1> SUFFICES ASSUME IInv, [Next]_vars PROVE SpeakerType'
  OBVIOUS
<1> USE DiskConstantsOK
<1>0. Places /\ SpeakerType /\ table \in [Words -> Nat \X Nat]
      /\ bank \in 1 .. 2
  BY DEF IInv, TypeOK, HardwareType, SayType
<1> USE DEF SpeakerType
<1>1. CASE PlayWord
  <2>1. table[au.addr] \in Nat \X Nat
    BY <1>0
  <2>2. heard' \in Seq(Nat \X Nat)
    BY <1>0, <1>1, <2>1 DEF PlayWord
  <2>3. au.addr # au_reg.stop => au.addr + 1 \in Words
    <3>1. /\ au_reg.start \in {0, BANK} /\ au.addr \in Words
          /\ au_reg.stop = au_reg.start + BANK - 1
          /\ au.addr \in au_reg.start .. au_reg.stop
      BY <1>0, <1>1 DEF PlayWord, Places
    <3> QED
      BY <3>1 DEF Words
  <2>4. au' \in [state : {"idle", "play", "end"}, addr : Words]
    BY <1>0, <1>1, <2>3 DEF PlayWord
  <2> QED
    BY <1>0, <1>1, <2>2, <2>4 DEF PlayWord
<1>2. CASE PlayEnds \/ audio_isr
  BY <1>0, <1>2 DEF PlayEnds, audio_isr
<1>3. CASE Cards_ \/ UNCHANGED vars
  BY <1>0, <1>3 DEF Cards_, audio, vars
<1>4. CASE spi_isr /\ UNCHANGED <<card, local, spk_flag, audio, broken>>
  BY <1>0, <1>4 DEF audio
<1>5. CASE DiskProgram /\ UNCHANGED <<card, local, spk_flag, audio, broken>>
  BY <1>0, <1>5 DEF audio
<1>6. CASE Boot \/ Sound
  <2>1. ASSUME NEW b \in 1 .. 2, NEW r, ReadHalf(b, r)
        PROVE  SpeakerType'
    <3>1. Start(b) \in Words /\ Start(b) + BANK - 1 \in Words
      BY DEF Start, Words
    <3>2. au_reg' \in [start : Words, stop : Words]
      BY <2>1, <3>1 DEF ReadHalf
    <3> QED
      BY <1>0, <2>1, <3>2 DEF ReadHalf
  <2>2. CASE Speaker_init \/ Play
    BY <1>0, <2>1, <2>2 DEF Speaker_init, Play
  <2>3. CASE StartOver
    <3>1. heard' \in Seq(Nat \X Nat)
      BY <2>3 DEF StartOver
    <3> QED
      BY <1>0, <2>3, <3>1 DEF StartOver
  <2>4. CASE BootDisk \/ Booted \/ SpkFlag \/ SpkStart \/ Played
    BY <1>0, <2>4 DEF BootDisk, Booted, SpkFlag, SpkStart, Played, audio
  <2> QED
    BY <1>6, <2>2, <2>3, <2>4 DEF Boot, Sound
<1>7. CASE File
  <2>1. CASE Say
    <3>1. heard' \in Seq(Nat \X Nat)
      BY <2>1 DEF Say
    <3> QED
      BY <1>0, <2>1, <3>1 DEF Say
  <2>2. CASE FileExists \/ NoFileToSay \/ Preload \/ Preloaded \/ LoadNext
             \/ Said
    BY <1>0, <2>2 DEF FileExists, NoFileToSay, Looked, Preload, Preloaded,
                      LoadNext, Said, audio
  <2> QED
    BY <1>7, <2>1, <2>2 DEF File
<1> QED
  BY <1>1, <1>2, <1>3, <1>4, <1>5, <1>6, <1>7, Cases

LEMMA SayStep == IInv /\ [Next]_vars => SayType'
<1> SUFFICES ASSUME IInv, [Next]_vars PROVE SayType'
  OBVIOUS
<1>0. SayType
  BY DEF IInv, TypeOK
<1>1. broken' \in BOOLEAN
  <2>1. broken \in BOOLEAN /\ failed \in BOOLEAN
    BY DEF IInv, TypeOK, SayType, DriverType
  <2> QED
    BY <2>1, Cases, Zenon
    DEF PlayWord, PlayEnds, Cards_, audio_isr, Boot, Speaker_init, BootDisk,
        Booted, StartOver, ReadHalf, Sound, SpkFlag, SpkStart, Play, Played,
        File, Say, FileExists, NoFileToSay, Looked, Preload, Preloaded,
        LoadNext, Said, vars
<1>2. card' \in Cards
  BY <1>0, Cases
  DEF SayType, PlayWord, PlayEnds, Cards_, audio_isr, Boot, Speaker_init,
      BootDisk, Booted, StartOver, ReadHalf, Sound, SpkFlag, SpkStart, Play,
      Played, File, Say, FileExists, NoFileToSay, Looked, Preload, Preloaded,
      LoadNext, Said, vars
<1>3. file' \in [addr : Nat, len : Nat]
  <2>1. CASE FileExists
    BY <1>0, <2>1, CardsOK DEF FileExists, SayType, FirstStop, Stops
  <2>2. CASE StartOver \/ Say
    BY <2>2 DEF StartOver, Say, NoFile
  <2>3. CASE ~FileExists /\ ~StartOver /\ ~Say
    BY <1>0, <2>3, Cases
    DEF SayType, PlayWord, PlayEnds, Cards_, audio_isr, Boot, Speaker_init,
        BootDisk, Booted, ReadHalf, Sound, SpkFlag, SpkStart, Play, Played,
        File, NoFileToSay, Preload, Preloaded, LoadNext, Said, vars, local
  <2> QED
    BY <2>1, <2>2, <2>3
<1>4. /\ bank' \in 1 .. 2
      /\ lamp' \in {"flash", "dark", "ready", "pulse"}
      /\ status' \in {"NONE", "OK", "NO_FILE", "DISK_ERROR"}
  <2>1. CASE PlayWord \/ PlayEnds \/ Cards_ \/ audio_isr \/ UNCHANGED vars
             \/ UNCHANGED <<card, local, spk_flag, audio, broken>>
    BY <1>0, <2>1
    DEF SayType, PlayWord, PlayEnds, Cards_, audio_isr, vars, local
  <2>2. CASE Boot \/ Sound
    BY <1>0, <2>2
    DEF SayType, Boot, Speaker_init, BootDisk, Booted, StartOver, ReadHalf,
        Sound, SpkFlag, SpkStart, Play, Played, local
  <2>3. CASE File
    BY <1>0, <2>3
    DEF SayType, File, Say, FileExists, NoFileToSay, Looked, Preload,
        Preloaded, LoadNext, Said, Return, local
  <2> QED
    BY <2>1, <2>2, <2>3, Cases
<1> QED
  BY <1>1, <1>2, <1>3, <1>4 DEF SayType

LEMMA ControlStep == IInv /\ [Next]_vars => ControlType'
<1> SUFFICES ASSUME IInv, [Next]_vars PROVE ControlType'
  OBVIOUS
<1>0. ControlType /\ Returns
  BY DEF IInv, TypeOK
<1> USE DEF ControlType
<1>1. CASE PlayWord \/ PlayEnds \/ Cards_ \/ audio_isr \/ UNCHANGED vars
  BY <1>0, <1>1 DEF PlayWord, PlayEnds, Cards_, audio_isr, vars, diskVars
<1>2. CASE spi_isr
  BY <1>0, <1>2 DEF spi_isr
<1>3. CASE DiskProgram
  BY <1>0, <1>3
  DEF DiskProgram, LoadFlag, LoadStart, CardWait, CardStart, CardReady,
      CardError, Returns
<1>4. CASE Boot
  BY <1>0, <1>4
  DEF Boot, Speaker_init, BootDisk, Booted, StartOver, ReadHalf, InitDisk
<1>5. CASE Sound
  BY <1>0, <1>5
  DEF Sound, SpkFlag, SpkStart, Play, Played, ReadHalf, Returns
<1>6. CASE File
  BY <1>0, <1>6
  DEF File, Say, FileExists, NoFileToSay, Looked, Preload, Preloaded,
      LoadNext, Said, load_disk, Return
<1> QED
  BY <1>1, <1>2, <1>3, <1>4, <1>5, <1>6, Cases

-----------------------------------------------------------------------------
(* IInv is an inductive invariant: where the program is tells which of the *)
(* two machines may be at work, and in which bank.                         *)
THEOREM Invariance == Spec => []IInv
<1>1. IInv /\ [Next]_vars => IInv'
  BY ReturnsStep, DiskAtWorkStep, AudioAtWorkStep, PlacesStep, HardwareStep,
     DriverStep, SpeakerStep, SayStep, ControlStep DEF IInv, TypeOK
<1> QED
  BY InitIInv, <1>1, PTL DEF Spec

(* Neither machine ever leaves the sample table (SPI_reader_memory.v,      *)
(* PWM_loader.v: each ends where two numbers are equal).                   *)
THEOREM TypeCorrect == Spec => []TypeOK
<1>1. IInv => TypeOK
  BY DEF IInv
<1> QED
  BY <1>1, Invariance, PTL

(* The bank that is played is never the bank the card writes into.         *)
THEOREM BanksNeverClash == Spec => []BanksApart
<1>1. IInv => BanksApart
  <2> SUFFICES ASSUME IInv, au.state = "play", reader.state = "read"
               PROVE  Half(reader.addr) # Half(au.addr)
    BY DEF BanksApart
  <2>1. DiskAtWork /\ AudioAtWork /\ Places
    BY DEF IInv
  <2>2. InPlay /\ pc = "playing"
    BY <2>1 DEF DiskAtWork, AudioAtWork, InPlay, Waiting, Booting
  <2>3. /\ reg.addr = Start(3 - bank) /\ au_reg.start = Start(bank)
        /\ reader.addr = reg.addr + reader.count /\ reader.count <= reg.len
        /\ au.addr \in au_reg.start .. au_reg.start + BANK - 1
    BY <2>1, <2>2 DEF Places
  <2>4. /\ reg.len \in 0 .. BANK - 1 /\ reader.count \in 0 .. BANK - 1
        /\ bank \in 1 .. 2
    BY DEF IInv, TypeOK, HardwareType, SayType
  <2>5. CASE bank = 1
    BY <2>3, <2>4, <2>5, DiskConstantsOK DEF Start, Half
  <2>6. CASE bank = 2
    BY <2>3, <2>4, <2>6, DiskConstantsOK DEF Start, Half
  <2> QED
    BY <2>4, <2>5, <2>6
<1> QED
  BY <1>1, Invariance, PTL

(* say() and the boot leave both machines at rest, the load nobody waits   *)
(* for included.                                                           *)
THEOREM LeavesAtRest == Spec => []LeftAtRest
<1>1. IInv => LeftAtRest
  <2> SUFFICES ASSUME IInv, pc = "idle" PROVE LeftAtRest
    BY DEF LeftAtRest
  <2>1. DiskAtWork /\ AudioAtWork /\ spi_irq \in {0, 1} /\ pwm_irq \in {0, 1}
    BY DEF IInv, TypeOK, HardwareType, SpeakerType
  <2> QED
    BY <2>1 DEF DiskAtWork, AudioAtWork, InPlay, Waiting, Booting, LeftAtRest
<1> QED
  BY <1>1, Invariance, PTL

-----------------------------------------------------------------------------
(* Story: what a load has brought, how much was heard, and what. *)
LEMMA InitStory == Init => Story
<1> SUFFICES ASSUME Init PROVE Story
  OBVIOUS
<1>1. /\ reader.state = "idle" /\ pc = "boot" /\ status = "NONE"
      /\ file = NoFile
  BY DEF Init, DiskInit
<1>2. Brought
  BY <1>1 DEF Brought, InPlay, Waiting
<1>3. Counted
  BY <1>1 DEF Counted, Starting, Looking, Fetching, Following, Telling, Calls,
              InPlay, SaidWhole
<1>4. InOrder
  BY <1>1 DEF InOrder, Telling, Following, Calls, InPlay
<1> QED
  BY <1>2, <1>3, <1>4 DEF Story

LEMMA BroughtStep ==
  ASSUME IInv, Brought, [Next]_vars  PROVE Brought'
<1> USE DiskConstantsOK
<1>t. /\ reader \in [state : {"idle", "read", "error", "done"}, addr : Words,
                     sector : Nat, count : 0 .. BANK - 1]
      /\ reg \in [addr : Words, sector : Nat, len : 0 .. BANK - 1]
      /\ table \in [Words -> Nat \X Nat]
      /\ DiskAtWork /\ Places /\ Returns
  BY DEF IInv, TypeOK, HardwareType
<1>1. ASSUME UNCHANGED <<reg, table, reader>>, ~broken' => ~broken,
             InPlay' \/ Waiting' => InPlay \/ Waiting
      PROVE  Brought'
  BY <1>1 DEF Brought, Filled
<1>2. ASSUME reader.state = "idle", reader' = reader, ~InPlay', ~Waiting'
      PROVE  Brought'
  BY <1>2 DEF Brought
<1>3. CASE PlayWord \/ PlayEnds \/ audio_isr \/ UNCHANGED vars
           \/ (spi_isr /\ UNCHANGED <<card, local, spk_flag, audio, broken>>)
  BY <1>1, <1>3
  DEF PlayWord, PlayEnds, audio_isr, vars, diskVars, hardware, spi_isr,
      InPlay, Waiting
<1>4. CASE Cards_
  <2>0. UNCHANGED <<pc, ret>> /\ (~broken' => ~broken /\ ~failed')
    BY <1>4 DEF Cards_
  <2>1. CASE Starter
    BY <1>1, <2>0, <2>1 DEF Starter, StarterEnds, InPlay, Waiting
  <2>2. CASE ReadWord
    <3>1. /\ reader.state = "read" /\ UNCHANGED reg
          /\ table' = [table EXCEPT ![reader.addr]
                         = <<reader.sector, reader.count>>]
          /\ reader' = IF reader.count = reg.len
                       THEN [reader EXCEPT !.state = "done"]
                       ELSE [reader EXCEPT !.addr = @ + 1, !.count = @ + 1]
      BY <2>2 DEF ReadWord
    <3>2. /\ reader.addr = reg.addr + reader.count /\ reader.addr \in Words
          /\ reader.sector = reg.sector /\ Filled(reader.count)
          /\ reg.addr \in Nat /\ reader.count \in Nat /\ reg.len \in Nat
      BY <1>t, <3>1 DEF Places, Brought, Words
    <3>3. \A w \in 0 .. (reader.count + 1) - 1 :
            table'[reg.addr + w] = <<reg.sector, w>>
      <4> SUFFICES ASSUME NEW w \in 0 .. (reader.count + 1) - 1
                   PROVE  table'[reg.addr + w] = <<reg.sector, w>>
        OBVIOUS
      <4>1. CASE w = reader.count
        BY <1>t, <3>1, <3>2, <4>1
      <4>2. CASE w # reader.count
        <5>1. w \in 0 .. reader.count - 1 /\ reg.addr + w # reader.addr
          BY <3>2, <4>2
        <5>2. reg.addr + w \in Words
          BY <3>2, <5>1 DEF Words
        <5>3. table[reg.addr + w] = <<reg.sector, w>>
          BY <3>2, <5>1 DEF Filled
        <5> QED
          BY <1>t, <3>1, <5>1, <5>2, <5>3
      <4> QED
        BY <4>1, <4>2
    <3> QED
      BY <1>t, <3>1, <3>2, <3>3 DEF Brought, Filled
  <2>3. CASE ReadFails
    BY <1>t, <2>0, <2>3 DEF ReadFails, Brought
  <2>4. CASE GiveUp
    BY <1>t, <2>0, <2>4 DEF GiveUp, Brought
  <2>5. CASE ReadEnds
    BY <1>t, <2>0, <2>5 DEF ReadEnds, Brought, Filled
  <2> QED
    BY <1>4, <2>1, <2>2, <2>3, <2>4, <2>5 DEF Cards_, Reader
<1>5. CASE DiskProgram /\ UNCHANGED <<card, local, spk_flag, audio, broken>>
  <2>1. CASE LoadStart
    <3>1. reader.state = "idle"
      BY <1>t, <2>1 DEF LoadStart, DiskAtWork, InPlay, Waiting
    <3>2. reader' = [state |-> "read", addr |-> reg.addr,
                     sector |-> reg.sector, count |-> 0]
          /\ UNCHANGED <<reg, table>>
      BY <2>1, <3>1 DEF LoadStart
    <3> QED
      BY <3>2 DEF Brought, Filled
  <2>2. CASE LoadFlag \/ CardWait \/ CardStart \/ CardReady \/ CardError
    BY <1>1, <1>5, <1>t, <2>2
    DEF LoadFlag, CardWait, CardStart, CardReady, CardError, Returns, hardware,
        InPlay, Waiting
  <2> QED
    BY <1>5, <2>1, <2>2 DEF DiskProgram
<1>6. CASE Boot \/ Sound
  BY <1>1, <1>6, <1>t
  DEF Boot, Speaker_init, BootDisk, Booted, StartOver, ReadHalf, InitDisk,
      Sound, SpkFlag, SpkStart, Play, Played, Returns, hardware, InPlay,
      Waiting
<1>7. CASE Say \/ Preload \/ LoadNext
  <2>1. reader.state = "idle"
    BY <1>7, <1>t DEF Say, Preload, LoadNext, DiskAtWork, InPlay, Waiting
  <2>2. reader' = reader /\ pc' = "load_flag"
    BY <1>7 DEF Say, Preload, LoadNext, load_disk
  <2> QED
    BY <1>2, <2>1, <2>2 DEF InPlay, Waiting
<1>8. CASE FileExists \/ NoFileToSay \/ Preloaded \/ Said
  BY <1>1, <1>8
  DEF FileExists, NoFileToSay, Looked, Preloaded, Said, Return, hardware,
      InPlay, Waiting
<1> QED
  BY <1>3, <1>4, <1>5, <1>6, <1>7, <1>8, Cases DEF File

(* Arithmetic of the parts. *)
LEMMA Times ==
  ASSUME NEW b \in Nat, NEW p \in Nat
  PROVE  b * (p + 1) = b * p + b /\ b * p \in Nat /\ b * (p + 1) \in Nat
OBVIOUS

LEMMA DivMod ==
  ASSUME NEW a \in Nat, NEW b \in Nat, b > 0
  PROVE  /\ a \div b \in Nat /\ a % b \in 0 .. b - 1
         /\ a = b * (a \div b) + (a % b)
<1>1. a \div b \in Int /\ a \div b >= 0
  OBVIOUS
<1>2. a % b < b /\ a % b >= 0 /\ a % b \in Int
  OBVIOUS
<1>3. a = b * (a \div b) + (a % b)
  BY Z3
<1> QED
  BY <1>1, <1>2, <1>3

LEMMA PartOf ==
  ASSUME NEW p \in Nat
  PROVE  (2 * p + 2) \div 2 - 1 = p
OBVIOUS

LEMMA Shift ==
  ASSUME NEW a \in Int, NEW b \in Int, NEW c \in Int, NEW d \in Int,
         NEW e \in Int, a + c = b + d, b = e + c
  PROVE  a = e + d
OBVIOUS

LEMMA CountedStep ==
  ASSUME IInv, Counted, [Next]_vars  PROVE Counted'
<1> USE DiskConstantsOK
<1>t. /\ au \in [state : {"idle", "play", "end"}, addr : Words]
      /\ au_reg \in [start : Words, stop : Words]
      /\ heard \in Seq(Nat \X Nat) /\ Len(heard) \in Nat
      /\ spk_flag \in {"UP", "DOWN"} /\ bank \in 1 .. 2
      /\ n \in Nat /\ file.addr \in Nat /\ file.len \in Nat
      /\ DiskAtWork /\ AudioAtWork /\ Places /\ Returns
  BY DEF IInv, TypeOK, SpeakerType, SayType, DriverType
<1> USE DEF Looking, Fetching, Following, Telling, Calls, InPlay, Waiting,
            Starting, Booting
<1>1. CASE Cards_ \/ audio_isr \/ UNCHANGED vars
           \/ (spi_isr /\ UNCHANGED <<card, local, spk_flag, audio, broken>>)
  <2>1. UNCHANGED <<pc, ret, file, heard, bank, reg, n, au, au_reg, status,
                    lamp>>
    BY <1>1
    DEF Cards_, Reader, ReadWord, ReadFails, GiveUp, ReadEnds, Starter,
        StarterEnds, audio_isr, vars, diskVars, hardware, spi_isr, audio, local
  <2> QED
    BY <2>1 DEF Counted, Part, Within, SaidWhole, Parts
<1>2. CASE PlayWord \/ PlayEnds
  <2>1. /\ UNCHANGED <<pc, ret, file, bank, reg, n, au_reg, status, lamp>>
        /\ au.state # "idle"
    BY <1>2, <1>t DEF PlayWord, PlayEnds, diskVars, hardware, local
  <2>2. CASE pc # "playing"
    <3>1. Booting
      BY <1>t, <2>1, <2>2 DEF AudioAtWork
    <3> QED
      BY <2>1, <2>2, <3>1 DEF Counted, SaidWhole
  <2>3. CASE pc = "playing"
    <3>1. Len(heard') + Within = Len(heard) + Within'
      <4>1. CASE PlayWord
        <5>1. /\ au.state = "play" /\ heard' = Append(heard, table[au.addr])
              /\ au' = IF au.addr = au_reg.stop
                       THEN [au EXCEPT !.state = "end"]
                       ELSE [au EXCEPT !.addr = @ + 1]
          BY <4>1 DEF PlayWord
        <5>2. Len(heard') = Len(heard) + 1
          BY <1>t, <5>1
        <5>3. au_reg.stop = au_reg.start + BANK - 1 /\ au_reg.start \in Nat
              /\ au.addr \in Nat
          BY <1>t, <5>1 DEF Places, Words
        <5>4. Within' = Within + 1
          BY <1>t, <2>1, <2>3, <5>1, <5>3 DEF Within
        <5>5. Within \in Int
          BY <2>3, <5>3 DEF Within
        <5> QED
          BY <1>t, <5>2, <5>4, <5>5
      <4>2. CASE PlayEnds
        BY <1>t, <2>1, <2>3, <4>2 DEF PlayEnds, Within
      <4> QED
        BY <1>2, <4>1, <4>2
    <3>2. Part' = Part /\ Part \in Nat /\ Len(heard) = BANK * Part + Within
      BY <2>1, <2>3 DEF Counted, Part
    <3>3. Len(heard') = BANK * Part + Within'
      <4>1. /\ BANK * Part \in Int /\ Within \in Int /\ Within' \in Int
            /\ Len(heard) \in Int /\ Len(heard') \in Int
        <5>1. Within \in Int /\ Within' \in Int
          <6>1. au_reg.start \in Int /\ au.addr \in Int
            BY <1>t DEF Words
          <6>2. au'.addr \in Int
            BY <1>2, <1>t, <6>1 DEF PlayWord, PlayEnds
          <6> QED
            BY <2>1, <6>1, <6>2 DEF Within
        <5>2. \/ heard' = heard
              \/ heard' = Append(heard, table[au.addr])
          BY <1>2 DEF PlayWord, PlayEnds
        <5>3. Len(heard') \in Int
          BY <1>t, <5>2
        <5> QED
          BY <1>t, <3>2, <5>1, <5>3
      <4> QED
        <5>1. Len(heard) = BANK * Part + Within
          BY <3>2
        <5> QED
          BY ONLY <3>1, <4>1, <5>1, Shift
    <3> QED
      BY <2>1, <2>3, <3>2, <3>3 DEF Counted, SaidWhole
  <2> QED
    BY <2>2, <2>3
<1>3. CASE DiskProgram /\ UNCHANGED <<card, local, spk_flag, audio, broken>>
  <2>1. /\ UNCHANGED <<file, heard, bank, reg, au, au_reg, status, lamp>>
        /\ pc # "playing" /\ pc' # "playing" /\ pc' # "idle"
    BY <1>3, <1>t
    DEF DiskProgram, LoadFlag, LoadStart, CardWait, CardStart, CardReady,
        CardError, hardware, audio, local, Returns
  <2>2. CASE LoadFlag \/ LoadStart
    <3>1. UNCHANGED <<n, ret>> /\ pc \in {"load_flag", "load_start"}
          /\ pc' \in {"load_start", ret}
      BY <2>2 DEF LoadFlag, LoadStart
    <3>2. Part' = Part /\ Within' = Within
      BY <2>1, <3>1 DEF Part, Within
    <3> QED
      BY <1>t, <2>1, <3>1, <3>2 DEF Counted, SaidWhole, Returns
  <2>3. CASE CardWait \/ CardStart \/ CardReady \/ CardError
    <3>1. Booting /\ Booting' /\ pc' \in {"card_wait", "card_start",
                                          "card_result", "booted"}
      BY <1>t, <2>3 DEF CardWait, CardStart, CardReady, CardError, Returns
    <3> QED
      BY <2>1, <3>1 DEF Counted, SaidWhole
  <2> QED
    BY <1>3, <2>2, <2>3 DEF DiskProgram
<1>4. CASE Boot
  <2>1. CASE StartOver
    BY <2>1 DEF StartOver, Counted, SaidWhole
  <2>2. CASE Speaker_init \/ BootDisk \/ Booted
    <3>1. /\ Starting /\ UNCHANGED <<file, status>>
          /\ \/ pc' \in {"card_wait", "idle", "panic"}
             \/ pc' = "spk_flag" /\ ret' = "disk"
      BY <2>2
      DEF Speaker_init, BootDisk, Booted, ReadHalf, InitDisk, local
    <3> QED
      BY <3>1 DEF Counted, SaidWhole
  <2> QED
    BY <1>4, <2>1, <2>2 DEF Boot
<1>5. CASE Sound
  <2>1. /\ UNCHANGED <<file, heard, reg>> /\ (SaidWhole => SaidWhole')
        /\ pc \in {"spk_flag", "spk_start", "play", "playing"}
    BY <1>5, <1>t
    DEF Sound, SpkFlag, SpkStart, Play, Played, ReadHalf, hardware, audio,
        local, SaidWhole, Returns
  <2>2. CASE SpkFlag \/ SpkStart \/ Play
    <3>1. /\ UNCHANGED <<n, bank, status>> /\ pc # "playing"
          /\ pc' \in {"spk_flag", "spk_start", "playing", "disk"}
          /\ \/ InPlay /\ InPlay'
             \/ Starting /\ Starting' /\ pc' # "playing" /\ ~InPlay'
      BY <1>t, <2>2
      DEF SpkFlag, SpkStart, Play, ReadHalf, local, Returns, driver
    <3>2. pc' = "playing" => au'.state = "play" /\ au'.addr = au_reg'.start
      BY <1>t, <2>2
      DEF SpkFlag, SpkStart, Play, ReadHalf, AudioAtWork
    <3>3. Within' = Within /\ Part' = Part
      <4>1. au_reg'.start \in Nat
        BY <1>t, <2>2 DEF SpkFlag, SpkStart, Play, ReadHalf, audio, Start, Words
      <4> QED
        BY <2>1, <3>1, <3>2, <4>1 DEF Within, Part
    <3> QED
      BY <2>1, <3>1, <3>3 DEF Counted
  <2>3. CASE Played
    <3>1. /\ pc = "playing" /\ au.state = "idle" /\ n' = n + 2
          /\ pc' = "loop"
      BY <1>t, <2>3 DEF Played, AudioAtWork
    <3>2. /\ Part \in Nat /\ n = file.addr + 2 * Part + 2
          /\ Len(heard) = BANK * Part + BANK /\ n < file.addr + file.len
      BY <3>1 DEF Counted, Within
    <3>3. Part' = Part + 1
      <4>1. n' - file'.addr = 2 * (Part + 1) + 2
        BY <1>t, <2>1, <3>1, <3>2
      <4>2. Part + 1 \in Nat
        BY <3>2
      <4> QED
        BY <4>1, <4>2, PartOf DEF Part
    <3>4. /\ Within' = 0 /\ BANK * (Part + 1) = BANK * Part + BANK
          /\ BANK * (Part + 1) \in Nat
      <4>1. Within' = 0
        BY <3>1 DEF Within
      <4>2. BANK \in Nat /\ Part \in Nat
        BY <3>2
      <4> QED
        BY ONLY <4>1, <4>2, Times
    <3>5. /\ Part' \in Nat /\ n' = file.addr + 2 * Part' + 2
          /\ 2 * Part' < file.len
      BY <1>t, <3>1, <3>2, <3>3
    <3>6. Len(heard) = BANK * Part' + Within'
      <4>1. Len(heard) = BANK * (Part + 1) + 0
        BY ONLY <3>2, <3>4
      <4> QED
        BY ONLY <3>3, <3>4, <4>1, Zenon
    <3> QED
      BY <2>1, <3>1, <3>5, <3>6 DEF Counted
  <2> QED
    BY <1>5, <2>1, <2>2, <2>3 DEF Sound
<1>6. CASE Say
  BY <1>6, <1>t DEF Say, load_disk, Counted, SaidWhole
<1>7. CASE FileExists \/ NoFileToSay
  BY <1>7
  DEF FileExists, NoFileToSay, Looked, Return, Counted, SaidWhole, audio
<1>8. CASE Preload
  BY <1>8 DEF Preload, load_disk, Counted, SaidWhole, audio, local
<1>9. CASE Preloaded
  <2>1. /\ heard' = << >> /\ bank' = 1 /\ file' = file
    BY <1>9 DEF Preloaded, Counted, audio
  <2>2. CASE check_disk = "FAIL"
    BY <1>9, <2>2 DEF Preloaded, Return, Counted, SaidWhole
  <2>3. CASE check_disk # "FAIL"
    <3>1. n' = file.addr + 2 /\ pc' = "loop"
      BY <1>9, <2>3 DEF Preloaded
    <3>2. Part' = 0 /\ Within' = 0 /\ BANK * 0 = 0
      BY <1>t, <2>1, <3>1 DEF Part, Within
    <3> QED
      BY <1>t, <2>1, <3>1, <3>2 DEF Counted, SaidWhole
  <2> QED
    BY <2>2, <2>3
<1>10. CASE LoadNext
  <2>1. /\ UNCHANGED <<n, file, heard, bank>> /\ pc = "loop"
        /\ pc' = "load_flag" /\ ret' = "play" /\ n < file.addr + file.len
        /\ reg' = [addr |-> Start(3 - bank), sector |-> n, len |-> BANK - 1]
    BY <1>10 DEF LoadNext, load_disk, audio, local
  <2>2. Part' = Part /\ Within' = Within
    BY <2>1 DEF Part, Within
  <2> QED
    BY <2>1, <2>2 DEF Counted, SaidWhole
<1>11. CASE Said
  <2>1. /\ pc = "loop" /\ pc' = "idle" /\ lamp' = "ready"
        /\ n >= file.addr + file.len /\ UNCHANGED <<file, heard>>
    BY <1>11 DEF Said, Return, audio
  <2>2. /\ Part \in Nat /\ n = file.addr + 2 * Part + 2
        /\ Len(heard) = BANK * Part + 0 /\ (Part = 0 \/ 2 * Part < file.len)
    BY <2>1 DEF Counted, Within
  <2>3. Part = Parts
    <3> DEFINE p == Part
    <3>1. /\ p \in Nat /\ file.len <= 2 * p + 2
          /\ (p = 0 \/ 2 * p < file.len)
      BY <1>t, <2>1, <2>2
    <3> HIDE DEF p
    <3>2. p = Parts
      BY <1>t, <3>1 DEF Parts
    <3> QED
      BY <3>2 DEF p
  <2>4. Len(heard) = BANK * Parts
    <3>1. BANK * Part \in Nat
      BY <2>2
    <3> QED
      BY <2>2, <2>3, <3>1
  <2> QED
    BY <2>1, <2>4 DEF Counted, SaidWhole, Parts
<1> QED
  BY <1>1, <1>2, <1>3, <1>4, <1>5, <1>6, <1>7, <1>8, <1>9, <1>10, <1>11, Cases
  DEF File

(* The words of a bank stay while the card writes into the other one. *)
LEMMA LoadedStep ==
  ASSUME IInv, Brought, Counted, [Next]_vars,
         ~broken /\ Telling => Loaded(bank, n - 2), ~broken', Telling'
  PROVE  (Loaded(bank, n - 2))'
<1> USE DiskConstantsOK
<1>t. /\ reader \in [state : {"idle", "read", "error", "done"}, addr : Words,
                     sector : Nat, count : 0 .. BANK - 1]
      /\ reg \in [addr : Words, sector : Nat, len : 0 .. BANK - 1]
      /\ table \in [Words -> Nat \X Nat] /\ disk_flag \in {"UP", "DOWN"}
      /\ spk_flag \in {"UP", "DOWN"} /\ bank \in 1 .. 2
      /\ n \in Nat /\ file.addr \in Nat
      /\ DiskAtWork /\ AudioAtWork /\ Places /\ Returns
  BY DEF IInv, TypeOK, HardwareType, SpeakerType, SayType, DriverType
<1>1. ASSUME UNCHANGED <<table, bank, n>>, ~broken, Telling
      PROVE  (Loaded(bank, n - 2))'
  BY <1>1 DEF Loaded, Start
<1> USE DEF Following, Telling, Calls, InPlay
<1>2. CASE PlayWord \/ PlayEnds \/ audio_isr \/ UNCHANGED vars
           \/ (spi_isr /\ UNCHANGED <<card, local, spk_flag, audio, broken>>)
  BY <1>1, <1>2
  DEF PlayWord, PlayEnds, audio_isr, vars, diskVars, hardware, spi_isr, local
<1>3. CASE Cards_
  <2>0. UNCHANGED <<pc, ret, bank, n>> /\ ~broken /\ Telling
    BY <1>3 DEF Cards_, local
  <2>1. CASE Starter \/ ReadFails \/ GiveUp \/ ReadEnds
    BY <1>1, <2>0, <2>1 DEF Starter, StarterEnds, ReadFails, GiveUp, ReadEnds
  <2>2. CASE ReadWord
    <3>1. /\ reader.state = "read"
          /\ table' = [table EXCEPT ![reader.addr]
                         = <<reader.sector, reader.count>>]
      BY <2>2 DEF ReadWord
    <3>2. /\ reader.addr = Start(3 - bank) + reader.count
          /\ reader.count \in 0 .. BANK - 1
      BY <1>t, <2>0, <3>1 DEF DiskAtWork, Waiting, Places
    <3>3. ASSUME NEW w \in 0 .. BANK - 1
          PROVE  table'[Start(bank) + w] = <<n - 2, w>>
      <4>1. table[Start(bank) + w] = <<n - 2, w>>
        BY <2>0 DEF Loaded
      <4>2. Start(bank) + w # reader.addr
        <5>1. CASE bank = 1
          BY <3>2, <5>1 DEF Start
        <5>2. CASE bank = 2
          BY <3>2, <5>2 DEF Start
        <5> QED
          BY <1>t, <5>1, <5>2
      <4>3. Start(bank) + w \in Words
        BY <1>t DEF Start, Words
      <4> QED
        BY <1>t, <3>1, <4>1, <4>2, <4>3
    <3> QED
      BY <2>0, <3>3 DEF Loaded, Start
  <2> QED
    BY <1>3, <2>1, <2>2 DEF Cards_, Reader
<1>4. CASE DiskProgram /\ UNCHANGED <<card, local, spk_flag, audio, broken>>
  <2>1. CASE LoadFlag \/ LoadStart
    BY <1>1, <1>4, <1>t, <2>1
    DEF LoadFlag, LoadStart, Returns, hardware, local
  <2>2. CASE CardWait \/ CardStart \/ CardReady \/ CardError
    BY <1>t, <2>2 DEF CardWait, CardStart, CardReady, CardError, Returns
  <2> QED
    BY <1>4, <2>1, <2>2 DEF DiskProgram
<1>5. CASE Boot
  BY <1>5
  DEF Boot, Speaker_init, BootDisk, Booted, StartOver, ReadHalf, InitDisk
<1>6. CASE SpkFlag \/ SpkStart \/ Play
  BY <1>1, <1>6, <1>t
  DEF SpkFlag, SpkStart, Play, ReadHalf, Returns, hardware, local
<1>7. CASE Played
  <2>1. /\ pc = "playing" /\ bank' = 3 - bank /\ n' = n + 2
        /\ table' = table /\ ~broken /\ reader.state = "idle"
    BY <1>7, <1>t DEF Played, hardware, AudioAtWork, DiskKeepsUp
  <2>2. Filled(reg.len + 1) /\ reg.len = BANK - 1 /\ reg.sector = n
    BY <2>1 DEF Brought, Counted
  <2>3. reg.addr = Start(bank')
    BY <1>t, <2>1 DEF Places
  <2>4. n' - 2 = n /\ reg.len + 1 - 1 = BANK - 1
    BY <1>t, <2>1, <2>2
  <2> QED
    BY <2>1, <2>2, <2>3, <2>4 DEF Loaded, Filled, Start
<1>8. CASE Say \/ FileExists \/ NoFileToSay \/ Preload \/ Said
  BY <1>8
  DEF Say, FileExists, NoFileToSay, Preload, Said, load_disk, Return
<1>9. CASE Preloaded
  <2>1. /\ pc = "preloading" /\ disk_flag = "UP" /\ n' = file.addr + 2
        /\ UNCHANGED <<table, bank, broken>>
    BY <1>9, <1>t DEF Preloaded, Return, check_disk, hardware
  <2>2. reader.state = "idle" /\ ~broken
    BY <1>t, <2>1 DEF DiskAtWork, Waiting
  <2>3. /\ Filled(reg.len + 1) /\ bank = 1
        /\ reg = [addr |-> 0, sector |-> file.addr, len |-> BANK - 1]
    BY <2>1, <2>2 DEF Brought, Counted, Fetching, Waiting
  <2>4. n' - 2 = file.addr /\ reg.len + 1 - 1 = BANK - 1
    BY <1>t, <2>1, <2>3
  <2> QED
    BY <2>1, <2>3, <2>4 DEF Loaded, Filled, Start
<1>10. CASE LoadNext
  BY <1>1, <1>10 DEF LoadNext, load_disk, local
<1> QED
  BY <1>2, <1>3, <1>4, <1>5, <1>6, <1>7, <1>8, <1>9, <1>10, Cases
  DEF Sound, File

(* A word has one place in one part. *)
LEMMA OnePlace ==
  ASSUME NEW b \in Nat \ {0}, NEW p \in Nat, NEW q \in Nat,
         NEW v \in 0 .. b - 1, NEW w \in 0 .. b - 1, b * p + v = b * q + w
  PROVE  p = q /\ v = w
<1>1. ASSUME NEW x \in Nat, NEW y \in Nat, x >= y + 1  PROVE b * x >= b * y + b
  BY <1>1
<1>2. b * p \in Nat /\ b * q \in Nat
  OBVIOUS
<1>3. CASE p >= q + 1
  BY <1>1, <1>2, <1>3
<1>4. CASE q >= p + 1
  BY <1>1, <1>2, <1>4
<1>5. CASE p = q
  BY <1>2, <1>5
<1> QED
  BY <1>3, <1>4, <1>5

LEMMA ToldStep ==
  ASSUME IInv, Brought, Counted, InOrder, [Next]_vars, ~broken', file' # NoFile
  PROVE  Told'
<1> USE DiskConstantsOK
<1>t. /\ au \in [state : {"idle", "play", "end"}, addr : Words]
      /\ au_reg \in [start : Words, stop : Words]
      /\ heard \in Seq(Nat \X Nat) /\ Len(heard) \in Nat
      /\ table \in [Words -> Nat \X Nat] /\ bank \in 1 .. 2
      /\ n \in Nat /\ file.addr \in Nat
      /\ AudioAtWork /\ Places
  BY DEF IInv, TypeOK, HardwareType, SpeakerType, SayType, DriverType
<1>1. ASSUME UNCHANGED <<heard, file>>, ~broken  PROVE Told'
  BY <1>1 DEF InOrder, Told
<1>2. ASSUME heard' = << >>  PROVE Told'
  <2>1. \A p \in Nat, w \in 0 .. BANK - 1 : ~(BANK * p + w < Len(heard'))
    <3> SUFFICES ASSUME NEW p \in Nat, NEW w \in 0 .. BANK - 1
                 PROVE  ~(BANK * p + w < Len(heard'))
      OBVIOUS
    <3>1. BANK * p \in Nat
      OBVIOUS
    <3> QED
      BY <1>2, <3>1
  <2> QED
    BY <2>1 DEF Told
<1>3. CASE PlayWord
  <2>1. /\ UNCHANGED <<file, broken>> /\ au.state = "play"
        /\ heard' = Append(heard, table[au.addr])
    BY <1>3 DEF PlayWord, local
  <2>2. pc = "playing"
    BY <1>t, <2>1 DEF AudioAtWork, Counted, Starting
  <2>3. /\ Loaded(bank, n - 2) /\ Told
        /\ Part \in Nat /\ n = file.addr + 2 * Part + 2
        /\ Len(heard) = BANK * Part + Within
    BY <2>1, <2>2 DEF InOrder, Counted, Telling, Following, InPlay
  <2>4. /\ Within = au.addr - Start(bank) /\ Within \in 0 .. BANK - 1
        /\ Start(bank) \in Nat /\ au.addr \in Nat
    BY <1>t, <2>1, <2>2 DEF Within, Places, InPlay, Start
  <2>5. table[au.addr] = <<file.addr + 2 * Part, Within>>
    <3> DEFINE s == Start(bank)
               w == Within
               q == Part
    <3>1. table[s + w] = <<n - 2, w>>
      BY <2>3, <2>4 DEF Loaded
    <3>2. w = au.addr - s /\ s \in Nat /\ au.addr \in Nat
      BY <2>4
    <3>3. n = file.addr + 2 * q + 2 /\ q \in Nat /\ file.addr \in Nat
      BY <1>t, <2>3
    <3> HIDE DEF s, w, q
    <3>4. s + w = au.addr
      BY ONLY <3>2
    <3>5. n - 2 = file.addr + 2 * q
      BY ONLY <3>3
    <3> QED
      BY <3>1, <3>4, <3>5 DEF w, q
  <2>6. ASSUME NEW p \in Nat, NEW w \in 0 .. BANK - 1,
               BANK * p + w < Len(heard')
        PROVE  heard'[BANK * p + w + 1] = <<file.addr + 2 * p, w>>
    <3>1. /\ BANK * p \in Nat /\ Len(heard') = Len(heard) + 1
          /\ heard'[Len(heard) + 1] = table[au.addr]
          /\ \A i \in 1 .. Len(heard) : heard'[i] = heard[i]
      <4>1. table[au.addr] \in Nat \X Nat
        BY <1>t
      <4>2. BANK * p \in Nat
        OBVIOUS
      <4>3. /\ Len(heard') = Len(heard) + 1
            /\ heard'[Len(heard) + 1] = table[au.addr]
            /\ \A i \in 1 .. Len(heard) : heard'[i] = heard[i]
        BY ONLY <1>t, <2>1, <4>1, AppendProperties
      <4> QED
        BY <4>2, <4>3
    <3>2. CASE BANK * p + w < Len(heard)
      <4>1. BANK * p + w + 1 \in 1 .. Len(heard)
        <5>1. BANK * p \in Nat /\ w \in Nat /\ Len(heard) \in Nat
          BY <1>t, <3>1
        <5> QED
          BY ONLY <3>2, <5>1
      <4> QED
        BY <2>3, <3>1, <3>2, <4>1 DEF Told
    <3>3. CASE BANK * p + w = Len(heard)
      <4>1. BANK * p + w = BANK * Part + Within
        BY <2>3, <3>3
      <4>2. p = Part /\ w = Within
        <5>1. BANK \in Nat \ {0} /\ Part \in Nat /\ Within \in 0 .. BANK - 1
          BY <2>3, <2>4
        <5> HIDE DEF Part, Within
        <5> QED
          BY ONLY <4>1, <5>1, OnePlace, p \in Nat, w \in 0 .. BANK - 1
      <4> QED
        BY <2>5, <3>1, <3>3, <4>2
    <3> QED
      BY <1>t, <2>6, <3>1, <3>2, <3>3
  <2> QED
    BY <2>1, <2>6 DEF Told
<1>4. CASE PlayEnds \/ Cards_ \/ audio_isr \/ UNCHANGED vars
           \/ UNCHANGED <<card, local, spk_flag, audio, broken>>
  <2>1. ~broken
    BY <1>4, Zenon DEF PlayEnds, Cards_, audio_isr, vars
  <2>2. UNCHANGED <<heard, file>>
    BY <1>4 DEF PlayEnds, Cards_, audio_isr, vars, audio, local
  <2> QED
    BY <1>1, <2>1, <2>2
<1>5. CASE Boot \/ Sound
  BY <1>1, <1>2, <1>5
  DEF Boot, Speaker_init, BootDisk, Booted, StartOver, ReadHalf, Sound, SpkFlag,
      SpkStart, Play, Played, audio, local
<1>6. CASE Say \/ FileExists
  BY <1>2, <1>6 DEF Say, FileExists, Looked, Counted, Looking, audio
<1>7. CASE NoFileToSay \/ Preload \/ Preloaded \/ LoadNext \/ Said
  BY <1>1, <1>7
  DEF NoFileToSay, Looked, Preload, Preloaded, LoadNext, Said, audio, local
<1> QED
  BY <1>3, <1>4, <1>5, <1>6, <1>7, Cases DEF File

(* Story is an invariant as well. *)
LEMMA StoryHolds == Spec => []Story
<1>1. IInv /\ Story /\ [Next]_vars => Story'
  <2> SUFFICES ASSUME IInv, Story, [Next]_vars PROVE Story'
    OBVIOUS
  <2>1. Brought' /\ Counted'
    BY BroughtStep, CountedStep DEF Story
  <2>2. InOrder'
    BY LoadedStep, ToldStep DEF Story, InOrder
  <2> QED
    BY <2>1, <2>2 DEF Story
<1> QED
  BY InitStory, Invariance, <1>1, PTL DEF Spec

(* say() ends with all parts played but the last one that it loads         *)
(* (sound.c:34: the loop ends before the last bank is played).             *)
THEOREM SaysWhole == Spec => []SaidWhole
<1>1. Story => SaidWhole
  BY DEF Story, Counted
<1> QED
  BY <1>1, StoryHolds, PTL

(* The two banks, loaded and played in turn, are heard as one recording:   *)
(* every word once, and in its order.                                      *)
THEOREM HearsInOrder == Spec => []HeardInOrder
<1>1. IInv /\ Story => HeardInOrder
  <2> SUFFICES ASSUME IInv, Story, ~broken, file # NoFile,
                      NEW k \in DOMAIN heard
               PROVE  heard[k] = <<file.addr + 2 * ((k - 1) \div BANK),
                                   (k - 1) % BANK>>
    BY DEF HeardInOrder
  <2>1. Told /\ heard \in Seq(Nat \X Nat) /\ BANK \in Nat /\ BANK > 0
    BY DiskConstantsOK DEF Story, InOrder, IInv, TypeOK, SpeakerType
  <2> DEFINE p == (k - 1) \div BANK
             w == (k - 1) % BANK
  <2>2. k - 1 \in Nat /\ k - 1 < Len(heard) /\ (k - 1) + 1 = k
    BY <2>1
  <2>3. p \in Nat /\ w \in 0 .. BANK - 1 /\ k - 1 = BANK * p + w
    BY <2>1, <2>2, DivMod
  <2> HIDE DEF p, w
  <2>4. heard[BANK * p + w + 1] = <<file.addr + 2 * p, w>>
    BY <2>1, <2>2, <2>3 DEF Told
  <2> QED
    BY <2>2, <2>3, <2>4 DEF p, w
<1> QED
  BY <1>1, Invariance, StoryHolds, PTL

-----------------------------------------------------------------------------
(* What AnswerEnds rests on: no flag is waited for whose interrupt has     *)
(* come already or never comes.  What the program waits for is at work, or *)
(* its interrupt is pending.                                               *)
AnswerComes ==
  /\ Waiting /\ disk_flag = "DOWN" => reader.state # "idle" \/ spi_irq = 1
  /\ pc = "card_result" /\ disk_flag = "DOWN" =>
       starter[n].state = "busy" \/ spi_irq = 1
  /\ pc = "playing" /\ spk_flag = "DOWN" => au.state # "idle" \/ pwm_irq = 1

LEMMA AnswerComesStep == IInv /\ AnswerComes /\ [Next]_vars => AnswerComes'
<1> SUFFICES ASSUME IInv, AnswerComes, [Next]_vars PROVE AnswerComes'
  OBVIOUS
<1> USE DiskConstantsOK
<1>0. DiskAtWork /\ Returns /\ AudioAtWork
  BY DEF IInv
<1>t. /\ reader \in [state : {"idle", "read", "error", "done"}, addr : Words,
                     sector : Nat, count : 0 .. BANK - 1]
      /\ starter \in [1 .. CARDS -> [state : {"idle", "busy"},
                                     result : {"none", "success", "error"}]]
      /\ au \in [state : {"idle", "play", "end"}, addr : Words]
  BY DEF IInv, TypeOK, HardwareType, SpeakerType
<1> USE DEF AnswerComes, Waiting
<1>1. CASE UNCHANGED vars
  BY <1>1 DEF vars, diskVars, hardware, driver, local, audio
<1>2. CASE PlayWord
  <2>1. au'.state # "idle"
    BY <1>t, <1>2 DEF PlayWord
  <2> QED
    BY <1>2, <2>1 DEF PlayWord, diskVars, hardware, driver
<1>3. CASE PlayEnds
  BY <1>3 DEF PlayEnds, diskVars, hardware, driver
<1>4. CASE Cards_
  <2>1. CASE Reader
    <3>1. reader'.state # "idle" \/ spi_irq' = 1
      BY <1>t, <2>1 DEF Reader, ReadWord, ReadFails, GiveUp, ReadEnds
    <3>2. starter' = starter /\ (spi_irq' = spi_irq \/ spi_irq' = 1)
      BY <2>1 DEF Reader, ReadWord, ReadFails, GiveUp, ReadEnds
    <3> QED
      BY <1>4, <3>1, <3>2 DEF Cards_, driver, local, audio
  <2>2. CASE Starter
    BY <1>4, <2>2 DEF Starter, StarterEnds, Cards_, driver, local, audio
  <2> QED
    BY <1>4, <2>1, <2>2 DEF Cards_
<1>5. CASE audio_isr
  BY <1>5 DEF audio_isr, diskVars, hardware, driver
<1>6. CASE spi_isr /\ UNCHANGED <<card, local, spk_flag, audio, broken>>
  BY <1>6 DEF spi_isr, audio
<1>7. CASE DiskProgram /\ UNCHANGED <<card, local, spk_flag, audio, broken>>
  <2>1. CASE LoadStart
    <3>1. reader'.state # "idle"
      BY <2>1 DEF LoadStart
    <3>2. pc' \notin {"card_result", "playing"}
      BY <1>0, <2>1 DEF LoadStart, Returns
    <3> QED
      BY <3>1, <3>2
  <2>2. CASE CardStart
    <3>1. n \in 1 .. CARDS
      BY <1>0, <2>2 DEF CardStart, Returns
    <3>2. starter'[n'].state = "busy"
      BY <1>t, <2>2, <3>1 DEF CardStart
    <3> QED
      BY <2>2, <3>2 DEF CardStart
  <2>3. CASE LoadFlag \/ CardWait
    BY <2>3 DEF LoadFlag, CardWait
  <2>4. CASE CardReady \/ CardError
    BY <1>0, <2>4 DEF CardReady, CardError, Returns
  <2> QED
    BY <1>7, <2>1, <2>2, <2>3, <2>4 DEF DiskProgram
<1>8. CASE Boot
  BY <1>8 DEF Boot, Speaker_init, BootDisk, Booted, StartOver, ReadHalf,
              InitDisk
<1>9. CASE Sound
  <2>1. CASE SpkStart
    <3>1. au'.state # "idle"
      BY <2>1 DEF SpkStart
    <3>2. pc' \in {"disk", "playing"}
      BY <1>0, <2>1 DEF SpkStart, Returns
    <3> QED
      BY <3>1, <3>2
  <2>2. CASE SpkFlag \/ Play \/ Played
    BY <2>2 DEF SpkFlag, Play, Played, ReadHalf
  <2> QED
    BY <1>9, <2>1, <2>2 DEF Sound
<1>10. CASE File
  BY <1>10 DEF File, Say, FileExists, NoFileToSay, Looked, Preload,
               Preloaded, LoadNext, Said, load_disk, Return
<1> QED
  BY <1>1, <1>2, <1>3, <1>4, <1>5, <1>6, <1>7, <1>8, <1>9, <1>10, Cases

(* Every wait of say() and of the start of the cards has its end on the    *)
(* way, with any errors of the cards and after any starting over.          *)
THEOREM AnswersAreComing == Spec => []AnswerComes
<1>1. Init => AnswerComes
  BY DEF Init, AnswerComes, Waiting
<1> QED
  BY Invariance, AnswerComesStep, <1>1, PTL DEF Spec
=============================================================================
