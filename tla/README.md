# SpeechAI: a TLA+ model of the node's firmware

SpeechAI is a voice-controlled node: a Nios II processor on an FPGA with its own
peripherals (microphone receiver, normaliser, spectrogram, comparer, SD cards,
PWM audio, BLE UART, timer), and a bare-metal C program. The node listens for
its name, then for a command, repeats the command by voice, lets the user
correct or cancel it, and sends it over BLE.

The program is one endless main loop and five interrupt handlers that share
plain structures with it. There is no operating system. What is hard to test
lies there: handlers that run between any two memory accesses, buffers shared
with hardware, flags reset in many places, loops that wait for an interrupt
which may already have come. That is what is modelled; the numeric processing
(filters, FFT, network) is not.

## 1. Inventory

Paths are relative to `src/software/AI_Speech1/src/` unless they begin with `HDL/`.

| Component | State | Operations | Talks to | What makes it correct |
|---|---|---|---|---|
| Microphone driver (`microphone/microphone.c`, `queue.c`, `HDL/Microphone`) | hardware FIFO, interrupt line, ring of 16 samples with two pointers and a size, error counter | `mic_isr`, `MIC_getSample`, `MIC_start`, `MIC_stop`, `MIC_init` | handler and main program share `Queue_t`; the recorder polls | samples in order, none twice, lost only to a full queue; a full hardware FIFO recovers |
| Recorder (`microphone/recorder.c`) | ring of 23900 samples in the shared table, `n`, `mmargin`, `initial`, scheduler of ten turns | `Recorder_record` | microphone, timer, buttons, distance sensor, BLE console, DMA | only samples of this recording, the trigger is kept, every timed recording ends |
| Dialogue (`main.c`, `detect.c`) | `state`, `flag`, `retry`, `buffer`, `same_detected_word`, volume | one pass of `app()` per result of `get_word` | recorder, speaker, BLE | only a word the user has been told and has not cancelled is sent; every dialogue ends |
| BLE (`output/BLE/*.c`, `HDL/BLE`) | line buffer, message buffer, positions, two FIFOs, error flag | `ble_isr`, `BLE_send_data`, `BLE_print_str`, `init_BLE`, `BLE_console` | handler and main program share `BLE_UART_t` | messages whole and unmixed, lines whole, transmissions end |
| Buttons (`output/gpio_status_animations.c`, `gpio_distance.c`) | two press counters, one event field | `do_button`, `do_vbutton` in the timer interrupt; `gpio_button_buffered_status` | recorder, exception loops | spikes do nothing, exactly long presses reset |
| Distance sensor (`output/gpio_distance_measure.c`, `HDL/distance.v`) | echo counter, tries, sticky error | `irq_distance_measurement`, `in_proper_distance` | timer interrupt, recorder | a measurement ends; debouncing |
| Playback (`speaker/*.c`, `HDL/PWM_Audio`) | two banks of the table, flag | `say`, `Speaker_init`, `audio_isr` | disk, dialogue | a bank is not played while it is loaded; what is heard is the file, in order; both machines are at rest afterwards |
| Disk (`disk/disk.c`, `ai_fs.c`, `HDL/SpeedSPI`) | flag, card status, the reader's registers | `load_disk`, `wait_for_disk`, `check_disk`, `init_disk`, `spi_isr`, `File_exists` | playback, database | the interrupt of a load is not lost and not taken for another's; errors of the cards end after the retries |
| Comparer (`ai/*.c`, `HDL/AI`) | flag, sticky errors, a core per card, list of bases, scores | `AI_compare`, `ai_group_selfcheck`, `ai_group_analyse`, `ai_isr` | disk, `get_word` | what ends a comparison is its own end; the word is the nearest base's, under its name |
| Boot and panics (`hello_world_small.c`, `selfchecks.c`, `output/exception.c`) | none of their own | `main` loop, self-checks, `panic`, waits for a central | everything | each failure reaches its panic; the node can always be reset |
| Processing (`processing/*`, `HDL/Signal`, `HDL/Normalizer`) | the shared table | `selectLoud`, `Scale_scaleX`, starts of hardware | `get_word` | a fragment is one whole utterance; every line of the profile is filled |
| Utilities, timer (`utils/*`, `HDL/timer.v`) | clock counters | `timer_isr`, `compare`, check sums | everyone | counters carry |

Not part of the node: `src/model` (training, Python), `src/thesis` (the
document the findings quote), the generated board support packages, and an older
copy of the firmware under `HDL/software`.

Interactions, and the module in which each is seen:

    HDL/Microphone -> mic_isr -> Queue_t -> MIC_getSample      MicQueue  (=> MicChannel)
    MicChannel -> Recorder_record <- buttons, distance, BLE    Recorder
    timer_isr -> do_button / do_vbutton -> gpio->button        Button
    get_word -> app() -> say(), BLE_send_data                  Dialogue
    app(), console -> BLE_UART_t <-> ble_isr <-> HDL/BLE       BleUart
    load_disk -> SpeedSPI -> spi_isr -> disk_flag              Disk
    say() -> Disk, PWM_Audio -> audio_isr -> spk_flag          Playback (on Disk)
    AI_compare -> cores -> AI_interrupt -> ai_isr -> ai_flag   Comparer (on Disk)
    main() -> self-checks -> get_word -> Disk, Comparer        Recognition

## 2. Modules

| Module | Models | Role |
|---|---|---|
| `MicChannel` | the promise of the sample queue: a bounded first-in first-out channel that loses nothing it has taken in | abstract specification |
| `MicQueue` | hardware FIFO, handler, ring, `MIC_*` functions | implements `MicChannel` (checked and proved) |
| `Recorder` | `Recorder_record`, on top of such a channel | |
| `Dialogue` | `app()` | |
| `BleUart` | BLE driver and UART | |
| `Button` | both buttons in the timer interrupt, `gpio_init` | |
| `Disk` | the cards: driver, reader, starters, directory | component |
| `Playback` | `say()`, speaker, PWM audio, and their start in `main()` | composes `Disk` |
| `Comparer` | `AI_compare`, the cores and the collector of their interrupts | extends `Disk`: the same program counter and cards |
| `Profile` | `selectLoud`, number of frames, `Scale_scaleX` | pure operators |
| `Recognition` | `main()`, self-checks, `get_word`'s processing, panics | composes `Disk`, `Comparer`, `Profile` |
| `MC*` | values of the constants for TLC | |
| `*_proofs` | theorems and proofs | one for each of `MicQueue`, `Recorder`, `Dialogue`, `BleUart`, `Button`, `Playback`, `Profile`, `Recognition` (which extends `Profile`'s) |

Definitions whose names begin with `M_` are mutated forms of the next
definition: a plausible mistake that a property must notice. They take no part
in the specifications.

### MicQueue
The handler is one action per loop iteration (`IsrTake`, `IsrRestart`,
`IsrBreak`), between which the hardware may move; the main program does not move
while the handler runs. The main program is one action per access to shared
memory: `size_fifo--` is `PickLoad` and `PickStore`, `queue_init` is one store
per field. `IrqDisable` and `IrqEnable` are the two ends of `MIC_getSample`'s
masked section; `MIC_init` runs `queue_init` *unmasked*, with the handler of an
earlier `MIC_init` still registered. When a sample arrives in the middle of it
the history variable `raced` is set: the fields may then disagree until the next
initialisation, and nothing is promised (`intact` of the channel is false).

### Recorder
A sample is only loud or not, and carries where it is from: an earlier
recording, this one, or this one with a loss just before it. The queue of
`Recorder` is everything under way: the ring of 16 and the hardware FIFO of 63,
so CAPACITY is 79 and `INITIAL_SAMPLES = 2048` is above it, which is all the
assumption asks. `Forget` is the out-of-range branch, which clears the table
only if the console's `in_range` was still true, but always the counters. The
wait for a central is a loop of its own (`AwaitConnection`, `Reconnected`,
`Settled`): it clears the table but neither `n` nor `mmargin`. `CopyToSwap` is
`DMA_copy_to_swap` with the addresses of the loader in `HDL/AI/DMA`: it rounds
the start down to a block of two and wraps after reading its stop address, which
lies behind the ring.

### Dialogue
An action is one pass of the loop for one result of `get_word`. Words are model
values; `Begins` is the prefix relation that `compare()` sees, and the instance
contains a word that begins with another. `Send` is separate from the pass that
decides to send, for `wait_for_connection` blocks in between. `said`, `answers`
and `sent` are history variables: what the user heard, how often she answered,
what went out.

### BleUart
The handler is one action per look at a register: error flag (`IsrCheck`),
transmit FIFO (`IsrWrite`), receive FIFO (`IsrLine`, `IsrByte`), acknowledge
(`IsrReturn`); bytes arrive and leave between these. `SendCopy` and `SendStart`
are the two masked halves of `BLE_send_data`. `message_in` is both the buffer
the handler writes and the line the console reads: `LineIntact` compares it with
the history variable `last`. The console's commands are one outcome, not
modelled one by one: each composes a reply from the clock, the last word or
`in_range` and sends it.

### Button
An action is one run of the timer handler; the volume button and the listen
button are sampled alternately, as cases 3 and 4 of `animate_gpio_status` are.
`gpio_init`, which `main()` calls whenever it starts over, is one action per
field, with the timer running. `run` and `run_v` count the pressed samples in a
row, `disturbed` is set when the volume button changes the shared event field
during a press.

### Disk and Playback
The program is one flow of control, `pc`; `load_disk` is a subroutine that
returns to `ret`. The registers (`load_disk`), the flag (`LoadFlag`) and START
(`LoadStart`) are three steps, because the interrupt may come in between. The
reader copies one word per step into the sample table and finds its end by
comparing for *equality* with the length register; `audio` does the same with an
address. What the table holds is `<<sector, word>>`, so `heard` can be compared
with the file. Both machines ignore a START while they work. `check_disk` reads
an error line that is up in one state of the reader only.

`Playback` adds `say()` with one action per statement that waits or starts
something: `Preload`/`Preloaded`, `LoadNext`, `Play` (`ReadHalf`, `SpkFlag`,
`SpkStart`), `Played`. A recording that was asked for is an element of `Names`,
looked up in a directory that may be foreign, newer, without end, with a wrong
check sum, or hold a name that fills its field; the quirks of `File_exists` are
kept (`compare` accepts a longer name; a full field answers `FILE_SYSTEM_OK`).
`DiskKeepsUp` is an assumption about time: a bank is loaded in a small part of
the time it is played. `StartOver` is a reset, which resets no hardware.

### Comparer, Profile and Recognition
A comparison starts a core for each card; each ends on its own, sets a bit, and
the interrupt comes when all bits are there. The bits are not cleared by a new
start, the errors are. `AI_compare` is one action per look: flag, then errors.
What `AI_RESULT` and the sums show is any element of `Outcomes`. The scores are
computed as `count_diffrence` does.

`Recognition` follows the program from the power-up: cards, directory, list of
the model (`readDatabase`), a comparison with every base, the choice of a word
and its name, the panics and what ends them. Self-check and analysis share that
path, as in the code (`task` says who is on it). A card is abstracted to what its
readers tell apart: is the directory good, where does the model's file begin, is
its header and check sum right, and a list of items, bases and names in any
order. The dialogue and the recorder are the single step `Recorded`.

`Profile` keeps of the samples only which are loud. `Scan` is `selectLoud`'s
loop as a recursive function over the positions, `Lines` the rows of the profile
that frame n of the spectrogram is copied to, with the code's fixed point.
`FragmentWhole` and `ProfileFilled` state what these are for, independently of
how they are computed. Three assumptions about time are named where they are
used: `FlagIsLowered`, `CoresAtRest`, and `DiskKeepsUp` above.

What is computed over a list (`Counted`, `Spects`, `Leading`, `Linkers`, `Scan`) is
a recursive *function*, so that the proofs can unfold it. `Bases`, `Decisions` and
`Names` are what the three loops over the card's list leave behind.

## 3. Runs

| Run | Properties | Instance |
|---|---|---|
| `mic_queue` | `TypeOK`, `FullNeverReported`, `RingConsistent`, `IsChannel` (refinement of `MicChannel`), `FullFifoRecovers` (liveness) | ring 2, hardware FIFO 3, 2 samples per interrupt, error after 2, two sample values; 484 391 states |
| `recorder` | `TypeOK`, `FreshOnly`, `TriggerKept`; `TimedRecordingEnds`, `ResetAnswered` (liveness) | ring 6, margin 4, 1 sample skipped, 1 under way, 4 turns; 457 984 states |
| `recorder_gap` | `NoGapInFragment`: **violated** | ring and margin as above, 2 skipped, 2 under way |
| `dialogue` | `TypeOK`, `FlagFollowsState`, `AnswersCounted`, `CommandIsConfirmed`, `SentWasConfirmed`, `NoStaleCommand`; `DialogueEnds` (liveness) | 4 words, MAX_RETRIES = 3 as in the code; 116 928 states |
| `ble` | `TypeOK`, `LineIntact`, `MessageWhole`; `TransmissionEnds`, `InitEnds` (liveness) | buffer 3, transmit FIFO 2, receive FIFO 1, 2 turns per interrupt; 977 320 states |
| `ble_line_lost` | `LineHandedOver`: **violated** | see its cfg |
| `ble_unsignalled` | `EveryByteSignalled`: **violated** | see its cfg |
| `button` | `TypeOK`, `ResetMeansLongPress`, `NoSpikes`, `LongPressResets` (action property) | limits 4 and 8 for 50 and 500; 7 414 states |
| `button_stuck` | `PressHasEffect`: **violated** | as `button` |
| `playback` | `TypeOK`, `BanksApart`, `HeardInOrder`, `SaidWhole`, `LeftAtRest`; `AnswerEnds` (liveness) | banks of 2 words, 2 cards, 2 tries, 8 directories, recordings of 0 to 7 sectors; 253 760 states |
| `playback_error` | `FailedLoadReported`: **violated** | as `playback` |
| `recognition` | `TypeOK`, `ComparedWhole`, `WordNamed`, `StatusShown`, `NoFalsePanic`, `FragmentWhole`, `ProfileFilled`; `AnalysisEnds` (liveness) | 2 cards, 2 tries, 2 bases, 3 categories, 12 contents of the card, 64 recordings of 48 samples; 321 971 states |

Why the bounds are enough. *Rings*: two places show every relation of the
pointers, six places for the recorder's ring let it wrap before and during a
fragment; the theorems then cover every size. *Turns*: the recorder's turns 4 to
9 do nothing, so one of them stands for all. *BLE*: one message of two bytes, a
banner chunk as long as the buffer, and a transmit FIFO shorter than it make
every branch of the handler run, including the full FIFO, the wrap of `read_pos`
and the last byte at the end of the buffer. *Button*: a press
of eight samples has room for a second edge, a volume change and a restart;
`FOREVER` stops the 32-bit counter `press_time`, which nothing else does (at one
count per millisecond it would wrap after 49 days of one press).
*Playback*: four parts use each bank twice, so that a stale bank, a stale flag and
a part played twice all show; two cards and two tries reach every end of
`init_disk`. *Recognition*: two bases of one or two categories make the place of
a name differ from its base's number; the lists include too many bases, too many
categories, too few names, a name without end, no base at all, and a file that
does not begin at a block of 16 sectors. *Profile*: the recording of 48 samples
with a margin of 8 has room for an utterance that is given up and another one
behind it, for one that is too long, and for one at each border; 64 sets of
loud positions are every choice of at most three of seven.

### Fairness, and why the code justifies it

- `MicQueue`: an enabled microphone keeps producing samples (it is clocked), the
  processor executes its next instruction (weak fairness of handler, of
  `MIC_getSample` and of `QueueInit`), and takes a pending interrupt in spite of
  the main program masking it again and again (strong fairness of `IsrEnter`:
  the unmasked stretch is where interrupts are taken). Nothing obliges the main
  program to call `MIC_start`.
- `Recorder`: samples keep coming while the microphone is enabled; the loop runs;
  time passes. No fairness for buttons, users or centrals: `TimedRecordingEnds`
  assumes that the central stays (`<>[]connected`), because the code waits for
  it without limit.
- `Dialogue`: `get_word` returns in the end something other than a volume press
  or noise (`Progress`), a central connects, and stays for the second that
  `wait_for_connection` waits (strong fairness of `Send`).
- `BleUart`: bytes leave the FIFO; the handler runs; the main program comes to
  its next step although the handler intervenes (strong fairness).
- `Playback`, `Recognition`: hardware ends what it began, a pending interrupt is
  taken (nothing in these phases masks it for good), the program executes its
  next statement unless it waits for a flag. All are weak fairness. Nobody is
  obliged to speak, to press a button or to call `say()`.
- `Button`: the timer keeps running, and a `gpio_init` that has begun ends.

### Findings

Five runs show that the program and the thesis (`src/thesis/tex/1-wstep.tex`)
disagree.

1. `recorder_gap` (thesis line 1583): on an overflow of the queue the program is
   said to empty it and to reset the ring buffer. `pick_from_queue` never returns
   FULL and the handler ignores a refused sample, so the branch is dead
   (`FullNeverReported`, proved for all sizes) and fragments have gaps.
2. `ble_line_lost` (line 1714): a complete line is said to be copied and handed
   to the main program. It is neither copied nor safe: the next byte, a
   transmission or an error takes it away.
3. `ble_unsignalled` (line 1712): each received byte is said to be signalled by
   an interrupt. The handler acknowledges after its last look at the FIFO.
4. `button_stuck` (line 1191): depending on its length a press is said to reset
   the node or to make it listen. A short second click stops the count and the
   press stays `BUTTON_PRESSED` without effect until a later long enough one.

5. `playback_error` (line 1703): after the interrupt that ends a load the error
   register is said to be valid. It shows an error in one clock cycle before the
   interrupt, so `check_disk` never says FAIL.

Also noticed, without a run (thesis lines refer to the same file):

- line 680: a comparison is said to end only when all cores announce it, and a
  start to reset the modules. `AI_interrupt` keeps its bits, so after an overflow,
  which `ai_group.c:94` ignores, later comparisons may end early. `ComparedWhole`
  excludes that case by the history variable `overflowed`.
- line 1705 has 6 differences, `ai.c:22` has 8; line 1736 gives the correction state a
  timeout of 5 s, `main.c:38` 3 s; line 267 begins at sample zero, `loud.c` at
  one; line 1631 always fills 64 lines, `scalex.c` leaves the last one empty
  unless the fixed point is exact (hence "but the last" in `ProfileFilled`).
- line 1587: the distance is measured on request, with a pulse of 1 ms and an
  error when the echo is too early; the code measures every 128 ticks, pulses for
  one tick, and reports an error when no echo was seen or 16 were misplaced. An
  echo longer than the window is continued as a new one; a line stuck high is
  never an error; `init_measurement` writes `ready` before `tries` with the timer
  running, so a window that ends in between is an error until the next restart.
- `gpio_init` writes `flash_pin` twice and `flashing` never.
- `ai_group.c:131` does not look for DISK_ERROR of `readDatabase` (which finding
  5 makes unreachable); between 17 and 32 names would use linkers that
  `make_linker_table` has not prepared; `main.c:300` is a branch that is never
  taken (`StatusShown`, proved).

## 4. Proofs

TLAPS checks all theorems for **every** value of the constants that satisfies
the named assumptions of the modules. Each component's argument is an inductive
invariant, checked with TLC first: `Init => IInv`,
`IInv /\ [Next]_vars => IInv'`, and each property follows from it. Every
invariant and every action property that a passing run checks is stated by a
theorem; the refinement of `MicChannel` as well. Only liveness is left to TLC.

| Module | Theorems | Beyond the properties, the inductive invariant needs |
|---|---|---|
| `MicQueue_proofs` | `TypeCorrect`, `FullIsDead`, `RingIsConsistent`, `Implements` (refinement) | `Masked`: the pick runs with the handler masked and idle; `TakingOne`: the register holds the size that is stored back; `InitProgress`: `queue_init` leaves zeros behind unless raced; `CounterOK` |
| `Recorder_proofs` | `TypeCorrect`, `OnlyFreshSamples`, `TriggerIsKept` | `StaleAhead`: a sample of an earlier recording at place i of the queue has `initial + i <= INITIAL`, so it will be skipped; `MarginOpen`: a recording ends as soon as `mmargin` reaches its limit; `TriggerPlaced`: the loud sample is `mmargin` places behind the next one |
| `Dialogue_proofs` | `TypeCorrect`, `ButtonMeansWhatItShould`, `DialogueIsBounded`, `OnlyConfirmedWords`, `CommandWasSaid`, `StartsEmpty` | `WaitingToSend`: what waits for a central is pending; the properties lean on each other |
| `BleUart_proofs` | `TypeCorrect`, `LineIsIntact`, `MessageIsWhole`, `SignalIsComing` | `Handling`: where the program may be while the handler runs; `LineHeld`: what of the buffer is the last line; `Entered`: the FIFO has taken as much of the message as `write_pos` says, but for a dropped first byte. `FilledOnce`, for `SignalIsComing`: what the handler leaves in the FIFO after its first look |
| `Button_proofs` | `TypeCorrect`, `OnlyLongPressResets`, `SpikesDoNothing`, `EveryLongPressResets` | `NotPassed`: a held button's count has not passed the samples it was held for; `OnTime`: an undisturbed press is counted from its edge and recognised at CHECK |
| `Playback_proofs` | `Invariance`, `TypeCorrect`, `BanksNeverClash`, `LeavesAtRest`, `SaysWhole`, `HearsInOrder`, `AnswersAreComing` | `Returns`, `DiskAtWork`, `AudioAtWork`: where in the program each machine may work; `Places`: and in which bank. On top of these `Story`: what a load has brought (`Brought`), how many parts were played and how much of the next (`Counted`), and that both are the file's words (`InOrder`) |
| `Profile_proofs` | `SelectsUtterance`, `FillsEveryLine` | no machine; by induction over the samples, `Scanned`: how the loop's variables describe the part of the recording it has passed |
| `Recognition_proofs` | `Invariance`, `ComparesWhole`, `ShowsTheStatus` | `CardsKnown`: the program's position tells the cards' status; `BasesKnown`: a missing card is among the results only on the way to its panic; `CoresKnown`: every core reads or has set its bit, and exactly one of reading, pending interrupt and raised flag is true while the program waits |
| | `WholeInvariance`, `Typed`, `NamesTheWord`, `PanicsWithReason`, `ProcessesUtterance`, `FillsTheProfile`, `AnswersAreComing` | `Inv`, that is `IInv` with the parts named below |

`FreshOnly` shows why the invariants are needed: alone it is not inductive, since
it says nothing of the samples still in the queue. The assumption it rests on is
`INITIAL >= CAPACITY`, which a change of either buffer could break in silence.

`Implements` is proved as its textbook form: the initial states map to the
channel's, and each step is one of the channel's or a stutter: `IsrTake` is `Put`
(`PutIsAppend`, through the arithmetic of the ring), `PickRead` is `Take`
(`TakeIsTail`), entering `MIC_init` is `Break`, registering the handler at its
end is `Ready`, all others stutter.

`HearsInOrder`: a word of the file has one place in one
part (`OnePlace`, `DivMod`: a multiple of the bank's size plus a rest), each bank
holds the part that will be played next (`LoadedStep`), and what has been heard
is a prefix of the file (`ToldStep`).

`NoFalsePanic` and `WordNamed` are the largest argument. A false panic would
come from a flag, an error or a word in the table left by an earlier operation,
so `Inv` follows a load through all its steps: the registers it was asked with
(`Requested`), that only this load may be at work (`DiskAtWork`), that the first
word of the table is this load's when the flag is up (`Brought`), that the model's
file is looked for where the directory has it (`Located`); and `Blameless` says,
step by step, what cannot be as long as nothing has failed. For the word,
`OfBases` and `Decided` keep the base and its decision within the list, and
`Worded` holds what was chosen while nothing changes the results.
The choice itself is about data: `SuitSteps` and `SuitChosen` show that
the loop of `selectBestSuit` keeps the first of the nearest bases (`BestSuit`),
`SpectsOfBases` and `NamesAreSequence` what the sums of categories and the list of
names are, and `LinkerNames` that the sum and the decision lead to the right
name.

Such lemmas need induction over data. The library's induction theorems take an
operator as a parameter, which no prover here can instantiate. `Profile_proofs`
therefore proves the same principles with a *set* as their parameter: `Induction`
(a set that holds 0 and each successor holds all numbers), `InductionTo`, and
`Recursion` (a recursive function over the numbers satisfies its equation). The
induction over the samples in `SelectsUtterance` and those over the list's items
rest on these.

The three theorems on answers to come (`SignalIsComing` and two
`AnswersAreComing`) are the safety half of the liveness properties: no
interrupt the program waits for is lost. Under weak fairness of hardware
and handlers each wait then ends; that last part, and that waits do not follow
each other for ever, is what TLC checks. They are also stronger than the runs in
one point: the comparer's holds after an ignored overflow, where `ComparedWhole`
says nothing.

Assumptions. Each theorem rests on the named ASSUMEs of its module, which TLC
evaluates in the runs, besides what the model assumes about time. Those that
say something about the code:

- `ConstantsOK`, `DiskConstantsOK`, `BleConstantsOK`, ...: sizes are positive; no
  message has a single byte; a bank is at least as long as the directory's load.
- `ProfileConstantsOK`: MAX ends before the recording does, the longest fragment
  has fewer frames than the profile has lines (18000 / 512 = 35 < 64), the
  fixed point is not below the number of lines (2^15), the shortest fragment has
  four samples, since the table is copied in words of four.
- `CardsOK`, `ComparerConstantsOK`: what is read from cards and comparer are natural
  numbers, as bytes and registers are. The lists may be anything.
- `NamesInOrder`: the names on a card stand in the order of the categories of all
  bases, as `src/model/buildimage.py:306` writes them. The program relies on it;
  nothing in it could check it.

Only model-checked, because they take fairness and ENABLED, which the
prover does not reason about: `FullFifoRecovers`, `TimedRecordingEnds`,
`ResetAnswered`, `DialogueEnds`, `TransmissionEnds`, `InitEnds`, `AnswerEnds`,
`AnalysisEnds`. The properties of the violation runs are false and have
counterexamples instead.

## 5. Not modelled, and why

- *Distance measurement* (`gpio_distance_measure.c`). Nothing but the recorder
  reads it, through `in_proper_distance`, and `Recorder` takes every sequence of
  its three results, more than the sensor can produce. The echo counter, the
  sticky error and the debouncing are therefore left out; what was noticed there
  is listed under the findings. This is the next module to write.
- *Handshakes of normaliser and spectrogram*. Both clear one flag, start, and wait
  for it, in an order that is safe; their pipelines are arithmetic.
- *Console commands*. Each composes a reply from the clock, the last word or
  `in_range`; `BleUart` has one outcome for all. A panic's message over BLE,
  which before `init_BLE` uses fields never written, is not modelled.
- *Lamps and clock counters* in the timer interrupt. The lamp that `say()` and the
  panics ask for is in `Playback` and `Recognition`, its blinking is not.
- *Arithmetic* of filters, FFT, normaliser and comparer; the SD card's bit stream
  and CRCs; the soft start and modulation of the audio. There is no protocol in
  these for a model checker to explore.
- *Memory outside a buffer* (`BLE.c:65` writes one byte past `message_in`): the
  model keeps the length that results, not the byte.
- *The generated board support packages, the older copy of the firmware under
  `HDL/software`, the training scripts and the thesis.* The first is generated,
  the second repeats the firmware, the third runs offline, the last is prose.

Most files under `src/` belong to this last group: of about 39 000 lines, the
firmware that these modules translate is some 5 000, the rest is its second copy,
two generated board support packages, Python and the description of the hardware
data paths. The share of the whole that the model covers is therefore small and
would not become large by modelling the rest of the firmware.
