----------------------------- MODULE Recognition -----------------------------
(***************************************************************************)
(* From the power-up to a word: main() and its self-checks, get_word's     *)
(* processing, ai_group.c and ai_db.c, with the panics they may end in.    *)
(*                                                                         *)
(* Three phases of the program use the cards one after the other: starting *)
(* them, reading the directory, and reading the list of the model and      *)
(* comparing with its bases, which the self-check does as well as every    *)
(* analysis.  The dialogue and the recorder are one step, listening.       *)
(***************************************************************************)
EXTENDS Comparer, Profile

CONSTANTS
  BASES,      \* BASES = 8
  DECISIONS,  \* MAX_AI_DECISIONS = 32
  Cards,      \* what the cards may hold
  Recordings  \* sets of loud samples

(* A card is its directory, the place of its last file, and that file: a   *)
(* header, a list of items and whether the check sum is right.  An item is *)
(* a base ("B") or the name of a decision ("L").                           *)
ASSUME CardsOK ==
  /\ \A c \in Cards :
       /\ c.addr \in Nat
       /\ DOMAIN c.items = 1 .. Len(c.items) /\ Len(c.items) \in Nat
       /\ \A i \in DOMAIN c.items : c.items[i].spects \in Nat
  /\ \A r \in Recordings : r \subseteq 0 .. RANGE - 1
  /\ BASES \in Nat \ {0}

VARIABLES
  card,
  start,      \* detector->start
  task,       \* who analyses
  base,       \* n of ai_group_analyse
  results,    \* state, decision and score of each base
  loud,       \* the recording that is processed
  fragment,   \* what selectLoud chose
  word, status,
  panic,      \* which panic is shown
  \* history
  fault       \* cards or cores have failed since main() began

place  == <<start, task, base>>
speech == <<loud, fragment, word, status>>
vars   == <<diskVars, comparer, card, place, results, speech, panic, fault>>

NoWord == [base |-> 0, decision |-> 0]
Unused == [b \in 1 .. BASES |-> NotCompared]
Quietness == {}

Init ==
  /\ DiskInit /\ ComparerInit /\ pc = "boot" /\ ret = "boot"
  /\ card \in Cards /\ start = 0 /\ task = "selfcheck" /\ base = 1
  /\ results = Unused /\ loud = Quietness /\ fragment = NoFragment
  /\ word = NoWord /\ status = "NONE" /\ panic = "none" /\ fault = FALSE

-----------------------------------------------------------------------------
(* Hardware and interrupts *)
program == <<card, place, results, speech, panic>>

CardHardware ==
  /\ Reader \/ Starter
  /\ fault' = \/ fault
              \/ failed' /\ ~failed
              \/ \E c \in Cores : /\ starter[c].state = "busy"
                                  /\ starter'[c].result = "error"
  /\ UNCHANGED <<driver, n, pc, ret, comparer, program>>

ComparerHardware ==
  /\ \E c \in Cores :
       \/ \E whole \in BOOLEAN :
            CoreEnds(c, whole) /\ fault' = (fault \/ ~whole)
       \/ \E e \in {"crc", "tmr", "fifo"} : CoreFails(c, e) /\ fault' = TRUE
  /\ UNCHANGED <<diskVars, ai_flag, compared, overflowed, program>>

Interrupts ==
  /\ \/ spi_isr /\ UNCHANGED comparer
     \/ ai_isr /\ UNCHANGED diskVars
  /\ UNCHANGED <<program, fault>>

(* An assumption about time: the cores of a comparison that was left end   *)
(* within 10 ms; before a card is started 100 ms pass (disk.c:63), and a   *)
(* recording takes longer still.                                           *)
CoresAtRest == Reading = {} /\ ai_irq = 0

-----------------------------------------------------------------------------
(* main() and app_selfcheck *)
Boot ==
  /\ pc = "boot" /\ CoresAtRest /\ InitDisk("booted")
  /\ UNCHANGED <<disk_flag, comparer, program, fault>>

Panic(p) == pc' = "panic" /\ panic' = p

(* startup_panic *)
NoCards ==
  /\ pc = "booted" /\ disk_status = "ERROR"
  /\ Panic("NO_DISK")
  /\ UNCHANGED <<hardware, driver, n, ret, comparer, card, place, results,
                 speech, fault>>

(* Read_file_system *)
Booted ==
  /\ pc = "booted" /\ disk_status # "ERROR"
  /\ load_disk(0, HEADER, 0, "directory")
  /\ UNCHANGED <<answer, n, comparer, program, fault>>

Looked ==
  /\ check_disk # "IN_PROGRESS" /\ answer' = check_disk
  /\ UNCHANGED <<hardware, disk_flag, disk_status, tries, n, ret, comparer,
                 card, speech, fault>>

(* All files are there, the last is the model's.  Any other result of      *)
(* Read_file_system is the panic of a file error, and no card is tried.    *)
Directory ==
  /\ pc = "directory" /\ Looked
  /\ IF check_disk = "OK" /\ table[0] = <<0, 0>> /\ card.directory
     THEN /\ start' = card.addr \div 16 /\ task' = "selfcheck"
          /\ pc' = "read" /\ UNCHANGED panic
     ELSE Panic("FILE_ERROR") /\ UNCHANGED <<start, task>>
  /\ UNCHANGED <<base, results>>

-----------------------------------------------------------------------------
(* ai_db.c: the items of a list *)
IsBase(items, i) == items[i].kind = "B"

(* The sum of spects_in_base up to an item. *)
Spects(items) ==
  LET upTo[i \in 0 .. Len(items)] ==
        IF i = 0 THEN 0
        ELSE upTo[i - 1] + IF IsBase(items, i) THEN items[i].spects ELSE 0
  IN  upTo

Leading(items) == {i \in DOMAIN items : \A j \in 1 .. i : IsBase(items, j)}

(* The names, in the order of the list. *)
Linkers(items) ==
  LET upTo[i \in 0 .. Len(items)] ==
        IF i = 0 THEN << >>
        ELSE IF IsBase(items, i) THEN upTo[i - 1]
        ELSE Append(upTo[i - 1], items[i])
  IN  upTo

Bases == Cardinality(Leading(card.items))
Decisions == Spects(card.items)[Bases]
Names == Linkers(card.items)[Len(card.items)]

(* What a card's names say (model/buildimage.py:306): the categories of    *)
(* the first base, then those of the second, and so on.                    *)
ASSUME NamesInOrder ==
  \A c \in Cards : \A b \in Leading(c.items) :
    \A d \in 0 .. c.items[b].spects - 1 :
      LET names == Linkers(c.items)[Len(c.items)]
          position == Spects(c.items)[b - 1] + d + 1
      IN  position \in DOMAIN names =>
            names[position].of = [base |-> b, decision |-> d]

(* Mutant: any number of bases. *)
M_load_list ==
  /\ \A i \in Leading(card.items) : card.items[i].valid
  /\ Decisions <= DECISIONS

(* load_list: only the bases in front.  valid stands for a name that can   *)
(* be decoded and, here, spectra that fit in AI_RAM.                       *)
load_list ==
  /\ Bases <= BASES
  /\ \A i \in Leading(card.items) : card.items[i].valid
  /\ Decisions <= DECISIONS

(* load_linker_list: all items, and a name for every category. *)
load_linker_list ==
  LET items == card.items
  IN  /\ Cardinality({i \in DOMAIN items : IsBase(items, i)}) <= BASES
      /\ \A i \in DOMAIN items : ~IsBase(items, i) =>
           items[i].valid /\ Spects(items)[i] <= DECISIONS
      /\ Len(Names) = Spects(items)[Len(items)]

(* readDatabase, up to its wait *)
ReadDatabase ==
  /\ pc = "read"
  /\ load_disk(start * 16, HEADER, 0, "list")
  /\ UNCHANGED <<answer, n, comparer, program, fault>>

(* The file's first sector is at card.addr; what is loaded is another      *)
(* sector when that is no multiple of 16.                                  *)
IsList == /\ check_disk = "OK" /\ table[0] = <<card.addr, 0>>
          /\ card.header /\ load_list /\ card.csum

Listed ==
  /\ pc = "list" /\ Looked
  /\ IF IsList THEN /\ base' = 1 /\ results' = Unused
                    /\ pc' = IF Bases = 0 THEN "judge" ELSE "compare"
     ELSE pc' = "fault" /\ UNCHANGED <<base, results>>
  /\ UNCHANGED <<start, task, panic>>

-----------------------------------------------------------------------------
(* ai_group_selfcheck, ai_group_analyse *)
Missing == {"DISK_ERROR", "NO_DISK_DETECT"}

Compare ==
  /\ AI_compare(card.items[base].spects)
  /\ UNCHANGED <<hardware, driver, n, ret, program, fault>>

NextBase == pc' = IF base = Bases THEN "judge" ELSE "compare"

(* An overflow is no error here, nor a wrong check sum of the base, so     *)
(* that there are no retries.                                              *)
analyse_load_errors ==
  \/ /\ compared.state = "DISK_ERROR"
     /\ disk_status' = "ERROR" /\ pc' = "fault"
  \/ /\ compared.state = "NO_DISK_DETECT"
     /\ disk_status' = "NONE" /\ pc' = "fault"
  \/ /\ compared.state \notin Missing
     /\ NextBase /\ UNCHANGED disk_status

Compared ==
  /\ pc = "compared"
  /\ results' = [results EXCEPT ![base] = compared]
  /\ analyse_load_errors
  /\ base' = IF pc' = "compare" THEN base + 1 ELSE base
  /\ compared' = NotCompared
  /\ UNCHANGED <<hardware, disk_flag, tries, answer, n, ret, chip, ai_flag,
                 overflowed, card, start, task, speech, panic, fault>>

Detected(b) == results[b].state = "OK"

Verdict == IF \E b \in 1 .. Bases : Detected(b) THEN "OK"
           ELSE IF \E b \in 1 .. Bases : results[b].state = "CANT_DETECT"
           THEN "CANT_DETECT"
           ELSE "BAD_CONFIG"

(* The loop of selectBestSuit; in the mutant only the bases that detected  *)
(* something are counted.                                                  *)
M_Suit ==
  LET upTo[b \in 0 .. Bases] ==
        IF b = 0 THEN [best |-> 0, offset |-> 0, dec |-> 0]
        ELSE LET s == upTo[b - 1]
             IN  IF ~Detected(b) THEN s
                 ELSE IF s.best = 0 \/ results[s.best].score > results[b].score
                 THEN [best |-> b, offset |-> s.offset + card.items[b].spects,
                       dec |-> results[b].decision + s.offset]
                 ELSE [s EXCEPT !.offset = @ + card.items[b].spects]
  IN  upTo

Suit ==
  LET upTo[b \in 0 .. Bases] ==
        IF b = 0 THEN [best |-> 0, offset |-> 0, dec |-> 0]
        ELSE LET s == upTo[b - 1]
                 t == [s EXCEPT !.offset = @ + card.items[b].spects]
             IN  IF Detected(b) /\ (\/ s.best = 0
                                    \/ results[s.best].score > results[b].score)
                 THEN [best |-> b, offset |-> t.offset,
                       dec |-> results[b].decision + s.offset]
                 ELSE t
  IN  upTo

(* The first of the bases with the least score; its categories come after  *)
(* those of the bases before it.                                           *)
selectBestSuit == Suit[Bases].dec

(* The end of the self-check: the names are not read. *)
SelfChecked ==
  /\ pc = "judge" /\ task = "selfcheck"
  /\ table' = [w \in Words |-> Nothing]
  /\ pc' = IF Verdict = "BAD_CONFIG" THEN "fault" ELSE "ready"
  /\ UNCHANGED <<reg, reader, starter, spi_irq, failed, driver, n, ret,
                 comparer, program, fault>>

(* The end of an analysis, and record_selfcheck in app(). *)
Analysed(s, w, next) ==
  /\ pc = "judge" /\ task = "analyse"
  /\ status' = s /\ word' = w /\ pc' = next
  /\ UNCHANGED <<hardware, driver, n, ret, comparer, card, place, results,
                 loud, fragment, panic, fault>>

(* The place of the word is compared with the number of the categories. *)
Linker == Names[selectBestSuit + 1]
HasName == selectBestSuit <= Decisions /\ Linker.ends

Named ==
  /\ load_linker_list /\ Verdict = "OK" /\ HasName
  /\ Analysed("OK", Linker.of, "listen")

NotNamed ==
  /\ load_linker_list => Verdict = "OK" /\ ~HasName
  /\ Analysed("FILE_ERROR", NoWord, "fault")

NotDetected ==
  /\ load_linker_list /\ Verdict # "OK"
  /\ Analysed(Verdict, NoWord, "listen")

-----------------------------------------------------------------------------
(* What follows an error: a missing card in an analysis is shown at once,  *)
(* otherwise the cards are tried once more to find which panic to show.    *)
DiskFault == base \in 1 .. BASES
             /\ results[base].state \in Missing

ShowDiskError ==
  /\ pc = "fault" /\ task = "analyse" /\ DiskFault
  /\ Panic("NO_DISK")
  /\ UNCHANGED <<hardware, driver, n, ret, comparer, card, place, results,
                 speech, fault>>

(* Mutant: the cards are not tried. *)
M_TryCards ==
  /\ pc = "fault" /\ (task = "selfcheck" \/ ~DiskFault)
  /\ pc' = "tried"
  /\ UNCHANGED <<hardware, driver, n, ret, comparer, program, fault>>

TryCards ==
  /\ pc = "fault" /\ (task = "selfcheck" \/ ~DiskFault)
  /\ CoresAtRest /\ InitDisk("tried")
  /\ UNCHANGED <<disk_flag, comparer, program, fault>>

Tried ==
  /\ pc = "tried"
  /\ Panic(IF disk_status = "ERROR" THEN "NO_DISK" ELSE "FILE_ERROR")
  /\ UNCHANGED <<hardware, driver, n, ret, comparer, card, place, results,
                 speech, fault>>

-----------------------------------------------------------------------------
(* app()'s loop *)

(* A pressed button makes app() return, and main() start over. *)
Ready ==
  /\ pc = "ready" /\ pc' = "listen"
  /\ UNCHANGED <<hardware, driver, n, ret, comparer, program, fault>>

(* get_word up to its analysis: the recording fills the table. *)
Recorded ==
  /\ pc = "listen" /\ disk_status = "READY" /\ CoresAtRest
  /\ loud' \in Recordings /\ fragment' = selectLoud(loud')
  /\ table' = [w \in Words |-> Nothing]
  /\ results' = Unused /\ word' = NoWord /\ status' = "NONE"
  /\ pc' = "profile"
  /\ UNCHANGED <<reg, reader, starter, spi_irq, failed, driver, n, ret,
                 comparer, card, place, panic, fault>>

(* Noise, or spectrogram, scaling, the copy to AI_RAM and the analysis. *)
Processed ==
  /\ pc = "profile" /\ loud' = {} /\ fragment' = NoFragment
  /\ IF fragment = NoFragment
     THEN status' = "NOISE" /\ pc' = "listen" /\ UNCHANGED task
     ELSE task' = "analyse" /\ pc' = "read" /\ UNCHANGED status
  /\ UNCHANGED <<hardware, driver, n, ret, comparer, card, start, base,
                 results, word, panic, fault>>

MicrophoneError ==
  /\ pc = "listen" /\ disk_status = "READY" /\ Panic("OTHER")
  /\ UNCHANGED <<hardware, driver, n, ret, comparer, card, place, results,
                 speech, fault>>

(* Reset: the button in a panic, in the recorder or at the end of the      *)
(* self-check.  Nothing of this reaches the hardware.                      *)
StartOver ==
  /\ pc \in {"panic", "ready", "listen"}
  /\ pc = "listen" => disk_status = "READY"
  /\ pc' = "boot" /\ disk_flag' = "DOWN" /\ disk_status' = "NONE"
  /\ ai_flag' = "DOWN" /\ start' = 0 /\ base' = 1 /\ task' = "selfcheck"
  /\ results' = Unused /\ word' = NoWord /\ status' = "NONE"
  /\ panic' = "none" /\ fault' = FALSE
  /\ UNCHANGED <<hardware, tries, answer, n, ret, chip, compared,
                 overflowed, card, loud, fragment>>

Program ==
  \/ DiskProgram /\ UNCHANGED <<comparer, program, fault>>
  \/ Boot \/ NoCards \/ Booted \/ Directory
  \/ ReadDatabase \/ Listed \/ Compare \/ Compared
  \/ SelfChecked \/ Named \/ NotNamed \/ NotDetected
  \/ ShowDiskError \/ TryCards \/ Tried \/ Ready \/ Processed

Next == \/ CardHardware \/ ComparerHardware \/ Interrupts \/ Program
        \/ Recorded \/ MicrophoneError \/ StartOver

Spec == Init /\ [][Next]_vars

(* Hardware ends what it began, interrupts are taken, and the program      *)
(* waits for nothing but flags.  Nobody is obliged to speak.               *)
FairSpec == Spec /\ WF_vars(CardHardware) /\ WF_vars(ComparerHardware)
                 /\ WF_vars(Interrupts) /\ WF_vars(Program)

-----------------------------------------------------------------------------
(* Properties *)
RecognitionType ==
  /\ card \in Cards /\ start \in Nat /\ task \in {"selfcheck", "analyse"}
  /\ base \in 1 .. BASES
  /\ DOMAIN results = 1 .. BASES
  /\ loud \in Recordings \cup {{}}
  /\ fragment \in [start : 0 .. RANGE - 1, stop : 0 .. RANGE - 1]
  /\ word \in [base : Nat, decision : Nat]
  /\ status \in {"NONE", "OK", "NOISE", "CANT_DETECT", "BAD_CONFIG",
                 "FILE_ERROR"}
  /\ panic \in {"none", "NO_DISK", "FILE_ERROR", "OTHER"}
  /\ fault \in BOOLEAN

(* Types: with any card that can be read, the number of the base never     *)
(* leaves the arrays of ai_group_analyse, nor a category its numbers.      *)
TypeOK == HardwareType /\ DriverType /\ ComparerType /\ RecognitionType

(* What AI_compare takes for its end is the end of all cores in this       *)
(* comparison (ai.c:174): its flag was lowered after the start, and no bit *)
(* of an earlier one was left, unless once an overflow was ignored.        *)
ComparedWhole ==
  pc = "compare_wait" /\ ai_flag = "UP" /\ ~overflowed => Reading = {}

(* The word is the name of the category that the first of the nearest      *)
(* bases decided for, by its place in the list (ai_group.c:54): the names  *)
(* of all bases stand one after the other, also of those that detected     *)
(* nothing or overflowed.                                                  *)
Nearest(b) == /\ Detected(b)
              /\ \A c \in 1 .. Bases : Detected(c) =>
                   IF c < b THEN results[c].score > results[b].score
                   ELSE results[c].score >= results[b].score
WordNamed ==
  status = "OK" =>
    \E b \in 1 .. Bases :
      Nearest(b) /\ word = [base |-> b, decision |-> results[b].decision]

(* What the status of the cards says, set in four places far from its      *)
(* readers, is the truth where it is read: the loop of app() is not        *)
(* entered with cards that are not ready, for its other branch does        *)
(* nothing, for ever (main.c:300); and the lamp of a panic tells a missing *)
(* card from a damaged one.                                                *)
PanicShown == pc = "panic" => (panic = "NO_DISK") = (disk_status # "READY")
StatusShown == /\ PanicShown
               /\ pc \in {"listen", "profile"} => disk_status = "READY"

(* No panic of the cards is shown unless a card, a core or the content of  *)
(* the card was at fault: no flag of an earlier operation is taken for the *)
(* end of this one.                                                        *)
SoundCard == /\ card.directory /\ card.addr % 16 = 0 /\ card.header
             /\ card.csum /\ load_list /\ load_linker_list /\ Bases > 0
             /\ \A i \in DOMAIN Names : Names[i].ends
NoFalsePanic ==
  pc = "panic" /\ panic # "OTHER" => fault \/ ~SoundCard

(* A fragment is one utterance, whole: it begins a margin before a loud    *)
(* sample that follows a margin of quiet (or at 1), ends with a margin,    *)
(* counted from the last loud sample, or with the recording, holds no      *)
(* pause longer than a margin and a frame, and has a proper length,        *)
(* whatever was given up before it (loud.c:37).                            *)
FragmentWhole ==
  pc = "profile" /\ fragment # NoFragment => Utterance(fragment, loud)

(* Every line of the profile but the last shows exactly one frame, and     *)
(* every frame is shown (scalex.c:24).                                     *)
ProfileFilled ==
  pc = "profile" /\ fragment # NoFragment =>
    Filled(Frames(Length(fragment)))

(* With any errors of the cards and cores, the node listens (again), shows *)
(* a panic or looks at its button at the end of the self-check: it waits   *)
(* for no interrupt that has come already or never comes.                  *)
Attentive == pc \in {"ready", "listen", "panic"}
AnalysisEnds == ~Attentive ~> Attentive

-----------------------------------------------------------------------------
(* The inductive invariant of Recognition_proofs: what the position of the *)
(* program tells about the cards, the bases and the cores. *)
Starting == pc \in {"card_wait", "card_start", "card_result"}
Loading  == pc \in {"load_flag", "load_start"}
Comparing == pc \in {"compare_flag", "compare_wait", "compare_errors",
                     "compared"}
InUse == \/ Loading \/ Comparing
         \/ pc \in {"directory", "read", "list", "compare", "judge", "ready",
                    "listen", "profile"}

Returns == /\ Starting => ret \in {"booted", "tried"}
           /\ Loading => ret \in {"directory", "list"}
           /\ \/ InUse \/ Starting
              \/ pc \in {"boot", "booted", "fault", "tried", "panic"}

CardsKnown ==
  /\ InUse => disk_status = "READY"
  /\ pc \in {"booted", "tried"} => disk_status \in {"READY", "ERROR"}
  /\ PanicShown

BasesKnown ==
  /\ results = [b \in 1 .. BASES |-> results[b]]
  /\ \/ \A b \in 1 .. BASES : results[b].state \notin Missing
     \/ pc \in {"tried", "panic"}
     \/ pc = "fault" /\ disk_status # "READY"
     \/ Starting /\ ret = "tried"

(* Every core reads or has ended, or the interrupt has taken all ends. *)
Ended == IF bits = {} THEN Reading = {} \/ Reading = Cores
         ELSE Reading # {} /\ Reading = Cores \ bits

Unanswered == \/ Reading # {} /\ ai_irq = 0 /\ ai_flag = "DOWN"
              \/ Reading = {} /\ ai_irq = 1 /\ ai_flag = "DOWN"
              \/ Reading = {} /\ ai_irq = 0 /\ ai_flag = "UP"

CoresKnown ==
  ~overflowed =>
    /\ Ended
    /\ (\/ Starting \/ pc \in {"booted", "tried"}
        \/ InUse /\ ~Comparing) => CoresAtRest
    /\ pc = "compare_flag" => Reading = Cores /\ ai_irq = 0
    /\ pc \in {"compare_wait", "compare_errors"} => Unanswered
    /\ pc = "compared" => CoresAtRest \/ compared.state \in Missing

CoresType ==
  /\ core \in [Cores -> {"idle", "reading"}] /\ bits \subseteq Cores
  /\ ai_irq \in {0, 1} /\ ai_flag \in {"UP", "DOWN"}

IInv == Returns /\ CardsKnown /\ BasesKnown /\ CoresType /\ CoresKnown
=============================================================================
