-------------------------------- MODULE Flash --------------------------------
(***************************************************************************)
(* The onboard flash on its SDRAM backing: s573_flash (SIM_BACKING = 0)    *)
(* and the JEDEC command machine flash_nor (BACKING_EXTERNAL = 1) in it.   *)
(* Reads go through one cached line filled in two bursts; a program is     *)
(* written through and posted, one deep; an erase is walked over its       *)
(* region in the background, bank by bank, on the port programs use.       *)
(*                                                                         *)
(* The four banks share one command machine.  Bus writes are the command   *)
(* bytes at their addresses (Tokens; a byte at a wrong address is "bad"),  *)
(* and the data cycle of a program.  A register nobody looks at before it   *)
(* is next written (the tag of no fill, an acknowledged word) is cleared.   *)
(***************************************************************************)
EXTENDS Naturals, FiniteSets

CONSTANTS
  Banks,         \* banks (chip pairs), 4
  Sectors,       \* sectors of a bank, 32
  LinesOfSector, \* cache lines of a sector
  BurstWords,    \* words of a burst, 8; a line is two bursts
  GameWords,     \* the words the game reads and programs
  Data,          \* what it programs
  MaxPrograms,   \* bounds of a run: programs,
  MaxEvents      \* and erases and resets together

ASSUME SizeAssumption ==
  \A n \in {Banks, Sectors, LinesOfSector, BurstWords} : n \in Nat \ {0}
ASSUME DataAssumption == Data \subseteq Nat
ASSUME BoundsAssumption == \A b \in {MaxPrograms, MaxEvents} : b \in Nat

VARIABLES
  bank, state,                     \* the control register, the command machine
  line, line_tag, line_valid,      \* the cached line
  fstate, fill_tag,                \* the fill
  er_busy, er_sector, er_chip,     \* erases, one per bank
  wk_bank, wk_word, wk_last, wk_active,
  prog_pend, prog,                 \* the posted program: its word and data
  flash_wr_busy, flash_wr, wr_owner, \* the write-back port
  rd,                              \* the word the stalled CPU reads, or NoRead
  sdram,                           \* the image
  left,                            \* what the run may still do
  polled,                          \* the game read the array since its last program
  image                            \* history: the image as the commands say it is

cmdVars  == <<bank, state>>
lineVars == <<line, line_tag, line_valid, fstate, fill_tag>>
erVars   == <<er_busy, er_sector, er_chip>>
wkVars   == <<wk_bank, wk_word, wk_last, wk_active>>
progVars == <<prog_pend, prog>>
wrVars   == <<flash_wr_busy, flash_wr, wr_owner>>
game     == <<left, polled>>
vars == <<cmdVars, lineVars, erVars, wkVars, progVars, wrVars, rd, sdram, game, image>>

-----------------------------------------------------------------------------
LineWords == 2 * BurstWords
SectorWords == LinesOfSector * LineWords
BankWords == Sectors * SectorWords

Words == 0 .. Banks * BankWords - 1

Blank == 0                         \* flash16m_blank.bin
Ones == 65535                      \* an erased word
Values == Data \cup {Blank, Ones}

NoWrite == [word |-> 0, data |-> Blank]

NoLine == [k \in 0 .. LineWords - 1 |-> Blank]

NoRead == Banks * BankWords

BankOf(word) == word \div BankWords

Tag(word) == word \div LineWords

Idx(word) == word % LineWords

tag_hit(word) == line_valid /\ line_tag = Tag(word)

(* The region of a bank's erase. *)
er_nstart(b) == b * BankWords + (IF er_chip[b] THEN 0 ELSE er_sector[b] * SectorWords)

er_nlast(b) == IF er_chip[b] THEN (b + 1) * BankWords - 1 ELSE er_nstart(b) + SectorWords - 1

er_nbank == CHOOSE b \in 0 .. Banks - 1 : er_busy[b] /\ \A c \in 0 .. b - 1 : ~er_busy[c]

Spend(event) == left[event] > 0 /\ left' = [left EXCEPT ![event] = @ - 1]

Init ==
  /\ bank = 0 /\ state = "READ"
  /\ line = NoLine /\ line_tag = 0 /\ line_valid = FALSE
  /\ fstate = "IDLE" /\ fill_tag = 0
  /\ er_busy = [b \in 0 .. Banks - 1 |-> FALSE]
  /\ er_sector = [b \in 0 .. Banks - 1 |-> 0]
  /\ er_chip = [b \in 0 .. Banks - 1 |-> FALSE]
  /\ wk_bank = 0 /\ wk_word = 0 /\ wk_last = 0 /\ wk_active = FALSE
  /\ prog_pend = FALSE /\ prog = NoWrite
  /\ flash_wr_busy = FALSE /\ flash_wr = NoWrite /\ wr_owner = "program"
  /\ rd = NoRead
  /\ sdram = [w \in Words |-> Blank] /\ image = sdram
  /\ left = [program |-> MaxPrograms, event |-> MaxEvents]
  /\ polled = TRUE

ASSUME GameWordsAssumption == GameWords \subseteq Words

-----------------------------------------------------------------------------
(* The command machine. *)

Tokens == {"AA", "55", "90", "A0", "80", "10", "30", "F0", "bad"}

Transitions ==
  {<<"READ", "AA", "UL1">>, <<"UL1", "55", "UL2">>,
   <<"UL2", "90", "AUTO">>, <<"UL2", "A0", "PROG">>, <<"UL2", "80", "ER1">>,
   <<"ER1", "AA", "ER2">>, <<"ER2", "55", "ERCMD">>}

NextState(s, token) ==
  IF \E to \in {t[3] : t \in Transitions} : <<s, token, to>> \in Transitions
  THEN CHOOSE to \in {t[3] : t \in Transitions} : <<s, token, to>> \in Transitions
  ELSE IF s = "AUTO" /\ token # "F0" THEN "AUTO" ELSE "READ"

(* The bus is free: a read holds it until it is ready. *)
BusFree == rd = NoRead

CtlWrite(b) ==
  /\ BusFree /\ bank # b
  /\ bank' = b
  /\ UNCHANGED <<state, lineVars, erVars, wkVars, progVars, wrVars, rd, sdram, game, image>>

Command(token) ==
  /\ BusFree /\ state # "PROG"
  /\ ~(state = "ERCMD" /\ token \in {"10", "30"})
  /\ state' = NextState(state, token) /\ state' # state
  /\ UNCHANGED <<bank, lineVars, erVars, wkVars, progVars, wrVars, rd, sdram, game, image>>

DropLine == line' = NoLine /\ line_tag' = 0 /\ line_valid' = FALSE

InRegion(w, b, chip, sector) ==
  BankOf(w) = b /\ (chip \/ (w % BankWords) \div SectorWords = sector)

(* erase_now: a busy bank drops it. *)
EraseNow(chip, sector) ==
  /\ BusFree /\ state = "ERCMD" /\ Spend("event")
  /\ state' = "READ"
  /\ IF er_busy[bank]
     THEN UNCHANGED <<erVars, line, line_tag, line_valid, image>>
     ELSE /\ er_busy' = [er_busy EXCEPT ![bank] = TRUE]
          /\ er_chip' = [er_chip EXCEPT ![bank] = chip]
          /\ er_sector' = [er_sector EXCEPT ![bank] = sector]
          /\ DropLine
          /\ image' = [w \in Words |-> IF InRegion(w, bank, chip, sector) THEN Ones ELSE image[w]]
  /\ UNCHANGED <<bank, fstate, fill_tag, wkVars, progVars, wrVars, rd, sdram, polled>>

(* mutant: a busy bank takes the program *)
TakeAlways == TRUE

(* A program for a busy bank is ignored. *)
TakesProgram == ~er_busy[bank]

(* mutant: no write-through *)
NoWriteThrough(word, data) == UNCHANGED line

WriteThrough(word, data) ==
  line' = IF tag_hit(word) THEN [line EXCEPT ![Idx(word)] = data] ELSE line

(* prog_now.  The game polls between programs. *)
ProgNow(word, data) ==
  /\ BusFree /\ state = "PROG" /\ polled /\ Spend("program")
  /\ BankOf(word) = bank
  /\ state' = "READ"
  /\ IF TakesProgram
     THEN /\ prog_pend' = TRUE /\ prog' = [word |-> word, data |-> data]
          /\ WriteThrough(word, data)
     ELSE UNCHANGED <<progVars, line>>
  /\ image' = IF er_busy[bank] THEN image ELSE [image EXCEPT ![word] = data]
  /\ polled' = er_busy[bank]
  /\ UNCHANGED <<bank, line_tag, line_valid, fstate, fill_tag, erVars, wkVars, wrVars, rd, sdram>>

-----------------------------------------------------------------------------
(* Reads.  An autoselect read and the status of a busy bank never stall;    *)
(* an array read of an idle bank does, until its line is there and no       *)
(* program is pending.                                                      *)

ArrayRead(word) ==
  /\ BusFree /\ BankOf(word) = bank /\ ~er_busy[bank]
  /\ state = "AUTO" => (word % BankWords) \notin {0, 1}
  /\ rd' = word
  /\ UNCHANGED <<cmdVars, lineVars, erVars, wkVars, progVars, wrVars, sdram, game, image>>

array_ready == rd # NoRead /\ tag_hit(rd) /\ ~prog_pend

ReadDone ==
  /\ array_ready
  /\ rd' = NoRead /\ polled' = TRUE
  /\ UNCHANGED <<cmdVars, lineVars, erVars, wkVars, progVars, wrVars, sdram, left, image>>

FillNeeded == rd # NoRead /\ ~tag_hit(rd) /\ ~prog_pend

FillStart ==
  /\ fstate = "IDLE" /\ FillNeeded
  /\ fstate' = "REQ0" /\ fill_tag' = Tag(rd) /\ DropLine
  /\ UNCHANGED <<cmdVars, erVars, wkVars, progVars, wrVars, rd, sdram, game, image>>

(* SDRAM answers the first burst, then the second. *)
FillBurst ==
  /\ fstate \in {"REQ0", "REQ1"}
  /\ LET first == IF fstate = "REQ0" THEN 0 ELSE BurstWords IN
     line' = [k \in 0 .. LineWords - 1 |->
                IF k \in first .. first + BurstWords - 1 THEN sdram[fill_tag * LineWords + k] ELSE line[k]]
  /\ IF fstate = "REQ0"
     THEN fstate' = "REQ1" /\ UNCHANGED <<line_tag, line_valid, fill_tag>>
     ELSE fstate' = "IDLE" /\ line_tag' = fill_tag /\ line_valid' = TRUE /\ fill_tag' = 0
  /\ UNCHANGED <<cmdVars, erVars, wkVars, progVars, wrVars, rd, sdram, game, image>>

-----------------------------------------------------------------------------
(* The write-back port: a pending program, else the walker's next word,     *)
(* else the next region.                                                    *)

Issue(word, data, owner) ==
  flash_wr_busy' = TRUE /\ flash_wr' = [word |-> word, data |-> data] /\ wr_owner' = owner

IssueProgram ==
  /\ ~flash_wr_busy /\ prog_pend
  /\ Issue(prog.word, prog.data, "program")
  /\ UNCHANGED <<cmdVars, lineVars, erVars, wkVars, progVars, rd, sdram, game, image>>

IssueWalker ==
  /\ ~flash_wr_busy /\ ~prog_pend /\ wk_active
  /\ Issue(wk_word, Ones, "walker")
  /\ UNCHANGED <<cmdVars, lineVars, erVars, wkVars, progVars, rd, sdram, game, image>>

StartRegion ==
  /\ ~flash_wr_busy /\ ~prog_pend /\ ~wk_active /\ \E b \in 0 .. Banks - 1 : er_busy[b]
  /\ wk_bank' = er_nbank /\ wk_word' = er_nstart(er_nbank) /\ wk_last' = er_nlast(er_nbank)
  /\ wk_active' = TRUE
  /\ UNCHANGED <<cmdVars, lineVars, erVars, progVars, wrVars, rd, sdram, game, image>>

NoWalk == wk_active' = FALSE /\ wk_bank' = 0 /\ wk_word' = 0 /\ wk_last' = 0

WalkDone == wk_word = wk_last

(* mutant: the bank selected now is released, not the one walked *)
ReleaseSelected == er_busy' = [er_busy EXCEPT ![bank] = FALSE] /\ UNCHANGED <<er_sector, er_chip>>

Release ==
  /\ er_busy' = [er_busy EXCEPT ![wk_bank] = FALSE]
  /\ er_sector' = [er_sector EXCEPT ![wk_bank] = 0] /\ er_chip' = [er_chip EXCEPT ![wk_bank] = FALSE]

Committed == prog_pend' = FALSE /\ prog' = NoWrite

(* flash_wr_ack: the word is in SDRAM. *)
WriteAck ==
  /\ flash_wr_busy
  /\ flash_wr_busy' = FALSE /\ flash_wr' = NoWrite /\ wr_owner' = "program"
  /\ sdram' = [sdram EXCEPT ![flash_wr.word] = flash_wr.data]
  /\ \/ wr_owner = "walker" /\ WalkDone /\ Release /\ NoWalk /\ UNCHANGED progVars
     \/ /\ wr_owner = "walker" /\ ~WalkDone
        /\ wk_word' = wk_word + 1
        /\ UNCHANGED <<erVars, wk_bank, wk_last, wk_active, progVars>>
     \/ wr_owner = "program" /\ Committed /\ UNCHANGED <<erVars, wkVars>>
  /\ UNCHANGED <<cmdVars, lineVars, rd, game, image>>

(* A reset abandons a walk, a posted program and a fill, as power would; the *)
(* write in flight lands or does not.                                        *)
Reset ==
  /\ Spend("event")
  /\ state' = "READ" /\ bank' = 0
  /\ fstate' = "IDLE" /\ fill_tag' = 0 /\ DropLine
  /\ er_busy' = [b \in 0 .. Banks - 1 |-> FALSE] /\ er_chip' = [b \in 0 .. Banks - 1 |-> FALSE]
  /\ er_sector' = [b \in 0 .. Banks - 1 |-> 0]
  /\ NoWalk /\ prog_pend' = FALSE /\ prog' = NoWrite
  /\ flash_wr_busy' = FALSE /\ flash_wr' = NoWrite /\ wr_owner' = "program"
  /\ rd' = NoRead /\ polled' = TRUE
  /\ \/ UNCHANGED sdram
     \/ flash_wr_busy /\ sdram' = [sdram EXCEPT ![flash_wr.word] = flash_wr.data]
  /\ image' = sdram'

Cpu ==
  \/ \E b \in 0 .. Banks - 1 : CtlWrite(b)
  \/ \E t \in Tokens : Command(t)
  \/ \E s \in 0 .. Sectors - 1 : EraseNow(FALSE, s)
  \/ EraseNow(TRUE, 0)
  \/ \E w \in GameWords, d \in Data : ProgNow(w, d)
  \/ \E w \in GameWords : ArrayRead(w)

Port == IssueProgram \/ IssueWalker \/ StartRegion \/ WriteAck

Fill == FillStart \/ FillBurst

Next == Cpu \/ Port \/ Fill \/ ReadDone \/ Reset

Spec == Init /\ [][Next]_vars

(* The clock runs and SDRAM serves both ports. *)
FairSpec == Spec /\ WF_vars(Port) /\ WF_vars(Fill) /\ WF_vars(ReadDone)

-----------------------------------------------------------------------------
(* Every register keeps its range. *)
TypeOK ==
  /\ bank \in 0 .. Banks - 1
  /\ state \in {"READ", "UL1", "UL2", "AUTO", "PROG", "ER1", "ER2", "ERCMD"}
  /\ line \in [0 .. LineWords - 1 -> Values] /\ {line_tag, fill_tag} \subseteq {Tag(w) : w \in Words}
  /\ {line_valid, wk_active, prog_pend, flash_wr_busy, polled} \subseteq BOOLEAN
  /\ fstate \in {"IDLE", "REQ0", "REQ1"}
  /\ er_busy \in [0 .. Banks - 1 -> BOOLEAN] /\ er_chip \in [0 .. Banks - 1 -> BOOLEAN]
  /\ er_sector \in [0 .. Banks - 1 -> 0 .. Sectors - 1]
  /\ wk_bank \in 0 .. Banks - 1 /\ {wk_word, wk_last} \subseteq Words
  /\ {prog, flash_wr} \subseteq [word : Words, data : Values] /\ wr_owner \in {"program", "walker"}
  /\ rd \in Words \cup {NoRead}
  /\ sdram \in [Words -> Values] /\ image \in [Words -> Values]

(* What a read returns is what the commands made of the word: the cached    *)
(* line survives programs, erases of its own and of other banks, and fills  *)
(* that follow a posted program.                                            *)
LineIsTrue ==
  line_valid => \A k \in 0 .. LineWords - 1 : line[k] = image[line_tag * LineWords + k]

Walked(w) == \E b \in 0 .. Banks - 1 : er_busy[b] /\ InRegion(w, b, er_chip[b], er_sector[b])

Posted(w) == prog_pend /\ prog.word = w

(* Completion is real: apart from the posted word and the regions still     *)
(* busy, SDRAM holds what the commands say; so a bank that reports done is  *)
(* erased to its last word, and no erase leaves its region.                 *)
CompletionIsReal ==
  TypeOK /\ \A w \in Words : ~Walked(w) /\ ~Posted(w) => sdram[w] = image[w]

(* The one write port serves everyone: a stalled read returns and every     *)
(* erase ends, whatever is being programmed or walked.                      *)
ReadsReturn == rd # NoRead ~> rd = NoRead

ErasesEnd == \A b \in 0 .. Banks - 1 : er_busy[b] ~> ~er_busy[b]

NothingStalls == ReadsReturn /\ ErasesEnd
=============================================================================
