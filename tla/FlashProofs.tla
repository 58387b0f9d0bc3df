----------------------------- MODULE FlashProofs -----------------------------
(***************************************************************************)
(* Proofs about the onboard flash, for every number and size of banks,     *)
(* sectors and lines: what a read returns is what the commands say, and an  *)
(* erase that reports done is done.                                        *)
(***************************************************************************)
EXTENDS Flash, Remainders, TLAPS

-----------------------------------------------------------------------------
(* Words, lines, sectors and banks. *)

LEMMA Sizes ==
  /\ BurstWords \in Nat \ {0} /\ LinesOfSector \in Nat \ {0}
  /\ Sectors \in Nat \ {0} /\ Banks \in Nat \ {0}
  /\ LineWords \in Nat \ {0} /\ SectorWords \in Nat \ {0} /\ BankWords \in Nat \ {0}
  /\ BankWords = SectorWords * Sectors /\ BankWords = LineWords * (LinesOfSector * Sectors)
  /\ LinesOfSector * Sectors \in Nat \ {0} /\ Banks * BankWords \in Nat \ {0}
<1>1. /\ BurstWords \in Nat \ {0} /\ LinesOfSector \in Nat \ {0}
      /\ Sectors \in Nat \ {0} /\ Banks \in Nat \ {0}
  BY SizeAssumption
<1>2. LineWords \in Nat \ {0}
  BY <1>1 DEF LineWords
<1>3. SectorWords \in Nat \ {0}
  BY <1>1, <1>2, SMTT(30) DEF SectorWords
<1>4. BankWords \in Nat \ {0} /\ BankWords = SectorWords * Sectors
  BY <1>1, <1>3, SMTT(30) DEF BankWords
<1>5. LinesOfSector * Sectors \in Nat \ {0}
  BY <1>1, SMTT(30)
<1>6. BankWords = LineWords * (LinesOfSector * Sectors)
  BY <1>1, <1>2, SMTT(30) DEF BankWords, SectorWords
<1>7. Banks * BankWords \in Nat \ {0}
  BY <1>1, <1>4, SMTT(30)
<1>8. QED
  BY <1>1, <1>2, <1>3, <1>4, <1>5, <1>6, <1>7

(* The bank of a word, and which words are words of the flash. *)
LEMMA BankOfWord ==
  ASSUME NEW w \in Nat
  PROVE  /\ BankOf(w) \in Nat
         /\ BankWords * BankOf(w) <= w /\ w < BankWords * BankOf(w) + BankWords
         /\ w \in Words <=> BankOf(w) \in 0 .. Banks - 1
         /\ \A b \in Nat : BankOf(w) = b <=> BankWords * b <= w /\ w < BankWords * b + BankWords
<1>1. BankOf(w) \in Nat
  BY Sizes, DivMod DEF BankOf
<1>2. \A b \in Nat : BankOf(w) = b <=> BankWords * b <= w /\ w < BankWords * b + BankWords
  BY Sizes, DivIs DEF BankOf
<1>3. BankWords * BankOf(w) <= w /\ w < BankWords * BankOf(w) + BankWords
  BY <1>1, <1>2
<1>4. w \in Words <=> BankOf(w) \in 0 .. Banks - 1
  <2>1. w \in Words <=> w < BankWords * Banks
    BY Sizes DEF Words
  <2>2. BankOf(w) < Banks => BankWords * BankOf(w) + BankWords <= BankWords * Banks
    BY <1>1, Sizes, MultipleApart
  <2>3. Banks <= BankOf(w) => BankWords * Banks <= BankWords * BankOf(w)
    BY <1>1, Sizes, MultiplesOrdered
  <2>4. BankWords * BankOf(w) \in Int /\ BankWords * Banks \in Int
    BY <1>1, Sizes
  <2>5. QED
    BY <1>1, <1>3, <2>1, <2>2, <2>3, <2>4, Sizes
<1>5. QED
  BY <1>1, <1>2, <1>3, <1>4

(* A word is at its place of its line ... *)
LEMMA LineOfWord ==
  ASSUME NEW w \in Words
  PROVE  /\ Tag(w) \in Nat /\ Idx(w) \in 0 .. LineWords - 1
         /\ w = Tag(w) * LineWords + Idx(w)
<1>1. w \in Nat
  BY DEF Words
<1>2. /\ Tag(w) \in Nat /\ Idx(w) \in 0 .. LineWords - 1
      /\ w = LineWords * Tag(w) + Idx(w)
  BY <1>1, Sizes, DivMod DEF Tag, Idx
<1>3. QED
  BY <1>2, Sizes

(* ... and a line lies in one bank. *)
LEMMA LineInBank ==
  ASSUME NEW w \in Words, NEW k \in 0 .. LineWords - 1
  PROVE  /\ Tag(w) * LineWords + k \in Words
         /\ BankOf(Tag(w) * LineWords + k) = BankOf(w)
<1> DEFINE x == Tag(w) * LineWords + k
<1>1. w \in Nat /\ x \in Nat
  <2>1. w \in Nat /\ Tag(w) \in Nat /\ LineWords \in Nat \ {0}
    BY LineOfWord, Sizes DEF Words
  <2>2. Tag(w) * LineWords \in Nat
    BY <2>1, SMTT(30)
  <2>3. QED
    BY <2>1, <2>2
<1>2. BankOf(x) = BankOf(w)
  <2> DEFINE M == LinesOfSector * Sectors
  <2>1. M \in Nat \ {0} /\ LineWords \in Nat \ {0} /\ BankWords = LineWords * M
    BY Sizes
  <2> HIDE DEF M
  <2>2. ((w \div LineWords) * LineWords + k) \div (LineWords * M) = w \div (LineWords * M)
    BY <1>1, <2>1, BlockOfBlocks
  <2>3. QED
    BY <2>1, <2>2 DEF BankOf, Tag
<1>3. x \in Words
  BY <1>1, <1>2, BankOfWord
<1>4. QED
  BY <1>2, <1>3

(* Two words of a line at the same place are one. *)
LEMMA PlaceOfWord ==
  ASSUME NEW w \in Words, NEW t \in Nat, NEW k \in 0 .. LineWords - 1
  PROVE  t * LineWords + k = w <=> Tag(w) = t /\ Idx(w) = k
<1>1. w \in Nat /\ t * LineWords + k \in Nat
  BY Sizes DEF Words
<1>2. Tag(w) = t /\ Idx(w) = k => t * LineWords + k = w
  BY LineOfWord
<1>3. ASSUME t * LineWords + k = w PROVE Tag(w) = t /\ Idx(w) = k
  <2>1. w = LineWords * t + k
    BY <1>1, <1>3, Sizes
  <2>2. Idx(w) = k
    BY <2>1, Sizes, ModUnique DEF Idx
  <2>3. LineWords * t \in Int
    BY Sizes
  <2>4. LineWords * t <= w /\ w < LineWords * t + LineWords
    BY <2>1, <2>3, Sizes
  <2>5. Tag(w) = t
    BY <1>1, <2>4, Sizes, DivIs DEF Tag
  <2>6. QED
    BY <2>2, <2>5
<1>4. QED
  BY <1>2, <1>3

(* The walker's span is the region the command named. *)
LEMMA RegionIsSpan ==
  ASSUME NEW b \in 0 .. Banks - 1, er_sector[b] \in 0 .. Sectors - 1, er_chip[b] \in BOOLEAN
  PROVE  /\ er_nstart(b) \in Words /\ er_nlast(b) \in Words /\ er_nstart(b) <= er_nlast(b)
         /\ \A w \in Words : InRegion(w, b, er_chip[b], er_sector[b])
                               <=> er_nstart(b) <= w /\ w <= er_nlast(b)
<1> DEFINE s == er_sector[b]
           B == BankWords * b
           S == SectorWords * s
<1>1. /\ B \in Nat /\ S \in Nat /\ S + SectorWords <= BankWords
      /\ B + BankWords <= BankWords * Banks /\ (b + 1) * BankWords = B + BankWords
      /\ b * BankWords = B /\ s * SectorWords = S
  <2>1. B \in Nat /\ S \in Nat /\ b * BankWords = B /\ s * SectorWords = S
    BY Sizes, SMTT(30)
  <2>2. (b + 1) * BankWords = B + BankWords
    BY Sizes, SMTT(30)
  <2>3. S + SectorWords <= SectorWords * Sectors
    BY Sizes, MultipleApart
  <2>4. B + BankWords <= BankWords * Banks
    BY Sizes, MultipleApart
  <2>5. QED
    BY <2>1, <2>2, <2>3, <2>4, Sizes
<1>2. Words = 0 .. BankWords * Banks - 1 /\ BankWords * Banks \in Nat
  BY Sizes DEF Words
<1>3. ASSUME NEW w \in Words
      PROVE  BankOf(w) = b <=> B <= w /\ w < B + BankWords
  <2>1. w \in Nat /\ b \in Nat
    BY DEF Words
  <2>2. QED
    BY <2>1, BankOfWord
<1>4. CASE er_chip[b]
  <2>1. er_nstart(b) = B /\ er_nlast(b) = B + BankWords - 1
    <3>1. b * BankWords = B /\ (b + 1) * BankWords = B + BankWords /\ B \in Nat
      BY <1>1
    <3>2. er_nstart(b) = b * BankWords + 0
      BY <1>4, Zenon DEF er_nstart
    <3>3. er_nlast(b) = (b + 1) * BankWords - 1
      BY <1>4, Zenon DEF er_nlast
    <3> HIDE DEF B
    <3>4. QED
      BY <3>1, <3>2, <3>3, Sizes
  <2>2. er_nstart(b) \in Words /\ er_nlast(b) \in Words /\ er_nstart(b) <= er_nlast(b)
    <3> HIDE DEF B
    <3> QED BY <1>1, <1>2, <2>1, Sizes
  <2>3. ASSUME NEW w \in Words
        PROVE  InRegion(w, b, er_chip[b], s) <=> er_nstart(b) <= w /\ w <= er_nlast(b)
    <3>1. InRegion(w, b, er_chip[b], s) <=> B <= w /\ w < B + BankWords
      BY <1>3, <1>4 DEF InRegion
    <3> HIDE DEF B
    <3>2. QED
      BY <1>1, <1>2, <2>1, <3>1, Sizes
  <2>4. QED
    BY <2>2, <2>3
<1>5. CASE ~er_chip[b]
  <2>1. er_nstart(b) = B + S /\ er_nlast(b) = B + S + SectorWords - 1
    BY <1>1, <1>5, Sizes DEF er_nstart, er_nlast
  <2>2. er_nstart(b) \in Words /\ er_nlast(b) \in Words /\ er_nstart(b) <= er_nlast(b)
    <3> HIDE DEF B, S
    <3> QED BY <1>1, <1>2, <2>1, Sizes
  <2>3. ASSUME NEW w \in Words
        PROVE  InRegion(w, b, er_chip[b], s) <=> er_nstart(b) <= w /\ w <= er_nlast(b)
    <3> DEFINE r == w % BankWords
    <3>1. w \in Nat /\ r \in Nat /\ s \in Nat
      <4>1. w \in Nat /\ s \in Nat
        BY DEF Words
      <4>2. BankWords \in Nat \ {0}
        BY Sizes
      <4>3. (w % BankWords) \in 0 .. BankWords - 1
        BY <4>1, <4>2, DivMod
      <4>4. QED
        BY <4>1, <4>2, <4>3
    <3>2. InRegion(w, b, er_chip[b], s) <=> BankOf(w) = b /\ (r \div SectorWords) = s
      BY <1>5 DEF InRegion
    <3>3. (r \div SectorWords) = s <=> S <= r /\ r < S + SectorWords
      BY <3>1, Sizes, DivIs
    <3>4. BankOf(w) = b => w = B + r
      BY <3>1, Sizes, DivMod DEF BankOf
    <3>5. BankOf(w) = b <=> B <= w /\ w < B + BankWords
      BY <1>3
    <3> HIDE DEF B, S, r
    <3>6. QED
      BY <1>1, <2>1, <3>1, <3>2, <3>3, <3>4, <3>5, Sizes
  <2>4. QED
    BY <2>2, <2>3
<1>6. QED
  BY <1>4, <1>5

-----------------------------------------------------------------------------
(* The inductive invariant.  A read in progress is of a bank that is not     *)
(* busy, so while it stalls its line changes neither in SDRAM nor in the     *)
(* image ...                                                                *)
ReadInv == rd # NoRead => ~er_busy[BankOf(rd)]

(* ... and the half of the line already there is true. *)
FillInv ==
  fstate # "IDLE" =>
    /\ rd # NoRead /\ ~line_valid /\ ~prog_pend /\ fill_tag = Tag(rd)
    /\ fstate = "REQ1" => \A k \in 0 .. BurstWords - 1 : line[k] = image[fill_tag * LineWords + k]

(* A posted program is what the image has, or an erase came behind it. *)
PostInv ==
  /\ prog_pend => ~polled
  /\ prog_pend /\ ~Walked(prog.word) => image[prog.word] = prog.data

(* The port carries the posted program or the walker's word. *)
WriteInv ==
  flash_wr_busy =>
    \/ wr_owner = "program" /\ prog_pend /\ flash_wr = prog
    \/ wr_owner = "walker" /\ wk_active /\ flash_wr = [word |-> wk_word, data |-> Ones]

(* The walker is in the region of a busy bank, erased as far as it has come; *)
(* no program is for that bank.                                              *)
WalkInv ==
  wk_active =>
    /\ er_busy[wk_bank] /\ wk_last = er_nlast(wk_bank)
    /\ er_nstart(wk_bank) <= wk_word /\ wk_word <= wk_last
    /\ prog_pend => BankOf(prog.word) # wk_bank
    /\ \A w \in Words : er_nstart(wk_bank) <= w /\ w < wk_word => sdram[w] = Ones

(* What is being erased is erased in the image. *)
ErasedInv == \A w \in Words : Walked(w) => image[w] = Ones

RealInv == \A w \in Words : ~Walked(w) /\ ~Posted(w) => sdram[w] = image[w]

FlashInv ==
  /\ TypeOK
  /\ ReadInv /\ FillInv /\ PostInv /\ WriteInv /\ WalkInv /\ ErasedInv /\ RealInv
  /\ LineIsTrue

(* The command machine stays in its states. *)
LEMMA NextStateType ==
  ASSUME NEW s \in {"READ", "UL1", "UL2", "AUTO", "PROG", "ER1", "ER2", "ERCMD"}, NEW t
  PROVE  NextState(s, t) \in {"READ", "UL1", "UL2", "AUTO", "PROG", "ER1", "ER2", "ERCMD"}
<1> DEFINE Targets == {u[3] : u \in Transitions}
<1>1. Targets \subseteq {"READ", "UL1", "UL2", "AUTO", "PROG", "ER1", "ER2", "ERCMD"}
  BY DEF Transitions
<1>2. CASE \E to \in Targets : <<s, t, to>> \in Transitions
  <2>1. NextState(s, t) = CHOOSE to \in Targets : <<s, t, to>> \in Transitions
    BY <1>2 DEF NextState
  <2>2. NextState(s, t) \in Targets
    <3> HIDE DEF Targets
    <3> QED BY <1>2, <2>1
  <2>3. QED
    BY <1>1, <2>2
<1>3. CASE ~\E to \in Targets : <<s, t, to>> \in Transitions
  BY <1>3 DEF NextState
<1>4. QED
  BY <1>2, <1>3

(* A region to walk is the first busy bank's. *)
LEMMA NextBank ==
  ASSUME TypeOK, \E b \in 0 .. Banks - 1 : er_busy[b]
  PROVE  er_nbank \in 0 .. Banks - 1 /\ er_busy[er_nbank]
<1> DEFINE T == {b \in 0 .. Banks - 1 : er_busy[b]}
<1>1. T # {} /\ T \subseteq Nat
  BY Sizes
<1>2. PICK b \in T : \A m \in T : b <= m
  BY <1>1, LeastExists
<1>3. b \in 0 .. Banks - 1 /\ er_busy[b] /\ \A c \in 0 .. b - 1 : ~er_busy[c]
  BY <1>2, Sizes
<1>4. QED
  BY <1>3 DEF er_nbank

LEMMA FlashTypeStep ==
  ASSUME FlashInv, [Next]_vars
  PROVE  TypeOK'
<1> USE DEF TypeOK
<1>0. TypeOK
  BY DEF FlashInv
<1>1. 0 \in 0 .. Banks - 1 /\ 0 \in Words /\ 0 \in {Tag(w) : w \in Words}
  <2>1. 0 \in 0 .. Banks - 1 /\ 0 \in Words
    BY Sizes DEF Words
  <2>2. Tag(0) = 0
    BY <2>1, PlaceOfWord, Sizes
  <2>3. QED
    BY <2>1, <2>2
<1>2. Ones \in Values /\ Blank \in Values /\ NoWrite \in [word : Words, data : Values]
      /\ NoLine \in [0 .. LineWords - 1 -> Values]
  BY <1>1 DEF Values, NoWrite, NoLine
<1>3. CASE \E b \in 0 .. Banks - 1 : CtlWrite(b)
  BY <1>0, <1>3 DEF CtlWrite, lineVars, erVars, wkVars, progVars, wrVars, game
<1>4. CASE \E t \in Tokens : Command(t)
  BY <1>0, <1>4, NextStateType DEF Command, lineVars, erVars, wkVars, progVars, wrVars, game
<1>5. ASSUME NEW chip \in BOOLEAN, NEW sector \in 0 .. Sectors - 1, EraseNow(chip, sector)
      PROVE  TypeOK'
  <2>1. image' \in [Words -> Values]
    BY <1>0, <1>2, <1>5 DEF EraseNow
  <2>2. /\ er_busy' \in [0 .. Banks - 1 -> BOOLEAN] /\ er_chip' \in [0 .. Banks - 1 -> BOOLEAN]
        /\ er_sector' \in [0 .. Banks - 1 -> 0 .. Sectors - 1]
    BY <1>0, <1>5 DEF EraseNow, erVars
  <2>3. /\ line' \in [0 .. LineWords - 1 -> Values] /\ line_tag' \in {Tag(w) : w \in Words}
        /\ line_valid' \in BOOLEAN
    BY <1>0, <1>1, <1>2, <1>5 DEF EraseNow, DropLine
  <2>4. QED
    BY <1>0, <1>5, <2>1, <2>2, <2>3 DEF EraseNow, wkVars, progVars, wrVars
<1>6. ASSUME NEW w \in GameWords, NEW d \in Data, ProgNow(w, d)
      PROVE  TypeOK'
  <2>1. w \in Words /\ d \in Values
    BY GameWordsAssumption DEF Values
  <2>2. image' \in [Words -> Values] /\ polled' \in BOOLEAN
    BY <1>0, <1>6, <2>1 DEF ProgNow
  <2>3. line' \in [0 .. LineWords - 1 -> Values]
    BY <1>0, <1>6, <2>1, LineOfWord DEF ProgNow, WriteThrough
  <2>4. prog_pend' \in BOOLEAN /\ prog' \in [word : Words, data : Values]
    <3>1. CASE TakesProgram
      <4>1. prog_pend' = TRUE /\ prog' = [word |-> w, data |-> d]
        BY <1>6, <3>1, Zenon DEF ProgNow
      <4>2. QED
        BY <2>1, <4>1
    <3>2. CASE ~TakesProgram
      <4>1. prog_pend' = prog_pend /\ prog' = prog
        BY <1>6, <3>2, Zenon DEF ProgNow, progVars
      <4>2. QED
        BY <1>0, <4>1
    <3>3. QED
      BY <3>1, <3>2
  <2>5. QED
    BY <1>0, <1>6, <2>2, <2>3, <2>4 DEF ProgNow, erVars, wkVars, wrVars
<1>7. CASE \E w \in GameWords : ArrayRead(w)
  BY <1>0, <1>7, GameWordsAssumption DEF ArrayRead, cmdVars, lineVars, erVars, wkVars, progVars, wrVars, game
<1>8. CASE ReadDone
  BY <1>0, <1>8 DEF ReadDone, cmdVars, lineVars, erVars, wkVars, progVars, wrVars
<1>9. CASE FillStart
  <2>1. Tag(rd) \in {Tag(w) : w \in Words}
    BY <1>0, <1>9 DEF FillStart, FillNeeded
  <2>2. QED
    BY <1>0, <1>1, <1>2, <1>9, <2>1
       DEF FillStart, DropLine, cmdVars, erVars, wkVars, progVars, wrVars, game
<1>10. CASE FillBurst
  <2>1. line' \in [0 .. LineWords - 1 -> Values]
    <3>1. PICK w \in Words : fill_tag = Tag(w)
      BY <1>0
    <3>2. \A k \in 0 .. LineWords - 1 : sdram[fill_tag * LineWords + k] \in Values /\ line[k] \in Values
      BY <1>0, <3>1, LineInBank
    <3>3. PICK first : line' = [k \in 0 .. LineWords - 1 |->
                IF k \in first .. first + BurstWords - 1 THEN sdram[fill_tag * LineWords + k] ELSE line[k]]
      BY <1>10 DEF FillBurst
    <3>4. QED
      BY <3>2, <3>3
  <2>2. /\ fstate' \in {"IDLE", "REQ0", "REQ1"} /\ {line_tag', fill_tag'} \subseteq {Tag(w) : w \in Words}
        /\ line_valid' \in BOOLEAN
    BY <1>0, <1>1, <1>10 DEF FillBurst
  <2>3. QED
    BY <1>0, <1>10, <2>1, <2>2 DEF FillBurst, cmdVars, erVars, wkVars, progVars, wrVars, game
<1>11. CASE IssueProgram
  BY <1>0, <1>11 DEF IssueProgram, Issue, cmdVars, lineVars, erVars, wkVars, progVars, game
<1>12. CASE IssueWalker
  BY <1>0, <1>2, <1>12 DEF IssueWalker, Issue, cmdVars, lineVars, erVars, wkVars, progVars, game
<1>13. CASE StartRegion
  <2>1. er_nbank \in 0 .. Banks - 1
    BY <1>0, <1>13, NextBank DEF StartRegion
  <2>2. er_nstart(er_nbank) \in Words /\ er_nlast(er_nbank) \in Words
    <3>1. er_sector[er_nbank] \in 0 .. Sectors - 1 /\ er_chip[er_nbank] \in BOOLEAN
      BY <1>0, <2>1
    <3>2. QED
      BY <2>1, <3>1, RegionIsSpan
  <2>3. QED
    BY <1>0, <1>13, <2>1, <2>2 DEF StartRegion, cmdVars, lineVars, erVars, progVars, wrVars, game
<1>14. CASE WriteAck
  <2>1. sdram' \in [Words -> Values]
    BY <1>0, <1>14 DEF WriteAck
  <2>2. /\ er_busy' \in [0 .. Banks - 1 -> BOOLEAN] /\ er_chip' \in [0 .. Banks - 1 -> BOOLEAN]
        /\ er_sector' \in [0 .. Banks - 1 -> 0 .. Sectors - 1]
    <3>1. CASE Release
      <4>1. 0 \in 0 .. Sectors - 1
        BY Sizes
      <4>2. QED
        BY <1>0, <3>1, <4>1 DEF Release
    <3>2. CASE UNCHANGED erVars
      BY <1>0, <3>2 DEF erVars
    <3>3. QED
      BY <1>14, <3>1, <3>2 DEF WriteAck
  <2>3. prog_pend' \in BOOLEAN /\ prog' \in [word : Words, data : Values]
    BY <1>0, <1>2, <1>14 DEF WriteAck, Committed, progVars
  <2>4. flash_wr_busy' \in BOOLEAN /\ flash_wr' \in [word : Words, data : Values]
        /\ wr_owner' \in {"program", "walker"}
    BY <1>2, <1>14 DEF WriteAck
  <2>5. wk_active' \in BOOLEAN /\ wk_bank' \in 0 .. Banks - 1 /\ {wk_word', wk_last'} \subseteq Words
    <3>1. CASE wr_owner = "walker" /\ ~WalkDone
      <4>1. wk_word < wk_last
        <5>1. wk_word \in Int /\ wk_last \in Int /\ wk_word # wk_last
          BY <1>0, <3>1 DEF WalkDone, Words
        <5>2. wk_word <= wk_last
          BY <1>0, <1>14, <3>1 DEF FlashInv, WriteInv, WalkInv, WriteAck
        <5>3. QED
          BY <5>1, <5>2
      <4>2. wk_word + 1 \in Words
        <5>1. PICK n \in Nat : Words = 0 .. n - 1
          BY Sizes DEF Words
        <5>2. wk_word \in 0 .. n - 1 /\ wk_last \in 0 .. n - 1
          BY <1>0, <5>1
        <5>3. QED
          BY <4>1, <5>1, <5>2
      <4>3. UNCHANGED <<wk_active, wk_bank, wk_last>> /\ wk_word' = wk_word + 1
        BY <1>14, <3>1 DEF WriteAck
      <4>4. QED
        BY <1>0, <4>2, <4>3
    <3>2. CASE ~(wr_owner = "walker" /\ ~WalkDone)
      BY <1>0, <1>1, <1>14, <3>2 DEF WriteAck, NoWalk, wkVars
    <3>3. QED
      BY <3>1, <3>2
  <2>6. QED
    BY <1>0, <1>14, <2>1, <2>2, <2>3, <2>4, <2>5 DEF WriteAck, cmdVars, lineVars, game
<1>15. CASE Reset
  <2>1. sdram' \in [Words -> Values] /\ image' \in [Words -> Values]
    BY <1>0, <1>15 DEF Reset
  <2>2. /\ er_busy' \in [0 .. Banks - 1 -> BOOLEAN] /\ er_chip' \in [0 .. Banks - 1 -> BOOLEAN]
        /\ er_sector' \in [0 .. Banks - 1 -> 0 .. Sectors - 1]
    BY <1>15, Sizes DEF Reset
  <2>3. /\ line' \in [0 .. LineWords - 1 -> Values] /\ {line_tag', fill_tag'} \subseteq {Tag(w) : w \in Words}
        /\ line_valid' \in BOOLEAN
    BY <1>1, <1>2, <1>15 DEF Reset, DropLine
  <2>4. /\ bank' \in 0 .. Banks - 1 /\ state' = "READ" /\ fstate' = "IDLE" /\ rd' = NoRead
        /\ wk_bank' \in 0 .. Banks - 1 /\ wk_word' \in Words /\ wk_last' \in Words /\ wk_active' = FALSE
        /\ prog_pend' = FALSE /\ prog' = NoWrite /\ flash_wr_busy' = FALSE /\ flash_wr' = NoWrite
        /\ wr_owner' = "program" /\ polled' = TRUE
    BY <1>1, <1>15 DEF Reset, NoWalk
  <2>5. QED
    BY <1>2, <2>1, <2>2, <2>3, <2>4
<1>16. CASE UNCHANGED vars
  BY <1>0, <1>16 DEF vars, cmdVars, lineVars, erVars, wkVars, progVars, wrVars, game
<1>17. CASE Cpu
  <2>1. TRUE \in BOOLEAN /\ FALSE \in BOOLEAN /\ 0 \in 0 .. Sectors - 1
    BY Sizes
  <2>2. CASE \E s \in 0 .. Sectors - 1 : EraseNow(FALSE, s)
    BY <1>5, <2>1, <2>2
  <2>3. CASE EraseNow(TRUE, 0)
    BY <1>5, <2>1, <2>3
  <2>4. CASE \E w \in GameWords, d \in Data : ProgNow(w, d)
    BY <1>6, <2>4
  <2>5. QED
    BY <1>3, <1>4, <1>7, <1>17, <2>2, <2>3, <2>4 DEF Cpu
<1>18. QED
  BY <1>8, <1>9, <1>10, <1>11, <1>12, <1>13, <1>14, <1>15, <1>16, <1>17 DEF Next, Port, Fill

-----------------------------------------------------------------------------
(* What an action of each kind leaves of the rest.                          *)
FlashRest ==
  ReadInv /\ FillInv /\ PostInv /\ WriteInv /\ WalkInv /\ ErasedInv /\ RealInv /\ LineIsTrue

(* A step that leaves the flash alone, whatever it does to its commands. *)
LEMMA QuietStep ==
  ASSUME FlashInv,
         UNCHANGED <<lineVars, erVars, wkVars, progVars, wrVars, rd, sdram, polled, image>>
  PROVE  FlashRest'
<1> USE DEF lineVars, erVars, wkVars, progVars, wrVars
<1>1. \A w : Walked(w)' <=> Walked(w)
  BY DEF Walked
<1>2. ReadInv' /\ FillInv' /\ WriteInv' /\ LineIsTrue'
  BY DEF FlashInv, ReadInv, FillInv, WriteInv, LineIsTrue
<1>3. PostInv' /\ ErasedInv' /\ RealInv'
  BY <1>1 DEF FlashInv, PostInv, ErasedInv, RealInv, Posted
<1>4. WalkInv'
  BY DEF FlashInv, WalkInv, er_nstart, er_nlast
<1>5. QED
  BY <1>2, <1>3, <1>4 DEF FlashRest

(* Only a busy bank's words are walked. *)
LEMMA WalkedIsBusy ==
  ASSUME NEW w \in Words, Walked(w)
  PROVE  BankOf(w) \in 0 .. Banks - 1 /\ er_busy[BankOf(w)]
BY DEF Walked, InRegion

(* The walker's words are the words of its bank's region. *)
LEMMA WalkerInRegion ==
  ASSUME FlashInv, wk_active
  PROVE  /\ wk_bank \in 0 .. Banks - 1 /\ er_busy[wk_bank]
         /\ wk_word \in Words /\ wk_last \in Words /\ wk_word <= wk_last
         /\ \A w \in Words : InRegion(w, wk_bank, er_chip[wk_bank], er_sector[wk_bank])
                               <=> er_nstart(wk_bank) <= w /\ w <= wk_last
         /\ \A w \in Words : er_nstart(wk_bank) <= w /\ w <= wk_last => BankOf(w) = wk_bank
<1>1. /\ wk_bank \in 0 .. Banks - 1 /\ wk_word \in Words /\ wk_last \in Words
      /\ er_sector[wk_bank] \in 0 .. Sectors - 1 /\ er_chip[wk_bank] \in BOOLEAN
  BY DEF FlashInv, TypeOK
<1>2. er_busy[wk_bank] /\ wk_last = er_nlast(wk_bank) /\ wk_word <= wk_last
  BY DEF FlashInv, WalkInv
<1>3. \A w \in Words : InRegion(w, wk_bank, er_chip[wk_bank], er_sector[wk_bank])
                         <=> er_nstart(wk_bank) <= w /\ w <= wk_last
  BY <1>1, <1>2, RegionIsSpan
<1>4. QED
  BY <1>1, <1>2, <1>3 DEF InRegion

LEMMA EraseStep ==
  ASSUME FlashInv, NEW chip \in BOOLEAN, NEW sector \in 0 .. Sectors - 1, EraseNow(chip, sector)
  PROVE  FlashRest'
<1>0. /\ TypeOK /\ rd = NoRead /\ fstate = "IDLE"
      /\ UNCHANGED <<fstate, fill_tag, wkVars, progVars, wrVars, rd, sdram, polled>>
  BY DEF FlashInv, FillInv, EraseNow, BusFree
<1>1. CASE er_busy[bank]
  BY <1>0, <1>1, QuietStep DEF EraseNow, erVars, lineVars
<1>2. CASE ~er_busy[bank]
  <2>1. /\ er_busy' = [er_busy EXCEPT ![bank] = TRUE]
        /\ er_chip' = [er_chip EXCEPT ![bank] = chip]
        /\ er_sector' = [er_sector EXCEPT ![bank] = sector]
        /\ line_valid' = FALSE
        /\ image' = [w \in Words |-> IF InRegion(w, bank, chip, sector) THEN Ones ELSE image[w]]
    BY <1>2 DEF EraseNow, DropLine
  <2>2. bank \in 0 .. Banks - 1
    BY <1>0 DEF TypeOK
  <2>3. \A b \in 0 .. Banks - 1 :
           /\ b = bank => er_busy'[b] /\ er_chip'[b] = chip /\ er_sector'[b] = sector
           /\ b # bank => er_busy'[b] = er_busy[b] /\ er_chip'[b] = er_chip[b] /\ er_sector'[b] = er_sector[b]
    BY <1>0, <2>1 DEF TypeOK
  <2>4. \A w \in Words : Walked(w)' <=> Walked(w) \/ InRegion(w, bank, chip, sector)
    <3> TAKE w \in Words
    <3>1. Walked(w)' <=> \E b \in 0 .. Banks - 1 : er_busy'[b] /\ InRegion(w, b, er_chip'[b], er_sector'[b])
      BY DEF Walked, InRegion
    <3>2. QED
      BY <1>2, <2>2, <2>3, <3>1 DEF Walked
  <2>5. ReadInv' /\ FillInv' /\ LineIsTrue'
    BY <1>0, <2>1 DEF ReadInv, FillInv, LineIsTrue
  <2>6. WriteInv'
    BY <1>0 DEF FlashInv, WriteInv, wkVars, progVars, wrVars
  <2>7. PostInv'
    <3>1. prog.word \in Words
      BY <1>0 DEF TypeOK
    <3>2. prog' = prog /\ prog_pend' = prog_pend /\ polled' = polled
      BY <1>0 DEF progVars
    <3>3. Walked(prog.word)' <=> Walked(prog.word) \/ InRegion(prog.word, bank, chip, sector)
      <4>1. \A x \in Words : x = prog'.word => (Walked(prog.word)' <=> Walked(x)')
        BY DEF Walked, InRegion
      <4>2. QED
        BY <2>4, <3>1, <3>2, <4>1
    <3>4. ASSUME ~Walked(prog.word)' PROVE image'[prog.word] = image[prog.word]
      BY <2>1, <3>1, <3>3, <3>4
    <3>5. QED
      BY <3>2, <3>3, <3>4 DEF FlashInv, PostInv
  <2>8. ErasedInv'
    BY <2>1, <2>4 DEF FlashInv, ErasedInv
  <2>9. RealInv'
    <3>1. \A w : Posted(w)' <=> Posted(w)
      BY <1>0 DEF Posted, progVars
    <3>2. QED
      BY <1>0, <2>1, <2>4, <3>1 DEF FlashInv, RealInv
  <2>10. WalkInv'
    <3>1. UNCHANGED <<wk_active, wk_bank, wk_word, wk_last, prog_pend, prog, sdram>>
      BY <1>0 DEF wkVars, progVars
    <3>2. CASE wk_active
      <4>1. wk_bank \in 0 .. Banks - 1 /\ wk_bank # bank
        BY <1>2, <3>2, WalkerInRegion
      <4>2. er_busy'[wk_bank] = er_busy[wk_bank] /\ er_chip'[wk_bank] = er_chip[wk_bank]
            /\ er_sector'[wk_bank] = er_sector[wk_bank]
        BY <2>3, <4>1
      <4>3. er_nstart(wk_bank)' = er_nstart(wk_bank) /\ er_nlast(wk_bank)' = er_nlast(wk_bank)
        BY <3>1, <4>2 DEF er_nstart, er_nlast
      <4>4. QED
        BY <3>1, <3>2, <4>2, <4>3 DEF FlashInv, WalkInv
    <3>3. CASE ~wk_active
      BY <3>1, <3>3 DEF WalkInv
    <3>4. QED
      BY <3>2, <3>3
  <2>11. QED
    BY <2>5, <2>6, <2>7, <2>8, <2>9, <2>10 DEF FlashRest
<1>3. QED
  BY <1>1, <1>2

LEMMA ProgramStep ==
  ASSUME FlashInv, NEW w \in GameWords, NEW d \in Data, ProgNow(w, d)
  PROVE  FlashRest'
<1>0. /\ TypeOK /\ rd = NoRead /\ fstate = "IDLE" /\ ~prog_pend /\ BankOf(w) = bank
      /\ polled /\ polled' = er_busy[bank]
      /\ UNCHANGED <<line_tag, line_valid, fstate, fill_tag, erVars, wkVars, wrVars, rd, sdram>>
  BY DEF FlashInv, FillInv, PostInv, ProgNow, BusFree
<1>1. w \in Words /\ d \in Values
  BY GameWordsAssumption DEF Values
<1>2. CASE er_busy[bank]
  <2>1. polled' = polled /\ image' = image /\ UNCHANGED <<progVars, line>>
    BY <1>0, <1>2, Zenon DEF ProgNow, TakesProgram
  <2>2. QED
    BY <1>0, <2>1, QuietStep DEF lineVars
<1>3. CASE ~er_busy[bank]
  <2>1. /\ prog_pend' = TRUE /\ prog' = [word |-> w, data |-> d] /\ WriteThrough(w, d)
        /\ image' = [image EXCEPT ![w] = d] /\ polled' = FALSE
    <3>1. /\ prog_pend' = TRUE /\ prog' = [word |-> w, data |-> d] /\ WriteThrough(w, d)
          /\ image' = [image EXCEPT ![w] = d]
      BY <1>3, Zenon DEF ProgNow, TakesProgram
    <3>2. er_busy[bank] \in BOOLEAN
      BY <1>0 DEF TypeOK
    <3>3. QED
      BY <1>0, <1>3, <3>1, <3>2
  <2>2. image'[w] = d /\ \A x \in Words : x # w => image'[x] = image[x]
    BY <1>0, <1>1, <2>1 DEF TypeOK
  <2>3. ~Walked(w)
    BY <1>0, <1>1, <1>3, WalkedIsBusy
  <2>4. \A x : Walked(x)' <=> Walked(x)
    BY <1>0 DEF Walked, erVars
  <2>5. ReadInv' /\ FillInv'
    BY <1>0 DEF ReadInv, FillInv
  <2>6. WriteInv'
    BY <1>0 DEF FlashInv, WriteInv, wkVars, wrVars
  <2>7. PostInv'
    BY <2>1, <2>2 DEF PostInv
  <2>8. ErasedInv'
    BY <2>2, <2>3, <2>4 DEF FlashInv, ErasedInv
  <2>9. RealInv'
    BY <1>0, <2>1, <2>2, <2>4 DEF FlashInv, RealInv, Posted
  <2>10. WalkInv'
    <3>1. UNCHANGED <<wk_active, wk_bank, wk_word, wk_last, er_busy, er_chip, er_sector, sdram>>
      BY <1>0 DEF wkVars, erVars
    <3>2. er_nstart(wk_bank)' = er_nstart(wk_bank) /\ er_nlast(wk_bank)' = er_nlast(wk_bank)
      BY <3>1 DEF er_nstart, er_nlast
    <3>3. wk_active => BankOf(prog'.word) # wk_bank
      BY <1>0, <1>3, <2>1 DEF FlashInv, WalkInv
    <3>4. BankOf(prog.word)' = BankOf(prog'.word)
      BY DEF BankOf
    <3>5. QED
      BY <3>1, <3>2, <3>3, <3>4 DEF FlashInv, WalkInv
  <2>11. LineIsTrue'
    <3>1. SUFFICES ASSUME line_valid, NEW k \in 0 .. LineWords - 1
                   PROVE  line'[k] = image'[line_tag * LineWords + k]
      BY <1>0 DEF LineIsTrue
    <3>2. line[k] = image[line_tag * LineWords + k]
      BY <3>1 DEF FlashInv, LineIsTrue
    <3>3. line_tag \in Nat /\ line_tag * LineWords + k \in Words
      <4>1. PICK v \in Words : line_tag = Tag(v)
        BY <1>0 DEF TypeOK
      <4>2. QED
        BY <4>1, LineInBank, LineOfWord
    <3>4. line_tag * LineWords + k = w <=> Tag(w) = line_tag /\ Idx(w) = k
      BY <1>1, <3>3, PlaceOfWord
    <3>5. CASE line_tag = Tag(w)
      <4>1. line' = [line EXCEPT ![Idx(w)] = d]
        BY <2>1, <3>1, <3>5 DEF WriteThrough, tag_hit
      <4>2. line \in [0 .. LineWords - 1 -> Values]
        BY <1>0 DEF TypeOK
      <4>3. line'[k] = IF Idx(w) = k THEN d ELSE line[k]
        BY <4>1, <4>2
      <4>4. QED
        BY <2>2, <3>2, <3>3, <3>4, <3>5, <4>3
    <3>6. CASE line_tag # Tag(w)
      <4>1. line' = line
        BY <2>1, <3>6 DEF WriteThrough, tag_hit
      <4>2. QED
        BY <2>2, <3>2, <3>3, <3>4, <3>6, <4>1
    <3>7. QED
      BY <3>5, <3>6
  <2>12. QED
    BY <2>5, <2>6, <2>7, <2>8, <2>9, <2>10, <2>11 DEF FlashRest
<1>4. QED
  BY <1>2, <1>3

LEMMA ReadStep ==
  ASSUME FlashInv,
         (\E w \in GameWords : ArrayRead(w)) \/ ReadDone
  PROVE  FlashRest'
<1>1. /\ fstate = "IDLE" /\ er_busy' = er_busy /\ polled \in BOOLEAN
      /\ UNCHANGED <<lineVars, erVars, wkVars, progVars, wrVars, sdram, image>>
  <2>1. UNCHANGED <<lineVars, erVars, wkVars, progVars, wrVars, sdram, image>>
    BY DEF ArrayRead, ReadDone
  <2>2. fstate = "IDLE"
    BY DEF FlashInv, FillInv, ArrayRead, BusFree, ReadDone, array_ready, tag_hit
  <2>3. polled \in BOOLEAN
    BY DEF FlashInv, TypeOK
  <2>4. QED
    BY <2>1, <2>2, <2>3 DEF erVars
<1>2. ReadInv'
  <2>1. CASE \E w \in GameWords : ArrayRead(w)
    <3>1. PICK w \in GameWords : ArrayRead(w)
      BY <2>1
    <3>2. rd' = w /\ ~er_busy[BankOf(w)]
      BY <3>1 DEF ArrayRead
    <3>3. BankOf(rd)' = BankOf(w)
      BY <3>2 DEF BankOf
    <3>4. QED
      BY <1>1, <3>2, <3>3 DEF ReadInv
  <2>2. CASE ReadDone
    BY <2>2 DEF ReadDone, ReadInv
  <2>3. QED
    BY <2>1, <2>2
<1>3. FillInv' /\ LineIsTrue'
  BY <1>1 DEF FlashInv, FillInv, LineIsTrue, lineVars
<1>4. PostInv'
  <2>1. prog_pend => polled' = polled
    BY DEF ArrayRead, ReadDone, array_ready, game
  <2>2. \A w : Walked(w)' <=> Walked(w)
    BY <1>1 DEF Walked, erVars
  <2>3. QED
    BY <1>1, <2>1, <2>2 DEF FlashInv, PostInv, progVars
<1>5. WriteInv'
  BY <1>1 DEF FlashInv, WriteInv, progVars, wkVars, wrVars
<1>6. WalkInv'
  BY <1>1 DEF FlashInv, WalkInv, er_nstart, er_nlast, progVars, wkVars, erVars
<1>7. ErasedInv' /\ RealInv'
  BY <1>1 DEF FlashInv, ErasedInv, RealInv, Walked, Posted, progVars, erVars
<1>8. QED
  BY <1>2, <1>3, <1>4, <1>5, <1>6, <1>7 DEF FlashRest

(* A fill reads what the commands say: its bank is not busy and no program  *)
(* is posted.                                                              *)
LEMMA FillStep ==
  ASSUME FlashInv, Fill
  PROVE  FlashRest'
<1>1. /\ TypeOK
      /\ UNCHANGED <<erVars, wkVars, progVars, wrVars, rd, sdram, polled, image>>
  BY DEF FlashInv, Fill, FillStart, FillBurst, game
<1>2. ReadInv'
  BY <1>1 DEF FlashInv, ReadInv, erVars
<1>3. PostInv' /\ ErasedInv' /\ RealInv'
  BY <1>1 DEF FlashInv, PostInv, ErasedInv, RealInv, Walked, Posted, progVars, erVars
<1>4. WriteInv'
  BY <1>1 DEF FlashInv, WriteInv, progVars, wkVars, wrVars
<1>5. WalkInv'
  BY <1>1 DEF FlashInv, WalkInv, er_nstart, er_nlast, progVars, wkVars, erVars
<1>6. FillInv' /\ LineIsTrue'
  <2>1. CASE FillStart
    <3>1. /\ fstate' = "REQ0" /\ rd # NoRead /\ ~prog_pend /\ fill_tag' = Tag(rd)
          /\ line_valid' = FALSE
      BY <2>1 DEF FillStart, FillNeeded, DropLine
    <3>2. Tag(rd)' = Tag(rd) /\ rd' = rd /\ prog_pend' = prog_pend
      BY <1>1 DEF Tag, progVars
    <3>3. NoRead' = NoRead
      BY DEF NoRead, BankWords, SectorWords, LineWords
    <3>4. QED
      BY <3>1, <3>2, <3>3 DEF FillInv, LineIsTrue
  <2>2. CASE FillBurst
    <3>1. /\ fstate \in {"REQ0", "REQ1"} /\ rd # NoRead /\ ~line_valid /\ ~prog_pend
          /\ fill_tag = Tag(rd) /\ rd \in Words
      BY <1>1, <2>2 DEF FillBurst, FlashInv, FillInv, TypeOK
    <3>2. ASSUME NEW k \in 0 .. LineWords - 1
          PROVE  sdram[fill_tag * LineWords + k] = image[fill_tag * LineWords + k]
      <4>1. fill_tag * LineWords + k \in Words /\ BankOf(fill_tag * LineWords + k) = BankOf(rd)
        BY <3>1, LineInBank
      <4>2. ~er_busy[BankOf(rd)]
        BY <3>1 DEF FlashInv, ReadInv
      <4>3. ~Walked(fill_tag * LineWords + k)
        BY <4>1, <4>2, WalkedIsBusy
      <4>4. QED
        BY <3>1, <4>1, <4>3 DEF FlashInv, RealInv, Posted
    <3>3. BurstWords \in Nat \ {0} /\ LineWords = 2 * BurstWords
      BY Sizes DEF LineWords
    <3>4. image' = image /\ rd' = rd /\ prog_pend' = prog_pend /\ Tag(rd)' = Tag(rd)
      BY <1>1 DEF progVars, Tag
    <3>5. CASE fstate = "REQ0"
      <4>1. \A k \in 0 .. BurstWords - 1 : line'[k] = sdram[fill_tag * LineWords + k]
        BY <2>2, <3>3, <3>5 DEF FillBurst
      <4>2. fstate' = "REQ1" /\ line_valid' = line_valid /\ fill_tag' = fill_tag
        BY <2>2, <3>5 DEF FillBurst
      <4>3. \A k \in 0 .. BurstWords - 1 : line'[k] = image'[fill_tag' * LineWords + k]
        BY <3>2, <3>3, <3>4, <4>1, <4>2
      <4>4. QED
        BY <3>1, <3>4, <4>2, <4>3 DEF FillInv, LineIsTrue
    <3>6. CASE fstate = "REQ1"
      <4>1. \A k \in 0 .. LineWords - 1 :
               line'[k] = IF k \in BurstWords .. BurstWords + BurstWords - 1
                          THEN sdram[fill_tag * LineWords + k] ELSE line[k]
        BY <2>2, <3>6 DEF FillBurst
      <4>2. fstate' = "IDLE" /\ line_tag' = fill_tag
        BY <2>2, <3>6 DEF FillBurst
      <4>3. \A k \in 0 .. BurstWords - 1 : line[k] = image[fill_tag * LineWords + k]
        BY <3>6 DEF FlashInv, FillInv
      <4>4. ASSUME NEW k \in 0 .. LineWords - 1
            PROVE  line'[k] = image[fill_tag * LineWords + k]
        <5>1. CASE k \in 0 .. BurstWords - 1
          <6>1. k \notin BurstWords .. BurstWords + BurstWords - 1
            BY <3>3, <5>1
          <6>2. QED
            BY <4>1, <4>3, <5>1, <6>1
        <5>2. CASE k \notin 0 .. BurstWords - 1
          <6>1. k \in BurstWords .. BurstWords + BurstWords - 1
            BY <3>3, <5>2
          <6>2. QED
            BY <3>2, <4>1, <6>1
        <5>3. QED
          BY <5>1, <5>2
      <4>5. QED
        BY <3>4, <4>2, <4>4 DEF FillInv, LineIsTrue
    <3>7. QED
      BY <3>1, <3>5, <3>6
  <2>3. QED
    BY <2>1, <2>2 DEF Fill
<1>7. QED
  BY <1>2, <1>3, <1>4, <1>5, <1>6 DEF FlashRest

LEMMA IssueStep ==
  ASSUME FlashInv, IssueProgram \/ IssueWalker
  PROVE  FlashRest'
<1>1. /\ TypeOK
      /\ UNCHANGED <<lineVars, erVars, wkVars, progVars, rd, sdram, polled, image>>
  BY DEF FlashInv, IssueProgram, IssueWalker, game
<1>2. ReadInv' /\ FillInv' /\ LineIsTrue'
  BY <1>1 DEF FlashInv, ReadInv, FillInv, LineIsTrue, erVars, progVars, lineVars
<1>3. PostInv' /\ ErasedInv' /\ RealInv'
  BY <1>1 DEF FlashInv, PostInv, ErasedInv, RealInv, Walked, Posted, progVars, erVars
<1>4. WalkInv'
  BY <1>1 DEF FlashInv, WalkInv, er_nstart, er_nlast, progVars, wkVars, erVars
<1>5. WriteInv'
  <2>1. CASE IssueProgram
    <3>1. flash_wr' = [word |-> prog.word, data |-> prog.data] /\ wr_owner' = "program" /\ prog_pend
      BY <2>1 DEF IssueProgram, Issue
    <3>2. prog \in [word : Words, data : Values]
      BY <1>1 DEF TypeOK
    <3>3. prog = [word |-> prog.word, data |-> prog.data]
      BY <3>2
    <3>4. QED
      BY <1>1, <3>1, <3>3 DEF WriteInv, progVars
  <2>2. CASE IssueWalker
    BY <1>1, <2>2 DEF WriteInv, IssueWalker, Issue, wkVars
  <2>3. QED
    BY <2>1, <2>2
<1>6. QED
  BY <1>2, <1>3, <1>4, <1>5 DEF FlashRest

(* A region is begun only while no program is posted. *)
LEMMA RegionStep ==
  ASSUME FlashInv, StartRegion
  PROVE  FlashRest'
<1>1. /\ TypeOK /\ ~prog_pend /\ ~wk_active /\ ~flash_wr_busy
      /\ UNCHANGED <<lineVars, erVars, progVars, wrVars, rd, sdram, polled, image>>
  BY DEF FlashInv, StartRegion, game
<1>2. ReadInv' /\ FillInv' /\ LineIsTrue'
  BY <1>1 DEF FlashInv, ReadInv, FillInv, LineIsTrue, erVars, progVars, lineVars
<1>3. PostInv' /\ ErasedInv' /\ RealInv'
  BY <1>1 DEF FlashInv, PostInv, ErasedInv, RealInv, Walked, Posted, progVars, erVars
<1>4. WriteInv'
  BY <1>1 DEF WriteInv, wrVars
<1>5. WalkInv'
  <2>1. er_nbank \in 0 .. Banks - 1 /\ er_busy[er_nbank]
    BY <1>1, NextBank DEF StartRegion
  <2>2. PICK b \in 0 .. Banks - 1 : b = er_nbank
    BY <2>1
  <2>3. wk_bank' = b /\ wk_word' = er_nstart(b) /\ wk_last' = er_nlast(b)
    BY <2>2 DEF StartRegion
  <2>4. er_nstart(b) \in Words /\ er_nlast(b) \in Words /\ er_nstart(b) <= er_nlast(b)
    <3>1. er_sector[b] \in 0 .. Sectors - 1 /\ er_chip[b] \in BOOLEAN
      BY <1>1 DEF TypeOK
    <3>2. QED
      BY <3>1, RegionIsSpan
  <2>5. er_nstart(wk_bank)' = er_nstart(b) /\ er_nlast(wk_bank)' = er_nlast(b)
    BY <1>1, <2>3 DEF er_nstart, er_nlast, erVars
  <2>6. \A w \in Words : ~(er_nstart(b) <= w /\ w < er_nstart(b))
    BY <2>4 DEF Words
  <2>7. er_busy'[wk_bank'] /\ ~prog_pend'
    BY <1>1, <2>1, <2>2, <2>3 DEF erVars, progVars
  <2>8. wk_last' = er_nlast(wk_bank)' /\ er_nstart(wk_bank)' <= wk_word' /\ wk_word' <= wk_last'
    BY <2>3, <2>4, <2>5 DEF Words
  <2>9. \A w \in Words : ~(er_nstart(wk_bank)' <= w /\ w < wk_word')
    BY <2>3, <2>5, <2>6
  <2>10. QED
    BY <2>7, <2>8, <2>9 DEF WalkInv
<1>6. QED
  BY <1>2, <1>3, <1>4, <1>5 DEF FlashRest

(* The posted word lands: no region being walked holds it. *)
LEMMA ProgramAckStep ==
  ASSUME FlashInv, WriteAck, wr_owner = "program"
  PROVE  FlashRest'
<1>1. /\ TypeOK /\ prog_pend /\ flash_wr = prog /\ prog.word \in Words
      /\ flash_wr_busy' = FALSE /\ prog_pend' = FALSE /\ prog' = NoWrite
      /\ sdram' = [sdram EXCEPT ![prog.word] = prog.data]
      /\ UNCHANGED <<lineVars, erVars, wkVars, rd, polled, image>>
  <2>1. TypeOK /\ prog_pend /\ flash_wr = prog
    BY DEF FlashInv, WriteInv, WriteAck
  <2>2. prog.word \in Words
    BY <2>1 DEF TypeOK
  <2>3. QED
    BY <2>1, <2>2 DEF WriteAck, Committed, game
<1>2. \A w \in Words : sdram'[w] = IF w = prog.word THEN prog.data ELSE sdram[w]
  BY <1>1 DEF TypeOK
<1>3. \A w : Walked(w)' <=> Walked(w)
  BY <1>1 DEF Walked, erVars
<1>4. ReadInv' /\ FillInv' /\ LineIsTrue' /\ PostInv' /\ WriteInv'
  <2>1. ReadInv' /\ LineIsTrue' /\ PostInv' /\ WriteInv'
    BY <1>1 DEF FlashInv, ReadInv, LineIsTrue, PostInv, WriteInv, erVars, lineVars
  <2>2. FillInv'
    BY <1>1 DEF FlashInv, FillInv, lineVars
  <2>3. QED
    BY <2>1, <2>2
<1>5. ErasedInv'
  BY <1>1, <1>3 DEF FlashInv, ErasedInv
<1>6. RealInv'
  BY <1>1, <1>2, <1>3 DEF FlashInv, RealInv, PostInv, Posted
<1>7. WalkInv'
  <2>1. UNCHANGED <<wk_active, wk_bank, wk_word, wk_last, er_busy, er_sector, er_chip>>
    BY <1>1 DEF wkVars, erVars
  <2>2. er_nstart(wk_bank)' = er_nstart(wk_bank) /\ er_nlast(wk_bank)' = er_nlast(wk_bank)
    BY <2>1 DEF er_nstart, er_nlast
  <2>3. ASSUME wk_active, NEW w \in Words, er_nstart(wk_bank) <= w, w < wk_word
        PROVE  sdram'[w] = Ones
    <3>1. w <= wk_last
      BY <2>3, WalkerInRegion DEF Words
    <3>2. BankOf(w) = wk_bank
      BY <2>3, <3>1, WalkerInRegion
    <3>3. w # prog.word
      BY <1>1, <2>3, <3>2 DEF FlashInv, WalkInv
    <3>4. QED
      BY <1>2, <2>3, <3>3 DEF FlashInv, WalkInv
  <2>4. QED
    BY <1>1, <2>1, <2>2, <2>3 DEF FlashInv, WalkInv
<1>8. QED
  BY <1>4, <1>5, <1>6, <1>7 DEF FlashRest

(* What any word of the walker leaves of the rest. *)
LEMMA WalkerAck ==
  ASSUME FlashInv, WriteAck, wr_owner = "walker"
  PROVE  /\ TypeOK /\ wk_active /\ flash_wr_busy' = FALSE
         /\ UNCHANGED <<lineVars, progVars, rd, polled, image>>
         /\ \A w \in Words : sdram'[w] = IF w = wk_word THEN Ones ELSE sdram[w]
<1>1. TypeOK /\ wk_active /\ flash_wr = [word |-> wk_word, data |-> Ones] /\ wk_word \in Words
  BY DEF FlashInv, WriteInv, WriteAck, TypeOK
<1>2. sdram' = [sdram EXCEPT ![wk_word] = Ones]
  BY <1>1 DEF WriteAck
<1>3. \A w \in Words : sdram'[w] = IF w = wk_word THEN Ones ELSE sdram[w]
  BY <1>1, <1>2 DEF TypeOK
<1>4. QED
  BY <1>1, <1>3 DEF WriteAck, game

LEMMA WalkOnStep ==
  ASSUME FlashInv, WriteAck, wr_owner = "walker", ~WalkDone
  PROVE  FlashRest'
<1>1. /\ TypeOK /\ wk_active /\ flash_wr_busy' = FALSE
      /\ wk_word' = wk_word + 1 /\ wk_word < wk_last
      /\ UNCHANGED <<lineVars, erVars, progVars, rd, polled, image, wk_active, wk_bank, wk_last>>
  <2>1. TypeOK /\ wk_active /\ flash_wr_busy' = FALSE /\ wk_word' = wk_word + 1
        /\ UNCHANGED <<lineVars, erVars, progVars, rd, polled, image, wk_active, wk_bank, wk_last>>
    BY WalkerAck DEF WriteAck
  <2>2. wk_word < wk_last
    BY <2>1, WalkerInRegion DEF WalkDone, Words
  <2>3. QED
    BY <2>1, <2>2
<1>2. \A w \in Words : sdram'[w] = IF w = wk_word THEN Ones ELSE sdram[w]
  BY WalkerAck
<1>3. \A w : Walked(w)' <=> Walked(w)
  BY <1>1 DEF Walked, erVars
<1>4. ReadInv' /\ FillInv' /\ LineIsTrue' /\ WriteInv'
  BY <1>1 DEF FlashInv, ReadInv, FillInv, LineIsTrue, WriteInv, erVars, lineVars, progVars
<1>5. PostInv' /\ ErasedInv'
  BY <1>1, <1>3 DEF FlashInv, PostInv, ErasedInv, progVars
<1>6. RealInv'
  <2>1. Walked(wk_word)
    <3>1. /\ wk_bank \in 0 .. Banks - 1 /\ er_busy[wk_bank]
          /\ InRegion(wk_word, wk_bank, er_chip[wk_bank], er_sector[wk_bank])
      BY <1>1, WalkerInRegion DEF FlashInv, WalkInv
    <3>2. QED
      BY <3>1 DEF Walked
  <2>2. QED
    BY <1>1, <1>2, <1>3, <2>1 DEF FlashInv, RealInv, Posted, progVars
<1>7. WalkInv'
  <2>1. er_nstart(wk_bank)' = er_nstart(wk_bank) /\ er_nlast(wk_bank)' = er_nlast(wk_bank)
    BY <1>1 DEF er_nstart, er_nlast, erVars
  <2>2. wk_word \in Nat /\ wk_last \in Nat /\ er_nstart(wk_bank) \in Nat
    <3>1. wk_word \in Nat /\ wk_last \in Nat
      BY <1>1, WalkerInRegion DEF Words
    <3>2. er_sector[wk_bank] \in 0 .. Sectors - 1 /\ er_chip[wk_bank] \in BOOLEAN /\ wk_bank \in 0 .. Banks - 1
      BY <1>1 DEF TypeOK
    <3>3. er_nstart(wk_bank) \in Words
      BY <3>2, RegionIsSpan
    <3>4. QED
      BY <3>1, <3>3 DEF Words
  <2>3. /\ er_busy[wk_bank] /\ wk_last = er_nlast(wk_bank) /\ er_nstart(wk_bank) <= wk_word
        /\ prog_pend => BankOf(prog.word) # wk_bank
        /\ \A w \in Words : er_nstart(wk_bank) <= w /\ w < wk_word => sdram[w] = Ones
    BY <1>1 DEF FlashInv, WalkInv
  <2>4. er_nstart(wk_bank)' <= wk_word' /\ wk_word' <= wk_last'
    BY <1>1, <2>1, <2>2, <2>3
  <2>5. ASSUME NEW w \in Words, er_nstart(wk_bank) <= w, w < wk_word'
        PROVE  sdram'[w] = Ones
    <3>1. w \in Nat
      BY DEF Words
    <3>2. w = wk_word \/ w < wk_word
      BY <1>1, <2>2, <2>5, <3>1
    <3>3. QED
      BY <1>2, <2>3, <2>5, <3>2
  <2>6. /\ er_busy'[wk_bank'] /\ wk_last' = er_nlast(wk_bank)'
        /\ prog_pend' => BankOf(prog.word)' # wk_bank'
    BY <1>1, <2>1, <2>3 DEF erVars, progVars, BankOf
  <2>7. QED
    BY <2>1, <2>4, <2>5, <2>6 DEF WalkInv
<1>8. QED
  BY <1>4, <1>5, <1>6, <1>7 DEF FlashRest

(* The last word of a region: the bank reports done, and is. *)
LEMMA WalkEndsStep ==
  ASSUME FlashInv, WriteAck, wr_owner = "walker", WalkDone
  PROVE  FlashRest'
<1>1. /\ TypeOK /\ wk_active /\ flash_wr_busy' = FALSE /\ wk_active' = FALSE
      /\ er_busy' = [er_busy EXCEPT ![wk_bank] = FALSE]
      /\ er_sector' = [er_sector EXCEPT ![wk_bank] = 0]
      /\ er_chip' = [er_chip EXCEPT ![wk_bank] = FALSE]
      /\ UNCHANGED <<lineVars, progVars, rd, polled, image>>
  BY WalkerAck DEF WriteAck, Release, NoWalk
<1>2. \A w \in Words : sdram'[w] = IF w = wk_word THEN Ones ELSE sdram[w]
  BY WalkerAck
<1>3. \A b \in 0 .. Banks - 1 :
         /\ b = wk_bank => ~er_busy'[b]
         /\ b # wk_bank => er_busy'[b] = er_busy[b] /\ er_chip'[b] = er_chip[b] /\ er_sector'[b] = er_sector[b]
  BY <1>1 DEF TypeOK
<1>4. ASSUME NEW w \in Words
      PROVE  /\ Walked(w)' => Walked(w)
             /\ Walked(w) => Walked(w)' \/ InRegion(w, wk_bank, er_chip[wk_bank], er_sector[wk_bank])
  <2>1. Walked(w)' <=> \E b \in 0 .. Banks - 1 : er_busy'[b] /\ InRegion(w, b, er_chip'[b], er_sector'[b])
    BY DEF Walked, InRegion
  <2>2. QED
    BY <1>3, <2>1 DEF Walked
<1>5. ReadInv' /\ FillInv' /\ LineIsTrue' /\ WriteInv' /\ WalkInv'
  <2>1. FillInv' /\ LineIsTrue' /\ WriteInv' /\ WalkInv'
    BY <1>1 DEF FlashInv, FillInv, LineIsTrue, WriteInv, WalkInv, lineVars, progVars
  <2>2. ReadInv'
    <3>1. rd # NoRead => BankOf(rd) \in 0 .. Banks - 1
      <4>1. rd \in Words => rd \in Nat
        BY DEF Words
      <4>2. QED
        BY <1>1, <4>1, BankOfWord DEF TypeOK
    <3>2. rd' = rd /\ BankOf(rd)' = BankOf(rd)
      BY <1>1 DEF BankOf
    <3>3. QED
      BY <1>3, <3>1, <3>2 DEF FlashInv, ReadInv
  <2>3. QED
    BY <2>1, <2>2
<1>6. ErasedInv'
  BY <1>1, <1>4 DEF FlashInv, ErasedInv
<1>7. ASSUME NEW w \in Words, InRegion(w, wk_bank, er_chip[wk_bank], er_sector[wk_bank])
      PROVE  sdram'[w] = Ones /\ image[w] = Ones /\ BankOf(w) = wk_bank
  <2>1. /\ wk_bank \in 0 .. Banks - 1 /\ er_busy[wk_bank] /\ wk_word = wk_last
        /\ er_nstart(wk_bank) <= w /\ w <= wk_last /\ wk_word \in Words /\ BankOf(w) = wk_bank
    BY <1>1, <1>7, WalkerInRegion DEF WalkDone
  <2>2. w = wk_word \/ w < wk_word
    BY <2>1 DEF Words
  <2>3. sdram'[w] = Ones
    BY <1>1, <1>2, <2>1, <2>2 DEF FlashInv, WalkInv
  <2>4. Walked(w)
    BY <1>7, <2>1 DEF Walked
  <2>5. QED
    BY <2>1, <2>3, <2>4 DEF FlashInv, ErasedInv
<1>8. RealInv'
  <2>1. SUFFICES ASSUME NEW w \in Words, ~Walked(w)', ~Posted(w)'
                 PROVE  sdram'[w] = image[w]
    BY <1>1 DEF RealInv
  <2>2. ~Posted(w)
    BY <1>1, <2>1 DEF Posted, progVars
  <2>3. CASE Walked(w)
    BY <1>4, <1>7, <2>1, <2>3
  <2>4. CASE ~Walked(w)
    <3>1. sdram[w] = image[w]
      BY <2>2, <2>4 DEF FlashInv, RealInv
    <3>2. w # wk_word
      <4>1. /\ wk_bank \in 0 .. Banks - 1 /\ er_busy[wk_bank]
            /\ InRegion(wk_word, wk_bank, er_chip[wk_bank], er_sector[wk_bank])
        BY <1>1, WalkerInRegion DEF FlashInv, WalkInv
      <4>2. QED
        BY <2>4, <4>1 DEF Walked
    <3>3. QED
      BY <1>2, <3>1, <3>2
  <2>5. QED
    BY <2>3, <2>4
<1>9. PostInv'
  <2>1. prog.word \in Words /\ prog_pend' = prog_pend /\ prog' = prog /\ polled' = polled /\ image' = image
    BY <1>1 DEF TypeOK, progVars
  <2>2. prog_pend => BankOf(prog.word) # wk_bank
    BY <1>1 DEF FlashInv, WalkInv
  <2>3. prog_pend => ~InRegion(prog.word, wk_bank, er_chip[wk_bank], er_sector[wk_bank])
    BY <2>2 DEF InRegion
  <2>4. PICK v \in Words : v = prog.word
    BY <2>1
  <2>5. prog_pend /\ ~Walked(v)' => ~Walked(v)
    BY <1>4, <2>3, <2>4
  <2>6. Walked(prog.word)' <=> Walked(v)'
    BY <2>1, <2>4 DEF Walked, InRegion
  <2>7. QED
    BY <2>1, <2>4, <2>5, <2>6 DEF FlashInv, PostInv
<1>10. QED
  BY <1>5, <1>6, <1>8, <1>9 DEF FlashRest

(* After a reset SDRAM is the image, whatever was on its way. *)
LEMMA ResetStep ==
  ASSUME FlashInv, Reset
  PROVE  FlashRest'
<1>1. /\ rd' = NoRead /\ fstate' = "IDLE" /\ line_valid' = FALSE /\ prog_pend' = FALSE
      /\ flash_wr_busy' = FALSE /\ wk_active' = FALSE /\ image' = sdram'
      /\ er_busy' = [b \in 0 .. Banks - 1 |-> FALSE]
  BY DEF Reset, DropLine, NoWalk
<1>2. \A w : ~Walked(w)'
  BY <1>1 DEF Walked
<1>3. QED
  BY <1>1, <1>2
     DEF FlashRest, ReadInv, FillInv, PostInv, WriteInv, WalkInv, ErasedInv, RealInv, LineIsTrue

LEMMA FlashInit == Init => FlashInv
<1> SUFFICES ASSUME Init PROVE FlashInv
  OBVIOUS
<1>1. 0 \in 0 .. Banks - 1 /\ 0 \in 0 .. Sectors - 1 /\ 0 \in Words /\ 0 \in {Tag(w) : w \in Words}
  <2>1. 0 \in 0 .. Banks - 1 /\ 0 \in 0 .. Sectors - 1 /\ 0 \in Words
    BY Sizes DEF Words
  <2>2. Tag(0) = 0
    BY <2>1, PlaceOfWord, Sizes
  <2>3. QED
    BY <2>1, <2>2
<1>2. Blank \in Values /\ NoWrite \in [word : Words, data : Values]
      /\ NoLine \in [0 .. LineWords - 1 -> Values]
  BY <1>1 DEF Values, NoWrite, NoLine
<1>3. TypeOK
  <2>1. sdram \in [Words -> Values] /\ image \in [Words -> Values]
    BY <1>2 DEF Init
  <2>2. QED
    BY <1>1, <1>2, <2>1 DEF Init, TypeOK
<1>4. QED
  BY <1>3 DEF FlashInv, Init, ReadInv, FillInv, PostInv, WriteInv, WalkInv, ErasedInv, RealInv,
              LineIsTrue, Walked

LEMMA FlashStep == FlashInv /\ [Next]_vars => FlashInv'
<1> SUFFICES ASSUME FlashInv, [Next]_vars PROVE FlashInv'
  OBVIOUS
<1>1. TypeOK'
  BY FlashTypeStep
<1>2. FlashRest'
  <2>1. CASE \/ \E b \in 0 .. Banks - 1 : CtlWrite(b)
             \/ \E t \in Tokens : Command(t)
             \/ UNCHANGED vars
    BY <2>1, QuietStep DEF CtlWrite, Command, vars, game
  <2>2. CASE \/ \E s \in 0 .. Sectors - 1 : EraseNow(FALSE, s)
             \/ EraseNow(TRUE, 0)
    <3>1. TRUE \in BOOLEAN /\ FALSE \in BOOLEAN /\ 0 \in 0 .. Sectors - 1
      BY Sizes
    <3>2. QED
      BY <2>2, <3>1, EraseStep
  <2>3. CASE \E w \in GameWords, d \in Data : ProgNow(w, d)
    BY <2>3, ProgramStep
  <2>4. CASE (\E w \in GameWords : ArrayRead(w)) \/ ReadDone
    BY <2>4, ReadStep
  <2>5. CASE Fill
    BY <2>5, FillStep
  <2>6. CASE IssueProgram \/ IssueWalker
    BY <2>6, IssueStep
  <2>7. CASE StartRegion
    BY <2>7, RegionStep
  <2>8. CASE WriteAck
    <3>1. CASE wr_owner = "program"
      BY <2>8, <3>1, ProgramAckStep
    <3>2. CASE wr_owner = "walker" /\ ~WalkDone
      BY <2>8, <3>2, WalkOnStep
    <3>3. CASE wr_owner = "walker" /\ WalkDone
      BY <2>8, <3>3, WalkEndsStep
    <3>4. QED
      BY <2>8, <3>1, <3>2, <3>3 DEF FlashInv, TypeOK
  <2>9. CASE Reset
    BY <2>9, ResetStep
  <2>10. QED
    BY <2>1, <2>2, <2>3, <2>4, <2>5, <2>6, <2>7, <2>8, <2>9 DEF Next, Cpu, Port
<1>3. QED
  BY <1>1, <1>2 DEF FlashInv, FlashRest

(* The flash is in order after any sequence of commands, reads, write-backs *)
(* and resets.                                                             *)
THEOREM FlashInvariant == Spec => []FlashInv
<1>1. QED
  BY FlashInit, FlashStep, PTL DEF Spec

(* What a read returns is what the commands made of the word, for any number *)
(* of banks: the cached line survives programs, erases and resets.           *)
THEOREM LinesStayTrue == Spec => []LineIsTrue
<1>1. FlashInv => LineIsTrue
  BY DEF FlashInv
<1>2. QED
  BY <1>1, FlashInvariant, PTL

(* Apart from the posted word and the regions still busy, SDRAM holds what   *)
(* the commands say: a bank that reports done is erased to its last word.     *)
THEOREM CompletionStaysReal == Spec => []CompletionIsReal
<1>1. FlashInv => CompletionIsReal
  BY DEF FlashInv, RealInv, CompletionIsReal
<1>2. QED
  BY <1>1, FlashInvariant, PTL

=============================================================================
