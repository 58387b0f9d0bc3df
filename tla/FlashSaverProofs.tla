--------------------------- MODULE FlashSaverProofs ---------------------------
(***************************************************************************)
(* Proofs about the flash on the SD card, for every number of blocks and    *)
(* bursts, files and events: a game runs off a whole image, with nothing    *)
(* owed the file holds the flash, and the auto-save does not loop.          *)
(***************************************************************************)
EXTENDS FlashSaver, Remainders, TLAPS

-----------------------------------------------------------------------------
(* Blocks and bursts. *)

(* The first burst of the block. *)
First == block_cnt * Bursts

LEMMA Sizes == NumBlocks \in Nat \ {0} /\ Bursts \in Nat \ {0} /\ Thresh \in Nat \ {0}
BY SizeAssumption

(* The bursts of the block are the units from First on; the last block ends *)
(* with the image.                                                         *)
LEMMA Blocks ==
  ASSUME TypeOK
  PROVE  /\ First \in Nat /\ Unit = First + burst_cnt
         /\ (block_cnt + 1) * Bursts = First + Bursts
         /\ \A b \in 0 .. Bursts - 1 : First + b \in Units
         /\ \A u \in Units : (u % Bursts) \in 0 .. Bursts - 1
         /\ \A u \in Units : InBlock(u) <=> First <= u /\ u < First + Bursts
         /\ \A u \in Units : InBlock(u) => u = First + (u % Bursts)
         /\ LastBlock => \A u \in Units : u < First + Bursts
<1>1. block_cnt \in 0 .. NumBlocks - 1 /\ burst_cnt \in 0 .. Bursts - 1
  BY DEF TypeOK
<1>2. First \in Nat /\ First = Bursts * block_cnt /\ (block_cnt + 1) * Bursts = First + Bursts
  BY <1>1, Sizes, SMTT(30) DEF First
<1>3. First + Bursts <= Bursts * NumBlocks
  BY <1>1, <1>2, Sizes, MultipleApart
<1>4. Units = 0 .. Bursts * NumBlocks - 1 /\ Bursts * NumBlocks \in Nat
  BY Sizes DEF Units
<1>5. LastBlock => First + Bursts = Bursts * NumBlocks
  <2>1. LastBlock => block_cnt + 1 = NumBlocks
    BY <1>1, Sizes DEF LastBlock
  <2>2. (block_cnt + 1) * Bursts = Bursts * (block_cnt + 1)
    BY <1>1, Sizes
  <2>3. QED
    BY <1>2, <2>1, <2>2
<1>6. ASSUME NEW u \in Units
      PROVE  /\ (u % Bursts) \in 0 .. Bursts - 1
             /\ InBlock(u) <=> First <= u /\ u < First + Bursts
             /\ InBlock(u) => u = First + (u % Bursts)
  <2>1. u \in Nat /\ block_cnt \in Nat
    BY <1>1 DEF Units
  <2>2. (u % Bursts) \in 0 .. Bursts - 1 /\ u = Bursts * (u \div Bursts) + (u % Bursts)
    BY <2>1, Sizes, DivMod
  <2>3. InBlock(u) <=> First <= u /\ u < First + Bursts
    BY <1>2, <2>1, Sizes, DivIs DEF InBlock
  <2>4. QED
    BY <1>2, <2>2, <2>3 DEF InBlock
<1>7. Unit = First + burst_cnt
  BY DEF Unit, First
<1> HIDE DEF First
<1>8. \A b \in 0 .. Bursts - 1 : First + b \in Units
  BY <1>2, <1>3, <1>4, Sizes
<1>9. LastBlock => \A u \in Units : u < First + Bursts
  BY <1>4, <1>5
<1>10. QED
  BY <1>2, <1>6, <1>7, <1>8, <1>9

-----------------------------------------------------------------------------
(* The inductive invariant.  The saver is at rest during a flash download,   *)
(* with a LOAD due after it, and only a drain waits for the SDRAM ...        *)
PhaseInv ==
  /\ phase = "flash_download" => state = "IDLE" /\ ~flash_load_taken
  /\ wr_owed => state = "LO_DRAIN_WAIT"

(* ... a LOAD is due when a file with an image is mounted and not taken ... *)
Due == mounted /\ ~flash_load_taken

(* ... what a LOAD has drained is what the file promised ... *)
LoadInv ==
  ~disturbed /\ flash_loading =>
    /\ promised = disk[file]
    /\ \A u \in Units : u < First => flash[u] = promised[u]
    /\ state \in {"LO_DRAIN", "LO_DRAIN_WAIT"} =>
         \A b \in 0 .. Bursts - 1 :
            /\ buf[b] = promised[First + b]
            /\ b < burst_cnt => flash[First + b] = buf[b]

(* ... and with none running and none due the flash is whole. *)
WholeInv ==
  ~disturbed /\ phase # "flash_download" /\ ~flash_loading /\ ~Due => flash = promised

(* What a SAVE has written, or staged, is what the flash holds. *)
SaveInv ==
  ~disturbed /\ saving /\ ~is_erase /\ ~late =>
    /\ \A u \in Units : u < First => disk[file][u] = flash[u]
    /\ \A b \in 0 .. Bursts - 1 :
         state # "FILL" \/ b < burst_cnt => buf[b] = flash[First + b]

(* An ERASE parts the file from the flash. *)
EraseInv == saving /\ is_erase /\ ~disturbed => parted

(* At rest, with no LOAD due and no episode open, they are the same. *)
KeptInv ==
  ~disturbed /\ ~late /\ ~parted /\ phase # "flash_download" /\ ~busy /\ ~Due /\ ~auto_dirty
    => disk[file] = flash

(* An episode no SAVE answers has a word in it no SAVE has seen. *)
FreshInv == auto_dirty /\ ~auto_done => fresh \/ (saving /\ ~is_erase)

SaverRest == PhaseInv /\ LoadInv /\ WholeInv /\ SaveInv /\ EraseInv /\ KeptInv /\ FreshInv

SaverInv == TypeOK /\ SaverRest

-----------------------------------------------------------------------------
(* Types. *)

LEMMA SaverTypeStep ==
  ASSUME TypeOK, [Next]_vars
  PROVE  TypeOK'
<1> USE DEF TypeOK
<1>1. Blank \in Values /\ Installed \in Values /\ BlankImage \in Image /\ 0 \in 0 .. Thresh
      /\ 0 \in 0 .. Bursts - 1 /\ 0 \in 0 .. NumBlocks - 1
  BY Sizes DEF Values, BlankImage, Image
<1>2. Drained \in Image /\ (Landing => flash' \in Image)
  <2>1. Drained \in Image
    BY Blocks DEF Drained, Image
  <2>2. QED
    BY <2>1 DEF Landing
<1>3. CASE PressSave
  BY <1>3 DEF PressSave, SaveTrigger, autoVars, dataVars
<1>4. CASE PressErase
  BY <1>4 DEF PressErase, autoVars, emuVars, dataVars
<1>5. CASE OpenOsd
  BY <1>5 DEF OpenOsd, SaveTrigger, NoTrigger, autoVars, dataVars
<1>6. CASE CloseOsd
  BY <1>6 DEF CloseOsd, saverVars, autoVars, dataVars
<1>7. CASE Reset
  BY <1>2, <1>1, <1>7 DEF Reset, SaverReset, emuVars
<1>8. CASE FlashDownload \/ RomDownload \/ CartDownload
  <2>1. CASE FlashDownload
    BY <1>1, <2>1 DEF FlashDownload, SaverReset, Rearm, dataVars
  <2>2. CASE RomDownload
    BY <1>2, <2>2 DEF RomDownload, autoVars
  <2>3. CASE CartDownload
    BY <2>3 DEF CartDownload, saverVars, autoVars, dataVars
  <2>4. QED
    BY <1>8, <2>1, <2>2, <2>3
<1>9. CASE \E f \in Files : Mount(f)
  BY <1>9 DEF Mount, Remount, Restorable, saverVars, autoVars, dataVars
<1>10. CASE QuietTick
  <2>1. idle_cnt' \in 0 .. Thresh
    BY <1>10, Sizes DEF QuietTick
  <2>2. QED
    BY <1>10, <2>1 DEF QuietTick, saverVars, emuVars, dataVars
<1>11. CASE AutoSavedSeen
  BY <1>11 DEF AutoSavedSeen, saverVars, dataVars
<1>12. CASE FlashDownloadEnd \/ RomDownloadEnd
  BY <1>1, <1>12 DEF FlashDownloadEnd, RomDownloadEnd, saverVars, autoVars, dataVars
<1>13. CASE SettleEnd
  BY <1>13 DEF SettleEnd, saverVars, autoVars, dataVars
<1>14. CASE \E u \in Units : FlashWrite(u)
  <2>1. PICK u \in Units : FlashWrite(u)
    BY <1>14
  <2>2. flash' \in Image
    BY <1>1, <2>1 DEF FlashWrite, Image
  <2>3. QED
    BY <1>1, <2>1, <2>2 DEF FlashWrite, Episode
<1>15. CASE StartSave
  BY <1>1, <1>15 DEF StartSave, FirstBlock, emuVars, dataVars
<1>16. CASE StartErase
  BY <1>1, <1>16 DEF StartErase, FirstBlock, autoVars, emuVars, dataVars
<1>17. CASE StartLoad
  BY <1>1, <1>17 DEF StartLoad, Taken, autoVars, dataVars
<1>18. CASE Fill
  <2>1. buf' \in [0 .. Bursts - 1 -> Values]
    <3>1. Unit \in Units /\ flash[Unit] \in Values
      BY Blocks DEF Image
    <3>2. QED
      BY <1>1, <1>18, <3>1 DEF Fill
  <2>2. burst_cnt' \in 0 .. Bursts - 1
    BY <1>1, <1>18, Sizes DEF Fill, LastBurst
  <2>3. QED
    BY <1>18, <2>1, <2>2 DEF Fill, autoVars, emuVars, dataVars
<1>19. CASE SectorTaken
  BY <1>19 DEF SectorTaken, autoVars, emuVars, dataVars
<1>20. ASSUME NEW next \in {"FILL", "LO_RD"}, NextBlock(next)
       PROVE  block_cnt' \in 0 .. NumBlocks - 1 /\ state' \in {"IDLE", next}
  BY <1>20, Sizes DEF NextBlock, LastBlock
<1>21. CASE SectorWritten
  <2>1. disk' \in [Files -> Image]
    <3>1. [u \in Units |-> IF InBlock(u) THEN buf[u % Bursts] ELSE disk[file][u]] \in Image
      BY Blocks DEF Image
    <3>2. QED
      BY <1>21, <3>1 DEF SectorWritten
  <2>2. block_cnt' \in 0 .. NumBlocks - 1 /\ state' \in {"IDLE", "FILL"}
    BY <1>20, <1>21 DEF SectorWritten
  <2>3. auto_dirty' \in BOOLEAN /\ auto_saved' \in BOOLEAN
    BY <1>21 DEF SectorWritten, Settled
  <2>4. QED
    BY <1>1, <1>21, <2>1, <2>2, <2>3 DEF SectorWritten, emuVars
<1>22. CASE SectorRead
  <2>1. buf' \in [0 .. Bursts - 1 -> Values]
    <3>1. \A b \in 0 .. Bursts - 1 : disk[file][block_cnt * Bursts + b] \in Values
      BY Blocks DEF Image, First
    <3>2. QED
      BY <1>22, <3>1 DEF SectorRead
  <2>2. QED
    BY <1>1, <1>22, <2>1 DEF SectorRead, autoVars, emuVars, dataVars
<1>23. CASE DrainAck
  <2>1. block_cnt' \in 0 .. NumBlocks - 1 /\ state' \in {"IDLE", "LO_RD", "LO_DRAIN"}
    BY <1>20, <1>23 DEF DrainAck
  <2>2. burst_cnt' \in 0 .. Bursts - 1
    BY <1>1, <1>23, Sizes DEF DrainAck, LastBurst
  <2>3. QED
    BY <1>2, <1>23, <2>1, <2>2 DEF DrainAck, autoVars, emuVars
<1>24. CASE DrainRequest
  BY <1>24 DEF DrainRequest, autoVars, emuVars, dataVars
<1>25. CASE UNCHANGED vars
  BY <1>25 DEF vars, saverVars, autoVars, emuVars, dataVars
<1>26. QED
  BY <1>3, <1>4, <1>5, <1>6, <1>7, <1>8, <1>9, <1>10, <1>11, <1>12, <1>13, <1>14, <1>15, <1>16,
     <1>17, <1>18, <1>19, <1>21, <1>22, <1>23, <1>25, <1>24 DEF Next, SaverStep, MainStep, User

-----------------------------------------------------------------------------
(* The rest, action by action. *)

(* A step that leaves the transfer, the image and the file alone. *)
LEMMA QuietStep ==
  ASSUME SaverRest,
         UNCHANGED <<state, block_cnt, burst_cnt, is_erase, buf, wr_owed, auto_dirty, auto_done, phase,
                     file, mounted, flash_load_taken, dataVars, history>>
  PROVE  SaverRest'
BY DEF SaverRest, PhaseInv, LoadInv, WholeInv, SaveInv, EraseInv, KeptInv, FreshInv, Due,
       busy, saving, flash_loading, First, dataVars, history

(* A word the game programs opens an episode, and is late for a SAVE that    *)
(* streams.                                                                *)
LEMMA FlashWriteStep ==
  ASSUME TypeOK, SaverRest, NEW u \in Units, FlashWrite(u)
  PROVE  SaverRest'
<1>1. /\ phase = "run" /\ ~flash_loading /\ auto_dirty' = TRUE /\ fresh' = TRUE
      /\ late' = (late \/ (saving /\ ~is_erase))
      /\ flash' = [flash EXCEPT ![u] = Installed] /\ promised' = [promised EXCEPT ![u] = Installed]
      /\ UNCHANGED <<state, block_cnt, burst_cnt, is_erase, buf, wr_owed, phase, file, mounted,
                     flash_load_taken, disk, disturbed, parted>>
  BY DEF FlashWrite, CpuRuns, Episode
<1>2. saving' = saving /\ flash_loading' = flash_loading
  BY <1>1 DEF saving, flash_loading, busy
<1>3. PhaseInv' /\ LoadInv' /\ KeptInv' /\ FreshInv' /\ EraseInv'
  BY <1>1, <1>2 DEF SaverRest, PhaseInv, LoadInv, KeptInv, FreshInv, EraseInv
<1>4. WholeInv'
  BY <1>1, <1>2 DEF SaverRest, WholeInv, Due
<1>5. SaveInv'
  BY <1>1, <1>2 DEF SaveInv
<1>6. QED
  BY <1>3, <1>4, <1>5 DEF SaverRest

(* A mount makes a LOAD due, or promises the flash as it is. *)
LEMMA MountStep ==
  ASSUME TypeOK, SaverRest, NEW f \in Files, Mount(f)
  PROVE  SaverRest'
<1>1. /\ file' = f /\ (mounted' <=> Restorable(f))
      /\ (flash_load_taken' <=> (flash_loading /\ Restorable(f) /\ phase = "run"))
      /\ promised' = IF Restorable(f) THEN disk[f] ELSE flash
      /\ (disturbed' <=> (disturbed \/ busy)) /\ (parted' <=> ~Restorable(f))
      /\ UNCHANGED <<state, block_cnt, burst_cnt, is_erase, buf, wr_owed, auto_dirty, auto_done,
                     phase, flash, disk, late, fresh>>
      /\ phase # "flash_download"
  BY DEF Mount, MainTurn, ch3_dl, Remount, saverVars, autoVars, dataVars
<1>2. (saving' <=> saving) /\ (flash_loading' <=> flash_loading) /\ (busy' <=> busy)
  BY <1>1 DEF saving, flash_loading, busy
<1>3. (saving => busy) /\ (flash_loading => busy)
  BY DEF saving, flash_loading, busy
<1>4. PhaseInv' /\ FreshInv'
  BY <1>1, <1>2 DEF SaverRest, PhaseInv, FreshInv
<1>5. LoadInv' /\ SaveInv' /\ EraseInv'
  BY <1>1, <1>2, <1>3 DEF LoadInv, SaveInv, EraseInv
<1>6. WholeInv' /\ KeptInv'
  BY <1>1, <1>2, <1>3 DEF WholeInv, KeptInv, Due
<1>7. QED
  BY <1>4, <1>5, <1>6 DEF SaverRest

LEMMA ResetStep ==
  ASSUME TypeOK, SaverRest, Reset
  PROVE  SaverRest'
<1>1. /\ state' = "IDLE" /\ auto_dirty' = FALSE /\ wr_owed' = FALSE
      /\ (disturbed' <=> (disturbed \/ busy \/ save_pending \/ auto_dirty))
      /\ UNCHANGED <<phase, file, mounted, flash_load_taken, disk, promised, late, parted>>
  BY DEF Reset, SaverReset, emuVars
<1>2. ~busy => flash' = flash
  BY DEF Reset, Landing, busy, SaverRest, PhaseInv
<1>3. ~saving' /\ ~flash_loading' /\ ~busy'
  BY <1>1 DEF saving, flash_loading, busy
<1>4. PhaseInv' /\ LoadInv' /\ SaveInv' /\ EraseInv' /\ FreshInv'
  BY <1>1, <1>3 DEF SaverRest, PhaseInv, LoadInv, SaveInv, EraseInv, FreshInv
<1>5. flash_loading => busy
  BY DEF flash_loading, busy
<1>6. WholeInv' /\ KeptInv'
  BY <1>1, <1>3, <1>5, <1>2 DEF SaverRest, WholeInv, KeptInv, Due
<1>7. QED
  BY <1>4, <1>6 DEF SaverRest

(* A flash download stops the saver and makes the LOAD due again.            *)
LEMMA FlashDownloadStep ==
  ASSUME TypeOK, SaverRest, FlashDownload \/ FlashDownloadEnd
  PROVE  SaverRest'
<1>1. CASE FlashDownload
  <2>1. /\ state' = "IDLE" /\ phase' = "flash_download" /\ flash_load_taken' = FALSE
        /\ auto_dirty' = FALSE /\ wr_owed' = FALSE
    BY <1>1 DEF FlashDownload, SaverReset, Rearm
  <2>2. ~saving' /\ ~flash_loading'
    BY <2>1 DEF saving, flash_loading, busy
  <2>3. QED
    BY <2>1, <2>2 DEF SaverRest, PhaseInv, LoadInv, WholeInv, SaveInv, EraseInv, KeptInv, FreshInv
<1>2. CASE FlashDownloadEnd
  <2>1. /\ phase = "flash_download" /\ phase' = "settle" /\ flash' = BlankImage
        /\ promised' = IF mounted THEN disk[file] ELSE BlankImage
        /\ (parted' <=> (parted \/ ~mounted))
        /\ UNCHANGED <<state, is_erase, wr_owed, auto_dirty, auto_done, file, mounted,
                       flash_load_taken, disk, disturbed, late, fresh>>
    BY <1>2 DEF FlashDownloadEnd, saverVars, autoVars
  <2>2. state = "IDLE" /\ ~flash_load_taken
    BY <2>1 DEF SaverRest, PhaseInv
  <2>3. ~saving' /\ ~flash_loading' /\ ~saving
    BY <2>1, <2>2 DEF saving, flash_loading, busy
  <2>4. PhaseInv' /\ LoadInv' /\ SaveInv' /\ EraseInv' /\ FreshInv'
    BY <2>1, <2>2, <2>3 DEF SaverRest, PhaseInv, LoadInv, SaveInv, EraseInv, FreshInv
  <2>5. WholeInv' /\ KeptInv'
    BY <2>1, <2>2 DEF WholeInv, KeptInv, Due
  <2>6. QED
    BY <2>4, <2>5 DEF SaverRest
<1>3. QED
  BY <1>1, <1>2

(* The other downloads leave the saver running: a word that lands with its   *)
(* acknowledge masked is the one the LOAD meant.                             *)
LEMMA OtherDownloadStep ==
  ASSUME TypeOK, SaverRest, RomDownload \/ RomDownloadEnd \/ CartDownload \/ SettleEnd
  PROVE  SaverRest'
<1>1. /\ phase # "flash_download" /\ phase' # "flash_download"
      /\ (flash_load_taken' <=> flash_load_taken) \/ flash_loading
      /\ UNCHANGED <<state, block_cnt, burst_cnt, is_erase, buf, auto_dirty, auto_done, file, mounted,
                     disk, promised, disturbed, late, parted, fresh>>
  BY DEF RomDownload, RomDownloadEnd, CartDownload, SettleEnd, DownloadTurn, MainTurn, ch3_dl,
         saverVars, autoVars, dataVars, history, TypeOK
<1>2. wr_owed' => wr_owed
  BY DEF RomDownload, RomDownloadEnd, CartDownload, SettleEnd, saverVars
<1>3. (saving' <=> saving) /\ (flash_loading' <=> flash_loading) /\ (busy' <=> busy) /\ First' = First
  BY <1>1 DEF saving, flash_loading, busy, First
<1>4. flash' = flash \/ (state = "LO_DRAIN_WAIT" /\ flash' = [flash EXCEPT ![First + burst_cnt] = buf[burst_cnt]])
  BY DEF RomDownload, RomDownloadEnd, CartDownload, SettleEnd, dataVars, Landing, Drained, Unit, First,
         SaverRest, PhaseInv
<1>5. PhaseInv' /\ EraseInv' /\ FreshInv'
  BY <1>1, <1>2, <1>3 DEF SaverRest, PhaseInv, EraseInv, FreshInv
<1>6. state = "LO_DRAIN_WAIT" => flash_loading /\ busy /\ ~saving
  BY DEF flash_loading, saving, busy
<1>7. WholeInv' /\ KeptInv' /\ SaveInv'
  BY <1>1, <1>3, <1>4, <1>6 DEF SaverRest, WholeInv, KeptInv, SaveInv, Due, busy, flash_loading
<1>8. LoadInv'
  <2>1. CASE flash' = flash
    BY <1>1, <1>3, <2>1 DEF SaverRest, LoadInv
  <2>2. CASE state = "LO_DRAIN_WAIT" /\ flash' = [flash EXCEPT ![First + burst_cnt] = buf[burst_cnt]]
    <3>1. burst_cnt \in 0 .. Bursts - 1 /\ First \in Nat /\ \A b \in 0 .. Bursts - 1 : First + b \in Units
      BY Blocks DEF TypeOK
    <3>2. \A u \in Units : u # First + burst_cnt => flash'[u] = flash[u]
      BY <2>2, <3>1 DEF TypeOK, Image
    <3>3. ASSUME NEW u \in Units, u < First
          PROVE  flash'[u] = flash[u]
      <4>1. u # First + burst_cnt
        BY <3>1, <3>3 DEF Units
      <4>2. QED
        BY <3>2, <4>1
    <3>4. ASSUME NEW b \in 0 .. Bursts - 1, b < burst_cnt
          PROVE  flash'[First + b] = flash[First + b]
      <4>1. First + b # First + burst_cnt /\ First + b \in Units
        BY <3>1, <3>4, Sizes
      <4>2. QED
        BY <3>2, <4>1
    <3>5. QED
      BY <1>1, <1>3, <1>6, <3>3, <3>4 DEF SaverRest, LoadInv
  <2>3. QED
    BY <1>4, <2>1, <2>2
<1>9. QED
  BY <1>5, <1>7, <1>8 DEF SaverRest

(* The start of a transfer: nothing is staged, written or drained yet. *)
LEMMA StartStep ==
  ASSUME TypeOK, SaverRest, StartSave \/ StartErase \/ StartLoad
  PROVE  SaverRest'
<1>1. state = "IDLE" /\ phase # "flash_download" /\ ~saving /\ ~flash_loading /\ wr_owed' = FALSE
  BY DEF StartSave, StartErase, StartLoad, Idle, saving, flash_loading, busy, SaverRest, PhaseInv, TypeOK
<1>2. block_cnt' = 0 /\ First' = 0
  <2>1. block_cnt' = 0
    BY DEF StartSave, StartErase, StartLoad, FirstBlock
  <2>2. QED
    BY <2>1, Sizes DEF First
<1>3. \A u \in Units : ~(u < First')
  BY <1>2 DEF Units
<1>4. CASE StartSave
  <2>1. /\ state' = "FILL" /\ burst_cnt' = 0 /\ is_erase' = FALSE
        /\ UNCHANGED <<phase, file, mounted, flash_load_taken, flash, promised, disturbed>>
    BY <1>4 DEF StartSave, FirstBlock, emuVars, dataVars
  <2>2. saving' /\ ~flash_loading' /\ busy'
    BY <2>1 DEF saving, flash_loading, busy
  <2>3. PhaseInv' /\ LoadInv' /\ EraseInv' /\ KeptInv' /\ FreshInv'
    BY <1>1, <2>1, <2>2 DEF SaverRest, PhaseInv, LoadInv, EraseInv, KeptInv, FreshInv
  <2>4. WholeInv'
    BY <1>1, <2>1, <2>2 DEF SaverRest, WholeInv, Due
  <2>5. SaveInv'
    BY <1>3, <2>1 DEF SaveInv
  <2>6. QED
    BY <2>3, <2>4, <2>5 DEF SaverRest
<1>5. CASE StartErase
  <2>1. /\ state' = "FILL" /\ is_erase' = TRUE /\ parted' = TRUE
        /\ UNCHANGED <<phase, file, mounted, flash_load_taken, flash, promised, disturbed,
                       auto_dirty, auto_done, fresh>>
    BY <1>5 DEF StartErase, FirstBlock, autoVars, emuVars, dataVars
  <2>2. saving' /\ ~flash_loading' /\ busy'
    BY <2>1 DEF saving, flash_loading, busy
  <2>3. PhaseInv' /\ LoadInv' /\ EraseInv' /\ KeptInv' /\ SaveInv'
    BY <1>1, <2>1, <2>2 DEF SaverRest, PhaseInv, LoadInv, EraseInv, KeptInv, SaveInv
  <2>4. WholeInv' /\ FreshInv'
    BY <1>1, <2>1, <2>2 DEF SaverRest, WholeInv, FreshInv, Due
  <2>5. QED
    BY <2>3, <2>4 DEF SaverRest
<1>6. CASE StartLoad
  <2>1. /\ state' = "LO_RD" /\ flash_load_taken' = TRUE /\ phase = "run"
        /\ promised' = disk[file]
        /\ UNCHANGED <<phase, file, disk, flash, auto_dirty, auto_done, fresh>>
    BY <1>6 DEF StartLoad, Taken, flash_load_arm, autoVars, dataVars
  <2>2. ~saving' /\ flash_loading' /\ busy'
    BY <2>1 DEF saving, flash_loading, busy
  <2>3. PhaseInv' /\ EraseInv' /\ KeptInv' /\ SaveInv' /\ WholeInv'
    BY <1>1, <2>1, <2>2 DEF PhaseInv, EraseInv, KeptInv, SaveInv, WholeInv
  <2>4. FreshInv'
    BY <1>1, <2>1 DEF SaverRest, FreshInv
  <2>5. LoadInv'
    BY <1>3, <2>1 DEF LoadInv
  <2>6. QED
    BY <2>3, <2>4, <2>5 DEF SaverRest
<1>7. QED
  BY <1>4, <1>5, <1>6

(* A burst staged, or its block taken: it is what the flash holds. *)
LEMMA FillStep ==
  ASSUME TypeOK, SaverRest, Fill \/ SectorTaken
  PROVE  SaverRest'
<1>1. /\ First' = First
      /\ UNCHANGED <<block_cnt, is_erase, auto_dirty, auto_done, phase, file, mounted,
                     flash_load_taken, flash, disk, promised, disturbed, late, parted, fresh>>
  BY DEF Fill, SectorTaken, autoVars, emuVars, dataVars, history, First
<1>2. (saving' <=> saving) /\ (flash_loading' <=> flash_loading) /\ (busy' <=> busy)
      /\ busy /\ phase # "flash_download" /\ wr_owed' = FALSE
  BY DEF Fill, SectorTaken, saving, flash_loading, busy, SaverRest, PhaseInv, TypeOK
<1>3. PhaseInv' /\ EraseInv' /\ KeptInv' /\ FreshInv'
  BY <1>1, <1>2 DEF SaverRest, PhaseInv, EraseInv, KeptInv, FreshInv, Due
<1>4. WholeInv'
  BY <1>1, <1>2 DEF SaverRest, WholeInv, Due
<1>5. LoadInv'
  <2>1. flash_loading => SectorTaken /\ state' = "LO_ACK"
    BY DEF Fill, SectorTaken, flash_loading, saving, busy
  <2>2. QED
    BY <1>1, <1>2, <2>1 DEF SaverRest, LoadInv
<1>6. SaveInv'
  <2>1. CASE Fill
    <3>1. burst_cnt \in 0 .. Bursts - 1 /\ Unit = First + burst_cnt
      BY Blocks DEF TypeOK
    <3>2. ~is_erase => buf' = [buf EXCEPT ![burst_cnt] = flash[First + burst_cnt]]
      BY <2>1, <3>1 DEF Fill
    <3>3. ASSUME ~disturbed, saving, ~is_erase, ~late, NEW b \in 0 .. Bursts - 1,
                 state' # "FILL" \/ b < burst_cnt'
          PROVE  buf'[b] = flash[First + b]
      <4>1. b < burst_cnt \/ b = burst_cnt
        BY <2>1, <3>1, <3>3, Sizes DEF Fill, LastBurst
      <4>2. CASE b = burst_cnt
        BY <3>1, <3>2, <3>3, <4>2 DEF TypeOK
      <4>3. CASE b < burst_cnt
        <5>1. buf'[b] = buf[b]
          <6>1. b # burst_cnt
            BY <3>1, <4>3, Sizes
          <6>2. QED
            BY <3>1, <3>2, <3>3, <6>1 DEF TypeOK
        <5>2. QED
          BY <3>3, <4>3, <5>1 DEF SaverRest, SaveInv
      <4>4. QED
        BY <4>1, <4>2, <4>3
    <3>4. QED
      BY <1>1, <1>2, <3>3 DEF SaverRest, SaveInv
  <2>2. CASE SectorTaken
    <3>1. saving => state = "SA_WR"
      BY <2>2 DEF SectorTaken, saving
    <3>2. buf' = buf
      BY <2>2 DEF SectorTaken
    <3>3. QED
      BY <1>1, <1>2, <3>1, <3>2 DEF SaverRest, SaveInv
  <2>3. QED
    BY <2>1, <2>2
<1>7. QED
  BY <1>3, <1>4, <1>5, <1>6 DEF SaverRest

(* A block written: the file holds the flash that far, and at its end all   *)
(* of it.                                                                  *)
LEMMA WrittenStep ==
  ASSUME TypeOK, SaverRest, SectorWritten
  PROVE  SaverRest'
<1>1. /\ state = "SA_ACK" /\ NextBlock("FILL") /\ burst_cnt' = 0
      /\ (auto_dirty' <=> (auto_dirty /\ ~Settled))
      /\ disk' = [disk EXCEPT ![file] = [u \in Units |-> IF InBlock(u) THEN buf[u % Bursts] ELSE disk[file][u]]]
      /\ UNCHANGED <<is_erase, wr_owed, auto_done, phase, file, mounted, flash_load_taken, flash,
                     promised, disturbed, late, parted, fresh>>
  BY DEF SectorWritten, emuVars, history
<1>2. saving /\ ~flash_loading /\ phase # "flash_download"
  BY <1>1 DEF saving, flash_loading, busy, SaverRest, PhaseInv
<1>3. IF LastBlock THEN state' = "IDLE" ELSE state' = "FILL" /\ block_cnt' = block_cnt + 1
  BY <1>1 DEF NextBlock
<1>4. /\ ~flash_loading' /\ (LastBlock => ~saving' /\ ~busy') /\ (~LastBlock => saving' /\ busy')
  BY <1>3 DEF saving, flash_loading, busy
<1>5. PhaseInv' /\ LoadInv' /\ WholeInv'
  BY <1>1, <1>2, <1>4 DEF SaverRest, PhaseInv, LoadInv, WholeInv, Due
<1>6. EraseInv'
  BY <1>1, <1>2 DEF SaverRest, EraseInv
<1>7. FreshInv'
  BY <1>1, <1>2, <1>4 DEF SaverRest, FreshInv, Settled
<1>8. ASSUME ~disturbed, ~is_erase, ~late, NEW u \in Units, u < First + Bursts
      PROVE  disk'[file][u] = flash[u]
  <2>1. disk'[file][u] = IF InBlock(u) THEN buf[u % Bursts] ELSE disk[file][u]
    BY <1>1 DEF TypeOK
  <2>2. CASE InBlock(u)
    <3>1. (u % Bursts) \in 0 .. Bursts - 1 /\ u = First + (u % Bursts)
      BY <2>2, Blocks
    <3>2. buf[u % Bursts] = flash[First + (u % Bursts)]
      BY <1>1, <1>2, <1>8, <3>1 DEF SaverRest, SaveInv
    <3>3. QED
      BY <2>1, <2>2, <3>1, <3>2
  <2>3. CASE ~InBlock(u)
    <3>1. First <= u <=> ~(u < First)
      BY Blocks DEF Units
    <3>2. u < First
      BY <1>8, <2>3, <3>1, Blocks
    <3>3. disk[file][u] = flash[u]
      BY <1>2, <1>8, <3>2 DEF SaverRest, SaveInv
    <3>4. QED
      BY <2>1, <2>3, <3>3
  <2>4. QED
    BY <2>2, <2>3
<1>9. SaveInv'
  <2>1. CASE LastBlock
    BY <1>4, <2>1 DEF SaveInv
  <2>2. CASE ~LastBlock
    <3>1. First' = First + Bursts
      BY <1>3, <2>2, Blocks DEF First
    <3>2. state' = "FILL" /\ burst_cnt' = 0 /\ \A b \in 0 .. Bursts - 1 : ~(b < burst_cnt')
      BY <1>1, <1>3, <2>2, Sizes
    <3>3. QED
      BY <1>1, <1>8, <3>1, <3>2 DEF SaveInv
  <2>3. QED
    BY <2>1, <2>2
<1>10. KeptInv'
  <2>1. CASE LastBlock
    <3>1. SUFFICES ASSUME ~disturbed, ~late, ~parted
                   PROVE  disk'[file] = flash
      BY <1>1 DEF KeptInv
    <3>2. ~is_erase
      BY <1>2, <3>1 DEF SaverRest, EraseInv
    <3>3. \A u \in Units : disk'[file][u] = flash[u]
      BY <1>8, <2>1, <3>1, <3>2, Blocks
    <3>4. disk'[file] = [u \in Units |-> disk'[file][u]]
      <4>1. disk'[file] = [u \in Units |-> IF InBlock(u) THEN buf[u % Bursts] ELSE disk[file][u]]
        BY <1>1 DEF TypeOK
      <4>2. QED
        BY <4>1
    <3>5. flash = [u \in Units |-> flash[u]]
      BY DEF TypeOK, Image
    <3>6. QED
      BY <3>3, <3>4, <3>5
  <2>2. CASE ~LastBlock
    BY <1>4, <2>2 DEF KeptInv
  <2>3. QED
    BY <2>1, <2>2
<1>11. QED
  BY <1>5, <1>6, <1>7, <1>9, <1>10 DEF SaverRest

(* A block of the file staged, and drained into the flash burst by burst.   *)
LEMMA LoadStep ==
  ASSUME TypeOK, SaverRest, SectorRead \/ DrainRequest \/ DrainAck
  PROVE  SaverRest'
<1>1. /\ state \in {"LO_ACK", "LO_DRAIN", "LO_DRAIN_WAIT"}
      /\ UNCHANGED <<is_erase, auto_dirty, auto_done, phase, file, mounted, flash_load_taken,
                     disk, promised, disturbed, late, parted, fresh>>
  BY DEF SectorRead, DrainRequest, DrainAck, autoVars, emuVars, history, dataVars
<1>2. ~saving /\ flash_loading /\ phase # "flash_download" /\ busy
  BY <1>1 DEF saving, flash_loading, busy, SaverRest, PhaseInv, TypeOK
<1>3. ~disturbed => /\ promised = disk[file] /\ promised \in Image
                    /\ \A u \in Units : u < First => flash[u] = promised[u]
  <2>1. disk[file] \in Image
    BY DEF TypeOK
  <2>2. QED
    BY <1>2, <2>1 DEF SaverRest, LoadInv
<1>4. /\ state' \in {"IDLE", "LO_RD", "LO_DRAIN", "LO_DRAIN_WAIT"} /\ ~saving'
      /\ wr_owed' => state' = "LO_DRAIN_WAIT"
  BY DEF SectorRead, DrainRequest, DrainAck, NextBlock, saving, SaverRest, PhaseInv
<1>5. PhaseInv' /\ EraseInv' /\ SaveInv' /\ FreshInv'
  BY <1>1, <1>2, <1>4 DEF SaverRest, PhaseInv, EraseInv, SaveInv, FreshInv
<1>6. CASE SectorRead
  <2>1. /\ state' = "LO_DRAIN" /\ burst_cnt' = 0 /\ First' = First /\ flash' = flash
        /\ buf' = [b \in 0 .. Bursts - 1 |-> disk[file][First + b]]
    BY <1>6 DEF SectorRead, First, dataVars
  <2>2. flash_loading' /\ busy' /\ \A b \in 0 .. Bursts - 1 : ~(b < burst_cnt')
    BY <2>1, Sizes DEF flash_loading, saving, busy
  <2>3. LoadInv' /\ WholeInv' /\ KeptInv'
    BY <1>1, <1>3, <2>1, <2>2 DEF LoadInv, WholeInv, KeptInv
  <2>4. QED
    BY <1>5, <2>3 DEF SaverRest
<1>7. CASE DrainRequest
  <2>1. /\ state = "LO_DRAIN" /\ state' = "LO_DRAIN_WAIT" /\ First' = First
        /\ UNCHANGED <<burst_cnt, buf, flash>>
    BY <1>7 DEF DrainRequest, First, dataVars
  <2>2. flash_loading' /\ busy'
    BY <2>1 DEF flash_loading, saving, busy
  <2>3. LoadInv' /\ WholeInv' /\ KeptInv'
    BY <1>1, <1>2, <2>1, <2>2 DEF SaverRest, LoadInv, WholeInv, KeptInv
  <2>4. QED
    BY <1>5, <2>3 DEF SaverRest
<1>8. CASE DrainAck
  <2>1. /\ state = "LO_DRAIN_WAIT" /\ flash' = [flash EXCEPT ![First + burst_cnt] = buf[burst_cnt]]
        /\ burst_cnt \in 0 .. Bursts - 1 /\ First + burst_cnt \in Units /\ First \in Nat
    BY <1>8, Blocks DEF DrainAck, Drained, TypeOK
  <2>2. ASSUME ~disturbed
        PROVE  \A b \in 0 .. Bursts - 1 :
                  /\ buf[b] = promised[First + b]
                  /\ b < burst_cnt => flash[First + b] = buf[b]
    BY <1>2, <2>1, <2>2 DEF SaverRest, LoadInv
  <2>3. \A u \in Units : flash'[u] = IF u = First + burst_cnt THEN buf[burst_cnt] ELSE flash[u]
    BY <2>1 DEF TypeOK, Image
  <2>4. ASSUME ~disturbed, NEW u \in Units, u <= First + burst_cnt
        PROVE  flash'[u] = promised[u]
    <3>1. CASE u < First
      <4>1. u # First + burst_cnt
        BY <2>1, <3>1 DEF Units
      <4>2. QED
        BY <1>3, <2>3, <2>4, <3>1, <4>1
    <3>2. CASE ~(u < First)
      <4>1. PICK b \in 0 .. Bursts - 1 : u = First + b /\ b <= burst_cnt
        <5>1. u - First \in 0 .. Bursts - 1 /\ u = First + (u - First) /\ u - First <= burst_cnt
          <6>1. u \in Int /\ First <= u
            BY <2>1, <3>2 DEF Units
          <6>2. QED
            BY <2>1, <2>4, <6>1, Sizes
        <5>2. QED
          BY <5>1
      <4>2. CASE b = burst_cnt
        BY <2>2, <2>3, <2>4, <4>1, <4>2
      <4>3. CASE b # burst_cnt
        <5>1. b < burst_cnt /\ u # First + burst_cnt
          BY <2>1, <4>1, <4>3
        <5>2. QED
          BY <2>2, <2>3, <2>4, <4>1, <5>1
      <4>4. QED
        BY <4>2, <4>3
    <3>3. QED
      BY <3>1, <3>2
  <2>5. CASE ~LastBurst
    <3>1. state' = "LO_DRAIN" /\ First' = First /\ burst_cnt' = burst_cnt + 1 /\ buf' = buf
      BY <1>8, <2>1, <2>5 DEF DrainAck, First
    <3>2. flash_loading' /\ busy'
      BY <3>1 DEF flash_loading, saving, busy
    <3>3. WholeInv' /\ KeptInv'
      BY <3>2 DEF WholeInv, KeptInv
    <3>4. ASSUME ~disturbed, NEW u \in Units, u < First
          PROVE  flash'[u] = promised[u]
      <4>1. u <= First + burst_cnt
        BY <2>1, <3>4 DEF Units
      <4>2. QED
        BY <2>4, <3>4, <4>1
    <3>5. ASSUME ~disturbed, NEW b \in 0 .. Bursts - 1, b < burst_cnt'
          PROVE  flash'[First + b] = buf[b]
      <4>1. First + b \in Units /\ First + b <= First + burst_cnt
        BY <2>1, <3>1, <3>5, Blocks
      <4>2. QED
        BY <2>2, <2>4, <3>5, <4>1
    <3>6. LoadInv'
      BY <1>1, <1>3, <2>2, <3>1, <3>4, <3>5 DEF LoadInv
    <3>7. QED
      BY <1>5, <3>3, <3>6 DEF SaverRest
  <2>6. CASE LastBurst
    <3>1. First + burst_cnt = First + Bursts - 1
      BY <2>1, <2>6, Sizes DEF LastBurst
    <3>2. ASSUME ~disturbed, NEW u \in Units, u < First + Bursts
          PROVE  flash'[u] = promised[u]
      <4>1. u <= First + burst_cnt
        BY <2>1, <3>1, <3>2, Sizes DEF Units
      <4>2. QED
        BY <2>4, <3>2, <4>1
    <3>3. CASE LastBlock
      <4>1. state' = "IDLE"
        BY <1>8, <2>6, <3>3 DEF DrainAck, NextBlock
      <4>2. LoadInv'
        BY <4>1 DEF LoadInv, flash_loading, busy
      <4>3. ASSUME ~disturbed
            PROVE  flash' = promised
        <5>1. \A u \in Units : flash'[u] = promised[u]
          BY <3>2, <3>3, <4>3, Blocks
        <5>2. flash' = [u \in Units |-> flash'[u]]
          BY <2>1 DEF TypeOK, Image
        <5>3. promised = [u \in Units |-> promised[u]]
          BY <1>3, <4>3 DEF Image
        <5>4. QED
          BY <5>1, <5>2, <5>3
      <4>4. WholeInv' /\ KeptInv'
        BY <1>1, <1>3, <4>3 DEF WholeInv, KeptInv
      <4>5. QED
        BY <1>5, <4>2, <4>4 DEF SaverRest
    <3>4. CASE ~LastBlock
      <4>1. state' = "LO_RD" /\ First' = First + Bursts
        <5>1. state' = "LO_RD" /\ block_cnt' = block_cnt + 1
          BY <1>8, <2>6, <3>4 DEF DrainAck, NextBlock
        <5>2. QED
          BY <5>1, Blocks DEF First
      <4>2. flash_loading' /\ busy'
        BY <4>1 DEF flash_loading, saving, busy
      <4>3. LoadInv' /\ WholeInv' /\ KeptInv'
        BY <1>1, <1>3, <3>2, <4>1, <4>2 DEF LoadInv, WholeInv, KeptInv
      <4>4. QED
        BY <1>5, <4>3 DEF SaverRest
    <3>5. QED
      BY <3>3, <3>4
  <2>7. QED
    BY <2>5, <2>6
<1>9. QED
  BY <1>6, <1>8, <1>7

-----------------------------------------------------------------------------
LEMMA SaverInit == Init => SaverInv
<1> SUFFICES ASSUME Init PROVE SaverInv
  OBVIOUS
<1>1. /\ Blank \in Values /\ Saved \in Values /\ BlankImage \in Image /\ 0 \in 0 .. Thresh
      /\ 0 \in 0 .. Bursts - 1 /\ 0 \in 0 .. NumBlocks - 1
  BY Sizes DEF Values, BlankImage, Image
<1>2. disk \in [Files -> Image] /\ flash = BlankImage /\ (mounted <=> disk[file] # BlankImage)
  BY <1>1 DEF Init, Image, Restorable
<1>3. TypeOK
  <2>1. mounted \in BOOLEAN /\ file \in Files
    BY DEF Init, Restorable
  <2>2. buf \in [0 .. Bursts - 1 -> Values]
    BY <1>1 DEF Init
  <2>3. QED
    BY <1>1, <1>2, <2>1, <2>2 DEF Init, TypeOK
<1>4. SaverRest
  BY <1>2 DEF Init, SaverRest, PhaseInv, LoadInv, WholeInv, SaveInv, EraseInv, KeptInv, FreshInv,
              Due, busy, saving, flash_loading
<1>5. QED
  BY <1>3, <1>4 DEF SaverInv

LEMMA SaverStepInv == SaverInv /\ [Next]_vars => SaverInv'
<1> SUFFICES ASSUME SaverInv, [Next]_vars PROVE SaverInv'
  OBVIOUS
<1>1. TypeOK /\ SaverRest /\ TypeOK'
  BY SaverTypeStep DEF SaverInv
<1>2. SaverRest'
  <2>1. CASE PressSave \/ PressErase \/ OpenOsd \/ CloseOsd \/ QuietTick \/ AutoSavedSeen \/ UNCHANGED vars
    <3>1. UNCHANGED <<state, block_cnt, burst_cnt, is_erase, buf, wr_owed, auto_dirty, auto_done,
                      phase, file, mounted, flash_load_taken, dataVars, history>>
      BY <2>1 DEF PressSave, PressErase, OpenOsd, CloseOsd, QuietTick, AutoSavedSeen, vars,
                  saverVars, autoVars, emuVars
    <3>2. QED
      BY <1>1, <3>1, QuietStep
  <2>2. CASE \E u \in Units : FlashWrite(u)
    BY <1>1, <2>2, FlashWriteStep
  <2>3. CASE \E f \in Files : Mount(f)
    BY <1>1, <2>3, MountStep
  <2>4. CASE Reset
    BY <1>1, <2>4, ResetStep
  <2>5. CASE FlashDownload \/ FlashDownloadEnd
    BY <1>1, <2>5, FlashDownloadStep
  <2>6. CASE RomDownload \/ RomDownloadEnd \/ CartDownload \/ SettleEnd
    BY <1>1, <2>6, OtherDownloadStep
  <2>7. CASE StartSave \/ StartErase \/ StartLoad
    BY <1>1, <2>7, StartStep
  <2>8. CASE Fill \/ SectorTaken
    BY <1>1, <2>8, FillStep
  <2>9. CASE SectorWritten
    BY <1>1, <2>9, WrittenStep
  <2>10. CASE SectorRead \/ DrainRequest \/ DrainAck
    BY <1>1, <2>10, LoadStep
  <2>11. QED
    BY <2>1, <2>2, <2>3, <2>4, <2>5, <2>7, <2>8, <2>9, <2>10, <2>6 DEF Next, SaverStep, MainStep, User
<1>3. QED
  BY <1>1, <1>2 DEF SaverInv

(* The saver, slot 4 and the glue of emu.sv stay in order, whatever the     *)
(* user, the game and Main do.                                             *)
THEOREM SaverInvariant == Spec => []SaverInv
<1>1. QED
  BY SaverInit, SaverStepInv, PTL DEF Spec

(* A game that runs with no restore due finds the image it was promised and *)
(* its own writes, whatever order mounts and downloads come in.             *)
THEOREM RestoresAreWhole == Spec => []RestoreIsWhole
<1>1. SaverInv => RestoreIsWhole
  BY DEF SaverInv, SaverRest, WholeInv, RestoreIsWhole, Due, CpuRuns, flash_load_arm
<1>2. QED
  BY <1>1, SaverInvariant, PTL

(* With no SAVE pending, running or armed and nothing cut, the file holds    *)
(* the flash.                                                              *)
THEOREM NothingIsForgotten == Spec => []NothingForgotten
<1>1. SaverInv => NothingForgotten
  BY DEF SaverInv, SaverRest, KeptInv, NothingForgotten, NothingOwed, Due, flash_load_arm
<1>2. QED
  BY <1>1, SaverInvariant, PTL

(* The auto-save fires only for a word no SAVE has seen: it never loops.    *)
THEOREM AutoSaveNeverLoops == Spec => NeverResaves
<1>1. SaverInv /\ [Next]_vars => [StartSave /\ ~save_pending => fresh]_vars
  <2>1. SUFFICES ASSUME SaverInv, StartSave, ~save_pending
                 PROVE  fresh
    OBVIOUS
  <2>2. auto_dirty /\ ~auto_done /\ ~saving
    BY <2>1 DEF StartSave, WantSave, auto_req, Idle, saving
  <2>3. QED
    BY <2>1, <2>2 DEF SaverInv, SaverRest, FreshInv
<1>2. QED
  BY <1>1, SaverInvariant, PTL DEF Spec, NeverResaves

===============================================================================
