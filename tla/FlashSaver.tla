----------------------------- MODULE FlashSaver -----------------------------
(***************************************************************************)
(* The onboard flash kept on the SD card: s573_flash_saver (SAVE, ERASE,   *)
(* the install-complete auto-save, the LOAD that restores the image) with  *)
(* the glue of emu.sv around it: the mount of slot 4, the one-shot that    *)
(* arms the LOAD, the downloads and their settle time, the OSD triggers    *)
(* and flash_dirty.                                                        *)
(*                                                                         *)
(* The image is a value per burst; a block is Bursts of them.  Main is one *)
(* thread: it mounts, resets, downloads and opens the OSD between sectors, *)
(* never inside one (MainTurn), and serves no sector inside a download.    *)
(***************************************************************************)
EXTENDS Naturals, FiniteSets

CONSTANTS
  NumBlocks,   \* NUM_BLOCKS, 16384
  Bursts,      \* BURSTS_PER_BLOCK, 64
  Thresh,      \* AUTOSAVE_THRESH, in ticks of the quiet-window timer
  Files,       \* the save files that can be mounted
  NewFiles,    \* the ones that are empty (a first boot)
  MaxWrites,   \* bounds of a run: words programmed,
  MaxEvents    \* and buttons, mounts, downloads and resets together

ASSUME SizeAssumption == NumBlocks \in Nat \ {0} /\ Bursts \in Nat \ {0} /\ Thresh \in Nat \ {0}
ASSUME FilesAssumption == NewFiles \subseteq Files
ASSUME BoundsAssumption ==
  \A b \in {MaxWrites, MaxEvents} : b \in Nat

VARIABLES
  (* the saver *)
  state, block_cnt, burst_cnt, is_erase, is_auto, save_pending, erase_pending,
  idle_cnt, auto_dirty, auto_done, auto_saved, buf,
  wr_owed,             \* a word of the LOAD is with the SDRAM, its acknowledge to come
  (* slot 4 *)
  sd_ack,
  (* emu.sv *)
  phase,               \* "flash_download", "rom_download" (BIOS or EXE), "settle" (3 s
                       \* after any download), "run"
  file, mounted, flash_load_taken, flash_dirty, osd,
  (* outside *)
  flash, disk,         \* the image in SDRAM, the image in each file
  left,                \* what the run may still do
  (* history *)
  promised,            \* the image the game should find
  disturbed,           \* a LOAD or SAVE was cut by a reset, or the file changed under it
  late,                \* a word landed while a SAVE was streaming
  parted,              \* flash and file differ on purpose: an ERASE, an empty file mounted,
                       \* a blank downloaded with nothing to restore
  fresh                \* a word landed since the last SAVE began

saverVars == <<state, block_cnt, burst_cnt, is_erase, is_auto, save_pending, erase_pending, buf,
               wr_owed>>
autoVars  == <<idle_cnt, auto_dirty, auto_done, auto_saved>>
emuVars   == <<phase, file, mounted, flash_load_taken, flash_dirty, osd>>
dataVars  == <<flash, disk>>
history   == <<promised, disturbed, late, parted, fresh>>
vars == <<saverVars, autoVars, sd_ack, emuVars, dataVars, left, history>>

-----------------------------------------------------------------------------
Blank == 0
Saved == 1       \* what a file with an install in it holds
Installed == 2   \* what an install programs
Values == {Blank, Saved, Installed}

Units == 0 .. NumBlocks * Bursts - 1

Image == [Units -> Values]

BlankImage == [u \in Units |-> Blank]

(* The burst the counters point at. *)
Unit == block_cnt * Bursts + burst_cnt

(* The flash with the word of the LOAD in it. *)
Drained == [flash EXCEPT ![Unit] = buf[burst_cnt]]

(* A word that is with the SDRAM when its writer lets go may land or not.   *)
Landing == flash' \in {flash} \cup (IF wr_owed THEN {Drained} ELSE {})

busy == state # "IDLE"

saving == state \in {"FILL", "SA_WR", "SA_ACK"}

flash_loading == busy /\ ~saving

flash_load_arm == mounted /\ phase = "run" /\ ~flash_load_taken

CpuRuns == phase = "run" /\ ~flash_loading

auto_req == auto_dirty /\ ~auto_done /\ idle_cnt = Thresh

(* A download that goes to the SDRAM has its channel 3. *)
ch3_dl == phase \in {"flash_download", "rom_download"}

(* S_IDLE, out of reset. *)
Idle == state = "IDLE" /\ phase # "flash_download"

WantSave == save_pending \/ auto_req

(* Main is between sectors and downloads, and thousands of clocks from its    *)
(* last event: the saver has started what it can.                            *)
MainTurn == ~sd_ack /\ ~ch3_dl /\ ~(Idle /\ (WantSave \/ erase_pending \/ flash_load_arm))

LastBlock == block_cnt = NumBlocks - 1

LastBurst == burst_cnt = Bursts - 1

(* img_size > 0: the file holds an image. *)
Restorable(f) == disk[f] # BlankImage

Spend(event) == left[event] > 0 /\ left' = [left EXCEPT ![event] = @ - 1]

Init ==
  /\ state = "IDLE" /\ block_cnt = 0 /\ burst_cnt = 0
  /\ is_erase = FALSE /\ is_auto = FALSE /\ save_pending = FALSE /\ erase_pending = FALSE
  /\ idle_cnt = 0 /\ auto_dirty = FALSE /\ auto_done = FALSE /\ auto_saved = FALSE
  /\ buf = [b \in 0 .. Bursts - 1 |-> Blank]
  /\ wr_owed = FALSE /\ sd_ack = FALSE
  /\ disk = [f \in Files |-> [u \in Units |-> IF f \in NewFiles THEN Blank ELSE Saved]]
  /\ file \in Files /\ mounted = Restorable(file) /\ flash_load_taken = FALSE
  /\ phase = "run" /\ flash_dirty = FALSE /\ osd = FALSE
  /\ flash = BlankImage
  /\ left = [write |-> MaxWrites, event |-> MaxEvents]
  /\ promised = BlankImage /\ disturbed = FALSE /\ late = FALSE /\ parted = FALSE /\ fresh = FALSE

-----------------------------------------------------------------------------
(* The requests. *)

SaveTrigger == save_pending' = TRUE /\ flash_dirty' = FALSE

NoTrigger == UNCHANGED <<save_pending, flash_dirty>>

PressSave ==
  /\ MainTurn /\ Spend("event") /\ SaveTrigger
  /\ UNCHANGED <<state, block_cnt, burst_cnt, is_erase, is_auto, erase_pending, buf, wr_owed,
                 autoVars, sd_ack, phase, file, mounted, flash_load_taken, osd, dataVars, history>>

PressErase ==
  /\ MainTurn /\ Spend("event")
  /\ erase_pending' = TRUE
  /\ UNCHANGED <<state, block_cnt, burst_cnt, is_erase, is_auto, save_pending, buf, wr_owed,
                 autoVars, sd_ack, emuVars, dataVars, history>>

(* OSD_STATUS & flash_dirty is high for one clock: the trigger it makes     *)
(* clears flash_dirty.                                                      *)
OpenOsd ==
  /\ MainTurn /\ ~osd
  /\ osd' = TRUE
  /\ IF flash_dirty THEN SaveTrigger ELSE NoTrigger
  /\ UNCHANGED <<state, block_cnt, burst_cnt, is_erase, is_auto, erase_pending, buf, wr_owed,
                 autoVars, sd_ack, phase, file, mounted, flash_load_taken, dataVars, left, history>>

CloseOsd ==
  /\ MainTurn /\ osd
  /\ osd' = FALSE
  /\ UNCHANGED <<saverVars, autoVars, sd_ack, phase, file, mounted, flash_load_taken, flash_dirty,
                 dataVars, left, history>>

(* mutant: the one-shot is not re-armed *)
EpisodeOnce == auto_dirty' = TRUE /\ idle_cnt' = 0 /\ UNCHANGED auto_done

(* A write begins an episode, or begins it again. *)
Episode == auto_dirty' = TRUE /\ auto_done' = FALSE /\ idle_cnt' = 0

(* A program word lands (flash_wr_ack).  An open OSD turns flash_dirty into *)
(* a trigger at the next clock; the pulse of a finished auto-save clears it.*)
FlashWrite(u) ==
  /\ CpuRuns /\ Spend("write")
  /\ flash' = [flash EXCEPT ![u] = Installed]
  /\ promised' = [promised EXCEPT ![u] = Installed]
  /\ Episode /\ auto_saved' = FALSE
  /\ save_pending' = (save_pending \/ (osd /\ ~auto_saved))
  /\ flash_dirty' = (~osd /\ ~auto_saved)
  /\ late' = (late \/ (saving /\ ~is_erase))
  /\ fresh' = TRUE
  /\ UNCHANGED <<state, block_cnt, burst_cnt, is_erase, is_auto, erase_pending, buf, wr_owed,
                 sd_ack, phase, file, mounted, flash_load_taken, osd, disk, disturbed, parted>>

QuietTick ==
  /\ idle_cnt < Thresh
  /\ idle_cnt' = idle_cnt + 1
  /\ UNCHANGED <<saverVars, auto_dirty, auto_done, auto_saved, sd_ack, emuVars, dataVars, left, history>>

(* emu.sv sees the auto_saved pulse. *)
AutoSavedSeen ==
  /\ auto_saved
  /\ auto_saved' = FALSE /\ flash_dirty' = FALSE
  /\ UNCHANGED <<saverVars, idle_cnt, auto_dirty, auto_done, sd_ack, phase, file, mounted,
                 flash_load_taken, osd, dataVars, left, history>>

-----------------------------------------------------------------------------
(* Slot 4, downloads, resets. *)

(* A mount re-arms the LOAD; a LOAD that is running takes the new arm.      *)
Remount(f) == flash_load_taken' = (flash_loading /\ Restorable(f) /\ phase = "run")

Mount(f) ==
  /\ MainTurn /\ Spend("event")
  /\ file' = f /\ mounted' = Restorable(f)
  /\ Remount(f)
  /\ promised' = IF Restorable(f) THEN disk[f] ELSE flash
  /\ disturbed' = (disturbed \/ busy)
  /\ parted' = ~Restorable(f)
  /\ UNCHANGED <<saverVars, autoVars, sd_ack, phase, flash_dirty, osd, dataVars, late, fresh>>

SaverReset ==
  /\ state' = "IDLE"
  /\ save_pending' = FALSE /\ erase_pending' = FALSE /\ is_erase' = FALSE /\ is_auto' = FALSE
  /\ auto_dirty' = FALSE /\ auto_done' = FALSE /\ idle_cnt' = 0 /\ auto_saved' = FALSE
  /\ wr_owed' = FALSE
  /\ UNCHANGED <<block_cnt, burst_cnt, buf>>

(* The reset of the OSD (status[0]). *)
Reset ==
  /\ MainTurn /\ Spend("event")
  /\ SaverReset /\ Landing
  /\ disturbed' = (disturbed \/ busy \/ save_pending \/ auto_dirty)
  /\ UNCHANGED <<sd_ack, emuVars, disk, promised, late, parted, fresh>>

(* mutant: emu.sv before 2026-07-31 *)
NoRearm == UNCHANGED flash_load_taken

(* An index-2 download resets the saver and re-arms the LOAD, for as long   *)
(* as it lasts.                                                             *)
Rearm == flash_load_taken' = FALSE

(* Downloads follow one another, some within the 3 s of the one before.     *)
DownloadTurn == MainTurn /\ Spend("event")

FlashDownload ==
  /\ DownloadTurn
  /\ phase' = "flash_download"
  /\ SaverReset /\ Rearm
  /\ disturbed' = (disturbed \/ saving \/ save_pending \/ auto_dirty)
  /\ UNCHANGED <<sd_ack, file, mounted, flash_dirty, osd, dataVars, promised, late, parted, fresh>>

FlashDownloadEnd ==
  /\ phase = "flash_download"
  /\ phase' = "settle"
  /\ flash' = BlankImage
  /\ promised' = IF mounted THEN disk[file] ELSE BlankImage
  /\ parted' = (parted \/ ~mounted)
  /\ UNCHANGED <<saverVars, autoVars, sd_ack, file, mounted, flash_load_taken, flash_dirty, osd,
                 disk, left, disturbed, late, fresh>>

(* A BIOS or an EXE takes channel 3 and does not reset the saver.  The      *)
(* acknowledge of a word it finds with the SDRAM is masked, for good.       *)
RomDownload ==
  /\ DownloadTurn
  /\ phase' = "rom_download"
  /\ Landing /\ wr_owed' = FALSE
  /\ UNCHANGED <<state, block_cnt, burst_cnt, is_erase, is_auto, save_pending, erase_pending, buf,
                 autoVars, sd_ack, file, mounted, flash_load_taken, flash_dirty, osd, disk,
                 history>>

RomDownloadEnd ==
  /\ phase = "rom_download"
  /\ phase' = "settle"
  /\ UNCHANGED <<saverVars, autoVars, sd_ack, file, mounted, flash_load_taken, flash_dirty, osd,
                 dataVars, left, history>>

(* The NVRAM and the two halves of the security cart touch neither the      *)
(* SDRAM nor the saver: the hold starts again.                              *)
CartDownload ==
  /\ DownloadTurn
  /\ phase' = "settle"
  /\ UNCHANGED <<saverVars, autoVars, sd_ack, file, mounted, flash_load_taken, flash_dirty, osd,
                 dataVars, history>>

(* The arm that comes back with the end of the hold is taken by a LOAD that *)
(* still runs.                                                              *)
SettleEnd ==
  /\ phase = "settle"
  /\ phase' = "run"
  /\ flash_load_taken' = (flash_load_taken \/ (mounted /\ flash_loading))
  /\ UNCHANGED <<saverVars, autoVars, sd_ack, file, mounted, flash_dirty, osd, dataVars, left,
                 history>>

-----------------------------------------------------------------------------
(* S_IDLE: SAVE before ERASE before LOAD. *)

(* mutant: the counter is left where the last transfer ended *)
FirstBlockStale == burst_cnt' = 0 /\ UNCHANGED block_cnt

FirstBlock == burst_cnt' = 0 /\ block_cnt' = 0

StartSave ==
  /\ Idle /\ WantSave
  /\ state' = "FILL" /\ FirstBlock
  /\ is_erase' = FALSE /\ save_pending' = FALSE
  /\ is_auto' = ~save_pending
  /\ auto_done' = (auto_done \/ ~save_pending)
  /\ late' = FALSE /\ parted' = FALSE /\ fresh' = FALSE
  /\ UNCHANGED <<erase_pending, buf, wr_owed, idle_cnt, auto_dirty, auto_saved, sd_ack, emuVars,
                 dataVars, left, promised, disturbed>>

StartErase ==
  /\ Idle /\ ~WantSave /\ erase_pending
  /\ state' = "FILL" /\ FirstBlock
  /\ is_erase' = TRUE /\ erase_pending' = FALSE
  /\ parted' = TRUE
  /\ UNCHANGED <<is_auto, save_pending, buf, wr_owed, autoVars, sd_ack, emuVars, dataVars, left,
                 promised, disturbed, late, fresh>>

(* emu.sv takes the arm when the LOAD starts. *)
Taken == flash_load_taken' = TRUE

StartLoad ==
  /\ Idle /\ ~WantSave /\ ~erase_pending /\ flash_load_arm
  /\ state' = "LO_RD" /\ block_cnt' = 0 /\ Taken
  /\ promised' = disk[file] /\ late' = FALSE /\ parted' = FALSE
  /\ UNCHANGED <<burst_cnt, is_erase, is_auto, save_pending, erase_pending, buf, wr_owed,
                 autoVars, sd_ack, phase, file, mounted, flash_dirty, osd, dataVars, left, disturbed, fresh>>

(* SAVE and ERASE: a block is read burst by burst, then handed to Main. *)
Fill ==
  /\ state = "FILL"
  /\ buf' = [buf EXCEPT ![burst_cnt] = IF is_erase THEN Blank ELSE flash[Unit]]
  /\ IF LastBurst THEN state' = "SA_WR" /\ burst_cnt' = 0
                  ELSE state' = state /\ burst_cnt' = burst_cnt + 1
  /\ UNCHANGED <<block_cnt, is_erase, is_auto, save_pending, erase_pending, wr_owed, autoVars,
                 sd_ack, emuVars, dataVars, left, history>>

(* Main takes the request: sd_ack rises and the request is withdrawn. *)
SectorTaken ==
  /\ state \in {"SA_WR", "LO_RD"} /\ ~sd_ack /\ ~ch3_dl
  /\ sd_ack' = TRUE
  /\ state' = IF state = "SA_WR" THEN "SA_ACK" ELSE "LO_ACK"
  /\ UNCHANGED <<block_cnt, burst_cnt, is_erase, is_auto, save_pending, erase_pending, buf, wr_owed,
                 autoVars, emuVars, dataVars, left, history>>

InBlock(u) == u \div Bursts = block_cnt

NextBlock(next) ==
  IF LastBlock THEN state' = "IDLE" /\ UNCHANGED block_cnt
               ELSE state' = next /\ block_cnt' = block_cnt + 1

(* mutant: only a self-fired SAVE settles *)
SettledIfAuto == LastBlock /\ is_auto

(* A SAVE that completes settles the episode; an ERASE does not. *)
Settled == LastBlock /\ ~is_erase

SectorWritten ==
  /\ state = "SA_ACK"
  /\ sd_ack' = FALSE
  /\ disk' = [disk EXCEPT ![file] = [u \in Units |-> IF InBlock(u) THEN buf[u % Bursts] ELSE @[u]]]
  /\ NextBlock("FILL") /\ burst_cnt' = 0
  /\ auto_dirty' = (auto_dirty /\ ~Settled)
  /\ auto_saved' = (Settled /\ is_auto)
  /\ UNCHANGED <<is_erase, is_auto, save_pending, erase_pending, buf, wr_owed, idle_cnt, auto_done,
                 emuVars, flash, left, history>>

(* LOAD: a block is staged, then written burst by burst. *)
SectorRead ==
  /\ state = "LO_ACK"
  /\ sd_ack' = FALSE
  /\ buf' = [b \in 0 .. Bursts - 1 |-> disk[file][block_cnt * Bursts + b]]
  /\ state' = "LO_DRAIN" /\ burst_cnt' = 0
  /\ UNCHANGED <<block_cnt, is_erase, is_auto, save_pending, erase_pending, wr_owed, autoVars,
                 emuVars, dataVars, left, history>>

(* The word is asked for once; a download that has the channel hides the    *)
(* request from the SDRAM.                                                  *)
DrainRequest ==
  /\ state = "LO_DRAIN"
  /\ state' = "LO_DRAIN_WAIT" /\ wr_owed' = ~ch3_dl
  /\ UNCHANGED <<block_cnt, burst_cnt, is_erase, is_auto, save_pending, erase_pending, buf, autoVars,
                 sd_ack, emuVars, dataVars, left, history>>

(* saver_wr_ack: the SDRAM's done, unless a download masks it. *)
DrainAck ==
  /\ state = "LO_DRAIN_WAIT" /\ wr_owed /\ ~ch3_dl
  /\ wr_owed' = FALSE /\ flash' = Drained
  /\ IF LastBurst THEN NextBlock("LO_RD") /\ burst_cnt' = 0
                  ELSE state' = "LO_DRAIN" /\ burst_cnt' = burst_cnt + 1 /\ UNCHANGED block_cnt
  /\ UNCHANGED <<is_erase, is_auto, save_pending, erase_pending, buf, autoVars, sd_ack, emuVars,
                 disk, left, history>>

SaverStep == StartSave \/ StartErase \/ StartLoad \/ Fill \/ DrainRequest \/ DrainAck

MainStep == SectorTaken \/ SectorWritten \/ SectorRead

User ==
  \/ PressSave \/ PressErase \/ OpenOsd \/ CloseOsd \/ Reset
  \/ FlashDownload \/ RomDownload \/ CartDownload
  \/ \E f \in Files : Mount(f)

Next ==
  \/ SaverStep \/ MainStep \/ User
  \/ QuietTick \/ AutoSavedSeen \/ FlashDownloadEnd \/ RomDownloadEnd \/ SettleEnd
  \/ \E u \in Units : FlashWrite(u)

Spec == Init /\ [][Next]_vars

(* The clock runs, the SDRAM answers, Main polls slot 4 and finishes its     *)
(* sectors and downloads.                                                    *)
FairSpec ==
  /\ Spec
  /\ WF_vars(SaverStep) /\ WF_vars(MainStep)
  /\ WF_vars(QuietTick) /\ WF_vars(AutoSavedSeen)
  /\ WF_vars(FlashDownloadEnd \/ RomDownloadEnd) /\ WF_vars(SettleEnd)

-----------------------------------------------------------------------------
(* Every register keeps its range. *)
TypeOK ==
  /\ state \in {"IDLE", "FILL", "SA_WR", "SA_ACK", "LO_RD", "LO_ACK", "LO_DRAIN",
               "LO_DRAIN_WAIT"}
  /\ block_cnt \in 0 .. NumBlocks - 1 /\ burst_cnt \in 0 .. Bursts - 1
  /\ {is_erase, is_auto, save_pending, erase_pending, auto_dirty, auto_done, auto_saved} \subseteq BOOLEAN
  /\ idle_cnt \in 0 .. Thresh /\ buf \in [0 .. Bursts - 1 -> Values]
  /\ phase \in {"flash_download", "rom_download", "settle", "run"} /\ file \in Files
  /\ {wr_owed, sd_ack, mounted, flash_load_taken, flash_dirty, osd} \subseteq BOOLEAN
  /\ flash \in Image /\ disk \in [Files -> Image]

(* The ordering guard of the restore: whatever order mounts and downloads   *)
(* come in, a game that runs with no restore due finds the image it was     *)
(* promised (the mounted save, or the blank) plus its own writes - unless a *)
(* reset or another mount hit a transfer.  The walk of the blocks stays      *)
(* inside the image.                                                        *)
RestoreIsWhole == TypeOK /\ (CpuRuns /\ ~flash_load_arm /\ ~disturbed => flash = promised)

(* No boot off a half-restored flash, as the comment on flash_loading has   *)
(* it: with no exception for resets.                                        *)
NeverHalfRestored == CpuRuns /\ ~flash_load_arm => flash = promised

(* Nothing is owed: no SAVE pending, running or armed.                      *)
NothingOwed == ~busy /\ ~save_pending /\ ~auto_dirty /\ ~flash_dirty /\ ~flash_load_arm /\ phase = "run"

(* The dirty flags mean what they say: with nothing owed the file holds the *)
(* flash - unless the two were parted on purpose, a word landed under a running   *)
(* SAVE, or a transfer was cut.                                             *)
NothingForgotten ==
  NothingOwed /\ ~late /\ ~parted /\ ~disturbed => disk[file] = flash

(* The two save paths are redundant safety nets: an install that is not in  *)
(* the file has one of them still raised.  Checked of runs with one file    *)
(* that no one erases.                                                      *)
SafetyNets == NothingOwed /\ ~parted => disk[file] = flash

(* The auto-save never loops: it starts only if a word landed since the     *)
(* last SAVE began.                                                         *)
NeverResaves == [][StartSave /\ ~save_pending => fresh]_vars

(* The LOAD the mount asked for happens, and the game gets out of reset.    *)
RestoreEnds == flash_load_arm \/ flash_loading ~> CpuRuns /\ ~flash_load_arm

(* An install is saved: the episode ends, by a completed SAVE or a reset.   *)
EpisodeEnds == auto_dirty ~> ~auto_dirty

(* The saver waits for a word the SDRAM does not owe it. *)
Stranded == state = "LO_DRAIN_WAIT" /\ ~wr_owed

(* Whatever moves between the flash and the card comes to its end, with     *)
(* downloads of every kind before, inside and after it - or the saver waits *)
(* for ever for an acknowledge that a BIOS or EXE download masked, the one  *)
(* way there is to miss it.                                                 *)
TransfersEnd == <>[]Stranded \/ (RestoreEnds /\ EpisodeEnds)
=============================================================================
