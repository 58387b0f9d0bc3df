--------------------------------- MODULE Nvram ---------------------------------
(***************************************************************************)
(* The battery-backed memory of the M48T58 and its way to the SD card and  *)
(* back: the game's writes, the image loader and the save-back share one   *)
(* port of the memory, and a dirty flag asks Main for a save.              *)
(*                                                                         *)
(* One step is one edge of clk_1x.  The game may write, a byte of the      *)
(* memory or the clock, and Main may do one thing: poll the request, start *)
(* or end an upload or a download, or move a word of it.  Main's words are *)
(* at least WordGap clocks apart and nothing holds it back; the game's     *)
(* writes are at least WriteGap apart, and none comes during a download,   *)
(* which holds the core in reset.  Registers nobody looks at before they   *)
(* are next written are cleared.  The clock's own bytes, which a load      *)
(* drops, are left out.                                                    *)
(***************************************************************************)
LOCAL INSTANCE Integers

CONSTANTS
  NWords,    \* words of the image
  Bytes,     \* what a byte of it can hold
  GameCells, \* bytes of it the game writes
  WordGap,   \* clocks between two words of Main
  WriteGap   \* clocks between two writes of the game

ASSUME NvramAssumption ==
  /\ NWords \in Nat \ {0} /\ {WordGap, WriteGap} \subseteq Nat /\ Bytes # {}
  /\ GameCells \subseteq 0 .. 2 * NWords - 1

(* A write of the game is a whole cycle of its bus, and a word of Main one of *)
(* the serial link, ten to twenty clocks and more.                          *)
ASSUME NvramPaceAssumption == WriteGap >= 5 /\ WordGap >= 11

VARIABLES
  ram,
  saver, sav_addr, base_inflight, lo_tmp, lo_ok, word,  \* s573_nvram_saver
  sav_ram_q, sav_rd_ok,                                 \* the port's read register
  nvram_wr, nv_hi,                                      \* s573_nvram_loader, <<cell, byte>>
  nvram_upload, nvram_upload_d, nvram_dirty,            \* emu.sv
  upload_req, old_upload_req,                           \* hps_io
  nv_main, nv_at,      \* what Main does, and the word ioctl_addr is at
  since, quiet,        \* clocks since Main's last word and the game's last write
  shown,               \* history: what the word at ioctl_addr has been since it came there
  unsaved,             \* history: cells the game wrote that no upload has taken
  stuck,               \* history: the game wrote on the very clock an upload began
  image                \* history: the image Main is loading

memVars  == <<ram, sav_ram_q, sav_rd_ok, nvram_wr, nv_hi>>
backVars == <<saver, sav_addr, base_inflight, lo_tmp, lo_ok, word>>
reqVars  == <<nvram_upload, nvram_upload_d, nvram_dirty, upload_req, old_upload_req>>
nvramVars == <<memVars, backVars, reqVars, nv_main, nv_at, since, quiet, shown, unsaved, stuck, image>>

-----------------------------------------------------------------------------
(* Bytes by their address; a word is an even one and the odd one after it.   *)
Cells == 0 .. 2 * NWords - 1
CellsOf(w) == {2 * w, 2 * w + 1}
Nil == <<>>
ClockWrite == <<"clock">>
ZeroByte == CHOOSE b \in Bytes : TRUE
Blank == [c \in Cells |-> ZeroByte]

Pair(memory, w) == <<memory[2 * w], memory[2 * w + 1]>>

(* The address has as many bits as the image needs: past its end it is 0.   *)
cur_base == 2 * (nv_at % NWords)

NvramInit ==
  /\ ram = Blank /\ image = Blank
  /\ saver = "A0" /\ sav_addr = 0 /\ base_inflight = 0
  /\ lo_tmp = ZeroByte /\ lo_ok = FALSE /\ word = Nil
  /\ sav_ram_q = ZeroByte /\ sav_rd_ok = FALSE /\ nvram_wr = Nil /\ nv_hi = Nil
  /\ nvram_upload = FALSE /\ nvram_upload_d = FALSE /\ nvram_dirty = FALSE
  /\ upload_req = FALSE /\ old_upload_req = FALSE
  /\ nv_main = "idle" /\ nv_at = 0 /\ since = WordGap /\ quiet = WriteGap
  /\ shown = {} /\ unsaved = {} /\ stuck = FALSE

-----------------------------------------------------------------------------
(* The save-back fetches the two bytes of a word over and over.             *)
FetchEven ==
  /\ saver = "A0" /\ saver' = "A1"
  /\ sav_addr' = cur_base /\ base_inflight' = cur_base
  /\ UNCHANGED <<lo_tmp, lo_ok, word>>

FetchOdd ==
  /\ saver = "A1" /\ saver' = "C0"
  /\ sav_addr' = base_inflight + 1
  /\ UNCHANGED <<base_inflight, lo_tmp, lo_ok, word>>

TakeEven ==
  /\ saver = "C0" /\ saver' = "C1"
  /\ lo_tmp' = sav_ram_q /\ lo_ok' = sav_rd_ok /\ sav_addr' = 0
  /\ UNCHANGED <<base_inflight, word>>

(* mutant: a displaced read of the odd byte is taken all the same *)
GoodEven == lo_ok /\ base_inflight = cur_base

Good == lo_ok /\ sav_rd_ok /\ base_inflight = cur_base

Commit ==
  /\ saver = "C1" /\ saver' = "A0"
  /\ word' = IF Good THEN <<lo_tmp, sav_ram_q>> ELSE word
  /\ lo_tmp' = ZeroByte /\ lo_ok' = FALSE /\ base_inflight' = 0
  /\ UNCHANGED sav_addr

Rest ==
  /\ saver' = "A0" /\ sav_addr' = 0 /\ base_inflight' = 0
  /\ lo_tmp' = ZeroByte /\ lo_ok' = FALSE /\ word' = Nil

SaveBack ==
  IF nvram_upload THEN FetchEven \/ FetchOdd \/ TakeEven \/ Commit ELSE Rest

(* The shared port: the game's write, else the loader's, else a read.       *)
ArrayPort(bus) ==
  LET wr == IF bus \notin {Nil, ClockWrite} THEN bus ELSE nvram_wr
      reading == wr = Nil /\ saver \in {"A1", "C0"} /\ nvram_upload
  IN /\ ram' = IF wr # Nil THEN [ram EXCEPT ![wr[1]] = wr[2]] ELSE ram
     /\ sav_rd_ok' = reading
     /\ sav_ram_q' = IF reading THEN ram[sav_addr] ELSE ZeroByte

(* The loader: the even byte of a word now, the odd one on the next clock.  *)
Unpack(pair) ==
  /\ nvram_wr' = IF nv_hi # Nil THEN nv_hi
                 ELSE IF pair # Nil THEN <<2 * nv_at, pair[1]>> ELSE Nil
  /\ nv_hi' = IF nv_hi = Nil /\ pair # Nil THEN <<2 * nv_at + 1, pair[2]>> ELSE Nil

-----------------------------------------------------------------------------
(* The dirty flag, and the edge of it that hps_io latches for Main.         *)
begins == nvram_upload /\ ~nvram_upload_d

(* mutant: the flag falls when the upload ends *)
ClearsAtEnd == ~nvram_upload /\ nvram_upload_d

Clears == begins

Dirty(bus) ==
  /\ nvram_upload' = (nv_main = "upload") /\ nvram_upload_d' = nvram_upload
  /\ nvram_dirty' = (bus # Nil \/ (nvram_dirty /\ ~Clears))
  /\ stuck' = IF begins THEN bus # Nil ELSE stuck

RaiseRequest(polled) ==
  /\ old_upload_req' = nvram_dirty
  /\ upload_req' = (~polled /\ (upload_req \/ (nvram_dirty /\ ~old_upload_req)))

(* A clock on which Main moves no word and polls nothing, or does.          *)
NvramEdge(bus, polled, pair) ==
  /\ SaveBack /\ ArrayPort(bus) /\ Unpack(pair) /\ Dirty(bus) /\ RaiseRequest(polled)
  /\ bus # Nil => quiet = WriteGap /\ nv_main # "load"
  /\ quiet' = IF bus # Nil THEN 0 ELSE IF quiet < WriteGap THEN quiet + 1 ELSE quiet

Written(bus) == IF bus \notin {Nil, ClockWrite} THEN {bus[1]} ELSE {}

Stays ==
  /\ since' = IF since < WordGap THEN since + 1 ELSE since
  /\ UNCHANGED <<nv_main, nv_at, image>>

(* A command or a word of Main is WordGap clocks before the next; when it has *)
(* nothing under way the commands are further apart still.                  *)
Moves(doing, at) ==
  /\ since = WordGap /\ since' = (IF doing \in {"upload", "load"} THEN 0 ELSE WordGap)
  /\ nv_main' = doing /\ nv_at' = at

AtRest == ~nvram_upload /\ ~nvram_upload_d

Idle(bus) ==
  /\ Stays /\ NvramEdge(bus, FALSE, Nil)
  /\ shown' = IF nv_main = "upload" THEN shown \cup {Pair(ram', nv_at % NWords)} ELSE {}
  /\ unsaved' = unsaved \cup Written(bus)

Poll(bus) ==
  /\ nv_main = "idle" /\ upload_req
  /\ Moves("asked", 0) /\ NvramEdge(bus, TRUE, Nil)
  /\ unsaved' = unsaved \cup Written(bus)
  /\ UNCHANGED <<shown, image>>

(* The request was seen, or the player saves the settings.                  *)
StartUpload(bus) ==
  /\ nv_main \in {"idle", "asked"} /\ AtRest
  /\ Moves("upload", 0) /\ NvramEdge(bus, FALSE, Nil)
  /\ shown' = {Pair(ram', 0)}
  /\ unsaved' = unsaved \cup Written(bus)
  /\ UNCHANGED image

(* A word goes up as it stands, and the address moves on.                   *)
TakeWord(bus) ==
  /\ nv_main = "upload" /\ nv_at < NWords
  /\ Moves("upload", nv_at + 1) /\ NvramEdge(bus, FALSE, Nil)
  /\ shown' = {Pair(ram', (nv_at + 1) % NWords)}
  /\ unsaved' = (IF word = Pair(ram, nv_at) THEN unsaved \ CellsOf(nv_at)
                 ELSE unsaved) \cup Written(bus)
  /\ UNCHANGED image

EndUpload(bus) ==
  /\ nv_main = "upload" /\ nv_at = NWords
  /\ Moves("idle", 0) /\ NvramEdge(bus, FALSE, Nil)
  /\ shown' = {} /\ unsaved' = unsaved \cup Written(bus)
  /\ UNCHANGED image

StartLoad ==
  /\ nv_main = "idle" /\ AtRest
  /\ Moves("load", 0) /\ NvramEdge(Nil, FALSE, Nil)
  /\ image' = ram
  /\ UNCHANGED <<shown, unsaved>>

LoadWord ==
  /\ nv_main = "load" /\ nv_at < NWords
  /\ \E p \in Bytes \X Bytes :
       /\ NvramEdge(Nil, FALSE, p)
       /\ image' = [image EXCEPT ![2 * nv_at] = p[1], ![2 * nv_at + 1] = p[2]]
  /\ Moves("load", nv_at + 1)
  /\ unsaved' = unsaved \ CellsOf(nv_at)
  /\ UNCHANGED shown

EndLoad ==
  /\ nv_main = "load" /\ nv_at = NWords
  /\ Moves("idle", 0) /\ NvramEdge(Nil, FALSE, Nil)
  /\ image' = Blank
  /\ UNCHANGED <<shown, unsaved>>

(* What the game can do on a clock: nothing, set the clock, change a byte.  *)
BusWrites == {Nil, ClockWrite} \cup {w \in GameCells \X Bytes : ram[w[1]] # w[2]}

NvramNext ==
  \/ \E bus \in BusWrites :
       Idle(bus) \/ Poll(bus) \/ StartUpload(bus) \/ TakeWord(bus) \/ EndUpload(bus)
  \/ StartLoad \/ LoadWord \/ EndLoad

-----------------------------------------------------------------------------
(* No word of an image is torn or of another place: what Main would take up *)
(* is the two bytes as they stood together since the address came to them,  *)
(* whatever the game wrote meanwhile, though nothing holds Main back; and   *)
(* both bytes of every word that came down are in the memory.               *)
ImagesWhole ==
  /\ nv_main = "upload" /\ since = WordGap /\ nv_at < NWords => word \in shown
  /\ nv_main = "load" /\ since = WordGap =>
       \A c \in Cells : c < 2 * nv_at => ram[c] = image[c]

(* A byte the game wrote is on its way to the card: the running upload has  *)
(* yet to come to it, or a save is asked for, or the edge that asks is      *)
(* there.  Excepted is a flag set on the very clock an upload clears it: it *)
(* never falls, so there is no edge, until Main saves for another reason.   *)
SaveIsAsked ==
  \A c \in unsaved :
    \/ nv_main = "upload" /\ nv_at <= c \div 2
    \/ nv_main = "asked" \/ upload_req \/ (nvram_dirty /\ ~old_upload_req)
    \/ stuck
=============================================================================
