----------------------------- MODULE SdramPorts -----------------------------
(***************************************************************************)
(* Channels 3 and 4 of the SDRAM and who shares them: s573_ch4_arb with    *)
(* the saver's read-back (A) and the flash's line fills (B), and the write *)
(* mux of emu.sv with a download, the saver's restore and the flash's      *)
(* write-back.  The controller latches a request and looks at the address  *)
(* when it serves it; it is not reset with the core.                       *)
(*                                                                         *)
(* One step is one edge of clk_1x.  A burst is its address, a write its    *)
(* address and data together; Masked is a write that enables no byte, and  *)
(* stands in a register nobody looks at before it is written again.        *)
(* Assumed of the outside: a transaction of the SDRAM is shorter than a     *)
(* reset, than the fetch of a sector from the card, and than the time from *)
(* the start of a download to its first word and from one word to another. *)
(***************************************************************************)
CONSTANTS Words,   \* addresses of bursts, and words to write
          Masked   \* what the disabled cheat engine's port would write

ASSUME MaskedAssumption == Masked \notin Words

VARIABLES
  own, hold, issue, a_pend, a_hold, b_pend, b_hold,   \* s573_ch4_arb
  sv, mem_req, mem_addr, sv_req, sv_busy, sv_word,    \* s573_flash_saver
  fill, fl_req, fl_addr, wb_req, wb_busy, wb_word,    \* s573_flash
  dl_wr, dl_word, ioctl_wait,                         \* the download
  rst,       \* "none", "core", "button", "flash" (download), "bios" (or exe)
  reset,     \* emu.sv's registered reset of system573_top
  rq3, rq4, buf3, op, ready3, ready4, dout,           \* the controller
  asked,     \* history: the last request on channel 3, and whether a reset
             \* or a download came since
  landed     \* history: the word the controller has just written

arb4Vars  == <<own, hold, issue, a_pend, a_hold, b_pend, b_hold>>
svVars    == <<sv, mem_req, mem_addr, sv_req, sv_busy, sv_word>>
flVars    == <<fill, fl_req, fl_addr, wb_req, wb_busy, wb_word>>
dlVars    == <<dl_wr, dl_word, ioctl_wait>>
sdVars    == <<rq3, rq4, buf3, op, ready3, ready4, dout, asked, landed>>
sdramVars == <<arb4Vars, svVars, flVars, dlVars, rst, reset, sdVars>>

Nothing == [by |-> "nobody", word |-> Masked, lost |-> FALSE]

NoOp == [kind |-> "none", word |-> Masked]

SdramInit ==
  /\ own = "IDLE" /\ issue = FALSE /\ a_pend = FALSE /\ b_pend = FALSE
  /\ hold = Masked /\ a_hold = Masked /\ b_hold = Masked
  /\ sv = "IDLE" /\ mem_req = FALSE /\ sv_req = FALSE /\ sv_busy = FALSE
  /\ mem_addr = Masked /\ sv_word = Masked
  /\ fill = "IDLE" /\ fl_req = FALSE /\ wb_req = FALSE /\ wb_busy = FALSE
  /\ fl_addr = Masked /\ wb_word = Masked
  /\ dl_wr = FALSE /\ dl_word = Masked /\ ioctl_wait = FALSE
  /\ rst = "none" /\ reset = FALSE
  /\ rq3 = FALSE /\ rq4 = FALSE /\ buf3 = Masked /\ op = NoOp
  /\ ready3 = FALSE /\ ready4 = FALSE /\ dout = Masked
  /\ asked = Nothing /\ landed = Masked

-----------------------------------------------------------------------------
(* The wires. *)
ch3_dl == rst \in {"flash", "bios"}

(* The bare mux the arbiter replaced: the saver's address only while it asks. *)
BareMux == IF mem_req THEN mem_addr ELSE fl_addr
ch4_addr == hold

a_ready == ready4 /\ own = "OWN_A"
b_ready == ready4 /\ own = "OWN_B"

ch3_owner == CASE ch3_dl -> "download"
               [] ~ch3_dl /\ sv_busy -> "saver"
               [] ~ch3_dl /\ ~sv_busy /\ wb_busy -> "flash"
               [] OTHER -> "nobody"

ch3_word == CASE ch3_owner = "download" -> dl_word
              [] ch3_owner = "saver" -> sv_word
              [] ch3_owner = "flash" -> wb_word
              [] OTHER -> Masked

ch3_req == \/ ch3_owner = "download" /\ dl_wr
           \/ ch3_owner = "saver" /\ sv_req
           \/ ch3_owner = "flash" /\ wb_req

saver_wr_ack == ready3 /\ ~ch3_dl /\ sv_busy
flash_wr_ack == ready3 /\ ~ch3_dl /\ ~sv_busy /\ wb_busy

flash_loading == sv \in {"LO_RD", "DRAIN_REQ", "DRAIN_WAIT"}

-----------------------------------------------------------------------------
(* s573_ch4_arb: a slot for each client, A first, one transaction at a time. *)
ArbiterReset ==
  /\ own' = "IDLE" /\ issue' = FALSE /\ a_pend' = FALSE /\ b_pend' = FALSE
  /\ UNCHANGED hold

Arbiter4 ==
  LET takeA == own = "IDLE" /\ a_pend
      takeB == own = "IDLE" /\ ~a_pend /\ b_pend
  IN /\ a_hold' = IF mem_req THEN mem_addr ELSE IF takeA THEN Masked ELSE a_hold
     /\ b_hold' = IF fl_req THEN fl_addr ELSE IF takeB THEN Masked ELSE b_hold
     /\ IF rst = "core" THEN ArbiterReset
        ELSE /\ a_pend' = (mem_req \/ (a_pend /\ ~takeA))
             /\ b_pend' = (fl_req \/ (b_pend /\ ~takeB))
             /\ hold' = IF takeA THEN a_hold ELSE IF takeB THEN b_hold
                        ELSE IF ready4 THEN Masked ELSE hold
             /\ issue' = (takeA \/ takeB)
             /\ own' = CASE takeA -> "OWN_A" [] takeB -> "OWN_B"
                         [] own # "IDLE" /\ ready4 -> "IDLE" [] OTHER -> own

(* Nothing of any client in the controller or on its way there. *)
Quiet3 == ~(rq3 \/ ready3) /\ op.kind # "write"

Quiet ==
  /\ Quiet3 /\ ~(rq4 \/ ready4) /\ op = NoOp
  /\ ~(mem_req \/ a_pend \/ fl_req \/ b_pend \/ issue) /\ own = "IDLE"
  /\ ~(sv_req \/ wb_req \/ dl_wr \/ ioctl_wait)

(* s573_flash_saver, as its ports show it: SAVE reads bursts, LOAD fetches a *)
(* sector and writes its words one by one.                                  *)
SaverReset ==
  /\ sv' = "IDLE" /\ mem_req' = FALSE /\ sv_req' = FALSE /\ sv_busy' = FALSE
  /\ mem_addr' = Masked /\ sv_word' = Masked

SaverSteps ==
  \/ sv = "IDLE" /\ sv' \in {"IDLE", "FILL_REQ", "LO_RD"}
  \/ sv = "FILL_REQ" /\ sv' = "FILL_WAIT"
  \/ sv = "FILL_WAIT" /\ ~a_ready /\ UNCHANGED sv
  \/ sv = "FILL_WAIT" /\ a_ready /\ sv' \in {"FILL_REQ", "IDLE"}
  \/ sv = "LO_RD" /\ UNCHANGED sv
  \/ sv = "LO_RD" /\ Quiet /\ reset /\ sv' = "DRAIN_REQ"
  \/ sv = "DRAIN_REQ" /\ sv' = "DRAIN_WAIT"
  \/ sv = "DRAIN_WAIT" /\ ~saver_wr_ack /\ UNCHANGED sv
  \/ sv = "DRAIN_WAIT" /\ saver_wr_ack /\ sv' \in {"DRAIN_REQ", "LO_RD", "IDLE"}

Saver ==
  IF rst \in {"core", "flash"} THEN SaverReset
  ELSE /\ SaverSteps
       /\ mem_req' = (sv = "FILL_REQ") /\ sv_req' = (sv = "DRAIN_REQ")
       /\ sv_busy' = (sv = "DRAIN_REQ" \/ (sv_busy /\ ~saver_wr_ack))
       /\ IF sv = "FILL_REQ" THEN mem_addr' \in Words
          ELSE mem_addr' = IF a_ready THEN Masked ELSE mem_addr
       /\ IF sv = "DRAIN_REQ" THEN sv_word' \in Words
          ELSE sv_word' = IF saver_wr_ack THEN Masked ELSE sv_word

(* s573_flash: the fill of a line, and the write-back of a word. *)
FlashReset ==
  /\ fill' = "IDLE" /\ fl_req' = FALSE /\ wb_req' = FALSE /\ wb_busy' = FALSE
  /\ fl_addr' = Masked /\ wb_word' = Masked

Filling ==
  \/ /\ fill = "IDLE" \/ b_ready
     /\ fill' = "REQ" /\ fl_req' = TRUE /\ fl_addr' \in Words
  \/ /\ fill = "IDLE" \/ b_ready
     /\ fill' = "IDLE" /\ fl_req' = FALSE /\ fl_addr' = Masked
  \/ /\ fill = "REQ" /\ ~b_ready
     /\ fl_req' = FALSE /\ UNCHANGED <<fill, fl_addr>>

WriteBack ==
  \/ ~wb_busy /\ wb_req' = TRUE /\ wb_busy' = TRUE /\ wb_word' \in Words
  \/ /\ wb_req' = FALSE /\ wb_busy' = (wb_busy /\ ~flash_wr_ack)
     /\ wb_word' = IF flash_wr_ack THEN Masked ELSE wb_word

FlashPorts == IF reset THEN FlashReset ELSE Filling /\ WriteBack

(* The download: a word a time, the next one after the controller's answer. *)
Download ==
  \/ /\ ch3_dl /\ reset /\ ~ioctl_wait /\ Quiet3
     /\ dl_wr' = TRUE /\ dl_word' \in Words /\ ioctl_wait' = TRUE
  \/ /\ dl_wr' = FALSE /\ ioctl_wait' = (ch3_dl /\ ioctl_wait /\ ~ready3)
     /\ UNCHANGED dl_word

(* The buttons, the OSD and Main. *)
Resets ==
  /\ \/ rst = "none" /\ rst' \in {"core", "button", "flash", "bios"}
     \/ rst # "none" /\ reset /\ Quiet /\ rst' = "none"
     \/ UNCHANGED rst
  /\ reset' = (rst # "none" \/ flash_loading)

-----------------------------------------------------------------------------
(* The controller.  Channel 3's address and data pass through a register    *)
(* of the fast clock; channel 4's are taken from the wires.                  *)
Latch == rq3' = (rq3 \/ ch3_req) /\ rq4' = (rq4 \/ issue)

Busy ==
  /\ Latch /\ ready3' = FALSE /\ ready4' = FALSE
  /\ dout' = Masked /\ landed' = Masked
  /\ UNCHANGED op

Serve3 ==
  /\ op = NoOp /\ rq3
  /\ \E word \in {buf3, ch3_word} : op' = [kind |-> "write", word |-> word]
  /\ rq3' = ch3_req /\ rq4' = (rq4 \/ issue)
  /\ ready3' = FALSE /\ ready4' = FALSE
  /\ dout' = Masked /\ landed' = Masked

Serve4 ==
  /\ op = NoOp /\ ~rq3 /\ (rq4 \/ issue)
  /\ op' = [kind |-> "read", word |-> ch4_addr]
  /\ rq3' = ch3_req /\ rq4' = FALSE
  /\ ready3' = FALSE /\ ready4' = FALSE
  /\ dout' = Masked /\ landed' = Masked

Finish ==
  /\ op # NoOp
  /\ op' = NoOp
  /\ ready3' = (op.kind = "write") /\ ready4' = (op.kind = "read")
  /\ dout' = IF op.kind = "read" THEN op.word ELSE Masked
  /\ landed' = IF op.kind = "write" THEN op.word ELSE Masked
  /\ Latch

Controller ==
  /\ Busy \/ Serve3 \/ Serve4 \/ Finish
  /\ buf3' = ch3_word
  /\ asked' = IF ready3 THEN Nothing
              ELSE IF ch3_req THEN [by |-> ch3_owner, word |-> ch3_word, lost |-> FALSE]
              ELSE [asked EXCEPT !.lost = @ \/ rst # "none" \/ (asked.by = "flash" /\ reset)]

SdramNext == Arbiter4 /\ Saver /\ FlashPorts /\ Download /\ Resets /\ Controller

-----------------------------------------------------------------------------
(* A client that is told its burst is there finds the burst it asked for:   *)
(* the address was still its own when the controller came to look at it,    *)
(* and the answer to the other client's request is never taken for it.      *)
RightBurst ==
  /\ sv = "FILL_WAIT" /\ a_ready => dout = mem_addr
  /\ fill = "REQ" /\ b_ready => dout = fl_addr

(* What channel 3 writes is the word its owner asked for.  If a reset or a  *)
(* download took the mux since, the word is lost, and in its place nothing  *)
(* is written, or the download's last word once more.  An acknowledge is    *)
(* of the client's own word.                                                *)
RightWord ==
  /\ op.kind = "write" => \/ op.word = asked.word
                          \/ asked.lost /\ op.word \in {Masked, dl_word}
  /\ saver_wr_ack => landed = sv_word
  /\ flash_wr_ack /\ ~reset => landed = wb_word

EachItsOwn == RightBurst /\ RightWord
=============================================================================
