-------------------------------- MODULE Atapi --------------------------------
(***************************************************************************)
(* The CD drive: the ATAPI task file and PACKET handshake (atapi), the      *)
(* sector reader behind it (s573_cdimg), and MiSTer's Main serving the      *)
(* mounted image to slot 1.  One step is one clock edge; on it the game may *)
(* make one access and Main may take one of its own steps.                  *)
(*                                                                         *)
(* A word of the disc is <<lba, k>>, its sector and its place in the raw    *)
(* sector.  Packets and responses are abstracted to what their command does *)
(* to the handshake.  sec_lba always equals cur_lba and is not a variable.  *)
(* A disc is mounted and nIEN is clear throughout.                          *)
(***************************************************************************)
EXTENDS Naturals, FiniteSets

CONSTANTS
  HdrWords, UserWords, TailWords, \* of a raw sector: 8, 1024, 144
  PacketWords, FixedWords,        \* words of a packet (6), of a response
  Settle, Pace, IdentSettle,      \* FETCH_SETTLE, PACE_CLKS, IDENT_SETTLE
  Pregap,                         \* PREGAP_LBA, 150
  Lbas, Lens,                     \* the LBAs and lengths the game reads
  MaxCommands                     \* bound of a run: commands and resets

ASSUME SizeAssumption ==
  /\ \A n \in {HdrWords, TailWords, Pace, IdentSettle, Pregap, MaxCommands} : n \in Nat
  /\ \A n \in {UserWords, PacketWords, FixedWords} : n \in Nat \ {0, 1}
ASSUME SettleAssumption == Settle \in Nat \ {0}
ASSUME ReadAssumption == Lbas \subseteq Nat /\ Lens \subseteq Nat

VARIABLES
  state, status, reason,              \* the handshake and what the game reads of it
  irq_pending, irq_event, irq_out,    \* the interrupt and its edge former
  pkt_idx, ridx, resp_len,            \* places in the packet and the data phase
  datain_disc, nblk, cur_lba, fetch_wait,
  pf_cnt, pf_addr, dma_word, pf_skid, \* the prefetch; pf_skid = NoWord: not valid
  sec_req,
  cstate, cd_req, cd_lba, wcnt, sbuf, sbuf_q, sec_ready, \* the sector reader
  main,                               \* external: what Main does for slot 1
  left,                               \* what the run may still do
  asked, words,                       \* history: the READ in force, words taken of it
  astray,                             \* history: Main owed an older request when asked
  unseen                              \* history: an event not yet an edge of irq_out

taskVars  == <<state, status, reason>>
irqVars   == <<irq_pending, irq_event, irq_out>>
phaseVars == <<pkt_idx, ridx, resp_len, datain_disc>>
fetchVars == <<nblk, cur_lba, fetch_wait, pf_cnt>>
wordVars  == <<pf_addr, dma_word, pf_skid>>
cdVars    == <<cstate, cd_req, cd_lba, wcnt, sbuf, sbuf_q, sec_ready>>
readVars  == <<asked, words>>
history   == <<readVars, astray, unseen>>
vars == <<taskVars, irqVars, phaseVars, fetchVars, wordVars, sec_req, cdVars,
          main, left, history>>

-----------------------------------------------------------------------------
RawWords == HdrWords + UserWords + TailWords

NoWord == <<>>
Word(lba, k) == <<lba, k>>
NoRead == [lba |-> 0, len |-> 0]
Quiet == [at |-> "idle", lba |-> 0, pos |-> 0]

Events == {"none", "poll", "ack", "word", "end"}

(* What the game may do on a clock: look at the status, write a command,    *)
(* move a word, reset the drive (soft_reset: SRST falls).                   *)
Commands == {"packet", "identify", "features", "unknown", "device_reset"}
Resets   == {"ide_reset", "soft_reset"}
Simple   == {"nodata", "fixed", "toc", "toc_bad", "select", "illegal"}
Packets  == [do : Simple] \cup [do : {"read"}, lba : Lbas, len : Lens]
Accesses == [do : {"none", "status", "data"} \cup Resets \cup Commands] \cup Packets
Does(d)  == [do |-> d]

Init ==
  /\ state = "IDLE" /\ status = "none" /\ reason = "CD"
  /\ irq_pending = FALSE /\ irq_event = FALSE /\ irq_out = FALSE
  /\ pkt_idx = 0 /\ ridx = 0 /\ resp_len = 0 /\ datain_disc = FALSE
  /\ nblk = 0 /\ cur_lba = 0 /\ fetch_wait = 0 /\ pf_cnt = 0
  /\ pf_addr = 0 /\ dma_word = NoWord /\ pf_skid = NoWord /\ sec_req = FALSE
  /\ cstate = "IDLE" /\ cd_req = FALSE /\ cd_lba = 0 /\ wcnt = 0
  /\ sbuf = [i \in 0 .. UserWords - 1 |-> NoWord] /\ sbuf_q = NoWord /\ sec_ready = FALSE
  /\ main = Quiet /\ left = MaxCommands
  /\ asked = NoRead /\ words = 0 /\ astray = FALSE /\ unseen = FALSE

-----------------------------------------------------------------------------
(* Main serves one sector at a time: it polls the request and its LBA,      *)
(* fetches the sector, then opens the transfer (sd_ack rises), writes the   *)
(* words, the first after the clock sd_ack rose, and closes it (sd_ack      *)
(* falls).  Nothing the core does recalls it.                               *)
cd_ack == main.at \in {"ack", "stream"}

MainStep(m) ==
  CASE m = "poll" -> /\ main.at = "idle" /\ cd_req
                     /\ main' = [at |-> "fetch", lba |-> cd_lba, pos |-> 0]
    [] m = "ack"  -> main.at = "fetch" /\ main' = [main EXCEPT !.at = "ack"]
    [] m = "word" -> /\ main.at = "stream" /\ main.pos < RawWords
                     /\ main' = [main EXCEPT !.pos = @ + 1]
    [] m = "end"  -> main.at = "stream" /\ main.pos = RawWords /\ main' = Quiet
    [] OTHER      -> main' = IF main.at = "ack" THEN [main EXCEPT !.at = "stream"] ELSE main

(* The word Main writes next; it takes the pregap off again.                *)
HostWord == Word(main.lba - Pregap, main.pos)

-----------------------------------------------------------------------------
(* The sector reader.  A request is taken in any state and starts over; an  *)
(* ide_reset drops everything but the buffer.                               *)
CdReset ==
  /\ cstate' = "IDLE" /\ cd_req' = FALSE /\ cd_lba' = 0 /\ wcnt' = 0 /\ sec_ready' = FALSE
  /\ UNCHANGED sbuf

CdRequest ==
  /\ cstate' = "REQ" /\ cd_req' = TRUE /\ cd_lba' = cur_lba + Pregap /\ wcnt' = 0
  /\ sec_ready' = FALSE
  /\ UNCHANGED sbuf

AcceptLate ==
  /\ cstate = "REQ" /\ cd_ack /\ main.pos > 0
  /\ cd_req' = FALSE /\ cstate' = "STREAM"
  /\ UNCHANGED <<cd_lba, wcnt, sbuf, sec_ready>>

CdAccept ==
  /\ cstate = "REQ" /\ cd_ack
  /\ cd_req' = FALSE /\ cstate' = "STREAM"
  /\ UNCHANGED <<cd_lba, wcnt, sbuf, sec_ready>>

LastWord == RawWords - 1

CdCollect(m) ==
  /\ cstate = "STREAM" /\ m = "word"
  /\ sbuf' = [i \in DOMAIN sbuf |-> IF wcnt = HdrWords + i THEN HostWord ELSE sbuf[i]]
  /\ IF wcnt = LastWord THEN cstate' = "DONE" /\ UNCHANGED wcnt
                        ELSE wcnt' = wcnt + 1 /\ UNCHANGED cstate
  /\ UNCHANGED <<cd_req, cd_lba, sec_ready>>

CdDone ==
  /\ cstate = "DONE" /\ sec_ready' = TRUE /\ cstate' = "IDLE"
  /\ UNCHANGED <<cd_req, cd_lba, wcnt, sbuf>>

CdWait(m) ==
  /\ \/ cstate = "IDLE"
     \/ cstate = "REQ" /\ ~cd_ack
     \/ cstate = "STREAM" /\ m /= "word"
  /\ UNCHANGED <<cstate, cd_req, cd_lba, wcnt, sbuf, sec_ready>>

Reader(op, m) ==
  /\ sbuf_q' = sbuf[pf_addr % UserWords]
  /\ IF op.do = "ide_reset" THEN CdReset
     ELSE IF sec_req THEN CdRequest
     ELSE CdAccept \/ CdCollect(m) \/ CdDone \/ CdWait(m)

-----------------------------------------------------------------------------
(* The drive.  Phase ends: a completion without and with an error, a data    *)
(* phase towards the game or from it, and the busy wait.                     *)
Complete == state' = "IDLE" /\ status' = "good" /\ reason' = "CD|IO" /\ irq_event' = TRUE
Check    == state' = "IDLE" /\ status' = "error" /\ reason' = "CD|IO" /\ irq_event' = TRUE
DataIn   == state' = "DATAIN" /\ status' = "data" /\ reason' = "IO" /\ irq_event' = TRUE
Busy(s)  == state' = s /\ status' = "busy" /\ UNCHANGED reason /\ irq_event' = FALSE
Signature == status' = "none" /\ reason' = "CD"

(* SRST writes the signature over the task file and stops nothing.          *)
Stay(op) ==
  /\ IF op.do = "soft_reset" THEN Signature ELSE UNCHANGED <<status, reason>>
  /\ UNCHANGED state /\ irq_event' = FALSE

IdeReset ==
  /\ state' = "IDLE" /\ Signature /\ irq_event' = FALSE
  /\ pkt_idx' = 0 /\ ridx' = 0 /\ resp_len' = 0 /\ datain_disc' = FALSE
  /\ nblk' = 0 /\ cur_lba' = 0 /\ fetch_wait' = 0 /\ pf_cnt' = 0
  /\ pf_addr' = 0 /\ dma_word' = NoWord /\ pf_skid' = NoWord /\ sec_req' = FALSE
  /\ asked' = NoRead /\ words' = 0

NoSkid == UNCHANGED pf_skid

(* The skid register banks w[i+1] on the first idle clock of a disc phase.  *)
Skid ==
  pf_skid' = IF state = "DATAIN" /\ datain_disc /\ pf_skid = NoWord
             THEN sbuf_q ELSE pf_skid

(* The settle and pacing counter, then the priming of the prefetch over the *)
(* one-clock buffer, once the sector is there.                              *)
Waiting == state \in {"FETCH", "PREP"} /\ fetch_wait > 0
Primes  == state = "FETCH" /\ fetch_wait = 0 /\ sec_ready

Counters ==
  /\ fetch_wait' = IF Waiting THEN fetch_wait - 1 ELSE fetch_wait
  /\ IF Primes /\ pf_cnt < 3
     THEN /\ pf_addr' = pf_cnt /\ pf_cnt' = pf_cnt + 1
          /\ dma_word' = IF pf_cnt = 2 THEN sbuf_q ELSE dma_word
     ELSE UNCHANGED <<pf_cnt, pf_addr, dma_word>>

(* A write to the command register.  It acknowledges the interrupt.         *)
Command(op) ==
  /\ sec_req' = FALSE /\ Skid
  /\ UNCHANGED <<nblk, cur_lba>>
  /\ asked' = NoRead /\ words' = 0
  /\ CASE op.do = "packet" ->
            /\ state' = "PKT" /\ status' = "drq" /\ reason' = "CD" /\ irq_event' = FALSE
            /\ pkt_idx' = 0 /\ UNCHANGED <<ridx, resp_len, datain_disc>> /\ Counters
       [] op.do = "identify" ->
            /\ state' = "PREP" /\ status' = "busy" /\ reason' = "IO" /\ irq_event' = FALSE
            /\ resp_len' = FixedWords /\ ridx' = 0 /\ datain_disc' = FALSE
            /\ fetch_wait' = IdentSettle
            /\ UNCHANGED <<pkt_idx, pf_cnt, pf_addr, dma_word>>
       [] op.do = "device_reset" ->
            /\ state' = "IDLE" /\ Signature /\ irq_event' = FALSE
            /\ UNCHANGED phaseVars /\ Counters
       [] op.do \in {"features", "unknown"} ->
            /\ state' = "IDLE" /\ status' = (IF op.do = "features" THEN "good" ELSE "error")
            /\ UNCHANGED <<reason, phaseVars>> /\ irq_event' = TRUE /\ Counters

(* A READ with blocks to read asks for its first sector and holds BSY.      *)
StartRead(p) ==
  /\ nblk' = p.len /\ cur_lba' = p.lba /\ sec_req' = TRUE
  /\ resp_len' = UserWords /\ datain_disc' = TRUE
  /\ fetch_wait' = Settle /\ pf_cnt' = 0 /\ Busy("FETCH")
  /\ asked' = [lba |-> p.lba, len |-> p.len] /\ words' = 0
  /\ UNCHANGED ridx

(* The last word of the packet dispatches it; toc_bad asks for a track that *)
(* is not there.                                                            *)
Dispatch(p) ==
  /\ state = "PKT" /\ pkt_idx = PacketWords - 1 /\ pkt_idx' = 0
  /\ UNCHANGED wordVars
  /\ IF p.do = "read" /\ p.len > 0 THEN StartRead(p)
     ELSE /\ sec_req' = FALSE /\ UNCHANGED <<fetchVars, readVars>>
          /\ CASE p.do \in {"nodata", "read"} -> Complete /\ UNCHANGED <<ridx, resp_len, datain_disc>>
               [] p.do = "illegal" -> Check /\ UNCHANGED <<ridx, resp_len, datain_disc>>
               [] p.do = "fixed" -> /\ DataIn /\ ridx' = 0 /\ resp_len' = FixedWords
                                    /\ datain_disc' = FALSE
               [] p.do \in {"toc", "toc_bad"} ->
                    /\ Busy(IF p.do = "toc" THEN "TOC" ELSE "TOC_BAD")
                    /\ ridx' = 0 /\ resp_len' = FixedWords /\ datain_disc' = FALSE
               [] p.do = "select" ->
                    /\ state' = "DATAOUT" /\ status' = "data" /\ reason' = "out" /\ irq_event' = TRUE
                    /\ ridx' = 0 /\ resp_len' = FixedWords /\ UNCHANGED datain_disc

(* A word of the packet before the last, a word of a parameter list.        *)
PacketWord(op) ==
  /\ state = "PKT" /\ pkt_idx < PacketWords - 1 /\ pkt_idx' = pkt_idx + 1 /\ Stay(op)
  /\ sec_req' = FALSE
  /\ UNCHANGED <<ridx, resp_len, datain_disc, fetchVars, wordVars, readVars>>

DataOut(op) ==
  /\ state = "DATAOUT" /\ sec_req' = FALSE
  /\ IF ridx + 1 >= resp_len THEN Complete /\ UNCHANGED ridx
                             ELSE Stay(op) /\ ridx' = ridx + 1
  /\ UNCHANGED <<pkt_idx, resp_len, datain_disc, fetchVars, wordVars, readVars>>

OrEqual == datain_disc /\ nblk >= 1

MoreToRead == datain_disc /\ nblk > 1

(* The game, or DMA channel 5, takes a word of the data phase.  After the   *)
(* last one the next sector is asked for and paced, or the command ends.    *)
DataConsume(op) ==
  /\ state = "DATAIN"
  /\ dma_word' = (IF pf_skid /= NoWord THEN pf_skid ELSE sbuf_q)
  /\ pf_skid' = NoWord /\ pf_addr' = pf_addr + 1
  /\ words' = (IF datain_disc THEN words + 1 ELSE words) /\ UNCHANGED asked
  /\ UNCHANGED <<pkt_idx, resp_len, datain_disc>>
  /\ IF ridx + 1 < resp_len
     THEN Stay(op) /\ ridx' = ridx + 1 /\ sec_req' = FALSE /\ UNCHANGED fetchVars
     ELSE IF MoreToRead
     THEN /\ nblk' = nblk - 1 /\ cur_lba' = cur_lba + 1 /\ sec_req' = TRUE
          /\ fetch_wait' = Pace /\ pf_cnt' = 0 /\ Busy("FETCH") /\ UNCHANGED ridx
     ELSE Complete /\ sec_req' = FALSE /\ UNCHANGED <<ridx, fetchVars>>

(* The clock that raises the data phase, or refuses the READ TOC: its       *)
(* assignments come last and win over a command on the same clock.          *)
Raises ==
  \/ Primes /\ pf_cnt = 3
  \/ state = "PREP" /\ fetch_wait = 0
  \/ state \in {"TOC", "TOC_BAD"}

Raise ==
  /\ IF state = "TOC_BAD" THEN Check ELSE DataIn
  /\ pf_skid' = (IF state = "FETCH" THEN sbuf_q ELSE pf_skid)
  /\ ridx' = (IF state = "FETCH" THEN 0 ELSE ridx) /\ sec_req' = FALSE
  /\ UNCHANGED <<pkt_idx, resp_len, datain_disc, fetchVars, pf_addr, dma_word, readVars>>

Pause(op) ==
  /\ Stay(op) /\ Counters /\ Skid /\ sec_req' = FALSE
  /\ UNCHANGED <<phaseVars, nblk, cur_lba, readVars>>

(* While the drive works on a command the game only looks and resets.       *)
Working == state \in {"FETCH", "PREP", "TOC", "TOC_BAD"}

Drive(op) ==
  \/ op.do = "ide_reset" /\ IdeReset
  \/ op.do \in {"none", "status", "soft_reset"} /\ IF Raises THEN Raise ELSE Pause(op)
  \/ op.do = "device_reset" /\ IF Raises THEN Raise ELSE Command(op)
  \/ op.do \in Commands \ {"device_reset"} /\ ~Working /\ Command(op)
  \/ op.do = "data" /\ (PacketWord(op) \/ DataOut(op) \/ DataConsume(op))
  \/ op \in Packets /\ Dispatch(op)

-----------------------------------------------------------------------------
(* INTRQ.  A read of the status or a command acknowledges; an event raised  *)
(* while the line is high drops it for one clock, so that it makes an edge. *)
Pending(op) ==
  irq_pending' = \/ irq_event'
                 \/ irq_pending /\ op.do \notin {"status", "ide_reset"} \cup Commands

LevelOnly(op) ==
  irq_out' = (op.do /= "ide_reset" /\ irq_pending)

IrqOut(op) ==
  irq_out' = (op.do /= "ide_reset" /\ irq_pending /\ ~(irq_event /\ irq_out))

(* An event is seen when irq_out rises for it, or acknowledged.             *)
SeeEdge ==
  unseen' = IF irq_event' THEN TRUE
            ELSE unseen /\ irq_pending' /\ ~(~irq_out /\ irq_out')

(* A request goes astray when Main then still fetches another sector, or    *)
(* has a transfer open: the reader cannot tell that answer from its own.    *)
StrayNow ==
  \/ main'.at \in {"ack", "stream"}
  \/ main'.at = "fetch" /\ main'.lba /= cur_lba + Pregap

GoAstray(op) ==
  astray' = IF op.do = "ide_reset" \/ asked' = NoRead THEN FALSE
            ELSE IF sec_req THEN astray \/ StrayNow
            ELSE astray /\ asked' = asked

-----------------------------------------------------------------------------
Spend(op) ==
  IF op.do \in Commands \cup Resets THEN left > 0 /\ left' = left - 1
                                        ELSE UNCHANGED left

Clock(op, m) ==
  /\ Spend(op) /\ Drive(op) /\ Pending(op) /\ IrqOut(op)
  /\ Reader(op, m) /\ MainStep(m)
  /\ SeeEdge /\ GoAstray(op)

Next == \E op \in Accesses, m \in Events : Clock(op, m)

Spec == Init /\ [][Next]_vars

(* The clock runs, Main serves what it polled, and the game takes the words *)
(* it is offered.                                                           *)
FairSpec ==
  /\ Spec
  /\ WF_vars(Clock(Does("none"), "none"))
  /\ WF_vars(\E op \in Accesses, m \in Events \ {"none"} : Clock(op, m))
  /\ WF_vars(\E m \in Events : Clock(Does("data"), m))

-----------------------------------------------------------------------------
(* The types of the drive, the reader and Main, and the bounds of every      *)
(* counter: the packet index, the place in a phase, the raw word counter     *)
(* that indexes the sector buffer.                                           *)
ReadLbas == UNION {UNION {l .. l + n : n \in Lens} : l \in Lbas}
DiscWords == {NoWord} \cup ReadLbas \X (0 .. RawWords - 1)
TypeOK ==
  /\ state \in {"IDLE", "PKT", "DATAIN", "DATAOUT", "FETCH", "TOC", "TOC_BAD", "PREP"}
  /\ status \in {"none", "drq", "busy", "data", "good", "error"}
  /\ reason \in {"CD", "IO", "CD|IO", "out"}
  /\ {irq_pending, irq_event, irq_out, datain_disc, sec_req, cd_req, sec_ready,
      astray, unseen} \subseteq BOOLEAN
  /\ pkt_idx \in 0 .. PacketWords - 1 /\ pf_cnt \in 0 .. 3 /\ nblk \in Nat
  /\ state = "DATAIN" /\ datain_disc => ridx < UserWords
  /\ {dma_word, pf_skid, sbuf_q} \cup {sbuf[i] : i \in DOMAIN sbuf} \subseteq DiscWords
  /\ cstate \in {"IDLE", "REQ", "STREAM", "DONE"}
  /\ wcnt \in 0 .. RawWords - 1 /\ main.pos \in 0 .. RawWords
  /\ main.at \in {"idle", "fetch", "ack", "stream"}

(* Whatever the gaps between the accesses, the word a READ offers is the    *)
(* next word of the range it asked for: sector by sector, no word twice,    *)
(* none skipped -- unless one of its requests went astray.  The counters     *)
(* that index the buffer stay inside it.                                    *)
Wanted == Word(asked.lba + words \div UserWords, HdrWords + (words % UserWords))
ServesInOrder ==
  TypeOK /\ (state = "DATAIN" /\ datain_disc /\ ~astray => dma_word = Wanted)

(* The same without the exception.  s573_cdimg.v:101-103: "an aborted       *)
(* earlier LBA's buffer can never be served as the new (different) LBA".    *)
NeverServesAborted ==
  state = "DATAIN" /\ datain_disc => dma_word[1] = cur_lba

(* A READ ends exactly when all its sectors were taken: one completion,     *)
(* after the last word of the last sector, whatever else it waited for.     *)
CompletesOnce ==
  [][state = "DATAIN" /\ datain_disc /\ state' = "IDLE" /\ asked' /= NoRead
       => words' = asked.len * UserWords]_vars

(* No event is lost on the edge-triggered interrupt controller: while one   *)
(* was neither seen nor acknowledged, the line is low or about to drop.     *)
NoLostEdge == unseen => irq_pending /\ (~irq_out \/ irq_event)

(* A READ none of whose requests goes astray ends, and with it the drive is *)
(* ready again, or the game gives it up.                                    *)
Reading == asked /= NoRead /\ state /= "IDLE"
ReadsFinish == Reading ~> (~Reading \/ astray)

=============================================================================
