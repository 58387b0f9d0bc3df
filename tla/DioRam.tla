------------------------------- MODULE DioRam -------------------------------
(***************************************************************************)
(* The board DRAM of k573dio with its DDR3 backing (BACKING_EXTERNAL = 1): *)
(* the game reads and writes words through auto-incrementing pointers (b4),*)
(* reads are served from two cached lines with a prefetch, writes are      *)
(* posted into a FIFO, and the MP3 streamer reads through a line of its    *)
(* own.  One scheduler drives the two four-phase channels to DDR3.         *)
(*                                                                         *)
(* The module is synchronous and its corner cases are coincidences (a push *)
(* on the edge of a pop, of a fill, of a full FIFO), so Edge is one edge of *)
(* its clock with everything that happens on it.  DDR3 answers in between. *)
(* A register nobody looks at before it is next written (an invalid line's *)
(* tag, a popped slot, the address of a closed request) is cleared.        *)
(***************************************************************************)
EXTENDS Naturals, FiniteSets

CONSTANTS
  Beats,       \* beats (cache lines) of the window
  LaneWords,   \* words of a beat
  Values,      \* what a word can hold
  GameWords,   \* the words the game writes
  MpegWords,   \* the words the streamer's window covers
  FifoDepth    \* entries of the posted-write FIFO, 1024

ASSUME SizeAssumption == Beats \in Nat \ {0} /\ LaneWords \in Nat \ {0} /\ FifoDepth \in Nat \ {0}
ASSUME ValuesAssumption == 0 \in Values
ASSUME WordsAssumption == GameWords \cup MpegWords \subseteq 0 .. Beats * LaneWords - 1

VARIABLES
  reading,                 \* the word whose b4 read is on the bus (b4r), or NoRead
  (* the cache *)
  line,                    \* "A" and "B" serve the CPU, "M" the streamer
  last_beat, last_v,
  (* the posted-write FIFO *)
  wfifo, wf_wp, wf_rp, wf_cnt, ovf,
  (* the scheduler and its channels *)
  est, rd_who, poison,
  mem_rd_req, mem_rd_addr, mem_rd_ack, mem_rd_q,
  mem_wr_req, mem_wr, mem_wr_ack,
  (* the streamer's side *)
  s_rd_req, s_rdy_r,       \* the word asked for, or NoRead; served at the last edge
  (* outside *)
  ddr,                     \* the window in DDR3
  written                  \* history: the window as the game's accepted writes left it

cacheVars == <<line, last_beat, last_v>>
fifoVars  == <<wfifo, wf_wp, wf_rp, wf_cnt, ovf>>
readVars  == <<mem_rd_req, mem_rd_addr, mem_rd_ack, mem_rd_q>>
writeVars == <<mem_wr_req, mem_wr, mem_wr_ack>>
mp3Vars   == <<s_rd_req, s_rdy_r>>
schedVars == <<est, rd_who, poison>>
vars == <<reading, cacheVars, fifoVars, readVars, writeVars, mp3Vars, schedVars, ddr, written>>

-----------------------------------------------------------------------------
Words == 0 .. Beats * LaneWords - 1

BeatOf(word) == word \div LaneWords

Lane(word) == word % LaneWords

NoRead == Beats * LaneWords

(* A beat as it stands in a window. *)
BeatIn(window, beat) == [l \in 0 .. LaneWords - 1 |-> window[beat * LaneWords + l]]

NoLine == [v |-> FALSE, t |-> 0, d |-> [l \in 0 .. LaneWords - 1 |-> 0]]

NoWrite == [word |-> 0, val |-> 0]

Hit(l, beat) == line[l].v /\ line[l].t = beat

b4r == reading # NoRead

cpu_beat == BeatOf(reading)

cpu_ok == Hit("A", cpu_beat) \/ Hit("B", cpu_beat)

(* The read on the bus completes at this edge. *)
b4_rd_adv == b4r /\ cpu_ok

mp3_req == s_rd_req # NoRead

mp3_beat == BeatOf(s_rd_req)

pf_beat == (last_beat + 1) % Beats

pf_cached == Hit("A", pf_beat) \/ Hit("B", pf_beat)

fill_into_B == Hit("A", last_beat)

(* A push to a full FIFO is dropped. *)
push_ok == wf_cnt # FifoDepth

Init ==
  /\ reading = NoRead
  /\ line = [l \in {"A", "B", "M"} |-> NoLine] /\ last_beat = 0 /\ last_v = FALSE
  /\ wfifo = [i \in 0 .. FifoDepth - 1 |-> NoWrite]
  /\ wf_wp = 0 /\ wf_rp = 0 /\ wf_cnt = 0 /\ ovf = FALSE
  /\ est = "IDLE" /\ rd_who = "CPU" /\ poison = FALSE
  /\ mem_rd_req = FALSE /\ mem_rd_addr = 0 /\ mem_rd_ack = FALSE /\ mem_rd_q = NoLine.d
  /\ mem_wr_req = FALSE /\ mem_wr = NoWrite /\ mem_wr_ack = FALSE
  /\ s_rd_req = NoRead /\ s_rdy_r = FALSE
  /\ ddr = [w \in Words |-> 0] /\ written = ddr

-----------------------------------------------------------------------------
(* The inputs, between two edges.                                          *)

(* The game reads a word; the strobe is held until the read completes.  (The *)
(* pointers it reads and writes through it may set before any access, so they *)
(* are abstracted: an access names its word.)                                *)
BeginRead(word) ==
  /\ ~b4r
  /\ reading' = word
  /\ UNCHANGED <<cacheVars, fifoVars, readVars, writeVars, mp3Vars, schedVars, ddr, written>>

(* The streamer asks for a word; it may give up (pause, re-arm) at any time. *)
StreamRequest(word) ==
  /\ ~mp3_req /\ ~s_rdy_r
  /\ s_rd_req' = word
  /\ UNCHANGED <<s_rdy_r, reading, cacheVars, fifoVars, readVars, writeVars, schedVars,
                 ddr, written>>

StreamDrop ==
  /\ mp3_req
  /\ s_rd_req' = NoRead
  /\ UNCHANGED <<s_rdy_r, reading, cacheVars, fifoVars, readVars, writeVars, schedVars,
                 ddr, written>>

-----------------------------------------------------------------------------
(* The scheduler's part of an edge; push: a b4 write is on the bus.         *)

PoisonKept == poison

(* Idle, the scheduler forgets that an old fill was poisoned. *)
PoisonCleared == FALSE

(* A write drained first keeps the lines coherent. *)
Drain ==
  /\ est = "IDLE" /\ wf_cnt # 0
  /\ mem_wr' = wfifo[wf_rp]
  /\ est' = "WR"
  /\ poison' = PoisonCleared
  /\ UNCHANGED <<rd_who, mem_rd_req, mem_rd_addr, mem_wr_req>>

MayStart(push) == wf_cnt = 0 /\ ~push

(* The CPU's miss, then the streamer's, then the prefetch. *)
StartRead(push) ==
  /\ est = "IDLE" /\ MayStart(push)
  /\ \/ b4r /\ ~cpu_ok /\ mem_rd_addr' = cpu_beat /\ rd_who' = "CPU"
     \/ /\ ~(b4r /\ ~cpu_ok)
        /\ mp3_req /\ ~Hit("M", mp3_beat)
        /\ mem_rd_addr' = mp3_beat /\ rd_who' = "MP3"
     \/ /\ ~(b4r /\ ~cpu_ok) /\ ~(mp3_req /\ ~Hit("M", mp3_beat))
        /\ last_v /\ ~pf_cached
        /\ mem_rd_addr' = pf_beat /\ rd_who' = "PF"
  /\ est' = "RD"
  /\ poison' = PoisonCleared
  /\ UNCHANGED <<mem_rd_req, mem_wr_req, mem_wr>>

Wanted == \/ b4r /\ ~cpu_ok
          \/ mp3_req /\ ~Hit("M", mp3_beat)
          \/ last_v /\ ~pf_cached

StayIdle(push) ==
  /\ est = "IDLE" /\ wf_cnt = 0
  /\ ~Wanted \/ ~MayStart(push)
  /\ poison' = PoisonCleared
  /\ UNCHANGED <<est, rd_who, mem_rd_req, mem_rd_addr, mem_wr_req, mem_wr>>

(* The request rises at the first edge of the state and falls with the ack. *)
WriteChannel ==
  /\ est \in {"WR", "WR_END"}
  /\ IF est = "WR"
       THEN /\ mem_wr_req' = ~(mem_wr_req /\ mem_wr_ack)
            /\ mem_wr' = IF mem_wr_req /\ mem_wr_ack THEN NoWrite ELSE mem_wr
            /\ est' = IF mem_wr_req /\ mem_wr_ack THEN "WR_END" ELSE "WR"
       ELSE /\ est' = IF mem_wr_ack THEN "WR_END" ELSE "IDLE"
            /\ UNCHANGED <<mem_wr_req, mem_wr>>
  /\ UNCHANGED <<rd_who, poison, mem_rd_req, mem_rd_addr>>

NeverPoisoned(push) == poison

(* A push during a fill: its data may be older than the write. *)
Poisoned(push) == poison \/ push

ReadChannel(push) ==
  /\ est \in {"RD", "RD_END"}
  /\ IF est = "RD"
       THEN /\ mem_rd_req' = ~(mem_rd_req /\ mem_rd_ack)
            /\ IF mem_rd_req /\ mem_rd_ack
                 THEN est' = "RD_END" /\ rd_who' = "CPU" /\ mem_rd_addr' = 0
                 ELSE UNCHANGED <<est, rd_who, mem_rd_addr>>
       ELSE /\ est' = IF mem_rd_ack THEN "RD_END" ELSE "IDLE"
            /\ UNCHANGED <<mem_rd_req, rd_who, mem_rd_addr>>
  /\ poison' = Poisoned(push)
  /\ UNCHANGED <<mem_wr_req, mem_wr>>

Scheduler(push) ==
  Drain \/ StartRead(push) \/ StayIdle(push) \/ WriteChannel \/ ReadChannel(push)

-----------------------------------------------------------------------------
(* What the edge does to the cache, the FIFO and the two readers.           *)

Filled(push) == est = "RD" /\ mem_rd_req /\ mem_rd_ack /\ ~Poisoned(push)

FillLine == IF rd_who = "MP3" THEN "M" ELSE IF fill_into_B THEN "B" ELSE "A"

(* Every push, accepted or not, invalidates every line (whose tag and data    *)
(* are never looked at again).                                               *)
Cache(push) ==
  /\ line' = IF push THEN [l \in DOMAIN line |-> NoLine]
             ELSE IF Filled(push)
               THEN [line EXCEPT ![FillLine] = [v |-> TRUE, t |-> mem_rd_addr, d |-> mem_rd_q]]
             ELSE line
  /\ last_v' = (~push /\ (last_v \/ b4_rd_adv))
  /\ last_beat' = IF b4_rd_adv THEN cpu_beat ELSE last_beat

NextSlot(p) == (p + 1) % FifoDepth

CountWithDropped(push) ==
  (IF push /\ (push_ok \/ est = "IDLE") THEN wf_cnt + 1 ELSE wf_cnt)
    - (IF est = "IDLE" /\ wf_cnt # 0 THEN 1 ELSE 0)

(* A push counts only if it was accepted, also on the edge of a pop. *)
Count(push) ==
  (IF push /\ push_ok THEN wf_cnt + 1 ELSE wf_cnt)
    - (IF est = "IDLE" /\ wf_cnt # 0 THEN 1 ELSE 0)

PopStuck == UNCHANGED wf_rp

Pop == wf_rp' = IF est = "IDLE" /\ wf_cnt # 0 THEN NextSlot(wf_rp) ELSE wf_rp

Fifo(push, word, val) ==
  /\ Pop
  /\ wfifo' = [i \in DOMAIN wfifo |->
                 CASE i = wf_wp /\ push /\ push_ok -> [word |-> word, val |-> val]
                   [] i = wf_rp /\ wf_rp' # wf_rp -> NoWrite
                   [] OTHER -> wfifo[i]]
  /\ IF push /\ push_ok
       THEN wf_wp' = NextSlot(wf_wp) /\ written' = [written EXCEPT ![word] = val]
       ELSE UNCHANGED <<wf_wp, written>>
  /\ wf_cnt' = Count(push)
  /\ ovf' = (ovf \/ (push /\ ~push_ok))

(* The streamer's word is registered, with a one-edge ready pulse. *)
Mp3Serve ==
  /\ s_rdy_r' = (mp3_req /\ Hit("M", mp3_beat) /\ ~s_rdy_r)
  /\ s_rd_req' = IF s_rdy_r THEN NoRead ELSE s_rd_req

Edge(push, word, val) ==
  /\ push => ~b4r
  /\ reading' = IF b4_rd_adv THEN NoRead ELSE reading
  /\ Cache(push) /\ Fifo(push, word, val) /\ Mp3Serve /\ Scheduler(push)
  /\ UNCHANGED <<mem_rd_ack, mem_rd_q, mem_wr_ack, ddr>>

QuietEdge == Edge(FALSE, 0, 0)

WriteEdge == \E word \in GameWords, val \in Values : Edge(TRUE, word, val)

-----------------------------------------------------------------------------
(* DDR3 behind the arbiter: one four-phase read and one write channel.      *)

DdrRead ==
  /\ mem_rd_req # mem_rd_ack
  /\ mem_rd_ack' = mem_rd_req
  /\ mem_rd_q' = IF mem_rd_req THEN BeatIn(ddr, mem_rd_addr) ELSE NoLine.d
  /\ UNCHANGED <<reading, cacheVars, fifoVars, mem_rd_req, mem_rd_addr, writeVars, mp3Vars,
                 schedVars, ddr, written>>

DdrWrite ==
  /\ mem_wr_req # mem_wr_ack
  /\ mem_wr_ack' = mem_wr_req
  /\ ddr' = IF mem_wr_req THEN [ddr EXCEPT ![mem_wr.word] = mem_wr.val] ELSE ddr
  /\ UNCHANGED <<reading, cacheVars, fifoVars, readVars, mem_wr_req, mem_wr, mp3Vars,
                 schedVars, written>>

(* A core reset drops what is posted and not yet in DDR3. *)
CoreReset ==
  /\ reading' = NoRead
  /\ line' = [l \in {"A", "B", "M"} |-> NoLine] /\ last_beat' = 0 /\ last_v' = FALSE
  /\ wf_wp' = 0 /\ wf_rp' = 0 /\ wf_cnt' = 0 /\ ovf' = FALSE
  /\ est' = "IDLE" /\ rd_who' = "CPU" /\ poison' = FALSE
  /\ mem_rd_req' = FALSE /\ mem_rd_addr' = 0 /\ mem_rd_ack' = FALSE /\ mem_rd_q' = NoLine.d
  /\ mem_wr_req' = FALSE /\ mem_wr' = NoWrite /\ mem_wr_ack' = FALSE
  /\ s_rd_req' = NoRead /\ s_rdy_r' = FALSE
  /\ written' = ddr
  /\ wfifo' = [i \in DOMAIN wfifo |-> NoWrite]
  /\ UNCHANGED ddr

Next ==
  \/ QuietEdge \/ WriteEdge
  \/ (\E w \in Words : BeginRead(w))
  \/ (\E w \in MpegWords : StreamRequest(w)) \/ StreamDrop
  \/ DdrRead \/ DdrWrite
  \/ CoreReset

Spec == Init /\ [][Next]_vars

(* The clock never stops and DDR3 answers; the bus holds a stalled read, so *)
(* the edges that serve it are quiet ones.                                  *)
Fairness == WF_vars(QuietEdge) /\ WF_vars(DdrRead) /\ WF_vars(DdrWrite)

FairSpec == Spec /\ Fairness

-----------------------------------------------------------------------------
Write == [word : Words, val : Values]

(* Every register keeps its range: the FIFO count is never pushed past its   *)
(* depth nor popped below zero.                                              *)
TypeOK ==
  /\ reading \in Words \cup {NoRead} /\ s_rd_req \in Words \cup {NoRead}
  /\ line \in [{"A", "B", "M"} ->
                 [v : BOOLEAN, t : 0 .. Beats - 1, d : [0 .. LaneWords - 1 -> Values]]]
  /\ last_beat \in 0 .. Beats - 1 /\ last_v \in BOOLEAN
  /\ wfifo \in [0 .. FifoDepth - 1 -> Write]
  /\ wf_wp \in 0 .. FifoDepth - 1 /\ wf_rp \in 0 .. FifoDepth - 1
  /\ wf_cnt \in 0 .. FifoDepth /\ ovf \in BOOLEAN
  /\ est \in {"IDLE", "WR", "WR_END", "RD", "RD_END"} /\ rd_who \in {"CPU", "PF", "MP3"}
  /\ poison \in BOOLEAN
  /\ mem_rd_req \in BOOLEAN /\ mem_rd_addr \in 0 .. Beats - 1
  /\ mem_rd_ack \in BOOLEAN /\ mem_rd_q \in [0 .. LaneWords - 1 -> Values]
  /\ mem_wr_req \in BOOLEAN /\ mem_wr \in Write /\ mem_wr_ack \in BOOLEAN
  /\ s_rdy_r \in BOOLEAN
  /\ ddr \in [Words -> Values] /\ written \in [Words -> Values]

(* "A valid line can never be stale": what a hit returns, to the game or to  *)
(* the streamer, is what the game's writes left there, although the writes    *)
(* reach DDR3 late and a fill may be on its way when one is posted.          *)
LinesAreCurrent ==
  \A l \in DOMAIN line : line[l].v => line[l].d = BeatIn(written, line[l].t)

(* The registers keep their ranges, and the FIFO's count is its occupancy,   *)
(* at the limits and when a push and a pop meet on one edge: a count one     *)
(* ahead would replay a slot of the lap.                                    *)
CountIsOccupancy ==
  /\ TypeOK
  /\ (wf_rp + wf_cnt) % FifoDepth = wf_wp

(* The value the last write on its way to a word leaves there: the newest    *)
(* posted one, else the one in the channel, else DDR3's own.                 *)
Pending(word) == {i \in 0 .. wf_cnt - 1 : wfifo[(wf_rp + i) % FifoDepth].word = word}

Settled(word) ==
  IF Pending(word) # {}
    THEN LET newest == CHOOSE i \in Pending(word) : \A j \in Pending(word) : j <= i
         IN wfifo[(wf_rp + newest) % FifoDepth].val
    ELSE IF est = "WR" /\ mem_wr.word = word THEN mem_wr.val ELSE ddr[word]

(* No accepted write is lost, repeated or reordered on its way to DDR3: what  *)
(* is posted, applied in order, always makes the window the game wrote.      *)
WritesLand == \A word \in Words : Settled(word) = written[word]

(* A stalled b4 read completes: the CPU is never wedged by the streamer, the  *)
(* prefetch or a poisoned fill.                                              *)
StalledReadCompletes == b4r ~> ~b4r
=============================================================================
