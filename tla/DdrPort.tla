-------------------------------- MODULE DdrPort --------------------------------
(***************************************************************************)
(* The DDR3 port and its clients: s573_ddram_arb, which gives the port to  *)
(* the digital I/O board in the gaps of the PlayStation core, and the read *)
(* mux of emu.sv, which shares the board's read channel between the sample *)
(* RAM (k573dio) and the PCM ring (s573_pcm_ring).                         *)
(*                                                                         *)
(* One step is one edge of clk_2x; every second one is an edge of clk_1x,  *)
(* where the mux and the two clients move.  The clients are reduced to     *)
(* their handshakes, edge for edge.  DDR3 keeps the order of its commands, *)
(* counts the beats of a burst from its first command, and is as busy and  *)
(* as slow as it likes.  A beat is <<place, value>>, or one of the core's.   *)
(***************************************************************************)
EXTENDS Naturals, Sequences

CONSTANTS
  RamBeats, RingBeats, \* beats of the sample RAM and of the ring
  Values,              \* what a beat can hold
  MaxBurst,            \* the longest burst of the PlayStation core
  MaxPend              \* and the most read beats it has under way

ASSUME BeatsAssumption ==
  RamBeats \cap RingBeats = {} /\ {"none", "psx"} \cap (RamBeats \cup RingBeats) = {}
ASSUME ValuesAssumption == 0 \in Values
ASSUME PsxAssumption == MaxBurst \in Nat \ {0} /\ MaxPend \in Nat /\ MaxBurst <= MaxPend

VARIABLES
  (* s573_ddram_arb *)
  dstate, d_rd, rd_pend, wr_rem, dio_rd_data, dio_rd_ack, dio_wr_ack,
  (* the read mux *)
  dio_rd_busy, dio_rd_owner, dio_arb_rd_addr,
  (* k573dio's channels; the write channel carries <<place, value>> *)
  est, mem_rd_req, mem_rd_addr, mem_wr_req, mem_wr,
  (* s573_pcm_ring's channel *)
  ring, ring_rd_req, ring_rd_addr,
  (* the PlayStation core *)
  psx,       \* the command on its port
  psx_left,  \* beats it has yet to write of a burst
  (* DDR3 *)
  inflight,  \* beats to return, in order
  s_rem,     \* beats still to come of the write burst it is in
  dmem,
  (* which edge comes next, and the board's memory as k573dio wrote it *)
  both, written

arbVars  == <<dstate, d_rd, rd_pend, wr_rem, dio_rd_data, dio_rd_ack, dio_wr_ack>>
muxVars  == <<dio_rd_busy, dio_rd_owner, dio_arb_rd_addr>>
ramVars  == <<est, mem_rd_req, mem_rd_addr, mem_wr_req, mem_wr, written>>
ringVars == <<ring, ring_rd_req, ring_rd_addr>>
psxVars  == <<psx, psx_left>>
ddrVars  == <<inflight, s_rem, dmem>>
portVars == <<arbVars, muxVars, ramVars, ringVars, psxVars, ddrVars, both>>

-----------------------------------------------------------------------------
Beats == RamBeats \cup RingBeats
None == "none"
Beat(place, value) == <<place, value>>
NoBeat == Beat(None, 0)
PsxBeat == Beat("psx", 0)

Silent == [op |-> "none", n |-> 0]
PsxCommands == [op : {"rd", "we"}, n : 1 .. MaxBurst]

(* A register nobody looks at before it is next written holds None. *)
ArbReset ==
  /\ dstate' = "IDLE" /\ d_rd' = FALSE /\ rd_pend' = 0 /\ wr_rem' = 0
  /\ dio_rd_data' = NoBeat /\ dio_rd_ack' = FALSE /\ dio_wr_ack' = FALSE

DdrInit ==
  /\ dstate = "IDLE" /\ d_rd = FALSE /\ rd_pend = 0 /\ wr_rem = 0
  /\ dio_rd_data = NoBeat /\ dio_rd_ack = FALSE /\ dio_wr_ack = FALSE
  /\ dio_rd_busy = FALSE /\ dio_rd_owner = "ram" /\ dio_arb_rd_addr = None
  /\ est = "IDLE" /\ mem_rd_req = FALSE /\ mem_rd_addr = None
  /\ mem_wr_req = FALSE /\ mem_wr = NoBeat
  /\ ring = "IDLE" /\ ring_rd_req = FALSE /\ ring_rd_addr = None
  /\ psx = Silent /\ psx_left = 0
  /\ inflight = <<>> /\ s_rem = 0 /\ dmem = [b \in Beats |-> 0]
  /\ both = FALSE /\ written = dmem

-----------------------------------------------------------------------------
(* The read mux: the wires between its register and the two clients. *)
owner_req == IF dio_rd_owner = "ring" THEN ring_rd_req ELSE mem_rd_req

dio_rd_req == dio_rd_busy /\ owner_req

dio_mem_rd_ack == dio_rd_busy /\ dio_rd_owner = "ram" /\ dio_rd_ack

ring_rd_ack == dio_rd_busy /\ dio_rd_owner = "ring" /\ dio_rd_ack

(* It grants for a whole handshake, the sample RAM first, and registers the *)
(* granted address.                                                         *)
Grant(client, addr) ==
  dio_rd_busy' = TRUE /\ dio_rd_owner' = client /\ dio_arb_rd_addr' = addr

Mux ==
  \/ ~dio_rd_busy /\ mem_rd_req /\ Grant("ram", mem_rd_addr)
  \/ ~dio_rd_busy /\ ~mem_rd_req /\ ring_rd_req /\ Grant("ring", ring_rd_addr)
  \/ ~dio_rd_busy /\ ~mem_rd_req /\ ~ring_rd_req /\ UNCHANGED muxVars
  \/ /\ dio_rd_busy /\ ~owner_req /\ ~dio_rd_ack
     /\ dio_rd_busy' = FALSE /\ dio_arb_rd_addr' = None
     /\ UNCHANGED dio_rd_owner
  \/ dio_rd_busy /\ (owner_req \/ dio_rd_ack) /\ UNCHANGED muxVars

-----------------------------------------------------------------------------
(* The sample RAM's scheduler, as its channels show it. *)
RamIdle ==
  /\ est = "IDLE"
  /\ UNCHANGED <<mem_rd_req, mem_wr_req>>
  /\ \/ \E b \in RamBeats : est' = "RD" /\ mem_rd_addr' = b /\ UNCHANGED <<mem_wr, written>>
     \/ \E b \in RamBeats, v \in Values :
          /\ est' = "WR" /\ mem_wr' = Beat(b, v)
          /\ written' = [written EXCEPT ![b] = v]
          /\ UNCHANGED mem_rd_addr
     \/ UNCHANGED <<est, mem_rd_addr, mem_wr, written>>

RamRead ==
  /\ est = "RD"
  /\ LET done == mem_rd_req /\ dio_mem_rd_ack
     IN /\ mem_rd_req' = ~done
        /\ est' = (IF done THEN "RD_END" ELSE "RD")
        /\ mem_rd_addr' = (IF done THEN None ELSE mem_rd_addr)
  /\ UNCHANGED <<mem_wr_req, mem_wr, written>>

RamWrite ==
  /\ est = "WR"
  /\ LET done == mem_wr_req /\ dio_wr_ack
     IN /\ mem_wr_req' = ~done
        /\ est' = (IF done THEN "WR_END" ELSE "WR")
        /\ mem_wr' = (IF done THEN NoBeat ELSE mem_wr)
  /\ UNCHANGED <<mem_rd_req, mem_rd_addr, written>>

(* mutant: the next read starts at the end of the last *)
RamEndAgain ==
  /\ est = "RD_END" /\ ~dio_mem_rd_ack
  /\ est' = "RD" /\ mem_rd_req' = TRUE /\ mem_rd_addr' \in RamBeats
  /\ UNCHANGED <<mem_wr_req, mem_wr, written>>

RamEnd ==
  /\ est \in {"RD_END", "WR_END"}
  /\ est' = (IF (est = "RD_END" /\ dio_mem_rd_ack) \/ (est = "WR_END" /\ dio_wr_ack)
             THEN est ELSE "IDLE")
  /\ UNCHANGED <<mem_rd_req, mem_rd_addr, mem_wr_req, mem_wr, written>>

Ram == RamIdle \/ RamRead \/ RamWrite \/ RamEnd

(* The ring reader: it may have nothing to fetch, and its two pushes take    *)
(* their time.                                                              *)
RingIdle ==
  /\ ring = "IDLE"
  /\ \/ /\ ring' = "REQ" /\ ring_rd_req' = TRUE
        /\ \E b \in RingBeats : ring_rd_addr' = b
     \/ UNCHANGED ringVars

RingReq ==
  /\ ring = "REQ"
  /\ IF ring_rd_ack
     THEN ring' = "PUSH" /\ ring_rd_req' = FALSE /\ ring_rd_addr' = None
     ELSE UNCHANGED ringVars

RingPush ==
  /\ ring = "PUSH"
  /\ ring' \in {"PUSH", "WAIT"}
  /\ UNCHANGED <<ring_rd_req, ring_rd_addr>>

RingWait ==
  /\ ring = "WAIT"
  /\ ring' = (IF ring_rd_ack THEN "WAIT" ELSE "IDLE")
  /\ UNCHANGED <<ring_rd_req, ring_rd_addr>>

Ring == RingIdle \/ RingReq \/ RingPush \/ RingWait

(* Every second edge of clk_2x is one of clk_1x. *)
Fabric ==
  /\ both' = ~both
  /\ IF both THEN Mux /\ Ram /\ Ring ELSE UNCHANGED <<muxVars, ramVars, ringVars>>

-----------------------------------------------------------------------------
(* The port: the board's command replaces the core's, which sees a busy port *)
(* meanwhile.  ddr_busy and ddr_dout_ready are DDR3's.                       *)
dio_own == dstate = "CMD"

psx_busy(ddr_busy) == ddr_busy \/ dio_own

psx_rdy(ddr_dout_ready) == ddr_dout_ready /\ dstate # "DATA"

dio_wr_pend == mem_wr_req /\ ~dio_wr_ack
dio_rd_pend == dio_rd_req /\ ~dio_rd_ack

(* mutant: read beats under way do not count *)
IdleDespiteReads == psx = Silent /\ wr_rem = 0

(* mutant: a paused write burst does not count *)
IdleDespiteWrites == psx = Silent /\ rd_pend = 0

psx_idle == psx = Silent /\ rd_pend = 0 /\ wr_rem = 0

(* The core's transactions, counted: read beats to come back, write beats to *)
(* come.                                                                    *)
Track(ddr_busy, ready) ==
  LET accepted(op) == psx.op = op /\ ~psx_busy(ddr_busy)
  IN /\ rd_pend' = rd_pend + (IF accepted("rd") THEN psx.n ELSE 0)
                           - (IF psx_rdy(ready) THEN 1 ELSE 0)
     /\ wr_rem' = IF ~accepted("we") THEN wr_rem
                  ELSE IF wr_rem = 0 THEN psx.n - 1 ELSE wr_rem - 1

ArbIdle ==
  /\ dstate = "IDLE"
  /\ IF (dio_wr_pend \/ dio_rd_pend) /\ psx_idle
     THEN dstate' = "CMD" /\ d_rd' = ~dio_wr_pend
     ELSE UNCHANGED <<dstate, d_rd>>
  /\ UNCHANGED <<dio_rd_data, dio_rd_ack, dio_wr_ack>>

(* mutant: a write is acknowledged on a busy port *)
AckAtOnce(ddr_busy) ==
  /\ dstate = "CMD"
  /\ dstate' = (IF ~d_rd THEN "END" ELSE IF ddr_busy THEN "CMD" ELSE "DATA")
  /\ dio_wr_ack' = ~d_rd
  /\ UNCHANGED <<d_rd, dio_rd_data, dio_rd_ack>>

ArbCmd(ddr_busy) ==
  /\ dstate = "CMD"
  /\ dstate' = (IF ddr_busy THEN "CMD" ELSE IF d_rd THEN "DATA" ELSE "END")
  /\ dio_wr_ack' = (~ddr_busy /\ ~d_rd)
  /\ UNCHANGED <<d_rd, dio_rd_data, dio_rd_ack>>

ArbData(ready) ==
  /\ dstate = "DATA"
  /\ IF ready
     THEN dio_rd_data' = Head(inflight) /\ dio_rd_ack' = TRUE /\ dstate' = "END"
     ELSE UNCHANGED <<dstate, dio_rd_data, dio_rd_ack>>
  /\ UNCHANGED <<d_rd, dio_wr_ack>>

ArbEnd ==
  /\ dstate = "END"
  /\ IF (d_rd /\ ~dio_rd_req) \/ (~d_rd /\ ~mem_wr_req)
     THEN dstate' = "IDLE" /\ d_rd' = FALSE /\ dio_rd_ack' = FALSE /\ dio_wr_ack' = FALSE
          /\ dio_rd_data' = NoBeat
     ELSE UNCHANGED <<dstate, d_rd, dio_rd_data, dio_rd_ack, dio_wr_ack>>

Arb(ddr_busy, ready) ==
  /\ Track(ddr_busy, ready)
  /\ ArbIdle \/ ArbCmd(ddr_busy) \/ ArbData(ready) \/ ArbEnd

-----------------------------------------------------------------------------
(* The PlayStation core holds a command until it is taken, and may pause     *)
(* between the beats of a write.                                            *)
PsxHold(ddr_busy) == psx # Silent /\ psx_busy(ddr_busy) /\ UNCHANGED psxVars

PsxWriteOn(left) ==
  /\ left > 0 /\ psx_left' = left
  /\ psx' \in {Silent, [op |-> "we", n |-> 1]}

PsxNew(left) ==
  /\ left = 0
  /\ \/ psx' = Silent /\ psx_left' = 0
     \/ \E c \in PsxCommands :
          /\ c.op = "rd" => rd_pend' + c.n <= MaxPend
          /\ psx' = c
          /\ psx_left' = (IF c.op = "we" THEN c.n ELSE 0)

Psx(ddr_busy) ==
  \/ PsxHold(ddr_busy)
  \/ /\ psx = Silent \/ ~psx_busy(ddr_busy)
     /\ LET left == IF psx.op = "we" THEN psx_left - 1 ELSE psx_left
        IN PsxWriteOn(left) \/ PsxNew(left)

(* DDR3 takes what the port shows. *)
dio_addr == IF d_rd THEN dio_arb_rd_addr ELSE mem_wr[1]

port == IF dio_own THEN [op |-> IF d_rd THEN "rd" ELSE "we", n |-> 1] ELSE psx

ReadBeats ==
  [k \in 1 .. port.n |-> IF dio_own THEN Beat(dio_addr, dmem[dio_addr]) ELSE PsxBeat]

Ddr(ddr_busy, ready) ==
  LET waiting == IF ready THEN Tail(inflight) ELSE inflight
      accepted(op) == port.op = op /\ ~ddr_busy
  IN /\ ready => inflight # <<>>
     /\ inflight' = (IF accepted("rd") THEN waiting \o ReadBeats ELSE waiting)
     /\ s_rem' = IF ~accepted("we") THEN s_rem
                 ELSE IF s_rem = 0 THEN port.n - 1 ELSE s_rem - 1
     /\ dmem' = IF accepted("we") /\ dio_own /\ s_rem = 0
                THEN [dmem EXCEPT ![dio_addr] = mem_wr[2]] ELSE dmem

Edge(ddr_busy, ready) ==
  /\ Ddr(ddr_busy, ready)
  /\ Arb(ddr_busy, ready)
  /\ Psx(ddr_busy)
  /\ Fabric

(* A core reset is long: DDR3 returns what it owes to nobody, and the core   *)
(* ends or never began its burst.  A word on its way may be lost.            *)
Reset ==
  /\ ArbReset
  /\ dio_rd_busy' = FALSE /\ dio_rd_owner' = "ram" /\ dio_arb_rd_addr' = None
  /\ est' = "IDLE" /\ mem_rd_req' = FALSE /\ mem_rd_addr' = None
  /\ mem_wr_req' = FALSE /\ mem_wr' = NoBeat /\ written' = dmem
  /\ ring' = "IDLE" /\ ring_rd_req' = FALSE /\ ring_rd_addr' = None
  /\ psx' = Silent /\ psx_left' = 0
  /\ inflight' = <<>> /\ s_rem' = 0
  /\ UNCHANGED <<dmem, both>>

DdrNext == Reset \/ \E ddr_busy, ready \in BOOLEAN : Edge(ddr_busy, ready)

-----------------------------------------------------------------------------
(* The types, and the bounds of the counters: no read beat is taken off that *)
(* was not counted on.                                                      *)
DioBeats == Beats \X Values
TypeOK ==
  /\ dstate \in {"IDLE", "CMD", "DATA", "END"} /\ d_rd \in BOOLEAN
  /\ rd_pend \in 0 .. MaxPend /\ wr_rem \in 0 .. MaxBurst - 1
  /\ dio_rd_data \in DioBeats \cup {NoBeat, PsxBeat} /\ {dio_rd_ack, dio_wr_ack} \subseteq BOOLEAN
  /\ dio_rd_busy \in BOOLEAN /\ dio_rd_owner \in {"ram", "ring"}
  /\ dio_arb_rd_addr \in Beats \cup {None}
  /\ est \in {"IDLE", "RD", "RD_END", "WR", "WR_END"} /\ {mem_rd_req, mem_wr_req} \subseteq BOOLEAN
  /\ mem_rd_addr \in RamBeats \cup {None} /\ mem_wr \in (RamBeats \X Values) \cup {NoBeat}
  /\ ring \in {"IDLE", "REQ", "PUSH", "WAIT"} /\ ring_rd_req \in BOOLEAN
  /\ ring_rd_addr \in RingBeats \cup {None}
  /\ psx \in PsxCommands \cup {Silent} /\ psx_left \in 0 .. MaxBurst
  /\ inflight \in Seq(DioBeats \cup {PsxBeat}) /\ s_rem \in 0 .. MaxBurst - 1
  /\ {dmem, written} \subseteq [Beats -> Values] /\ both \in BOOLEAN

(* Routing needs no tags: the next beat DDR3 returns is the board's exactly  *)
(* while the arbiter waits for one.                                         *)
RightBeat == inflight # <<>> => (dstate = "DATA" <=> Head(inflight) # PsxBeat)

(* A client that sees its acknowledge sees its own beat, with what was last  *)
(* written there, whoever else asked meanwhile.                              *)
RightClient ==
  /\ mem_rd_req /\ dio_mem_rd_ack => dio_rd_data = Beat(mem_rd_addr, written[mem_rd_addr])
  /\ ring_rd_req /\ ring_rd_ack => dio_rd_data = Beat(ring_rd_addr, dmem[ring_rd_addr])

(* No beat, and no acknowledge, goes to another client than its own.        *)
RoutedRight == TypeOK /\ RightBeat /\ RightClient

(* The board never takes the port inside a write burst of the core, pauses   *)
(* included: DDR3 would count its beat as the core's.                       *)
BurstsUnbroken == dio_own => s_rem = 0

(* A word acknowledged is in memory, where and as it was written, before the *)
(* next command; one not acknowledged is the only one missing.              *)
WritesLand ==
  \A b \in Beats :
    dmem[b] = written[b] \/ (est = "WR" /\ ~dio_wr_ack /\ mem_wr[1] = b)

(* The ring is served, however fast the sample RAM asks again, if the core   *)
(* is quiet again and again with the arbiter free and no write waiting: the  *)
(* mux prefers the sample RAM, but is free before that can be back.          *)
Gap == dstate = "IDLE" /\ psx_idle /\ ~dio_wr_pend
RingServed == []<>Gap => (ring_rd_req ~> ~ring_rd_req)
=============================================================================
