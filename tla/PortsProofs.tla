----------------------------- MODULE PortsProofs -----------------------------
(***************************************************************************)
(* Proofs about the shared ports, for every size and value: write bursts of *)
(* the PlayStation core are never broken, no client of DDR3 or of the SDRAM *)
(* is given another's answer, no decode event is lost, no image of the     *)
(* NVRAM is torn on its way to or from the card, and the drive knows the   *)
(* disc that is mounted.                                                   *)
(***************************************************************************)
EXTENDS Ports, Remainders, SequenceTheorems, TLAPS

-----------------------------------------------------------------------------
(* The arbiter's count of a write burst is DDR3's own, and is zero whenever *)
(* the board has the port.                                                  *)
BurstInv == s_rem = wr_rem /\ (dio_own => wr_rem = 0)

(* On every edge both sides count the same beats, and the arbiter takes the *)
(* port only from a core that is silent between two bursts.                 *)
LEMMA BurstStep ==
  ASSUME BurstInv, NEW ddr_busy \in BOOLEAN, NEW ready \in BOOLEAN, Edge(ddr_busy, ready)
  PROVE  BurstInv'
<1> USE DEF BurstInv, dio_own
<1>1. /\ Ddr(ddr_busy, ready) /\ Track(ddr_busy, ready)
      /\ ArbIdle \/ ArbCmd(ddr_busy) \/ ArbData(ready) \/ ArbEnd
  BY DEF Edge, Arb
<1>2. CASE dstate = "CMD"
  <2>1. psx_busy(ddr_busy) /\ port.n = 1
    BY <1>2 DEF psx_busy, port
  <2>2. wr_rem' = 0
    BY <1>1, <1>2, <2>1 DEF Track
  <2>3. s_rem' = 0
    BY <1>1, <1>2, <2>1 DEF Ddr
  <2>4. QED
    BY <2>2, <2>3
<1>3. CASE dstate # "CMD"
  <2>1. psx_busy(ddr_busy) = ddr_busy /\ port = psx
    BY <1>3 DEF psx_busy, port
  <2>2. s_rem' = wr_rem'
    BY <1>1, <2>1 DEF Track, Ddr
  <2>3. ASSUME dstate' = "CMD" PROVE wr_rem' = 0
    <3>1. psx = Silent /\ wr_rem = 0
      BY <1>1, <1>3, <2>3 DEF ArbIdle, ArbCmd, ArbData, ArbEnd, psx_idle
    <3>2. QED
      BY <1>1, <3>1 DEF Track, Silent
  <2>4. QED
    BY <2>2, <2>3
<1>4. QED
  BY <1>2, <1>3

(* The board never takes the port inside a write burst of the core.         *)
THEOREM BurstsStayWhole == Spec => []BurstsUnbroken
<1>1. Init => BurstInv
  BY DEF Init, DdrInit, BurstInv, dio_own
<1>2. BurstInv /\ [Next]_vars => BurstInv'
  <2> SUFFICES ASSUME BurstInv, [Next]_vars PROVE BurstInv'
    OBVIOUS
  <2>1. CASE UNCHANGED portVars
    BY <2>1 DEF BurstInv, dio_own, portVars, arbVars, ddrVars
  <2>2. CASE Reset
    BY <2>2 DEF BurstInv, dio_own, Reset, ArbReset
  <2>3. CASE \E ddr_busy, ready \in BOOLEAN : Edge(ddr_busy, ready)
    BY <2>3, BurstStep
  <2>4. QED
    BY <2>1, <2>2, <2>3 DEF Next, Of, DdrNext, vars
<1>3. BurstInv => BurstsUnbroken
  BY DEF BurstInv, BurstsUnbroken
<1>4. QED
  BY <1>1, <1>2, <1>3, PTL DEF Spec
-----------------------------------------------------------------------------
(* The read channels: the mux's grant, and the arbiter's acknowledge of it, is *)
(* of a request that stands.                                                *)
owner_addr == IF dio_rd_owner = "ring" THEN ring_rd_addr ELSE mem_rd_addr

ReadsInv ==
  /\ mem_rd_req => est = "RD"
  /\ est = "RD" => mem_rd_addr \in RamBeats
  /\ ring_rd_req <=> ring = "REQ"
  /\ ring_rd_req => ring_rd_addr \in RingBeats
  /\ dio_rd_busy /\ dio_rd_owner = "ram" => mem_rd_req \/ est = "RD_END"
  /\ dio_rd_busy /\ dio_rd_owner = "ring" => ring # "IDLE"
  /\ dio_rd_req => dio_arb_rd_addr = owner_addr
  /\ dio_rd_ack <=> dstate = "END" /\ d_rd
  /\ dstate # "IDLE" /\ d_rd => dio_rd_busy
  /\ dstate \in {"CMD", "DATA"} /\ d_rd => owner_req
  /\ dstate = "DATA" => d_rd

(* The write channel: the word asked for stands until it is acknowledged.     *)
WritesInv ==
  /\ mem_wr_req => est = "WR"
  /\ est = "WR" => mem_wr \in RamBeats \X Values /\ written[mem_wr[1]] = mem_wr[2]
  /\ dio_wr_ack <=> dstate = "END" /\ ~d_rd
  /\ dio_wr_ack => mem_wr_req \/ est = "WR_END"
  /\ dstate = "CMD" /\ ~d_rd => mem_wr_req

(* What DDR3 owes: the beats the arbiter counts as the core's, behind the      *)
(* board's one while the arbiter waits for it.                               *)
QueueInv ==
  /\ dstate # "DATA" =>
       Len(inflight) = rd_pend /\ \A k \in 1 .. Len(inflight) : inflight[k] = PsxBeat
  /\ dstate = "DATA" =>
       /\ Len(inflight) = rd_pend + 1
       /\ inflight[1] = Beat(dio_arb_rd_addr, dmem[dio_arb_rd_addr])
       /\ \A k \in 2 .. Len(inflight) : inflight[k] = PsxBeat
  /\ dstate = "CMD" => rd_pend = 0
  /\ psx.op = "rd" => rd_pend + psx.n <= MaxPend
  /\ psx.op = "we" => psx_left >= 1

(* What the arbiter shows with its acknowledge is what is there.              *)
DataInv == dio_rd_ack /\ owner_req => dio_rd_data = Beat(dio_arb_rd_addr, dmem[dio_arb_rd_addr])

PortInv ==
  /\ TypeOK /\ BurstInv /\ ReadsInv /\ WritesInv /\ QueueInv /\ DataInv /\ WritesLand

InflightBeats == DioBeats \cup {PsxBeat}

(* A beat returned at the head of a queue and others behind its last.         *)
LEMMA QueueStep ==
  ASSUME NEW S, NEW q \in Seq(S), NEW more \in Seq(S), NEW ready \in BOOLEAN,
         ready => q # <<>>,
         NEW o, o = (IF ready THEN 1 ELSE 0),
         NEW r, r = (IF ready THEN Tail(q) ELSE q) \o more
  PROVE  /\ r \in Seq(S) /\ Len(r) = Len(q) - o + Len(more) /\ Len(q) - o \in Nat
         /\ \A k \in 1 .. Len(q) - o : r[k] = q[k + o]
         /\ \A k \in Len(q) - o + 1 .. Len(r) : r[k] = more[k - (Len(q) - o)]
<1> DEFINE w == IF ready THEN Tail(q) ELSE q
<1>1. w \in Seq(S) /\ Len(w) = Len(q) - o /\ \A k \in 1 .. Len(w) : w[k] = q[k + o]
  <2>1. CASE ready
    BY <2>1, HeadTailProperties
  <2>2. CASE ~ready
    <3>1. \A k \in 1 .. Len(q) : k + 0 = k
      BY LenProperties
    <3>2. Len(q) - 0 = Len(q)
      BY LenProperties
    <3>3. QED
      BY <2>2, <3>1, <3>2
  <2>3. QED
    BY <2>1, <2>2
<1> HIDE DEF w
<1>2. r = w \o more
  BY DEF w
<1>3. /\ r \in Seq(S) /\ Len(r) = Len(w) + Len(more)
      /\ \A k \in 1 .. Len(w) + Len(more) : r[k] = IF k <= Len(w) THEN w[k] ELSE more[k - Len(w)]
  BY <1>1, <1>2, ConcatProperties
<1>4. Len(w) \in Nat /\ Len(more) \in Nat
  BY <1>1, LenProperties
<1>5. QED
  BY <1>1, <1>3, <1>4

(* The board's address is one of its beats while it has the port.            *)
LEMMA BoardAddress ==
  ASSUME PortInv, dio_own
  PROVE  /\ dio_addr \in Beats /\ dmem[dio_addr] \in Values
         /\ Beat(dio_addr, dmem[dio_addr]) \in DioBeats
         /\ d_rd => dio_addr = dio_arb_rd_addr
         /\ ~d_rd => dio_addr = mem_wr[1] /\ mem_wr \in RamBeats \X Values /\ est = "WR"
<1>1. TypeOK /\ ReadsInv /\ WritesInv /\ dstate = "CMD"
  BY DEF PortInv, dio_own
<1>2. d_rd => dio_addr \in Beats
  BY <1>1 DEF ReadsInv, dio_addr, Beats, dio_rd_req, owner_addr, owner_req, TypeOK
<1>3. ~d_rd => mem_wr \in RamBeats \X Values /\ est = "WR"
  BY <1>1 DEF WritesInv, TypeOK
<1>4. ~d_rd => dio_addr \in Beats
  BY <1>3 DEF dio_addr, Beats
<1>5. dio_addr \in Beats
  BY <1>1, <1>2, <1>4 DEF TypeOK
<1>6. dmem[dio_addr] \in Values
  BY <1>1, <1>5 DEF TypeOK
<1>7. QED
  BY <1>3, <1>5, <1>6 DEF dio_addr, Beat, DioBeats

(* The queue after an edge.                                                 *)
LEMMA DdrQueue ==
  ASSUME PortInv, NEW ddr_busy \in BOOLEAN, NEW ready \in BOOLEAN, Ddr(ddr_busy, ready),
         NEW o, o = (IF ready THEN 1 ELSE 0),
         NEW m, m = (IF port.op = "rd" /\ ~ddr_busy THEN port.n ELSE 0)
  PROVE  /\ inflight' \in Seq(InflightBeats) /\ m \in Nat /\ Len(inflight) \in Nat
         /\ Len(inflight') = Len(inflight) - o + m /\ Len(inflight) - o \in Nat
         /\ \A k \in 1 .. Len(inflight) - o : inflight'[k] = inflight[k + o]
         /\ \A k \in Len(inflight) - o + 1 .. Len(inflight') :
              inflight'[k] = IF dio_own THEN Beat(dio_addr, dmem[dio_addr]) ELSE PsxBeat
<1> DEFINE B == IF dio_own THEN Beat(dio_addr, dmem[dio_addr]) ELSE PsxBeat
           more == [k \in 1 .. m |-> B]
<1>1. B \in InflightBeats
  BY BoardAddress DEF InflightBeats
<1>2. psx.n \in Nat /\ inflight \in Seq(InflightBeats)
  BY PsxAssumption DEF PortInv, TypeOK, PsxCommands, Silent, InflightBeats
<1>3. port.n \in Nat /\ m \in Nat
  BY <1>2 DEF port
<1> HIDE DEF B
<1>4. more \in Seq(InflightBeats) /\ Len(more) = m /\ \A k \in 1 .. m : more[k] = B
  BY <1>1, <1>3, IsASeq
<1>5. inflight' = (IF ready THEN Tail(inflight) ELSE inflight) \o more
  <2>1. CASE port.op = "rd" /\ ~ddr_busy
    <3>1. more = ReadBeats
      BY <2>1 DEF ReadBeats, B
    <3>2. QED
      BY <2>1, <3>1 DEF Ddr
  <2>2. CASE ~(port.op = "rd" /\ ~ddr_busy)
    <3>1. more = <<>>
      BY <1>4, <2>2, EmptySeq
    <3>2. (IF ready THEN Tail(inflight) ELSE inflight) \in Seq(InflightBeats)
      BY <1>2, HeadTailProperties DEF Ddr
    <3>3. QED
      BY <2>2, <3>1, <3>2, ConcatEmptySeq DEF Ddr
  <2>3. QED
    BY <2>1, <2>2
<1>6. ready => inflight # <<>>
  BY DEF Ddr
<1> HIDE DEF more
<1>7. /\ inflight' \in Seq(InflightBeats) /\ Len(inflight') = Len(inflight) - o + m
      /\ Len(inflight) - o \in Nat
      /\ \A k \in 1 .. Len(inflight) - o : inflight'[k] = inflight[k + o]
      /\ \A k \in Len(inflight) - o + 1 .. Len(inflight') :
           inflight'[k] = more[k - (Len(inflight) - o)]
  BY <1>2, <1>4, <1>5, <1>6, QueueStep
<1>8. Len(inflight) \in Nat
  BY <1>2, LenProperties
<1>9. ASSUME NEW k \in Len(inflight) - o + 1 .. Len(inflight')
      PROVE  inflight'[k] = B
  <2>1. k - (Len(inflight) - o) \in 1 .. m
    BY <1>3, <1>7
  <2>2. QED
    BY <1>4, <1>7, <2>1
<1>10. QED
  BY <1>3, <1>7, <1>8, <1>9 DEF B

(* What the board's side of the fabric cannot do to a request that stands.    *)
LEMMA FabricKeeps ==
  ASSUME PortInv, Fabric
  PROVE  /\ dio_rd_busy /\ (owner_req \/ dio_rd_ack) => UNCHANGED muxVars
         /\ dio_rd_req /\ ~dio_rd_ack => owner_req'
         /\ mem_wr_req /\ ~dio_wr_ack => mem_wr_req' /\ mem_wr' = mem_wr /\ est' = est
<1>1. TypeOK /\ ReadsInv /\ WritesInv
  BY DEF PortInv
<1>2. dio_rd_busy /\ (owner_req \/ dio_rd_ack) => UNCHANGED muxVars
  BY DEF Fabric, Mux
<1>3. dio_rd_req /\ ~dio_rd_ack => owner_req'
  <2>1. SUFFICES ASSUME dio_rd_req, ~dio_rd_ack PROVE owner_req'
    OBVIOUS
  <2>2. dio_rd_owner' = dio_rd_owner
    BY <1>2, <2>1 DEF dio_rd_req, muxVars
  <2>3. CASE ~both
    BY <2>1, <2>2, <2>3 DEF Fabric, ramVars, ringVars, dio_rd_req, owner_req
  <2>4. CASE both /\ dio_rd_owner = "ring"
    <3>1. ring = "REQ" /\ ~ring_rd_ack /\ Ring
      BY <1>1, <2>1, <2>4 DEF ReadsInv, dio_rd_req, owner_req, ring_rd_ack, Fabric
    <3>2. ring_rd_req'
      BY <1>1, <3>1 DEF Ring, RingIdle, RingReq, RingPush, RingWait, ringVars, ReadsInv
    <3>3. QED
      BY <2>2, <2>4, <3>2 DEF owner_req
  <2>5. CASE both /\ dio_rd_owner # "ring"
    <3>1. est = "RD" /\ ~dio_mem_rd_ack /\ Ram
      BY <1>1, <2>1, <2>5 DEF ReadsInv, dio_rd_req, owner_req, dio_mem_rd_ack, Fabric
    <3>2. mem_rd_req'
      BY <3>1 DEF Ram, RamIdle, RamRead, RamWrite, RamEnd
    <3>3. QED
      BY <2>2, <2>5, <3>2 DEF owner_req
  <2>6. QED
    BY <2>3, <2>4, <2>5
<1>4. mem_wr_req /\ ~dio_wr_ack => mem_wr_req' /\ mem_wr' = mem_wr /\ est' = est
  <2>1. SUFFICES ASSUME mem_wr_req, ~dio_wr_ack PROVE mem_wr_req' /\ mem_wr' = mem_wr /\ est' = est
    OBVIOUS
  <2>2. est = "WR"
    BY <1>1, <2>1 DEF WritesInv
  <2>3. CASE ~both
    BY <2>1, <2>3 DEF Fabric, ramVars
  <2>4. CASE both
    BY <2>1, <2>2, <2>4 DEF Fabric, Ram, RamIdle, RamRead, RamWrite, RamEnd
  <2>5. QED
    BY <2>3, <2>4
<1>5. QED
  BY <1>2, <1>3, <1>4

(* The core's command and its count of beats.                                *)
LEMMA PsxEdge ==
  ASSUME PortInv, NEW ddr_busy \in BOOLEAN, NEW ready \in BOOLEAN,
         Track(ddr_busy, ready), Psx(ddr_busy), ready => inflight # <<>>
  PROVE  /\ rd_pend' \in 0 .. MaxPend /\ wr_rem' \in 0 .. MaxBurst - 1
         /\ psx' \in PsxCommands \cup {Silent} /\ psx_left' \in 0 .. MaxBurst
         /\ psx'.op = "rd" => rd_pend' + psx'.n <= MaxPend
         /\ psx'.op = "we" => psx_left' >= 1
<1> USE PsxAssumption
<1>1. /\ psx \in PsxCommands \cup {Silent} /\ psx_left \in 0 .. MaxBurst
      /\ rd_pend \in 0 .. MaxPend /\ wr_rem \in 0 .. MaxBurst - 1
      /\ psx.op = "rd" => rd_pend + psx.n <= MaxPend
      /\ psx.op = "we" => psx_left >= 1
  BY DEF PortInv, TypeOK, QueueInv
<1>2. psx # Silent => psx.op \in {"rd", "we"} /\ psx.n \in 1 .. MaxBurst
  BY <1>1 DEF PsxCommands
<1>3. psx = Silent => psx.op = "none" /\ psx.n = 0
  BY DEF Silent
<1>4. psx_rdy(ready) => rd_pend >= 1
  <2>1. SUFFICES ASSUME psx_rdy(ready) PROVE rd_pend >= 1
    OBVIOUS
  <2>2. inflight # <<>> /\ dstate # "DATA"
    BY <2>1 DEF psx_rdy
  <2>3. inflight \in Seq(InflightBeats)
    BY DEF PortInv, TypeOK, InflightBeats
  <2>4. Len(inflight) \in Nat \ {0}
    BY <2>2, <2>3, EmptySeq
  <2>5. Len(inflight) = rd_pend
    BY <2>2 DEF PortInv, QueueInv
  <2>6. QED
    BY <2>4, <2>5
<1>5. rd_pend' \in 0 .. MaxPend
  <2>1. CASE psx.op = "rd" /\ ~psx_busy(ddr_busy)
    BY <1>1, <1>2, <1>3, <1>4, <2>1 DEF Track
  <2>2. CASE ~(psx.op = "rd" /\ ~psx_busy(ddr_busy))
    BY <1>1, <1>4, <2>2 DEF Track
  <2>3. QED
    BY <2>1, <2>2
<1>6. wr_rem' \in 0 .. MaxBurst - 1
  <2>1. CASE psx.op = "we" /\ ~psx_busy(ddr_busy)
    BY <1>1, <1>2, <1>3, <2>1 DEF Track
  <2>2. CASE ~(psx.op = "we" /\ ~psx_busy(ddr_busy))
    BY <1>1, <2>2 DEF Track
  <2>3. QED
    BY <2>1, <2>2
<1>7. CASE PsxHold(ddr_busy)
  <2>1. psx' = psx /\ psx_left' = psx_left /\ psx_busy(ddr_busy)
    BY <1>7 DEF PsxHold, psxVars
  <2>2. rd_pend' <= rd_pend
    BY <1>1, <2>1 DEF Track
  <2>3. psx.op = "rd" => psx.n \in Int
    BY <1>1 DEF PsxCommands, Silent
  <2>4. QED
    BY <1>1, <1>5, <1>6, <2>1, <2>2, <2>3
<1>8. ASSUME NEW left, left = (IF psx.op = "we" THEN psx_left - 1 ELSE psx_left),
             PsxWriteOn(left) \/ PsxNew(left)
      PROVE  /\ psx' \in PsxCommands \cup {Silent} /\ psx_left' \in 0 .. MaxBurst
             /\ psx'.op = "rd" => rd_pend' + psx'.n <= MaxPend
             /\ psx'.op = "we" => psx_left' >= 1
  <2>1. left \in 0 .. MaxBurst
    BY <1>1, <1>8
  <2>2. CASE PsxWriteOn(left)
    <3>1. [op |-> "we", n |-> 1] \in PsxCommands
      BY DEF PsxCommands
    <3>2. QED
      BY <2>1, <2>2, <3>1 DEF PsxWriteOn, Silent
  <2>3. CASE PsxNew(left)
    <3>1. CASE psx' = Silent /\ psx_left' = 0
      BY <3>1 DEF Silent
    <3>2. ASSUME NEW c \in PsxCommands, c.op = "rd" => rd_pend' + c.n <= MaxPend, psx' = c,
                 psx_left' = (IF c.op = "we" THEN c.n ELSE 0)
          PROVE  /\ psx' \in PsxCommands \cup {Silent} /\ psx_left' \in 0 .. MaxBurst
                 /\ psx'.op = "rd" => rd_pend' + psx'.n <= MaxPend
                 /\ psx'.op = "we" => psx_left' >= 1
      <4>1. c.n \in 1 .. MaxBurst
        BY DEF PsxCommands
      <4>2. QED
        BY <3>2, <4>1
    <3>3. QED
      BY <2>3, <3>1, <3>2 DEF PsxNew
  <2>4. QED
    BY <1>8, <2>2, <2>3
<1>9. QED
  BY <1>5, <1>6, <1>7, <1>8 DEF Psx

(* The queue of DDR3 and the arbiter's wait for the board's beat.             *)
LEMMA QueueEdge ==
  ASSUME PortInv, NEW ddr_busy \in BOOLEAN, NEW ready \in BOOLEAN, Edge(ddr_busy, ready)
  PROVE  QueueInv'
<1> USE PsxAssumption
<1> DEFINE o == IF ready THEN 1 ELSE 0
           m == IF port.op = "rd" /\ ~ddr_busy THEN port.n ELSE 0
           L == Len(inflight)
<1>1. /\ TypeOK /\ ReadsInv /\ WritesInv /\ QueueInv /\ BurstInv
      /\ Ddr(ddr_busy, ready) /\ Track(ddr_busy, ready) /\ Psx(ddr_busy) /\ Fabric
      /\ ArbIdle \/ ArbCmd(ddr_busy) \/ ArbData(ready) \/ ArbEnd
  BY DEF PortInv, Edge, Arb
<1>2. /\ inflight' \in Seq(InflightBeats) /\ m \in Nat /\ L \in Nat
      /\ Len(inflight') = L - o + m /\ L - o \in Nat
      /\ \A k \in 1 .. L - o : inflight'[k] = inflight[k + o]
      /\ \A k \in L - o + 1 .. Len(inflight') :
           inflight'[k] = IF dio_own THEN Beat(dio_addr, dmem[dio_addr]) ELSE PsxBeat
  BY <1>1, DdrQueue
<1>3. ready => inflight # <<>>
  BY <1>1 DEF Ddr
<1>4. /\ psx'.op = "rd" => rd_pend' + psx'.n <= MaxPend
      /\ psx'.op = "we" => psx_left' >= 1
  BY <1>1, <1>3, PsxEdge
<1>5. rd_pend \in Nat /\ o \in {0, 1}
  BY <1>1 DEF TypeOK
<1>6. ~dio_own => port = psx /\ psx_busy(ddr_busy) = ddr_busy
  BY DEF port, psx_busy
<1>7. ~dio_own => rd_pend' = rd_pend + m - (IF psx_rdy(ready) THEN 1 ELSE 0)
  BY <1>1, <1>6 DEF Track
<1>8. psx = Silent /\ ~dio_own => m = 0
  BY <1>6 DEF Silent
<1> HIDE DEF o, m, L
<1>9. CASE dstate = "IDLE" \/ dstate = "END"
  <2>1. L = rd_pend /\ \A k \in 1 .. L : inflight[k] = PsxBeat
    BY <1>1, <1>9 DEF QueueInv, L
  <2>2. rd_pend' = rd_pend + m - o /\ ~dio_own
    BY <1>7, <1>9 DEF psx_rdy, dio_own, o
  <2>3. Len(inflight') = rd_pend'
    BY <1>2, <1>5, <2>1, <2>2
  <2>4. \A k \in 1 .. Len(inflight') : inflight'[k] = PsxBeat
    <3>1. SUFFICES ASSUME NEW k \in 1 .. Len(inflight') PROVE inflight'[k] = PsxBeat
      OBVIOUS
    <3>2. CASE k \in 1 .. L - o
      <4>1. k + o \in 1 .. L
        BY <1>2, <1>5, <3>2
      <4>2. QED
        BY <1>2, <2>1, <3>2, <4>1
    <3>3. CASE k \in L - o + 1 .. Len(inflight')
      BY <1>2, <2>2, <3>3
    <3>4. QED
      BY <1>2, <1>5, <3>2, <3>3
  <2>5. dstate' # "DATA"
    BY <1>1, <1>9 DEF ArbIdle, ArbCmd, ArbData, ArbEnd
  <2>6. dstate' = "CMD" => rd_pend' = 0
    <3>1. SUFFICES ASSUME dstate' = "CMD" PROVE rd_pend' = 0
      OBVIOUS
    <3>2. psx_idle
      BY <1>1, <1>9, <3>1 DEF ArbIdle, ArbCmd, ArbData, ArbEnd
    <3>3. m = 0 /\ rd_pend = 0
      BY <1>8, <2>2, <3>2 DEF psx_idle
    <3>4. o = 0
      BY <1>2, <1>5, <2>1, <3>3
    <3>5. QED
      BY <2>2, <3>3, <3>4
  <2>7. QED
    BY <1>4, <2>3, <2>4, <2>5, <2>6 DEF QueueInv
<1>10. CASE dstate = "CMD"
  <2>1. L = 0 /\ rd_pend = 0 /\ o = 0 /\ dio_own
    BY <1>1, <1>2, <1>5, <1>10 DEF QueueInv, L, dio_own
  <2>2. rd_pend' = 0
    <3>1. ~psx_rdy(ready) /\ psx_busy(ddr_busy)
      BY <2>1 DEF psx_rdy, psx_busy, o
    <3>2. QED
      BY <1>1, <2>1, <3>1 DEF Track
  <2>3. m = IF d_rd /\ ~ddr_busy THEN 1 ELSE 0
    BY <1>1, <2>1 DEF m, port, TypeOK
  <2>4. dstate' = (IF ddr_busy THEN "CMD" ELSE IF d_rd THEN "DATA" ELSE "END")
    BY <1>1, <1>10 DEF ArbIdle, ArbCmd, ArbData, ArbEnd
  <2>5. Len(inflight') = m
    BY <1>2, <2>1
  <2>6. CASE dstate' = "DATA"
    <3>1. m = 1 /\ d_rd /\ ~ddr_busy
      BY <1>1, <2>3, <2>4, <2>6 DEF TypeOK
    <3>2. 1 \in L - o + 1 .. Len(inflight')
      BY <2>1, <2>5, <3>1
    <3>3. inflight'[1] = Beat(dio_addr, dmem[dio_addr])
      BY <1>2, <2>1, <3>2
    <3>4. dio_addr = dio_arb_rd_addr
      BY <3>1 DEF dio_addr
    <3>5. dio_rd_busy /\ owner_req
      BY <1>1, <1>10, <3>1 DEF ReadsInv
    <3>6. dio_arb_rd_addr' = dio_arb_rd_addr
      BY <1>1, <3>5, FabricKeeps DEF muxVars
    <3>7. dmem' = dmem
      BY <1>1, <2>1, <3>1 DEF Ddr, port
    <3>8. inflight'[1] = Beat(dio_arb_rd_addr', dmem'[dio_arb_rd_addr'])
      BY <3>3, <3>4, <3>6, <3>7
    <3>9. \A k \in 2 .. Len(inflight') : inflight'[k] = PsxBeat
      BY <2>5, <3>1
    <3>10. QED
      BY <1>4, <2>2, <2>5, <2>6, <3>1, <3>8, <3>9 DEF QueueInv, Beat
  <2>7. CASE dstate' # "DATA"
    <3>1. m = 0
      BY <1>1, <2>3, <2>4, <2>7 DEF TypeOK
    <3>2. QED
      BY <1>4, <2>2, <2>5, <2>7, <3>1 DEF QueueInv
  <2>8. QED
    BY <2>6, <2>7
<1>11. CASE dstate = "DATA"
  <2>1. /\ L = rd_pend + 1 /\ inflight[1] = Beat(dio_arb_rd_addr, dmem[dio_arb_rd_addr])
        /\ \A k \in 2 .. L : inflight[k] = PsxBeat
    BY <1>1, <1>11 DEF QueueInv, L
  <2>2. rd_pend' = rd_pend + m /\ ~dio_own
    BY <1>5, <1>2, <1>7, <1>11 DEF psx_rdy, dio_own
  <2>3. dstate' = IF ready THEN "END" ELSE "DATA"
    BY <1>1, <1>11 DEF ArbIdle, ArbCmd, ArbData, ArbEnd
  <2>4. \A k \in 1 .. Len(inflight') : k > 1 - o => inflight'[k] = PsxBeat
    <3>1. SUFFICES ASSUME NEW k \in 1 .. Len(inflight'), k > 1 - o PROVE inflight'[k] = PsxBeat
      OBVIOUS
    <3>2. CASE k \in 1 .. L - o
      <4>1. k + o \in 2 .. L
        BY <1>2, <1>5, <3>1, <3>2
      <4>2. QED
        BY <1>2, <2>1, <3>2, <4>1
    <3>3. CASE k \in L - o + 1 .. Len(inflight')
      BY <1>2, <2>2, <3>3
    <3>4. QED
      BY <1>2, <1>5, <3>2, <3>3
  <2>5. CASE ready
    <3>1. o = 1
      BY <2>5 DEF o
    <3>2. Len(inflight') = rd_pend' /\ \A k \in 1 .. Len(inflight') : inflight'[k] = PsxBeat
      BY <1>2, <1>5, <2>1, <2>2, <2>4, <3>1
    <3>3. QED
      BY <1>4, <2>3, <2>5, <3>2 DEF QueueInv
  <2>6. CASE ~ready
    <3>1. o = 0
      BY <2>6 DEF o
    <3>2. Len(inflight') = rd_pend' + 1 /\ \A k \in 2 .. Len(inflight') : inflight'[k] = PsxBeat
      BY <1>2, <1>5, <2>1, <2>2, <2>4, <3>1
    <3>3. 1 \in 1 .. L - o /\ 1 + o = 1
      BY <1>2, <1>5, <2>1, <3>1
    <3>4. inflight'[1] = inflight[1]
      BY <1>2, <3>3
    <3>5. dio_rd_busy /\ owner_req
      BY <1>1, <1>11 DEF ReadsInv
    <3>6. dio_arb_rd_addr' = dio_arb_rd_addr
      BY <1>1, <3>5, FabricKeeps DEF muxVars
    <3>7. dmem' = dmem
      BY <1>1, <2>2 DEF Ddr
    <3>8. inflight'[1] = Beat(dio_arb_rd_addr', dmem'[dio_arb_rd_addr'])
      BY <2>1, <3>4, <3>6, <3>7
    <3>9. QED
      BY <1>4, <2>3, <2>6, <3>2, <3>8 DEF QueueInv, Beat
  <2>7. QED
    BY <2>5, <2>6
<1>12. QED
  BY <1>1, <1>9, <1>10, <1>11 DEF TypeOK

(* What the arbiter shows with an acknowledge after an edge.                 *)
LEMMA DataEdge ==
  ASSUME PortInv, NEW ddr_busy \in BOOLEAN, NEW ready \in BOOLEAN, Edge(ddr_busy, ready)
  PROVE  DataInv'
<1>1. /\ TypeOK /\ ReadsInv /\ WritesInv /\ QueueInv /\ DataInv
      /\ Ddr(ddr_busy, ready) /\ Fabric
      /\ ArbIdle \/ ArbCmd(ddr_busy) \/ ArbData(ready) \/ ArbEnd
  BY DEF PortInv, Edge, Arb
<1>2. SUFFICES ASSUME dio_rd_ack', owner_req'
               PROVE  dio_rd_data' = Beat(dio_arb_rd_addr', dmem'[dio_arb_rd_addr'])
  BY DEF DataInv, Beat
<1>3. ~dio_own => dmem' = dmem
  BY <1>1 DEF Ddr
<1>4. CASE ArbData(ready) /\ dstate = "DATA"
  <2>1. ready /\ dio_rd_data' = Head(inflight) /\ ~dio_own
    BY <1>1, <1>2, <1>4 DEF ArbData, ReadsInv, dio_own
  <2>2. inflight \in Seq(InflightBeats) /\ inflight # <<>>
    BY <1>1, <2>1 DEF Ddr, TypeOK, InflightBeats
  <2>3. Head(inflight) = inflight[1]
    BY <2>2
  <2>4. inflight[1] = Beat(dio_arb_rd_addr, dmem[dio_arb_rd_addr])
    BY <1>1, <1>4 DEF QueueInv
  <2>5. dio_rd_busy /\ owner_req
    BY <1>1, <1>4 DEF ReadsInv
  <2>6. dio_arb_rd_addr' = dio_arb_rd_addr
    BY <1>1, <2>5, FabricKeeps DEF muxVars
  <2>7. QED
    BY <1>3, <2>1, <2>3, <2>4, <2>6
<1>5. CASE ~(ArbData(ready) /\ dstate = "DATA")
  <2>1. /\ ArbEnd /\ dio_rd_ack /\ dstate = "END" /\ d_rd /\ dio_rd_req
        /\ dio_rd_data' = dio_rd_data /\ ~dio_own
    BY <1>1, <1>2, <1>5 DEF ArbIdle, ArbCmd, ArbData, ArbEnd, ReadsInv, dio_own
  <2>2. dio_rd_busy /\ owner_req
    BY <2>1 DEF dio_rd_req
  <2>3. dio_arb_rd_addr' = dio_arb_rd_addr
    BY <1>1, <2>2, FabricKeeps DEF muxVars
  <2>4. QED
    BY <1>1, <1>3, <2>1, <2>2, <2>3 DEF DataInv
<1>6. QED
  BY <1>4, <1>5

(* The read channels after an edge: what the arbiter takes and acknowledges    *)
(* first, then the fabric's three movers.                                    *)
LEMMA ArbReads ==
  ASSUME PortInv, NEW ddr_busy \in BOOLEAN, NEW ready \in BOOLEAN, Edge(ddr_busy, ready)
  PROVE  /\ dio_rd_ack' <=> dstate' = "END" /\ d_rd'
         /\ dstate' # "IDLE" /\ d_rd' => dio_rd_busy /\ (owner_req \/ dio_rd_ack)
         /\ dstate' \in {"CMD", "DATA"} /\ d_rd' => dio_rd_req /\ ~dio_rd_ack
         /\ dstate' = "DATA" => d_rd'
         /\ dio_wr_ack' <=> dstate' = "END" /\ ~d_rd'
         /\ dstate' = "CMD" /\ ~d_rd' => mem_wr_req /\ ~dio_wr_ack
         /\ dio_wr_ack' => mem_wr_req
         /\ dio_rd_ack /\ ~dio_rd_ack' => ~owner_req
<1>1. /\ TypeOK /\ ReadsInv /\ WritesInv
      /\ ArbIdle \/ ArbCmd(ddr_busy) \/ ArbData(ready) \/ ArbEnd
  BY DEF PortInv, Edge, Arb
<1> USE DEF TypeOK, ReadsInv, WritesInv
<1>2. CASE ArbIdle
  BY <1>1, <1>2 DEF ArbIdle, dio_wr_pend, dio_rd_pend, dio_rd_req
<1>3. CASE ArbCmd(ddr_busy)
  BY <1>1, <1>3 DEF ArbCmd, dio_rd_req
<1>4. CASE ArbData(ready)
  BY <1>1, <1>4 DEF ArbData, dio_rd_req
<1>5. CASE ArbEnd
  BY <1>1, <1>5 DEF ArbEnd, dio_rd_req
<1>6. QED
  BY <1>1, <1>2, <1>3, <1>4, <1>5

LEMMA ReadsEdge ==
  ASSUME PortInv, NEW ddr_busy \in BOOLEAN, NEW ready \in BOOLEAN, Edge(ddr_busy, ready)
  PROVE  ReadsInv'
<1>1. /\ TypeOK /\ ReadsInv /\ Fabric
  BY DEF PortInv, Edge
<1>2. /\ mem_rd_req' => est' = "RD"
      /\ est' = "RD" => mem_rd_addr' \in RamBeats
      /\ ring_rd_req' <=> ring' = "REQ"
      /\ ring_rd_req' => ring_rd_addr' \in RingBeats
  <2>1. CASE ~both
    BY <1>1, <2>1 DEF Fabric, ramVars, ringVars, ReadsInv
  <2>2. CASE both
    <3>1. Ram /\ Ring
      BY <1>1, <2>2 DEF Fabric
    <3>2. /\ mem_rd_req' => est' = "RD"
          /\ est' = "RD" => mem_rd_addr' \in RamBeats
      <4>1. CASE RamIdle
        BY <1>1, <4>1 DEF RamIdle, ReadsInv
      <4>2. CASE RamRead
        BY <1>1, <4>2 DEF RamRead, ReadsInv
      <4>3. CASE RamWrite \/ RamEnd
        BY <1>1, <4>3 DEF RamWrite, RamEnd, ReadsInv
      <4>4. QED
        BY <3>1, <4>1, <4>2, <4>3 DEF Ram
    <3>3. /\ ring_rd_req' <=> ring' = "REQ"
          /\ ring_rd_req' => ring_rd_addr' \in RingBeats
      BY <1>1, <3>1 DEF Ring, RingIdle, RingReq, RingPush, RingWait, ringVars, ReadsInv
    <3>4. QED
      BY <3>2, <3>3
  <2>3. QED
    BY <2>1, <2>2
<1>3. /\ dio_rd_busy' /\ dio_rd_owner' = "ram" => mem_rd_req' \/ est' = "RD_END"
      /\ dio_rd_busy' /\ dio_rd_owner' = "ring" => ring' # "IDLE"
      /\ dio_rd_req' => dio_arb_rd_addr' = owner_addr'
  <2>1. CASE ~both
    BY <1>1, <2>1 DEF Fabric, muxVars, ramVars, ringVars, ReadsInv, dio_rd_req, owner_req, owner_addr
  <2>2. CASE both
    <3>1. Mux /\ Ram /\ Ring
      BY <1>1, <2>2 DEF Fabric
    <3>2. mem_rd_req => IF dio_mem_rd_ack
                        THEN est' = "RD_END"
                        ELSE mem_rd_req' /\ mem_rd_addr' = mem_rd_addr
      BY <1>1, <3>1 DEF Ram, RamIdle, RamRead, RamWrite, RamEnd, ReadsInv
    <3>3. est = "RD_END" /\ dio_mem_rd_ack => est' = "RD_END"
      BY <1>1, <3>1 DEF Ram, RamIdle, RamRead, RamWrite, RamEnd, ReadsInv
    <3>4. ring_rd_req => IF ring_rd_ack
                         THEN ring' = "PUSH" /\ ~ring_rd_req'
                         ELSE ring' = "REQ" /\ ring_rd_addr' = ring_rd_addr
      BY <1>1, <3>1 DEF Ring, RingIdle, RingReq, RingPush, RingWait, ringVars, ReadsInv
    <3>5. ring \in {"PUSH", "WAIT"} /\ ring_rd_ack => ring' \in {"PUSH", "WAIT"} /\ ~ring_rd_req'
      BY <1>1, <3>1 DEF Ring, RingIdle, RingReq, RingPush, RingWait, ringVars, ReadsInv
    <3>6. CASE dio_rd_busy /\ (owner_req \/ dio_rd_ack)
      <4>1. UNCHANGED muxVars
        BY <1>1, <3>6, FabricKeeps
      <4>2. CASE dio_rd_owner = "ram"
        <5>1. mem_rd_req' \/ est' = "RD_END"
          BY <1>1, <3>2, <3>3, <3>6, <4>2 DEF owner_req, dio_mem_rd_ack, ReadsInv
        <5>2. est' = "RD_END" => ~mem_rd_req'
          BY <1>2
        <5>3. mem_rd_req' => mem_rd_req
          BY <1>1, <3>1, <3>6, <4>2 DEF Ram, RamIdle, RamRead, RamWrite, RamEnd, ReadsInv
        <5>4. mem_rd_req' => dio_arb_rd_addr' = mem_rd_addr'
          BY <1>1, <3>2, <3>6, <4>1, <4>2, <5>2, <5>3
          DEF owner_req, owner_addr, dio_rd_req, muxVars, ReadsInv
        <5>5. QED
          BY <4>1, <4>2, <5>1, <5>4 DEF owner_req, owner_addr, dio_rd_req, muxVars
      <4>3. CASE dio_rd_owner = "ring"
        <5>1. ring' # "IDLE"
          BY <1>1, <3>4, <3>5, <3>6, <4>3 DEF owner_req, ring_rd_ack, ReadsInv, TypeOK
        <5>2. ring_rd_req' => ring_rd_req
          BY <1>1, <3>1, <3>6, <4>3 DEF Ring, RingIdle, RingReq, RingPush, RingWait, ringVars, ReadsInv
        <5>3. ring_rd_req' => dio_arb_rd_addr' = ring_rd_addr'
          BY <1>1, <3>4, <3>6, <4>1, <4>3, <5>2
          DEF owner_req, owner_addr, dio_rd_req, muxVars, ReadsInv
        <5>4. QED
          BY <4>1, <4>3, <5>1, <5>3 DEF owner_req, owner_addr, dio_rd_req, muxVars
      <4>4. QED
        BY <1>1, <4>2, <4>3 DEF TypeOK
    <3>7. CASE ~(dio_rd_busy /\ (owner_req \/ dio_rd_ack))
      <4>1. CASE ~dio_rd_busy /\ mem_rd_req /\ Grant("ram", mem_rd_addr)
        BY <3>2, <4>1 DEF Grant, dio_mem_rd_ack, owner_req, owner_addr, dio_rd_req
      <4>2. CASE ~dio_rd_busy /\ ~mem_rd_req /\ ring_rd_req /\ Grant("ring", ring_rd_addr)
        BY <3>4, <4>2 DEF Grant, ring_rd_ack, owner_req, owner_addr, dio_rd_req
      <4>3. CASE ~dio_rd_busy'
        BY <4>3 DEF dio_rd_req
      <4>4. QED
        BY <3>1, <3>7, <4>1, <4>2, <4>3 DEF Mux, muxVars
    <3>8. QED
      BY <3>6, <3>7
  <2>3. QED
    BY <2>1, <2>2
<1>4. /\ dio_rd_ack' <=> dstate' = "END" /\ d_rd'
      /\ dstate' # "IDLE" /\ d_rd' => dio_rd_busy /\ (owner_req \/ dio_rd_ack)
      /\ dstate' \in {"CMD", "DATA"} /\ d_rd' => dio_rd_req /\ ~dio_rd_ack
      /\ dstate' = "DATA" => d_rd'
  BY ArbReads
<1>5. /\ dstate' # "IDLE" /\ d_rd' => dio_rd_busy'
      /\ dstate' \in {"CMD", "DATA"} /\ d_rd' => owner_req'
  BY <1>1, <1>4, FabricKeeps DEF muxVars
<1>6. QED
  BY <1>2, <1>3, <1>4, <1>5 DEF ReadsInv

(* The write channel after an edge: the fabric drops a request only when it is *)
(* acknowledged.                                                            *)
LEMMA WritesEdge ==
  ASSUME PortInv, NEW ddr_busy \in BOOLEAN, NEW ready \in BOOLEAN, Edge(ddr_busy, ready)
  PROVE  WritesInv'
<1>1. /\ TypeOK /\ WritesInv /\ Fabric
  BY DEF PortInv, Edge
<1>2. /\ mem_wr_req' => est' = "WR"
      /\ est' = "WR" => mem_wr' \in RamBeats \X Values /\ written'[mem_wr'[1]] = mem_wr'[2]
      /\ mem_wr_req => mem_wr_req' \/ est' = "WR_END"
  <2>1. CASE ~both
    BY <1>1, <2>1 DEF Fabric, ramVars, WritesInv
  <2>2. CASE both /\ RamIdle
    <3>1. mem_wr_req' = mem_wr_req /\ ~mem_wr_req
      BY <1>1, <2>2 DEF RamIdle, WritesInv
    <3>2. ASSUME NEW b \in RamBeats, NEW v \in Values,
                 mem_wr' = Beat(b, v), written' = [written EXCEPT ![b] = v]
          PROVE  mem_wr' \in RamBeats \X Values /\ written'[mem_wr'[1]] = mem_wr'[2]
      <4>1. mem_wr'[1] = b /\ mem_wr'[2] = v /\ mem_wr' \in RamBeats \X Values
        BY <3>2 DEF Beat
      <4>2. b \in Beats /\ written \in [Beats -> Values]
        BY <1>1 DEF Beats, TypeOK
      <4>3. QED
        BY <3>2, <4>1, <4>2
    <3>3. QED
      BY <1>1, <2>2, <3>1, <3>2 DEF RamIdle
  <2>3. CASE both /\ (RamRead \/ RamEnd)
    BY <1>1, <2>3 DEF RamRead, RamEnd, WritesInv
  <2>4. CASE both /\ RamWrite
    BY <1>1, <2>4 DEF RamWrite, WritesInv
  <2>5. QED
    BY <1>1, <2>1, <2>2, <2>3, <2>4 DEF Fabric, Ram
<1>3. /\ dio_wr_ack' <=> dstate' = "END" /\ ~d_rd'
      /\ dstate' = "CMD" /\ ~d_rd' => mem_wr_req /\ ~dio_wr_ack
      /\ dio_wr_ack' => mem_wr_req
  BY ArbReads
<1>4. dstate' = "CMD" /\ ~d_rd' => mem_wr_req'
  BY <1>1, <1>3, FabricKeeps
<1>5. QED
  BY <1>2, <1>3, <1>4 DEF WritesInv

(* A word is in memory when it is acknowledged, and stands in its channel     *)
(* until then.                                                              *)
LEMMA LandsEdge ==
  ASSUME PortInv, NEW ddr_busy \in BOOLEAN, NEW ready \in BOOLEAN, Edge(ddr_busy, ready)
  PROVE  WritesLand'
<1>1. /\ TypeOK /\ ReadsInv /\ WritesInv /\ BurstInv /\ WritesLand /\ Fabric /\ Ddr(ddr_busy, ready)
      /\ ArbIdle \/ ArbCmd(ddr_busy) \/ ArbData(ready) \/ ArbEnd
  BY DEF PortInv, Edge, Arb
<1>2. dmem \in [Beats -> Values] /\ written \in [Beats -> Values]
  BY <1>1 DEF TypeOK
<1>3. CASE dstate = "CMD" /\ ~d_rd /\ ~ddr_busy
  <2>1. /\ mem_wr_req /\ ~dio_wr_ack /\ est = "WR" /\ s_rem = 0 /\ dio_own
        /\ mem_wr[1] \in Beats /\ written[mem_wr[1]] = mem_wr[2]
    BY <1>1, <1>3 DEF WritesInv, BurstInv, dio_own, Beats
  <2>2. dmem' = [dmem EXCEPT ![mem_wr[1]] = mem_wr[2]]
    <3>1. port.op = "we" /\ dio_addr = mem_wr[1]
      BY <1>3, <2>1 DEF port, dio_addr
    <3>2. QED
      BY <1>1, <1>3, <2>1, <3>1 DEF Ddr
  <2>3. written' = written
    BY <1>1, <2>1 DEF Fabric, ramVars, Ram, RamIdle, RamRead, RamWrite, RamEnd
  <2>4. QED
    BY <1>1, <1>2, <2>1, <2>2, <2>3 DEF WritesLand
<1>4. CASE ~(dstate = "CMD" /\ ~d_rd /\ ~ddr_busy)
  <2>1. dmem' = dmem
    BY <1>1, <1>4 DEF Ddr, port, dio_own
  <2>2. dio_wr_ack' => dio_wr_ack
    BY <1>1, <1>4 DEF ArbIdle, ArbCmd, ArbData, ArbEnd
  <2>3. est = "WR" /\ ~dio_wr_ack => est' = "WR" /\ mem_wr' = mem_wr /\ written' = written
    BY <1>1 DEF Fabric, ramVars, Ram, RamIdle, RamRead, RamWrite, RamEnd
  <2>4. CASE est = "WR" /\ ~dio_wr_ack
    BY <1>1, <2>1, <2>2, <2>3, <2>4 DEF WritesLand
  <2>5. CASE ~(est = "WR" /\ ~dio_wr_ack)
    <3>1. \A b \in Beats : dmem[b] = written[b]
      BY <1>1, <2>5 DEF WritesLand
    <3>2. CASE written' = written
      BY <2>1, <3>1, <3>2 DEF WritesLand
    <3>3. CASE written' # written
      <4>1. PICK b \in RamBeats, v \in Values :
              est' = "WR" /\ mem_wr' = Beat(b, v) /\ written' = [written EXCEPT ![b] = v]
        BY <1>1, <3>3 DEF Fabric, ramVars, Ram, RamIdle, RamRead, RamWrite, RamEnd
      <4>2. est = "IDLE"
        BY <1>1, <3>3 DEF Fabric, ramVars, Ram, RamIdle, RamRead, RamWrite, RamEnd
      <4>3. ~dio_wr_ack
        BY <1>1, <4>2 DEF WritesInv
      <4>4. mem_wr'[1] = b
        BY <4>1 DEF Beat
      <4>5. ASSUME NEW c \in Beats, c # b PROVE dmem'[c] = written'[c]
        BY <1>2, <2>1, <3>1, <4>1, <4>5
      <4>6. QED
        BY <1>1, <2>2, <4>1, <4>3, <4>4, <4>5 DEF WritesLand, TypeOK
    <3>4. QED
      BY <3>2, <3>3
  <2>6. QED
    BY <2>4, <2>5
<1>5. QED
  BY <1>3, <1>4

(* Every edge keeps the types. *)
LEMMA TypeEdge ==
  ASSUME PortInv, NEW ddr_busy \in BOOLEAN, NEW ready \in BOOLEAN, Edge(ddr_busy, ready)
  PROVE  TypeOK'
<1>1. /\ TypeOK /\ BurstInv /\ Fabric /\ Ddr(ddr_busy, ready) /\ Track(ddr_busy, ready) /\ Psx(ddr_busy)
      /\ ArbIdle \/ ArbCmd(ddr_busy) \/ ArbData(ready) \/ ArbEnd
  BY DEF PortInv, Edge, Arb
<1>2. ready => inflight # <<>>
  BY <1>1 DEF Ddr
<1>3. /\ rd_pend' \in 0 .. MaxPend /\ wr_rem' \in 0 .. MaxBurst - 1
      /\ psx' \in PsxCommands \cup {Silent} /\ psx_left' \in 0 .. MaxBurst
  BY <1>1, <1>2, PsxEdge
<1>4. inflight' \in Seq(InflightBeats)
  BY <1>1, DdrQueue
<1>5. s_rem' = wr_rem'
  BY BurstStep DEF PortInv, BurstInv
<1>6. dmem' \in [Beats -> Values]
  <2>1. dio_own /\ port.op = "we" => mem_wr[2] \in Values
    BY <1>1, BoardAddress DEF port
  <2>2. QED
    BY <1>1, <2>1 DEF Ddr, TypeOK
<1>7. /\ dstate' \in {"IDLE", "CMD", "DATA", "END"} /\ d_rd' \in BOOLEAN
      /\ {dio_rd_ack', dio_wr_ack'} \subseteq BOOLEAN
  BY <1>1 DEF ArbIdle, ArbCmd, ArbData, ArbEnd, TypeOK
<1>8. dio_rd_data' \in DioBeats \cup {NoBeat, PsxBeat}
  <2>1. ready => Head(inflight) \in InflightBeats
    BY <1>1, <1>2, HeadTailProperties DEF TypeOK, InflightBeats
  <2>2. QED
    BY <1>1, <2>1 DEF ArbIdle, ArbCmd, ArbData, ArbEnd, TypeOK, InflightBeats
<1>9. /\ dio_rd_busy' \in BOOLEAN /\ dio_rd_owner' \in {"ram", "ring"}
      /\ dio_arb_rd_addr' \in Beats \cup {None}
  BY <1>1 DEF Fabric, Mux, Grant, muxVars, TypeOK, Beats
<1>10. /\ est' \in {"IDLE", "RD", "RD_END", "WR", "WR_END"} /\ {mem_rd_req', mem_wr_req'} \subseteq BOOLEAN
       /\ mem_rd_addr' \in RamBeats \cup {None} /\ mem_wr' \in (RamBeats \X Values) \cup {NoBeat}
       /\ written' \in [Beats -> Values]
  <2>1. CASE both /\ RamIdle
    BY <1>1, <2>1 DEF RamIdle, TypeOK, Beat, Beats
  <2>2. CASE both /\ (RamRead \/ RamWrite \/ RamEnd)
    BY <1>1, <2>2 DEF RamRead, RamWrite, RamEnd, TypeOK
  <2>3. CASE ~both
    BY <1>1, <2>3 DEF Fabric, ramVars, TypeOK
  <2>4. QED
    BY <1>1, <2>1, <2>2, <2>3 DEF Fabric, Ram
<1>11. /\ ring' \in {"IDLE", "REQ", "PUSH", "WAIT"} /\ ring_rd_req' \in BOOLEAN
       /\ ring_rd_addr' \in RingBeats \cup {None} /\ both' \in BOOLEAN
  BY <1>1 DEF Fabric, Ring, RingIdle, RingReq, RingPush, RingWait, ringVars, TypeOK
<1>12. s_rem' \in 0 .. MaxBurst - 1
  BY <1>3, <1>5
<1>13. QED
  BY <1>3, <1>4, <1>6, <1>7, <1>8, <1>9, <1>10, <1>11, <1>12, Zenon DEF TypeOK, InflightBeats

(* A reset of the core leaves the port as the invariant has it. *)
LEMMA PortReset ==
  ASSUME PortInv, Reset
  PROVE  PortInv'
<1> USE DEF Reset, ArbReset
<1>1. dmem \in [Beats -> Values] /\ both \in BOOLEAN
  BY DEF PortInv, TypeOK
<1>2. <<>> \in Seq(DioBeats \cup {PsxBeat}) /\ Len(<<>>) = 0
  BY EmptySeq
<1>3. 0 \in 0 .. MaxPend /\ 0 \in 0 .. MaxBurst - 1 /\ 0 \in 0 .. MaxBurst
  BY PsxAssumption
<1>4. TypeOK'
  BY <1>1, <1>2, <1>3 DEF TypeOK
<1>5. BurstInv' /\ ReadsInv' /\ WritesInv' /\ DataInv'
  BY DEF BurstInv, ReadsInv, WritesInv, DataInv, dio_own, owner_req, dio_rd_req
<1>6. QueueInv'
  BY <1>2 DEF QueueInv, Silent
<1>7. WritesLand'
  BY DEF WritesLand
<1>8. QED
  BY <1>4, <1>5, <1>6, <1>7 DEF PortInv

(* The port starts empty. *)
LEMMA PortInit == DdrInit => PortInv
<1> SUFFICES ASSUME DdrInit PROVE PortInv
  OBVIOUS
<1> USE DEF DdrInit
<1>1. dmem \in [Beats -> Values]
  BY ValuesAssumption
<1>2. <<>> \in Seq(DioBeats \cup {PsxBeat}) /\ Len(<<>>) = 0
  BY EmptySeq
<1>3. 0 \in 0 .. MaxPend /\ 0 \in 0 .. MaxBurst - 1 /\ 0 \in 0 .. MaxBurst
  BY PsxAssumption
<1>4. TypeOK
  BY <1>1, <1>2, <1>3 DEF TypeOK
<1>5. BurstInv /\ ReadsInv /\ WritesInv /\ DataInv
  BY DEF BurstInv, ReadsInv, WritesInv, DataInv, dio_own, owner_req, dio_rd_req
<1>6. QueueInv
  BY <1>2 DEF QueueInv, Silent
<1>7. WritesLand
  BY DEF WritesLand
<1>8. QED
  BY <1>4, <1>5, <1>6, <1>7 DEF PortInv

(* Every step of the fabric keeps the invariant of the port. *)
LEMMA PortStep == PortInv /\ [Next]_vars => PortInv'
<1> SUFFICES ASSUME PortInv, [Next]_vars PROVE PortInv'
  OBVIOUS
<1>1. CASE UNCHANGED portVars
  <2> USE <1>1 DEF portVars, arbVars, muxVars, ramVars, ringVars, psxVars, ddrVars, PortInv
  <2>1. TypeOK'
    BY DEF TypeOK
  <2>2. BurstInv' /\ ReadsInv' /\ WritesInv' /\ DataInv'
    BY DEF BurstInv, ReadsInv, WritesInv, DataInv, dio_own, owner_req, dio_rd_req, owner_addr, Beat
  <2>3. QueueInv' /\ WritesLand'
    BY DEF QueueInv, WritesLand, Beat
  <2>4. QED
    BY <2>1, <2>2, <2>3
<1>2. CASE Reset
  BY <1>2, PortReset
<1>3. ASSUME NEW ddr_busy \in BOOLEAN, NEW ready \in BOOLEAN, Edge(ddr_busy, ready)
      PROVE  PortInv'
  <2>1. BurstInv'
    BY <1>3, BurstStep DEF PortInv
  <2>2. QED
    BY <1>3, <2>1, TypeEdge, ReadsEdge, WritesEdge, QueueEdge, DataEdge, LandsEdge DEF PortInv
<1>4. QED
  BY <1>1, <1>2, <1>3 DEF Next, Of, DdrNext, vars

(* The inductive invariant of the DDR3 port: requests stand until they are    *)
(* answered, and the queue of DDR3 is what the arbiter counts.               *)
THEOREM PortInvariant == Spec => []PortInv
<1>1. Init => PortInv
  BY PortInit DEF Init
<1>2. QED
  BY <1>1, PortStep, PTL DEF Spec

(* No beat of DDR3, and no acknowledge, goes to another client than its own,   *)
(* for every burst length, every number of beats under way and every set of   *)
(* beats: routing by position needs no tags.                                 *)
THEOREM BeatsAreRouted == Spec => []RoutedRight
<1>1. PortInv => RoutedRight
  <2> SUFFICES ASSUME PortInv PROVE RoutedRight
    OBVIOUS
  <2>1. TypeOK /\ ReadsInv /\ WritesInv /\ QueueInv /\ DataInv /\ WritesLand
    BY DEF PortInv
  <2>2. RightBeat
    <3>1. SUFFICES ASSUME inflight # <<>> PROVE dstate = "DATA" <=> Head(inflight) # PsxBeat
      BY DEF RightBeat
    <3>2. inflight \in Seq(InflightBeats)
      BY <2>1 DEF TypeOK, InflightBeats
    <3>3. Head(inflight) = inflight[1] /\ 1 \in 1 .. Len(inflight)
      BY <3>1, <3>2, EmptySeq
    <3>4. CASE dstate = "DATA"
      <4>1. dio_arb_rd_addr \in Beats
        BY <2>1, <3>4 DEF ReadsInv, dio_rd_req, owner_req, owner_addr, Beats, TypeOK
      <4>2. dio_arb_rd_addr # "psx"
        BY <4>1, BeatsAssumption DEF Beats
      <4>3. Beat(dio_arb_rd_addr, dmem[dio_arb_rd_addr]) # PsxBeat
        BY <4>2 DEF Beat, PsxBeat
      <4>4. QED
        BY <2>1, <3>3, <3>4, <4>3 DEF QueueInv
    <3>5. CASE dstate # "DATA"
      BY <2>1, <3>3, <3>5 DEF QueueInv
    <3>6. QED
      BY <3>4, <3>5
  <2>3. RightClient
    <3>1. ASSUME mem_rd_req, dio_mem_rd_ack
          PROVE  dio_rd_data = Beat(mem_rd_addr, written[mem_rd_addr])
      <4>1. dio_rd_req /\ owner_req /\ dio_rd_ack /\ dio_arb_rd_addr = mem_rd_addr
        BY <2>1, <3>1 DEF dio_mem_rd_ack, dio_rd_req, owner_req, owner_addr, ReadsInv
      <4>2. est = "RD" /\ mem_rd_addr \in Beats
        BY <2>1, <3>1 DEF ReadsInv, Beats
      <4>3. dmem[mem_rd_addr] = written[mem_rd_addr]
        BY <2>1, <4>2 DEF WritesLand
      <4>4. QED
        BY <2>1, <4>1, <4>3 DEF DataInv
    <3>2. ASSUME ring_rd_req, ring_rd_ack
          PROVE  dio_rd_data = Beat(ring_rd_addr, dmem[ring_rd_addr])
      <4>1. dio_rd_req /\ owner_req /\ dio_rd_ack /\ dio_arb_rd_addr = ring_rd_addr
        BY <2>1, <3>2 DEF ring_rd_ack, dio_rd_req, owner_req, owner_addr, ReadsInv
      <4>2. QED
        BY <2>1, <4>1 DEF DataInv
    <3>3. QED
      BY <3>1, <3>2 DEF RightClient
  <2>4. QED
    BY <2>1, <2>2, <2>3 DEF RoutedRight
<1>2. QED
  BY <1>1, PortInvariant, PTL

(* A word of the board is in DDR3 when the arbiter acknowledges it, however    *)
(* busy the port is, and no other word is missing.                           *)
THEOREM WordsLand == Spec => []WritesLand
<1>1. PortInv => WritesLand
  BY DEF PortInv
<1>2. QED
  BY <1>1, PortInvariant, PTL

-----------------------------------------------------------------------------
(* Channels 3 and 4 of the SDRAM.                                          *)

(* What stands in the registers of the ports. *)
AllWords == Words \cup {Masked}
Owners == {"download", "saver", "flash", "nobody"}
Operations == {NoOp} \cup [kind : {"read", "write"}, word : AllWords]
SdramTypeOK ==
  /\ own \in {"IDLE", "OWN_A", "OWN_B"} /\ {issue, a_pend, b_pend} \subseteq BOOLEAN
  /\ {hold, a_hold, b_hold} \subseteq AllWords
  /\ sv \in {"IDLE", "FILL_REQ", "FILL_WAIT", "LO_RD", "DRAIN_REQ", "DRAIN_WAIT"}
  /\ {mem_req, sv_req, sv_busy} \subseteq BOOLEAN /\ {mem_addr, sv_word} \subseteq AllWords
  /\ fill \in {"IDLE", "REQ"} /\ {fl_req, wb_req, wb_busy} \subseteq BOOLEAN
  /\ {fl_addr, wb_word} \subseteq AllWords
  /\ {dl_wr, ioctl_wait} \subseteq BOOLEAN /\ dl_word \in AllWords
  /\ rst \in {"none", "core", "button", "flash", "bios"} /\ reset \in BOOLEAN
  /\ {rq3, rq4, ready3, ready4} \subseteq BOOLEAN /\ {buf3, dout, landed} \subseteq AllWords
  /\ op \in Operations /\ asked \in [by : Owners, word : AllWords, lost : BOOLEAN]

(* Channel 4 has one transaction on its way, of the address the arbiter holds, *)
(* and an idle arbiter has none but what a reset of the core left behind.     *)
Reads4 == op.kind = "read"
Slot4 ==
  /\ issue => ~rq4 /\ ~Reads4 /\ ~ready4
  /\ rq4 => ~Reads4 /\ ~ready4
  /\ Reads4 => ~ready4
  /\ own = "IDLE" => ~issue
  /\ own = "IDLE" /\ (rq4 \/ Reads4 \/ ready4) => rst = "core"
  /\ own # "IDLE" => (Reads4 => op.word = hold) /\ (ready4 => dout = hold)

(* One read-back of the saver is on its way while it waits, of its address;    *)
(* another only while the reset that took the saver away lasts.              *)
TokenA == mem_req \/ a_pend \/ own = "OWN_A"
SaverReads ==
  /\ mem_req => sv = "FILL_WAIT" /\ ~a_pend /\ own # "OWN_A"
  /\ a_pend => own # "OWN_A"
  /\ sv = "FILL_WAIT" /\ a_pend => a_hold = mem_addr
  /\ sv = "FILL_WAIT" /\ own = "OWN_A" => hold = mem_addr
  /\ TokenA /\ sv # "FILL_WAIT" => sv = "IDLE" /\ rst \in {"core", "flash"}

(* The same of the line fills; a saver that drains has a flash at rest.       *)
TokenB == fl_req \/ b_pend \/ own = "OWN_B"
FlashReads ==
  /\ fl_req => fill = "REQ" /\ ~b_pend /\ own # "OWN_B"
  /\ b_pend => own # "OWN_B"
  /\ fill = "REQ" /\ b_pend => b_hold = fl_addr
  /\ fill = "REQ" /\ own = "OWN_B" => hold = fl_addr
  /\ TokenB /\ fill # "REQ" => reset /\ (rst # "none" \/ sv = "LO_RD")
  /\ reset /\ (fill = "REQ" \/ wb_busy) => rst # "none" \/ sv = "LO_RD"
  /\ sv \in {"DRAIN_REQ", "DRAIN_WAIT"} => reset /\ fill = "IDLE" /\ ~wb_busy /\ ~TokenB

(* A request on channel 3, from the latch to the acknowledge. *)
Writes3 == op.kind = "write"
Taken3 == rq3 \/ Writes3 \/ ready3

(* The requests of channel 3 are pulses of clients that are then busy. *)
Pulses ==
  /\ sv_req => sv_busy
  /\ sv_busy <=> sv = "DRAIN_WAIT"
  /\ wb_req => wb_busy
  /\ dl_wr => ioctl_wait /\ reset

(* One request at a time: whoever asks finds the channel free. *)
Slot3 ==
  /\ ch3_req => ~Taken3
  /\ rq3 => ~Writes3 /\ ~ready3
  /\ Writes3 => ~ready3
  /\ ~reset /\ ~wb_busy => ~Taken3
  /\ Taken3 /\ reset => rst # "none" \/ sv = "LO_RD" \/ sv = "DRAIN_WAIT"
  /\ wb_req => ~Taken3
  /\ ~ch3_dl /\ sv = "DRAIN_REQ" => ~Taken3 /\ ~ch3_req
  /\ ~ch3_dl /\ sv_req => ~Taken3

(* The word asked for, or what is on the wires once its owner is gone. *)
Right(x) == x = asked.word \/ (asked.lost /\ x \in {Masked, dl_word})

(* The request is of word x, wherever it has got to. *)
Carried(x) ==
  /\ asked.word = x
  /\ rq3 => buf3 = x
  /\ Writes3 => op.word = x
  /\ ready3 => landed = x

(* Whose request it is, and that its word stands in its port. *)
Asked3 ==
  /\ Taken3 => /\ asked.by # "nobody"
               /\ asked.by = "download" => ch3_dl
               /\ asked.by = "saver" /\ ~sv_busy => rst \in {"core", "flash"}
               /\ wb_busy => asked.by = "flash" /\ asked.word = wb_word
               /\ wb_busy /\ ~reset => Carried(wb_word)
               /\ sv_busy /\ ~ch3_dl => asked.by = "saver" /\ Carried(sv_word)
  /\ rq3 => Right(buf3)
  /\ Writes3 => Right(op.word)

(* The inductive invariant of the two channels. *)
SdramInv ==
  SdramTypeOK /\ Slot4 /\ SaverReads /\ FlashReads /\ Pulses /\ Slot3 /\ Asked3

(* A reset is left only when nothing of a client is on its way.               *)
LEMMA ResetLeft ==
  ASSUME Resets
  PROVE  /\ rst # "none" /\ rst' # rst => reset /\ Quiet /\ rst' = "none"
         /\ reset' = (rst # "none" \/ flash_loading)
BY DEF Resets

(* When the SDRAM is quiet, no client has anything on its way. *)
LEMMA QuietMeans ==
  ASSUME SdramInv, Quiet
  PROVE  /\ ~TokenA /\ ~TokenB /\ ~Taken3 /\ ~ch3_req /\ ~rq4 /\ ~ready4 /\ ~Reads4 /\ ~issue
         /\ ~sv_req /\ ~wb_req /\ ~dl_wr
BY DEF Quiet, Quiet3, TokenA, TokenB, Taken3, Writes3, Reads4, ch3_req, NoOp

(* Every step keeps the types. *)
LEMMA SdramTypeStep ==
  ASSUME SdramInv, SdramNext
  PROVE  SdramTypeOK'
<1> USE DEF SdramTypeOK, AllWords
<1>0. /\ Arbiter4 /\ Saver /\ FlashPorts /\ Download /\ Resets /\ Controller
      /\ SdramTypeOK /\ Pulses
  BY DEF SdramNext, SdramInv
<1>1. /\ own' \in {"IDLE", "OWN_A", "OWN_B"} /\ {issue', a_pend', b_pend'} \subseteq BOOLEAN
      /\ {hold', a_hold', b_hold'} \subseteq AllWords
  BY <1>0 DEF Arbiter4, ArbiterReset
<1>2. /\ sv' \in {"IDLE", "FILL_REQ", "FILL_WAIT", "LO_RD", "DRAIN_REQ", "DRAIN_WAIT"}
      /\ {mem_req', sv_req', sv_busy'} \subseteq BOOLEAN /\ {mem_addr', sv_word'} \subseteq AllWords
  <2>1. CASE rst \in {"core", "flash"}
    BY <1>0, <2>1 DEF Saver, SaverReset
  <2>2. CASE ~(rst \in {"core", "flash"})
    <3>1. sv' \in {"IDLE", "FILL_REQ", "FILL_WAIT", "LO_RD", "DRAIN_REQ", "DRAIN_WAIT"}
      BY <1>0, <2>2 DEF Saver, SaverSteps
    <3>2. /\ {mem_req', sv_req', sv_busy'} \subseteq BOOLEAN /\ {mem_addr', sv_word'} \subseteq AllWords
      BY <1>0, <2>2 DEF Saver
    <3>3. QED
      BY <3>1, <3>2
  <2>3. QED
    BY <2>1, <2>2
<1>3. /\ fill' \in {"IDLE", "REQ"} /\ {fl_req', wb_req', wb_busy'} \subseteq BOOLEAN
      /\ {fl_addr', wb_word'} \subseteq AllWords
  BY <1>0 DEF FlashPorts, FlashReset, Filling, WriteBack
<1>4. {dl_wr', ioctl_wait'} \subseteq BOOLEAN /\ dl_word' \in AllWords
  BY <1>0 DEF Download
<1>5. rst' \in {"none", "core", "button", "flash", "bios"} /\ reset' \in BOOLEAN
  BY <1>0 DEF Resets
<1>6. ch4_addr \in AllWords /\ ch3_word \in AllWords
  BY <1>0 DEF ch4_addr, ch3_word
<1>7. ch3_owner \in Owners
  BY DEF ch3_owner, Owners
<1>8. {rq3', rq4', ready3', ready4'} \subseteq BOOLEAN /\ {buf3', dout', landed'} \subseteq AllWords
  <2>1. NoOp.word = Masked
    BY DEF NoOp
  <2>2. op.word \in AllWords
    BY <1>0, <2>1 DEF Operations
  <2>3. ch3_req \in BOOLEAN
    BY <1>0 DEF ch3_req
  <2>4. {buf3', dout', landed'} \subseteq AllWords
    BY <1>0, <1>6, <2>2 DEF Controller, Busy, Serve3, Serve4, Finish
  <2>5. rq3' \in BOOLEAN /\ rq4' \in BOOLEAN
    BY <1>0, <2>3 DEF Controller, Busy, Serve3, Serve4, Finish, Latch
  <2>6. ready3' \in BOOLEAN /\ ready4' \in BOOLEAN
    BY <1>0 DEF Controller, Busy, Serve3, Serve4, Finish
  <2>7. QED
    BY <2>4, <2>5, <2>6
<1>9. op' \in Operations
  <2>1. op' = op \/ op' = NoOp \/ \E k \in {"read", "write"}, w \in AllWords : op' = [kind |-> k, word |-> w]
    BY <1>0, <1>6 DEF Controller, Busy, Serve3, Serve4, Finish
  <2>2. QED
    BY <1>0, <2>1 DEF Operations
<1>10. asked' \in [by : Owners, word : AllWords, lost : BOOLEAN]
  <2>1. Nothing \in [by : Owners, word : AllWords, lost : BOOLEAN]
    BY DEF Nothing, Owners
  <2>2. [by |-> ch3_owner, word |-> ch3_word, lost |-> FALSE] \in [by : Owners, word : AllWords, lost : BOOLEAN]
    BY <1>6, <1>7
  <2>3. [asked EXCEPT !.lost = @ \/ rst # "none" \/ (asked.by = "flash" /\ reset)]
          \in [by : Owners, word : AllWords, lost : BOOLEAN]
    BY <1>0
  <2>4. QED
    BY <1>0, <2>1, <2>2, <2>3 DEF Controller
<1>11. QED
  BY <1>1, <1>2, <1>3, <1>4, <1>5, <1>8, <1>9, <1>10

(* Channel 4 carries one transaction, of the address the arbiter holds.       *)
LEMMA Slot4Step ==
  ASSUME SdramInv, SdramNext
  PROVE  Slot4'
<1>0. /\ Arbiter4 /\ Resets /\ Controller /\ SdramTypeOK /\ Slot4
  BY DEF SdramNext, SdramInv
<1> USE <1>0 DEF SdramTypeOK, Reads4
<1>1. /\ Reads4 => op # NoOp /\ op \in [kind : {"read", "write"}, word : AllWords]
      /\ NoOp.kind = "none"
      /\ op # NoOp => op.kind \in {"read", "write"}
  BY DEF NoOp, Operations
<1>2. own' # "IDLE" => rst # "core"
  BY DEF Arbiter4, ArbiterReset
<1>3. issue' => own = "IDLE" /\ own' # "IDLE" /\ rst # "core"
  BY DEF Arbiter4, ArbiterReset
<1>4. /\ Reads4' => (Reads4 /\ op' = op) \/ (~Reads4 /\ (rq4 \/ issue) /\ op'.word = hold /\ ~rq4')
      /\ rq4' => rq4 \/ issue
      /\ ready4' => Reads4 /\ dout' = op.word /\ ~Reads4'
  <2>1. CASE Busy
    BY <2>1 DEF Busy, Latch
  <2>2. CASE Serve3
    BY <1>1, <2>2 DEF Serve3
  <2>3. CASE Serve4
    BY <1>1, <2>3 DEF Serve4, ch4_addr
  <2>4. CASE Finish
    BY <1>1, <2>4 DEF Finish, Latch
  <2>5. QED
    BY <2>1, <2>2, <2>3, <2>4 DEF Controller
<1>5. own' # "IDLE" /\ own # "IDLE" => hold' = hold
  BY <1>2 DEF Arbiter4
<1>6. (own = "IDLE" /\ rst # "core") => ~rq4 /\ ~Reads4 /\ ~ready4 /\ ~issue
  BY DEF Slot4
<1>7. own # "IDLE" /\ own' = "IDLE" /\ rst # "core" => ready4
  BY DEF Arbiter4
<1>8. ready4 => ~rq4 /\ ~Reads4 /\ ~issue
  BY DEF Slot4
<1>9. rst = "core" /\ (rq4 \/ Reads4 \/ ready4 \/ issue) => rst' = "core"
  BY ResetLeft, QuietMeans
<1>10. /\ issue' => ~rq4' /\ ~Reads4' /\ ~ready4'
       /\ rq4' => ~Reads4' /\ ~ready4'
       /\ Reads4' => ~ready4'
  BY <1>3, <1>4, <1>6 DEF Slot4
<1>11. own' = "IDLE" => ~issue'
  BY <1>3
<1>12. own' = "IDLE" /\ (rq4' \/ Reads4' \/ ready4') => rst' = "core"
  BY <1>4, <1>6, <1>7, <1>8, <1>9
<1>13. own' # "IDLE" => (Reads4' => op'.word = hold') /\ (ready4' => dout' = hold')
  BY <1>2, <1>4, <1>5, <1>6 DEF Slot4
<1>14. QED
  BY <1>10, <1>11, <1>12, <1>13 DEF Slot4

(* The arbiter's slots, and the address it holds for its owner.               *)
LEMMA ArbiterSlots ==
  ASSUME SdramTypeOK, Arbiter4
  PROVE  /\ a_pend' => mem_req \/ (a_pend /\ own # "IDLE")
         /\ own' = "OWN_A" => \/ own = "IDLE" /\ a_pend /\ hold' = a_hold
                              \/ own = "OWN_A" /\ ~ready4 /\ hold' = hold
         /\ a_hold' = mem_addr \/ ~mem_req
         /\ a_pend' /\ ~mem_req => a_hold' = a_hold
         /\ b_pend' => fl_req \/ (b_pend /\ ~(own = "IDLE" /\ ~a_pend))
         /\ own' = "OWN_B" => \/ own = "IDLE" /\ ~a_pend /\ b_pend /\ hold' = b_hold
                              \/ own = "OWN_B" /\ ~ready4 /\ hold' = hold
         /\ b_hold' = fl_addr \/ ~fl_req
         /\ b_pend' /\ ~fl_req => b_hold' = b_hold
<1> USE DEF Arbiter4, SdramTypeOK
<1>1. CASE rst = "core"
  BY <1>1 DEF ArbiterReset
<1>2. CASE rst # "core"
  BY <1>2
<1>3. QED
  BY <1>1, <1>2

(* The saver's read-back has one request on its way while it waits, of its     *)
(* address, and none otherwise but what a reset left there.                  *)
LEMMA SaverReadsStep ==
  ASSUME SdramInv, SdramNext
  PROVE  SaverReads'
<1>0. Arbiter4 /\ Saver /\ Resets /\ SdramTypeOK /\ SaverReads
  BY DEF SdramNext, SdramInv
<1>1. /\ a_pend' => mem_req \/ (a_pend /\ own # "IDLE")
      /\ own' = "OWN_A" => \/ own = "IDLE" /\ a_pend /\ hold' = a_hold
                           \/ own = "OWN_A" /\ ~ready4 /\ hold' = hold
      /\ a_hold' = mem_addr \/ ~mem_req
      /\ a_pend' /\ ~mem_req => a_hold' = a_hold
  BY <1>0, ArbiterSlots
<1>2. TokenA => rst \notin {"core", "flash"} \/ rst' = rst
  BY <1>0, ResetLeft, QuietMeans
<1>3. /\ mem_req => sv = "FILL_WAIT" /\ ~a_pend /\ own # "OWN_A"
      /\ a_pend => own # "OWN_A"
      /\ sv = "FILL_WAIT" /\ a_pend => a_hold = mem_addr
      /\ sv = "FILL_WAIT" /\ own = "OWN_A" => hold = mem_addr
      /\ TokenA /\ sv # "FILL_WAIT" => sv = "IDLE" /\ rst \in {"core", "flash"}
  BY <1>0 DEF SaverReads
<1>4. CASE rst \in {"core", "flash"}
  <2>1. sv' = "IDLE" /\ ~mem_req'
    BY <1>0, <1>4 DEF Saver, SaverReset
  <2>2. TokenA' => TokenA
    BY <1>1, <2>1 DEF TokenA
  <2>3. a_pend' => own' # "OWN_A"
    BY <1>1, <1>3
  <2>4. QED
    BY <1>2, <1>4, <2>1, <2>2, <2>3 DEF SaverReads
<1>5. CASE rst \notin {"core", "flash"}
  <2>1. /\ mem_req' <=> sv = "FILL_REQ"
        /\ sv = "FILL_REQ" => sv' = "FILL_WAIT"
        /\ sv' = "FILL_WAIT" /\ sv # "FILL_REQ" => sv = "FILL_WAIT" /\ ~a_ready /\ mem_addr' = mem_addr
        /\ sv = "FILL_WAIT" /\ sv' # "FILL_WAIT" => a_ready
    BY <1>0, <1>5 DEF Saver, SaverSteps
  <2>2. TokenA => sv = "FILL_WAIT"
    BY <1>3, <1>5
  <2>3. CASE sv = "FILL_REQ"
    <3>1. ~a_pend' /\ own' # "OWN_A" /\ sv' = "FILL_WAIT"
      BY <1>1, <2>1, <2>2, <2>3 DEF TokenA
    <3>2. QED
      BY <3>1 DEF SaverReads
  <2>4. CASE sv = "FILL_WAIT" /\ a_ready
    <3>1. ready4 /\ own = "OWN_A" /\ ~a_pend /\ ~mem_req
      BY <1>3, <2>4 DEF a_ready
    <3>2. ~TokenA'
      BY <1>1, <2>1, <2>4, <3>1 DEF TokenA
    <3>3. QED
      BY <3>2 DEF SaverReads, TokenA
  <2>5. CASE sv = "FILL_WAIT" /\ ~a_ready
    <3>1. sv' = "FILL_WAIT" /\ mem_addr' = mem_addr /\ ~mem_req'
      BY <2>1, <2>5
    <3>2. a_pend' => own' # "OWN_A"
      BY <1>1, <1>3
    <3>3. a_pend' => a_hold' = mem_addr
      BY <1>1, <1>3, <2>5
    <3>4. own' = "OWN_A" => hold' = mem_addr
      BY <1>1, <1>3, <2>5
    <3>5. QED
      BY <3>1, <3>2, <3>3, <3>4 DEF SaverReads
  <2>6. CASE sv # "FILL_REQ" /\ sv # "FILL_WAIT"
    <3>1. ~TokenA'
      BY <1>1, <2>1, <2>2, <2>6 DEF TokenA
    <3>2. QED
      BY <3>1 DEF SaverReads, TokenA
  <2>7. QED
    BY <2>3, <2>4, <2>5, <2>6
<1>6. QED
  BY <1>4, <1>5

(* The same of the flash's fills, which `reset` ends.                        *)
LEMMA FlashReadsStep ==
  ASSUME SdramInv, SdramNext
  PROVE  FlashReads'
<1>0. Arbiter4 /\ FlashPorts /\ Saver /\ Resets /\ SdramTypeOK /\ FlashReads
  BY DEF SdramNext, SdramInv
<1>1. /\ b_pend' => fl_req \/ (b_pend /\ ~(own = "IDLE" /\ ~a_pend))
      /\ own' = "OWN_B" => \/ own = "IDLE" /\ ~a_pend /\ b_pend /\ hold' = b_hold
                           \/ own = "OWN_B" /\ ~ready4 /\ hold' = hold
      /\ b_hold' = fl_addr \/ ~fl_req
      /\ b_pend' /\ ~fl_req => b_hold' = b_hold
  BY <1>0, ArbiterSlots
<1>2. /\ fl_req => fill = "REQ" /\ ~b_pend /\ own # "OWN_B"
      /\ b_pend => own # "OWN_B"
      /\ fill = "REQ" /\ b_pend => b_hold = fl_addr
      /\ fill = "REQ" /\ own = "OWN_B" => hold = fl_addr
      /\ TokenB /\ fill # "REQ" => reset /\ (rst # "none" \/ sv = "LO_RD")
      /\ reset /\ (fill = "REQ" \/ wb_busy) => rst # "none" \/ sv = "LO_RD"
      /\ sv \in {"DRAIN_REQ", "DRAIN_WAIT"} => reset /\ fill = "IDLE" /\ ~wb_busy /\ ~TokenB
  BY <1>0 DEF FlashReads
<1>3. /\ rst # "none" /\ rst' # rst => reset /\ Quiet /\ rst' = "none"
      /\ reset' = (rst # "none" \/ flash_loading)
  BY <1>0, ResetLeft
<1>4. sv = "LO_RD" => sv' = "LO_RD" \/ rst # "none" \/ (Quiet /\ reset /\ sv' = "DRAIN_REQ")
  BY <1>0 DEF Saver, SaverSteps
<1>5. /\ sv' = "DRAIN_WAIT" => sv \in {"DRAIN_REQ", "DRAIN_WAIT"}
      /\ sv' = "DRAIN_REQ" => (sv = "LO_RD" /\ reset /\ Quiet) \/ sv = "DRAIN_WAIT"
  BY <1>0 DEF Saver, SaverReset, SaverSteps
(* what keeps `reset` up while the saver loads or a reset lasts *)
<1>6. (rst # "none" \/ sv = "LO_RD") /\ ~(Quiet /\ reset) => reset' /\ (rst' # "none" \/ sv' = "LO_RD")
  BY <1>3, <1>4 DEF flash_loading
<1>7. CASE reset
  <2>1. fill' = "IDLE" /\ ~fl_req' /\ ~wb_busy'
    BY <1>0, <1>7 DEF FlashPorts, FlashReset
  <2>2. TokenB' => TokenB
    BY <1>1, <2>1 DEF TokenB
  <2>3. TokenB => ~Quiet
    BY QuietMeans
  <2>4. TokenB => rst # "none" \/ sv = "LO_RD"
    BY <1>2, <1>7, <1>0 DEF SdramTypeOK
  <2>5. TokenB' => reset' /\ (rst' # "none" \/ sv' = "LO_RD")
    BY <1>6, <2>2, <2>3, <2>4
  <2>6. b_pend' => own' # "OWN_B"
    BY <1>1, <1>2
  <2>7. sv' \in {"DRAIN_REQ", "DRAIN_WAIT"} => reset' /\ ~TokenB'
    <3>1. sv' \in {"DRAIN_REQ", "DRAIN_WAIT"} => ~TokenB /\ sv \in {"LO_RD", "DRAIN_REQ", "DRAIN_WAIT"}
      BY <1>2, <1>5, <2>3
    <3>2. QED
      BY <1>3, <2>2, <3>1 DEF flash_loading
  <2>8. QED
    BY <2>1, <2>5, <2>6, <2>7 DEF FlashReads
<1>8. CASE ~reset
  <2>1. Filling /\ WriteBack /\ sv \notin {"DRAIN_REQ", "DRAIN_WAIT"}
    BY <1>0, <1>2, <1>8 DEF FlashPorts
  <2>2. reset' => rst # "none" \/ sv = "LO_RD"
    BY <1>3, <2>1 DEF flash_loading
  <2>3. reset' => rst' # "none" \/ sv' = "LO_RD"
    BY <1>6, <1>8, <2>2
  <2>4. sv' \notin {"DRAIN_REQ", "DRAIN_WAIT"}
    BY <1>5, <1>8, <2>1
  <2>5. CASE fill = "IDLE" \/ b_ready
    <3>1. ~b_pend' /\ own' # "OWN_B"
      <4>1. CASE fill = "IDLE"
        BY <1>1, <1>2, <1>8, <4>1 DEF TokenB
      <4>2. CASE b_ready
        BY <1>1, <1>2, <4>2 DEF b_ready
      <4>3. QED
        BY <2>5, <4>1, <4>2
    <3>2. fl_req' => fill' = "REQ"
      BY <2>1, <2>5 DEF Filling
    <3>3. QED
      BY <2>3, <2>4, <3>1, <3>2 DEF FlashReads, TokenB
  <2>6. CASE ~(fill = "IDLE" \/ b_ready)
    <3>1. fill = "REQ" /\ fill' = "REQ" /\ ~fl_req' /\ fl_addr' = fl_addr
      BY <1>0, <2>1, <2>6 DEF Filling, SdramTypeOK
    <3>2. b_pend' => own' # "OWN_B"
      BY <1>1, <1>2
    <3>3. b_pend' => b_hold' = fl_addr
      BY <1>1, <1>2, <3>1
    <3>4. own' = "OWN_B" => hold' = fl_addr
      BY <1>1, <1>2, <3>1
    <3>5. QED
      BY <2>3, <2>4, <3>1, <3>2, <3>3, <3>4 DEF FlashReads
  <2>7. QED
    BY <2>5, <2>6
<1>9. QED
  BY <1>7, <1>8

(* The requests of channel 3 are pulses of clients that are then busy.        *)
LEMMA PulsesStep ==
  ASSUME SdramInv, SdramNext
  PROVE  Pulses'
<1>0. Saver /\ FlashPorts /\ Download /\ Resets /\ SdramTypeOK /\ Pulses
  BY DEF SdramNext, SdramInv
<1> USE DEF Pulses, SdramTypeOK
<1>1. sv_req' => sv_busy'
  BY <1>0 DEF Saver, SaverReset
<1>2. sv_busy' <=> sv' = "DRAIN_WAIT"
  <2>1. CASE rst \in {"core", "flash"}
    BY <1>0, <2>1 DEF Saver, SaverReset
  <2>2. CASE rst \notin {"core", "flash"}
    <3>1. sv' = "DRAIN_WAIT" <=> sv = "DRAIN_REQ" \/ (sv = "DRAIN_WAIT" /\ ~saver_wr_ack)
      BY <1>0, <2>2 DEF Saver, SaverSteps
    <3>2. sv_busy' <=> sv = "DRAIN_REQ" \/ (sv_busy /\ ~saver_wr_ack)
      BY <1>0, <2>2 DEF Saver
    <3>3. QED
      BY <1>0, <3>1, <3>2
  <2>3. QED
    BY <2>1, <2>2
<1>3. wb_req' => wb_busy'
  BY <1>0 DEF FlashPorts, FlashReset, WriteBack
<1>4. dl_wr' => ioctl_wait' /\ reset'
  BY <1>0 DEF Download, Resets, ch3_dl
<1>5. QED
  BY <1>1, <1>2, <1>3, <1>4

(* Where a request on channel 3 goes: latched, served with a word the wires    *)
(* show, done.                                                              *)
LEMMA Channel3 ==
  ASSUME SdramInv, Controller
  PROVE  /\ rq3' => rq3 \/ ch3_req
         /\ Writes3' => \/ Writes3 /\ op' = op
                        \/ rq3 /\ op'.word \in {buf3, ch3_word} /\ (rq3' => ch3_req)
         /\ ready3' => Writes3 /\ landed' = op.word /\ ~Writes3'
         /\ Taken3' => (Taken3 /\ ~ready3) \/ ch3_req
         /\ buf3' = ch3_word
<1>0. SdramTypeOK /\ Slot3
  BY DEF SdramInv
<1> USE DEF SdramTypeOK, Writes3
<1>1. NoOp.kind = "none" /\ (Writes3 => op # NoOp)
  BY DEF NoOp
<1>2. /\ rq3' => rq3 \/ ch3_req
      /\ Writes3' => \/ Writes3 /\ op' = op
                     \/ rq3 /\ op'.word \in {buf3, ch3_word} /\ (rq3' => ch3_req)
      /\ ready3' => Writes3 /\ landed' = op.word /\ ~Writes3'
  <2>1. CASE Busy
    BY <2>1 DEF Busy, Latch
  <2>2. CASE Serve3
    BY <2>2 DEF Serve3
  <2>3. CASE Serve4
    BY <2>3 DEF Serve4
  <2>4. CASE Finish
    BY <1>1, <2>4 DEF Finish, Latch
  <2>5. QED
    BY <2>1, <2>2, <2>3, <2>4 DEF Controller
<1>3. Taken3' => (Taken3 /\ ~ready3) \/ ch3_req
  BY <1>0, <1>2 DEF Taken3, Slot3
<1>4. buf3' = ch3_word
  BY DEF Controller
<1>5. QED
  BY <1>2, <1>3, <1>4

(* Channel 3 carries one request: each client waits for its own, the download  *)
(* for the controller, and the saver for a flash that is in reset.            *)
LEMMA Slot3Step ==
  ASSUME SdramInv, SdramNext
  PROVE  Slot3'
<1>0. /\ Saver /\ FlashPorts /\ Download /\ Resets /\ Controller
      /\ SdramTypeOK /\ Pulses /\ Slot3 /\ FlashReads
  BY DEF SdramNext, SdramInv
<1>1. /\ rq3' => rq3 \/ ch3_req
      /\ Writes3' => \/ Writes3 /\ op' = op
                     \/ rq3 /\ op'.word \in {buf3, ch3_word} /\ (rq3' => ch3_req)
      /\ ready3' => Writes3 /\ landed' = op.word /\ ~Writes3'
      /\ Taken3' => (Taken3 /\ ~ready3) \/ ch3_req
  BY <1>0, Channel3
<1>2. /\ rst # "none" /\ rst' # rst => reset /\ Quiet /\ rst' = "none"
      /\ reset' = (rst # "none" \/ flash_loading)
  BY <1>0, ResetLeft
<1>3. Quiet => ~Taken3 /\ ~ch3_req
  BY QuietMeans
<1>4. ready3 => ~Taken3'
  BY <1>0, <1>1 DEF Slot3, Taken3
<1>5. /\ sv_req => sv = "DRAIN_WAIT" /\ reset /\ ~wb_busy
      /\ dl_wr => ioctl_wait /\ reset
      /\ wb_req => wb_busy
  BY <1>0 DEF Pulses, FlashReads
<1>6. ch3_req /\ ~reset => wb_req /\ wb_busy
  BY <1>5 DEF ch3_req
<1>7. reset => ~wb_req' /\ ~wb_busy'
  BY <1>0 DEF FlashPorts, FlashReset
<1>8. ~reset => WriteBack
  BY <1>0 DEF FlashPorts
<1>9. wb_req' => ~Taken3'
  <2>1. wb_req' => ~reset /\ ~wb_busy
    BY <1>7, <1>8, <1>0 DEF WriteBack
  <2>2. QED
    BY <1>0, <1>1, <1>6, <2>1 DEF Slot3
<1>10. ~ch3_dl' /\ sv_req' => ~Taken3'
  <2>1. sv_req' => sv = "DRAIN_REQ"
    BY <1>0 DEF Saver, SaverReset
  <2>2. ~ch3_dl' => ~ch3_dl \/ Quiet
    BY <1>2 DEF ch3_dl
  <2>3. QED
    BY <1>0, <1>1, <1>3, <2>1, <2>2 DEF Slot3
<1>11. ~ch3_dl' /\ sv' = "DRAIN_REQ" => ~Taken3' /\ ~ch3_req'
  <2>1. SUFFICES ASSUME ~ch3_dl', sv' = "DRAIN_REQ" PROVE ~Taken3' /\ ~ch3_req'
    OBVIOUS
  <2>2. (sv = "LO_RD" /\ Quiet /\ reset) \/ (sv = "DRAIN_WAIT" /\ saver_wr_ack)
    BY <1>0, <2>1 DEF Saver, SaverReset, SaverSteps
  <2>3. reset
    BY <1>0, <2>2 DEF FlashReads
  <2>4. ~Taken3'
    BY <1>1, <1>3, <1>4, <2>2 DEF saver_wr_ack
  <2>5. ~sv_req' /\ ~wb_req'
    BY <1>0, <1>7, <2>1, <2>2, <2>3 DEF Saver, SaverReset
  <2>6. QED
    BY <2>1, <2>4, <2>5 DEF ch3_req, ch3_owner
<1>12. ch3_req' => ~Taken3'
  <2>1. CASE ch3_dl'
    <3>1. SUFFICES ASSUME dl_wr' PROVE ~Taken3'
      BY <2>1 DEF ch3_req, ch3_owner
    <3>2. ch3_dl /\ ~ioctl_wait /\ Quiet3
      BY <1>0, <3>1 DEF Download
    <3>3. ~ch3_req
      BY <1>5, <3>2 DEF ch3_req, ch3_owner
    <3>4. ~Taken3
      BY <3>2 DEF Quiet3, Taken3, Writes3
    <3>5. QED
      BY <1>1, <3>3, <3>4
  <2>2. CASE ~ch3_dl'
    <3>1. ch3_req' => sv_req' \/ wb_req'
      BY <2>2 DEF ch3_req, ch3_owner
    <3>2. QED
      BY <1>9, <1>10, <2>2, <3>1
  <2>3. QED
    BY <2>1, <2>2
<1>13. rq3' => ~Writes3' /\ ~ready3'
  BY <1>0, <1>1 DEF Slot3, Taken3
<1>14. ~reset' /\ ~wb_busy' => ~Taken3'
  <2>1. SUFFICES ASSUME ~reset', ~wb_busy' PROVE ~Taken3'
    OBVIOUS
  <2>2. rst = "none" /\ ~flash_loading
    BY <1>2, <2>1
  <2>3. CASE reset
    <3>1. ~Taken3
      BY <1>0, <2>2, <2>3 DEF Slot3, flash_loading
    <3>2. ~ch3_req
      BY <1>0, <1>5, <2>2, <2>3 DEF ch3_req, ch3_owner, ch3_dl, FlashReads, flash_loading
    <3>3. QED
      BY <1>1, <3>1, <3>2
  <2>4. CASE ~reset
    <3>1. CASE wb_busy
      <4>1. ready3
        BY <1>8, <2>1, <2>4, <3>1 DEF WriteBack, flash_wr_ack
      <4>2. QED
        BY <1>4, <4>1
    <3>2. CASE ~wb_busy
      BY <1>0, <1>1, <1>6, <2>4, <3>2 DEF Slot3
    <3>3. QED
      BY <3>1, <3>2
  <2>5. QED
    BY <2>3, <2>4
<1>15. Taken3' /\ reset' => rst' # "none" \/ sv' = "LO_RD" \/ sv' = "DRAIN_WAIT"
  <2>1. SUFFICES ASSUME Taken3', reset', rst' = "none"
                 PROVE  sv' = "LO_RD" \/ sv' = "DRAIN_WAIT"
    OBVIOUS
  <2>2. (Taken3 /\ ~ready3) \/ ch3_req
    BY <1>1, <2>1
  <2>3. ~Quiet
    BY <1>3, <2>2
  <2>4. rst = "none" /\ flash_loading /\ ~ch3_dl
    BY <1>2, <2>1, <2>3 DEF ch3_dl
  <2>5. sv \in {"LO_RD", "DRAIN_WAIT"}
    BY <1>0, <2>2, <2>4 DEF flash_loading, Slot3
  <2>6. ~saver_wr_ack
    BY <1>4, <2>1 DEF saver_wr_ack
  <2>7. QED
    BY <1>0, <2>3, <2>4, <2>5, <2>6 DEF Saver, SaverSteps
<1>16. Writes3' => ~ready3'
  BY <1>1
<1>17. QED
  BY <1>9, <1>10, <1>11, <1>12, <1>13, <1>14, <1>15, <1>16 DEF Slot3
(* What channel 3 carries is the word its owner asked for, or what stands in  *)
(* its place once a reset has taken the owner away.                          *)
LEMMA Asked3Step ==
  ASSUME SdramInv, SdramNext
  PROVE  Asked3'
<1>0. /\ Saver /\ FlashPorts /\ Download /\ Resets /\ Controller
      /\ SdramTypeOK /\ Pulses /\ Slot3 /\ FlashReads /\ Asked3
  BY DEF SdramNext, SdramInv
<1>1. /\ rq3' => rq3 \/ ch3_req
      /\ Writes3' => \/ Writes3 /\ op' = op
                     \/ rq3 /\ op'.word \in {buf3, ch3_word} /\ (rq3' => ch3_req)
      /\ ready3' => Writes3 /\ landed' = op.word /\ ~Writes3'
      /\ Taken3' => (Taken3 /\ ~ready3) \/ ch3_req
      /\ buf3' = ch3_word
  BY <1>0, Channel3
<1>2. /\ rst # "none" /\ rst' # rst => Quiet
      /\ reset' = (rst # "none" \/ flash_loading)
  BY <1>0, ResetLeft
<1>3. Quiet => ~Taken3 /\ ~ch3_req
  BY QuietMeans
<1>4. ch3_req => ~Taken3
  BY <1>0 DEF Slot3
<1>5. CASE ~Taken3'
  BY <1>5 DEF Asked3, Taken3
(* On its way, and the owner not answered yet: nobody else moves on. *)
<1>6. ASSUME ~ready3, ch3_req \/ Taken3
      PROVE  /\ rst # "none" => rst' = rst
             /\ ch3_dl => ch3_dl' /\ reset'
             /\ ~ch3_dl' => ~ch3_dl
             /\ sv_busy' => rst \notin {"core", "flash"}
             /\ sv_busy' /\ ~ch3_dl => sv_busy /\ sv_word' = sv_word
             /\ sv_busy /\ ~sv_busy' => rst \in {"core", "flash"}
             /\ sv_busy => reset'
             /\ wb_busy' => ~reset /\ wb_busy /\ wb_word' = wb_word
  <2>1. rst # "none" => rst' = rst
    BY <1>2, <1>3, <1>6
  <2>2. (ch3_dl => ch3_dl' /\ reset') /\ (~ch3_dl' => ~ch3_dl)
    BY <1>2, <2>1 DEF ch3_dl
  <2>3. ~saver_wr_ack /\ ~flash_wr_ack
    BY <1>6 DEF saver_wr_ack, flash_wr_ack
  <2>4. sv_busy' => rst \notin {"core", "flash"}
    BY <1>0 DEF Saver, SaverReset
  <2>5. sv_busy' /\ ~ch3_dl => sv_busy /\ sv_word' = sv_word
    <3>1. SUFFICES ASSUME sv_busy', ~ch3_dl PROVE sv_busy /\ sv_word' = sv_word
      OBVIOUS
    <3>2. sv # "DRAIN_REQ"
      BY <1>0, <1>6, <3>1 DEF Slot3
    <3>3. QED
      BY <1>0, <2>3, <2>4, <3>1, <3>2 DEF Saver, SdramTypeOK
  <2>6. sv_busy /\ ~sv_busy' => rst \in {"core", "flash"}
    BY <1>0, <2>3 DEF Saver, SdramTypeOK
  <2>7. sv_busy => reset'
    BY <1>0, <1>2 DEF Pulses, flash_loading
  <2>8. wb_busy' => ~reset /\ wb_busy /\ wb_word' = wb_word
    <3>1. SUFFICES ASSUME wb_busy' PROVE ~reset /\ wb_busy /\ wb_word' = wb_word
      OBVIOUS
    <3>2. ~reset /\ WriteBack
      BY <1>0, <3>1 DEF FlashPorts, FlashReset
    <3>3. wb_busy
      <4>1. CASE Taken3
        BY <1>0, <3>2, <4>1 DEF Slot3
      <4>2. CASE ch3_req
        BY <1>0, <3>2, <4>2 DEF ch3_req, Pulses, FlashReads
      <4>3. QED
        BY <1>6, <4>1, <4>2
    <3>4. QED
      BY <2>3, <3>2, <3>3 DEF WriteBack
  <2>9. QED
    BY <2>1, <2>2, <2>4, <2>5, <2>6, <2>7, <2>8
<1>7. CASE ch3_req
  <2>1. ~Taken3 /\ ~ready3
    BY <1>4, <1>7 DEF Taken3
  <2>2. asked' = [by |-> ch3_owner, word |-> ch3_word, lost |-> FALSE]
    BY <1>0, <1>7, <2>1 DEF Controller
  <2>3. ~Writes3' /\ ~ready3' /\ buf3' = asked'.word
    BY <1>1, <2>1, <2>2 DEF Taken3
  <2>4. asked'.by # "nobody"
    BY <1>7, <2>2 DEF ch3_req
  <2>5. asked'.by = "download" => ch3_dl'
    BY <1>6, <1>7, <2>1, <2>2 DEF ch3_owner
  <2>6. asked'.by = "saver" /\ ~sv_busy' => rst' \in {"core", "flash"}
    BY <1>6, <1>7, <2>1, <2>2 DEF ch3_owner
  <2>7. wb_busy' => asked'.by = "flash" /\ asked'.word = wb_word'
    <3>1. SUFFICES ASSUME wb_busy' PROVE asked'.by = "flash" /\ asked'.word = wb_word'
      OBVIOUS
    <3>2. ~reset /\ wb_busy /\ wb_word' = wb_word
      BY <1>6, <1>7, <2>1, <3>1
    <3>3. ch3_owner = "flash"
      BY <1>0, <1>7, <3>2 DEF ch3_req, Pulses, FlashReads, ch3_owner
    <3>4. QED
      BY <2>2, <3>2, <3>3 DEF ch3_word
  <2>8. sv_busy' /\ ~ch3_dl' => asked'.by = "saver" /\ asked'.word = sv_word'
    <3>1. SUFFICES ASSUME sv_busy', ~ch3_dl' PROVE asked'.by = "saver" /\ asked'.word = sv_word'
      OBVIOUS
    <3>2. ~ch3_dl /\ sv_busy /\ sv_word' = sv_word
      BY <1>6, <1>7, <2>1, <3>1
    <3>3. QED
      BY <2>2, <3>2 DEF ch3_owner, ch3_word
  <2>9. wb_busy' => Carried(wb_word)'
    BY <2>3, <2>7 DEF Carried
  <2>10. sv_busy' /\ ~ch3_dl' => Carried(sv_word)'
    BY <2>3, <2>8 DEF Carried
  <2>11. rq3' => Right(buf3)'
    BY <2>3 DEF Right
  <2>12. QED
    BY <2>3, <2>4, <2>5, <2>6, <2>7, <2>8, <2>9, <2>10, <2>11 DEF Asked3
<1>8. CASE ~ch3_req /\ Taken3'
  <2>1. Taken3 /\ ~ready3
    BY <1>1, <1>8
  <2>2. /\ rst # "none" => rst' = rst
        /\ ch3_dl => ch3_dl' /\ reset'
        /\ ~ch3_dl' => ~ch3_dl
        /\ sv_busy' => rst \notin {"core", "flash"}
        /\ sv_busy' /\ ~ch3_dl => sv_busy /\ sv_word' = sv_word
        /\ sv_busy /\ ~sv_busy' => rst \in {"core", "flash"}
        /\ sv_busy => reset'
        /\ wb_busy' => ~reset /\ wb_busy /\ wb_word' = wb_word
    BY <1>6, <2>1
  <2>3. asked' = [asked EXCEPT !.lost = @ \/ rst # "none" \/ (asked.by = "flash" /\ reset)]
    BY <1>0, <1>8, <2>1 DEF Controller
  <2>4. /\ asked'.by = asked.by /\ asked'.word = asked.word
        /\ asked.lost \/ rst # "none" \/ (asked.by = "flash" /\ reset) => asked'.lost
    BY <1>0, <2>3 DEF SdramTypeOK
  <2>5. dl_word' = dl_word
    BY <1>0, <2>1 DEF Download, Quiet3, Taken3, Writes3
  <2>6. /\ asked.by # "nobody"
        /\ asked.by = "download" => ch3_dl
        /\ asked.by = "saver" /\ ~sv_busy => rst \in {"core", "flash"}
        /\ wb_busy => asked.by = "flash" /\ asked.word = wb_word
        /\ wb_busy /\ ~reset => Carried(wb_word)
        /\ sv_busy /\ ~ch3_dl => asked.by = "saver" /\ Carried(sv_word)
        /\ rq3 => Right(buf3)
        /\ Writes3 => Right(op.word)
    BY <1>0, <2>1 DEF Asked3
  <2>7. /\ asked'.by # "nobody"
        /\ asked'.by = "download" => ch3_dl'
        /\ asked'.by = "saver" /\ ~sv_busy' => rst' \in {"core", "flash"}
        /\ wb_busy' => asked'.by = "flash" /\ asked'.word = wb_word'
    <3>1. rst \in {"core", "flash"} => rst' = rst
      BY <2>2
    <3>2. QED
      BY <2>2, <2>4, <2>6, <3>1
  <2>8. ASSUME NEW x, ch3_word = x, Carried(x)
        PROVE  /\ asked'.word = x
               /\ rq3' => buf3' = x
               /\ Writes3' => op'.word = x
               /\ ready3' => landed' = x
    BY <1>1, <1>8, <2>4, <2>8 DEF Carried
  <2>9. wb_busy' /\ ~reset' => Carried(wb_word)'
    <3>1. SUFFICES ASSUME wb_busy', ~reset' PROVE Carried(wb_word)'
      OBVIOUS
    <3>2. ~ch3_dl /\ ~sv_busy /\ wb_busy /\ ~reset /\ wb_word' = wb_word
      BY <2>2, <3>1
    <3>3. ch3_word = wb_word
      BY <3>2 DEF ch3_word, ch3_owner
    <3>4. QED
      BY <2>6, <2>8, <3>2, <3>3 DEF Carried
  <2>10. sv_busy' /\ ~ch3_dl' => asked'.by = "saver" /\ Carried(sv_word)'
    <3>1. SUFFICES ASSUME sv_busy', ~ch3_dl' PROVE asked'.by = "saver" /\ Carried(sv_word)'
      OBVIOUS
    <3>2. ~ch3_dl /\ sv_busy /\ sv_word' = sv_word
      BY <2>2, <3>1
    <3>3. ch3_word = sv_word
      BY <3>2 DEF ch3_word, ch3_owner
    <3>4. QED
      BY <2>4, <2>6, <2>8, <3>2, <3>3 DEF Carried
  <2>11. ch3_word = asked.word \/ (asked'.lost /\ ch3_word \in {Masked, dl_word})
    <3>1. CASE ch3_dl
      BY <2>4, <3>1 DEF ch3_word, ch3_owner, ch3_dl
    <3>2. CASE ~ch3_dl /\ sv_busy
      BY <2>6, <3>2 DEF ch3_word, ch3_owner, Carried
    <3>3. CASE ~ch3_dl /\ ~sv_busy /\ wb_busy
      BY <2>6, <3>3 DEF ch3_word, ch3_owner
    <3>4. CASE ~ch3_dl /\ ~sv_busy /\ ~wb_busy
      <4>1. ch3_word = Masked
        BY <3>4 DEF ch3_word, ch3_owner
      <4>2. reset
        BY <1>0, <2>1, <3>4 DEF Slot3
      <4>3. asked.by \in Owners
        BY <1>0 DEF SdramTypeOK
      <4>4. asked'.lost
        BY <2>4, <2>6, <3>4, <4>2, <4>3 DEF Owners
      <4>5. QED
        BY <4>1, <4>4
    <3>5. QED
      BY <3>1, <3>2, <3>3, <3>4
  <2>12. ASSUME NEW x, Right(x) \/ x = ch3_word
         PROVE  x = asked'.word \/ (asked'.lost /\ x \in {Masked, dl_word'})
    BY <2>4, <2>5, <2>11, <2>12 DEF Right
  <2>13. rq3' => Right(buf3)'
    BY <1>1, <2>12 DEF Right
  <2>14. Writes3' => Right(op.word)'
    <3>1. Writes3' => Right(op'.word) \/ op'.word = ch3_word
      <4>1. Writes3 /\ op' = op => Right(op'.word)
        BY <2>6
      <4>2. rq3 /\ op'.word = buf3 => Right(op'.word)
        BY <2>6
      <4>3. QED
        BY <1>1, <4>1, <4>2
    <3>2. QED
      BY <2>12, <3>1 DEF Right
  <2>15. QED
    BY <2>7, <2>9, <2>10, <2>13, <2>14 DEF Asked3
<1>9. QED
  BY <1>5, <1>7, <1>8

(* Both channels start empty. *)
LEMMA SdramInvInit ==
  ASSUME SdramInit
  PROVE  SdramInv
<1> USE DEF SdramInit, NoOp, Nothing
<1>1. SdramTypeOK
  BY DEF SdramTypeOK, AllWords, Owners, Operations
<1>2. Slot4 /\ SaverReads /\ FlashReads
  BY DEF Slot4, Reads4, SaverReads, TokenA, FlashReads, TokenB
<1>3. Pulses /\ Slot3 /\ Asked3
  BY DEF Pulses, Slot3, Taken3, Writes3, ch3_req, ch3_owner, ch3_dl, Asked3
<1>4. QED
  BY <1>1, <1>2, <1>3 DEF SdramInv

(* The invariant is about the variables of the channels alone. *)
LEMMA SdramInvKept ==
  ASSUME SdramInv, UNCHANGED sdramVars
  PROVE  SdramInv'
<1> USE DEF sdramVars, arb4Vars, svVars, flVars, dlVars, sdVars
<1>1. SdramTypeOK'
  BY DEF SdramInv, SdramTypeOK
<1>2. Slot4' /\ SaverReads' /\ FlashReads'
  BY DEF SdramInv, Slot4, Reads4, SaverReads, TokenA, FlashReads, TokenB
<1>3. Pulses' /\ Slot3'
  BY DEF SdramInv, Pulses, Slot3, Taken3, Writes3, ch3_req, ch3_owner, ch3_dl
<1>4. Asked3'
  BY DEF SdramInv, Asked3, Taken3, Writes3, Right, Carried, ch3_dl
<1>5. QED
  BY <1>1, <1>2, <1>3, <1>4 DEF SdramInv

(* Channels 3 and 4 of the SDRAM each carry one transaction at a time, of    *)
(* the client whose turn it is, through every reset and download.            *)
THEOREM SdramInvariant == Spec => []SdramInv
<1>1. Init => SdramInv
  BY SdramInvInit DEF Init
<1>2. SdramInv /\ [Next]_vars => SdramInv'
  <2>1. SUFFICES ASSUME SdramInv, [Next]_vars PROVE SdramInv'
    OBVIOUS
  <2>2. CASE SdramNext
    BY <2>1, <2>2, SdramTypeStep, Slot4Step, SaverReadsStep, FlashReadsStep, PulsesStep,
       Slot3Step, Asked3Step DEF SdramInv
  <2>3. CASE UNCHANGED sdramVars
    BY <2>1, <2>3, SdramInvKept
  <2>4. QED
    BY <2>1, <2>2, <2>3 DEF Next, Of, vars
<1>3. QED
  BY <1>1, <1>2, PTL DEF Spec

(* s573_ch4_arb and the write mux of emu.sv: a client told its burst is there *)
(* finds the burst of its own address; what channel 3 writes is the word its *)
(* owner asked for, unless a reset or a download came in between; and no     *)
(* client takes another's acknowledge for its own.                           *)
THEOREM EachGetsItsOwn == Spec => []EachItsOwn
<1>1. SdramInv => EachItsOwn
  <2>1. SUFFICES ASSUME SdramInv PROVE RightBurst /\ RightWord
    BY DEF EachItsOwn
  <2>2. RightBurst
    BY <2>1 DEF SdramInv, RightBurst, a_ready, b_ready, Slot4, SaverReads, FlashReads
  <2>3. op.kind = "write" => op.word = asked.word \/ (asked.lost /\ op.word \in {Masked, dl_word})
    BY <2>1 DEF SdramInv, Asked3, Writes3, Right
  <2>4. saver_wr_ack => landed = sv_word
    BY <2>1 DEF SdramInv, Asked3, Taken3, Carried, saver_wr_ack
  <2>5. flash_wr_ack /\ ~reset => landed = wb_word
    BY <2>1 DEF SdramInv, Asked3, Taken3, Carried, flash_wr_ack
  <2>6. QED
    BY <2>2, <2>3, <2>4, <2>5 DEF RightWord
<1>2. QED
  BY <1>1, SdramInvariant, PTL

-----------------------------------------------------------------------------
(* What makes EventsConserved inductive: counts only come down from a       *)
(* service that has taken the baselines.                                    *)
EventsInv == EventsConserved /\ (sent > 0 => service = "up")

(* How far a count is ahead is less than one turn of it, whatever they are.  *)
LEMMA DeltaRange ==
  ASSUME CtrlTypeOK, NEW k \in EventKinds
  PROVE  Delta(k) \in 0 .. CountMod - 1
BY CtrlAssumption DEF CtrlTypeOK, Delta

(* The drain takes an event that waits, one of a kind at most, and leaves    *)
(* the range of pend.                                                       *)
LEMMA DrainRange ==
  ASSUME CtrlTypeOK
  PROVE  /\ Fires \in [EventKinds -> BOOLEAN]
         /\ Drained \in [EventKinds -> 0 .. PendMax]
         /\ \A k \in EventKinds : Drained[k] = pend[k] - One(Fires[k])
<1>1. Fires \in [EventKinds -> BOOLEAN]
  BY DEF Fires, CtrlTypeOK, EventKinds
<1>2. \A k \in EventKinds : Fires[k] => pend[k] > 0
  BY DEF Fires, CtrlTypeOK, EventKinds
<1>3. \A k \in EventKinds : pend[k] - One(Fires[k]) \in 0 .. PendMax
  BY <1>1, <1>2, CtrlAssumption DEF CtrlTypeOK, One
<1>4. QED
  BY <1>1, <1>3 DEF Drained

(* A clock in which the fabric only drains keeps the books, whatever the     *)
(* exchange does meanwhile without moving a count.                          *)
LEMMA DrainConserves ==
  ASSUME EventsConserved, Drain, pend' = Drained,
         UNCHANGED <<last, rebaseline, evt_ovf, cnt, service>>, sent' \in 0 .. 2
  PROVE  EventsConserved'
<1>1. CtrlTypeOK'
  BY DrainRange DEF EventsConserved, CtrlTypeOK, Drain, One
<1>2. ASSUME ~rebaseline', NEW k \in EventKinds
      PROVE  owed'[k] = pend'[k] + (IF service' = "up" THEN Delta(k)' ELSE 0)
  <2>1. owed[k] = pend[k] + (IF service = "up" THEN Delta(k) ELSE 0)
    BY <1>2 DEF EventsConserved
  <2>2. owed'[k] = owed[k] - One(Fires[k]) /\ pend'[k] = pend[k] - One(Fires[k])
    BY DrainRange DEF Drain, EventsConserved
  <2>3. Delta(k)' = Delta(k)
    BY DEF Delta
  <2>4. pend[k] \in Int /\ One(Fires[k]) \in Int /\ Delta(k) \in Int
    BY DeltaRange, CtrlAssumption DEF EventsConserved, CtrlTypeOK, One
  <2>5. QED
    BY <2>1, <2>2, <2>3, <2>4
<1>3. QED
  BY <1>1, <1>2 DEF EventsConserved

(* No decode event is lost, doubled or made up, whatever the widths of the   *)
(* counts, the clamp, and how far the service runs ahead of its exchanges.  *)
THEOREM EventsAreConserved == Spec => []EventsConserved
<1>1. Init => EventsInv
  <2> SUFFICES ASSUME CtrlInit PROVE EventsInv
    BY DEF Init
  <2>1. NoEvents \in [EventKinds -> 0 .. PendMax] /\ NoEvents \in [EventKinds -> 0 .. CountMod - 1]
        /\ NoEvents \in [EventKinds -> Int]
    BY CtrlAssumption DEF NoEvents
  <2>2. NoPulse \in [EventKinds -> BOOLEAN]
    BY DEF NoPulse
  <2>3. CtrlTypeOK
    <3>1. pend \in [EventKinds -> 0 .. PendMax] /\ owed \in [EventKinds -> Int]
      BY <2>1 DEF CtrlInit
    <3>2. {last, cnt} \subseteq [EventKinds -> 0 .. CountMod - 1]
      BY <2>1 DEF CtrlInit
    <3>3. pulse \in [EventKinds -> BOOLEAN] /\ {rebaseline, evt_ovf} \subseteq BOOLEAN
      BY <2>2 DEF CtrlInit
    <3>4. sent \in 0 .. 2 /\ service \in {"up", "new"}
      BY DEF CtrlInit
    <3>5. QED
      BY <3>1, <3>2, <3>3, <3>4 DEF CtrlTypeOK
  <2>4. QED
    BY <2>3 DEF CtrlInit, EventsInv, EventsConserved
<1>2. EventsInv /\ [Next]_vars => EventsInv'
  <2> SUFFICES ASSUME EventsInv, [Next]_vars PROVE EventsInv'
    OBVIOUS
  <2> USE CtrlAssumption
  <2>0. CtrlTypeOK /\ EventsConserved
    BY DEF EventsInv, EventsConserved
  <2>1. CASE UNCHANGED ctrlVars
    BY <2>1 DEF EventsInv, EventsConserved, CtrlTypeOK, Delta, ctrlVars
  <2>2. CASE Clock
    BY <2>0, <2>2, DrainConserves DEF Clock, EventsInv, CtrlTypeOK
  <2>3. CASE Word0
    <3>1. CASE service = "new"
      <4>1. /\ Drain /\ pend' = Drained /\ cnt' = last /\ service' = "up" /\ sent' = 1
            /\ UNCHANGED <<last, rebaseline, evt_ovf>>
        BY <2>3, <3>1 DEF Word0
      <4>2. CtrlTypeOK'
        BY <2>0, <4>1, DrainRange DEF CtrlTypeOK, Drain, One
      <4>3. ASSUME ~rebaseline', NEW k \in EventKinds
            PROVE  owed'[k] = pend'[k] + (IF service' = "up" THEN Delta(k)' ELSE 0)
        <5>1. owed[k] = pend[k]
          BY <2>0, <3>1, <4>1, <4>3 DEF EventsConserved, CtrlTypeOK
        <5>2. owed'[k] = pend'[k] /\ pend'[k] \in Int
          BY <2>0, <4>1, <5>1, DrainRange DEF Drain
        <5>3. Delta(k)' = 0
          BY <4>1, <4>2 DEF Delta, CtrlTypeOK
        <5>4. QED
          BY <4>1, <5>2, <5>3
      <4>4. QED
        BY <4>1, <4>2, <4>3 DEF EventsInv, EventsConserved
    <3>2. CASE service # "new"
      BY <2>0, <2>3, <3>2, DrainConserves DEF Word0, EventsInv, CtrlTypeOK
    <3>3. QED
      BY <3>1, <3>2
  <2>4. CASE Word1
    <3>1. service = "up" /\ service' = "up" /\ sent' = 2 /\ last' = cnt /\ cnt' = cnt
      BY <2>4 DEF Word1, EventsInv
    <3>2. \A k \in EventKinds : Delta(k)' = 0
      BY <2>0, <3>1 DEF Delta, CtrlTypeOK
    <3>3. CASE Adopt
      <4>1. CtrlTypeOK'
        <5>1. Drained \in [EventKinds -> 0 .. PendMax] /\ Drained \in [EventKinds -> Int]
          BY <2>0, DrainRange DEF Drained
        <5>2. Fires \in [EventKinds -> BOOLEAN]
          BY <2>0, DrainRange
        <5>3. /\ pend' = Drained /\ pulse' = Fires /\ owed' = Drained
              /\ rebaseline' = FALSE /\ evt_ovf' = evt_ovf
          BY <3>3 DEF Adopt
        <5>4. {last', cnt'} \subseteq [EventKinds -> 0 .. CountMod - 1]
          BY <2>0, <3>1 DEF CtrlTypeOK
        <5>5. {rebaseline', evt_ovf'} \subseteq BOOLEAN
          BY <2>0, <5>3 DEF CtrlTypeOK
        <5>6. sent' \in 0 .. 2 /\ service' \in {"up", "new"}
          BY <3>1
        <5>7. QED
          BY <5>1, <5>2, <5>3, <5>4, <5>5, <5>6 DEF CtrlTypeOK
      <4>2. QED
        BY <3>1, <3>2, <3>3, <4>1 DEF Adopt, EventsInv, EventsConserved, CtrlTypeOK
    <3>4. CASE Apply
      <4>1. \A k \in EventKinds :
              Sum(k) = pend[k] - One(Fires[k]) + Delta(k) /\ Sum(k) \in Nat
                /\ Clamped(Sum(k)) \in 0 .. PendMax
        BY <2>0, DrainRange, DeltaRange DEF Sum, Clamped, One
      <4>2. \A k \in EventKinds : owed[k] = pend[k] + Delta(k)
        BY <2>0, <3>1, <3>4 DEF EventsConserved, Apply
      <4>3. \A k \in EventKinds : owed[k] - One(Fires[k]) = Sum(k)
        BY <2>0, <4>1, <4>2, DeltaRange DEF CtrlTypeOK, One
      <4>4. owed' = pend'
        BY <3>4, <4>3 DEF Apply, Clamped
      <4>5. CtrlTypeOK'
        BY <2>0, <3>1, <3>4, <4>1, <4>4, DrainRange DEF Apply, CtrlTypeOK
      <4>6. QED
        BY <3>1, <3>2, <4>4, <4>5 DEF EventsInv, EventsConserved, CtrlTypeOK
    <3>5. QED
      BY <2>4, <3>3, <3>4 DEF Word1
  <2>5. CASE EndExchange
    BY <2>0, <2>5, DrainConserves DEF EndExchange, EventsInv
  <2>6. CASE CtrlReset
    <3>1. /\ NoEvents \in [EventKinds -> 0 .. PendMax] /\ NoEvents \in [EventKinds -> Int]
          /\ NoPulse \in [EventKinds -> BOOLEAN]
      BY DEF NoEvents, NoPulse
    <3>2. CtrlTypeOK'
      BY <2>0, <2>6, <3>1 DEF CtrlReset, CtrlTypeOK
    <3>3. QED
      BY <2>6, <3>2 DEF CtrlReset, EventsInv, EventsConserved
  <2>7. ASSUME NEW k \in EventKinds, Decode(k) PROVE EventsInv'
    <3>1. /\ service = "up" /\ Delta(k) < MaxBehind
          /\ cnt' = [cnt EXCEPT ![k] = NextCount(@)]
          /\ owed' = [owed EXCEPT ![k] = @ + One(~rebaseline)]
          /\ UNCHANGED <<pend, pulse, last, rebaseline, evt_ovf, sent, service>>
      BY <2>7 DEF Decode
    <3>2. CtrlTypeOK'
      BY <2>0, <3>1 DEF CtrlTypeOK, NextCount, One
    <3>3. Delta(k)' = Delta(k) + 1
      BY <2>0, <3>1 DEF CtrlTypeOK, NextCount, Delta
    <3>4. \A j \in EventKinds : j # k => Delta(j)' = Delta(j)
      BY <2>0, <3>1 DEF CtrlTypeOK, Delta
    <3>5. ASSUME ~rebaseline', NEW j \in EventKinds
          PROVE  owed'[j] = pend'[j] + (IF service' = "up" THEN Delta(j)' ELSE 0)
      <4>1. owed[j] = pend[j] + Delta(j) /\ pend[j] \in Int /\ Delta(j) \in Int
        BY <2>0, <3>1, <3>5, DeltaRange DEF EventsConserved, CtrlTypeOK
      <4>2. CASE j = k
        BY <2>0, <3>1, <3>3, <3>5, <4>1, <4>2 DEF One, CtrlTypeOK
      <4>3. CASE j # k
        BY <2>0, <3>1, <3>4, <4>1, <4>3 DEF CtrlTypeOK
      <4>4. QED
        BY <4>2, <4>3
    <3>6. QED
      BY <3>1, <3>2, <3>5 DEF EventsInv, EventsConserved
  <2>8. CASE Restart
    BY <2>0, <2>8 DEF Restart, EventsInv, EventsConserved, CtrlTypeOK, NoEvents
  <2>9. QED
    BY <2>1, <2>2, <2>3, <2>4, <2>5, <2>6, <2>7, <2>8 DEF Next, Of, CtrlNext, vars
<1>3. EventsInv => EventsConserved
  BY DEF EventsInv
<1>4. QED
  BY <1>1, <1>2, <1>3, PTL DEF Spec
-----------------------------------------------------------------------------
(* The battery-backed memory.                                               *)
UploadReq == upload_req \/ (nvram_dirty /\ ~old_upload_req) \/ stuck

NvramTypes ==
  /\ ram \in [Cells -> Bytes] /\ image \in [Cells -> Bytes]
  /\ saver \in {"A0", "A1", "C0", "C1"}
  /\ sav_addr \in Cells /\ base_inflight \in 0 .. 2 * NWords - 2
  /\ lo_tmp \in Bytes /\ sav_ram_q \in Bytes
  /\ lo_ok \in BOOLEAN /\ sav_rd_ok \in BOOLEAN
  /\ nvram_upload \in BOOLEAN /\ nvram_upload_d \in BOOLEAN /\ nvram_dirty \in BOOLEAN
  /\ upload_req \in BOOLEAN /\ old_upload_req \in BOOLEAN /\ stuck \in BOOLEAN
  /\ nv_main \in {"idle", "asked", "upload", "load"} /\ nv_at \in 0 .. NWords
  /\ since \in 0 .. WordGap /\ quiet \in 0 .. WriteGap
  /\ unsaved \subseteq Cells

(* The upload as the fabric sees it, two clocks behind Main.                 *)
UploadInv ==
  /\ nvram_upload /\ ~nvram_upload_d => nv_main = "upload" /\ nv_at = 0 /\ since = 1
  /\ ~nvram_upload /\ nv_main = "upload" => nv_at = 0 /\ since = 0 /\ ~nvram_upload_d

(* Where a fetch stands.                                                    *)
FetchInv ==
  /\ saver # "A0" => nvram_upload_d
  /\ ~nvram_upload_d => word = Nil
  /\ saver = "A1" => sav_addr = base_inflight
  /\ saver = "C0" => sav_addr = base_inflight + 1

(* How many clocks it takes at most until the word at the address is there:  *)
(* a fetch of another word has to end, and one write of the game may spoil   *)
(* the next; a second comes too late to spoil another.                      *)
ClocksLeft(at) ==
  LET this == base_inflight = 2 * at
  IN CASE saver = "A0" -> IF ~nvram_upload THEN 9 ELSE IF quiet <= 2 THEN 4 ELSE 8
       [] saver = "A1" -> IF ~this THEN 11 ELSE IF quiet <= 3 THEN 3 ELSE 7
       [] saver = "C0" -> IF ~this THEN 10 ELSE IF sav_rd_ok /\ quiet <= 4 THEN 2 ELSE 6
       [] OTHER        -> IF ~this THEN 9 ELSE IF lo_ok /\ sav_rd_ok THEN 1 ELSE 5

(* What a fetch for the word at an address has read so far, and that one     *)
(* which missed a read did so because of a recent write.                    *)
Fetched(at) ==
  /\ saver # "A0" => base_inflight <= 2 * at
  /\ saver = "C0" /\ base_inflight = 2 * at =>
       IF sav_rd_ok THEN sav_ram_q = ram[base_inflight] ELSE quiet = 0
  /\ saver = "C1" /\ base_inflight = 2 * at =>
       IF lo_ok /\ sav_rd_ok
       THEN lo_tmp = ram[base_inflight] /\ sav_ram_q = ram[base_inflight + 1]
       ELSE quiet <= 1

Uploading == nv_main = "upload" /\ nv_at < NWords

WordInv ==
  Uploading =>
    /\ Pair(ram, nv_at) \in shown
    /\ Fetched(nv_at)
    /\ (word \in shown /\ word # Nil) \/ since + ClocksLeft(nv_at) <= 11

(* A byte that came down is in the memory or in the loader.                  *)
LoaderInv ==
  /\ nv_hi # Nil => /\ nv_main = "load" /\ since = 0 /\ nv_at > 0
                    /\ nv_hi = <<2 * nv_at - 1, image[2 * nv_at - 1]>>
  /\ nvram_wr # Nil => /\ nv_main = "load" /\ since <= 1 /\ nv_at > 0
                       /\ LET c == IF since = 0 THEN 2 * nv_at - 2 ELSE 2 * nv_at - 1
                          IN nvram_wr = <<c, image[c]>>
  /\ nv_main = "load" =>
       \A c \in Cells : c < 2 * nv_at =>
         ram[c] = image[c] \/ (nv_hi # Nil /\ nv_hi[1] = c) \/ (nvram_wr # Nil /\ nvram_wr[1] = c)

(* The dirty flag stands for a request, and while none does an upload finds  *)
(* the memory as it was when the flag fell.                                 *)
RequestInv ==
  /\ nvram_dirty => UploadReq \/ nv_main = "asked" \/ (nv_main = "upload" /\ ~nvram_upload_d)
  /\ Uploading /\ nvram_upload_d /\ ~UploadReq =>
       IF nv_at = 0 THEN word \in {Nil, Pair(ram, 0)} ELSE shown = {Pair(ram, nv_at)}

NvramInv ==
  NvramTypes /\ UploadInv /\ FetchInv /\ WordInv /\ LoaderInv /\ RequestInv /\ SaveIsAsked

LEMMA ZeroIsByte == ZeroByte \in Bytes
  BY NvramAssumption DEF ZeroByte

LEMMA CurBase ==
  ASSUME nv_at \in 0 .. NWords
  PROVE  /\ nv_at < NWords => nv_at % NWords = nv_at /\ cur_base = 2 * nv_at
         /\ nv_at + 1 < NWords => (nv_at + 1) % NWords = nv_at + 1
         /\ 0 % NWords = 0
         /\ cur_base \in 0 .. 2 * NWords - 2
<1>1. NWords \in Nat \ {0}
  BY NvramAssumption
<1>2. \A i \in 0 .. NWords - 1 : i % NWords = i
  BY <1>1, Wrap
<1>3. nv_at % NWords \in 0 .. NWords - 1
  BY <1>1, DivMod
<1>4. QED
  BY <1>1, <1>2, <1>3 DEF cur_base

(* What a clock does to the memory and its read register.                   *)
LEMMA NvramPort ==
  ASSUME NvramTypes, LoaderInv, NEW bus \in BusWrites, ArrayPort(bus)
  PROVE  /\ ram' \in [Cells -> Bytes] /\ sav_rd_ok' \in BOOLEAN /\ sav_ram_q' \in Bytes
         /\ nv_main # "load" =>
              IF bus \in {Nil, ClockWrite}
              THEN /\ ram' = ram
                   /\ saver \in {"A1", "C0"} /\ nvram_upload => sav_rd_ok' /\ sav_ram_q' = ram[sav_addr]
              ELSE ~sav_rd_ok'
         /\ nv_main = "load" /\ bus = Nil =>
              ram' = IF nvram_wr # Nil THEN [ram EXCEPT ![nvram_wr[1]] = nvram_wr[2]] ELSE ram
<1> DEFINE wr == IF bus \notin {Nil, ClockWrite} THEN bus ELSE nvram_wr
           reading == wr = Nil /\ saver \in {"A1", "C0"} /\ nvram_upload
<1>1. /\ ram' = IF wr # Nil THEN [ram EXCEPT ![wr[1]] = wr[2]] ELSE ram
      /\ sav_rd_ok' = reading
      /\ sav_ram_q' = IF reading THEN ram[sav_addr] ELSE ZeroByte
  BY DEF ArrayPort
<1>2. wr = Nil \/ (wr[1] \in Cells /\ wr[2] \in Bytes)
  <2>1. CASE bus \notin {Nil, ClockWrite}
    <3>1. bus \in GameCells \X Bytes
      BY <2>1 DEF BusWrites
    <3>2. bus[1] \in GameCells /\ bus[2] \in Bytes
      BY <3>1
    <3>3. QED
      BY <2>1, <3>2, NvramAssumption DEF Cells
  <2>2. CASE bus \in {Nil, ClockWrite} /\ nvram_wr # Nil
    <3>1. PICK c \in Cells : nvram_wr = <<c, image[c]>>
      <4>1. nv_at \in 1 .. NWords /\ NWords \in Nat
        BY <2>2, NvramAssumption DEF LoaderInv, NvramTypes
      <4>2. 2 * nv_at - 2 \in Cells /\ 2 * nv_at - 1 \in Cells
        BY <4>1 DEF Cells
      <4>3. nvram_wr = <<2 * nv_at - 2, image[2 * nv_at - 2]>> \/ nvram_wr = <<2 * nv_at - 1, image[2 * nv_at - 1]>>
        BY <2>2 DEF LoaderInv
      <4>4. QED
        BY <4>2, <4>3
    <3>2. nvram_wr[1] = c /\ nvram_wr[2] = image[c] /\ image[c] \in Bytes
      BY <3>1 DEF NvramTypes
    <3>3. QED
      BY <2>2, <3>2
  <2>3. QED
    BY <2>1, <2>2
<1>3. reading \in BOOLEAN
  OBVIOUS
<1>4. reading => ram[sav_addr] \in Bytes
  BY DEF NvramTypes
<1>5. nv_main # "load" => nvram_wr = Nil
  BY DEF LoaderInv
<1>6. ram' \in [Cells -> Bytes]
  <2>1. CASE wr = Nil
    BY <1>1, <2>1 DEF NvramTypes
  <2>2. CASE wr # Nil
    <3>1. ram' = [ram EXCEPT ![wr[1]] = wr[2]]
      BY <1>1, <2>2
    <3>2. wr[1] \in Cells /\ wr[2] \in Bytes
      BY <1>2, <2>2
    <3> HIDE DEF wr
    <3>3. QED
      BY <3>1, <3>2 DEF NvramTypes
  <2>3. QED
    BY <2>1, <2>2
<1>7. sav_rd_ok' \in BOOLEAN /\ sav_ram_q' \in Bytes
  <2> HIDE DEF reading
  <2>1. QED
    BY <1>1, <1>3, <1>4, ZeroIsByte
<1>8. ASSUME nv_main # "load"
      PROVE  IF bus \in {Nil, ClockWrite}
             THEN /\ ram' = ram
                  /\ saver \in {"A1", "C0"} /\ nvram_upload => sav_rd_ok' /\ sav_ram_q' = ram[sav_addr]
             ELSE ~sav_rd_ok'
  <2>1. CASE bus \in {Nil, ClockWrite}
    <3>1. wr = Nil
      BY <1>5, <1>8, <2>1
    <3>2. reading <=> saver \in {"A1", "C0"} /\ nvram_upload
      BY <3>1
    <3>3. QED
      BY <1>1, <2>1, <3>1, <3>2
  <2>2. CASE bus \notin {Nil, ClockWrite}
    <3>1. ~reading
      BY <2>2
    <3>2. QED
      BY <1>1, <2>2, <3>1
  <2>3. QED
    BY <2>1, <2>2
<1>9. nv_main = "load" /\ bus = Nil =>
        ram' = IF nvram_wr # Nil THEN [ram EXCEPT ![nvram_wr[1]] = nvram_wr[2]] ELSE ram
  BY <1>1
<1>10. QED
  BY <1>6, <1>7, <1>8, <1>9

(* A clock of the fabric, whatever Main does on it.                         *)
NvramClock(bus, polled, pair) ==
  /\ bus \in BusWrites /\ polled \in BOOLEAN /\ pair \in {Nil} \cup (Bytes \X Bytes)
  /\ NvramEdge(bus, polled, pair)

(* What Main does on a clock.                                               *)
Waits(bus)   == Idle(bus) /\ NvramClock(bus, FALSE, Nil)
Polls(bus)   == Poll(bus) /\ NvramClock(bus, TRUE, Nil)
Starts(bus)  == StartUpload(bus) /\ NvramClock(bus, FALSE, Nil)
TakesWord(bus)  == TakeWord(bus) /\ NvramClock(bus, FALSE, Nil)
Ends(bus)    == EndUpload(bus) /\ NvramClock(bus, FALSE, Nil)
Opens        == StartLoad /\ NvramClock(Nil, FALSE, Nil)
Loads(p)     == /\ nv_main = "load" /\ nv_at < NWords /\ NvramClock(Nil, FALSE, p) /\ p \in Bytes \X Bytes
                /\ image' = [image EXCEPT ![2 * nv_at] = p[1], ![2 * nv_at + 1] = p[2]]
                /\ Moves("load", nv_at + 1)
                /\ unsaved' = unsaved \ CellsOf(nv_at)
                /\ UNCHANGED shown
Closes       == EndLoad /\ NvramClock(Nil, FALSE, Nil)

Step(bus, p) ==
  \/ Waits(bus) \/ Polls(bus) \/ Starts(bus) \/ TakesWord(bus) \/ Ends(bus)
  \/ bus = Nil /\ (Opens \/ Loads(p) \/ Closes)

LEMMA NvramSteps ==
  ASSUME NvramNext
  PROVE  \E bus \in BusWrites, p \in Bytes \X Bytes : Step(bus, p)
<1>0. Nil \in BusWrites /\ <<ZeroByte, ZeroByte>> \in Bytes \X Bytes
  BY ZeroIsByte DEF BusWrites
<1>1. ASSUME NEW bus \in BusWrites,
             Idle(bus) \/ Poll(bus) \/ StartUpload(bus) \/ TakeWord(bus) \/ EndUpload(bus)
      PROVE  Step(bus, <<ZeroByte, ZeroByte>>)
  BY <1>1 DEF Step, Waits, Polls, Starts, TakesWord, Ends, NvramClock, Idle, Poll, StartUpload, TakeWord, EndUpload
<1>2. ASSUME StartLoad \/ EndLoad PROVE Step(Nil, <<ZeroByte, ZeroByte>>)
  BY <1>0, <1>2 DEF Step, Opens, Closes, NvramClock, StartLoad, EndLoad
<1>3. ASSUME LoadWord PROVE \E p \in Bytes \X Bytes : Step(Nil, p)
  BY <1>0, <1>3 DEF Step, Loads, NvramClock, LoadWord
<1>4. QED
  BY <1>0, <1>1, <1>2, <1>3 DEF NvramNext

LEMMA StepEdge ==
  ASSUME NEW bus \in BusWrites, NEW p \in Bytes \X Bytes, Step(bus, p)
  PROVE  \E polled \in BOOLEAN, pair \in {Nil} \cup (Bytes \X Bytes) :
           /\ NvramClock(bus, polled, pair)
           /\ polled => Polls(bus)
           /\ pair # Nil => pair = p /\ bus = Nil /\ Loads(p)
BY DEF Step, Waits, Polls, Starts, TakesWord, Ends, Opens, Loads, Closes

(* The types of the fabric's registers.                                     *)
LEMMA FabricTypes ==
  ASSUME NvramTypes, LoaderInv, NEW bus \in BusWrites, NEW polled, NEW pair, NvramClock(bus, polled, pair)
  PROVE  /\ ram' \in [Cells -> Bytes] /\ sav_rd_ok' \in BOOLEAN /\ sav_ram_q' \in Bytes
         /\ saver' \in {"A0", "A1", "C0", "C1"} /\ sav_addr' \in Cells
         /\ base_inflight' \in 0 .. 2 * NWords - 2
         /\ lo_tmp' \in Bytes /\ lo_ok' \in BOOLEAN
         /\ nvram_upload' \in BOOLEAN /\ nvram_upload_d' \in BOOLEAN /\ nvram_dirty' \in BOOLEAN
         /\ upload_req' \in BOOLEAN /\ old_upload_req' \in BOOLEAN /\ stuck' \in BOOLEAN
         /\ quiet' \in 0 .. WriteGap
<1>1. SaveBack /\ ArrayPort(bus) /\ Dirty(bus) /\ RaiseRequest(polled)
  BY DEF NvramClock, NvramEdge
<1>2. ram' \in [Cells -> Bytes] /\ sav_rd_ok' \in BOOLEAN /\ sav_ram_q' \in Bytes
  BY <1>1, NvramPort
<1>3. NWords \in Nat \ {0} /\ WriteGap \in Nat
  BY NvramAssumption
<1>4. 0 \in Cells /\ 0 \in 0 .. 2 * NWords - 2
  BY <1>3 DEF Cells
<1>5. cur_base \in 0 .. 2 * NWords - 2 /\ cur_base \in Cells
  BY <1>3, CurBase DEF NvramTypes, Cells
<1>6. base_inflight + 1 \in Cells
  BY <1>3 DEF NvramTypes, Cells
<1>7. saver' \in {"A0", "A1", "C0", "C1"} /\ sav_addr' \in Cells /\ base_inflight' \in 0 .. 2 * NWords - 2
  BY <1>1, <1>4, <1>5, <1>6 DEF SaveBack, FetchEven, FetchOdd, TakeEven, Commit, Rest, NvramTypes
<1>8. lo_tmp' \in Bytes
  BY <1>1, ZeroIsByte DEF SaveBack, FetchEven, FetchOdd, TakeEven, Commit, Rest, NvramTypes
<1>9. lo_ok' \in BOOLEAN
  BY <1>1, Zenon DEF SaveBack, FetchEven, FetchOdd, TakeEven, Commit, Rest, NvramTypes
<1>10. /\ nvram_upload' \in BOOLEAN /\ nvram_upload_d' \in BOOLEAN /\ nvram_dirty' \in BOOLEAN
       /\ stuck' \in BOOLEAN /\ old_upload_req' \in BOOLEAN /\ upload_req' \in BOOLEAN
  BY <1>1, Zenon DEF Dirty, RaiseRequest, NvramTypes
<1>11. quiet' \in 0 .. WriteGap
  <2>1. quiet' = IF bus # Nil THEN 0 ELSE IF quiet < WriteGap THEN quiet + 1 ELSE quiet
    BY DEF NvramClock, NvramEdge
  <2>2. QED
    BY <1>3, <2>1 DEF NvramTypes
<1>12. QED
  BY <1>2, <1>7, <1>8, <1>9, <1>10, <1>11

LEMMA WrittenCells ==
  ASSUME NEW bus \in BusWrites
  PROVE  Written(bus) \subseteq Cells /\ (bus = Nil => Written(bus) = {})
<1>1. ASSUME bus \notin {Nil, ClockWrite} PROVE bus[1] \in Cells
  BY <1>1, NvramAssumption DEF BusWrites, Cells
<1>2. QED
  BY <1>1 DEF Written

(* Main's side of a clock.                                                  *)
Moved(from, to, at) ==
  nv_main \in from /\ nv_main' = to /\ nv_at' = at /\ since = WordGap /\ since' \in {0, WordGap}

LEMMA MainMoves ==
  ASSUME NEW bus \in BusWrites, NEW p \in Bytes \X Bytes, Step(bus, p)
  PROVE  \/ /\ Waits(bus) /\ nv_main' = nv_main /\ nv_at' = nv_at
            /\ since' = IF since < WordGap THEN since + 1 ELSE since
         \/ Polls(bus) /\ Moved({"idle"}, "asked", 0)
         \/ /\ Starts(bus) /\ Moved({"idle", "asked"}, "upload", 0) /\ since' = 0
            /\ ~nvram_upload /\ ~nvram_upload_d
         \/ TakesWord(bus) /\ Moved({"upload"}, "upload", nv_at + 1) /\ since' = 0 /\ nv_at < NWords
         \/ Ends(bus) /\ Moved({"upload"}, "idle", 0) /\ nv_at = NWords
         \/ /\ bus = Nil /\ Opens /\ Moved({"idle"}, "load", 0) /\ since' = 0
            /\ ~nvram_upload /\ ~nvram_upload_d
         \/ bus = Nil /\ Loads(p) /\ Moved({"load"}, "load", nv_at + 1) /\ since' = 0 /\ nv_at < NWords
         \/ bus = Nil /\ Closes /\ Moved({"load"}, "idle", 0) /\ nv_at = NWords
<1>1. ASSUME Waits(bus) PROVE /\ nv_main' = nv_main /\ nv_at' = nv_at
                              /\ since' = IF since < WordGap THEN since + 1 ELSE since
  BY <1>1 DEF Waits, Idle, Stays
<1>2. ASSUME Polls(bus) PROVE Moved({"idle"}, "asked", 0)
  BY <1>2 DEF Polls, Poll, Moves, Moved
<1>3. ASSUME Starts(bus) PROVE /\ Moved({"idle", "asked"}, "upload", 0) /\ since' = 0
                               /\ ~nvram_upload /\ ~nvram_upload_d
  BY <1>3 DEF Starts, StartUpload, Moves, Moved, AtRest
<1>4. ASSUME TakesWord(bus) PROVE Moved({"upload"}, "upload", nv_at + 1) /\ since' = 0 /\ nv_at < NWords
  BY <1>4 DEF TakesWord, TakeWord, Moves, Moved
<1>5. ASSUME Ends(bus) PROVE Moved({"upload"}, "idle", 0) /\ nv_at = NWords
  BY <1>5 DEF Ends, EndUpload, Moves, Moved
<1>6. ASSUME Opens PROVE Moved({"idle"}, "load", 0) /\ since' = 0 /\ ~nvram_upload /\ ~nvram_upload_d
  BY <1>6 DEF Opens, StartLoad, Moves, Moved, AtRest
<1>7. ASSUME Loads(p) PROVE Moved({"load"}, "load", nv_at + 1) /\ since' = 0 /\ nv_at < NWords
  BY <1>7 DEF Loads, Moves, Moved
<1>8. ASSUME Closes PROVE Moved({"load"}, "idle", 0) /\ nv_at = NWords
  BY <1>8 DEF Closes, EndLoad, Moves, Moved
<1>9. QED
  BY <1>1, <1>2, <1>3, <1>4, <1>5, <1>6, <1>7, <1>8 DEF Step

LEMMA NvramTypesStep ==
  ASSUME NvramTypes, LoaderInv, NEW bus \in BusWrites, NEW p \in Bytes \X Bytes, Step(bus, p)
  PROVE  NvramTypes'
<1>1. PICK polled, pair : NvramClock(bus, polled, pair)
  BY StepEdge
<1>2. NWords \in Nat \ {0} /\ WordGap \in Nat \ {0}
  BY NvramAssumption, NvramPaceAssumption
<1>3. nv_main' \in {"idle", "asked", "upload", "load"} /\ nv_at' \in 0 .. NWords
  <2>1. nv_main \in {"idle", "asked", "upload", "load"} /\ nv_at \in 0 .. NWords
    BY DEF NvramTypes
  <2>2. QED
    BY <1>2, <2>1, MainMoves DEF Moved
<1>4. since' \in 0 .. WordGap
  <2>1. since \in 0 .. WordGap
    BY DEF NvramTypes
  <2>2. QED
    BY <1>2, <2>1, MainMoves DEF Moved
<1>5. unsaved' \subseteq Cells
  BY WrittenCells DEF Step, Waits, Polls, Starts, TakesWord, Ends, Opens, Loads, Closes, Idle, Stays, Poll,
              StartUpload, TakeWord, EndUpload, StartLoad, EndLoad, NvramTypes
<1>6. image' \in [Cells -> Bytes]
  <2>1. CASE Loads(p)
    <3>1. p[1] \in Bytes /\ p[2] \in Bytes
      OBVIOUS
    <3>2. 2 * nv_at \in Cells /\ 2 * nv_at + 1 \in Cells
      BY <1>2, <2>1 DEF Loads, NvramTypes, Cells
    <3>3. QED
      BY <2>1, <3>1, <3>2 DEF Loads, NvramTypes
  <2>2. CASE ~Loads(p)
    <3>1. Blank \in [Cells -> Bytes]
      BY ZeroIsByte DEF Blank
    <3>2. QED
      BY <2>2, <3>1 DEF Step, Waits, Polls, Starts, TakesWord, Ends, Opens, Closes, Idle, Stays, Poll,
                 StartUpload, TakeWord, EndUpload, StartLoad, EndLoad, NvramTypes
  <2>3. QED
    BY <2>1, <2>2
<1>7. QED
  BY <1>1, <1>3, <1>4, <1>5, <1>6, FabricTypes DEF NvramTypes

LEMMA UploadStep ==
  ASSUME NvramTypes, UploadInv, FetchInv, NEW bus \in BusWrites, NEW p \in Bytes \X Bytes, Step(bus, p)
  PROVE  UploadInv' /\ FetchInv'
<1>1. PICK polled, pair : NvramClock(bus, polled, pair)
  BY StepEdge
<1>2. SaveBack /\ Dirty(bus)
  BY <1>1 DEF NvramClock, NvramEdge
<1>3. WordGap \in Nat /\ WordGap > 1
  BY NvramAssumption, NvramPaceAssumption
<1>4. UploadInv'
  <2>1. since \in 0 .. WordGap /\ nv_at \in 0 .. NWords
    BY DEF NvramTypes
  <2>2. (nvram_upload' <=> nv_main = "upload") /\ (nvram_upload_d' <=> nvram_upload)
    BY <1>2 DEF Dirty
  <2>3. CASE Waits(bus)
    BY <1>3, <2>1, <2>2, <2>3 DEF Waits, Idle, Stays, UploadInv
  <2>4. CASE ~Waits(bus)
    BY <1>3, <2>1, <2>2, <2>4, MainMoves DEF Moved, UploadInv
  <2>5. QED
    BY <2>3, <2>4
<1>5. FetchInv'
  BY <1>2 DEF SaveBack, FetchEven, FetchOdd, TakeEven, Commit, Rest, Dirty, FetchInv, NvramTypes
<1>6. QED
  BY <1>4, <1>5

-----------------------------------------------------------------------------
(* A clock of a fetch for the word at the address: it brings it closer.      *)
FetchHyp == NvramTypes /\ LoaderInv /\ UploadInv /\ FetchInv /\ WordInv /\ Uploading

LEMMA FetchClock ==
  ASSUME FetchHyp, NEW bus \in BusWrites, NEW polled, NEW pair, NvramClock(bus, polled, pair),
         NEW at, at = nv_at
  PROVE  /\ Fetched(at)'
         /\ word' # Pair(ram, at) => word' = word /\ ClocksLeft(at)' <= ClocksLeft(at) - 1
<1> DEFINE clean == bus \in {Nil, ClockWrite}
           now == base_inflight = 2 * nv_at
<1>1. /\ SaveBack /\ ArrayPort(bus) /\ WriteGap \in Nat /\ WriteGap >= 5
      /\ bus # Nil => quiet = WriteGap
      /\ quiet' = IF bus # Nil THEN 0 ELSE IF quiet < WriteGap THEN quiet + 1 ELSE quiet
  BY NvramAssumption, NvramPaceAssumption DEF NvramClock, NvramEdge
<1>2. /\ quiet \in 0 .. WriteGap /\ nv_at \in 0 .. NWords /\ nv_at < NWords /\ nv_main = "upload" /\ NWords \in Nat
      /\ base_inflight \in Int /\ at \in Int /\ saver \in {"A0", "A1", "C0", "C1"}
  BY NvramAssumption DEF FetchHyp, NvramTypes, Uploading
<1>3. cur_base = 2 * nv_at
  BY <1>2, CurBase
<1>4. saver # "A0" => nvram_upload
  BY <1>2 DEF FetchHyp, FetchInv, UploadInv
<1>5. IF clean
      THEN /\ ram' = ram
           /\ saver \in {"A1", "C0"} /\ nvram_upload => sav_rd_ok' /\ sav_ram_q' = ram[sav_addr]
      ELSE ~sav_rd_ok' /\ bus # Nil
  BY <1>1, <1>2, NvramPort DEF FetchHyp
<1>6. CASE saver = "A0" /\ ~nvram_upload
  <2>1. saver' = "A0" /\ word' = Nil /\ since = 0 /\ nvram_upload_d = FALSE
    BY <1>1, <1>2, <1>6 DEF SaveBack, Rest, FetchHyp, UploadInv, NvramTypes
  <2>2. word = Nil /\ nvram_upload' 
    BY <1>1, <1>2, <2>1 DEF FetchHyp, FetchInv, NvramClock, NvramEdge, Dirty
  <2>3. QED
    BY <1>6, <2>1, <2>2 DEF Fetched, ClocksLeft
<1>7. CASE saver = "A0" /\ nvram_upload
  <2>1. saver' = "A1" /\ base_inflight' = 2 * nv_at /\ word' = word
    BY <1>1, <1>3, <1>7 DEF SaveBack, FetchEven, FetchOdd, TakeEven, Commit
  <2>3. QED
    BY <1>1, <1>2, <1>7, <2>1 DEF Fetched, ClocksLeft
<1>8. CASE saver = "A1"
  <2>1. /\ saver' = "C0" /\ base_inflight' = base_inflight /\ word' = word /\ sav_addr = base_inflight
        /\ base_inflight <= 2 * nv_at
    BY <1>1, <1>2, <1>4, <1>8 DEF SaveBack, FetchEven, FetchOdd, TakeEven, Commit, FetchHyp, FetchInv, WordInv, Fetched
  <2>3. now => IF sav_rd_ok' THEN sav_ram_q' = ram'[base_inflight'] ELSE quiet' = 0
    BY <1>1, <1>4, <1>5, <1>8, <2>1
  <2>4. quiet <= 3 => sav_rd_ok' /\ quiet' <= 4
    BY <1>1, <1>2, <1>4, <1>5, <1>8
  <2>5. QED
    BY <1>1, <1>2, <1>4, <1>8, <2>1, <2>3, <2>4 DEF Fetched, ClocksLeft
<1>9. CASE saver = "C0"
  <2>1. /\ saver' = "C1" /\ base_inflight' = base_inflight /\ word' = word /\ sav_addr = base_inflight + 1
        /\ base_inflight <= 2 * nv_at /\ lo_tmp' = sav_ram_q /\ (lo_ok' <=> sav_rd_ok)
    BY <1>1, <1>2, <1>4, <1>9 DEF SaveBack, FetchEven, FetchOdd, TakeEven, Commit, FetchHyp, FetchInv, WordInv, Fetched
  <2>3. now => IF sav_rd_ok THEN sav_ram_q = ram[base_inflight] ELSE quiet = 0
    BY <1>2, <1>9 DEF FetchHyp, WordInv, Fetched
  <2>4. now => IF lo_ok' /\ sav_rd_ok'
               THEN lo_tmp' = ram'[base_inflight'] /\ sav_ram_q' = ram'[base_inflight' + 1]
               ELSE quiet' <= 1
    BY <1>1, <1>2, <1>4, <1>5, <1>9, <2>1, <2>3
  <2>5. quiet <= 4 /\ sav_rd_ok => lo_ok' /\ sav_rd_ok'
    BY <1>1, <1>2, <1>4, <1>5, <1>9, <2>1
  <2>6. Fetched(at)'
    BY <1>1, <1>2, <1>4, <1>9, <2>1, <2>4, <2>5 DEF Fetched
  <2>7. ClocksLeft(at)' <= ClocksLeft(at) - 1
    BY <1>1, <1>2, <1>9, <2>1, <2>4, <2>5 DEF ClocksLeft
  <2>8. QED
    BY <2>1, <2>6, <2>7
<1>10. CASE saver = "C1"
  <2>1. saver' = "A0" /\ word' = IF Good THEN <<lo_tmp, sav_ram_q>> ELSE word
    BY <1>1, <1>4, <1>10 DEF SaveBack, FetchEven, FetchOdd, TakeEven, Commit
  <2>3. Good <=> lo_ok /\ sav_rd_ok /\ now
    BY <1>3 DEF Good
  <2>4. now => IF lo_ok /\ sav_rd_ok
               THEN lo_tmp = ram[base_inflight] /\ sav_ram_q = ram[base_inflight + 1]
               ELSE quiet <= 1
    BY <1>2, <1>10 DEF FetchHyp, WordInv, Fetched
  <2>5. Good => word' = Pair(ram, nv_at)
    BY <2>1, <2>3, <2>4 DEF Pair
  <2>6. now /\ ~Good => quiet' <= 2
    BY <1>1, <1>2, <2>3, <2>4
  <2>7. nvram_upload'
    BY <1>2 DEF NvramClock, NvramEdge, Dirty
  <2>8. QED
    BY <1>1, <1>2, <1>4, <1>10, <2>1, <2>3, <2>5, <2>6, <2>7 DEF Fetched, ClocksLeft
<1>11. QED
  BY <1>2, <1>6, <1>7, <1>8, <1>9, <1>10

LEMMA PairIsWord ==
  ASSUME NEW memory, NEW w
  PROVE  Pair(memory, w) # Nil
BY DEF Pair, Nil

LEMMA WordStep ==
  ASSUME NvramTypes, LoaderInv, UploadInv, FetchInv, WordInv,
         NEW bus \in BusWrites, NEW p \in Bytes \X Bytes, Step(bus, p)
  PROVE  WordInv'
<1> SUFFICES ASSUME Uploading' PROVE WordInv'
  BY DEF WordInv
<1> DEFINE at == nv_at
           done == word \in shown /\ word # Nil
<1>1. PICK polled, pair : NvramClock(bus, polled, pair)
  BY StepEdge
<1>2. nvram_upload' <=> nv_main = "upload"
  BY <1>1 DEF NvramClock, NvramEdge, Dirty
<1>3. NWords \in Nat \ {0} /\ WordGap \in Nat /\ nv_at \in 0 .. NWords /\ since \in 0 .. WordGap
  BY NvramAssumption DEF NvramTypes
<1>4. CASE Waits(bus)
  <2>1. nv_main = "upload" /\ nv_at < NWords /\ nv_at' = nv_at /\ since' <= since + 1
    BY <1>3, <1>4, MainMoves DEF Waits, Idle, Stays, Uploading
  <2>2. shown' = shown \cup {Pair(ram', nv_at)}
    BY <1>3, <1>4, <2>1, CurBase DEF Waits, Idle
  <2>3. Uploading /\ FetchHyp
    BY <2>1 DEF Uploading, FetchHyp
  <2>4. /\ Pair(ram, nv_at) \in shown
        /\ done \/ since + ClocksLeft(nv_at) <= 11
    BY <2>3 DEF WordInv
  <2>5. /\ Fetched(nv_at)'
        /\ word' # Pair(ram, nv_at) => word' = word /\ ClocksLeft(nv_at)' <= ClocksLeft(nv_at) - 1
    BY <1>1, <2>1, <2>3, FetchClock
  <2>6. ClocksLeft(nv_at) \in Int /\ ClocksLeft(nv_at)' \in Int
    BY DEF ClocksLeft
  <2>7. done' \/ (since + ClocksLeft(nv_at) <= 11)'
    <3>1. CASE word' = Pair(ram, nv_at)
      BY <2>2, <2>4, <3>1, PairIsWord
    <3>2. CASE word' # Pair(ram, nv_at) /\ done
      BY <2>2, <2>5, <3>2
    <3>3. CASE word' # Pair(ram, nv_at) /\ ~done
      <4>1. since' \in Int
        BY <1>3, <1>4 DEF Waits, Idle, Stays
      <4>2. QED
        BY <1>3, <2>1, <2>4, <2>5, <2>6, <3>3, <4>1
    <3>4. QED
      BY <3>1, <3>2, <3>3
  <2>8. (Pair(ram, nv_at) \in shown)'
    BY <2>1, <2>2
  <2>9. QED
    BY <2>5, <2>7, <2>8 DEF WordInv
<1>5. CASE Starts(bus)
  <2>1. nv_at' = 0 /\ since' = 0 /\ ~nvram_upload /\ shown' = {Pair(ram', 0)} /\ nv_main # "upload"
    BY <1>5 DEF Starts, StartUpload, Moves, AtRest
  <2>2. saver' = "A0" /\ ~nvram_upload'
    BY <1>1, <1>2, <2>1 DEF NvramClock, NvramEdge, SaveBack, Rest
  <2>3. QED
    BY <2>1, <2>2 DEF WordInv, Fetched, ClocksLeft
<1>6. CASE TakesWord(bus)
  <2>1. /\ nv_main = "upload" /\ nv_at < NWords /\ nv_at' = nv_at + 1 /\ since' = 0
        /\ nv_at + 1 < NWords
    BY <1>6 DEF TakesWord, TakeWord, Moves, Uploading
  <2>2. shown' = {Pair(ram', nv_at')}
    BY <1>3, <1>6, <2>1, CurBase DEF TakesWord, TakeWord
  <2>3. FetchHyp
    BY <2>1 DEF Uploading, FetchHyp
  <2>4. /\ saver' # "A0" => base_inflight' <= 2 * nv_at
    BY <1>1, <2>1, <2>3, FetchClock DEF Fetched
  <2>5. saver' # "A0" => base_inflight' <= 2 * nv_at' /\ base_inflight' # 2 * nv_at'
    <3>1. base_inflight' \in Int
      BY <1>1, FabricTypes, <1>3
    <3>2. QED
      BY <1>3, <2>1, <2>4, <3>1
  <2>6. ClocksLeft(nv_at)' <= 11
    BY <1>2, <2>1, <2>5 DEF ClocksLeft
  <2>7. Fetched(nv_at)'
    BY <2>5 DEF Fetched
  <2>8. ClocksLeft(nv_at)' \in Int
    BY DEF ClocksLeft
  <2>9. QED
    BY <2>1, <2>2, <2>6, <2>7, <2>8 DEF WordInv
<1>7. QED
  BY <1>4, <1>5, <1>6, MainMoves DEF Moved, Uploading

-----------------------------------------------------------------------------
(* The two bytes of a word that came down are in the memory two clocks       *)
(* later, long before the next word.                                        *)
LEMMA LoaderStep ==
  ASSUME NvramTypes, LoaderInv, NEW bus \in BusWrites, NEW p \in Bytes \X Bytes, Step(bus, p)
  PROVE  LoaderInv'
<1>1. PICK polled \in BOOLEAN, pair \in {Nil} \cup (Bytes \X Bytes) :
        NvramClock(bus, polled, pair) /\ (pair # Nil => pair = p /\ bus = Nil /\ Loads(p))
  BY StepEdge
<1>2. /\ nvram_wr' = IF nv_hi # Nil THEN nv_hi
                     ELSE IF pair # Nil THEN <<2 * nv_at, pair[1]>> ELSE Nil
      /\ nv_hi' = IF nv_hi = Nil /\ pair # Nil THEN <<2 * nv_at + 1, pair[2]>> ELSE Nil
      /\ bus # Nil => nv_main # "load"
      /\ ArrayPort(bus)
  BY <1>1 DEF NvramClock, NvramEdge, Unpack
<1>3. /\ NWords \in Nat \ {0} /\ WordGap \in Nat /\ WordGap > 1 /\ nv_at \in 0 .. NWords
      /\ since \in 0 .. WordGap /\ ram \in [Cells -> Bytes] /\ image \in [Cells -> Bytes]
  BY NvramAssumption, NvramPaceAssumption DEF NvramTypes
<1>4. nv_main = "load" =>
        ram' = IF nvram_wr # Nil THEN [ram EXCEPT ![nvram_wr[1]] = nvram_wr[2]] ELSE ram
  BY <1>2, NvramPort
<1>5. nvram_wr # Nil \/ nv_hi # Nil => nv_main = "load" /\ since <= 1
  BY DEF LoaderInv
<1>6. CASE nv_main = "load" /\ Waits(bus)
  <2>1. /\ nv_main' = "load" /\ nv_at' = nv_at /\ image' = image /\ pair = Nil /\ since' = IF since < WordGap THEN since + 1 ELSE since
    <3>1. ~Loads(p)
      <4>1. nv_at' = nv_at
        BY <1>6 DEF Waits, Idle, Stays
      <4>2. Loads(p) => nv_at' = nv_at + 1
        BY DEF Loads, Moves
      <4>3. QED
        BY <1>3, <4>1, <4>2
    <3>2. QED
      BY <1>1, <1>6, <3>1 DEF Waits, Idle, Stays
  <2>2. nv_hi' = Nil /\ nvram_wr' = nv_hi
    BY <1>2, <2>1
  <2>3. nvram_wr' # Nil => /\ nv_main' = "load" /\ since' = 1 /\ nv_at' > 0
                           /\ nvram_wr' = <<2 * nv_at - 1, image[2 * nv_at - 1]>>
    BY <1>3, <2>1, <2>2 DEF LoaderInv
  <2>4. ASSUME NEW c \in Cells, c < 2 * nv_at
        PROVE  ram'[c] = image[c] \/ (nvram_wr' # Nil /\ nvram_wr'[1] = c)
    <3>1. CASE nv_hi # Nil /\ nv_hi[1] = c
      BY <2>2, <3>1
    <3>2. CASE nvram_wr # Nil
      <4>1. PICK d \in Int : nvram_wr = <<d, image[d]>>
        BY <1>3, <3>2 DEF LoaderInv
      <4>2. nvram_wr[1] = d /\ nvram_wr[2] = image[d]
        BY <4>1
      <4>3. ram' = [ram EXCEPT ![d] = image[d]]
        BY <1>4, <1>6, <3>2, <4>2
      <4>4. ram[c] = image[c] \/ c = d \/ (nv_hi # Nil /\ nv_hi[1] = c)
        BY <1>6, <2>4, <4>2 DEF LoaderInv
      <4>5. QED
        BY <1>3, <2>2, <4>3, <4>4
    <3>3. CASE nvram_wr = Nil /\ ~(nv_hi # Nil /\ nv_hi[1] = c)
      BY <1>4, <1>6, <2>4, <3>3 DEF LoaderInv
    <3>4. QED
      BY <3>1, <3>2, <3>3
  <2>5. QED
    BY <1>3, <2>1, <2>2, <2>3, <2>4 DEF LoaderInv
<1>7. CASE Loads(p)
  <2>1. /\ nv_main = "load" /\ nv_main' = "load" /\ nv_at' = nv_at + 1 /\ since = WordGap /\ since' = 0
        /\ nv_at < NWords /\ image' = [image EXCEPT ![2 * nv_at] = p[1], ![2 * nv_at + 1] = p[2]]
    BY <1>7 DEF Loads, Moves
  <2>2. nvram_wr = Nil /\ nv_hi = Nil /\ ram' = ram
    BY <1>3, <1>4, <1>5, <2>1
  <2>3. pair = p
    <3>1. nv_at' # nv_at
      BY <1>3, <2>1
    <3>2. NvramClock(bus, polled, pair) /\ NvramClock(Nil, FALSE, p)
      BY <1>1, <1>7 DEF Loads
    <3>3. Unpack(pair) /\ Unpack(p)
      BY <3>2 DEF NvramClock, NvramEdge
    <3>4. p # Nil /\ p = <<p[1], p[2]>>
      BY DEF Nil
    <3>5. nvram_wr' = <<2 * nv_at, p[1]>>
      BY <2>2, <3>3, <3>4 DEF Unpack
    <3>6. nvram_wr' # Nil
      BY <3>5 DEF Nil
    <3>7. QED
      BY <1>1, <2>2, <3>3, <3>6 DEF Unpack
  <2>4. p # Nil
    BY DEF Nil
  <2>5. nvram_wr' = <<2 * nv_at, p[1]>> /\ nv_hi' = <<2 * nv_at + 1, p[2]>>
    BY <1>2, <2>2, <2>3, <2>4
  <2>6. /\ nvram_wr' # Nil /\ nv_hi' # Nil
        /\ nvram_wr'[1] = 2 * nv_at /\ nv_hi'[1] = 2 * nv_at + 1
    BY <2>5 DEF Nil
  <2>7. 2 * nv_at \in Cells /\ 2 * nv_at + 1 \in Cells
    BY <1>3, <2>1 DEF Cells
  <2>8. image'[2 * nv_at] = p[1] /\ image'[2 * nv_at + 1] = p[2]
    BY <1>3, <2>1, <2>7
  <2>9. ASSUME NEW c \in Cells, c < 2 * nv_at'
        PROVE  ram'[c] = image'[c] \/ nv_hi'[1] = c \/ nvram_wr'[1] = c
    <3>1. CASE c < 2 * nv_at
      <4>1. ram[c] = image[c]
        BY <2>1, <2>2, <3>1 DEF LoaderInv
      <4>2. image'[c] = image[c]
        BY <1>3, <2>1, <3>1
      <4>3. QED
        BY <2>2, <4>1, <4>2
    <3>2. CASE ~(c < 2 * nv_at)
      <4>1. c = 2 * nv_at \/ c = 2 * nv_at + 1
        <5>1. c \in Int /\ nv_at \in Int /\ nv_at' = nv_at + 1
          BY <1>3, <2>1 DEF Cells
        <5>2. QED
          BY <2>9, <3>2, <5>1
      <4>2. QED
        BY <2>6, <4>1
    <3>3. QED
      BY <3>1, <3>2
  <2>10. 2 * nv_at' - 1 = 2 * nv_at + 1 /\ 2 * nv_at' - 2 = 2 * nv_at /\ nv_at' > 0
    BY <1>3, <2>1
  <2>11. nv_hi' = <<2 * nv_at' - 1, image'[2 * nv_at' - 1]>> /\ nvram_wr' = <<2 * nv_at' - 2, image'[2 * nv_at' - 2]>>
    BY <2>5, <2>8, <2>10
  <2>12. (nv_main = "load" =>
            \A c \in Cells : c < 2 * nv_at =>
              ram[c] = image[c] \/ (nv_hi # Nil /\ nv_hi[1] = c) \/ (nvram_wr # Nil /\ nvram_wr[1] = c))'
    BY <2>6, <2>9 DEF Cells
  <2>13. (nv_hi # Nil => /\ nv_main = "load" /\ since = 0 /\ nv_at > 0
                         /\ nv_hi = <<2 * nv_at - 1, image[2 * nv_at - 1]>>)'
    BY <2>1, <2>10, <2>11
  <2>14. (nvram_wr # Nil => /\ nv_main = "load" /\ since <= 1 /\ nv_at > 0
                           /\ LET c == IF since = 0 THEN 2 * nv_at - 2 ELSE 2 * nv_at - 1
                              IN nvram_wr = <<c, image[c]>>)'
    BY <2>1, <2>10, <2>11
  <2>15. QED
    BY <2>12, <2>13, <2>14 DEF LoaderInv
<1>8. CASE ~Loads(p) /\ ~(nv_main = "load" /\ Waits(bus))
  <2>1. pair = Nil
    BY <1>1, <1>8
  <2>2. nv_hi = Nil
    BY <1>3, <1>5, <1>8, MainMoves DEF Moved
  <2>3. nvram_wr' = Nil /\ nv_hi' = Nil
    BY <1>2, <2>1, <2>2
  <2>4. nv_main' = "load" => nv_at' = 0
    BY <1>8, MainMoves DEF Moved
  <2>5. QED
    BY <2>3, <2>4 DEF LoaderInv, Cells
<1>9. QED
  BY <1>6, <1>7, <1>8

-----------------------------------------------------------------------------
(* Main's request.                                                          *)
LEMMA WordIsThere ==
  ASSUME NvramTypes, WordInv, Uploading, since = WordGap
  PROVE  word \in shown /\ word # Nil
<1>1. ClocksLeft(nv_at) \in Int /\ ClocksLeft(nv_at) >= 1
  BY DEF ClocksLeft
<1>2. since \in Int /\ since >= 11
  BY NvramAssumption, NvramPaceAssumption
<1>3. QED
  BY <1>1, <1>2 DEF WordInv

LEMMA CellOfWord ==
  ASSUME NEW c \in Cells
  PROVE  /\ c \div 2 \in 0 .. NWords - 1
         /\ \A w \in Nat : c \notin CellsOf(w) /\ w <= c \div 2 => w + 1 <= c \div 2
<1>1. NWords \in Nat \ {0} /\ c \in 0 .. 2 * NWords - 1
  BY NvramAssumption DEF Cells
<1>2. c \div 2 \in Int /\ 2 * (c \div 2) <= c /\ c < 2 * (c \div 2) + 2
  BY <1>1
<1>3. \A w \in Nat : c \div 2 = w => c \in CellsOf(w)
  BY <1>1, <1>2 DEF CellsOf
<1>4. QED
  BY <1>1, <1>2, <1>3

LEMMA RequestStep ==
  ASSUME NvramInv, NEW bus \in BusWrites, NEW p \in Bytes \X Bytes, Step(bus, p)
  PROVE  RequestInv' /\ SaveIsAsked'
<1>1. PICK polled \in BOOLEAN, pair \in {Nil} \cup (Bytes \X Bytes) :
        NvramClock(bus, polled, pair) /\ (polled => Polls(bus))
  BY StepEdge
<1>2. /\ nvram_upload' <=> nv_main = "upload"
      /\ nvram_upload_d' <=> nvram_upload
      /\ nvram_dirty' <=> bus # Nil \/ (nvram_dirty /\ ~begins)
      /\ begins /\ bus # Nil => stuck'
      /\ ~begins => (stuck' <=> stuck)
      /\ old_upload_req' <=> nvram_dirty
      /\ upload_req' <=> (~polled /\ (upload_req \/ (nvram_dirty /\ ~old_upload_req)))
  BY <1>1 DEF NvramClock, NvramEdge, Dirty, Clears, RaiseRequest
<1>3. /\ NvramTypes /\ UploadInv /\ FetchInv /\ WordInv /\ LoaderInv /\ RequestInv /\ SaveIsAsked
  BY DEF NvramInv
<1>4. /\ WordGap \in Nat /\ WordGap > 1 /\ NWords \in Nat /\ nv_at \in 0 .. NWords /\ unsaved \subseteq Cells
  BY <1>3, NvramAssumption, NvramPaceAssumption DEF NvramTypes
<1>5. begins => /\ nv_main = "upload" /\ nv_at = 0 /\ Waits(bus)
                /\ nv_main' = "upload" /\ nv_at' = 0 /\ ~polled
  <2>1. begins => nv_main = "upload" /\ nv_at = 0 /\ since = 1
    BY <1>3 DEF UploadInv, begins
  <2>2. Polls(bus) => nv_main = "idle"
    BY DEF Polls, Poll
  <2>3. QED
    BY <1>1, <1>4, <2>1, <2>2, MainMoves DEF Moved
<1>6. UploadReq /\ ~polled /\ ~begins => UploadReq'
  BY <1>2 DEF UploadReq
<1>7. polled => nv_main' = "asked"
  BY <1>1 DEF Polls, Poll, Moves
<1>8. (nvram_dirty => UploadReq \/ nv_main = "asked" \/ (nv_main = "upload" /\ ~nvram_upload_d))'
  <2> SUFFICES ASSUME nvram_dirty'
               PROVE  UploadReq' \/ nv_main' = "asked" \/ (nv_main' = "upload" /\ ~nvram_upload_d')
    OBVIOUS
  <2>1. CASE begins
    BY <1>2, <2>1 DEF UploadReq
  <2>2. CASE ~begins /\ ~nvram_dirty
    BY <1>2, <2>2 DEF UploadReq
  <2>3. CASE ~begins /\ UploadReq
    BY <1>6, <1>7, <2>3
  <2>4. CASE ~begins /\ nv_main = "asked"
    <3>1. nv_main' = "asked" \/ (nv_main' = "upload" /\ ~nvram_upload)
      BY <2>4, MainMoves DEF Moved
    <3>2. QED
      BY <1>2, <3>1
  <2>5. CASE ~begins /\ nv_main = "upload" /\ ~nvram_upload_d
    <3>1. ~nvram_upload /\ since = 0
      BY <1>3, <2>5 DEF UploadInv, begins
    <3>2. nv_main' = "upload"
      BY <1>4, <2>5, <3>1, MainMoves DEF Moved
    <3>3. QED
      BY <1>2, <3>1, <3>2
  <2>6. QED
    BY <1>3, <2>1, <2>2, <2>3, <2>4, <2>5 DEF RequestInv
<1>9. ASSUME Uploading', nvram_upload_d', ~UploadReq'
      PROVE  IF nv_at' = 0 THEN word' \in {Nil, Pair(ram', 0)} ELSE shown' = {Pair(ram', nv_at')}
  <2>1. CASE ~nvram_upload_d
    <3>1. begins /\ saver = "A0" /\ word = Nil
      BY <1>2, <1>3, <1>9, <2>1 DEF begins, FetchInv
    <3>2. word' = word
      BY <1>1, <3>1 DEF NvramClock, NvramEdge, SaveBack, FetchEven, FetchOdd, TakeEven, Commit, begins
    <3>3. QED
      BY <1>5, <3>1, <3>2
  <2>2. CASE nvram_upload_d
    <3>1. nvram_upload /\ ~begins /\ ~polled
      BY <1>2, <1>7, <1>9, <2>2 DEF begins, Uploading
    <3>2. ~UploadReq
      BY <1>6, <1>9, <3>1
    <3>3. (nv_main = "upload" /\ Waits(bus) /\ nv_at' = nv_at) \/ (TakesWord(bus) /\ nv_at' = nv_at + 1)
      BY <1>9, <3>1, MainMoves DEF Moved, Uploading
    <3>4. nv_main = "upload"
      BY <3>3 DEF TakesWord, TakeWord
    <3>5. ~nvram_dirty
      BY <1>3, <2>2, <3>2, <3>4 DEF RequestInv
    <3>6. bus = Nil
      BY <1>2, <1>9, <3>5 DEF UploadReq
    <3>7. ram' = ram
      BY <1>1, <1>3, <3>4, <3>6, NvramPort DEF NvramClock, NvramEdge
    <3>8. CASE nv_main = "upload" /\ Waits(bus) /\ nv_at' = nv_at
      <4>1. Uploading
        BY <1>9, <3>8 DEF Uploading
      <4>2. FetchHyp
        BY <1>3, <4>1 DEF FetchHyp
      <4>3. word' = Pair(ram, nv_at) \/ word' = word
        BY <1>1, <4>2, FetchClock
      <4>4. shown' = shown \cup {Pair(ram', nv_at)}
        BY <1>4, <3>8, <4>1, CurBase DEF Waits, Idle, Uploading
      <4>5. IF nv_at = 0 THEN word \in {Nil, Pair(ram, 0)} ELSE shown = {Pair(ram, nv_at)}
        BY <1>3, <2>2, <3>2, <4>1 DEF RequestInv
      <4>6. QED
        BY <3>7, <3>8, <4>3, <4>4, <4>5
    <3>9. CASE TakesWord(bus) /\ nv_at' = nv_at + 1
      <4>1. nv_at + 1 < NWords /\ nv_at' # 0
        BY <1>4, <1>9, <3>9 DEF Uploading
      <4>2. shown' = {Pair(ram', nv_at')}
        BY <1>4, <3>9, <4>1, CurBase DEF TakesWord, TakeWord
      <4>3. QED
        BY <4>1, <4>2
    <3>10. QED
      BY <3>3, <3>8, <3>9
  <2>3. QED
    BY <2>1, <2>2
<1>10. RequestInv'
  BY <1>8, <1>9 DEF RequestInv
<1>11. ASSUME NEW c \in unsaved', nvram_dirty'
       PROVE  (nv_main' = "upload" /\ nv_at' <= c \div 2) \/ nv_main' = "asked" \/ UploadReq'
  <2>1. UploadInv' /\ NvramTypes'
    BY <1>3, UploadStep, NvramTypesStep
  <2>2. CASE nv_main' = "upload" /\ ~nvram_upload_d'
    <3>1. nv_at' = 0
      BY <2>1, <2>2 DEF UploadInv
    <3>2. c \div 2 >= 0
      BY <2>1, CellOfWord, <1>4 DEF NvramTypes
    <3>3. QED
      BY <2>2, <3>1, <3>2
  <2>3. QED
    BY <1>8, <1>11, <2>2
<1>12. ASSUME NEW c \in unsaved', ~nvram_dirty'
       PROVE  (nv_main' = "upload" /\ nv_at' <= c \div 2) \/ nv_main' = "asked" \/ UploadReq'
  <2>1. bus = Nil /\ Written(bus) = {}
    BY <1>2, <1>12 DEF Written
  <2>2. c \in unsaved /\ (TakesWord(bus) /\ word = Pair(ram, nv_at) => c \notin CellsOf(nv_at))
    BY <1>12, <2>1, Zenon DEF Step, Waits, Polls, Starts, TakesWord, Ends, Opens, Loads, Closes, Idle, Poll,
       StartUpload, TakeWord, EndUpload, StartLoad, EndLoad
  <2>3. c \div 2 \in 0 .. NWords - 1 /\ c \in Cells
    BY <1>4, <2>2, CellOfWord
  <2>4. CASE begins
    BY <1>4, <1>5, <2>3, <2>4
  <2>5. CASE UploadReq /\ ~begins
    BY <1>6, <1>7, <2>5
  <2>6. CASE nv_main = "asked"
    <3>1. nv_main' = "asked" \/ (nv_main' = "upload" /\ nv_at' = 0)
      BY <2>6, MainMoves DEF Moved
    <3>2. QED
      BY <1>4, <2>3, <3>1
  <2>7. CASE nv_main = "upload" /\ nv_at <= c \div 2 /\ ~UploadReq /\ ~begins
    <3>1. (nv_main' = "upload" /\ nv_at' = nv_at) \/ (TakesWord(bus) /\ nv_main' = "upload" /\ nv_at' = nv_at + 1 /\ since = WordGap)
      BY <1>4, <2>3, <2>7, MainMoves DEF Moved
    <3>2. CASE TakesWord(bus) /\ nv_main' = "upload" /\ nv_at' = nv_at + 1 /\ since = WordGap
      <4>1. Uploading
        BY <1>4, <2>3, <2>7 DEF Uploading
      <4>2. word \in shown /\ word # Nil
        BY <1>3, <3>2, <4>1, WordIsThere
      <4>3. nvram_upload_d
        BY <1>3, <1>4, <2>7, <3>2 DEF UploadInv
      <4>4. word = Pair(ram, nv_at)
        BY <1>3, <2>7, <4>1, <4>2, <4>3 DEF RequestInv
      <4>5. c \notin CellsOf(nv_at)
        BY <2>2, <3>2, <4>4
      <4>6. QED
        BY <1>4, <2>3, <2>7, <3>2, <4>5, CellOfWord
    <3>3. QED
      BY <2>7, <3>1, <3>2
  <2>8. QED
    BY <1>3, <2>2, <2>4, <2>5, <2>6, <2>7 DEF SaveIsAsked, UploadReq
<1>13. SaveIsAsked'
  BY <1>11, <1>12 DEF SaveIsAsked, UploadReq
<1>14. QED
  BY <1>10, <1>13

-----------------------------------------------------------------------------
LEMMA NvramInvInit == NvramInit => NvramInv
<1> SUFFICES ASSUME NvramInit PROVE NvramInv
  OBVIOUS
<1>1. /\ NWords \in Nat \ {0} /\ WordGap \in Nat /\ WriteGap \in Nat /\ ZeroByte \in Bytes
      /\ Blank \in [Cells -> Bytes]
  BY NvramAssumption, ZeroIsByte DEF Blank
<1>2. /\ lo_ok \in BOOLEAN /\ sav_rd_ok \in BOOLEAN
      /\ nvram_upload \in BOOLEAN /\ nvram_upload_d \in BOOLEAN /\ nvram_dirty \in BOOLEAN
      /\ upload_req \in BOOLEAN /\ old_upload_req \in BOOLEAN /\ stuck \in BOOLEAN
  BY DEF NvramInit
<1>3. /\ sav_addr \in Cells /\ base_inflight \in 0 .. 2 * NWords - 2 /\ nv_at \in 0 .. NWords
      /\ since \in 0 .. WordGap /\ quiet \in 0 .. WriteGap
  BY <1>1 DEF NvramInit, Cells
<1>4. NvramTypes
  BY <1>1, <1>2, <1>3 DEF NvramInit, NvramTypes
<1>5. UploadInv /\ FetchInv /\ WordInv /\ LoaderInv
  BY DEF NvramInit, UploadInv, FetchInv, WordInv, LoaderInv, Uploading
<1>6. RequestInv /\ SaveIsAsked
  BY DEF NvramInit, RequestInv, SaveIsAsked, Uploading
<1>7. QED
  BY <1>4, <1>5, <1>6 DEF NvramInv

LEMMA NvramInvKept ==
  ASSUME NvramInv, UNCHANGED nvramVars
  PROVE  NvramInv'
<1>1. /\ ram' = ram /\ sav_ram_q' = sav_ram_q /\ sav_rd_ok' = sav_rd_ok /\ nvram_wr' = nvram_wr
      /\ nv_hi' = nv_hi /\ saver' = saver /\ sav_addr' = sav_addr /\ base_inflight' = base_inflight
      /\ lo_tmp' = lo_tmp /\ lo_ok' = lo_ok /\ word' = word /\ nvram_upload' = nvram_upload
      /\ nvram_upload_d' = nvram_upload_d /\ nvram_dirty' = nvram_dirty /\ upload_req' = upload_req
      /\ old_upload_req' = old_upload_req /\ nv_main' = nv_main /\ nv_at' = nv_at /\ since' = since
      /\ quiet' = quiet /\ shown' = shown /\ unsaved' = unsaved /\ stuck' = stuck /\ image' = image
  BY DEF nvramVars, memVars, backVars, reqVars
<1>2. NvramTypes' /\ UploadInv' /\ FetchInv'
  BY <1>1 DEF NvramInv, NvramTypes, UploadInv, FetchInv
<1>3. WordInv'
  BY <1>1 DEF NvramInv, WordInv, Uploading, Fetched, ClocksLeft, Pair
<1>4. LoaderInv'
  BY <1>1 DEF NvramInv, LoaderInv
<1>5. RequestInv' /\ SaveIsAsked'
  BY <1>1 DEF NvramInv, RequestInv, SaveIsAsked, UploadReq, Uploading, Pair
<1>6. QED
  BY <1>2, <1>3, <1>4, <1>5 DEF NvramInv

(* The types of the NVRAM's port, and the invariant of its uploads and        *)
(* downloads.                                                               *)
THEOREM NvramInvariant == Spec => []NvramInv
<1>1. Init => NvramInv
  BY NvramInvInit DEF Init
<1>2. NvramInv /\ [Next]_vars => NvramInv'
  <2> SUFFICES ASSUME NvramInv, [Next]_vars PROVE NvramInv'
    OBVIOUS
  <2>1. CASE NvramNext
    <3>1. PICK bus \in BusWrites, p \in Bytes \X Bytes : Step(bus, p)
      BY <2>1, NvramSteps
    <3>2. QED
      BY <3>1, NvramTypesStep, UploadStep, WordStep, LoaderStep, RequestStep DEF NvramInv
  <2>2. CASE UNCHANGED nvramVars
    BY <2>2, NvramInvKept
  <2>3. QED
    BY <2>1, <2>2 DEF Next, Of, vars
<1>3. QED
  BY <1>1, <1>2, PTL DEF Spec

(* Whatever the game writes meanwhile, no word of an upload is torn or of     *)
(* another place though nothing holds Main back, and every word of a         *)
(* download is in the memory before the next.                               *)
THEOREM ImagesStayWhole == Spec => []ImagesWhole
<1>1. NvramInv => ImagesWhole
  <2> SUFFICES ASSUME NvramInv PROVE ImagesWhole
    OBVIOUS
  <2>1. WordGap \in Nat /\ WordGap > 1
    BY NvramAssumption, NvramPaceAssumption
  <2>2. nv_main = "upload" /\ since = WordGap /\ nv_at < NWords => word \in shown
    BY WordIsThere DEF NvramInv, Uploading
  <2>3. nv_main = "load" /\ since = WordGap => \A c \in Cells : c < 2 * nv_at => ram[c] = image[c]
    BY <2>1 DEF NvramInv, LoaderInv
  <2>4. QED
    BY <2>2, <2>3 DEF ImagesWhole
<1>2. QED
  BY <1>1, NvramInvariant, PTL

(* A byte the game wrote is on its way to the card, or a save of it is asked  *)
(* for, but for the flag that a write sets on the clock an upload clears it. *)
THEOREM SavesAreAsked == Spec => []SaveIsAsked
<1>1. NvramInv => SaveIsAsked
  BY DEF NvramInv
<1>2. QED
  BY <1>1, NvramInvariant, PTL

-----------------------------------------------------------------------------
(* Powers of two.                                                           *)
Doubles(g, n) ==
  g \in [0 .. n -> Nat] /\ g[0] = 1 /\ \A i \in 1 .. n : g[i] = 2 * g[i - 1]

(* For every n there are n doublings ...                                    *)
LEMMA DoublesExist == \A n \in Nat : \E g : Doubles(g, n)
<1> DEFINE T == {n \in Nat : ~\E g : Doubles(g, n)}
<1>1. SUFFICES ASSUME T # {} PROVE FALSE
  OBVIOUS
<1>2. PICK t \in T : \A m \in T : t <= m
  BY <1>1, LeastExists
<1>3. t # 0
  <2>1. Doubles([i \in 0 .. 0 |-> 1], 0)
    BY DEF Doubles
  <2>2. QED
    BY <2>1
<1>4. t \in Nat /\ t - 1 \in Nat /\ t - 1 \notin T
  BY <1>2, <1>3
<1>5. PICK g : Doubles(g, t - 1)
  BY <1>4
<1>6. g \in [0 .. t - 1 -> Nat] /\ g[0] = 1 /\ \A i \in 1 .. t - 1 : g[i] = 2 * g[i - 1]
  BY <1>5 DEF Doubles
<1> DEFINE h == [i \in 0 .. t |-> IF i < t THEN g[i] ELSE 2 * g[t - 1]]
<1>7. h \in [0 .. t -> Nat]
  BY <1>4, <1>6
<1>8. h[0] = 1 /\ \A i \in 1 .. t : h[i] = 2 * h[i - 1]
  <2>1. h[0] = 1
    BY <1>4, <1>6
  <2>2. ASSUME NEW i \in 1 .. t PROVE h[i] = 2 * h[i - 1]
    <3>1. CASE i < t
      BY <1>4, <1>6, <3>1
    <3>2. CASE i = t
      BY <1>4, <1>6, <3>2
    <3>3. QED
      BY <3>1, <3>2
  <2>3. QED
    BY <2>1, <2>2
<1>9. Doubles(h, t)
  <2> HIDE DEF h
  <2>1. QED
    BY <1>7, <1>8 DEF Doubles
<1>10. QED
  BY <1>2, <1>9

(* ... and only one way to make them, ...                                   *)
LEMMA DoublesAgree ==
  ASSUME NEW n \in Nat, NEW m \in Nat, NEW g, NEW h, Doubles(g, n), Doubles(h, m)
  PROVE  \A i \in Nat : i <= n /\ i <= m => g[i] = h[i]
<1> DEFINE T == {i \in Nat : i <= n /\ i <= m /\ g[i] # h[i]}
<1>1. SUFFICES ASSUME T # {} PROVE FALSE
  OBVIOUS
<1>2. PICK t \in T : \A k \in T : t <= k
  BY <1>1, LeastExists
<1>3. t # 0
  BY DEF Doubles
<1>4. t - 1 \in Nat /\ t - 1 <= n /\ t - 1 <= m /\ t - 1 \notin T
  BY <1>2, <1>3
<1>5. g[t - 1] = h[t - 1]
  BY <1>4
<1>6. g[t] = 2 * g[t - 1] /\ h[t] = 2 * h[t - 1]
  BY <1>2, <1>3 DEF Doubles
<1>7. QED
  BY <1>2, <1>5, <1>6

(* ... so the recursion defines a function.                                 *)
LEMMA DoublesDefine == \E f : f = [n \in Nat |-> IF n = 0 THEN 1 ELSE 2 * f[n - 1]]
<1> DEFINE pick(n) == CHOOSE g : Doubles(g, n)
           f == [n \in Nat |-> pick(n)[n]]
<1>1. \A n \in Nat : Doubles(pick(n), n)
  BY DoublesExist
<1>2. ASSUME NEW n \in Nat PROVE f[n] = IF n = 0 THEN 1 ELSE 2 * f[n - 1]
  <2>1. f[n] = pick(n)[n]
    OBVIOUS
  <2>2. CASE n = 0
    <3>1. Doubles(pick(n), n)
      BY <1>1
    <3> HIDE DEF pick
    <3>2. QED
      BY <2>1, <2>2, <3>1 DEF Doubles
  <2>3. CASE n # 0
    <3>1. n - 1 \in Nat
      BY <2>3
    <3>2. f[n - 1] = pick(n - 1)[n - 1]
      BY <3>1
    <3>3. Doubles(pick(n), n) /\ Doubles(pick(n - 1), n - 1)
      BY <1>1, <3>1
    <3> HIDE DEF pick, f
    <3>4. pick(n)[n - 1] = pick(n - 1)[n - 1]
      BY <3>1, <3>3, DoublesAgree
    <3>5. pick(n)[n] = 2 * pick(n)[n - 1]
      BY <2>3, <3>1, <3>3 DEF Doubles
    <3>6. QED
      BY <2>1, <2>3, <3>2, <3>4, <3>5
  <2>4. QED
    BY <2>2, <2>3
<1> HIDE DEF pick
<1>3. f = [n \in Nat |-> IF n = 0 THEN 1 ELSE 2 * f[n - 1]]
  <2>1. f = [n \in Nat |-> f[n]]
    OBVIOUS
  <2> HIDE DEF f
  <2>2. QED
    BY <1>2, <2>1
<1>4. QED
  BY <1>3

(* What the recursion says of them.                                         *)
LEMMA PowSteps == Pow2[0] = 1 /\ \A n \in Nat : Pow2[n + 1] = 2 * Pow2[n]
<1>1. Pow2 = [n \in Nat |-> IF n = 0 THEN 1 ELSE 2 * Pow2[n - 1]]
  BY DoublesDefine DEF Pow2
<1>2. Pow2[0] = 1
  BY <1>1
<1>3. ASSUME NEW n \in Nat PROVE Pow2[n + 1] = 2 * Pow2[n]
  <2>1. n + 1 \in Nat /\ n + 1 # 0 /\ (n + 1) - 1 = n
    OBVIOUS
  <2>2. Pow2[n + 1] = 2 * Pow2[(n + 1) - 1]
    BY <1>1, <2>1
  <2>3. QED
    BY <2>1, <2>2
<1>4. QED
  BY <1>2, <1>3

LEMMA PowNat == \A n \in Nat : Pow2[n] \in Nat \ {0}
<1> DEFINE T == {n \in Nat : Pow2[n] \notin Nat \ {0}}
<1>1. SUFFICES ASSUME T # {} PROVE FALSE
  OBVIOUS
<1>2. PICK t \in T : \A m \in T : t <= m
  BY <1>1, LeastExists
<1>3. t # 0
  BY PowSteps
<1>4. t - 1 \in Nat /\ t - 1 \notin T
  BY <1>2, <1>3
<1>5. Pow2[t - 1] \in Nat \ {0}
  BY <1>4
<1>6. Pow2[t] = 2 * Pow2[t - 1]
  <2>1. Pow2[(t - 1) + 1] = 2 * Pow2[t - 1]
    BY <1>4, PowSteps
  <2>2. (t - 1) + 1 = t
    BY <1>4
  <2>3. QED
    BY <2>1, <2>2
<1>7. QED
  BY <1>5, <1>6

LEMMA PowSum == \A a, b \in Nat : Pow2[a] * Pow2[b] = Pow2[a + b]
<1> SUFFICES ASSUME NEW a \in Nat PROVE \A b \in Nat : Pow2[a] * Pow2[b] = Pow2[a + b]
  OBVIOUS
<1> DEFINE T == {n \in Nat : Pow2[a] * Pow2[n] # Pow2[a + n]}
<1>1. SUFFICES ASSUME T # {} PROVE FALSE
  OBVIOUS
<1>2. PICK t \in T : \A m \in T : t <= m
  BY <1>1, LeastExists
<1>3. t # 0
  <2>1. Pow2[a] \in Nat /\ Pow2[0] = 1 /\ a + 0 = a
    BY PowSteps, PowNat
  <2>2. QED
    BY <2>1
<1>4. t - 1 \in Nat /\ t - 1 \notin T
  BY <1>2, <1>3
<1>5. Pow2[a] * Pow2[t - 1] = Pow2[a + (t - 1)]
  BY <1>4
<1>6. Pow2[t] = 2 * Pow2[t - 1] /\ Pow2[a + t] = 2 * Pow2[a + (t - 1)]
  <2>1. Pow2[(t - 1) + 1] = 2 * Pow2[t - 1] /\ Pow2[(a + (t - 1)) + 1] = 2 * Pow2[a + (t - 1)]
    BY <1>4, PowSteps
  <2>2. (t - 1) + 1 = t /\ (a + (t - 1)) + 1 = a + t
    BY <1>4
  <2>3. QED
    BY <2>1, <2>2
<1>7. Pow2[a] \in Nat /\ Pow2[t - 1] \in Nat
  BY <1>4, PowNat
<1>8. Pow2[a] * (2 * Pow2[t - 1]) = 2 * (Pow2[a] * Pow2[t - 1])
  <2> DEFINE x == Pow2[a]
             y == Pow2[t - 1]
  <2>1. x \in Nat /\ y \in Nat
    BY <1>7
  <2> HIDE DEF x, y
  <2>2. x * (2 * y) = 2 * (x * y)
    BY <2>1, SMTT(30)
  <2>3. QED
    BY <2>2 DEF x, y
<1>9. QED
  BY <1>2, <1>5, <1>6, <1>8

(* The arithmetic of one bit of the division: H is the weight of the bit     *)
(* among what is left of the size, Q how far that has been moved up.         *)
LEMMA BitOf ==
  ASSUME NEW H \in Nat \ {0}, NEW Q \in Nat \ {0}, NEW low \in Nat, low < 2 * H
  PROVE  LET b == IF low < H THEN 0 ELSE 1
         IN /\ ((low * Q) \div (H * Q)) % 2 = b
            /\ low - b * H \in 0 .. H - 1
            /\ (2 * (low * Q)) % (2 * (H * Q)) = (low - b * H) * (2 * Q)
<1> DEFINE b == IF low < H THEN 0 ELSE 1
           D == H * Q
           x == low * Q
           r == low - b * H
           y == r * Q
<1>1. b \in {0, 1} /\ r \in 0 .. H - 1
  BY SMTT(30)
<1>2. D \in Nat \ {0} /\ x \in Nat
  BY SMTT(30)
<1>3. b * H \in Nat /\ low = b * H + r
  BY <1>1
<1>4. x = D * b + y
  <2>1. CASE b = 0
    <3>1. r = low
      BY <2>1
    <3>2. QED
      BY <1>2, <2>1, <3>1
  <2>2. CASE b = 1
    <3>1. r = low - H
      BY <2>2
    <3>2. (low - H) * Q = low * Q - H * Q
      BY SMTT(30)
    <3>3. QED
      BY <1>2, <2>2, <3>1, <3>2
  <2>3. QED
    BY <1>1, <2>1, <2>2
<1>5. y \in Nat /\ y < D
  <2> HIDE DEF b, r
  <2>1. r \in Nat /\ r < H
    BY <1>1
  <2>2. y \in Nat
    BY <2>1, SMTT(30)
  <2>3. Q * r + Q <= Q * H
    BY <2>1, MultipleApart
  <2>4. Q * r = r * Q /\ Q * H = H * Q
    BY <2>1, SMTT(30)
  <2>5. QED
    BY <1>2, <2>2, <2>3, <2>4
<1>6. r * (2 * Q) = 2 * y
  <2> HIDE DEF b, r
  <2>1. r \in Nat
    BY <1>1
  <2>2. QED
    BY <2>1, SMTT(30)
<1> HIDE DEF r, b, D, x, y
<1>7. D * b <= x /\ x < D * b + D /\ b \in Nat
  <2>1. D * b \in Nat
    BY <1>1, <1>2
  <2>2. QED
    BY <1>1, <1>2, <1>4, <1>5, <2>1
<1>8. x \div D = b
  BY <1>2, <1>7, DivIs
<1>9. b % 2 = b
  BY <1>1
<1>10. (2 * x) % (2 * D) = 2 * y
  <2>1. 2 * D \in Nat \ {0} /\ 2 * y \in 0 .. 2 * D - 1
    BY <1>2, <1>5
  <2>2. 2 * x = (2 * D) * b + 2 * y
    BY <1>1, <1>2, <1>4, <1>5
  <2>3. ((2 * D) * b + 2 * y) % (2 * D) = 2 * y
    BY <1>7, <2>1, ModUnique
  <2>4. QED
    BY <2>2, <2>3
<1>11. QED
  BY <1>1, <1>6, <1>8, <1>9, <1>10 DEF r, b, D, x, y

(* A bit b more of the size in high: quotient and remainder stay those of it. *)
LEMMA QuotientOf ==
  ASSUME NEW M \in Nat \ {0}, NEW quot \in Nat, NEW rem \in 0 .. M - 1, NEW b \in {0, 1}
  PROVE  LET high == quot * M + rem
             shift == 2 * rem + b
             f == IF shift >= M THEN 1 ELSE 0
             left == IF shift >= M THEN shift - M ELSE shift
         IN /\ left \in 0 .. M - 1 /\ 2 * quot + f \in Nat
            /\ 2 * high + b = (2 * quot + f) * M + left
            /\ 2 * quot + f <= 2 * high + b
<1> DEFINE high == quot * M + rem
           shift == 2 * rem + b
           f == IF shift >= M THEN 1 ELSE 0
           left == IF shift >= M THEN shift - M ELSE shift
           q == 2 * quot + f
<1>1. left \in 0 .. M - 1 /\ q \in Nat
  OBVIOUS
<1>2. quot * M \in Nat /\ (2 * quot) * M = 2 * (quot * M) /\ (2 * quot + 1) * M = 2 * (quot * M) + M
  BY SMTT(30)
<1>3. 2 * high + b = q * M + left
  <2>1. CASE shift >= M
    <3>1. q * M = 2 * (quot * M) + M /\ left = shift - M
      BY <1>2, <2>1
    <3>2. QED
      BY <1>2, <3>1
  <2>2. CASE ~(shift >= M)
    <3>1. q * M = 2 * (quot * M) /\ left = shift
      BY <1>2, <2>2
    <3>2. QED
      BY <1>2, <3>1
  <2>3. QED
    BY <2>1, <2>2
<1>4. q <= q * M
  <2> HIDE DEF q
  <2>1. QED
    BY <1>1, SMTT(30)
<1>5. q * M \in Nat /\ 2 * high + b \in Nat
  <2>1. q * M \in Nat
    <3> HIDE DEF q
    <3>1. QED
      BY <1>1, SMTT(30)
  <2>2. high \in Nat
    BY <1>2
  <2> HIDE DEF high
  <2>3. QED
    BY <2>1, <2>2
<1> HIDE DEF q, left, high
<1>6. q <= 2 * high + b
  BY <1>1, <1>3, <1>4, <1>5
<1>7. QED
  BY <1>1, <1>3, <1>6 DEF q, left, high

-----------------------------------------------------------------------------
(* The disc metadata.  The divider has the leading bits of the size divided  *)
(* (high), the others still to come (low).                                  *)
Divided(high, low) ==
  /\ img_size = high * Pow2[div_cnt] + low /\ low < Pow2[div_cnt]
  /\ div_dvd = low * Pow2[SizeBits - div_cnt]
  /\ high = div_quot * SectorLen + div_rem /\ div_rem < SectorLen

DivInv == div_run => div_cnt \in 0 .. SizeBits /\ \E high, low \in Nat : Divided(high, low)

(* Word j of a disc, and the one Main sent last.                             *)
WordAt(d, j) ==
  IF j = 1 THEN [at |-> "count", data |-> Len(d) - 1]
  ELSE IF j = 2 THEN [at |-> "total", data |-> d[Len(d)]]
  ELSE LET t == (j - 1) \div 2
       IN IF j % 2 = 1 THEN [at |-> "start", track |-> t, data |-> d[t]]
          ELSE [at |-> "commit", track |-> t]

WordsIn(d) == {WordAt(d, j) : j \in 1 .. 2 * Len(d)}

Sent == 2 * Len(disc) - Len(to_send)

TocTypes ==
  /\ track_tbl \in [Tracks -> Nat] /\ cdinfo_seen \in BOOLEAN /\ div_run \in BOOLEAN
  /\ {div_dvd, div_quot, div_rem} \subseteq Nat
  /\ img_size \in 0 .. Pow2[SizeBits] - 1
  /\ disc \in {NoDisc} \cup Discs

SendInv ==
  /\ to_send \in Seq(WordsIn(disc)) /\ Len(to_send) <= 2 * Len(disc)
  /\ \A i \in 1 .. Len(to_send) : to_send[i] = WordAt(disc, Sent + i)
  /\ cdinfo_seen <=> Sent > 0

(* What the drive knows by then.                                            *)
Start(t) == IF t = 1 THEN 0 ELSE UserSpace(disc[t])

KnownInv ==
  /\ disc = NoDisc /\ ~div_run => toc_leadout = UserSpace(img_size \div SectorLen)
  /\ Sent >= 2 => toc_leadout = UserSpace(disc[Len(disc)])
  /\ toc_track_count = IF Sent >= 1 THEN Len(disc) - 1 ELSE 1
  /\ Sent >= 3 /\ Sent % 2 = 1 => pend_start = Start((Sent - 1) \div 2)
  /\ track_tbl[1] = 0
  /\ \A t \in Tracks : 2 * t + 2 <= Sent => track_tbl[t] = Start(t)

TocInv == TocTypes /\ DivInv /\ SendInv /\ KnownInv

LEMMA DiscTypes ==
  ASSUME NEW d \in Discs
  PROVE  /\ Len(d) \in 2 .. MaxTracks + 1 /\ d \in Seq(Nat) /\ d[1] = 0 /\ d # NoDisc
         /\ \A i \in 1 .. Len(d) : d[i] \in Nat
<1> DEFINE S == {0} \cup Lbas
<1>0. MaxTracks \in Nat /\ S \subseteq Nat
  BY DiscAssumption
<1>1. PICK n \in 2 .. MaxTracks + 1 : d \in [1 .. n -> S]
  BY DEF Discs
<1> HIDE DEF S
<1>2. d \in [1 .. n -> Nat] /\ n \in Nat
  <2>1. n \in Nat
    BY <1>0
  <2>2. \A i \in 1 .. n : d[i] \in Nat
    BY <1>0, <1>1
  <2>3. QED
    BY <1>1, <2>1, <2>2
<1>3. d \in Seq(Nat) /\ Len(d) = n
  BY <1>2
<1>4. d[1] = 0
  BY DEF Discs
<1>5. d # NoDisc
  BY <1>3 DEF NoDisc
<1>6. QED
  BY <1>2, <1>3, <1>4, <1>5

(* The words of a disc are two for each track and two for the whole.        *)
LEMMA WordsOfDisc ==
  ASSUME NEW d \in Discs
  PROVE  /\ WordsOf(d) \in Seq(WordsIn(d)) /\ Len(WordsOf(d)) = 2 * Len(d)
         /\ \A j \in 1 .. 2 * Len(d) : WordsOf(d)[j] = WordAt(d, j)
<1> DEFINE n == 2 * (Len(d) - 1)
           a == <<[at |-> "count", data |-> Len(d) - 1], [at |-> "total", data |-> d[Len(d)]]>>
           T(i) == LET t == (i + 1) \div 2
                   IN IF i % 2 = 1 THEN [at |-> "start", track |-> t, data |-> d[t]]
                      ELSE [at |-> "commit", track |-> t]
           b == [i \in 1 .. n |-> T(i)]
<1>1. Len(d) \in Nat /\ Len(d) >= 2 /\ d # NoDisc /\ n \in Nat
  BY DiscTypes, DiscAssumption
<1>2. WordsOf(d) = a \o b
  BY <1>1 DEF WordsOf
<1>3. ASSUME NEW i \in 1 .. n PROVE T(i) = WordAt(d, i + 2)
  <2>1. i + 2 # 1 /\ i + 2 # 2 /\ (i + 2) - 1 = i + 1 /\ (i + 2) % 2 = i % 2
    BY <1>1
  <2>2. QED
    BY <2>1 DEF WordAt
<1>4. a[1] = WordAt(d, 1) /\ a[2] = WordAt(d, 2) /\ Len(a) = 2
  BY DEF WordAt
<1>5. a \in Seq(WordsIn(d))
  <2>1. 1 \in 1 .. 2 * Len(d) /\ 2 \in 1 .. 2 * Len(d)
    BY <1>1
  <2>2. a[1] \in WordsIn(d) /\ a[2] \in WordsIn(d)
    <3> HIDE DEF a
    <3>1. QED
      BY <1>4, <2>1 DEF WordsIn
  <2>3. QED
    BY <2>2
<1>6. b \in Seq(WordsIn(d)) /\ Len(b) = n
  <2>1. ASSUME NEW i \in 1 .. n PROVE T(i) \in WordsIn(d)
    <3> HIDE DEF T
    <3>1. i + 2 \in 1 .. 2 * Len(d)
      BY <1>1
    <3>2. QED
      BY <1>3, <3>1 DEF WordsIn
  <2> HIDE DEF T
  <2>2. b \in [1 .. n -> WordsIn(d)]
    BY <2>1
  <2>3. QED
    BY <1>1, <2>2
<1>7. \A i \in 1 .. n : b[i] = WordAt(d, i + 2)
  <2> HIDE DEF T
  <2>1. QED
    BY <1>3
<1> HIDE DEF a, b, T
<1>8. /\ a \o b \in Seq(WordsIn(d)) /\ Len(a \o b) = 2 + n
      /\ \A j \in 1 .. 2 + n : (a \o b)[j] = IF j <= 2 THEN a[j] ELSE b[j - 2]
  <2> DEFINE S == WordsIn(d)
  <2>1. a \in Seq(S) /\ b \in Seq(S)
    BY <1>5, <1>6
  <2> HIDE DEF S
  <2>2. /\ a \o b \in Seq(S) /\ Len(a \o b) = Len(a) + Len(b)
        /\ \A i \in 1 .. Len(a) + Len(b) : (a \o b)[i] = IF i <= Len(a) THEN a[i] ELSE b[i - Len(a)]
    BY <2>1, ConcatProperties
  <2>3. Len(a) = 2 /\ Len(b) = n
    BY <1>4, <1>6
  <2>4. QED
    BY <2>2, <2>3 DEF S
<1>9. ASSUME NEW j \in 1 .. 2 * Len(d) PROVE (a \o b)[j] = WordAt(d, j)
  <2>0. j \in 1 .. 2 + n
    BY <1>1
  <2>1. CASE j <= 2
    <3>1. j = 1 \/ j = 2
      BY <2>1
    <3>2. (a \o b)[j] = a[j]
      BY <1>8, <2>0, <2>1
    <3>3. QED
      BY <1>4, <3>1, <3>2
  <2>2. CASE ~(j <= 2)
    <3>1. (a \o b)[j] = b[j - 2]
      BY <1>8, <2>0, <2>2
    <3>2. j - 2 \in 1 .. n /\ (j - 2) + 2 = j
      BY <1>1, <2>2
    <3>3. b[j - 2] = WordAt(d, (j - 2) + 2)
      BY <1>7, <3>2
    <3>4. QED
      BY <3>1, <3>2, <3>3
  <2>3. QED
    BY <2>1, <2>2
<1>10. QED
  BY <1>1, <1>2, <1>8, <1>9

(* The next bit of the size into the remainder.                             *)
LEMMA NextBit ==
  ASSUME TocTypes, DivInv, div_run, div_cnt > 0, Divide, img_size' = img_size
  PROVE  /\ div_cnt' \in 0 .. SizeBits /\ \E high, low \in Nat : Divided(high, low)'
         /\ {div_dvd', div_quot', div_rem'} \subseteq Nat
<1>0. SizeBits \in Nat /\ SectorLen \in Nat \ {0}
  BY DiscAssumption
<1>1. PICK high \in Nat, low \in Nat : Divided(high, low)
  BY DEF DivInv
<1>2. div_cnt \in 0 .. SizeBits
  BY DEF DivInv
<1> DEFINE H == Pow2[div_cnt - 1]
           Q == Pow2[SizeBits - div_cnt]
           W == Pow2[SizeBits]
           b == IF low < H THEN 0 ELSE 1
           shift == 2 * div_rem + b
           f == IF shift >= SectorLen THEN 1 ELSE 0
           left == IF shift >= SectorLen THEN shift - SectorLen ELSE shift
           quot == 2 * div_quot + f
           r == low - b * H
<1>3. H \in Nat \ {0} /\ Q \in Nat \ {0} /\ W \in Nat \ {0}
  <2>1. div_cnt - 1 \in Nat /\ SizeBits - div_cnt \in Nat
    BY <1>0, <1>2
  <2>2. QED
    BY <1>0, <2>1, PowNat
<1>4. Pow2[div_cnt] = 2 * H /\ Pow2[SizeBits - div_cnt'] = 2 * Q /\ Pow2[div_cnt'] = H
  <2>1. div_cnt - 1 \in Nat /\ SizeBits - div_cnt \in Nat /\ (div_cnt - 1) + 1 = div_cnt
    BY <1>0, <1>2
  <2>2. div_cnt' = div_cnt - 1
    BY DEF Divide
  <2>3. SizeBits - div_cnt' = (SizeBits - div_cnt) + 1
    BY <1>0, <1>2, <2>2
  <2>4. Pow2[(div_cnt - 1) + 1] = 2 * H /\ Pow2[(SizeBits - div_cnt) + 1] = 2 * Q
    BY <2>1, PowSteps
  <2>5. QED
    BY <2>1, <2>2, <2>3, <2>4
<1>5. Pow2[SizeBits - 1] = H * Q /\ W = 2 * (H * Q)
  <2>1. div_cnt - 1 \in Nat /\ SizeBits - div_cnt \in Nat /\ SizeBits - 1 \in Nat
    BY <1>0, <1>2
  <2>2. H * Q = Pow2[(div_cnt - 1) + (SizeBits - div_cnt)]
    BY <2>1, PowSum
  <2>3. (div_cnt - 1) + (SizeBits - div_cnt) = SizeBits - 1 /\ (SizeBits - 1) + 1 = SizeBits
    BY <1>0, <1>2
  <2>4. Pow2[(SizeBits - 1) + 1] = 2 * Pow2[SizeBits - 1]
    BY <2>1, PowSteps
  <2>5. QED
    BY <2>2, <2>3, <2>4
<1>6. /\ img_size = high * (2 * H) + low /\ low < 2 * H /\ div_dvd = low * Q
      /\ high = div_quot * SectorLen + div_rem
  BY <1>1, <1>4 DEF Divided
<1>7. div_quot \in Nat /\ div_rem \in 0 .. SectorLen - 1 /\ b \in {0, 1}
  BY <1>0, <1>1 DEF Divided, TocTypes
<1>8. /\ ((low * Q) \div (H * Q)) % 2 = b
      /\ r \in 0 .. H - 1
      /\ (2 * (low * Q)) % (2 * (H * Q)) = r * (2 * Q)
  <2> HIDE DEF H, Q
  <2>1. QED
    BY <1>3, <1>6, BitOf
<1>9. Bit(div_dvd, SizeBits - 1) = b
  <2> HIDE DEF H, Q, b
  <2>1. QED
    BY <1>5, <1>6, <1>8 DEF Bit
<1>10. /\ left \in 0 .. SectorLen - 1 /\ quot \in Nat
       /\ 2 * high + b = quot * SectorLen + left /\ quot <= 2 * high + b
  <2> HIDE DEF b
  <2>1. QED
    BY <1>0, <1>6, <1>7, QuotientOf
<1> HIDE DEF b, H, Q, W
<1>11. img_size = (2 * high + b) * H + r
  <2>1. r = low - b * H /\ b * H \in Nat
    BY <1>3, <1>7
  <2>2. (2 * high + b) * H = high * (2 * H) + b * H
    BY <1>3, <1>7, SMTT(30)
  <2>3. high * (2 * H) \in Nat
    BY <1>3, SMTT(30)
  <2> HIDE DEF r
  <2>4. r \in Int
    BY <1>8
  <2>5. QED
    BY <1>6, <2>1, <2>2, <2>3, <2>4
<1> DEFINE top == 2 * high + b
<1>12. top \in Nat
  BY <1>7
<1> HIDE DEF top, r, quot, left
<1>13. quot < W
  <2>1. top <= top * H /\ top * H \in Nat
    BY <1>3, <1>12, SMTT(30)
  <2>2. img_size = top * H + r /\ r \in 0 .. H - 1 /\ quot <= top
    BY <1>8, <1>10, <1>11 DEF top
  <2>3. img_size \in Nat /\ img_size < W
    BY <1>3 DEF TocTypes, W
  <2>4. QED
    BY <1>3, <1>10, <1>12, <2>1, <2>2, <2>3
<1>14. div_rem' = left
  BY <1>9 DEF Divide, left
<1>15. div_quot' = quot
  <2>1. div_quot' = quot % W
    BY <1>9 DEF Divide, quot, W
  <2>2. quot \in 0 .. W - 1 /\ quot = W * 0 + quot /\ 0 \in Nat
    BY <1>3, <1>10, <1>13
  <2>3. quot % W = quot
    BY <1>3, <2>2, ModUnique
  <2>4. QED
    BY <2>1, <2>3
<1>16. div_dvd' = r * (2 * Q)
  <2>1. div_dvd' = (2 * div_dvd) % W
    BY DEF Divide, W
  <2>2. QED
    BY <1>5, <1>6, <1>8, <2>1
<1>17. r \in Nat
  BY <1>3, <1>8
<1>18. PICK t \in Nat, s \in Nat : t = top /\ s = r
  BY <1>12, <1>17
<1>19. Divided(t, s)'
  <2>1. img_size' = t * H + s /\ s < H
    BY <1>3, <1>8, <1>11, <1>18 DEF top
  <2>2. t = quot * SectorLen + left /\ left < SectorLen
    BY <1>0, <1>10, <1>18 DEF top
  <2>3. div_dvd' = s * (2 * Q)
    BY <1>16, <1>18
  <2>4. QED
    BY <1>4, <1>14, <1>15, <2>1, <2>2, <2>3 DEF Divided
<1>20. div_cnt' \in 0 .. SizeBits
  BY <1>0, <1>2 DEF Divide
<1>21. r * (2 * Q) \in Nat
  BY <1>3, <1>17, SMTT(30)
<1>22. {div_dvd', div_quot', div_rem'} \subseteq Nat
  BY <1>0, <1>10, <1>14, <1>15, <1>16, <1>21
<1>23. \E h, l \in Nat : Divided(h, l)'
  BY <1>19
<1>24. QED
  BY <1>20, <1>22, <1>23

(* A clock of the divider.                                                  *)
LEMMA DividerStep ==
  ASSUME TocTypes, DivInv, Divider, img_size' = img_size
  PROVE  DivInv' /\ {div_dvd', div_quot', div_rem'} \subseteq Nat /\ div_run' \in BOOLEAN
<1>1. CASE div_run /\ div_cnt > 0 /\ Divide /\ UNCHANGED div_run
  <2>1. /\ div_cnt' \in 0 .. SizeBits /\ \E high, low \in Nat : Divided(high, low)'
        /\ {div_dvd', div_quot', div_rem'} \subseteq Nat
    BY <1>1, NextBit
  <2>2. DivInv'
    BY <2>1 DEF DivInv
  <2>3. div_run' \in BOOLEAN
    BY <1>1 DEF TocTypes
  <2>4. QED
    BY <2>1, <2>2, <2>3
<1>2. CASE div_run /\ div_cnt = 0 /\ div_run' = FALSE /\ DivClears
  <2>1. DivInv' /\ div_run' \in BOOLEAN
    BY <1>2, Zenon DEF DivInv
  <2>2. {div_dvd', div_quot', div_rem'} \subseteq Nat
    BY <1>2 DEF DivClears
  <2>3. QED
    BY <2>1, <2>2
<1>3. CASE ~div_run /\ UNCHANGED <<div_run, div_cnt, div_dvd, div_quot, div_rem>>
  BY <1>3 DEF DivInv, TocTypes
<1>4. QED
  BY <1>1, <1>2, <1>3 DEF Divider

(* All of the size divided.                                                 *)
LEMMA DivisionIs ==
  ASSUME TocTypes, DivInv, div_run, div_cnt = 0
  PROVE  div_quot = img_size \div SectorLen
<1>0. SectorLen \in Nat \ {0}
  BY DiscAssumption
<1>1. PICK high \in Nat, low \in Nat : Divided(high, low)
  BY DEF DivInv
<1>2. Pow2[div_cnt] = 1
  BY PowSteps
<1>3. low = 0 /\ img_size = high /\ high = div_quot * SectorLen + div_rem
  <2>1. low < 1 /\ img_size = high * 1 + low
    BY <1>1, <1>2 DEF Divided
  <2>2. QED
    BY <1>1, <2>1 DEF Divided
<1>4. div_quot \in Nat /\ div_rem \in 0 .. SectorLen - 1
  BY <1>0, <1>1 DEF Divided, TocTypes
<1>5. div_quot * SectorLen \in Nat /\ div_quot * SectorLen = SectorLen * div_quot
  BY <1>0, <1>4, SMTT(30)
<1>6. SectorLen * div_quot <= img_size /\ img_size < SectorLen * div_quot + SectorLen
  BY <1>0, <1>3, <1>4, <1>5
<1>7. img_size \in Nat
  BY <1>3
<1>8. QED
  BY <1>0, <1>4, <1>6, <1>7, DivIs

(* What a track's word says, by the number of the words sent before it.      *)
LEMMA WordShapes ==
  ASSUME NEW d, NEW j \in Nat \ {0}
  PROVE  /\ j = 1 => WordAt(d, j) = [at |-> "count", data |-> Len(d) - 1]
         /\ j = 2 => WordAt(d, j) = [at |-> "total", data |-> d[Len(d)]]
         /\ \A t \in Nat \ {0} : j = 2 * t + 1 => WordAt(d, j) = [at |-> "start", track |-> t, data |-> d[t]]
         /\ \A t \in Nat \ {0} : j = 2 * t + 2 => WordAt(d, j) = [at |-> "commit", track |-> t]
         /\ j > 2 => \E t \in Nat \ {0} : j = 2 * t + 1 \/ j = 2 * t + 2
<1>1. j = 1 => WordAt(d, j) = [at |-> "count", data |-> Len(d) - 1]
  BY DEF WordAt
<1>2. j = 2 => WordAt(d, j) = [at |-> "total", data |-> d[Len(d)]]
  BY DEF WordAt
<1>3. ASSUME NEW t \in Nat \ {0}, j = 2 * t + 1
      PROVE  WordAt(d, j) = [at |-> "start", track |-> t, data |-> d[t]]
  <2>1. j # 1 /\ j # 2 /\ j % 2 = 1 /\ (j - 1) \div 2 = t
    BY <1>3
  <2>2. QED
    BY <2>1 DEF WordAt
<1>4. ASSUME NEW t \in Nat \ {0}, j = 2 * t + 2
      PROVE  WordAt(d, j) = [at |-> "commit", track |-> t]
  <2>1. j # 1 /\ j # 2 /\ j % 2 # 1 /\ (j - 1) \div 2 = t
    BY <1>4
  <2>2. QED
    BY <2>1 DEF WordAt
<1>5. ASSUME j > 2 PROVE \E t \in Nat \ {0} : j = 2 * t + 1 \/ j = 2 * t + 2
  <2>1. (j - 1) \div 2 \in Nat \ {0} /\ (j = 2 * ((j - 1) \div 2) + 1 \/ j = 2 * ((j - 1) \div 2) + 2)
    BY <1>5
  <2>2. QED
    BY <2>1
<1>6. QED
  BY <1>1, <1>2, <1>3, <1>4, <1>5

(* The next word to send is the one after those sent.                       *)
LEMMA NextWord ==
  ASSUME TocTypes, SendInv, to_send # <<>>, to_send' = Tail(to_send), disc' = disc, cdinfo_seen' = TRUE
  PROVE  /\ disc \in Discs /\ Sent \in Nat /\ Sent' = Sent + 1 /\ Sent' <= 2 * Len(disc)
         /\ Head(to_send) = WordAt(disc, Sent + 1) /\ SendInv'
<1>1. to_send \in Seq(WordsIn(disc)) /\ Len(to_send) \in Nat /\ Len(to_send) > 0
  BY DEF SendInv
<1>2. disc \in Discs
  <2>1. ASSUME disc = NoDisc PROVE FALSE
    <3>1. Len(disc) = 0
      BY <2>1 DEF NoDisc
    <3>2. Len(to_send) <= 0
      BY <3>1 DEF SendInv
    <3>3. QED
      BY <1>1, <3>2
  <2>2. QED
    BY <2>1 DEF TocTypes
<1>3. Len(disc) \in Nat
  BY <1>2, DiscTypes, DiscAssumption
<1>4. /\ Tail(to_send) \in Seq(WordsIn(disc)) /\ Len(Tail(to_send)) = Len(to_send) - 1
      /\ \A i \in 1 .. Len(Tail(to_send)) : Tail(to_send)[i] = to_send[i + 1]
  BY <1>1, HeadTailProperties
<1>5. Sent \in Nat /\ Sent' = Sent + 1 /\ Sent' <= 2 * Len(disc)
  BY <1>1, <1>3, <1>4 DEF Sent, SendInv
<1>6. Head(to_send) = WordAt(disc, Sent + 1)
  <2>1. Head(to_send) = to_send[1]
    BY <1>1
  <2>2. 1 \in 1 .. Len(to_send)
    BY <1>1
  <2>3. QED
    BY <2>1, <2>2 DEF SendInv
<1>7. SendInv'
  <2>1. to_send' \in Seq(WordsIn(disc')) /\ Len(to_send') <= 2 * Len(disc')
    BY <1>1, <1>3, <1>4 DEF SendInv
  <2>2. ASSUME NEW i \in 1 .. Len(to_send') PROVE to_send'[i] = WordAt(disc', Sent' + i)
    <3>1. i + 1 \in 1 .. Len(to_send) /\ Sent' + i = Sent + (i + 1)
      BY <1>1, <1>4, <1>5
    <3>2. to_send'[i] = to_send[i + 1]
      BY <1>4
    <3>3. to_send[i + 1] = WordAt(disc, Sent + (i + 1))
      BY <3>1 DEF SendInv
    <3>4. QED
      BY <3>1, <3>2, <3>3
  <2>3. Sent' > 0
    BY <1>5
  <2>4. cdinfo_seen' <=> Sent' > 0
    BY <2>3
  <2>5. QED
    BY <2>1, <2>2, <2>4 DEF SendInv
<1>8. QED
  BY <1>2, <1>5, <1>6, <1>7

LEMMA UserSpaceNat == \A n \in Nat : UserSpace(n) \in Nat
BY DiscAssumption DEF UserSpace

LEMMA NothingToSend ==
  /\ WordsOf(NoDisc) = <<>> /\ Len(NoDisc) = 0 /\ NoDisc \in Seq(WordsIn(NoDisc))
  /\ \A d \in Discs : d # NoDisc
<1>1. \A d \in Discs : d # NoDisc
  BY DiscTypes
<1>2. QED
  BY <1>1 DEF WordsOf, NoDisc

(* A word of Main's: what the drive knows of the disc's words grows by it.   *)
LEMMA WordStepOfDisc ==
  ASSUME TocTypes, SendInv, KnownInv, TiWrite
  PROVE  KnownInv' /\ track_tbl' \in [Tracks -> Nat] /\ SendInv'
<1> DEFINE w == Head(to_send)
           j == Sent + 1
<1>1. /\ to_send # <<>> /\ to_send' = Tail(to_send) /\ cdinfo_seen' = TRUE
      /\ disc' = disc /\ img_size' = img_size
  BY DEF TiWrite
<1>2. /\ disc \in Discs /\ Sent \in Nat /\ Sent' = j /\ j <= 2 * Len(disc)
      /\ w = WordAt(disc, j) /\ SendInv'
  BY <1>1, NextWord
<1>3. /\ toc_track_count' = IF w.at = "count" /\ w.data # 0 THEN w.data ELSE toc_track_count
      /\ toc_leadout' = IF w.at = "total" THEN UserSpace(w.data) ELSE DividerLeadout
      /\ pend_start' = IF w.at # "start" THEN pend_start
                       ELSE IF w.track = 1 THEN w.data ELSE UserSpace(w.data)
      /\ track_tbl' = IF w.at = "commit" THEN [track_tbl EXCEPT ![w.track] = pend_start]
                      ELSE track_tbl
  BY DEF TiWrite
<1> HIDE DEF w
<1>4. /\ Len(disc) \in Nat /\ Len(disc) >= 2 /\ Len(disc) - 1 <= MaxTracks /\ disc # NoDisc
      /\ disc[1] = 0 /\ \A i \in 1 .. Len(disc) : disc[i] \in Nat
  BY <1>2, DiscTypes, DiscAssumption
<1>5. /\ j = 1 => w.at = "count" /\ w.data = Len(disc) - 1
      /\ j = 2 => w.at = "total" /\ w.data = disc[Len(disc)]
      /\ \A t \in Nat \ {0} : j = 2 * t + 1 => w.at = "start" /\ w.track = t /\ w.data = disc[t]
      /\ \A t \in Nat \ {0} : j = 2 * t + 2 => w.at = "commit" /\ w.track = t
      /\ j > 2 => \E t \in Nat \ {0} : j = 2 * t + 1 \/ j = 2 * t + 2
  <2>1. j \in Nat \ {0}
    BY <1>2
  <2> HIDE DEF j
  <2>2. /\ j = 1 => w = [at |-> "count", data |-> Len(disc) - 1]
        /\ j = 2 => w = [at |-> "total", data |-> disc[Len(disc)]]
        /\ \A t \in Nat \ {0} : j = 2 * t + 1 => w = [at |-> "start", track |-> t, data |-> disc[t]]
        /\ \A t \in Nat \ {0} : j = 2 * t + 2 => w = [at |-> "commit", track |-> t]
        /\ j > 2 => \E t \in Nat \ {0} : j = 2 * t + 1 \/ j = 2 * t + 2
    BY <1>2, <2>1, WordShapes
  <2>3. ASSUME NEW t \in Nat \ {0}, j = 2 * t + 1
        PROVE  w.at = "start" /\ w.track = t /\ w.data = disc[t]
    <3>1. w = [at |-> "start", track |-> t, data |-> disc[t]]
      BY <2>2, <2>3
    <3>2. QED
      BY <3>1
  <2>4. ASSUME NEW t \in Nat \ {0}, j = 2 * t + 2 PROVE w.at = "commit" /\ w.track = t
    <3>1. w = [at |-> "commit", track |-> t]
      BY <2>2, <2>4
    <3>2. QED
      BY <3>1
  <2>5. QED
    BY <2>2, <2>3, <2>4
<1>18. ASSUME j > 2 PROVE w.at \in {"start", "commit"}
  <2>1. PICK t \in Nat \ {0} : j = 2 * t + 1 \/ j = 2 * t + 2
    BY <1>5, <1>18
  <2>2. QED
    BY <1>5, <2>1
<1>19. j = Sent + 1 /\ j \in Nat \ {0}
  BY <1>2
<1> HIDE DEF j
<1>7. j >= 2 => toc_leadout' = UserSpace(disc[Len(disc)])
  <2>1. CASE j = 2
    BY <1>3, <1>5, <2>1
  <2>2. CASE j > 2
    <3>1. w.at # "total"
      BY <1>18, <2>2
    <3>2. cdinfo_seen /\ toc_leadout = UserSpace(disc[Len(disc)])
      <4>1. Sent > 0 /\ Sent >= 2
        BY <1>2, <1>19, <2>2
      <4>2. QED
        BY <4>1 DEF SendInv, KnownInv
    <3>3. DividerLeadout = toc_leadout
      BY <3>2 DEF DividerLeadout, Takes
    <3>4. QED
      BY <1>3, <3>1, <3>2, <3>3
  <2>3. QED
    BY <1>2, <1>19, <2>1, <2>2
<1>8. toc_track_count' = Len(disc) - 1
  <2>1. CASE j = 1
    BY <1>3, <1>4, <1>5, <2>1
  <2>2. CASE j > 1
    <3>1. w.at # "count"
      <4>1. j = 2 \/ j > 2
        BY <1>2, <1>19, <2>2
      <4>2. QED
        BY <1>5, <1>18, <4>1
    <3>2. toc_track_count = Len(disc) - 1
      <4>1. Sent >= 1
        BY <1>2, <1>19, <2>2
      <4>2. QED
        BY <4>1 DEF KnownInv
    <3>3. QED
      BY <1>3, <3>1, <3>2
  <2>3. QED
    BY <1>2, <1>19, <2>1, <2>2
<1>9. ASSUME NEW t \in Nat \ {0}, j = 2 * t + 1 PROVE pend_start' = Start(t)
  <2>0. w.at = "start" /\ w.track = t /\ w.data = disc[t]
    BY <1>5, <1>9
  <2>1. pend_start' = IF t = 1 THEN disc[t] ELSE UserSpace(disc[t])
    BY <1>3, <2>0
  <2>2. QED
    BY <1>4, <2>1 DEF Start
<1>10. ASSUME NEW t \in Nat \ {0}, j = 2 * t + 2
       PROVE  track_tbl' = [track_tbl EXCEPT ![t] = Start(t)] /\ t \in Tracks /\ Start(t) \in Nat
  <2>1. Sent >= 3 /\ Sent % 2 = 1 /\ (Sent - 1) \div 2 = t
    BY <1>2, <1>19, <1>10
  <2>2. pend_start = Start(t)
    BY <2>1 DEF KnownInv
  <2>3. track_tbl' = [track_tbl EXCEPT ![t] = pend_start]
    <3>1. w.at = "commit" /\ w.track = t
      BY <1>5, <1>10
    <3>2. QED
      BY <1>3, <3>1
  <2>4. t \in Tracks /\ t \in 1 .. Len(disc)
    BY <1>2, <1>19, <1>4, <1>10, DiscAssumption DEF Tracks
  <2>5. Start(t) \in Nat
    BY <1>4, <2>4, UserSpaceNat DEF Start
  <2>6. QED
    BY <2>2, <2>3, <2>4, <2>5
<1>11. ASSUME \A t \in Nat \ {0} : j # 2 * t + 2 PROVE track_tbl' = track_tbl
  <2>1. w.at # "commit"
    <3>1. CASE j = 1
      BY <1>5, <3>1
    <3>2. CASE j = 2
      BY <1>5, <3>2
    <3>3. CASE j > 2
      <4>1. PICK t \in Nat \ {0} : j = 2 * t + 1
        BY <1>5, <1>11, <3>3
      <4>2. w.at = "start"
        BY <1>5, <4>1
      <4>3. QED
        BY <4>2
    <3>4. QED
      BY <1>19, <3>1, <3>2, <3>3
  <2>2. QED
    BY <1>3, <2>1
<1>12. track_tbl \in [Tracks -> Nat] /\ track_tbl[1] = 0 /\ 1 \in Tracks
  BY DiscAssumption DEF TocTypes, KnownInv, Tracks
<1>13. track_tbl' \in [Tracks -> Nat]
  <2>1. CASE \E t \in Nat \ {0} : j = 2 * t + 2
    BY <1>10, <1>12, <2>1
  <2>2. CASE \A t \in Nat \ {0} : j # 2 * t + 2
    BY <1>11, <1>12, <2>2
  <2>3. QED
    BY <2>1, <2>2
<1>14. track_tbl'[1] = 0
  <2>1. ASSUME NEW t \in Nat \ {0}, j = 2 * t + 2 PROVE track_tbl'[1] = 0
    <3>1. CASE t = 1
      BY <1>10, <1>12, <2>1, <3>1 DEF Start
    <3>2. CASE t # 1
      BY <1>10, <1>12, <2>1, <3>2
    <3>3. QED
      BY <3>1, <3>2
  <2>2. CASE \A t \in Nat \ {0} : j # 2 * t + 2
    BY <1>11, <1>12, <2>2
  <2>3. QED
    BY <2>1, <2>2
<1>15. ASSUME NEW u \in Tracks, 2 * u + 2 <= j PROVE track_tbl'[u] = Start(u)
  <2>0. u \in Nat \ {0}
    BY DiscAssumption DEF Tracks
  <2>1. CASE j = 2 * u + 2
    BY <1>10, <1>12, <2>0, <2>1
  <2>2. CASE j # 2 * u + 2
    <3>1. track_tbl[u] = Start(u)
      <4>1. 2 * u + 2 <= Sent
        BY <1>2, <1>19, <1>15, <2>0, <2>2
      <4>2. QED
        BY <4>1 DEF KnownInv
    <3>2. ASSUME NEW t \in Nat \ {0}, j = 2 * t + 2 PROVE track_tbl'[u] = track_tbl[u]
      <4>1. t # u
        BY <2>2, <3>2
      <4>2. QED
        BY <1>10, <1>12, <3>2, <4>1
    <3>3. QED
      BY <1>11, <3>1, <3>2
  <2>3. QED
    BY <2>1, <2>2
<1>16. KnownInv'
  <2>1. ~(disc' = NoDisc)
    BY <1>1, <1>4
  <2>2. Sent' >= 2 => toc_leadout' = UserSpace(disc'[Len(disc')])
    BY <1>1, <1>2, <1>19, <1>7
  <2>3. toc_track_count' = IF Sent' >= 1 THEN Len(disc') - 1 ELSE 1
    <3>1. Sent' >= 1
      BY <1>2, <1>19
    <3>2. QED
      BY <1>1, <1>8, <3>1
  <2>4. Sent' >= 3 /\ Sent' % 2 = 1 => pend_start' = Start((Sent - 1) \div 2)'
    <3>1. SUFFICES ASSUME j >= 3, j % 2 = 1 PROVE pend_start' = Start((Sent - 1) \div 2)'
      BY <1>2, <1>19
    <3>2. PICK t \in Nat \ {0} : t = (j - 1) \div 2 /\ j = 2 * t + 1
      BY <1>2, <1>19, <3>1
    <3>3. pend_start' = Start(t)
      BY <1>9, <3>2
    <3>4. Start((Sent - 1) \div 2)' = Start(t)
      BY <1>1, <1>2, <1>19, <3>2 DEF Start
    <3>5. QED
      BY <3>3, <3>4
  <2>5. ASSUME NEW u \in Tracks, 2 * u + 2 <= Sent' PROVE track_tbl'[u] = Start(u)'
    <3>1. Start(u)' = Start(u)
      BY <1>1 DEF Start
    <3>2. QED
      BY <1>2, <1>15, <2>5, <3>1
  <2>6. QED
    BY <1>14, <2>1, <2>2, <2>3, <2>4, <2>5 DEF KnownInv
<1>17. QED
  BY <1>2, <1>13, <1>16

(* A mount: nothing of the disc before it is known any more.                *)
LEMMA MountStep ==
  ASSUME TocTypes, ImgMounted
  PROVE  TocInv'
<1>1. img_size' \in 0 .. Pow2[SizeBits] - 1 /\ disc' \in {NoDisc} \cup Discs
  BY DEF ImgMounted
<1>2. to_send' \in Seq(WordsIn(disc')) /\ Len(to_send') = 2 * Len(disc') /\ Len(disc') \in Nat
      /\ \A i \in 1 .. Len(to_send') : to_send'[i] = WordAt(disc', i)
  <2>1. to_send' = WordsOf(disc')
    BY DEF ImgMounted
  <2>2. CASE disc' = NoDisc
    <3>1. to_send' = <<>> /\ Len(disc') = 0 /\ <<>> \in Seq(WordsIn(disc'))
      BY <2>1, <2>2, NothingToSend DEF NoDisc
    <3>2. QED
      BY <3>1
  <2>3. CASE disc' \in Discs
    BY <2>1, <2>3, WordsOfDisc, DiscTypes, DiscAssumption
  <2>4. QED
    BY <1>1, <2>2, <2>3
<1>3. Sent' = 0
  BY <1>2 DEF Sent
<1>4. cdinfo_seen' = FALSE /\ toc_track_count' = 1 /\ track_tbl' = [track_tbl EXCEPT ![1] = 0]
  BY DEF ImgMounted
<1>5. SendInv'
  <2>1. \A i \in 1 .. Len(to_send') : to_send'[i] = WordAt(disc', Sent' + i)
    BY <1>2, <1>3
  <2>2. Len(to_send') <= 2 * Len(disc')
    BY <1>2
  <2>3. cdinfo_seen' <=> Sent' > 0
    BY <1>3, <1>4
  <2>4. QED
    BY <1>2, <2>1, <2>2, <2>3 DEF SendInv
<1>6. DivInv' /\ div_run' \in BOOLEAN /\ {div_dvd', div_quot', div_rem'} \subseteq Nat
      /\ ((~div_run') => img_size' = 0 /\ toc_leadout' = 0)
  <2>0. SizeBits \in Nat /\ SectorLen \in Nat \ {0} /\ SizeBits - SizeBits = 0
    BY DiscAssumption
  <2>1. CASE img_size' = 0
    <3>1. toc_leadout' = 0 /\ div_run' = FALSE /\ DivClears
      BY <2>1 DEF ImgMounted
    <3>2. DivInv' /\ div_run' \in BOOLEAN
      BY <3>1, Zenon DEF DivInv
    <3>3. {div_dvd', div_quot', div_rem'} \subseteq Nat
      BY <3>1 DEF DivClears
    <3>4. QED
      BY <2>1, <3>1, <3>2, <3>3
  <2>2. CASE img_size' # 0
    <3>1. /\ div_dvd' = img_size' /\ div_quot' = 0 /\ div_rem' = 0
          /\ div_cnt' = SizeBits /\ div_run' = TRUE
      BY <2>2 DEF ImgMounted
    <3>2. PICK s \in Nat : s = img_size' /\ s < Pow2[SizeBits]
      <4>1. Pow2[SizeBits] \in Nat
        BY <2>0, PowNat
      <4>2. QED
        BY <1>1, <4>1
    <3>3. Divided(0, s)'
      <4>1. Pow2[SizeBits] \in Nat /\ Pow2[SizeBits - SizeBits] = 1
        BY <2>0, PowSteps, PowNat
      <4>2. s = 0 * Pow2[SizeBits] + s /\ s = s * 1 /\ 0 = 0 * SectorLen + 0 /\ 0 < SectorLen
        BY <2>0, <4>1
      <4>3. QED
        BY <3>1, <3>2, <4>1, <4>2 DEF Divided
    <3>4. \E high, low \in Nat : Divided(high, low)'
      BY <3>3
    <3>5. DivInv'
      <4>1. div_cnt' \in 0 .. SizeBits
        BY <2>0, <3>1
      <4>2. QED
        BY <3>4, <4>1 DEF DivInv
    <3>6. QED
      BY <3>1, <3>2, <3>5
  <2>3. QED
    BY <2>1, <2>2
<1>7. 1 \in Tracks /\ track_tbl' \in [Tracks -> Nat] /\ track_tbl'[1] = 0
  <2>1. 1 \in Tracks
    BY DiscAssumption DEF Tracks
  <2>2. QED
    BY <1>4, <2>1 DEF TocTypes
<1>8. TocTypes'
  BY <1>1, <1>4, <1>6, <1>7 DEF TocTypes
<1>9. KnownInv'
  <2>1. disc' = NoDisc /\ ~div_run' => toc_leadout' = UserSpace(img_size' \div SectorLen)
    <3>1. 0 \div SectorLen = 0 /\ UserSpace(0) = 0
      <4>1. SectorLen \in Nat \ {0} /\ PREGAP_LBA \in Nat
        BY DiscAssumption
      <4>2. 0 \div SectorLen = 0
        BY <4>1, DivIs
      <4>3. UserSpace(0) = 0
        BY <4>1 DEF UserSpace
      <4>4. QED
        BY <4>2, <4>3
    <3>2. QED
      BY <1>6, <3>1
  <2>2. toc_track_count' = IF Sent' >= 1 THEN Len(disc') - 1 ELSE 1
    BY <1>3, <1>4
  <2>3. ~(Sent' >= 2) /\ ~(Sent' >= 3)
    BY <1>3
  <2>4. \A t \in Tracks : ~(2 * t + 2 <= Sent')
    BY <1>3, DiscAssumption DEF Tracks
  <2>5. QED
    BY <1>7, <2>1, <2>2, <2>3, <2>4 DEF KnownInv
<1>10. QED
  BY <1>5, <1>6, <1>8, <1>9 DEF TocInv

(* A clock of the divider alone.                                            *)
LEMMA TickStep ==
  ASSUME TocInv, Tick
  PROVE  TocInv'
<1>1. /\ div_run /\ Divider /\ toc_leadout' = DividerLeadout
      /\ UNCHANGED <<toc_track_count, track_tbl, pend_start, cdinfo_seen, img_size, disc, to_send>>
  BY DEF Tick
<1>2. TocTypes /\ DivInv /\ SendInv /\ KnownInv
  BY DEF TocInv
<1>3. DivInv' /\ {div_dvd', div_quot', div_rem'} \subseteq Nat /\ div_run' \in BOOLEAN
  BY <1>1, <1>2, DividerStep
<1>4. Sent' = Sent
  BY <1>1 DEF Sent
<1>5. SendInv'
  BY <1>1, <1>2, <1>4 DEF SendInv
<1>6. TocTypes'
  BY <1>1, <1>2, <1>3 DEF TocTypes
<1>7. disc = NoDisc /\ ~div_run' => toc_leadout' = UserSpace(img_size \div SectorLen)
  <2> SUFFICES ASSUME disc = NoDisc, ~div_run'
               PROVE  toc_leadout' = UserSpace(img_size \div SectorLen)
    OBVIOUS
  <2>1. div_cnt = 0
    BY <1>1 DEF Divider
  <2>2. ~(Sent > 0)
    <3>1. Len(disc) = 0 /\ Len(to_send) \in Nat
      BY <1>2, NothingToSend DEF SendInv
    <3>2. QED
      BY <3>1 DEF Sent
  <2>3. ~cdinfo_seen
    BY <1>2, <2>2 DEF SendInv
  <2>4. toc_leadout' = UserSpace(div_quot)
    BY <1>1, <2>1, <2>3 DEF DividerLeadout, Takes
  <2>5. QED
    BY <1>1, <1>2, <2>1, <2>4, DivisionIs
<1>8. Sent >= 2 => toc_leadout' = UserSpace(disc[Len(disc)])
  <2> SUFFICES ASSUME Sent >= 2 PROVE toc_leadout' = UserSpace(disc[Len(disc)])
    OBVIOUS
  <2>1. Len(disc) \in Nat /\ Len(to_send) \in Nat
    BY <1>2, NothingToSend, DiscTypes, DiscAssumption DEF SendInv, TocTypes
  <2>2. Sent > 0
    BY <2>1 DEF Sent
  <2>3. cdinfo_seen
    BY <1>2, <2>2 DEF SendInv
  <2>4. DividerLeadout = toc_leadout
    BY <2>3 DEF DividerLeadout, Takes
  <2>5. QED
    BY <1>1, <1>2, <2>4 DEF KnownInv
<1>9. \A t : Start(t)' = Start(t)
  BY <1>1 DEF Start
<1>10. KnownInv'
  BY <1>1, <1>2, <1>4, <1>7, <1>8, <1>9 DEF KnownInv
<1>11. QED
  BY <1>3, <1>5, <1>6, <1>10 DEF TocInv

LEMMA TocStep ==
  ASSUME TocInv, TocNext
  PROVE  TocInv'
<1>1. TocTypes /\ DivInv /\ SendInv /\ KnownInv
  BY DEF TocInv
<1>2. CASE Tick
  BY <1>2, TickStep
<1>3. CASE ImgMounted
  BY <1>1, <1>3, MountStep
<1>4. CASE TiWrite
  <2>1. KnownInv' /\ track_tbl' \in [Tracks -> Nat] /\ SendInv'
    BY <1>1, <1>4, WordStepOfDisc
  <2>2. Divider /\ cdinfo_seen' = TRUE /\ img_size' = img_size /\ disc' = disc
    BY <1>4 DEF TiWrite
  <2>3. DivInv' /\ {div_dvd', div_quot', div_rem'} \subseteq Nat /\ div_run' \in BOOLEAN
    BY <1>1, <2>2, DividerStep
  <2>4. TocTypes'
    BY <1>1, <2>1, <2>2, <2>3 DEF TocTypes
  <2>5. QED
    BY <2>1, <2>3, <2>4 DEF TocInv
<1>5. QED
  BY <1>2, <1>3, <1>4 DEF TocNext

LEMMA TocInvInit == TocInit => TocInv
<1> SUFFICES ASSUME TocInit PROVE TocInv
  OBVIOUS
<1>1. disc = NoDisc /\ to_send = <<>> /\ img_size = 0 /\ toc_leadout = 0 /\ ~div_run
  BY DEF TocInit
<1>2. Len(disc) = 0 /\ Len(to_send) = 0 /\ Sent = 0
  BY <1>1, NothingToSend DEF Sent, NoDisc
<1>3. SectorLen \in Nat \ {0} /\ PREGAP_LBA \in Nat /\ 1 \in Tracks
      /\ Tracks \subseteq Nat \ {0} /\ Pow2[SizeBits] \in Nat \ {0}
  BY DiscAssumption, PowNat DEF Tracks
<1>4. 0 \div SectorLen = 0 /\ UserSpace(0) = 0
  BY <1>3, DivIs DEF UserSpace
<1>5. TocTypes
  <2>1. track_tbl \in [Tracks -> Nat] /\ img_size \in 0 .. Pow2[SizeBits] - 1
    BY <1>1, <1>3 DEF TocInit
  <2>2. {div_dvd, div_quot, div_rem} \subseteq Nat
    BY DEF TocInit
  <2>3. cdinfo_seen \in BOOLEAN /\ div_run \in BOOLEAN
    BY DEF TocInit
  <2>4. QED
    BY <1>1, <2>1, <2>2, <2>3 DEF TocTypes
<1>6. DivInv
  BY <1>1, Zenon DEF DivInv
<1>7. SendInv
  <2>1. to_send \in Seq(WordsIn(disc)) /\ ~cdinfo_seen
    BY <1>1 DEF TocInit
  <2>2. QED
    BY <1>2, <2>1 DEF SendInv
<1>8. KnownInv
  <2>1. toc_leadout = UserSpace(img_size \div SectorLen)
    BY <1>1, <1>4
  <2>2. toc_track_count = 1 /\ track_tbl[1] = 0
    BY <1>3 DEF TocInit
  <2>3. ~(Sent >= 1) /\ ~(Sent >= 2) /\ ~(Sent >= 3) /\ \A t \in Tracks : ~(2 * t + 2 <= Sent)
    BY <1>2, <1>3
  <2>4. QED
    BY <2>1, <2>2, <2>3 DEF KnownInv
<1>9. QED
  BY <1>5, <1>6, <1>7, <1>8 DEF TocInv

LEMMA TocInvKept == TocInv /\ UNCHANGED tocVars => TocInv'
<1> SUFFICES ASSUME TocInv, UNCHANGED tocVars PROVE TocInv'
  OBVIOUS
<1>1. /\ UNCHANGED <<toc_track_count, toc_leadout, track_tbl, pend_start, cdinfo_seen>>
      /\ UNCHANGED <<div_run, div_cnt, div_dvd, div_quot, div_rem, img_size, disc, to_send>>
  BY DEF tocVars
<1>2. Sent' = Sent /\ \A t : Start(t)' = Start(t)
  BY <1>1 DEF Sent, Start
<1>3. DivInv'
  <2>1. \A high, low : Divided(high, low)' <=> Divided(high, low)
    BY <1>1 DEF Divided
  <2>2. QED
    BY <1>1, <2>1 DEF TocInv, DivInv
<1>4. TocTypes' /\ SendInv'
  BY <1>1, <1>2 DEF TocInv, TocTypes, SendInv
<1>5. KnownInv'
  BY <1>1, <1>2 DEF TocInv, KnownInv
<1>6. QED
  BY <1>3, <1>4, <1>5 DEF TocInv

(* The drive knows of a disc just what Main has sent of it, or its divider    *)
(* has worked out, and nothing of the disc before.                          *)
THEOREM TocInvariant == Spec => []TocInv
<1>1. Init => TocInv
  BY TocInvInit DEF Init
<1>2. TocInv /\ [Next]_vars => TocInv'
  <2> SUFFICES ASSUME TocInv, [Next]_vars PROVE TocInv'
    OBVIOUS
  <2>1. CASE TocNext
    BY <2>1, TocStep
  <2>2. CASE UNCHANGED tocVars
    BY <2>2, TocInvKept
  <2>3. QED
    BY <2>1, <2>2 DEF Next, Of, vars
<1>3. QED
  BY <1>1, <1>2, PTL DEF Spec

(* Once the divider is done and Main has nothing left to send, the drive      *)
(* knows the disc that is mounted: its metadata, or its image as one track.  *)
THEOREM DiscIsKnown == Spec => []DiscIsTheMounted
<1>1. TocInv => DiscIsTheMounted
  <2> SUFFICES ASSUME TocInv, ~div_run, to_send = <<>>
               PROVE  /\ toc_leadout = Leadout
                      /\ toc_track_count = IF disc = NoDisc THEN 1 ELSE Len(disc) - 1
                      /\ \A t \in 1 .. toc_track_count :
                           track_tbl[t] = IF t = 1 THEN 0 ELSE UserSpace(disc[t])
    BY DEF DiscIsTheMounted
  <2>1. KnownInv
    BY DEF TocInv
  <2>2. Len(to_send) = 0
    OBVIOUS
  <2>3. CASE disc = NoDisc
    <3>1. Sent = 0
      <4>1. Len(disc) = 0
        BY <2>3, NothingToSend
      <4>2. Sent = 2 * 0 - 0
        BY <2>2, <4>1, Zenon DEF Sent
      <4>3. QED
        BY <4>2
    <3>2. toc_leadout = Leadout /\ toc_track_count = 1 /\ track_tbl[1] = 0
      BY <2>1, <2>3, <3>1 DEF KnownInv, Leadout
    <3>3. QED
      BY <2>3, <3>2
  <2>4. CASE disc \in Discs
    <3>1. /\ disc # NoDisc /\ Len(disc) \in Nat /\ Len(disc) >= 2 /\ Len(disc) - 1 <= MaxTracks
      BY <2>4, DiscTypes, DiscAssumption
    <3>2. Sent = 2 * Len(disc)
      BY <2>2, <3>1 DEF Sent
    <3>3. Sent >= 2 /\ Sent >= 1
      BY <3>1, <3>2
    <3>4. toc_leadout = Leadout
      BY <2>1, <3>1, <3>3 DEF KnownInv, Leadout
    <3>5. toc_track_count = Len(disc) - 1
      BY <2>1, <3>3 DEF KnownInv
    <3>6. ASSUME NEW t \in 1 .. Len(disc) - 1 PROVE track_tbl[t] = Start(t)
      <4>1. t \in Tracks /\ 2 * t + 2 <= Sent
        BY <3>1, <3>2, DiscAssumption DEF Tracks
      <4>2. QED
        BY <2>1, <4>1 DEF KnownInv
    <3>7. QED
      BY <3>1, <3>4, <3>5, <3>6 DEF Start
  <2>5. QED
    BY <2>3, <2>4 DEF TocInv, TocTypes
<1>2. QED
  BY <1>1, TocInvariant, PTL
=============================================================================
