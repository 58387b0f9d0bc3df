---------------------------- MODULE DigitalIoProofs ----------------------------
(***************************************************************************)
(* Proofs about the digital I/O board: its sample RAM, for every window,   *)
(* line, FIFO and value (a hit is never stale, no accepted write is lost   *)
(* on its way to DDR3), and its MP3 streamer with the credit it is paced   *)
(* by, for all windows, widths of the count, clamps and bounds (the three  *)
(* counts of the streamer agree, the service mirrors what the registers    *)
(* hold, no credit leads it).                                              *)
(***************************************************************************)
EXTENDS DioRam, Mp3Pacing, Remainders, TLAPS

-----------------------------------------------------------------------------
(* Words and beats.                                                        *)

(* Every lane of a beat of the window is a word of the window.              *)
LEMMA LaneIsWord ==
  ASSUME NEW beat \in 0 .. Beats - 1, NEW l \in 0 .. LaneWords - 1
  PROVE  beat * LaneWords + l \in Words
<1> USE SizeAssumption
<1>1. LaneWords * beat + LaneWords <= LaneWords * Beats
  BY MultipleApart
<1>2. LaneWords * beat = beat * LaneWords /\ LaneWords * Beats = Beats * LaneWords
  BY SMTT(30)
<1>3. beat * LaneWords \in Nat /\ Beats * LaneWords \in Nat
  BY SMTT(30)
<1>4. QED
  BY <1>1, <1>2, <1>3 DEF Words

(* The beat of a word of the window is a beat of the window.                 *)
LEMMA BeatOfType ==
  ASSUME NEW word \in Words
  PROVE  BeatOf(word) \in 0 .. Beats - 1
<1> USE SizeAssumption
<1> DEFINE q == word \div LaneWords
<1>1. word \in Nat /\ word < Beats * LaneWords
  BY SMTT(30) DEF Words
<1>2. q \in Nat /\ word % LaneWords \in 0 .. LaneWords - 1
      /\ word = LaneWords * q + (word % LaneWords)
  BY <1>1, DivMod
<1> HIDE DEF q
<1>3. LaneWords * q \in Nat /\ LaneWords * q <= word
  BY <1>2, SMTT(30)
<1>4. LaneWords * Beats = Beats * LaneWords /\ LaneWords * Beats \in Nat
  BY SMTT(30)
<1>5. Beats < q => LaneWords * Beats + LaneWords <= LaneWords * q
  BY <1>2, MultipleApart
<1>6. q < Beats
  BY <1>1, <1>2, <1>3, <1>4, <1>5
<1>7. QED
  BY <1>2, <1>6 DEF BeatOf, q

(* A beat of a window holds what the window can hold.                        *)
LEMMA BeatInType ==
  ASSUME NEW window \in [Words -> Values], NEW beat \in 0 .. Beats - 1
  PROVE  BeatIn(window, beat) \in [0 .. LaneWords - 1 -> Values]
BY LaneIsWord DEF BeatIn

Line == [v : BOOLEAN, t : 0 .. Beats - 1, d : [0 .. LaneWords - 1 -> Values]]

LEMMA EmptyTypes ==
  /\ NoLine \in Line /\ NoLine.d \in [0 .. LaneWords - 1 -> Values]
  /\ NoWrite \in Write /\ 0 \in Words /\ 0 \in Values /\ 0 \in 0 .. Beats - 1
  /\ NoLine.v = FALSE
<1>1. 0 \in Words
  BY SizeAssumption, SMTT(30) DEF Words
<1>2. 0 \in Values /\ 0 \in 0 .. Beats - 1
  BY ValuesAssumption, SizeAssumption
<1>3. [l \in 0 .. LaneWords - 1 |-> 0] \in [0 .. LaneWords - 1 -> Values]
  BY <1>2
<1>4. QED
  BY <1>1, <1>2, <1>3 DEF NoLine, NoWrite, Line, Write

-----------------------------------------------------------------------------
(* Types.                                                                  *)

LEMMA InitType == Init => TypeOK
<1> SUFFICES ASSUME Init PROVE TypeOK
  OBVIOUS
<1>1. line \in [{"A", "B", "M"} -> Line]
  BY EmptyTypes DEF Init
<1>2. wfifo \in [0 .. FifoDepth - 1 -> Write]
  BY EmptyTypes DEF Init
<1>3. ddr \in [Words -> Values] /\ written \in [Words -> Values]
  BY EmptyTypes DEF Init
<1>4. 0 \in 0 .. FifoDepth - 1 /\ 0 \in 0 .. FifoDepth
  BY SizeAssumption
<1>5. QED
  BY <1>1, <1>2, <1>3, <1>4, EmptyTypes, Zenon DEF Init, TypeOK, Line

LEMMA CacheType ==
  ASSUME TypeOK, NEW push \in BOOLEAN, Cache(push)
  PROVE  /\ line' \in [{"A", "B", "M"} -> Line]
         /\ last_beat' \in 0 .. Beats - 1 /\ last_v' \in BOOLEAN
<1>1. line \in [{"A", "B", "M"} -> Line]
  BY DEF TypeOK, Line
<1>2. [v |-> TRUE, t |-> mem_rd_addr, d |-> mem_rd_q] \in Line
  BY DEF TypeOK, Line
<1>3. line' \in [{"A", "B", "M"} -> Line]
  <2>1. CASE push
    BY <1>1, <2>1, EmptyTypes DEF Cache
  <2>2. CASE ~push /\ Filled(push)
    BY <1>1, <1>2, <2>2 DEF Cache
  <2>3. CASE ~push /\ ~Filled(push)
    BY <1>1, <2>3 DEF Cache
  <2>4. QED
    BY <2>1, <2>2, <2>3
<1>4. last_beat' \in 0 .. Beats - 1
  <2>1. b4_rd_adv => reading \in Words
    BY DEF b4_rd_adv, b4r, TypeOK
  <2>2. b4_rd_adv => cpu_beat \in 0 .. Beats - 1
    BY <2>1, BeatOfType DEF cpu_beat
  <2>3. QED
    BY <2>2 DEF Cache, TypeOK
<1>5. last_v' \in BOOLEAN
  BY DEF Cache
<1>6. QED
  BY <1>3, <1>4, <1>5

(* Where a push and a pop leave the FIFO's registers.                        *)
LEMMA FifoType ==
  ASSUME TypeOK, NEW push \in BOOLEAN, NEW word \in Words, NEW val \in Values,
         Fifo(push, word, val)
  PROVE  /\ wfifo' \in [0 .. FifoDepth - 1 -> Write]
         /\ wf_wp' \in 0 .. FifoDepth - 1 /\ wf_rp' \in 0 .. FifoDepth - 1
         /\ wf_cnt' \in 0 .. FifoDepth /\ ovf' \in BOOLEAN
         /\ written' \in [Words -> Values]
<1> USE SizeAssumption
<1>1. \A p \in 0 .. FifoDepth - 1 : NextSlot(p) \in 0 .. FifoDepth - 1
  BY DivMod DEF NextSlot
<1>2. wf_rp' \in 0 .. FifoDepth - 1
  BY <1>1 DEF Fifo, Pop, TypeOK
<1>3. wf_wp' \in 0 .. FifoDepth - 1 /\ written' \in [Words -> Values]
  <2>1. wf_wp \in 0 .. FifoDepth - 1 /\ written \in [Words -> Values]
    BY DEF TypeOK
  <2>2. \/ wf_wp' = NextSlot(wf_wp) /\ written' = [written EXCEPT ![word] = val]
        \/ UNCHANGED <<wf_wp, written>>
    BY DEF Fifo
  <2>3. QED
    BY <1>1, <2>1, <2>2
<1>4. wf_cnt' \in 0 .. FifoDepth
  <2>1. wf_cnt' = Count(push)
    BY DEF Fifo
  <2>2. wf_cnt \in 0 .. FifoDepth
    BY DEF TypeOK
  <2>3. QED
    BY <2>1, <2>2 DEF Count, push_ok
<1>5. ovf' \in BOOLEAN
  BY DEF Fifo
<1>6. wfifo' \in [0 .. FifoDepth - 1 -> Write]
  <2>1. [word |-> word, val |-> val] \in Write /\ NoWrite \in Write
    BY EmptyTypes DEF Write
  <2>2. QED
    BY <2>1 DEF Fifo, TypeOK
<1>7. QED
  BY <1>2, <1>3, <1>4, <1>5, <1>6

LEMMA SchedulerType ==
  ASSUME TypeOK, NEW push \in BOOLEAN, Scheduler(push)
  PROVE  /\ est' \in {"IDLE", "WR", "WR_END", "RD", "RD_END"}
         /\ rd_who' \in {"CPU", "PF", "MP3"} /\ poison' \in BOOLEAN
         /\ mem_rd_req' \in BOOLEAN /\ mem_rd_addr' \in 0 .. Beats - 1
         /\ mem_wr_req' \in BOOLEAN /\ mem_wr' \in Write
<1> USE SizeAssumption
<1>1. CASE Drain
  <2>1. wfifo[wf_rp] \in Write
    BY DEF TypeOK
  <2>2. QED
    BY <1>1, <2>1 DEF Drain, PoisonCleared, TypeOK
<1>2. CASE StartRead(push)
  <2>1. b4r /\ ~cpu_ok => cpu_beat \in 0 .. Beats - 1
    BY BeatOfType DEF b4r, cpu_beat, TypeOK
  <2>2. mp3_req => mp3_beat \in 0 .. Beats - 1
    BY BeatOfType DEF mp3_req, mp3_beat, TypeOK
  <2>3. pf_beat \in 0 .. Beats - 1
    BY DivMod DEF pf_beat, TypeOK
  <2>4. mem_rd_addr' \in 0 .. Beats - 1 /\ rd_who' \in {"CPU", "PF", "MP3"}
    BY <1>2, <2>1, <2>2, <2>3 DEF StartRead
  <2>5. QED
    BY <1>2, <2>4 DEF StartRead, PoisonCleared, TypeOK
<1>3. CASE StayIdle(push)
  BY <1>3 DEF StayIdle, PoisonCleared, TypeOK
<1>4. CASE WriteChannel
  BY <1>4, EmptyTypes DEF WriteChannel, TypeOK
<1>5. CASE ReadChannel(push)
  BY <1>5, EmptyTypes DEF ReadChannel, Poisoned, TypeOK
<1>6. QED
  BY <1>1, <1>2, <1>3, <1>4, <1>5 DEF Scheduler

LEMMA EdgeType ==
  ASSUME TypeOK, NEW push \in BOOLEAN, NEW word \in Words, NEW val \in Values,
         Edge(push, word, val)
  PROVE  TypeOK'
<1>1. reading' \in Words \cup {NoRead}
  BY DEF Edge, TypeOK
<1>2. s_rd_req' \in Words \cup {NoRead} /\ s_rdy_r' \in BOOLEAN
  BY DEF Edge, Mp3Serve, TypeOK
<1>3. Cache(push) /\ Fifo(push, word, val) /\ Scheduler(push)
  BY DEF Edge
<1>4. UNCHANGED <<mem_rd_ack, mem_rd_q, mem_wr_ack, ddr>>
  BY DEF Edge
<1>5. QED
  BY <1>1, <1>2, <1>3, <1>4, CacheType, FifoType, SchedulerType, Zenon DEF TypeOK, Line

(* Every clock edge is one of these.                                        *)
LEMMA EdgeForms ==
  ASSUME QuietEdge \/ WriteEdge
  PROVE  \E push \in BOOLEAN, word \in Words, val \in Values : Edge(push, word, val)
BY EmptyTypes, WordsAssumption DEF QuietEdge, WriteEdge, Words

LEMMA TypeStep == TypeOK /\ [Next]_vars => TypeOK'
<1> SUFFICES ASSUME TypeOK, [Next]_vars PROVE TypeOK'
  OBVIOUS
<1> USE DEF cacheVars, fifoVars, readVars, writeVars, mp3Vars, schedVars
<1>1. CASE QuietEdge \/ WriteEdge
  BY <1>1, EdgeForms, EdgeType
<1>2. ASSUME NEW w \in Words, BeginRead(w) PROVE TypeOK'
  BY <1>2 DEF BeginRead, TypeOK
<1>3. ASSUME NEW w \in MpegWords, StreamRequest(w) PROVE TypeOK'
  BY <1>3, WordsAssumption DEF StreamRequest, TypeOK, Words
<1>4. CASE StreamDrop
  BY <1>4 DEF StreamDrop, TypeOK
<1>5. CASE DdrRead
  <2>1. BeatIn(ddr, mem_rd_addr) \in [0 .. LaneWords - 1 -> Values]
    BY BeatInType DEF TypeOK
  <2>2. mem_rd_q' \in [0 .. LaneWords - 1 -> Values] /\ mem_rd_ack' \in BOOLEAN
    BY <1>5, <2>1, EmptyTypes DEF DdrRead, TypeOK
  <2>3. QED
    BY <1>5, <2>2 DEF DdrRead, TypeOK
<1>6. CASE DdrWrite
  <2>1. mem_wr.word \in Words /\ mem_wr.val \in Values
    BY DEF TypeOK, Write
  <2>2. ddr' \in [Words -> Values] /\ mem_wr_ack' \in BOOLEAN
    BY <1>6, <2>1 DEF DdrWrite, TypeOK
  <2>3. QED
    BY <1>6, <2>2 DEF DdrWrite, TypeOK
<1>7. CASE CoreReset
  <2>1. line' \in [{"A", "B", "M"} -> Line] /\ wfifo' \in [0 .. FifoDepth - 1 -> Write]
    BY <1>7, EmptyTypes DEF CoreReset, TypeOK
  <2>2. 0 \in 0 .. FifoDepth - 1 /\ 0 \in 0 .. FifoDepth
    BY SizeAssumption
  <2>3. ddr' \in [Words -> Values] /\ written' \in [Words -> Values]
    BY <1>7 DEF CoreReset, TypeOK
  <2>4. QED
    BY <1>7, <2>1, <2>2, <2>3, EmptyTypes, Zenon DEF CoreReset, TypeOK, Line
<1>8. CASE UNCHANGED vars
  BY <1>8 DEF vars, TypeOK
<1>9. QED
  BY <1>1, <1>2, <1>3, <1>4, <1>5, <1>6, <1>7, <1>8 DEF Next
-----------------------------------------------------------------------------
(* The FIFO as the queue it stands for.                                    *)

(* The i-th write posted and not yet popped, the oldest first.              *)
Entry(i) == wfifo[(wf_rp + i) % FifoDepth]

Popped == est = "IDLE" /\ wf_cnt # 0

Accepted(push) == push /\ push_ok

LEMMA FifoPointers ==
  ASSUME CountIsOccupancy, NEW push \in BOOLEAN, NEW word \in Words, NEW val \in Values,
         Fifo(push, word, val)
  PROVE  /\ Popped => wf_rp' = (wf_rp + 1) % FifoDepth
         /\ ~Popped => wf_rp' = wf_rp
         /\ wf_cnt' = wf_cnt + (IF Accepted(push) THEN 1 ELSE 0) - (IF Popped THEN 1 ELSE 0)
         /\ Accepted(push) => wf_cnt < FifoDepth /\ wf_wp' = (wf_wp + 1) % FifoDepth
         /\ ~Accepted(push) => wf_wp' = wf_wp /\ written' = written
         /\ Accepted(push) => written' = [written EXCEPT ![word] = val]
         /\ (wf_rp' + wf_cnt') % FifoDepth = wf_wp'
<1> USE SizeAssumption DEF Popped, Accepted
<1>1. /\ wf_cnt \in 0 .. FifoDepth /\ wf_rp \in 0 .. FifoDepth - 1 /\ wf_wp \in 0 .. FifoDepth - 1
      /\ (wf_rp + wf_cnt) % FifoDepth = wf_wp
  BY DEF CountIsOccupancy, TypeOK
<1>2. /\ Popped => wf_rp' = (wf_rp + 1) % FifoDepth
      /\ ~Popped => wf_rp' = wf_rp
  BY DEF Fifo, Pop, NextSlot
<1>3. wf_cnt' = wf_cnt + (IF Accepted(push) THEN 1 ELSE 0) - (IF Popped THEN 1 ELSE 0)
  BY <1>1 DEF Fifo, Count
<1>4. /\ Accepted(push) => wf_cnt < FifoDepth /\ wf_wp' = (wf_wp + 1) % FifoDepth
      /\ ~Accepted(push) => wf_wp' = wf_wp /\ written' = written
      /\ Accepted(push) => written' = [written EXCEPT ![word] = val]
  BY <1>1 DEF Fifo, NextSlot, push_ok
<1>5. (wf_rp' + wf_cnt') % FifoDepth = wf_wp'
  <2> HIDE DEF Popped, Accepted
  <2> DEFINE n == wf_cnt + (IF Accepted(push) THEN 1 ELSE 0)
  <2>1. n \in 0 .. FifoDepth
    BY <1>1, <1>4
  <2>2. (wf_rp + n) % FifoDepth = wf_wp'
    <3>1. CASE Accepted(push)
      <4>1. wf_cnt \in 0 .. FifoDepth - 1 /\ n = wf_cnt + 1
        BY <1>1, <1>4, <3>1
      <4>2. (((wf_rp + 1) % FifoDepth) + wf_cnt) % FifoDepth = (wf_rp + (wf_cnt + 1)) % FifoDepth
        BY <1>1, <4>1, PlaceAfterStep
      <4>3. wf_wp = (IF wf_rp + wf_cnt < FifoDepth THEN wf_rp + wf_cnt
                                                  ELSE wf_rp + wf_cnt - FifoDepth)
        BY <1>1, Wrap
      <4>4. 1 \in 0 .. FifoDepth /\ wf_cnt + 1 \in 0 .. FifoDepth
        BY <4>1
      <4>5. (wf_wp + 1) % FifoDepth
              = (IF wf_wp + 1 < FifoDepth THEN wf_wp + 1 ELSE wf_wp + 1 - FifoDepth)
        BY <1>1, <4>4, Wrap
      <4>6. (wf_rp + (wf_cnt + 1)) % FifoDepth
              = (IF wf_rp + (wf_cnt + 1) < FifoDepth
                   THEN wf_rp + (wf_cnt + 1) ELSE wf_rp + (wf_cnt + 1) - FifoDepth)
        BY <1>1, <4>4, Wrap
      <4> DEFINE x == (wf_wp + 1) % FifoDepth
                 y == (wf_rp + (wf_cnt + 1)) % FifoDepth
      <4>7. x = y
        <5> HIDE DEF x, y
        <5>1. x = (IF wf_wp + 1 < FifoDepth THEN wf_wp + 1 ELSE wf_wp + 1 - FifoDepth)
          BY <4>5 DEF x
        <5>2. y = (IF wf_rp + (wf_cnt + 1) < FifoDepth
                     THEN wf_rp + (wf_cnt + 1) ELSE wf_rp + (wf_cnt + 1) - FifoDepth)
          BY <4>6 DEF y
        <5>3. QED
          BY <1>1, <4>1, <4>3, <5>1, <5>2
      <4>8. QED
        BY <1>4, <3>1, <4>1, <4>7
    <3>2. CASE ~Accepted(push)
      <4>1. n = wf_cnt
        BY <1>1, <3>2
      <4>2. QED
        BY <1>1, <1>4, <3>2, <4>1
    <3>3. QED
      BY <3>1, <3>2
  <2> HIDE DEF n
  <2>3. CASE Popped
    <3>1. wf_cnt' = n - 1 /\ n - 1 \in 0 .. FifoDepth - 1 /\ n = (n - 1) + 1
      BY <1>1, <1>3, <2>1, <2>3 DEF n, Popped
    <3>2. (((wf_rp + 1) % FifoDepth) + (n - 1)) % FifoDepth = (wf_rp + ((n - 1) + 1)) % FifoDepth
      BY <1>1, <3>1, PlaceAfterStep
    <3>3. (wf_rp' + wf_cnt') % FifoDepth = (wf_rp + ((n - 1) + 1)) % FifoDepth
      BY <1>2, <2>3, <3>1, <3>2
    <3>4. QED
      BY <2>2, <3>1, <3>3
  <2>4. CASE ~Popped
    <3>1. wf_cnt' = n /\ wf_rp' = wf_rp
      BY <1>1, <1>2, <1>3, <2>1, <2>4 DEF n
    <3>2. QED
      BY <2>2, <3>1
  <2>5. QED
    BY <2>3, <2>4
<1>6. QED
  BY <1>2, <1>3, <1>4, <1>5

(* A pop takes the oldest entry, an accepted push is a new last one, and the  *)
(* others keep their order.                                                  *)
LEMMA FifoQueue ==
  ASSUME CountIsOccupancy, NEW push \in BOOLEAN, NEW word \in Words, NEW val \in Values,
         Fifo(push, word, val),
         NEW s, s = IF Popped THEN 1 ELSE 0
  PROVE  /\ \A i \in 0 .. wf_cnt - s - 1 : Entry(i)' = Entry(i + s)
         /\ \A i : Accepted(push) /\ i = wf_cnt - s => Entry(i)' = [word |-> word, val |-> val]
<1> USE SizeAssumption
<1> DEFINE D == FifoDepth
           New == [word |-> word, val |-> val]
<1>1. /\ wf_cnt \in 0 .. D /\ wf_rp \in 0 .. D - 1 /\ wf_wp \in 0 .. D - 1
      /\ (wf_rp + wf_cnt) % D = wf_wp /\ wfifo \in [0 .. D - 1 -> Write]
  BY DEF CountIsOccupancy, TypeOK
<1>2. /\ Popped => wf_rp' = (wf_rp + 1) % D
      /\ ~Popped => wf_rp' = wf_rp
      /\ Accepted(push) => wf_cnt < D
  BY FifoPointers
<1>3. s \in {0, 1} /\ s <= wf_cnt
  BY <1>1 DEF Popped
<1>4. ASSUME NEW i \in 0 .. D - 1, i + s \in 0 .. D
      PROVE  (wf_rp' + i) % D = (wf_rp + (i + s)) % D
  <2>1. CASE Popped
    BY <1>1, <1>2, <2>1, PlaceAfterStep
  <2>2. CASE ~Popped
    <3>1. i + s = i
      BY <2>2
    <3>2. QED
      BY <1>2, <2>2, <3>1
  <2>3. QED
    BY <2>1, <2>2
<1>5. wfifo' = [k \in 0 .. D - 1 |->
                  CASE k = wf_wp /\ Accepted(push) -> New
                    [] k = wf_rp /\ wf_rp' # wf_rp -> NoWrite
                    [] OTHER -> wfifo[k]]
  BY <1>1 DEF Fifo, Accepted
<1>6. ASSUME NEW i \in 0 .. wf_cnt - s - 1
      PROVE  Entry(i)' = Entry(i + s)
  <2> DEFINE k == (wf_rp + (i + s)) % D
  <2>1. i \in 0 .. D - 1 /\ i + s \in 0 .. D - 1 /\ i + s \in 0 .. D /\ i + s < wf_cnt
    BY <1>1, <1>3
  <2>2. (wf_rp' + i) % D = k
    BY <1>4, <2>1
  <2>3. k \in 0 .. D - 1
    BY <1>1, <2>1, PlaceIn
  <2>4. Accepted(push) => k # wf_wp
    <3>1. SUFFICES ASSUME Accepted(push), k = wf_wp PROVE FALSE
      OBVIOUS
    <3>2. wf_cnt \in 0 .. D - 1
      BY <1>1, <1>2, <3>1
    <3>3. (wf_rp + (i + s)) % D = (wf_rp + wf_cnt) % D
      BY <1>1, <3>1
    <3>4. i + s = wf_cnt
      BY <1>1, <2>1, <3>2, <3>3, PlacesApart
    <3>5. QED
      BY <1>1, <2>1, <3>4
  <2>5. wf_rp' # wf_rp => k # wf_rp
    <3>1. SUFFICES ASSUME wf_rp' # wf_rp, k = wf_rp PROVE FALSE
      OBVIOUS
    <3>2. s = 1
      BY <1>2, <3>1
    <3>3. 0 \in 0 .. D - 1 /\ 0 \in 0 .. D /\ wf_rp + 0 < D /\ wf_rp + 0 = wf_rp
      BY <1>1
    <3>4. (wf_rp + 0) % D = wf_rp
      BY <1>1, <3>3, Wrap
    <3>5. (wf_rp + (i + s)) % D = (wf_rp + 0) % D
      BY <3>1, <3>4
    <3>6. i + s = 0
      BY <1>1, <2>1, <3>3, <3>5, PlacesApart
    <3>7. QED
      BY <2>1, <3>2, <3>6
  <2> HIDE DEF k
  <2>6. wfifo'[k] = wfifo[k]
    BY <1>5, <2>3, <2>4, <2>5
  <2>7. QED
    BY <2>2, <2>6 DEF Entry, k
<1>7. ASSUME NEW i, Accepted(push), i = wf_cnt - s
      PROVE  Entry(i)' = New
  <2>1. i \in 0 .. D - 1 /\ i + s = wf_cnt /\ i + s \in 0 .. D
    BY <1>1, <1>2, <1>3, <1>7
  <2>2. (wf_rp' + i) % D = (wf_rp + (i + s)) % D
    BY <1>4, <2>1
  <2>3. (wf_rp' + i) % D = wf_wp
    BY <1>1, <2>1, <2>2
  <2>6. wf_rp' # wf_rp => wf_wp # wf_rp
    <3>1. SUFFICES ASSUME wf_rp' # wf_rp, wf_wp = wf_rp PROVE FALSE
      OBVIOUS
    <3>2. Popped
      BY <1>2, <3>1
    <3>3. wf_cnt \in 0 .. D - 1 /\ wf_cnt # 0
      BY <1>1, <1>2, <1>7, <3>2 DEF Popped
    <3>4. 0 \in 0 .. D - 1 /\ 0 \in 0 .. D /\ wf_rp + 0 < D /\ wf_rp + 0 = wf_rp
      BY <1>1
    <3>5. (wf_rp + 0) % D = wf_rp
      BY <1>1, <3>4, Wrap
    <3>6. (wf_rp + wf_cnt) % D = (wf_rp + 0) % D
      BY <1>1, <3>1, <3>5
    <3>7. wf_cnt = 0
      BY <1>1, <3>3, <3>4, <3>6, PlacesApart
    <3>8. QED
      BY <3>3, <3>7
  <2> HIDE DEF New
  <2>4. wfifo'[wf_wp] = New
    BY <1>1, <1>5, <1>7, <2>6
  <2>5. QED
    BY <2>3, <2>4 DEF Entry
<1>8. QED
  BY <1>6, <1>7

(* The steps that are no clock edge, no answer of DDR3 and no reset touch      *)
(* only what the two readers ask for.                                        *)
LEMMA AskingSteps ==
  ASSUME \/ \E w \in Words : BeginRead(w)
         \/ \E w \in MpegWords : StreamRequest(w)
         \/ StreamDrop \/ UNCHANGED vars
  PROVE  UNCHANGED <<cacheVars, fifoVars, readVars, writeVars, schedVars, ddr, written>>
BY DEF BeginRead, StreamRequest, StreamDrop, vars

(* A step is a clock edge, an answer of DDR3, a reset, or asks for something.  *)
LEMMA StepForms ==
  ASSUME [Next]_vars
  PROVE  \/ \E push \in BOOLEAN, word \in Words, val \in Values : Edge(push, word, val)
         \/ DdrRead \/ DdrWrite \/ CoreReset
         \/ UNCHANGED <<cacheVars, fifoVars, readVars, writeVars, schedVars, ddr, written>>
<1>1. CASE QuietEdge \/ WriteEdge
  BY <1>1, EdgeForms
<1>2. CASE \/ \E w \in Words : BeginRead(w)
           \/ \E w \in MpegWords : StreamRequest(w)
           \/ StreamDrop \/ UNCHANGED vars
  BY <1>2, AskingSteps
<1>3. QED
  BY <1>1, <1>2, Zenon DEF Next

LEMMA CountStep == CountIsOccupancy /\ [Next]_vars => CountIsOccupancy'
<1> SUFFICES ASSUME CountIsOccupancy, [Next]_vars PROVE CountIsOccupancy'
  OBVIOUS
<1>1. TypeOK'
  BY TypeStep DEF CountIsOccupancy
<1>2. (wf_rp' + wf_cnt') % FifoDepth = wf_wp'
  <2>1. ASSUME NEW push \in BOOLEAN, NEW word \in Words, NEW val \in Values, Edge(push, word, val)
        PROVE  (wf_rp' + wf_cnt') % FifoDepth = wf_wp'
    BY <2>1, FifoPointers DEF Edge
  <2>2. CASE DdrRead \/ DdrWrite
    BY <2>2 DEF DdrRead, DdrWrite, fifoVars, CountIsOccupancy
  <2>3. CASE CoreReset
    <3>1. 0 \in 0 .. FifoDepth - 1 /\ 0 \in 0 .. FifoDepth /\ 0 + 0 < FifoDepth /\ 0 + 0 = 0
      BY SizeAssumption
    <3>2. (0 + 0) % FifoDepth = 0
      BY <3>1, Wrap, SizeAssumption
    <3>3. QED
      BY <2>3, <3>2 DEF CoreReset
  <2>4. CASE UNCHANGED fifoVars
    BY <2>4 DEF fifoVars, CountIsOccupancy
  <2>5. QED
    BY <2>1, <2>2, <2>3, <2>4, StepForms, Zenon
<1>3. QED
  BY <1>1, <1>2 DEF CountIsOccupancy

LEMMA CountInit == Init => CountIsOccupancy
<1>1. 0 \in 0 .. FifoDepth - 1 /\ 0 \in 0 .. FifoDepth /\ 0 + 0 < FifoDepth /\ 0 + 0 = 0
  BY SizeAssumption
<1>2. (0 + 0) % FifoDepth = 0
  BY <1>1, Wrap, SizeAssumption
<1>3. QED
  BY <1>2, InitType DEF Init, CountIsOccupancy

-----------------------------------------------------------------------------
(* The channels and what they carry.                                       *)

(* A channel is at rest outside the scheduler's states for it, and the ack   *)
(* follows the request up and down.                                          *)
ChannelInv ==
  /\ est \notin {"RD", "RD_END"} => ~mem_rd_req /\ ~mem_rd_ack
  /\ est \notin {"WR", "WR_END"} => ~mem_wr_req /\ ~mem_wr_ack
  /\ est = "RD" => (mem_rd_ack => mem_rd_req)
  /\ est = "WR" => (mem_wr_ack => mem_wr_req)
  /\ est = "RD_END" => ~mem_rd_req
  /\ est = "WR_END" => ~mem_wr_req

(* A fill that no push overtook is of a window with nothing on its way.      *)
FillInv ==
  est = "RD" /\ ~poison =>
    /\ wf_cnt = 0
    /\ mem_rd_ack => mem_rd_q = BeatIn(written, mem_rd_addr)

(* A write the channel acknowledged is in DDR3.                              *)
LandedInv == est = "WR" /\ mem_wr_ack => ddr[mem_wr.word] = mem_wr.val

(* What WritesLand says of one word, without choosing the newest write.       *)
Lands(w) ==
  /\ \A i \in 0 .. wf_cnt - 1 :
       Entry(i).word = w /\ (\A j \in i + 1 .. wf_cnt - 1 : Entry(j).word # w)
         => Entry(i).val = written[w]
  /\ (\A i \in 0 .. wf_cnt - 1 : Entry(i).word # w)
       => /\ est = "WR" /\ mem_wr.word = w => mem_wr.val = written[w]
          /\ ~(est = "WR" /\ mem_wr.word = w) => ddr[w] = written[w]

AllLand == \A w \in Words : Lands(w)

IInv ==
  /\ CountIsOccupancy /\ ChannelInv /\ FillInv /\ LandedInv /\ AllLand /\ LinesAreCurrent

LEMMA LandsIsSettled ==
  ASSUME TypeOK, NEW w \in Words
  PROVE  Lands(w) <=> Settled(w) = written[w]
<1> DEFINE P == Pending(w)
<1>1. P = {i \in 0 .. wf_cnt - 1 : Entry(i).word = w}
  BY DEF Pending, Entry
<1>2. wf_cnt \in Nat
  BY DEF TypeOK
<1>3. CASE P = {}
  <2>1. \A i \in 0 .. wf_cnt - 1 : Entry(i).word # w
    BY <1>1, <1>3
  <2>2. Settled(w) = IF est = "WR" /\ mem_wr.word = w THEN mem_wr.val ELSE ddr[w]
    BY <1>3 DEF Settled
  <2>3. QED
    BY <2>1, <2>2 DEF Lands
<1>4. CASE P # {}
  <2> HIDE DEF P
  <2>1. P \subseteq 0 .. wf_cnt - 1
    BY <1>1
  <2>2. \E n \in P : \A j \in P : j <= n
    BY <1>2, <1>4, <2>1, LargestExists
  <2> DEFINE n == CHOOSE i \in P : \A j \in P : j <= i
  <2>3. n \in P /\ \A j \in P : j <= n
    BY <2>2
  <2>4. Settled(w) = wfifo[(wf_rp + n) % FifoDepth].val
    BY <1>4 DEF Settled, P
  <2> HIDE DEF n
  <2>5. Settled(w) = Entry(n).val
    BY <2>4 DEF Entry
  <2>6. n \in 0 .. wf_cnt - 1 /\ Entry(n).word = w
    BY <1>1, <2>3
  <2>7. \A j \in n + 1 .. wf_cnt - 1 : Entry(j).word # w
    <3>1. SUFFICES ASSUME NEW j \in n + 1 .. wf_cnt - 1, Entry(j).word = w PROVE FALSE
      OBVIOUS
    <3>2. j \in 0 .. wf_cnt - 1 /\ ~(j <= n)
      BY <1>2, <2>6
    <3>3. j \in P
      BY <1>1, <3>1, <3>2
    <3>4. QED
      BY <2>3, <3>2, <3>3
  <2>8. ASSUME NEW i \in 0 .. wf_cnt - 1, Entry(i).word = w,
               \A j \in i + 1 .. wf_cnt - 1 : Entry(j).word # w
        PROVE  i = n
    <3>1. i <= n
      BY <1>1, <2>3, <2>8
    <3>2. ~(i < n)
      <4>1. SUFFICES ASSUME i < n PROVE FALSE
        OBVIOUS
      <4>2. n \in i + 1 .. wf_cnt - 1
        BY <1>2, <2>6, <4>1
      <4>3. QED
        BY <2>6, <2>8, <4>2
    <3>3. QED
      BY <1>2, <2>6, <3>1, <3>2
  <2>9. QED
    BY <2>5, <2>6, <2>7, <2>8 DEF Lands
<1>5. QED
  BY <1>3, <1>4

LEMMA ChannelStep == CountIsOccupancy /\ ChannelInv /\ [Next]_vars => ChannelInv'
<1> SUFFICES ASSUME CountIsOccupancy, ChannelInv, [Next]_vars PROVE ChannelInv'
  OBVIOUS
<1> USE DEF ChannelInv
<1>0. /\ est \in {"IDLE", "WR", "WR_END", "RD", "RD_END"}
      /\ mem_rd_req \in BOOLEAN /\ mem_rd_ack \in BOOLEAN
      /\ mem_wr_req \in BOOLEAN /\ mem_wr_ack \in BOOLEAN
  BY DEF CountIsOccupancy, TypeOK
<1>1. ASSUME NEW push \in BOOLEAN, NEW word \in Words, NEW val \in Values, Edge(push, word, val)
      PROVE  ChannelInv'
  <2>1. mem_rd_ack' = mem_rd_ack /\ mem_wr_ack' = mem_wr_ack /\ Scheduler(push)
    BY <1>1 DEF Edge
  <2>2. CASE Drain
    BY <1>0, <2>1, <2>2 DEF Drain
  <2>3. CASE StartRead(push)
    BY <1>0, <2>1, <2>3 DEF StartRead
  <2>4. CASE StayIdle(push)
    BY <1>0, <2>1, <2>4 DEF StayIdle
  <2>5. CASE WriteChannel
    BY <1>0, <2>1, <2>5 DEF WriteChannel
  <2>6. CASE ReadChannel(push)
    BY <1>0, <2>1, <2>6 DEF ReadChannel
  <2>7. QED
    BY <2>1, <2>2, <2>3, <2>4, <2>5, <2>6 DEF Scheduler
<1>2. CASE DdrRead
  BY <1>0, <1>2 DEF DdrRead, schedVars, writeVars
<1>3. CASE DdrWrite
  BY <1>0, <1>3 DEF DdrWrite, schedVars, readVars
<1>4. CASE CoreReset
  BY <1>4 DEF CoreReset
<1>5. CASE UNCHANGED <<cacheVars, fifoVars, readVars, writeVars, schedVars, ddr, written>>
  BY <1>5 DEF schedVars, readVars, writeVars
<1>6. QED
  BY <1>1, <1>2, <1>3, <1>4, <1>5, StepForms, Zenon

LEMMA InitInv == Init => IInv
<1> SUFFICES ASSUME Init PROVE IInv
  OBVIOUS
<1>1. CountIsOccupancy
  BY CountInit
<1>2. ChannelInv /\ FillInv /\ LandedInv
  BY DEF Init, ChannelInv, FillInv, LandedInv
<1>3. AllLand
  BY DEF Init, AllLand, Lands
<1>4. LinesAreCurrent
  BY EmptyTypes DEF Init, LinesAreCurrent
<1>5. QED
  BY <1>1, <1>2, <1>3, <1>4 DEF IInv

(* With nothing posted and no write in its channel, DDR3 is what was written. *)
LEMMA NothingOnItsWay ==
  ASSUME TypeOK, AllLand, wf_cnt = 0, est # "WR"
  PROVE  ddr = written
<1>1. \A i \in 0 .. wf_cnt - 1 : FALSE
  OBVIOUS
<1>2. \A w \in Words : ddr[w] = written[w]
  BY <1>1 DEF AllLand, Lands
<1>3. ddr \in [Words -> Values] /\ written \in [Words -> Values]
  BY DEF TypeOK
<1>4. QED
  BY <1>2, <1>3

(* What an answer of DDR3 or a reset keeps.                                  *)
LEMMA DdrReadInv ==
  ASSUME IInv, DdrRead
  PROVE  FillInv' /\ LandedInv' /\ AllLand' /\ LinesAreCurrent'
<1> USE DEF cacheVars, fifoVars, writeVars, schedVars
<1>1. LandedInv'
  BY DEF IInv, LandedInv, DdrRead
<1>2. AllLand'
  <2>1. UNCHANGED <<wfifo, wf_rp, wf_cnt, est, mem_wr, ddr, written>>
    BY DEF DdrRead
  <2>2. AllLand
    BY DEF IInv
  <2>3. QED
    BY <2>1, <2>2 DEF AllLand, Lands, Entry
<1>3. LinesAreCurrent'
  BY DEF IInv, LinesAreCurrent, DdrRead, BeatIn
<1>4. FillInv'
  <2>1. SUFFICES ASSUME est' = "RD", ~poison'
                 PROVE  wf_cnt' = 0 /\ (mem_rd_ack' => mem_rd_q' = BeatIn(written', mem_rd_addr'))
    BY DEF FillInv, BeatIn
  <2>2. est = "RD" /\ ~poison /\ wf_cnt = 0
    BY <2>1 DEF DdrRead, IInv, FillInv
  <2>3. ddr = written
    BY <2>2, NothingOnItsWay DEF IInv, CountIsOccupancy
  <2>4. QED
    BY <2>2, <2>3 DEF DdrRead
<1>5. QED
  BY <1>1, <1>2, <1>3, <1>4

LEMMA DdrWriteInv ==
  ASSUME IInv, DdrWrite
  PROVE  FillInv' /\ LandedInv' /\ AllLand' /\ LinesAreCurrent'
<1> USE DEF cacheVars, fifoVars, readVars, schedVars
<1>1. UNCHANGED <<line, wfifo, wf_rp, wf_cnt, est, poison, mem_wr, mem_rd_ack, mem_rd_q,
                  mem_rd_addr, written>>
  BY DEF DdrWrite
<1>2. FillInv'
  BY <1>1 DEF IInv, FillInv, BeatIn
<1>3. LinesAreCurrent'
  BY <1>1 DEF IInv, LinesAreCurrent, BeatIn
<1>4. mem_wr.word \in Words /\ ddr \in [Words -> Values]
  BY DEF IInv, CountIsOccupancy, TypeOK, Write
<1>5. LandedInv'
  BY <1>1, <1>4 DEF DdrWrite, LandedInv
<1>6. mem_wr_req => est = "WR"
  BY DEF IInv, CountIsOccupancy, TypeOK, ChannelInv
<1>7. ASSUME NEW w \in Words PROVE Lands(w)'
  <2>1. Lands(w)
    BY DEF IInv, AllLand
  <2>2. ~(est = "WR" /\ mem_wr.word = w) => ddr'[w] = ddr[w]
    BY <1>4, <1>6 DEF DdrWrite
  <2>3. QED
    BY <1>1, <2>1, <2>2 DEF Lands, Entry
<1>8. QED
  BY <1>2, <1>3, <1>5, <1>7 DEF AllLand

LEMMA CoreResetInv ==
  ASSUME IInv, CoreReset
  PROVE  FillInv' /\ LandedInv' /\ AllLand' /\ LinesAreCurrent'
<1>1. FillInv' /\ LandedInv'
  BY DEF CoreReset, FillInv, LandedInv
<1>2. LinesAreCurrent'
  BY EmptyTypes DEF CoreReset, LinesAreCurrent
<1>3. AllLand'
  <2>1. wf_cnt' = 0 /\ est' = "IDLE" /\ ddr' = written'
    BY DEF CoreReset
  <2>2. QED
    BY <2>1 DEF AllLand, Lands
<1>4. QED
  BY <1>1, <1>2, <1>3

(* What a clock edge keeps, conjunct by conjunct.                            *)
LEMMA EdgeFillInv ==
  ASSUME IInv, NEW push \in BOOLEAN, NEW word \in Words, NEW val \in Values, Edge(push, word, val)
  PROVE  FillInv'
<1>1. /\ CountIsOccupancy /\ ChannelInv /\ FillInv
      /\ Fifo(push, word, val) /\ Scheduler(push)
      /\ mem_rd_ack' = mem_rd_ack /\ mem_rd_q' = mem_rd_q
  BY DEF IInv, Edge
<1>2. SUFFICES ASSUME est' = "RD", ~poison'
               PROVE  wf_cnt' = 0 /\ (mem_rd_ack' => mem_rd_q' = BeatIn(written', mem_rd_addr'))
  BY DEF FillInv, BeatIn
<1>3. ~push /\ wf_cnt = 0 => wf_cnt' = 0 /\ written' = written
  BY <1>1 DEF Fifo, Count
<1>4. CASE StartRead(push)
  <2>1. ~push /\ wf_cnt = 0 /\ est = "IDLE"
    BY <1>4 DEF StartRead, MayStart
  <2>2. ~mem_rd_ack
    BY <1>1, <2>1 DEF ChannelInv
  <2>3. QED
    BY <1>1, <1>3, <2>1, <2>2
<1>5. CASE ReadChannel(push)
  <2>1. ~push /\ ~poison
    BY <1>2, <1>5 DEF ReadChannel, Poisoned
  <2>2. est = "RD" /\ mem_rd_addr' = mem_rd_addr
    BY <1>2, <1>5 DEF ReadChannel
  <2>3. wf_cnt = 0
    BY <1>1, <2>1, <2>2 DEF FillInv
  <2>4. mem_rd_ack => mem_rd_q = BeatIn(written, mem_rd_addr)
    BY <1>1, <2>1, <2>2 DEF FillInv
  <2>5. QED
    BY <1>1, <1>3, <2>1, <2>2, <2>3, <2>4
<1>6. ~(Drain \/ StayIdle(push) \/ WriteChannel)
  BY <1>2 DEF Drain, StayIdle, WriteChannel
<1>7. QED
  BY <1>1, <1>4, <1>5, <1>6 DEF Scheduler

LEMMA EdgeLandedInv ==
  ASSUME IInv, NEW push \in BOOLEAN, NEW word \in Words, NEW val \in Values, Edge(push, word, val)
  PROVE  LandedInv'
<1>1. /\ ChannelInv /\ LandedInv /\ Scheduler(push)
      /\ mem_wr_ack' = mem_wr_ack /\ ddr' = ddr
  BY DEF IInv, Edge
<1>2. SUFFICES ASSUME est' = "WR", mem_wr_ack PROVE ddr[mem_wr'.word] = mem_wr'.val
  BY <1>1 DEF LandedInv
<1>3. est \in {"WR", "WR_END"}
  BY <1>1, <1>2 DEF ChannelInv
<1>4. WriteChannel
  BY <1>1, <1>3 DEF Scheduler, Drain, StartRead, StayIdle, ReadChannel
<1>5. est = "WR" /\ mem_wr' = mem_wr
  BY <1>2, <1>3, <1>4 DEF WriteChannel
<1>6. QED
  BY <1>1, <1>2, <1>5 DEF LandedInv

LEMMA EdgeLines ==
  ASSUME IInv, NEW push \in BOOLEAN, NEW word \in Words, NEW val \in Values, Edge(push, word, val)
  PROVE  LinesAreCurrent'
<1>1. Cache(push) /\ Fifo(push, word, val) /\ LinesAreCurrent /\ FillInv
      /\ line \in [{"A", "B", "M"} -> Line]
  BY DEF IInv, Edge, CountIsOccupancy, TypeOK, Line
<1>2. CASE push
  BY <1>1, <1>2, EmptyTypes DEF Cache, LinesAreCurrent
<1>3. CASE ~push
  <2>1. written' = written
    BY <1>1, <1>3 DEF Fifo
  <2>2. Filled(push) => mem_rd_q = BeatIn(written, mem_rd_addr)
    BY <1>1 DEF Filled, Poisoned, FillInv
  <2> DEFINE New == [v |-> TRUE, t |-> mem_rd_addr, d |-> mem_rd_q]
  <2>3. ASSUME NEW l \in DOMAIN line', line'[l].v
        PROVE  line'[l].d = BeatIn(written, line'[l].t)
    <3>1. l \in {"A", "B", "M"}
      BY <1>1, <1>3, <2>3 DEF Cache
    <3>2. line'[l] = line[l] \/ (Filled(push) /\ line'[l] = New)
      BY <1>1, <1>3, <3>1 DEF Cache
    <3>3. CASE line'[l] = line[l]
      BY <1>1, <2>3, <3>1, <3>3 DEF LinesAreCurrent
    <3>4. CASE Filled(push) /\ line'[l] = New
      BY <2>2, <3>4
    <3>5. QED
      BY <3>2, <3>3, <3>4
  <2>4. QED
    BY <2>1, <2>3 DEF LinesAreCurrent, BeatIn
<1>4. QED
  BY <1>2, <1>3

(* Where the word a pop takes goes: into the write channel, whose last word is *)
(* in DDR3 by the time the channel is given up.                              *)
LEMMA EdgeChannel ==
  ASSUME IInv, NEW push \in BOOLEAN, NEW word \in Words, NEW val \in Values,
         Edge(push, word, val), NEW w \in Words
  PROVE  /\ Popped => est' = "WR" /\ mem_wr' = Entry(0)
         /\ ~Popped /\ est' = "WR" => est = "WR" /\ mem_wr' = mem_wr
         /\ est = "WR" /\ est' # "WR" => ddr[mem_wr.word] = mem_wr.val
<1>1. /\ ChannelInv /\ LandedInv /\ Scheduler(push)
      /\ wf_rp \in 0 .. FifoDepth - 1
  BY DEF IInv, Edge, CountIsOccupancy, TypeOK
<1>2. Popped => est' = "WR" /\ mem_wr' = Entry(0)
  <2>1. SUFFICES ASSUME Popped PROVE est' = "WR" /\ mem_wr' = Entry(0)
    OBVIOUS
  <2>2. Drain
    BY <1>1, <2>1 DEF Popped, Scheduler, StartRead, MayStart, StayIdle, WriteChannel, ReadChannel
  <2>3. 0 \in 0 .. FifoDepth /\ wf_rp + 0 < FifoDepth /\ wf_rp + 0 = wf_rp
    BY <1>1, SizeAssumption
  <2>4. (wf_rp + 0) % FifoDepth = wf_rp
    BY <1>1, <2>3, Wrap, SizeAssumption
  <2>5. QED
    BY <2>2, <2>4 DEF Drain, Entry
<1>3. ~Popped /\ est' = "WR" => est = "WR" /\ mem_wr' = mem_wr
  BY <1>1 DEF Popped, Scheduler, Drain, StartRead, StayIdle, WriteChannel, ReadChannel
<1>4. est = "WR" /\ est' # "WR" => ddr[mem_wr.word] = mem_wr.val
  <2>1. SUFFICES ASSUME est = "WR", est' # "WR" PROVE ddr[mem_wr.word] = mem_wr.val
    OBVIOUS
  <2>2. WriteChannel
    BY <1>1, <2>1 DEF Scheduler, Drain, StartRead, StayIdle, ReadChannel
  <2>3. mem_wr_ack
    BY <2>1, <2>2 DEF WriteChannel
  <2>4. QED
    BY <1>1, <2>1, <2>3 DEF LandedInv
<1>5. QED
  BY <1>2, <1>3, <1>4

LEMMA EdgeLands ==
  ASSUME IInv, NEW push \in BOOLEAN, NEW word \in Words, NEW val \in Values,
         Edge(push, word, val), NEW w \in Words
  PROVE  Lands(w)'
<1> DEFINE s == IF Popped THEN 1 ELSE 0
           n == wf_cnt - s
<1>1. /\ CountIsOccupancy /\ Fifo(push, word, val) /\ Lands(w) /\ ddr' = ddr
      /\ wf_cnt \in Nat /\ written \in [Words -> Values]
  BY DEF IInv, Edge, CountIsOccupancy, TypeOK, AllLand
<1>2. s \in {0, 1} /\ n \in Nat /\ wf_cnt = n + s
  BY <1>1 DEF Popped
<1>3. /\ wf_cnt' = (IF Accepted(push) THEN n + 1 ELSE n)
      /\ ~Accepted(push) => written' = written
      /\ Accepted(push) => written' = [written EXCEPT ![word] = val]
  BY <1>1, FifoPointers
<1>4. /\ \A i \in 0 .. n - 1 : Entry(i)' = Entry(i + s)
      /\ \A i : Accepted(push) /\ i = n => Entry(i)' = [word |-> word, val |-> val]
  BY <1>1, FifoQueue
<1>5. /\ Popped => est' = "WR" /\ mem_wr' = Entry(0)
      /\ ~Popped /\ est' = "WR" => est = "WR" /\ mem_wr' = mem_wr
      /\ est = "WR" /\ est' # "WR" => ddr[mem_wr.word] = mem_wr.val
  BY EdgeChannel
<1>6. Popped => s = 1 /\ est = "IDLE"
  BY DEF Popped
<1>7. ~Popped => s = 0
  OBVIOUS
<1> HIDE DEF s, n
<1>8. ASSUME NEW i \in 0 .. wf_cnt' - 1, Entry(i)'.word = w,
             \A j \in i + 1 .. wf_cnt' - 1 : Entry(j)'.word # w
      PROVE  Entry(i)'.val = written'[w]
  <2>1. CASE Accepted(push) /\ i = n
    <3>1. Entry(i)' = [word |-> word, val |-> val]
      BY <1>4, <2>1
    <3>2. QED
      BY <1>1, <1>3, <1>8, <2>1, <3>1
  <2>2. CASE ~(Accepted(push) /\ i = n)
    <3>1. i \in 0 .. n - 1
      BY <1>2, <1>3, <2>2
    <3>2. Entry(i + s).word = w /\ i + s \in 0 .. wf_cnt - 1
      BY <1>2, <1>4, <1>8, <3>1
    <3>3. ASSUME NEW j \in i + s + 1 .. wf_cnt - 1 PROVE Entry(j).word # w
      <4>1. j - s \in 0 .. n - 1 /\ j - s \in i + 1 .. wf_cnt' - 1 /\ (j - s) + s = j
        BY <1>2, <1>3, <3>1
      <4>2. \A k \in 0 .. n - 1 : k + s = j => Entry(k)' = Entry(j)
        BY <1>4
      <4>3. \A k \in i + 1 .. wf_cnt' - 1 : k \in 0 .. n - 1 /\ k + s = j => Entry(j).word # w
        BY <1>8, <4>2
      <4>4. QED
        BY <4>1, <4>3
    <3>4. Entry(i + s).val = written[w]
      BY <1>1, <3>2, <3>3 DEF Lands
    <3>5. written'[w] = written[w]
      <4>1. SUFFICES ASSUME Accepted(push) PROVE word # w
        BY <1>1, <1>3
      <4>2. n \in i + 1 .. wf_cnt' - 1
        BY <1>2, <1>3, <3>1, <4>1
      <4>3. \A k : k = n => Entry(k)' = [word |-> word, val |-> val]
        BY <1>4, <4>1
      <4>4. \A k \in i + 1 .. wf_cnt' - 1 : k = n => word # w
        BY <1>8, <4>3
      <4>5. QED
        BY <4>2, <4>4
    <3>6. QED
      BY <1>4, <3>1, <3>4, <3>5
  <2>3. QED
    BY <2>1, <2>2
<1>9. ASSUME \A i \in 0 .. wf_cnt' - 1 : Entry(i)'.word # w
      PROVE  /\ est' = "WR" /\ mem_wr'.word = w => mem_wr'.val = written'[w]
             /\ ~(est' = "WR" /\ mem_wr'.word = w) => ddr'[w] = written'[w]
  <2>1. written'[w] = written[w]
    <3>1. SUFFICES ASSUME Accepted(push) PROVE word # w
      BY <1>1, <1>3
    <3>2. n \in 0 .. wf_cnt' - 1
      BY <1>2, <1>3, <3>1
    <3>3. \A k : k = n => Entry(k)' = [word |-> word, val |-> val]
      BY <1>4, <3>1
    <3>4. \A k \in 0 .. wf_cnt' - 1 : k = n => word # w
      BY <1>9, <3>3
    <3>5. QED
      BY <3>2, <3>4
  <2>2. ASSUME NEW j \in s .. wf_cnt - 1 PROVE Entry(j).word # w
    <3>1. j - s \in 0 .. n - 1 /\ j - s \in 0 .. wf_cnt' - 1 /\ (j - s) + s = j
      BY <1>2, <1>3
    <3>2. \A k \in 0 .. n - 1 : k + s = j => Entry(k)' = Entry(j)
      BY <1>4
    <3>3. QED
      BY <1>9, <3>1, <3>2
  <2>3. CASE Popped /\ Entry(0).word = w
    <3>1. 0 \in 0 .. wf_cnt - 1 /\ \A j \in 0 + 1 .. wf_cnt - 1 : Entry(j).word # w
      BY <1>1, <1>6, <2>2, <2>3 DEF Popped
    <3>2. Entry(0).val = written[w]
      BY <1>1, <2>3, <3>1 DEF Lands
    <3>3. QED
      BY <1>5, <2>1, <2>3, <3>2
  <2>4. CASE ~(Popped /\ Entry(0).word = w)
    <3>1. \A j \in 0 .. wf_cnt - 1 : Entry(j).word # w
      BY <1>1, <1>6, <1>7, <2>2, <2>4
    <3>2. /\ est = "WR" /\ mem_wr.word = w => mem_wr.val = written[w]
          /\ ~(est = "WR" /\ mem_wr.word = w) => ddr[w] = written[w]
      BY <1>1, <3>1 DEF Lands
    <3>3. CASE Popped
      BY <1>1, <1>5, <1>6, <2>1, <2>4, <3>2, <3>3
    <3>4. CASE ~Popped
      BY <1>1, <1>5, <2>1, <3>2, <3>4
    <3>5. QED
      BY <3>3, <3>4
  <2>5. QED
    BY <2>3, <2>4
<1>10. QED
  BY <1>8, <1>9 DEF Lands

-----------------------------------------------------------------------------
(* The results.                                                            *)

LEMMA InvStep == IInv /\ [Next]_vars => IInv'
<1> SUFFICES ASSUME IInv, [Next]_vars PROVE IInv'
  OBVIOUS
<1>1. CountIsOccupancy' /\ ChannelInv'
  BY CountStep, ChannelStep DEF IInv
<1>2. FillInv' /\ LandedInv' /\ AllLand' /\ LinesAreCurrent'
  <2>1. ASSUME NEW push \in BOOLEAN, NEW word \in Words, NEW val \in Values, Edge(push, word, val)
        PROVE  FillInv' /\ LandedInv' /\ AllLand' /\ LinesAreCurrent'
    <3>1. FillInv' /\ LandedInv' /\ LinesAreCurrent'
      BY <2>1, EdgeFillInv, EdgeLandedInv, EdgeLines
    <3>2. \A w \in Words : Lands(w)'
      BY <2>1, EdgeLands
    <3>3. QED
      BY <3>1, <3>2 DEF AllLand
  <2>2. CASE DdrRead
    BY <2>2, DdrReadInv
  <2>3. CASE DdrWrite
    BY <2>3, DdrWriteInv
  <2>4. CASE CoreReset
    BY <2>4, CoreResetInv
  <2>5. CASE UNCHANGED <<cacheVars, fifoVars, readVars, writeVars, schedVars, ddr, written>>
    <3> USE DEF cacheVars, fifoVars, readVars, writeVars, schedVars
    <3>1. FillInv' /\ LandedInv'
      BY <2>5 DEF IInv, FillInv, LandedInv, BeatIn
    <3>2. AllLand'
      BY <2>5 DEF IInv, AllLand, Lands, Entry
    <3>3. LinesAreCurrent'
      BY <2>5 DEF IInv, LinesAreCurrent, BeatIn
    <3>4. QED
      BY <3>1, <3>2, <3>3
  <2>6. QED
    BY <2>1, <2>2, <2>3, <2>4, <2>5, StepForms, Zenon
<1>3. QED
  BY <1>1, <1>2 DEF IInv

(* The inductive invariant: the count and the pointers agree, the channels     *)
(* follow their handshake, a fill no push overtook is of a window with nothing *)
(* on its way, and every posted write is still to land or has landed.         *)
THEOREM RamInvariant == Spec => []IInv
<1>1. Init => IInv
  BY InitInv
<1>2. IInv /\ [Next]_vars => IInv'
  BY InvStep
<1>3. QED
  BY <1>1, <1>2, PTL DEF Spec

(* The posted-write FIFO of k573dio never counts a write it did not take or    *)
(* forgets one it holds, whatever its depth and whatever meets on an edge.     *)
THEOREM CountAlwaysOccupancy == Spec => []CountIsOccupancy
<1>1. IInv => CountIsOccupancy
  BY DEF IInv
<1>2. QED
  BY <1>1, RamInvariant, PTL

(* "A valid line can never be stale": for every window and every line, what a  *)
(* hit returns is what the game's accepted writes left there.                *)
THEOREM LinesAlwaysCurrent == Spec => []LinesAreCurrent
<1>1. IInv => LinesAreCurrent
  BY DEF IInv
<1>2. QED
  BY <1>1, RamInvariant, PTL

(* No accepted write is lost, repeated or reordered between b4 and DDR3.       *)
THEOREM WritesAlwaysLand == Spec => []WritesLand
<1>1. IInv => WritesLand
  BY LandsIsSettled DEF IInv, AllLand, CountIsOccupancy, WritesLand
<1>2. QED
  BY <1>1, RamInvariant, PTL

-----------------------------------------------------------------------------
(* What the credit unit makes of two reports less than one turn apart.       *)
LEMMA DeltaIsExact ==
  ASSUME last_cons = reported % ConsMod, reported \in Nat, svc_cons \in Nat,
         reported <= svc_cons, svc_cons < reported + ConsMod
  PROVE  Delta(svc_cons % ConsMod) = svc_cons - reported
<1> DEFINE d == svc_cons - reported
<1>1. d \in 0 .. ConsMod - 1 /\ svc_cons = reported + d
  BY ConsAssumption
<1> HIDE DEF d
<1>2. svc_cons % ConsMod = IF last_cons + d < ConsMod THEN last_cons + d ELSE last_cons + d - ConsMod
  <2>1. ConsMod \in Nat \ {0}
    BY ConsAssumption
  <2>2. (reported + d) % ConsMod = IF (reported % ConsMod) + d < ConsMod
                                   THEN (reported % ConsMod) + d
                                   ELSE (reported % ConsMod) + d - ConsMod
    BY <1>1, <2>1, ModShift
  <2>3. QED
    BY <1>1, <2>2
<1>3. last_cons \in 0 .. ConsMod - 1
  BY DivMod, ConsAssumption
<1>4. Delta(svc_cons % ConsMod) = d
  BY <1>1, <1>2, <1>3, ConsAssumption DEF Delta
<1>5. QED
  BY <1>4 DEF d

-----------------------------------------------------------------------------
(* The parts of the inductive invariant.                                   *)

(* Where the streamer may be, once a re-arm has reached it.                  *)
PlaceInv ==
  pending # "rearm" =>
    /\ cur >= mp3_start
    /\ state = "LOAD" => cur = mp3_start
    /\ state \in {"REQ", "STB", "CAP", "HI", "LO"} => cur < mp3_end

(* What an exchange carries: of the reset the service knows, an epoch that    *)
(* is not ahead, and behind only if the service was no further.              *)
PollInv ==
  /\ thawed => told
  /\ told /\ poll # "none" => snap.told
  /\ snap.told /\ poll # "none" =>
       /\ snap.epoch <= cfg_epoch
       /\ snap.epoch < cfg_epoch \/ pending # "none" => svc_epoch <= snap.epoch
  /\ poll = "mp3cfg" => snap.epoch # svc_epoch
  /\ pending # "none" => told /\ svc_epoch <= cfg_epoch
  /\ ~told => cfg_epoch = 0

(* The count that waits to be reported is less than one turn ahead.          *)
CountInv == svc_cons < reported + ConsMod

(* Credit is of the configuration the service is at, and of what it reported. *)
CreditInv ==
  /\ rebaseline <=> origin = "none"
  /\ origin = "none" => credit = 0 /\ taken = 0
  /\ origin \in {"clean", "late"} =>
       /\ thawed /\ svc_epoch = cfg_epoch
       /\ last_cons = reported % ConsMod
       /\ taken + credit <= reported

Mp3Inv == InStep /\ PlaceInv /\ PollInv /\ CountInv /\ CreditInv /\ MirrorInSync

LEMMA NoSnapType == NoSnap \in [epoch : Nat, told : BOOLEAN]
BY DEF NoSnap

LEMMA Mp3InitInv == Mp3Init => Mp3Inv
<1> SUFFICES ASSUME Mp3Init PROVE Mp3Inv
  OBVIOUS
<1> USE AddressAssumption, ConsAssumption, BoundAssumption
<1>1. Mp3TypeOK
  <2>1. /\ NoSnap \in [epoch : Nat, told : BOOLEAN]
        /\ NoConfig \in [start : Starts, end : Ends, ctrl : SUBSET {13, 14, 15}, ddrsbm : BOOLEAN]
    BY NoSnapType DEF NoConfig
  <2>2. 0 \in Starts /\ 0 \in Ends /\ 0 \in 0 .. ConsMod - 1 /\ 0 \in 0 .. CredMax
        /\ 0 \in 0 .. MaxResets /\ {} \subseteq {13, 14, 15} /\ "IDLE" \in States
        /\ 0 \in Nat /\ 0 <= 0
    BY DEF States
  <2>3. QED
    BY <2>1, <2>2, Zenon DEF Mp3Init, Mp3TypeOK
<1>2. KeysInStep /\ BytesInStep /\ PlaceInv
  BY DEF Mp3Init, KeysInStep, BytesInStep, PlaceInv
<1>3. PollInv /\ CountInv /\ CreditInv /\ MirrorInSync
  BY DEF Mp3Init, PollInv, CountInv, CreditInv, MirrorInSync, Mirrors
<1>4. QED
  BY <1>1, <1>2, <1>3 DEF Mp3Inv, InStep

-----------------------------------------------------------------------------
(* Types.                                                                   *)
LEMMA CreditTypes ==
  ASSUME Mp3TypeOK, Credit(svc_cons % ConsMod), reported' = svc_cons
  PROVE  /\ last_cons' \in 0 .. ConsMod - 1 /\ credit' \in 0 .. CredMax
         /\ rebaseline' \in BOOLEAN /\ cred_ovf' \in BOOLEAN
         /\ origin' \in {"none", "stale", "late", "clean"} /\ taken' \in Nat
         /\ reported' \in Nat
<1> DEFINE c == svc_cons % ConsMod
<1>1. c \in 0 .. ConsMod - 1
  BY DivMod, ConsAssumption DEF Mp3TypeOK
<1> HIDE DEF c
<1>2. last_cons' = c /\ taken' = taken /\ reported' \in Nat
  BY DEF Credit, Mp3TypeOK, c
<1>3. Delta(c) \in Nat
  BY <1>1, ConsAssumption DEF Delta, Mp3TypeOK
<1>4. Clamp(credit + Delta(c)) \in 0 .. CredMax
  BY <1>3, ConsAssumption DEF Clamp, Mp3TypeOK
<1>5. credit' \in 0 .. CredMax
  BY <1>4 DEF Credit, Mp3TypeOK, c
<1>6. rebaseline' \in BOOLEAN /\ cred_ovf' \in BOOLEAN
  BY DEF Credit, Mp3TypeOK
<1>7. origin' \in {"none", "stale", "late", "clean"}
  BY DEF Credit, Mp3TypeOK
<1>8. QED
  BY <1>1, <1>2, <1>5, <1>6, <1>7 DEF Mp3TypeOK

LEMMA Mp3TypeStep == Mp3TypeOK /\ [Mp3Next]_pacingVars => Mp3TypeOK'
<1> SUFFICES ASSUME Mp3TypeOK, [Mp3Next]_pacingVars PROVE Mp3TypeOK'
  OBVIOUS
<1> USE AddressAssumption, CtrlAssumption, ConsAssumption, BoundAssumption
<1>1. ASSUME NEW start \in Starts, NEW end \in Ends, WriteSetup(start, end) PROVE Mp3TypeOK'
  BY <1>1 DEF WriteSetup, Mp3TypeOK, streamVars, creditVars, mboxVars, hpsVars
<1>2. ASSUME NEW bits \in CtrlWords, WriteCtrl(bits) PROVE Mp3TypeOK'
  <2>1. bit15' \in BOOLEAN
    BY <1>2, Zenon DEF WriteCtrl, Mp3TypeOK
  <2>2. pending' \in {"none", "rearm", "notice"} /\ fpga_ctrl' \subseteq {13, 14, 15}
    BY <1>2 DEF WriteCtrl, Notice, Mp3TypeOK
  <2>3. QED
    BY <1>2, <2>1, <2>2 DEF WriteCtrl, Mp3TypeOK, streamVars, creditVars, mboxVars, hpsVars
<1>3. CASE ChangeScheme
  BY <1>3 DEF ChangeScheme, Notice, Mp3TypeOK, streamVars, creditVars, mboxVars, hpsVars
<1>4. CASE NewEpoch
  <2>1. bit15' \in BOOLEAN /\ rebaseline' \in BOOLEAN
    BY <1>4, Zenon DEF NewEpoch, CreditDropped
  <2>2. state' \in States /\ cur' \in Nat /\ byte_counter' \in Nat /\ schedule' \in Nat
    BY <1>4 DEF NewEpoch, Mp3TypeOK, States, streamVars
  <2>3. QED
    BY <1>4, <2>1, <2>2 DEF NewEpoch, CreditDropped, Mp3TypeOK, mboxVars, hpsVars
<1>5. CASE StreamStep
  BY <1>5 DEF StreamStep, StreamStart, StreamLoad, StreamAddress, StreamRead, StreamStrobe,
     StreamCapture, StreamRetire, StreamAbandon, Mp3TypeOK, States, dioVars, creditVars,
     mboxVars, hpsVars
<1>6. CASE Accept
  BY <1>6 DEF Accept, out_ready, Mp3TypeOK, States, dioVars, mboxVars, hpsVars
<1>7. CASE PtrsCmd
  BY <1>7 DEF PtrsCmd, Mp3TypeOK, dioVars, streamVars, creditVars
<1>8. CASE PtrsWord2
  <2>1. CASE thawed
    BY <1>8, <2>1, CreditTypes DEF PtrsWord2, Mp3TypeOK, dioVars, streamVars, mboxVars
  <2>2. CASE ~thawed
    BY <1>8, <2>2 DEF PtrsWord2, Mp3TypeOK, dioVars, streamVars, mboxVars, creditVars
  <2>3. QED
    BY <2>1, <2>2
<1>9. CASE PtrsWord3
  <2>1. told' \in BOOLEAN /\ thawed' \in BOOLEAN
    BY <1>9, Zenon DEF PtrsWord3, Mp3TypeOK
  <2>2. snap' \in [epoch : Nat, told : BOOLEAN]
    BY <1>9, NoSnapType DEF PtrsWord3, Mp3TypeOK
  <2>3. QED
    BY <1>9, <2>1, <2>2 DEF PtrsWord3, Mp3TypeOK, dioVars, streamVars, creditVars
<1>10. CASE Mp3Cfg
  <2>1. /\ bit15' \in BOOLEAN
        /\ svc_cfg' \in [start : Starts, end : Ends, ctrl : SUBSET {13, 14, 15}, ddrsbm : BOOLEAN]
    BY <1>10, Zenon DEF Mp3Cfg, Config, Mp3TypeOK
  <2>2. snap' \in [epoch : Nat, told : BOOLEAN] /\ svc_epoch' \in Nat
    BY <1>10 DEF Mp3Cfg, NoSnap, Mp3TypeOK
  <2>3. QED
    BY <1>10, <2>1, <2>2 DEF Mp3Cfg, Mp3TypeOK, streamVars, creditVars
<1>11. CASE PollAbort
  BY <1>11 DEF PollAbort, NoSnap, Mp3TypeOK, dioVars, streamVars, creditVars
<1>12. CASE HpsConsume
  BY <1>12 DEF HpsConsume, Mp3TypeOK, dioVars, streamVars, creditVars, mboxVars
<1>13. CASE Mp3Reset
  <2>1. snap' \in [epoch : Nat, told : BOOLEAN]
    <3>1. snap' = [snap EXCEPT !.told = (poll = "none")] /\ (poll = "none") \in BOOLEAN
      BY <1>13 DEF Mp3Reset
    <3>2. QED
      BY <3>1, Zenon DEF Mp3TypeOK
  <2>2. /\ 0 \in Starts /\ 0 \in Ends /\ 0 \in 0 .. ConsMod - 1 /\ 0 \in 0 .. CredMax
        /\ resets' \in 0 .. MaxResets /\ {} \subseteq {13, 14, 15} /\ "IDLE" \in States
    BY <1>13 DEF Mp3Reset, Mp3TypeOK, States
  <2>3. QED
    BY <1>13, <2>1, <2>2, Zenon DEF Mp3Reset, Mp3TypeOK
<1>14. CASE UNCHANGED pacingVars
  BY <1>14 DEF pacingVars, dioVars, streamVars, creditVars, mboxVars, hpsVars, Mp3TypeOK
<1>15. QED
  BY <1>1, <1>2, <1>3, <1>4, <1>5, <1>6, <1>7, <1>8, <1>9, <1>10, <1>11, <1>12, <1>13, <1>14
     DEF Mp3Next, Game, Exchange

-----------------------------------------------------------------------------
(* The streamer's position: only its own steps, a re-arm and a reset move it. *)
LEMMA PositionStep ==
  ASSUME Mp3TypeOK, KeysInStep, BytesInStep, PlaceInv, [Mp3Next]_pacingVars
  PROVE  KeysInStep' /\ BytesInStep' /\ PlaceInv'
<1> DEFINE Position == KeysInStep /\ BytesInStep /\ PlaceInv
<1> SUFFICES Position'
  OBVIOUS
<1>0. cur \in Nat /\ mp3_start \in Nat /\ mp3_end \in Nat /\ schedule \in Nat /\ byte_counter \in Nat
  BY AddressAssumption DEF Mp3TypeOK
<1> USE DEF KeysInStep, BytesInStep, PlaceInv
<1>1. ASSUME UNCHANGED <<mp3_start, mp3_end, state, cur, byte_counter, schedule>>,
             pending # "rearm"
      PROVE  Position'
  BY <1>1
<1>2. ASSUME NEW start \in Starts, NEW end \in Ends, WriteSetup(start, end) PROVE Position'
  BY <1>2 DEF WriteSetup
<1>3. CASE \/ \E bits \in CtrlWords : WriteCtrl(bits)
           \/ ChangeScheme
  BY <1>1, <1>3 DEF WriteCtrl, ChangeScheme, GameMayWrite, streamVars
<1>4. CASE NewEpoch
  <2>1. CASE pending = "rearm"
    <3>1. /\ state' = "LOAD" /\ cur' = mp3_start /\ mp3_start' = mp3_start
          /\ byte_counter' = 0 /\ mp3_end' = mp3_end
      BY <1>4, <2>1 DEF NewEpoch
    <3>2. mp3_start - mp3_start = 0 /\ ~(mp3_start > mp3_start)
      BY <1>0
    <3>3. BytesInStep'
      <4>1. (IF state' = "LO" THEN 1 ELSE 0) = 0
        BY <3>1
      <4>2. (IF cur' >= mp3_end' /\ cur' > mp3_start' THEN 1 ELSE 0) = 0
        BY <3>1, <3>2
      <4>3. cur' - mp3_start' = 0 /\ byte_counter' = 0
        BY <3>1, <3>2
      <4>4. QED
        BY <4>1, <4>2, <4>3
    <3>4. KeysInStep' /\ PlaceInv'
      BY <1>0, <3>1
    <3>5. QED
      BY <3>3, <3>4
  <2>2. CASE pending # "rearm"
    BY <1>1, <1>4, <2>2 DEF NewEpoch, streamVars
  <2>3. QED
    BY <2>1, <2>2
<1>5. CASE StreamStep
  <2>0. pending # "rearm" /\ UNCHANGED <<mp3_start, mp3_end, pending>>
    BY <1>5 DEF StreamStep, dioVars
  <2>1. CASE StreamStart
    BY <1>0, <2>0, <2>1 DEF StreamStart
  <2>2. CASE StreamLoad
    BY <1>0, <2>0, <2>2 DEF StreamLoad
  <2>3. CASE StreamAddress
    BY <1>0, <2>0, <2>3 DEF StreamAddress
  <2>4. CASE StreamRead
    BY <1>0, <2>0, <2>4 DEF StreamRead
  <2>5. CASE StreamStrobe
    BY <1>0, <2>0, <2>5 DEF StreamStrobe
  <2>6. CASE StreamCapture
    BY <1>0, <2>0, <2>6 DEF StreamCapture
  <2>7. CASE StreamRetire
    BY <1>0, <2>0, <2>7 DEF StreamRetire, last_word
  <2>8. CASE StreamAbandon
    BY <1>0, <2>0, <2>8 DEF StreamAbandon
  <2>9. QED
    BY <1>5, <2>1, <2>2, <2>3, <2>4, <2>5, <2>6, <2>7, <2>8 DEF StreamStep
<1>6. CASE Accept
  BY <1>0, <1>6 DEF Accept, last_word, dioVars
<1>7. CASE Exchange \/ PollAbort \/ HpsConsume
  <2>1. UNCHANGED <<mp3_start, mp3_end, pending, state, cur, byte_counter, schedule>>
    BY <1>7 DEF Exchange, PtrsCmd, PtrsWord2, PtrsWord3, Mp3Cfg, PollAbort, HpsConsume,
       dioVars, streamVars
  <2>2. QED
    BY <2>1
<1>8. CASE Mp3Reset
  BY <1>8 DEF Mp3Reset
<1>9. CASE UNCHANGED pacingVars
  BY <1>9 DEF pacingVars, dioVars, streamVars
<1>10. QED
  BY <1>2, <1>3, <1>4, <1>5, <1>6, <1>7, <1>8, <1>9 DEF Mp3Next, Game

-----------------------------------------------------------------------------
(* The exchange against changes of the configuration and resets.             *)
LEMMA PollStep ==
  ASSUME Mp3TypeOK, PollInv, [Mp3Next]_pacingVars
  PROVE  PollInv'
<1>0. cfg_epoch \in Nat /\ svc_epoch \in Nat /\ snap.epoch \in Nat
  BY DEF Mp3TypeOK
<1> USE DEF PollInv
<1>1. ASSUME NEW start \in Starts, NEW end \in Ends, WriteSetup(start, end) PROVE PollInv'
  BY <1>0, <1>1 DEF WriteSetup, GameMayWrite, mboxVars, hpsVars
<1>2. ASSUME NEW bits \in CtrlWords, WriteCtrl(bits) PROVE PollInv'
  BY <1>0, <1>2 DEF WriteCtrl, Notice, GameMayWrite, mboxVars, hpsVars
<1>3. CASE ChangeScheme
  BY <1>0, <1>3 DEF ChangeScheme, Notice, GameMayWrite, mboxVars, hpsVars
<1>4. CASE NewEpoch
  BY <1>0, <1>4 DEF NewEpoch, mboxVars, hpsVars
<1>5. CASE StreamStep \/ Accept \/ HpsConsume \/ PtrsWord2
  <2>1. UNCHANGED <<thawed, told, snap, cfg_epoch, pending, svc_epoch>>
        /\ (poll' = poll \/ (poll = "word2" /\ poll' = "word3"))
    BY <1>5 DEF StreamStep, Accept, HpsConsume, PtrsWord2, dioVars, mboxVars, hpsVars
  <2>2. QED
    BY <2>1
<1>6. CASE PtrsCmd
  BY <1>0, <1>6 DEF PtrsCmd, dioVars
<1>7. CASE PtrsWord3
  BY <1>0, <1>7 DEF PtrsWord3, NoSnap, dioVars
<1>8. CASE Mp3Cfg
  BY <1>0, <1>8 DEF Mp3Cfg, NoSnap
<1>9. CASE PollAbort
  BY <1>0, <1>9 DEF PollAbort, dioVars
<1>10. CASE Mp3Reset
  <2>1. poll # "none" => ~snap'.told
    BY <1>10 DEF Mp3Reset, Mp3TypeOK
  <2>2. QED
    BY <1>10, <2>1 DEF Mp3Reset, Mp3TypeOK
<1>11. CASE UNCHANGED pacingVars
  BY <1>11 DEF pacingVars, dioVars, mboxVars, hpsVars
<1>12. QED
  BY <1>1, <1>2, <1>3, <1>4, <1>5, <1>6, <1>7, <1>8, <1>9, <1>10, <1>11 DEF Mp3Next, Game, Exchange

-----------------------------------------------------------------------------
(* The count runs ahead of the reports by less than it can tell apart.       *)
LEMMA ReportedStep ==
  ASSUME Mp3TypeOK, CountInv, [Mp3Next]_pacingVars
  PROVE  CountInv'
<1> USE ConsAssumption DEF CountInv, Mp3TypeOK
<1>1. CASE Game
  BY <1>1 DEF Game, WriteSetup, WriteCtrl, ChangeScheme, hpsVars
<1>2. CASE NewEpoch \/ StreamStep \/ Accept
  BY <1>2 DEF NewEpoch, StreamStep, Accept, hpsVars
<1>3. CASE PtrsWord2
  BY <1>3 DEF PtrsWord2, creditVars
<1>4. CASE Mp3Cfg
  BY <1>4 DEF Mp3Cfg
<1>5. CASE HpsConsume
  BY <1>5 DEF HpsConsume
<1>6. CASE PtrsCmd \/ PtrsWord3 \/ PollAbort \/ Mp3Reset
  BY <1>6 DEF PtrsCmd, PtrsWord3, PollAbort, Mp3Reset
<1>7. CASE UNCHANGED pacingVars
  BY <1>7 DEF pacingVars, hpsVars
<1>8. QED
  BY <1>1, <1>2, <1>3, <1>4, <1>5, <1>6, <1>7 DEF Mp3Next, Exchange

(* A report: adopted as a baseline it gives no credit, and is not called a    *)
(* song's own unless it is of the current configuration; credited, it gives   *)
(* at most the bytes consumed since the last one.                            *)
LEMMA ReportStep ==
  ASSUME Mp3TypeOK, PollInv, CountInv, CreditInv, PtrsWord2
  PROVE  CreditInv'
<1> DEFINE c == svc_cons % ConsMod
<1>1. UNCHANGED <<thawed, svc_epoch, cfg_epoch, svc_cons>>
  BY DEF PtrsWord2, dioVars, mboxVars
<1>2. CASE ~thawed
  BY <1>1, <1>2 DEF PtrsWord2, creditVars, CreditInv
<1>3. CASE thawed
  <2>0. Credit(c) /\ reported' = svc_cons /\ last_cons' = c /\ taken' = taken
    BY <1>3 DEF PtrsWord2, Credit
  <2>a. /\ reported \in Nat /\ svc_cons \in Nat /\ reported <= svc_cons
        /\ svc_cons < reported + ConsMod /\ taken \in Nat /\ credit \in Nat
    BY DEF Mp3TypeOK, CountInv
  <2>d. last_cons = reported % ConsMod => Delta(c) = svc_cons - reported
    BY <2>a, DeltaIsExact
  <2>m. reported' % ConsMod = c
    BY <2>0
  <2> HIDE DEF c
  <2>1. CASE c = last_cons
    <3>1. UNCHANGED <<rebaseline, credit, origin, taken>>
      BY <2>0, <2>1 DEF Credit
    <3>2. QED
      BY <1>1, <2>0, <2>a, <2>m, <3>1 DEF CreditInv
  <2>2. CASE c # last_cons /\ rebaseline
    <3>1. rebaseline' = FALSE /\ credit' = credit
          /\ origin' = IF svc_epoch # cfg_epoch \/ pending # "none" THEN "stale"
                       ELSE IF svc_cons = 0 THEN "clean" ELSE "late"
      BY <2>0, <2>2 DEF Credit
    <3>2. credit' = 0 /\ taken' = 0
      BY <2>0, <2>2, <3>1 DEF CreditInv
    <3>3. origin' \in {"clean", "late"} => svc_epoch = cfg_epoch
      BY <3>1
    <3>4. QED
      BY <1>1, <1>3, <2>0, <2>a, <2>m, <3>1, <3>2, <3>3 DEF CreditInv
  <2>3. CASE c # last_cons /\ ~rebaseline
    <3>1. credit' = Clamp(credit + Delta(c)) /\ UNCHANGED <<rebaseline, origin>>
      BY <2>0, <2>3 DEF Credit
    <3>2. last_cons = reported % ConsMod => credit' <= credit + (svc_cons - reported)
      BY <2>a, <2>d, <3>1, ConsAssumption DEF Clamp
    <3>3. origin # "none"
      BY <2>3 DEF CreditInv
    <3>4. credit' \in Nat
      BY <2>0, CreditTypes DEF c
    <3>5. QED
      BY <1>1, <2>0, <2>a, <2>m, <3>1, <3>2, <3>3, <3>4 DEF CreditInv
  <2>4. QED
    BY <2>1, <2>2, <2>3
<1>4. QED
  BY <1>2, <1>3

LEMMA CreditStep ==
  ASSUME Mp3TypeOK, PollInv, CountInv, CreditInv, [Mp3Next]_pacingVars
  PROVE  CreditInv'
<1>0. /\ cfg_epoch \in Nat /\ svc_epoch \in Nat /\ snap.epoch \in Nat
      /\ reported \in Nat /\ taken \in Nat /\ credit \in Nat
  BY DEF Mp3TypeOK
<1>1. ASSUME UNCHANGED <<rebaseline, origin, credit, taken, last_cons, svc_epoch, cfg_epoch,
                         reported>>,
             thawed => thawed'
      PROVE  CreditInv'
  BY <1>1 DEF CreditInv
<1>2. CASE Game
  BY <1>1, <1>2 DEF Game, WriteSetup, WriteCtrl, ChangeScheme, creditVars, mboxVars, hpsVars
<1>3. CASE NewEpoch
  BY <1>3 DEF NewEpoch, CreditDropped, CreditInv
<1>4. CASE StreamStep
  BY <1>1, <1>4 DEF StreamStep, dioVars, creditVars, mboxVars, hpsVars
<1>5. CASE Accept
  BY <1>0, <1>5 DEF Accept, out_ready, CreditInv, dioVars, mboxVars, hpsVars
<1>6. CASE PtrsCmd
  BY <1>1, <1>6 DEF PtrsCmd, dioVars, creditVars
<1>7. CASE PtrsWord2
  BY <1>7, ReportStep
<1>8. CASE PtrsWord3
  <2>1. thawed => thawed'
    BY <1>8 DEF PtrsWord3, PollInv
  <2>2. QED
    BY <1>1, <1>8, <2>1 DEF PtrsWord3, dioVars, creditVars
<1>9. CASE Mp3Cfg
  <2>1. origin \notin {"clean", "late"}
    <3>1. SUFFICES ASSUME origin \in {"clean", "late"} PROVE FALSE
      OBVIOUS
    <3>2. thawed /\ svc_epoch = cfg_epoch
      BY <3>1 DEF CreditInv
    <3>3. poll = "mp3cfg" /\ snap.told /\ snap.epoch # svc_epoch
      BY <1>9, <3>2 DEF Mp3Cfg, PollInv
    <3>4. snap.epoch <= cfg_epoch /\ (snap.epoch < cfg_epoch => svc_epoch <= snap.epoch)
      BY <3>3 DEF PollInv
    <3>5. QED
      BY <1>0, <3>2, <3>3, <3>4
  <2>2. QED
    BY <1>9, <2>1 DEF Mp3Cfg, creditVars, CreditInv
<1>10. CASE PollAbort
  BY <1>1, <1>10 DEF PollAbort, dioVars, creditVars
<1>11. CASE HpsConsume
  BY <1>1, <1>11 DEF HpsConsume, dioVars, creditVars, mboxVars
<1>12. CASE Mp3Reset
  BY <1>12 DEF Mp3Reset, CreditInv
<1>13. CASE UNCHANGED pacingVars
  BY <1>1, <1>13 DEF pacingVars, dioVars, creditVars, mboxVars, hpsVars
<1>14. QED
  BY <1>2, <1>3, <1>4, <1>5, <1>6, <1>7, <1>8, <1>9, <1>10, <1>11, <1>12, <1>13
     DEF Mp3Next, Exchange

(* The service's copy: only the exchange writes it, and every other change of *)
(* the registers moves the epoch past the one the service holds.             *)
LEMMA MirrorStep ==
  ASSUME Mp3TypeOK, PollInv, MirrorInSync, [Mp3Next]_pacingVars
  PROVE  MirrorInSync'
<1>0. cfg_epoch \in Nat /\ svc_epoch \in Nat
  BY DEF Mp3TypeOK
<1> USE DEF MirrorInSync, Mirrors
<1>1. ASSUME UNCHANGED <<dioVars, svc_epoch, svc_cfg>>, told' => told \/ cfg_epoch = 0
      PROVE  MirrorInSync'
  <2>1. UNCHANGED <<pending, cfg_epoch, bit15, Config>>
    BY <1>1 DEF dioVars, Config
  <2>2. QED
    BY <1>1, <2>1
<1>2. CASE Game
  <2>1. CASE pending' # "none"
    BY <2>1
  <2>2. CASE pending' = "none"
    <3>1. PICK bits \in CtrlWords : WriteCtrl(bits)
      BY <1>2, <2>2 DEF Game, WriteSetup, ChangeScheme, Notice
    <3>2. /\ EpochBits(bits) = EpochBits(fpga_ctrl) /\ bit15' = TRUE /\ fpga_ctrl' = bits
          /\ UNCHANGED <<pending, told, cfg_epoch, svc_epoch, svc_cfg, mp3_start, mp3_end, cfg_ddrsbm>>
      BY <2>2, <3>1 DEF WriteCtrl, Notice, hpsVars
    <3>3. Covered(Config') = Covered(Config)
      BY <3>2 DEF Covered, Config
    <3>4. QED
      BY <3>2, <3>3 DEF Covered
  <2>3. QED
    BY <2>1, <2>2
<1>3. CASE NewEpoch
  <2>1. svc_epoch' # cfg_epoch'
    BY <1>0, <1>3 DEF NewEpoch, PollInv, hpsVars
  <2>2. QED
    BY <2>1
<1>4. CASE Mp3Cfg
  <2>1. svc_cfg' = Config /\ Config' = Config
    BY <1>4 DEF Mp3Cfg, Config
  <2>2. QED
    BY <2>1
<1>5. CASE StreamStep \/ Accept \/ PtrsCmd \/ PtrsWord2 \/ PollAbort \/ HpsConsume
  BY <1>1, <1>5 DEF StreamStep, Accept, PtrsCmd, PtrsWord2, PollAbort, HpsConsume, hpsVars
<1>6. CASE PtrsWord3
  <2>1. told' => told \/ cfg_epoch = 0
    BY DEF PollInv
  <2>2. QED
    BY <1>1, <1>6, <2>1 DEF PtrsWord3
<1>7. CASE Mp3Reset
  BY <1>7 DEF Mp3Reset
<1>8. CASE UNCHANGED pacingVars
  BY <1>1, <1>8 DEF pacingVars, hpsVars
<1>9. QED
  BY <1>2, <1>3, <1>4, <1>5, <1>6, <1>7, <1>8 DEF Mp3Next, Exchange

LEMMA IInvStep == Mp3Inv /\ [Mp3Next]_pacingVars => Mp3Inv'
<1> SUFFICES ASSUME Mp3Inv, [Mp3Next]_pacingVars PROVE Mp3Inv'
  OBVIOUS
<1>1. Mp3TypeOK'
  BY Mp3TypeStep DEF Mp3Inv, InStep
<1>2. KeysInStep' /\ BytesInStep' /\ PlaceInv'
  BY PositionStep DEF Mp3Inv, InStep
<1>3. PollInv' /\ CountInv'
  BY PollStep, ReportedStep DEF Mp3Inv, InStep
<1>4. CreditInv' /\ MirrorInSync'
  BY CreditStep, MirrorStep DEF Mp3Inv, InStep
<1>5. QED
  BY <1>1, <1>2, <1>3, <1>4 DEF Mp3Inv, InStep

-----------------------------------------------------------------------------
(* The invariant of the streaming position holds in every reachable state.   *)
THEOREM Inductive == Mp3Spec => []Mp3Inv
<1>1. QED
  BY Mp3InitInv, IInvStep, PTL DEF Mp3Spec

(* Whatever pauses, re-arms and resets came before, every word is descrambled *)
(* with the key of its place and the bytes the game counts are those passed.  *)
THEOREM StreamStaysInStep == Mp3Spec => []InStep
<1>1. Mp3Inv => InStep
  BY DEF Mp3Inv
<1>2. QED
  BY Inductive, <1>1, PTL

(* However configuration writes, polls, aborted polls and resets interleave,  *)
(* an epoch the service holds stands for the registers it copied under it,   *)
(* but for bit 15 of fpga_ctrl, which is copied and moves no epoch: it may    *)
(* differ while it was written on its own since the epoch moved or was        *)
(* answered, and then only that bit.                                          *)
THEOREM ServiceMirrorsRegisters == Mp3Spec => []MirrorInSync
<1>1. Mp3Inv => MirrorInSync
  BY DEF Mp3Inv
<1>2. QED
  BY Inductive, <1>1, PTL

(* Unless its baseline is of an older configuration, the stream the game      *)
(* counts never gets ahead of the bytes the service consumed.                *)
THEOREM CreditNeverLeads == Mp3Spec => []NeverLeads
<1>1. Mp3Inv => NeverLeads
  <2>1. SUFFICES ASSUME Mp3Inv, origin # "stale" PROVE taken + credit <= svc_cons
    BY DEF NeverLeads
  <2>2. /\ svc_cons \in Nat /\ reported \in Nat /\ taken \in Nat /\ credit \in Nat
        /\ reported <= svc_cons /\ origin \in {"none", "clean", "late"}
    BY <2>1 DEF Mp3Inv, InStep, Mp3TypeOK
  <2>3. CASE origin = "none"
    BY <2>1, <2>2, <2>3 DEF Mp3Inv, CreditInv
  <2>4. CASE origin \in {"clean", "late"}
    BY <2>1, <2>2, <2>4 DEF Mp3Inv, CreditInv
  <2>5. QED
    BY <2>2, <2>3, <2>4
<1>2. QED
  BY Inductive, <1>1, PTL
=============================================================================
