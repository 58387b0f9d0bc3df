------------------------------ MODULE AtapiProofs ------------------------------
(***************************************************************************)
(* Proofs about the CD drive, for every size of sector and packet, every     *)
(* settle and pace time and every range read: a READ offers the words it     *)
(* asked for in their order, ends after the last of them, and no interrupt   *)
(* is lost.                                                                 *)
(***************************************************************************)
EXTENDS Atapi, Remainders, TLAPS

-----------------------------------------------------------------------------
(* The types of the drive, the reader and Main. *)
DriveTypes ==
  /\ state \in {"IDLE", "PKT", "DATAIN", "DATAOUT", "FETCH", "TOC", "TOC_BAD", "PREP"}
  /\ status \in {"none", "drq", "busy", "data", "good", "error"}
  /\ reason \in {"CD", "IO", "CD|IO", "out"}
  /\ irq_event \in BOOLEAN /\ datain_disc \in BOOLEAN /\ sec_req \in BOOLEAN
  /\ pkt_idx \in 0 .. PacketWords - 1 /\ pf_cnt \in 0 .. 3
  /\ ridx \in Nat /\ resp_len \in Nat /\ nblk \in Nat /\ cur_lba \in Nat
  /\ fetch_wait \in Nat /\ pf_addr \in Nat /\ words \in Nat
  /\ asked \in [lba : Nat, len : Nat]
  /\ dma_word \in DiscWords /\ pf_skid \in DiscWords

ReaderTypes ==
  /\ cstate \in {"IDLE", "REQ", "STREAM", "DONE"}
  /\ cd_req \in BOOLEAN /\ sec_ready \in BOOLEAN
  /\ wcnt \in 0 .. RawWords - 1 /\ cd_lba \in Nat
  /\ sbuf \in [0 .. UserWords - 1 -> DiscWords] /\ sbuf_q \in DiscWords
  /\ cd_req => cd_lba - Pregap \in ReadLbas

MainTypes ==
  /\ main \in [at : {"idle", "fetch", "ack", "stream"}, lba : Nat, pos : 0 .. RawWords]
  /\ main.at # "idle" => main.lba - Pregap \in ReadLbas
  /\ main.at \in {"fetch", "ack"} => main.pos = 0

IrqTypes ==
  irq_pending \in BOOLEAN /\ irq_out \in BOOLEAN /\ astray \in BOOLEAN /\ unseen \in BOOLEAN

AtapiTypes == DriveTypes /\ ReaderTypes /\ MainTypes /\ IrqTypes

(* Which command has the sector reader at work, and how far its READ has    *)
(* come: whole sectors before this one, and the words taken of it.           *)
Data == state = "DATAIN" /\ datain_disc

StateInv ==
  /\ sec_req => state = "FETCH" /\ pf_cnt = 0
  /\ state \in {"PREP", "TOC"} => ~datain_disc

ReadInv ==
  state = "FETCH" \/ Data =>
    /\ asked.lba \in Lbas /\ asked.len \in Lens
    /\ datain_disc /\ resp_len = UserWords
    /\ nblk \in 1 .. asked.len /\ cur_lba = asked.lba + (asked.len - nblk)
    /\ words = UserWords * (asked.len - nblk) + (IF Data THEN ridx ELSE 0)
    /\ Data => ridx < UserWords

PhaseInv == DriveTypes /\ StateInv /\ ReadInv

LEMMA Sizes ==
  /\ HdrWords \in Nat /\ TailWords \in Nat /\ Pace \in Nat /\ IdentSettle \in Nat /\ Pregap \in Nat
  /\ UserWords \in Nat \ {0, 1} /\ PacketWords \in Nat \ {0, 1} /\ FixedWords \in Nat \ {0, 1}
  /\ Settle \in Nat \ {0} /\ Lbas \subseteq Nat /\ Lens \subseteq Nat
  /\ RawWords \in Nat \ {0, 1} /\ HdrWords + UserWords <= RawWords
<1>1. /\ HdrWords \in Nat /\ TailWords \in Nat /\ Pace \in Nat /\ IdentSettle \in Nat /\ Pregap \in Nat
      /\ UserWords \in Nat \ {0, 1} /\ PacketWords \in Nat \ {0, 1} /\ FixedWords \in Nat \ {0, 1}
      /\ Settle \in Nat \ {0} /\ Lbas \subseteq Nat /\ Lens \subseteq Nat
  BY SizeAssumption, SettleAssumption, ReadAssumption
<1>2. QED
  BY <1>1 DEF RawWords

(* What a packet asks. *)
LEMMA PacketKinds ==
  ASSUME NEW op \in Packets
  PROVE  /\ op.do \in {"nodata", "fixed", "toc", "toc_bad", "select", "illegal", "read"}
         /\ op.do = "read" => op.lba \in Lbas /\ op.len \in Lens
BY DEF Packets, Simple

(* The sector of a READ in progress is on the disc it was asked of. *)
LEMMA SectorIsRead ==
  ASSUME DriveTypes, ReadInv, state = "FETCH"
  PROVE  cur_lba \in ReadLbas
<1>1. /\ asked.lba \in Lbas /\ asked.len \in Lens /\ nblk \in 1 .. asked.len
      /\ cur_lba = asked.lba + (asked.len - nblk)
  BY DEF ReadInv
<1>2. asked.lba \in Nat /\ asked.len \in Nat
  BY <1>1, Sizes
<1>3. cur_lba \in asked.lba .. asked.lba + asked.len
  BY <1>1, <1>2
<1>4. QED
  BY <1>1, <1>3 DEF ReadLbas

-----------------------------------------------------------------------------
(* The drive, access by access.                                             *)

LEMMA ResetPhase ==
  ASSUME PhaseInv, IdeReset
  PROVE  PhaseInv'
<1>1. NoWord \in DiscWords /\ 0 \in 0 .. PacketWords - 1 /\ NoRead \in [lba : Nat, len : Nat]
  BY Sizes DEF DiscWords, NoRead
<1>2. DriveTypes'
  <2>1. /\ state' = "IDLE" /\ status' = "none" /\ reason' = "CD" /\ irq_event' = FALSE
        /\ pkt_idx' = 0 /\ ridx' = 0 /\ resp_len' = 0 /\ datain_disc' = FALSE
        /\ nblk' = 0 /\ cur_lba' = 0 /\ fetch_wait' = 0 /\ pf_cnt' = 0
        /\ pf_addr' = 0 /\ dma_word' = NoWord /\ pf_skid' = NoWord /\ sec_req' = FALSE
        /\ asked' = NoRead /\ words' = 0
    BY DEF IdeReset, Signature
  <2>2. /\ irq_event' \in BOOLEAN /\ datain_disc' \in BOOLEAN /\ sec_req' \in BOOLEAN
    BY <2>1
  <2>3. /\ ridx' \in Nat /\ resp_len' \in Nat /\ nblk' \in Nat /\ cur_lba' \in Nat
        /\ fetch_wait' \in Nat /\ pf_addr' \in Nat /\ words' \in Nat /\ pf_cnt' \in 0 .. 3
        /\ pkt_idx' \in 0 .. PacketWords - 1
    BY <1>1, <2>1
  <2>4. QED
    BY <1>1, <2>1, <2>2, <2>3 DEF DriveTypes
<1>3. StateInv' /\ ReadInv'
  BY DEF IdeReset, StateInv, ReadInv, Data
<1>4. QED
  BY <1>2, <1>3 DEF PhaseInv

(* The counters of a fetch. *)
LEMMA CountersType ==
  ASSUME DriveTypes, sbuf_q \in DiscWords, Counters
  PROVE  /\ fetch_wait' \in Nat /\ pf_cnt' \in 0 .. 3 /\ pf_addr' \in Nat /\ dma_word' \in DiscWords
         /\ ~(state = "FETCH") => pf_cnt' = pf_cnt
<1>1. fetch_wait' \in Nat
  BY DEF DriveTypes, Counters, Waiting
<1>2. QED
  BY <1>1 DEF DriveTypes, Counters, Primes

LEMMA RaisePhase ==
  ASSUME PhaseInv, sbuf_q \in DiscWords, Raises, Raise
  PROVE  PhaseInv'
<1>1. DriveTypes'
  BY DEF PhaseInv, DriveTypes, Raise, Check, DataIn, fetchVars, readVars
<1>2. StateInv'
  BY DEF Raise, Check, DataIn, StateInv
<1>3. ReadInv'
  <2>1. CASE state = "FETCH"
    <3>1. /\ state' = "DATAIN" /\ ridx' = 0
          /\ UNCHANGED <<resp_len, datain_disc, nblk, cur_lba, asked, words>>
      BY <2>1 DEF Raise, DataIn, fetchVars, readVars
    <3>2. Data' <=> TRUE
      BY <2>1, <3>1 DEF Data, PhaseInv, ReadInv
    <3>3. words = UserWords * (asked.len - nblk) + 0
      BY <2>1 DEF PhaseInv, ReadInv, Data
    <3>4. QED
      BY <2>1, <3>1, <3>2, <3>3, Sizes DEF PhaseInv, ReadInv
  <2>2. CASE state # "FETCH"
    <3>1. state \in {"PREP", "TOC", "TOC_BAD"}
      BY <2>2 DEF Raises, Primes
    <3>2. state' # "FETCH" /\ ~Data'
      BY <3>1 DEF Raise, Check, DataIn, PhaseInv, StateInv, Data
    <3>3. QED
      BY <3>2 DEF ReadInv
  <2>3. QED
    BY <2>1, <2>2
<1>4. QED
  BY <1>1, <1>2, <1>3 DEF PhaseInv

LEMMA PausePhase ==
  ASSUME PhaseInv, sbuf_q \in DiscWords, NEW op, Pause(op)
  PROVE  PhaseInv'
<1>1. /\ UNCHANGED <<state, pkt_idx, ridx, resp_len, datain_disc, nblk, cur_lba, asked, words>>
      /\ sec_req' = FALSE /\ irq_event' = FALSE
  BY DEF Pause, Stay, phaseVars, readVars
<1>2. DriveTypes'
  <2>1. pf_skid' \in DiscWords
    BY DEF PhaseInv, DriveTypes, Pause, Skid
  <2>2. status' \in {"none", "drq", "busy", "data", "good", "error"}
        /\ reason' \in {"CD", "IO", "CD|IO", "out"}
    BY DEF PhaseInv, DriveTypes, Pause, Stay, Signature
  <2>3. fetch_wait' \in Nat /\ pf_cnt' \in 0 .. 3 /\ pf_addr' \in Nat /\ dma_word' \in DiscWords
    BY CountersType DEF PhaseInv, Pause
  <2>4. QED
    BY <1>1, <2>1, <2>2, <2>3 DEF PhaseInv, DriveTypes
<1>3. StateInv' /\ ReadInv'
  BY <1>1 DEF PhaseInv, StateInv, ReadInv, Data
<1>4. QED
  BY <1>2, <1>3 DEF PhaseInv

LEMMA CommandPhase ==
  ASSUME PhaseInv, sbuf_q \in DiscWords, NEW op, op.do \in Commands, Command(op)
  PROVE  PhaseInv' /\ state' # "FETCH" /\ ~Data'
<1>0. op.do \in {"packet", "identify", "features", "unknown", "device_reset"}
  BY DEF Commands
<1>1. /\ sec_req' = FALSE /\ nblk' = nblk /\ cur_lba' = cur_lba /\ asked' = NoRead /\ words' = 0
  BY DEF Command
<1>2. pf_skid' \in DiscWords /\ NoRead \in [lba : Nat, len : Nat] /\ 0 \in 0 .. PacketWords - 1
  BY Sizes DEF PhaseInv, DriveTypes, Command, Skid, NoRead
<1>3. /\ state' \in {"PKT", "PREP", "IDLE"} /\ irq_event' \in BOOLEAN
      /\ status' \in {"none", "drq", "busy", "data", "good", "error"}
      /\ reason' \in {"CD", "IO", "CD|IO", "out"}
      /\ pkt_idx' \in 0 .. PacketWords - 1 /\ ridx' \in Nat /\ resp_len' \in Nat
      /\ datain_disc' \in BOOLEAN /\ fetch_wait' \in Nat /\ pf_cnt' \in 0 .. 3
      /\ pf_addr' \in Nat /\ dma_word' \in DiscWords
      /\ state' = "PREP" => ~datain_disc'
  <2>1. CASE op.do = "packet"
    BY <1>2, <2>1, CountersType DEF Command, PhaseInv, DriveTypes
  <2>2. CASE op.do = "identify"
    <3>1. /\ state' = "PREP" /\ status' = "busy" /\ reason' = "IO" /\ irq_event' = FALSE
          /\ resp_len' = FixedWords /\ ridx' = 0 /\ datain_disc' = FALSE
          /\ fetch_wait' = IdentSettle /\ UNCHANGED <<pkt_idx, pf_cnt, pf_addr, dma_word>>
      BY <2>2 DEF Command
    <3>2. fetch_wait' \in Nat /\ resp_len' \in Nat /\ ridx' \in Nat
      BY <3>1, Sizes
    <3>3. irq_event' \in BOOLEAN /\ datain_disc' \in BOOLEAN
      BY <3>1
    <3>4. QED
      BY <3>1, <3>2, <3>3 DEF PhaseInv, DriveTypes
  <2>3. CASE op.do = "device_reset"
    BY <1>2, <2>3, CountersType DEF Command, PhaseInv, DriveTypes, Signature, phaseVars
  <2>4. CASE op.do \in {"features", "unknown"}
    BY <1>2, <2>4, CountersType DEF Command, PhaseInv, DriveTypes, phaseVars
  <2>5. QED
    BY <1>0, <2>1, <2>2, <2>3, <2>4
<1>4. DriveTypes'
  BY <1>1, <1>2, <1>3 DEF PhaseInv, DriveTypes
<1>5. StateInv' /\ ReadInv' /\ state' # "FETCH" /\ ~Data'
  BY <1>1, <1>3 DEF StateInv, ReadInv, Data
<1>6. QED
  BY <1>4, <1>5 DEF PhaseInv

LEMMA DispatchPhase ==
  ASSUME PhaseInv, NEW op \in Packets, Dispatch(op)
  PROVE  PhaseInv' /\ (sec_req' \/ (state' # "FETCH" /\ ~Data'))
<1>0. 0 \in 0 .. PacketWords - 1
  BY Sizes
<1>1. /\ state = "PKT" /\ pkt_idx' = 0 /\ UNCHANGED <<pf_addr, dma_word, pf_skid>>
  BY DEF Dispatch, wordVars
<1>2. CASE op.do = "read" /\ op.len > 0
  <2>1. StartRead(op)
    BY <1>2 DEF Dispatch
  <2>2. /\ nblk' = op.len /\ cur_lba' = op.lba /\ sec_req' = TRUE /\ resp_len' = UserWords
        /\ datain_disc' = TRUE /\ fetch_wait' = Settle /\ pf_cnt' = 0
        /\ state' = "FETCH" /\ status' = "busy" /\ reason' = reason /\ irq_event' = FALSE
        /\ asked' = [lba |-> op.lba, len |-> op.len] /\ words' = 0 /\ ridx' = ridx
    BY <2>1 DEF StartRead, Busy
  <2>3. op.lba \in Lbas /\ op.len \in Lens /\ op.lba \in Nat /\ op.len \in Nat
    BY <1>2, PacketKinds, Sizes
  <2>4. asked' \in [lba : Nat, len : Nat] /\ asked'.lba = op.lba /\ asked'.len = op.len
    BY <2>2, <2>3
  <2>5. /\ irq_event' \in BOOLEAN /\ datain_disc' \in BOOLEAN /\ sec_req' \in BOOLEAN
    BY <2>2
  <2>6. /\ nblk' \in Nat /\ cur_lba' \in Nat /\ resp_len' \in Nat /\ fetch_wait' \in Nat
        /\ pf_cnt' \in 0 .. 3 /\ words' \in Nat /\ pkt_idx' \in 0 .. PacketWords - 1
    BY <1>0, <1>1, <2>2, <2>3, Sizes
  <2>7. DriveTypes'
    BY <1>1, <2>2, <2>4, <2>5, <2>6 DEF PhaseInv, DriveTypes
  <2>8. StateInv'
    BY <2>2 DEF StateInv
  <2>9. ReadInv'
    <3>1. nblk' \in 1 .. asked'.len /\ cur_lba' = asked'.lba + (asked'.len - nblk')
          /\ words' = UserWords * (asked'.len - nblk') + 0
      BY <1>2, <2>2, <2>3, <2>4, Sizes
    <3>2. ~Data'
      BY <2>2 DEF Data
    <3>3. QED
      BY <2>2, <2>3, <2>4, <3>1, <3>2 DEF ReadInv
  <2>10. QED
    BY <2>2, <2>7, <2>8, <2>9 DEF PhaseInv
<1>3. CASE ~(op.do = "read" /\ op.len > 0)
  <2>1. /\ sec_req' = FALSE
        /\ UNCHANGED <<nblk, cur_lba, fetch_wait, pf_cnt, asked, words>>
    BY <1>3 DEF Dispatch, fetchVars, readVars
  <2>2. /\ state' \in {"IDLE", "DATAIN", "DATAOUT", "TOC", "TOC_BAD"} /\ irq_event' \in BOOLEAN
        /\ status' \in {"busy", "data", "good", "error"} /\ reason' \in {"CD", "IO", "CD|IO", "out"}
        /\ ridx' \in Nat /\ resp_len' \in Nat /\ datain_disc' \in BOOLEAN
        /\ state' \in {"DATAIN", "TOC"} => ~datain_disc'
    <3>1. CASE op.do \in {"nodata", "read"}
      BY <1>3, <3>1 DEF Dispatch, Complete, PhaseInv, DriveTypes
    <3>2. CASE op.do = "illegal"
      BY <1>3, <3>2 DEF Dispatch, Check, PhaseInv, DriveTypes
    <3>3. CASE op.do = "fixed"
      <4>1. /\ ridx' = 0 /\ resp_len' = FixedWords /\ datain_disc' = FALSE /\ irq_event' = TRUE
            /\ status' = "data" /\ reason' = "IO" /\ state' = "DATAIN"
        BY <1>3, <3>3 DEF Dispatch, DataIn
      <4>2. ridx' \in Nat /\ resp_len' \in Nat
        BY <4>1, Sizes
      <4>3. QED
        BY <4>1, <4>2
    <3>4. CASE op.do \in {"toc", "toc_bad"}
      <4>1. /\ ridx' = 0 /\ resp_len' = FixedWords /\ datain_disc' = FALSE /\ irq_event' = FALSE
            /\ status' = "busy" /\ reason' = reason /\ state' \in {"TOC", "TOC_BAD"}
        BY <1>3, <3>4 DEF Dispatch, Busy
      <4>2. ridx' \in Nat /\ resp_len' \in Nat
        BY <4>1, Sizes
      <4>3. QED
        BY <4>1, <4>2 DEF PhaseInv, DriveTypes
    <3>5. CASE op.do = "select"
      <4>1. /\ ridx' = 0 /\ resp_len' = FixedWords /\ datain_disc' = datain_disc /\ irq_event' = TRUE
            /\ status' = "data" /\ reason' = "out" /\ state' = "DATAOUT"
        BY <1>3, <3>5 DEF Dispatch
      <4>2. ridx' \in Nat /\ resp_len' \in Nat
        BY <4>1, Sizes
      <4>3. QED
        BY <4>1, <4>2 DEF PhaseInv, DriveTypes
    <3>6. QED
      BY <3>1, <3>2, <3>3, <3>4, <3>5, PacketKinds
  <2>3. pkt_idx' \in 0 .. PacketWords - 1 /\ sec_req' \in BOOLEAN
    BY <1>0, <1>1, <2>1
  <2>4. DriveTypes'
    BY <1>1, <2>1, <2>2, <2>3 DEF PhaseInv, DriveTypes
  <2>5. StateInv' /\ ReadInv' /\ state' # "FETCH" /\ ~Data'
    BY <2>1, <2>2 DEF StateInv, ReadInv, Data
  <2>6. QED
    BY <2>4, <2>5 DEF PhaseInv
<1>4. QED
  BY <1>2, <1>3

(* A word of a packet or of a parameter list. *)
LEMMA WordOutPhase ==
  ASSUME PhaseInv, NEW op, PacketWord(op) \/ DataOut(op)
  PROVE  PhaseInv' /\ state' # "FETCH" /\ ~Data'
<1>1. /\ sec_req' = FALSE
      /\ UNCHANGED <<resp_len, datain_disc, nblk, cur_lba, fetch_wait, pf_cnt, pf_addr, dma_word,
                     pf_skid, asked, words>>
  BY DEF PacketWord, DataOut, fetchVars, wordVars, readVars
<1>2. /\ state \in {"PKT", "DATAOUT"} /\ state' \in {"PKT", "DATAOUT", "IDLE"}
      /\ status' \in {"none", "drq", "busy", "data", "good", "error"}
      /\ reason' \in {"CD", "IO", "CD|IO", "out"}
  BY DEF PacketWord, DataOut, Stay, Complete, Signature, PhaseInv, DriveTypes
<1>3. irq_event' \in BOOLEAN /\ sec_req' \in BOOLEAN
  BY <1>1 DEF PacketWord, DataOut, Stay, Complete
<1>4. pkt_idx' \in 0 .. PacketWords - 1 /\ ridx' \in Nat
  BY Sizes DEF PacketWord, DataOut, PhaseInv, DriveTypes
<1>5. DriveTypes'
  BY <1>1, <1>2, <1>3, <1>4 DEF PhaseInv, DriveTypes
<1>6. StateInv' /\ ReadInv' /\ state' # "FETCH" /\ ~Data'
  BY <1>1, <1>2 DEF StateInv, ReadInv, Data
<1>7. QED
  BY <1>5, <1>6 DEF PhaseInv

(* A word of a data phase: it counts, and the last of a sector is the       *)
(* sector's last.                                                          *)
LEMMA ConsumePhase ==
  ASSUME PhaseInv, sbuf_q \in DiscWords, NEW op, DataConsume(op)
  PROVE  /\ PhaseInv'
         /\ Data /\ state' = "IDLE" => words' = UserWords * asked.len /\ asked' = asked
<1>1. /\ state = "DATAIN" /\ pf_skid' = NoWord /\ pf_addr' = pf_addr + 1 /\ asked' = asked
      /\ words' = (IF datain_disc THEN words + 1 ELSE words)
      /\ UNCHANGED <<pkt_idx, resp_len, datain_disc>>
  BY DEF DataConsume
<1>2. /\ dma_word' \in DiscWords /\ pf_skid' \in DiscWords /\ pf_addr' \in Nat /\ words' \in Nat
  BY <1>1 DEF DataConsume, PhaseInv, DriveTypes, DiscWords
<1>3. Data <=> datain_disc
  BY <1>1 DEF Data
<1>4. datain_disc =>
        /\ asked.lba \in Lbas /\ asked.len \in Lens /\ asked.lba \in Nat /\ asked.len \in Nat
        /\ resp_len = UserWords /\ nblk \in 1 .. asked.len
        /\ cur_lba = asked.lba + (asked.len - nblk)
        /\ words = UserWords * (asked.len - nblk) + ridx /\ ridx < UserWords
        /\ words' = words + 1
  BY <1>1, <1>3, Sizes DEF PhaseInv, ReadInv
<1>5. ridx \in Nat /\ resp_len \in Nat /\ nblk \in Nat /\ cur_lba \in Nat /\ fetch_wait \in Nat
  BY DEF PhaseInv, DriveTypes
<1>6. CASE ridx + 1 < resp_len
  <2>1. /\ ridx' = ridx + 1 /\ sec_req' = FALSE /\ state' = state /\ irq_event' = FALSE
        /\ UNCHANGED <<nblk, cur_lba, fetch_wait, pf_cnt>> /\ Stay(op)
    BY <1>6 DEF DataConsume, Stay, fetchVars
  <2>2. /\ status' \in {"none", "drq", "busy", "data", "good", "error"}
        /\ reason' \in {"CD", "IO", "CD|IO", "out"}
    BY <2>1 DEF Stay, Signature, PhaseInv, DriveTypes
  <2>3. irq_event' \in BOOLEAN /\ sec_req' \in BOOLEAN /\ ridx' \in Nat
    <3>1. irq_event' \in BOOLEAN /\ sec_req' \in BOOLEAN
      BY <2>1
    <3>2. ridx' \in Nat
      BY <1>5, <2>1
    <3>3. QED
      BY <3>1, <3>2
  <2>4. DriveTypes'
    BY <1>1, <1>2, <2>1, <2>2, <2>3 DEF PhaseInv, DriveTypes
  <2>5. StateInv'
    BY <1>1, <2>1 DEF StateInv
  <2>6. ReadInv'
    <3>1. Data' <=> datain_disc
      BY <1>1, <2>1 DEF Data
    <3>2. datain_disc => words' = UserWords * (asked.len - nblk) + ridx'
      <4> DEFINE P == UserWords * (asked.len - nblk)
      <4>1. datain_disc => P \in Int /\ words = P + ridx /\ words' = words + 1
        BY <1>4, <1>5, Sizes
      <4> HIDE DEF P
      <4>2. datain_disc => words' = P + ridx'
        BY <1>5, <2>1, <4>1
      <4>3. QED
        BY <4>2 DEF P
    <3>3. QED
      BY <1>1, <1>4, <1>6, <2>1, <3>1, <3>2 DEF ReadInv
  <2>7. QED
    BY <1>1, <2>1, <2>4, <2>5, <2>6 DEF PhaseInv
<1>7. CASE ~(ridx + 1 < resp_len) /\ MoreToRead
  <2>1. /\ nblk' = nblk - 1 /\ cur_lba' = cur_lba + 1 /\ sec_req' = TRUE
        /\ fetch_wait' = Pace /\ pf_cnt' = 0 /\ ridx' = ridx
        /\ state' = "FETCH" /\ status' = "busy" /\ reason' = reason /\ irq_event' = FALSE
    BY <1>7 DEF DataConsume, Busy
  <2>2. datain_disc /\ nblk > 1
    BY <1>7 DEF MoreToRead
  <2>3. nblk' \in Nat /\ cur_lba' \in Nat /\ fetch_wait' \in Nat /\ pf_cnt' \in 0 .. 3
    BY <1>5, <2>1, <2>2, Sizes
  <2>4. DriveTypes'
    <3>1. irq_event' \in BOOLEAN /\ sec_req' \in BOOLEAN
      BY <2>1
    <3>2. QED
      BY <1>1, <1>2, <2>1, <2>3, <3>1 DEF PhaseInv, DriveTypes
  <2>5. StateInv'
    BY <2>1 DEF StateInv
  <2>6. ReadInv'
    <3>1. nblk' \in 1 .. asked.len /\ cur_lba' = asked.lba + (asked.len - nblk')
      BY <1>4, <1>5, <2>1, <2>2
    <3>2. words' = UserWords * (asked.len - nblk') + 0
      <4>1. ridx + 1 = UserWords
        BY <1>4, <1>5, <1>7, <2>2, Sizes
      <4>2. UserWords * (asked.len - nblk + 1) = UserWords * (asked.len - nblk) + UserWords
        BY <1>4, <1>5, <2>2, Sizes
      <4>3. asked.len - nblk' = asked.len - nblk + 1
        BY <1>4, <1>5, <2>1, <2>2
      <4> DEFINE P == UserWords * (asked.len - nblk)
      <4>4. P \in Int /\ words' = P + ridx + 1
        BY <1>4, <1>5, <2>2, Sizes
      <4>5. UserWords * (asked.len - nblk') = P + UserWords
        BY <4>2, <4>3
      <4> HIDE DEF P
      <4>6. QED
        BY <1>5, <4>1, <4>4, <4>5, Sizes
    <3>3. ~Data'
      BY <2>1 DEF Data
    <3>4. QED
      BY <1>1, <1>4, <2>2, <3>1, <3>2, <3>3 DEF ReadInv
  <2>7. QED
    BY <2>1, <2>4, <2>5, <2>6 DEF PhaseInv
<1>8. CASE ~(ridx + 1 < resp_len) /\ ~MoreToRead
  <2>1. /\ state' = "IDLE" /\ status' = "good" /\ reason' = "CD|IO" /\ irq_event' = TRUE
        /\ sec_req' = FALSE /\ UNCHANGED <<ridx, nblk, cur_lba, fetch_wait, pf_cnt>>
    BY <1>8 DEF DataConsume, Complete, fetchVars
  <2>2. irq_event' \in BOOLEAN /\ sec_req' \in BOOLEAN
    BY <2>1
  <2>3. DriveTypes'
    BY <1>1, <1>2, <2>1, <2>2 DEF PhaseInv, DriveTypes
  <2>4. StateInv' /\ ReadInv'
    BY <2>1 DEF StateInv, ReadInv, Data
  <2>5. Data => words' = UserWords * asked.len
    <3>1. SUFFICES ASSUME datain_disc PROVE words' = UserWords * asked.len
      BY <1>3
    <3>2. nblk = 1 /\ ridx + 1 = UserWords
      BY <1>4, <1>5, <1>8, <3>1, Sizes DEF MoreToRead
    <3>3. UserWords * (asked.len - 1) + UserWords = UserWords * asked.len
      BY <1>4, <3>1, Sizes
    <3>4. UserWords * (asked.len - 1) \in Int
      BY <1>4, <3>1, Sizes
    <3>5. QED
      BY <1>4, <1>5, <3>1, <3>2, <3>3, <3>4, Sizes
  <2>6. QED
    BY <1>1, <2>3, <2>4, <2>5 DEF PhaseInv
<1>9. QED
  BY <1>6, <1>7, <1>8

(* Whatever the game does, the drive keeps its counts. *)
LEMMA DrivePhase ==
  ASSUME PhaseInv, sbuf_q \in DiscWords, NEW op \in Accesses, Drive(op)
  PROVE  PhaseInv'
<1>1. CASE op.do \in Commands /\ Command(op)
  BY <1>1, CommandPhase
<1>2. CASE op \in Packets /\ Dispatch(op)
  BY <1>2, DispatchPhase
<1>3. CASE (Raises /\ Raise) \/ Pause(op) \/ IdeReset
  BY <1>3, RaisePhase, PausePhase, ResetPhase
<1>4. CASE PacketWord(op) \/ DataOut(op) \/ DataConsume(op)
  BY <1>4, WordOutPhase, ConsumePhase
<1>5. "device_reset" \in Commands
  BY DEF Commands
<1>6. QED
  BY <1>1, <1>2, <1>3, <1>4, <1>5 DEF Drive

-----------------------------------------------------------------------------
(* The sector reader and Main. *)

(* The word Main writes is a word of the disc. *)
LEMMA HostWordType ==
  ASSUME MainTypes, main.at = "stream", main.pos < RawWords
  PROVE  HostWord \in DiscWords
<1>1. main.lba - Pregap \in ReadLbas /\ main.pos \in 0 .. RawWords - 1
  BY Sizes DEF MainTypes
<1>2. QED
  BY <1>1 DEF HostWord, Word, DiscWords

LEMMA MainStepTypes ==
  ASSUME ReaderTypes, MainTypes, NEW m \in Events, MainStep(m)
  PROVE  MainTypes'
<1>1. m \in {"none", "poll", "ack", "word", "end"} /\ 0 \in 0 .. RawWords
  BY Sizes DEF Events
<1>2. CASE m = "poll"
  <2>1. cd_req /\ main' = [at |-> "fetch", lba |-> cd_lba, pos |-> 0]
    BY <1>2 DEF MainStep
  <2>2. QED
    BY <1>1, <2>1 DEF MainTypes, ReaderTypes
<1>3. CASE m = "ack"
  <2>1. main.at = "fetch" /\ main' = [main EXCEPT !.at = "ack"]
    BY <1>3 DEF MainStep
  <2>2. QED
    BY <2>1 DEF MainTypes
<1>4. CASE m = "word"
  <2>1. main.at = "stream" /\ main.pos < RawWords /\ main' = [main EXCEPT !.pos = main.pos + 1]
    BY <1>4 DEF MainStep
  <2>2. main.pos + 1 \in 0 .. RawWords
    BY <2>1, Sizes DEF MainTypes
  <2>3. QED
    BY <2>1, <2>2 DEF MainTypes
<1>5. CASE m = "end"
  <2>1. main' = [at |-> "idle", lba |-> 0, pos |-> 0]
    BY <1>5 DEF MainStep, Quiet
  <2>2. QED
    BY <1>1, <2>1 DEF MainTypes
<1>6. CASE m = "none"
  <2>1. main' = main \/ (main.at = "ack" /\ main' = [main EXCEPT !.at = "stream"])
    BY <1>6 DEF MainStep
  <2>2. QED
    BY <2>1 DEF MainTypes
<1>7. QED
  BY <1>1, <1>2, <1>3, <1>4, <1>5, <1>6

LEMMA ReaderStepTypes ==
  ASSUME PhaseInv, ReaderTypes, MainTypes, NEW op, NEW m \in Events, MainStep(m), Reader(op, m)
  PROVE  ReaderTypes'
<1>1. sbuf_q' \in DiscWords
  <2>1. (pf_addr % UserWords) \in 0 .. UserWords - 1
    BY Sizes, DivMod DEF PhaseInv, DriveTypes
  <2>2. QED
    BY <2>1 DEF Reader, ReaderTypes
<1>2. 0 \in 0 .. RawWords - 1
  BY Sizes
<1>3. CASE CdReset
  BY <1>1, <1>2, <1>3 DEF CdReset, ReaderTypes
<1>4. CASE sec_req /\ CdRequest
  <2>1. cd_lba' \in Nat /\ cd_lba' - Pregap = cur_lba
    BY <1>4, Sizes DEF CdRequest, PhaseInv, DriveTypes
  <2>2. cur_lba \in ReadLbas
    BY <1>4, SectorIsRead DEF PhaseInv, StateInv
  <2>3. QED
    BY <1>1, <1>2, <1>4, <2>1, <2>2 DEF CdRequest, ReaderTypes
<1>5. CASE CdAccept
  BY <1>1, <1>5 DEF CdAccept, ReaderTypes
<1>6. CASE CdCollect(m)
  <2>1. HostWord \in DiscWords
    BY <1>6, HostWordType DEF CdCollect, MainStep
  <2>2. sbuf' \in [0 .. UserWords - 1 -> DiscWords]
    BY <1>6, <2>1 DEF CdCollect, ReaderTypes
  <2>3. wcnt' \in 0 .. RawWords - 1 /\ cstate' \in {"DONE", "STREAM"}
    BY <1>6, Sizes DEF CdCollect, ReaderTypes, LastWord
  <2>4. QED
    BY <1>1, <1>6, <2>2, <2>3 DEF CdCollect, ReaderTypes
<1>7. CASE CdDone
  BY <1>1, <1>7 DEF CdDone, ReaderTypes
<1>8. CASE CdWait(m)
  BY <1>1, <1>8 DEF CdWait, ReaderTypes
<1>9. QED
  BY <1>3, <1>4, <1>5, <1>6, <1>7, <1>8 DEF Reader

(* The i-th word the game is to take of the sector, and the sector loaded.   *)
Here(i) == Word(cur_lba, HdrWords + i)

Loaded == \A i \in 0 .. UserWords - 1 : sbuf[i] = Here(i)

(* The reader and Main are at work on this sector and on no other. *)
Serves ==
  /\ cd_req => cd_lba = cur_lba + Pregap
  /\ \/ /\ cstate = "REQ" /\ cd_req /\ ~sec_ready /\ wcnt = 0
        /\ main.at = "idle" \/ (main.at \in {"fetch", "ack"} /\ main.lba = cur_lba + Pregap)
     \/ /\ cstate = "STREAM" /\ ~cd_req /\ ~sec_ready
        /\ main.at = "stream" /\ main.lba = cur_lba + Pregap /\ main.pos = wcnt
        /\ \A i \in 0 .. UserWords - 1 : HdrWords + i < wcnt => sbuf[i] = Here(i)
     \/ cstate = "DONE" /\ ~sec_ready /\ Loaded
     \/ cstate = "IDLE" /\ sec_ready /\ Loaded

(* A sector at rest stays. *)
LEMMA LoadedStays ==
  ASSUME cstate = "IDLE", Loaded, ~sec_req, cur_lba' = cur_lba,
         NEW op, op.do # "ide_reset", NEW m, Reader(op, m)
  PROVE  cstate' = "IDLE" /\ Loaded' /\ sec_ready' = sec_ready /\ cd_req' = cd_req /\ cd_lba' = cd_lba
<1>1. CdWait(m)
  BY DEF Reader, CdAccept, CdCollect, CdDone
<1>2. QED
  BY <1>1 DEF CdWait, Loaded, Here

(* A request Main can only answer with this sector is served with it. *)
LEMMA RequestServes ==
  ASSUME PhaseInv, MainTypes', sec_req, cur_lba' = cur_lba, ~StrayNow,
         NEW op, op.do # "ide_reset", NEW m, Reader(op, m)
  PROVE  Serves'
<1>1. /\ cstate' = "REQ" /\ cd_req' = TRUE /\ cd_lba' = cur_lba + Pregap /\ wcnt' = 0
      /\ sec_ready' = FALSE
  BY DEF Reader, CdRequest
<1>2. main'.at \in {"idle", "fetch"} /\ (main'.at = "fetch" => main'.lba = cur_lba + Pregap)
  BY DEF StrayNow, MainTypes
<1>3. QED
  BY <1>1, <1>2 DEF Serves

LEMMA ServeStep ==
  ASSUME PhaseInv, ReaderTypes, MainTypes, Serves, ~sec_req, cur_lba' = cur_lba,
         NEW op, op.do # "ide_reset", NEW m \in Events, Reader(op, m), MainStep(m)
  PROVE  Serves'
<1>0. /\ m \in {"none", "poll", "ack", "word", "end"} /\ cur_lba \in Nat
      /\ CdAccept \/ CdCollect(m) \/ CdDone \/ CdWait(m)
      /\ \A i : Here(i)' = Here(i)
  BY DEF Events, PhaseInv, DriveTypes, Reader, Here
<1>1. CASE /\ cstate = "REQ" /\ cd_req /\ ~sec_ready /\ wcnt = 0 /\ cd_lba = cur_lba + Pregap
           /\ main.at = "idle" \/ (main.at = "fetch" /\ main.lba = cur_lba + Pregap)
  <2>1. UNCHANGED <<cstate, cd_req, sec_ready, wcnt, cd_lba>>
    BY <1>0, <1>1 DEF CdAccept, CdCollect, CdDone, CdWait, cd_ack
  <2>2. main'.at = "idle" \/ (main'.at \in {"fetch", "ack"} /\ main'.lba = cur_lba + Pregap)
    <3>1. CASE m = "poll"
      BY <1>1, <3>1 DEF MainStep
    <3>2. CASE m = "ack"
      BY <1>1, <3>2 DEF MainStep, MainTypes
    <3>3. CASE m = "none"
      BY <1>1, <3>3 DEF MainStep
    <3>4. CASE m \in {"word", "end"}
      BY <1>1, <3>4 DEF MainStep
    <3>5. QED
      BY <1>0, <3>1, <3>2, <3>3, <3>4
  <2>3. QED
    BY <1>0, <1>1, <2>1, <2>2 DEF Serves
<1>2. CASE /\ cstate = "REQ" /\ cd_req /\ ~sec_ready /\ wcnt = 0
           /\ main.at = "ack" /\ main.lba = cur_lba + Pregap
  <2>1. CdAccept
    BY <1>0, <1>2 DEF CdCollect, CdDone, CdWait, cd_ack
  <2>2. main' = [main EXCEPT !.at = "stream"]
    BY <1>0, <1>2 DEF MainStep
  <2>3. main'.at = "stream" /\ main'.lba = cur_lba + Pregap /\ main'.pos = 0
    BY <1>2, <2>2 DEF MainTypes
  <2>4. cstate' = "STREAM" /\ cd_req' = FALSE /\ sec_ready' = FALSE /\ wcnt' = 0
    BY <1>2, <2>1 DEF CdAccept, ReaderTypes
  <2>5. \A i \in 0 .. UserWords - 1 : ~(HdrWords + i < wcnt')
    BY <2>4, Sizes
  <2>6. QED
    BY <1>0, <2>3, <2>4, <2>5 DEF Serves
<1>3. CASE /\ cstate = "STREAM" /\ ~cd_req /\ ~sec_ready
           /\ main.at = "stream" /\ main.lba = cur_lba + Pregap /\ main.pos = wcnt
           /\ \A i \in 0 .. UserWords - 1 : HdrWords + i < wcnt => sbuf[i] = Here(i)
  <2>0. wcnt \in 0 .. RawWords - 1 /\ RawWords \in Nat
    BY Sizes DEF ReaderTypes
  <2>1. CASE m = "word"
    <3>1. CdCollect(m)
      BY <1>0, <1>3, <2>1 DEF CdAccept, CdDone, CdWait
    <3>2. HostWord = Word(cur_lba, wcnt)
      <4>1. main.lba - Pregap = cur_lba
        BY <1>0, <1>3, Sizes
      <4>2. QED
        BY <1>3, <4>1 DEF HostWord
    <3>3. \A i \in 0 .. UserWords - 1 : sbuf'[i] = IF wcnt = HdrWords + i THEN HostWord ELSE sbuf[i]
      BY <3>1 DEF CdCollect, ReaderTypes
    <3>4. ASSUME NEW i \in 0 .. UserWords - 1, HdrWords + i < wcnt + 1
          PROVE  sbuf'[i] = Here(i)
      <4>1. HdrWords + i < wcnt \/ wcnt = HdrWords + i
        BY <2>0, <3>4, Sizes
      <4>2. CASE wcnt = HdrWords + i
        BY <3>2, <3>3, <4>2 DEF Here
      <4>3. CASE HdrWords + i < wcnt
        <5>1. wcnt # HdrWords + i
          BY <2>0, <4>3, Sizes
        <5>2. QED
          BY <1>3, <3>3, <4>3, <5>1
      <4>4. QED
        BY <4>1, <4>2, <4>3
    <3>5. main'.at = "stream" /\ main'.lba = main.lba /\ main'.pos = wcnt + 1
      BY <1>3, <2>1 DEF MainStep, MainTypes
    <3>6. UNCHANGED <<cd_req, cd_lba, sec_ready>>
      BY <3>1 DEF CdCollect
    <3>7. CASE wcnt = LastWord
      <4>1. cstate' = "DONE"
        BY <3>1, <3>7 DEF CdCollect
      <4>2. \A i \in 0 .. UserWords - 1 : HdrWords + i < wcnt + 1
        BY <2>0, <3>7, Sizes DEF LastWord
      <4>3. Loaded'
        BY <1>0, <3>4, <4>2 DEF Loaded
      <4>4. QED
        BY <1>3, <3>6, <4>1, <4>3 DEF Serves
    <3>8. CASE wcnt # LastWord
      <4>1. cstate' = "STREAM" /\ wcnt' = wcnt + 1
        BY <1>3, <3>1, <3>8 DEF CdCollect
      <4>2. QED
        BY <1>0, <1>3, <3>4, <3>5, <3>6, <4>1 DEF Serves
    <3>9. QED
      BY <3>7, <3>8
  <2>2. CASE m # "word"
    <3>1. UNCHANGED <<cstate, cd_req, cd_lba, wcnt, sbuf, sec_ready>>
      BY <1>0, <1>3, <2>2 DEF CdAccept, CdCollect, CdDone, CdWait
    <3>2. main' = main
      <4>1. main.pos # RawWords
        BY <1>3, <2>0
      <4>2. m \notin {"poll", "ack", "end"}
        BY <1>3, <4>1 DEF MainStep
      <4>3. QED
        BY <1>0, <1>3, <2>2, <4>2 DEF MainStep
    <3>3. QED
      BY <1>0, <1>3, <3>1, <3>2 DEF Serves
  <2>3. QED
    BY <2>1, <2>2
<1>4. CASE cstate = "DONE" /\ ~sec_ready /\ Loaded
  <2>1. CdDone
    BY <1>0, <1>4 DEF CdAccept, CdCollect, CdWait
  <2>2. cstate' = "IDLE" /\ sec_ready' /\ Loaded' /\ cd_req' = cd_req /\ cd_lba' = cd_lba
    BY <1>0, <1>4, <2>1 DEF CdDone, Loaded
  <2>3. QED
    BY <2>2 DEF Serves
<1>5. CASE cstate = "IDLE" /\ sec_ready /\ Loaded
  <2>1. cstate' = "IDLE" /\ Loaded' /\ sec_ready' = sec_ready /\ cd_req' = cd_req /\ cd_lba' = cd_lba
    BY <1>5, LoadedStays
  <2>2. QED
    BY <1>5, <2>1 DEF Serves
<1>6. QED
  BY <1>1, <1>2, <1>3, <1>4, <1>5 DEF Serves

-----------------------------------------------------------------------------
(* The words of a READ, unless a request of it went astray.  While it waits  *)
(* for a sector, the reader serves that sector and the prefetch is primed    *)
(* only with its words ...                                                 *)
SectorInv == ~astray /\ state = "FETCH" /\ ~sec_req => Serves

PrimeInv ==
  ~astray /\ state = "FETCH" /\ ~sec_req =>
    /\ pf_cnt >= 1 => pf_addr = pf_cnt - 1 /\ fetch_wait = 0
    /\ pf_cnt >= 2 => sec_ready
    /\ pf_cnt = 2 => sbuf_q = Here(0)
    /\ pf_cnt = 3 => dma_word = Here(0) /\ sbuf_q = Here(1)

(* ... and in the data phase the word offered is the one due, the next one   *)
(* is in the skid register or comes out of the buffer.                      *)
DataInv ==
  ~astray /\ Data =>
    /\ cstate = "IDLE" /\ Loaded
    /\ dma_word = Here(ridx) /\ pf_addr = ridx + 2
    /\ ridx + 1 < UserWords => \/ pf_skid = Here(ridx + 1)
                               \/ pf_skid = NoWord /\ sbuf_q = Here(ridx + 1)

AtapiInv == AtapiTypes /\ StateInv /\ ReadInv /\ SectorInv /\ PrimeInv /\ DataInv

WordsInv == SectorInv /\ PrimeInv /\ DataInv

(* A word is not the absence of one. *)
LEMMA WordIsWord == \A i : Here(i) # NoWord
BY DEF Here, Word, NoWord

(* Between two clocks of one READ nothing new goes astray unseen. *)
LEMMA StillNotAstray ==
  ASSUME NEW op, op.do # "ide_reset", GoAstray(op), asked' # NoRead, asked' = asked, ~astray', astray \in BOOLEAN
  PROVE  ~astray /\ (sec_req => ~StrayNow)
BY DEF GoAstray

(* The READ in force is not no READ. *)
LEMMA ReadIsRead ==
  ASSUME PhaseInv, state = "FETCH" \/ Data
  PROVE  asked # NoRead
<1>1. asked.len \in Nat /\ nblk \in 1 .. asked.len
  BY DEF PhaseInv, DriveTypes, ReadInv
<1>2. asked.len # 0
  BY <1>1
<1>3. NoRead.len = 0
  BY DEF NoRead
<1>4. QED
  BY <1>2, <1>3

(* The buffer answers one clock after its address. *)
LEMMA BufferAnswers ==
  ASSUME PhaseInv, Loaded, pf_addr < UserWords, cur_lba' = cur_lba, NEW op, NEW m, Reader(op, m)
  PROVE  sbuf_q' = Here(pf_addr)
<1>1. pf_addr \in 0 .. UserWords - 1
  BY Sizes DEF PhaseInv, DriveTypes
<1>2. (pf_addr % UserWords) = pf_addr
  BY <1>1, Sizes, SMTT(30)
<1>3. QED
  BY <1>1, <1>2 DEF Reader, Loaded

(* A clock of the wait for a sector. *)
LEMMA FetchPause ==
  ASSUME AtapiInv, state = "FETCH", MainTypes',
         NEW op, op.do # "ide_reset", NEW m \in Events,
         ~Raises, Pause(op), Reader(op, m), MainStep(m), GoAstray(op)
  PROVE  WordsInv'
<1>0. PhaseInv /\ ReaderTypes /\ MainTypes /\ astray \in BOOLEAN
  BY DEF AtapiInv, AtapiTypes, IrqTypes, PhaseInv
<1>1. /\ state' = "FETCH" /\ sec_req' = FALSE /\ Counters
      /\ UNCHANGED <<cur_lba, asked>>
  BY DEF Pause, Stay, readVars
<1>2. DataInv'
  BY <1>1 DEF DataInv, Data
<1>3. CASE astray'
  BY <1>2, <1>3 DEF WordsInv, SectorInv, PrimeInv
<1>4. CASE ~astray'
  <2>1. ~astray /\ (sec_req => ~StrayNow)
    BY <1>0, <1>1, <1>4, ReadIsRead, StillNotAstray
  <2>2. \A i : Here(i)' = Here(i)
    BY <1>1 DEF Here
  <2>3. pf_cnt \in 0 .. 3 /\ fetch_wait \in Nat
    BY <1>0 DEF PhaseInv, DriveTypes
  <2>4. CASE sec_req
    <3>1. Serves'
      BY <1>0, <1>1, <2>1, <2>4, RequestServes
    <3>2. pf_cnt = 0
      BY <2>4 DEF AtapiInv, StateInv
    <3>3. pf_cnt' = 0 \/ (pf_cnt' = 1 /\ pf_addr' = 0 /\ fetch_wait' = 0)
      BY <1>1, <3>2 DEF Counters, Primes, Waiting
    <3>4. PrimeInv'
      BY <3>3 DEF PrimeInv
    <3>5. QED
      BY <1>2, <3>1, <3>4 DEF WordsInv, SectorInv
  <2>5. CASE ~sec_req
    <3>1. Serves /\ Serves'
      BY <1>0, <1>1, <2>1, <2>5, ServeStep DEF AtapiInv, SectorInv
    <3>2. sec_ready => cstate = "IDLE" /\ Loaded /\ sec_ready'
      <4>1. sec_ready => cstate = "IDLE" /\ Loaded
        BY <3>1 DEF Serves
      <4>2. QED
        BY <1>1, <2>5, <4>1, LoadedStays
    <3>3. /\ pf_cnt >= 1 => pf_addr = pf_cnt - 1 /\ fetch_wait = 0
          /\ pf_cnt >= 2 => sec_ready
          /\ pf_cnt = 2 => sbuf_q = Here(0)
      BY <2>1, <2>5 DEF AtapiInv, PrimeInv
    <3>4. PrimeInv'
      <4>1. CASE Primes /\ pf_cnt = 0
        <5>1. pf_cnt' = 1 /\ pf_addr' = 0 /\ fetch_wait' = 0
          BY <1>1, <4>1 DEF Counters, Primes, Waiting
        <5>2. QED
          BY <5>1 DEF PrimeInv
      <4>2. CASE Primes /\ pf_cnt = 1
        <5>1. pf_cnt' = 2 /\ pf_addr' = 1 /\ fetch_wait' = 0
          BY <1>1, <4>2 DEF Counters, Primes, Waiting
        <5>2. pf_addr = 0 /\ 0 < UserWords /\ sec_ready
          BY <3>3, <4>2, Sizes DEF Primes
        <5>3. sbuf_q' = Here(0)
          BY <1>0, <1>1, <3>2, <5>2, BufferAnswers
        <5>4. QED
          BY <2>2, <3>2, <5>1, <5>2, <5>3 DEF PrimeInv
      <4>3. CASE Primes /\ pf_cnt = 2
        <5>1. pf_cnt' = 3 /\ pf_addr' = 2 /\ fetch_wait' = 0 /\ dma_word' = sbuf_q
          BY <1>1, <4>3 DEF Counters, Primes, Waiting
        <5>2. pf_addr = 1 /\ 1 < UserWords /\ sec_ready /\ sbuf_q = Here(0)
          BY <3>3, <4>3, Sizes DEF Primes
        <5>3. sbuf_q' = Here(1)
          BY <1>0, <1>1, <3>2, <5>2, BufferAnswers
        <5>4. QED
          BY <2>2, <3>2, <5>1, <5>2, <5>3 DEF PrimeInv
      <4>4. CASE ~Primes
        <5>1. pf_cnt < 2
          BY <2>3, <3>3, <4>4 DEF Primes
        <5>2. pf_cnt' = pf_cnt /\ pf_addr' = pf_addr /\ (fetch_wait = 0 => fetch_wait' = 0)
          BY <1>1, <2>3, <4>4 DEF Counters, Waiting
        <5>3. QED
          BY <2>3, <3>3, <5>1, <5>2 DEF PrimeInv
      <4>5. QED
        BY <2>3, <4>1, <4>2, <4>3, <4>4 DEF Raises
    <3>5. QED
      BY <1>2, <3>1, <3>4 DEF WordsInv, SectorInv
  <2>6. QED
    BY <2>4, <2>5
<1>5. QED
  BY <1>3, <1>4

(* The clock that raises a data phase: of a READ with its first words ready. *)
LEMMA RaiseWords ==
  ASSUME AtapiInv, NEW op, op.do # "ide_reset", NEW m \in Events,
         Raises, Raise, Reader(op, m), MainStep(m), GoAstray(op)
  PROVE  WordsInv'
<1>0. PhaseInv /\ astray \in BOOLEAN
  BY DEF AtapiInv, AtapiTypes, IrqTypes, PhaseInv
<1>1. state' # "FETCH"
  BY DEF Raise, Check, DataIn
<1>2. SectorInv' /\ PrimeInv'
  BY <1>1 DEF SectorInv, PrimeInv
<1>3. CASE astray' \/ ~Data'
  BY <1>2, <1>3 DEF WordsInv, DataInv
<1>4. CASE ~astray' /\ Data'
  <2>1. state = "FETCH"
    <3>1. state \in {"FETCH", "PREP", "TOC", "TOC_BAD"}
      BY DEF Raises, Primes
    <3>2. QED
      BY <1>4, <3>1 DEF AtapiInv, StateInv, Raise, Check, Data
  <2>2. pf_cnt = 3 /\ sec_ready /\ fetch_wait = 0
    BY <2>1 DEF Raises, Primes
  <2>3. ~sec_req
    BY <2>2 DEF AtapiInv, StateInv
  <2>4. /\ pf_skid' = sbuf_q /\ ridx' = 0
        /\ UNCHANGED <<cur_lba, asked, pf_addr, dma_word>>
    BY <2>1 DEF Raise, fetchVars, readVars
  <2>5. ~astray
    BY <1>0, <1>4, <2>1, <2>4, ReadIsRead, StillNotAstray
  <2>6. Serves /\ pf_addr = 2 /\ dma_word = Here(0) /\ sbuf_q = Here(1)
    BY <2>1, <2>2, <2>3, <2>5 DEF AtapiInv, SectorInv, PrimeInv
  <2>7. cstate = "IDLE" /\ Loaded
    BY <2>2, <2>6 DEF Serves
  <2>8. cstate' = "IDLE" /\ Loaded'
    BY <2>3, <2>4, <2>7, LoadedStays
  <2>9. dma_word' = Here(ridx)' /\ pf_skid' = Here(ridx + 1)' /\ pf_addr' = ridx' + 2
    BY <2>4, <2>6 DEF Here
  <2>10. QED
    BY <1>2, <2>8, <2>9 DEF WordsInv, DataInv
<1>5. QED
  BY <1>3, <1>4

(* A clock of the data phase without an access. *)
LEMMA DataPause ==
  ASSUME AtapiInv, state # "FETCH", NEW op, op.do # "ide_reset", NEW m \in Events,
         Pause(op), Reader(op, m), MainStep(m), GoAstray(op)
  PROVE  WordsInv'
<1>0. PhaseInv /\ astray \in BOOLEAN
  BY DEF AtapiInv, AtapiTypes, IrqTypes, PhaseInv
<1>1. /\ state' = state /\ Skid /\ UNCHANGED <<ridx, datain_disc, cur_lba, asked>>
      /\ (state = "DATAIN" => UNCHANGED <<pf_addr, dma_word>>)
  BY DEF Pause, Stay, readVars, phaseVars, Counters, Primes
<1>2. SectorInv' /\ PrimeInv'
  BY <1>1 DEF SectorInv, PrimeInv
<1>3. CASE astray' \/ ~Data'
  BY <1>2, <1>3 DEF WordsInv, DataInv
<1>4. CASE ~astray' /\ Data'
  <2>1. Data /\ ~sec_req
    BY <1>1, <1>4 DEF Data, AtapiInv, StateInv
  <2>2. ~astray
    BY <1>0, <1>1, <1>4, <2>1, ReadIsRead, StillNotAstray
  <2>3. /\ cstate = "IDLE" /\ Loaded /\ dma_word = Here(ridx) /\ pf_addr = ridx + 2
        /\ ridx + 1 < UserWords => \/ pf_skid = Here(ridx + 1)
                                   \/ pf_skid = NoWord /\ sbuf_q = Here(ridx + 1)
    BY <2>1, <2>2 DEF AtapiInv, DataInv
  <2>4. cstate' = "IDLE" /\ Loaded'
    BY <1>1, <2>1, <2>3, LoadedStays
  <2>5. ridx + 1 < UserWords => pf_skid' = Here(ridx + 1)
    BY <1>1, <2>1, <2>3, WordIsWord DEF Skid, Data
  <2>6. Here(ridx)' = Here(ridx) /\ Here(ridx + 1)' = Here(ridx + 1)
    BY <1>1 DEF Here
  <2>7. QED
    BY <1>1, <1>2, <2>1, <2>3, <2>4, <2>5, <2>6 DEF WordsInv, DataInv, Data
<1>5. QED
  BY <1>3, <1>4

(* A clock of the data phase on which a word is taken: the next one is there *)
(* though the buffer is a clock behind.                                    *)
LEMMA ConsumeWords ==
  ASSUME AtapiInv, NEW op, op.do # "ide_reset", NEW m \in Events,
         DataConsume(op), Reader(op, m), MainStep(m), GoAstray(op)
  PROVE  WordsInv'
<1>0. PhaseInv /\ astray \in BOOLEAN
  BY DEF AtapiInv, AtapiTypes, IrqTypes, PhaseInv
<1>1. /\ state = "DATAIN" /\ pf_skid' = NoWord /\ pf_addr' = pf_addr + 1
      /\ dma_word' = (IF pf_skid /= NoWord THEN pf_skid ELSE sbuf_q)
      /\ UNCHANGED <<datain_disc, asked>>
  BY DEF DataConsume
<1>2. SectorInv' /\ PrimeInv'
  <2>1. state' = "FETCH" => sec_req' = TRUE
    BY <1>1 DEF DataConsume, Stay, Busy, Complete
  <2>2. QED
    BY <2>1 DEF SectorInv, PrimeInv
<1>3. CASE astray' \/ ~Data'
  BY <1>2, <1>3 DEF WordsInv, DataInv
<1>4. CASE ~astray' /\ Data'
  <2>1. Data /\ ~sec_req
    BY <1>1, <1>4 DEF Data, AtapiInv, StateInv
  <2>2. ridx + 1 < resp_len /\ ridx' = ridx + 1 /\ cur_lba' = cur_lba
    BY <1>4 DEF DataConsume, Data, Busy, Complete, fetchVars
  <2>3. resp_len = UserWords /\ ridx \in Nat
    BY <1>0, <2>1 DEF PhaseInv, ReadInv, DriveTypes
  <2>4. ~astray
    BY <1>0, <1>1, <1>4, <2>1, ReadIsRead, StillNotAstray
  <2>5. /\ cstate = "IDLE" /\ Loaded /\ pf_addr = ridx + 2
        /\ \/ pf_skid = Here(ridx + 1)
           \/ pf_skid = NoWord /\ sbuf_q = Here(ridx + 1)
    BY <2>1, <2>2, <2>3, <2>4 DEF AtapiInv, DataInv
  <2>6. cstate' = "IDLE" /\ Loaded'
    BY <2>1, <2>2, <2>5, LoadedStays
  <2>7. dma_word' = Here(ridx + 1)
    BY <1>1, <2>5, WordIsWord
  <2>8. Here(ridx)' = Here(ridx + 1) /\ Here(ridx + 1)' = Here(ridx + 2)
    <3>1. ridx' + 1 = ridx + 2
      BY <2>2, <2>3
    <3>2. QED
      BY <2>2, <3>1 DEF Here
  <2>9. pf_addr' = ridx' + 2
    BY <1>1, <2>2, <2>3, <2>5
  <2>10. ridx' + 1 < UserWords => sbuf_q' = Here(ridx + 2)
    <3>1. SUFFICES ASSUME ridx' + 1 < UserWords PROVE sbuf_q' = Here(ridx + 2)
      OBVIOUS
    <3>2. pf_addr < UserWords
      BY <2>2, <2>3, <2>5, <3>1, Sizes
    <3>3. QED
      BY <1>0, <2>2, <2>5, <3>2, BufferAnswers
  <2>11. QED
    BY <1>1, <1>2, <2>6, <2>7, <2>8, <2>9, <2>10 DEF WordsInv, DataInv
<1>5. QED
  BY <1>3, <1>4

(* Any clock. *)
LEMMA WordsStep ==
  ASSUME AtapiInv, MainTypes', NEW op \in Accesses, NEW m \in Events, Clock(op, m)
  PROVE  WordsInv'
<1>0. PhaseInv /\ sbuf_q \in DiscWords
  BY DEF AtapiInv, AtapiTypes, ReaderTypes, PhaseInv
<1>1. Drive(op) /\ Reader(op, m) /\ MainStep(m) /\ GoAstray(op)
  BY DEF Clock
<1>2. ASSUME sec_req' \/ state' # "FETCH", ~Data' PROVE WordsInv'
  BY <1>2 DEF WordsInv, SectorInv, PrimeInv, DataInv
<1>3. CASE op.do = "ide_reset" /\ IdeReset
  <2>1. state' # "FETCH" /\ ~Data'
    BY <1>3 DEF IdeReset, Data
  <2>2. QED
    BY <1>2, <2>1
<1>4. CASE op.do \in Commands /\ Command(op)
  BY <1>0, <1>2, <1>4, CommandPhase
<1>5. CASE op \in Packets /\ Dispatch(op)
  <2>1. sec_req' \/ (state' # "FETCH" /\ ~Data')
    BY <1>0, <1>5, DispatchPhase
  <2>2. sec_req' => state' = "FETCH"
    BY <1>0, <1>5, DispatchPhase DEF PhaseInv, StateInv
  <2>3. QED
    BY <1>2, <2>1, <2>2 DEF Data
<1>6. CASE PacketWord(op) \/ DataOut(op)
  BY <1>0, <1>2, <1>6, WordOutPhase
<1>7. CASE op.do \notin {"ide_reset"} /\ Raises /\ Raise
  BY <1>1, <1>7, RaiseWords
<1>8. CASE op.do \notin {"ide_reset"} /\ ~Raises /\ Pause(op)
  BY <1>1, <1>8, FetchPause, DataPause
<1>9. CASE op.do = "data" /\ DataConsume(op)
  BY <1>1, <1>9, ConsumeWords
<1>10. "device_reset" \in Commands /\ "ide_reset" \notin {"none", "status", "soft_reset", "device_reset"}
  BY DEF Commands
<1>11. QED
  BY <1>1, <1>3, <1>4, <1>5, <1>6, <1>7, <1>8, <1>9, <1>10 DEF Drive

-----------------------------------------------------------------------------
LEMMA AtapiInit == Init => AtapiInv
<1> SUFFICES ASSUME Init PROVE AtapiInv
  OBVIOUS
<1>1. NoWord \in DiscWords /\ 0 \in 0 .. PacketWords - 1 /\ 0 \in 0 .. RawWords - 1 /\ 0 \in 0 .. RawWords
      /\ NoRead \in [lba : Nat, len : Nat]
  BY Sizes DEF DiscWords, NoRead
<1>2. DriveTypes
  <2>1. irq_event \in BOOLEAN /\ datain_disc \in BOOLEAN /\ sec_req \in BOOLEAN
    BY DEF Init
  <2>2. /\ ridx \in Nat /\ resp_len \in Nat /\ nblk \in Nat /\ cur_lba \in Nat
        /\ fetch_wait \in Nat /\ pf_addr \in Nat /\ words \in Nat /\ pf_cnt \in 0 .. 3
        /\ pkt_idx \in 0 .. PacketWords - 1
    BY <1>1 DEF Init
  <2>3. /\ state \in {"IDLE", "PKT", "DATAIN", "DATAOUT", "FETCH", "TOC", "TOC_BAD", "PREP"}
        /\ status \in {"none", "drq", "busy", "data", "good", "error"}
        /\ reason \in {"CD", "IO", "CD|IO", "out"}
        /\ asked \in [lba : Nat, len : Nat]
        /\ dma_word \in DiscWords /\ pf_skid \in DiscWords
    BY <1>1 DEF Init
  <2>4. QED
    BY <2>1, <2>2, <2>3 DEF DriveTypes
<1>3. ReaderTypes
  BY <1>1 DEF Init, ReaderTypes
<1>4. MainTypes
  BY <1>1 DEF Init, MainTypes, Quiet
<1>5. IrqTypes
  BY DEF Init, IrqTypes
<1>6. StateInv /\ ReadInv /\ SectorInv /\ PrimeInv /\ DataInv
  BY DEF Init, StateInv, ReadInv, SectorInv, PrimeInv, DataInv, Data
<1>7. QED
  BY <1>2, <1>3, <1>4, <1>5, <1>6 DEF AtapiInv, AtapiTypes

LEMMA AtapiStep == AtapiInv /\ [Next]_vars => AtapiInv'
<1> SUFFICES ASSUME AtapiInv, [Next]_vars PROVE AtapiInv'
  OBVIOUS
<1>1. CASE Next
  <2>1. PICK op \in Accesses, m \in Events : Clock(op, m)
    BY <1>1 DEF Next
  <2>2. PhaseInv /\ ReaderTypes /\ MainTypes /\ IrqTypes /\ sbuf_q \in DiscWords
    BY DEF AtapiInv, AtapiTypes, PhaseInv, ReaderTypes
  <2>3. Drive(op) /\ Pending(op) /\ IrqOut(op) /\ Reader(op, m) /\ MainStep(m) /\ SeeEdge /\ GoAstray(op)
    BY <2>1 DEF Clock
  <2>4. PhaseInv'
    BY <2>2, <2>3, DrivePhase
  <2>5. MainTypes' /\ ReaderTypes'
    BY <2>2, <2>3, MainStepTypes, ReaderStepTypes
  <2>6. IrqTypes'
    <3>1. irq_event \in BOOLEAN /\ irq_event' \in BOOLEAN
      BY <2>2, <2>4 DEF PhaseInv, DriveTypes
    <3>2. irq_pending' \in BOOLEAN /\ irq_out' \in BOOLEAN
      BY <2>2, <2>3, <3>1 DEF IrqTypes, Pending, IrqOut
    <3>3. unseen' \in BOOLEAN
      BY <2>2, <2>3, <3>1, <3>2 DEF IrqTypes, SeeEdge
    <3>4. astray' \in BOOLEAN
      BY <2>2, <2>3 DEF IrqTypes, GoAstray, StrayNow
    <3>5. QED
      BY <3>2, <3>3, <3>4 DEF IrqTypes
  <2>7. WordsInv'
    BY <2>1, <2>5, WordsStep
  <2>8. QED
    BY <2>4, <2>5, <2>6, <2>7 DEF AtapiInv, AtapiTypes, PhaseInv, WordsInv
<1>2. CASE UNCHANGED vars
  <2> USE <1>2 DEF vars, taskVars, irqVars, phaseVars, fetchVars, wordVars, cdVars, history, readVars
  <2>1. AtapiTypes'
    BY DEF AtapiInv, AtapiTypes, DriveTypes, ReaderTypes, MainTypes, IrqTypes
  <2>2. StateInv' /\ ReadInv'
    BY DEF AtapiInv, StateInv, ReadInv, Data
  <2>3. SectorInv' /\ PrimeInv' /\ DataInv'
    BY DEF AtapiInv, SectorInv, PrimeInv, DataInv, Serves, Loaded, Here, Data
  <2>4. QED
    BY <2>1, <2>2, <2>3 DEF AtapiInv
<1>3. QED
  BY <1>1, <1>2

(* The drive, the sector reader and Main stay in order, whatever the game    *)
(* does and however slow Main is.                                          *)
THEOREM AtapiInvariant == Spec => []AtapiInv
<1>1. QED
  BY AtapiInit, AtapiStep, PTL DEF Spec

(* The word a READ offers is the next word of the range it asked for, unless *)
(* a request of it went astray; every index stays in the sector buffer.      *)
THEOREM ServesItsWords == Spec => []ServesInOrder
<1>1. AtapiInv => ServesInOrder
  <2>1. SUFFICES ASSUME AtapiInv PROVE ServesInOrder
    OBVIOUS
  <2>2. TypeOK
    <3>1. sbuf \in [0 .. UserWords - 1 -> DiscWords]
      BY <2>1 DEF AtapiInv, AtapiTypes, ReaderTypes
    <3>2. {sbuf[i] : i \in DOMAIN sbuf} \subseteq DiscWords
      BY <3>1
    <3>3. state = "DATAIN" /\ datain_disc => ridx < UserWords
      BY <2>1 DEF AtapiInv, ReadInv, Data
    <3>4. wcnt \in 0 .. RawWords - 1 /\ main.pos \in 0 .. RawWords
          /\ main.at \in {"idle", "fetch", "ack", "stream"}
      BY <2>1 DEF AtapiInv, AtapiTypes, ReaderTypes, MainTypes
    <3>5. {dma_word, pf_skid, sbuf_q} \cup {sbuf[i] : i \in DOMAIN sbuf} \subseteq DiscWords
      BY <2>1, <3>2 DEF AtapiInv, AtapiTypes, DriveTypes, ReaderTypes
    <3>6. {irq_pending, irq_event, irq_out, datain_disc, sec_req, cd_req, sec_ready,
           astray, unseen} \subseteq BOOLEAN
      BY <2>1 DEF AtapiInv, AtapiTypes, DriveTypes, ReaderTypes, IrqTypes
    <3>7. cstate \in {"IDLE", "REQ", "STREAM", "DONE"}
      BY <2>1 DEF AtapiInv, AtapiTypes, ReaderTypes
    <3>8. QED
      BY <2>1, <3>3, <3>4, <3>5, <3>6, <3>7 DEF AtapiInv, AtapiTypes, DriveTypes, TypeOK
  <2>3. ASSUME Data, ~astray PROVE dma_word = Wanted
    <3>1. dma_word = Here(ridx)
      BY <2>1, <2>3 DEF AtapiInv, DataInv
    <3>2. /\ words = UserWords * (asked.len - nblk) + ridx /\ cur_lba = asked.lba + (asked.len - nblk)
          /\ ridx \in Nat /\ ridx < UserWords /\ asked.len - nblk \in Nat
      <4>1. asked.len \in Nat /\ nblk \in 1 .. asked.len /\ ridx \in Nat
        BY <2>1, <2>3 DEF AtapiInv, AtapiTypes, DriveTypes, ReadInv
      <4>2. asked.len - nblk \in Nat
        BY <4>1
      <4>3. QED
        BY <2>1, <2>3, <4>1, <4>2 DEF AtapiInv, ReadInv
    <3>3. PICK q \in Nat : q = asked.len - nblk
      BY <3>2
    <3>4. ridx \in 0 .. UserWords - 1 /\ words = UserWords * q + ridx
      BY <3>2, <3>3, Sizes
    <3>5. (words % UserWords) = ridx
      BY <3>4, Sizes, ModUnique
    <3>6. (words \div UserWords) = q
      <4>1. UserWords * q \in Nat
        BY Sizes, SMTT(30)
      <4>2. words \in Nat /\ UserWords * q <= words /\ words < UserWords * q + UserWords
        BY <3>4, <4>1, Sizes
      <4>3. QED
        BY <4>2, Sizes, DivIs
    <3>7. QED
      BY <3>1, <3>2, <3>3, <3>5, <3>6 DEF Wanted, Here
  <2>4. QED
    BY <2>2, <2>3 DEF ServesInOrder, Data
<1>2. QED
  BY <1>1, AtapiInvariant, PTL

(* A READ ends with one completion, after the last word of its last sector. *)
THEOREM ReadsCompleteOnce == Spec => CompletesOnce
<1>1. AtapiInv /\ [Next]_vars =>
        [state = "DATAIN" /\ datain_disc /\ state' = "IDLE" /\ asked' /= NoRead
           => words' = asked.len * UserWords]_vars
  <2>1. SUFFICES ASSUME AtapiInv, Next, Data, state' = "IDLE", asked' # NoRead
                 PROVE  words' = asked.len * UserWords
    BY DEF Data
  <2>2. PICK op \in Accesses, m \in Events : Clock(op, m)
    BY <2>1 DEF Next
  <2>3. PhaseInv /\ sbuf_q \in DiscWords
    BY <2>1 DEF AtapiInv, AtapiTypes, ReaderTypes, PhaseInv
  <2>4. DataConsume(op)
    <3>1. ~Raises /\ state = "DATAIN"
      BY <2>1 DEF Raises, Primes, Data
    <3>2. ~IdeReset /\ ~Command(op) /\ ~Pause(op) /\ ~PacketWord(op) /\ ~DataOut(op) /\ ~Dispatch(op)
      BY <2>1, <3>1 DEF IdeReset, Command, Pause, Stay, PacketWord, DataOut, Dispatch
    <3>3. QED
      BY <2>2, <3>1, <3>2 DEF Clock, Drive
  <2>5. words' = UserWords * asked.len
    BY <2>1, <2>3, <2>4, ConsumePhase
  <2>6. asked.len \in Nat
    BY <2>3 DEF PhaseInv, DriveTypes
  <2>7. QED
    BY <2>5, <2>6, Sizes
<1>2. QED
  BY <1>1, AtapiInvariant, PTL DEF Spec, CompletesOnce

(* No event is lost on the edge-triggered interrupt controller, whatever the *)
(* order of events, acknowledgements and resets.                            *)
THEOREM NoEdgeIsLost == Spec => []NoLostEdge
<1>1. Init => NoLostEdge
  BY DEF Init, NoLostEdge
<1>2. NoLostEdge /\ [Next]_vars => NoLostEdge'
  <2>1. SUFFICES ASSUME NoLostEdge, [Next]_vars PROVE NoLostEdge'
    OBVIOUS
  <2>2. CASE Next
    BY <2>1, <2>2 DEF Next, Clock, Pending, IrqOut, SeeEdge, NoLostEdge
  <2>3. CASE UNCHANGED vars
    BY <2>1, <2>3 DEF vars, irqVars, history, NoLostEdge
  <2>4. QED
    BY <2>1, <2>2, <2>3
<1>3. QED
  BY <1>1, <1>2, PTL DEF Spec

================================================================================
