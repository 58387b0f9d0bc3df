---------------------------- MODULE PcmTransport ----------------------------
(***************************************************************************)
(* The decoded-PCM path: the HPS service writes beats (two stereo samples) *)
(* into a DDR3 ring and publishes its write pointer over the SPI mailbox;  *)
(* the ring reader (s573_pcm_ring) copies beats into the elastic buffer    *)
(* (s573_mp3_pcm), and the 44.1 kHz drain plays one sample per clock.      *)
(*                                                                         *)
(* One action is one clock edge at which one of these machines moves.  Two *)
(* of them may move on the same edge of the real clock; each reads only    *)
(* registers of the other (hps_wr_ptr, wr_full, the rd handshake), and     *)
(* their simultaneous step equals one order of the two single steps.       *)
(*                                                                         *)
(* Pointers carry the wrap bit: they count modulo twice the depth, so that *)
(* equal means empty and one depth apart means full.                       *)
(***************************************************************************)
EXTENDS Naturals, Sequences

CONSTANTS
  RingBeats,   \* beats in the DDR3 ring, 2^BEATS_LOG2
  FifoDepth,   \* stereo samples in the elastic buffer, 2^AW
  EpochMod,    \* values of the reset epoch, 2^8
  MaxBeats     \* bound: beats the service decodes in one behaviour

ASSUME RingBeatsAssumption == RingBeats \in Nat \ {0}
ASSUME FifoDepthAssumption == FifoDepth \in Nat \ {0}
ASSUME EpochModAssumption == EpochMod \in Nat /\ EpochMod > 1
ASSUME MaxBeatsAssumption == MaxBeats \in Nat

VARIABLES
  (* the HPS service *)
  decoded,     \* beats decoded so far: the number of the next one
  ring,        \* the DDR3 ring: beat number held by each slot
  hwr,         \* the service's write pointer
  hrd,         \* fab_pcm_rd as the last complete poll returned it
  hepoch,      \* the reset epoch the service runs under, and acknowledges
  poll,        \* the PTRS exchange in progress: the word that comes next
  polled,      \* fab_pcm_rd as word 0 of that exchange returned it
  collapsed,   \* a rewound write pointer has not been published yet
  (* the mailbox (s573_hps_ext) *)
  rst_epoch,
  hps_rst_ack,
  snap,        \* rst_epoch as latched at word 0 (snap[3])
  hps_pcm_wr,  \* the published write pointer
  drain_en,    \* ctrl_flags[1]
  (* the ring reader (s573_pcm_ring) and its DDR3 read channel *)
  state,
  fab_rd_ptr,
  beat,
  rd_req,
  rd_ack,
  rd_data,
  (* the elastic buffer (s573_mp3_pcm) *)
  mem,
  wptr,
  rptr,
  (* history *)
  played       \* the last sample played, plus one

hpsVars    == <<decoded, ring, hwr, hrd, hepoch, poll, polled, collapsed>>
mboxVars   == <<rst_epoch, hps_rst_ack, snap, hps_pcm_wr, drain_en>>
readerVars == <<state, fab_rd_ptr, beat, rd_req, rd_ack, rd_data>>
bufferVars == <<mem, wptr, rptr, played>>
vars == <<hpsVars, mboxVars, readerVars, bufferVars>>

-----------------------------------------------------------------------------
(* Pointer arithmetic modulo twice a depth, written without division. *)

Ptr(depth) == 0 .. 2 * depth - 1

Advance(p, depth) == IF p + 1 = 2 * depth THEN 0 ELSE p + 1

(* Pointer w minus pointer r, modulo twice the depth. *)
Ahead(w, r, depth) == IF w >= r THEN w - r ELSE w + 2 * depth - r

(* The memory slot a pointer selects: the pointer without its wrap bit. *)
Slot(p, depth) == IF p >= depth THEN p - depth ELSE p

Epoch == 0 .. EpochMod - 1

NextEpoch == IF rst_epoch + 1 = EpochMod THEN 0 ELSE rst_epoch + 1

SamplesOf(b) == <<2 * b, 2 * b + 1>>

States == {"IDLE", "REQ", "PUSH0", "PUSH1", "WAIT"}

AlwaysThawed == TRUE

ptrs_thawed == hps_rst_ack = rst_epoch

HaveDataNoWrapBit == Slot(hps_pcm_wr, RingBeats) # Slot(fab_rd_ptr, RingBeats)

have_data == hps_pcm_wr # fab_rd_ptr

empty == wptr = rptr

NeverFull == FALSE

full == Ahead(wptr, rptr, FifoDepth) = FifoDepth

-----------------------------------------------------------------------------
Init ==
  /\ decoded = 0
  /\ ring = [s \in 0 .. RingBeats - 1 |-> 0]
  /\ hwr = 0 /\ hrd = 0 /\ hepoch = 0
  /\ poll = "none" /\ polled = 0 /\ collapsed = FALSE
  /\ rst_epoch = 0 /\ hps_rst_ack = 0 /\ snap = 0
  /\ hps_pcm_wr = 0 /\ drain_en = FALSE
  /\ state = "IDLE" /\ fab_rd_ptr = 0 /\ beat = 0
  /\ rd_req = FALSE /\ rd_ack = FALSE /\ rd_data = 0
  /\ mem = [s \in 0 .. FifoDepth - 1 |-> 0]
  /\ wptr = 0 /\ rptr = 0
  /\ played = 0

-----------------------------------------------------------------------------
(* The ring reader.                                                        *)

(* A beat is fetched only when one is published and the buffer has room. *)
RingFetch ==
  /\ state = "IDLE"
  /\ have_data /\ ~full
  /\ rd_req' = TRUE
  /\ state' = "REQ"
  /\ UNCHANGED <<hpsVars, mboxVars, fab_rd_ptr, beat, rd_ack, rd_data, bufferVars>>

RingLatch ==
  /\ state = "REQ"
  /\ rd_ack
  /\ beat' = rd_data
  /\ rd_req' = FALSE
  /\ state' = "PUSH0"
  /\ UNCHANGED <<hpsVars, mboxVars, fab_rd_ptr, rd_ack, rd_data, bufferVars>>

(* One sample enters the elastic buffer (wr_en, combinational, is ~full here). *)
Push(sample) ==
  /\ ~full
  /\ mem' = [mem EXCEPT ![Slot(wptr, FifoDepth)] = sample]
  /\ wptr' = Advance(wptr, FifoDepth)
  /\ UNCHANGED <<rptr, played>>

RingPush0 ==
  /\ state = "PUSH0"
  /\ Push(SamplesOf(beat)[1])
  /\ state' = "PUSH1"
  /\ UNCHANGED <<hpsVars, mboxVars, fab_rd_ptr, beat, rd_req, rd_ack, rd_data>>

(* The read pointer moves only when the beat's second sample has landed. *)
RingPush1 ==
  /\ state = "PUSH1"
  /\ Push(SamplesOf(beat)[2])
  /\ fab_rd_ptr' = Advance(fab_rd_ptr, RingBeats)
  /\ state' = "WAIT"
  /\ UNCHANGED <<hpsVars, mboxVars, beat, rd_req, rd_ack, rd_data>>

RingWait ==
  /\ state = "WAIT"
  /\ ~rd_ack
  /\ state' = "IDLE"
  /\ UNCHANGED <<hpsVars, mboxVars, fab_rd_ptr, beat, rd_req, rd_ack, rd_data, bufferVars>>

(* The DDR3 side of the four-phase read: the slot is read when it is served. *)
DdrAnswer ==
  /\ rd_req /\ ~rd_ack
  /\ rd_ack' = TRUE
  /\ rd_data' = ring[Slot(fab_rd_ptr, RingBeats)]
  /\ UNCHANGED <<hpsVars, mboxVars, state, fab_rd_ptr, beat, rd_req, bufferVars>>

DdrRelease ==
  /\ ~rd_req /\ rd_ack
  /\ rd_ack' = FALSE
  /\ UNCHANGED <<hpsVars, mboxVars, state, fab_rd_ptr, beat, rd_req, rd_data, bufferVars>>

-----------------------------------------------------------------------------
(* The drain: a sample clock plays the head of the buffer, and ticks.  On an *)
(* empty buffer it is silent and changes nothing here: no pop and no tick.   *)
DrainPop ==
  /\ drain_en
  /\ ~empty
  /\ played' = mem[Slot(rptr, FifoDepth)] + 1
  /\ rptr' = Advance(rptr, FifoDepth)
  /\ UNCHANGED <<hpsVars, mboxVars, readerVars, mem, wptr>>

-----------------------------------------------------------------------------
(* The mailbox exchange CMD_573_PTRS, one action per SPI word.             *)

PtrsCmd ==
  /\ poll = "none"
  /\ poll' = "word1"
  /\ polled' = fab_rd_ptr
  /\ snap' = rst_epoch
  /\ UNCHANGED <<decoded, ring, hwr, hrd, hepoch, collapsed,
                 rst_epoch, hps_rst_ack, hps_pcm_wr, drain_en, readerVars, bufferVars>>

(* The pointer word is ignored until the service has acknowledged the reset. *)
PtrsWord1 ==
  /\ poll = "word1"
  /\ poll' = "word3"
  /\ hps_pcm_wr' = IF ptrs_thawed THEN hwr ELSE hps_pcm_wr
  /\ collapsed' = (collapsed /\ ~ptrs_thawed)
  /\ UNCHANGED <<decoded, ring, hwr, hrd, hepoch, polled,
                 rst_epoch, hps_rst_ack, snap, drain_en, readerVars, bufferVars>>

(* The service re-initialises its ring writer when word 3 shows a new epoch. *)
Reinit ==
  /\ hepoch' = snap
  /\ hwr' = 0
  /\ hrd' = 0
  /\ collapsed' = FALSE

Keep ==
  /\ hrd' = polled
  /\ UNCHANGED <<hepoch, hwr, collapsed>>

PtrsWord3 ==
  /\ poll = "word3"
  /\ poll' = "none"
  /\ polled' = 0
  /\ hps_rst_ack' = hepoch
  /\ IF snap # hepoch THEN Reinit ELSE Keep
  /\ UNCHANGED <<decoded, ring, rst_epoch, snap, hps_pcm_wr, drain_en, readerVars, bufferVars>>

(* io_enable falls before the last word: the service retries with nothing learned. *)
PtrsAbort ==
  /\ poll # "none"
  /\ poll' = "none"
  /\ polled' = 0
  /\ UNCHANGED <<decoded, ring, hwr, hrd, hepoch, collapsed, mboxVars, readerVars, bufferVars>>

-----------------------------------------------------------------------------
(* The service between two polls (Main's support/s573, outside this        *)
(* repository: modelled from the mailbox contract).                        *)

HpsDecode ==
  /\ poll = "none"
  /\ decoded < MaxBeats
  /\ Ahead(hwr, hrd, RingBeats) < RingBeats
  /\ ring' = [ring EXCEPT ![Slot(hwr, RingBeats)] = decoded]
  /\ decoded' = decoded + 1
  /\ hwr' = Advance(hwr, RingBeats)
  /\ UNCHANGED <<hrd, hepoch, poll, polled, collapsed, mboxVars, readerVars, bufferVars>>

(* With the drain off, the reader stops on a full buffer or an empty ring. *)
parked ==
  \/ state \in {"IDLE", "PUSH0", "PUSH1"} /\ full
  \/ state = "IDLE" /\ ~have_data

(* A new song rewinds the writer to one beat past the reader: the reader may  *)
(* hold that beat.  It waits for the drain to be off, the reader parked and   *)
(* its pointer polled, and publishes before it starts the drain again.        *)
HpsCollapse ==
  /\ poll = "none"
  /\ ~drain_en /\ parked
  /\ hrd = fab_rd_ptr
  /\ Ahead(hwr, hrd, RingBeats) > 1
  /\ hwr' = Advance(hrd, RingBeats)
  /\ collapsed' = TRUE
  /\ UNCHANGED <<decoded, ring, hrd, hepoch, poll, polled, mboxVars, readerVars, bufferVars>>

(* CMD_573_CTRL word 2: not frozen by the reset epoch. *)
CtrlDrain(on) ==
  /\ poll = "none"
  /\ drain_en # on
  /\ on => ~collapsed
  /\ drain_en' = on
  /\ UNCHANGED <<hpsVars, rst_epoch, hps_rst_ack, snap, hps_pcm_wr, readerVars, bufferVars>>

(* The epoch moves once per reset.  One that the service or the mailbox still  *)
(* holds is not reused: 256 resets do not fit between two polls.             *)
EpochKept == UNCHANGED rst_epoch

BumpEpoch ==
  /\ NextEpoch \notin {hps_rst_ack, hepoch, snap}
  /\ rst_epoch' = NextEpoch

(* A core reset, at any moment: it clears the reader, the buffer pointers,  *)
(* the DDR3 channel and the mailbox's core-facing registers, and moves the  *)
(* epoch; the service and the SPI framing go on.                            *)
CoreReset ==
  /\ BumpEpoch
  /\ hps_pcm_wr' = 0
  /\ drain_en' = FALSE
  /\ state' = "IDLE" /\ fab_rd_ptr' = 0 /\ beat' = 0
  /\ rd_req' = FALSE /\ rd_ack' = FALSE /\ rd_data' = 0
  /\ wptr' = 0 /\ rptr' = 0
  /\ UNCHANGED <<hpsVars, hps_rst_ack, snap, mem, played>>

-----------------------------------------------------------------------------
Reader == RingFetch \/ RingLatch \/ RingPush0 \/ RingPush1 \/ RingWait

Channel == DdrAnswer \/ DdrRelease

Exchange == PtrsCmd \/ PtrsWord1 \/ PtrsWord3 \/ PtrsAbort

Service == HpsDecode \/ HpsCollapse \/ \E on \in BOOLEAN : CtrlDrain(on)

Next == Reader \/ Channel \/ DrainPop \/ Exchange \/ Service \/ CoreReset

Spec == Init /\ [][Next]_vars

(* The fabric's clock never stops and the service polls every few            *)
(* milliseconds, so polls complete again and again; nothing makes the        *)
(* service decode, change songs, or start the drain.                         *)
Fairness ==
  /\ WF_vars(Reader)
  /\ WF_vars(Channel)
  /\ WF_vars(DrainPop)
  /\ WF_vars(PtrsCmd)
  /\ SF_vars(PtrsWord1)
  /\ SF_vars(PtrsWord3)

FairSpec == Spec /\ Fairness

-----------------------------------------------------------------------------
(* Every pointer, epoch and sample keeps its range: no slot outside the ring *)
(* or the buffer is ever read or written.                                    *)
TypeOK ==
  /\ decoded \in 0 .. MaxBeats
  /\ ring \in [0 .. RingBeats - 1 -> Nat]
  /\ hwr \in Ptr(RingBeats) /\ hrd \in Ptr(RingBeats) /\ polled \in Ptr(RingBeats)
  /\ hepoch \in Epoch /\ rst_epoch \in Epoch /\ hps_rst_ack \in Epoch /\ snap \in Epoch
  /\ poll \in {"none", "word1", "word3"}
  /\ collapsed \in BOOLEAN /\ drain_en \in BOOLEAN
  /\ hps_pcm_wr \in Ptr(RingBeats) /\ fab_rd_ptr \in Ptr(RingBeats)
  /\ state \in States
  /\ beat \in Nat /\ rd_data \in Nat
  /\ rd_req \in BOOLEAN /\ rd_ack \in BOOLEAN
  /\ mem \in [0 .. FifoDepth - 1 -> Nat]
  /\ wptr \in Ptr(FifoDepth) /\ rptr \in Ptr(FifoDepth)
  /\ played \in Nat

(* The reader never laps the writer: what it sees as unread, in the ring's   *)
(* own full-width pointer difference, is never more than one ring, so "not   *)
(* equal" always means data the service wrote and has not been played yet.   *)
NeverLaps == Ahead(hps_pcm_wr, fab_rd_ptr, RingBeats) <= RingBeats

(* A beat in the reader's hands has not been given back: its slot is still   *)
(* counted as unread, so the service cannot overwrite it nor rewind past it. *)
HeldBeatIsCounted == state \in {"REQ", "PUSH0", "PUSH1"} => have_data

(* The service never takes for free a slot the reader has yet to copy: under *)
(* the epoch it knows, its own pointers span what is published and unread.   *)
FreeSpaceIsSafe ==
  (hepoch = rst_epoch) =>
     Ahead(hwr, fab_rd_ptr, RingBeats) <= Ahead(hwr, hrd, RingBeats)

(* No lap of the ring is taken for another, on either side of it, and no     *)
(* register leaves its type.                                                *)
RingIsSafe == TypeOK /\ NeverLaps /\ FreeSpaceIsSafe

(* After a reset nothing reaches the buffer until the service has heard of   *)
(* it: a stale pointer never reopens the ring.                               *)
StaleEpochIsSilent == hepoch # rst_epoch => ~have_data /\ empty

-----------------------------------------------------------------------------
(* Why the properties above hold: the strengthening the proofs use.        *)

Synced == hepoch = rst_epoch

(* Pointers measured from the service's copy of the read pointer. *)
FromHrd(p) == Ahead(p, hrd, RingBeats)

EpochInv ==
  /\ ptrs_thawed => Synced
  /\ poll # "none" /\ Synced => snap = rst_epoch
  /\ ~Synced => /\ hps_pcm_wr = 0 /\ fab_rd_ptr = 0
                /\ wptr = rptr
                /\ state = "IDLE"

(* In the order the pointers chase each other: the service's copy of the     *)
(* read pointer, the pointer now being polled, the reader, the published     *)
(* write pointer, the service's write pointer, all within one ring.          *)
SpanInv ==
  Synced /\ ~collapsed =>
    /\ FromHrd(fab_rd_ptr) <= FromHrd(hps_pcm_wr)
    /\ FromHrd(hps_pcm_wr) <= FromHrd(hwr)
    /\ FromHrd(hwr) <= RingBeats
    /\ poll # "none" => FromHrd(polled) <= FromHrd(fab_rd_ptr)

(* A rewound pointer that is not published yet: the reader stands still one  *)
(* beat behind it.                                                           *)
CollapseInv ==
  Synced /\ collapsed =>
    /\ ~drain_en /\ parked
    /\ fab_rd_ptr = hrd
    /\ FromHrd(hps_pcm_wr) <= RingBeats
    /\ 1 <= FromHrd(hwr) /\ FromHrd(hwr) <= RingBeats
    /\ poll # "none" => polled = hrd

IInv ==
  /\ EpochInv
  /\ SpanInv
  /\ CollapseInv
  /\ HeldBeatIsCounted

-----------------------------------------------------------------------------
(* If the drain is left on, everything the service decoded and did not       *)
(* rewind is published and played, whatever resets came before.              *)
PlaysOut == <>[]drain_en => <>[](hwr = fab_rd_ptr /\ empty)

(* The path implements the abstract queue: the buffer, then the beat in the  *)
(* reader's hands, then the unread ring as the service that knows the epoch  *)
(* sees it.  So samples are heard in decode order and at most once, across   *)
(* ring laps, song changes, resets and retried polls.                        *)
BufferContents ==
  [i \in 1 .. Ahead(wptr, rptr, FifoDepth) |->
     mem[(rptr + i - 1) % FifoDepth]]

(* The sample i places into the unread ring, its beat possibly in hand. *)
RingSample(i) ==
  LET inHand == state \in {"PUSH0", "PUSH1"} /\ i < 2
      b == IF inHand THEN beat ELSE ring[(fab_rd_ptr + i \div 2) % RingBeats]
  IN SamplesOf(b)[1 + (i % 2)]

RingContents ==
  LET unread == IF hepoch = rst_epoch THEN 2 * Ahead(hwr, fab_rd_ptr, RingBeats) ELSE 0
      pushed == IF state = "PUSH1" THEN 1 ELSE 0
  IN [i \in 1 .. unread - pushed |-> RingSample(i - 1 + pushed)]

Fifo == INSTANCE SampleFifo WITH queue <- BufferContents \o RingContents

ImplementsFifo == Fifo!FifoSpec
=============================================================================
