----------------------------- MODULE Mp3Pacing -----------------------------
(***************************************************************************)
(* The position of the MP3 stream.  The game writes a window and three     *)
(* control bits (k573dio); the streamer (k573_mp3stream) walks the window   *)
(* one descrambled word at a time, paced by credit (s573_mp3_credit); the  *)
(* HPS service, which decodes the same window by itself, reports the bytes *)
(* it consumed as a cumulative count and learns of a new configuration by  *)
(* the epoch that rides on the same exchange (s573_hps_ext).               *)
(*                                                                         *)
(* One action is one clock edge of one of these machines.  A register that *)
(* only delays another by one clock (last_epoch, last_cons as a copy of    *)
(* hps_cons_bytes) is merged into it: no SPI word fits in between.         *)
(***************************************************************************)
EXTENDS Naturals

CONSTANTS
  Starts, Ends,   \* byte addresses a game gives as mp3_start and mp3_end
  CtrlWords,      \* what a game writes to fpga_ctrl, as the set bits among 13, 14 and 15
  ConsMod,        \* values of hps_cons_bytes, 2^16
  CredMax,        \* the credit accumulator's clamp, 2^CRED_W - 1
  MaxEpoch,       \* bound: configuration changes between two resets
  MaxResets       \* bound: core resets in one behaviour

ASSUME AddressAssumption == Starts \cup Ends \subseteq Nat /\ 0 \in Starts \cap Ends
ASSUME CtrlAssumption == CtrlWords \subseteq SUBSET {13, 14, 15}
ASSUME ConsAssumption == ConsMod \in Nat /\ ConsMod > 1 /\ CredMax \in Nat \ {0}
ASSUME BoundAssumption == MaxEpoch \in Nat /\ MaxResets \in Nat

VARIABLES
  (* k573dio: what the game writes *)
  mp3_start, mp3_end,
  fpga_ctrl,    \* bits 13 (MP3_ENABLE), 14 (STREAMING_ENABLE), 15 (FRAME_COUNTER_ENABLE)
  cfg_ddrsbm,   \* the descramble scheme, an OSD option
  pending,      \* one clock of delay: "rearm" (mp3_reload_q), "notice" (a bit moved)
  cfg_epoch,
  (* k573_mp3stream *)
  state, cur, byte_counter,
  schedule,     \* words the key schedule has advanced since the keys were seeded
  (* s573_mp3_credit *)
  last_cons, rebaseline, credit, cred_ovf,
  (* s573_hps_ext *)
  thawed,       \* hps_rst_ack = rst_epoch
  snap,         \* latched at word 0, kept while the exchange lasts: cfg_epoch, and
                \* whether rst_epoch is still the one latched with it
  (* the HPS service *)
  poll,         \* the next step of its exchange
  told,         \* it knows of the last core reset
  svc_epoch,
  svc_cfg,      \* the configuration it mirrors
  svc_cons,     \* bytes consumed under it, the cumulative count it reports
  reported,     \* of these, reported in an exchange
  (* history *)
  resets,
  bit15,        \* bit 15 was written on its own since the epoch moved or was answered
  origin,       \* where the credit baseline comes from: "none", "stale", "late", "clean"
  taken         \* bytes the streamer emitted since the last new epoch

dioVars    == <<mp3_start, mp3_end, fpga_ctrl, cfg_ddrsbm, pending, cfg_epoch, bit15>>
streamVars == <<state, cur, byte_counter, schedule>>
creditVars == <<last_cons, rebaseline, credit, cred_ovf, origin, taken>>
mboxVars   == <<thawed, snap>>
hpsVars    == <<poll, told, svc_epoch, svc_cfg, svc_cons, reported>>
pacingVars == <<dioVars, streamVars, creditVars, mboxVars, hpsVars, resets>>

-----------------------------------------------------------------------------
States == {"IDLE", "LOAD", "ADDR", "REQ", "STB", "CAP", "HI", "LO"}

Enabled(ctrl) == {13, 14} \subseteq ctrl

stream_en == Enabled(fpga_ctrl)

(* The bits of fpga_ctrl whose change moves the epoch. *)
EpochBits(ctrl) == ctrl \cap {13, 14}

out_valid_states == {"HI", "LO"}

out_ready == credit # 0

last_word == cur + 2 >= mp3_end

(* 0xae bit 12, as the game reads it: still streaming. *)
fpga_ctrl_rb == 14 \in fpga_ctrl /\ cur >= mp3_start /\ cur < mp3_end

DeltaNotModular(cons) == IF cons >= last_cons THEN cons - last_cons ELSE 0

(* The bytes a new cumulative count stands for, modulo the width of the count. *)
Delta(cons) == IF cons >= last_cons THEN cons - last_cons ELSE cons + ConsMod - last_cons

Config == [start |-> mp3_start, end |-> mp3_end, ctrl |-> fpga_ctrl, ddrsbm |-> cfg_ddrsbm]

(* What the epoch covers of it. *)
Covered(cfg) == [cfg EXCEPT !.ctrl = EpochBits(@)]

Clamp(sum) == IF sum > CredMax THEN CredMax ELSE sum

NoConfig == [start |-> 0, end |-> 0, ctrl |-> {}, ddrsbm |-> FALSE]

NoSnap == [epoch |-> 0, told |-> TRUE]

Mp3Init ==
  /\ mp3_start = 0 /\ mp3_end = 0 /\ fpga_ctrl = {}
  /\ cfg_ddrsbm = FALSE
  /\ pending = "none" /\ cfg_epoch = 0 /\ bit15 = FALSE
  /\ state = "IDLE" /\ cur = 0 /\ byte_counter = 0 /\ schedule = 0
  /\ last_cons = 0 /\ rebaseline = TRUE /\ credit = 0 /\ cred_ovf = FALSE
  /\ origin = "none" /\ taken = 0
  /\ thawed = TRUE /\ snap = NoSnap
  /\ poll = "none" /\ told = TRUE
  /\ svc_epoch = 0 /\ svc_cfg = NoConfig /\ svc_cons = 0 /\ reported = 0
  /\ resets = 0

-----------------------------------------------------------------------------
(* The game.  It boots for seconds after a reset, the service polls within   *)
(* milliseconds: by its first write the service has heard of the reset, and   *)
(* has given up an epoch that the restarted counter would reach again.       *)
GameMayWrite ==
  /\ told /\ svc_epoch <= cfg_epoch
  /\ pending = "none"
  /\ cfg_epoch < MaxEpoch

(* Any setup register (a0..a8, ea, ec) re-arms, rewritten with its old value too. *)
WriteSetup(start, end) ==
  /\ GameMayWrite
  /\ start = mp3_start \/ end = mp3_end
  /\ mp3_start' = start
  /\ mp3_end' = end
  /\ pending' = "rearm"
  /\ UNCHANGED <<fpga_ctrl, cfg_ddrsbm, cfg_epoch, bit15, streamVars, creditVars,
                 mboxVars, hpsVars, resets>>

NoticeMissed == pending' = "none"

(* Bits 13 and 14 are compared with their copy of the previous clock. *)
Notice == pending' = "notice"

WriteCtrl(bits) ==
  /\ GameMayWrite
  /\ bits # fpga_ctrl
  /\ fpga_ctrl' = bits
  /\ IF EpochBits(bits) # EpochBits(fpga_ctrl) THEN Notice /\ UNCHANGED bit15
                                               ELSE bit15' = TRUE /\ UNCHANGED pending
  /\ UNCHANGED <<mp3_start, mp3_end, cfg_ddrsbm, cfg_epoch, streamVars, creditVars,
                 mboxVars, hpsVars, resets>>

ChangeScheme ==
  /\ GameMayWrite
  /\ cfg_ddrsbm' = ~cfg_ddrsbm
  /\ Notice
  /\ UNCHANGED <<mp3_start, mp3_end, fpga_ctrl, cfg_epoch, bit15, streamVars, creditVars,
                 mboxVars, hpsVars, resets>>

-----------------------------------------------------------------------------
(* The streamer.                                                           *)

StreamStart ==
  /\ state = "IDLE" /\ stream_en /\ cur < mp3_end
  /\ state' = "ADDR"
  /\ UNCHANGED <<cur, byte_counter, schedule>>

StreamLoad ==
  /\ state = "LOAD"
  /\ state' = "ADDR"
  /\ schedule' = 0
  /\ UNCHANGED <<cur, byte_counter>>

StreamAddress ==
  /\ state = "ADDR"
  /\ state' = IF stream_en /\ cur < mp3_end THEN "REQ" ELSE "IDLE"
  /\ UNCHANGED <<cur, byte_counter, schedule>>

(* The backing answers when it can; a disable seen at the same edge wins. *)
StreamRead ==
  /\ state = "REQ" /\ stream_en
  /\ state' = "STB"
  /\ UNCHANGED <<cur, byte_counter, schedule>>

(* word_stb: the key schedule advances for the word in flight. *)
StreamStrobe ==
  /\ state = "STB"
  /\ state' = "CAP"
  /\ schedule' = schedule + 1
  /\ UNCHANGED <<cur, byte_counter>>

StreamCapture ==
  /\ state = "CAP"
  /\ state' = "HI"
  /\ UNCHANGED <<cur, byte_counter, schedule>>

(* The window's last low byte is dropped, as the original's is. *)
StreamRetire ==
  /\ state = "LO" /\ stream_en /\ last_word
  /\ cur' = cur + 2
  /\ state' = "ADDR"
  /\ UNCHANGED <<byte_counter, schedule>>

AbandonAlways ==
  /\ state # "IDLE" /\ ~stream_en
  /\ state' = "IDLE"
  /\ UNCHANGED <<cur, byte_counter, schedule>>

(* A disable unwinds only while nothing of the word has been consumed. *)
StreamAbandon ==
  /\ state = "REQ" /\ ~stream_en
  /\ state' = "IDLE"
  /\ UNCHANGED <<cur, byte_counter, schedule>>

StreamStep ==
  /\ pending # "rearm"
  /\ \/ StreamStart \/ StreamLoad \/ StreamAddress \/ StreamRead
     \/ StreamStrobe \/ StreamCapture \/ StreamRetire \/ StreamAbandon
  /\ UNCHANGED <<dioVars, creditVars, mboxVars, hpsVars, resets>>

(* One byte leaves, and costs one credit. *)
Accept ==
  /\ pending # "rearm"
  /\ stream_en /\ out_ready
  /\ \/ state = "HI" /\ state' = "LO" /\ UNCHANGED cur
     \/ state = "LO" /\ ~last_word /\ state' = "ADDR" /\ cur' = cur + 2
  /\ byte_counter' = byte_counter + 1
  /\ credit' = credit - 1
  /\ taken' = taken + 1
  /\ UNCHANGED <<schedule, last_cons, rebaseline, cred_ovf, origin,
                 dioVars, mboxVars, hpsVars, resets>>

-----------------------------------------------------------------------------
CreditKept == UNCHANGED <<rebaseline, credit>>

CreditDropped == rebaseline' = TRUE /\ credit' = 0

(* The epoch moves, the credit of the old one is dropped, and a re-arm takes *)
(* the streamer to the start of the (already written) window.                *)
NewEpoch ==
  /\ pending # "none"
  /\ pending' = "none"
  /\ cfg_epoch' = cfg_epoch + 1 /\ bit15' = FALSE
  /\ IF pending = "rearm"
       THEN state' = "LOAD" /\ cur' = mp3_start /\ byte_counter' = 0 /\ UNCHANGED schedule
       ELSE UNCHANGED streamVars
  /\ CreditDropped
  /\ origin' = "none"
  /\ taken' = 0
  /\ UNCHANGED <<mp3_start, mp3_end, fpga_ctrl, cfg_ddrsbm, last_cons, cred_ovf,
                 mboxVars, hpsVars, resets>>

(* A report reaches the credit unit: adopted after a new epoch, else credited. *)
Credit(cons) ==
  /\ last_cons' = cons
  /\ taken' = taken
  /\ IF cons = last_cons THEN UNCHANGED <<rebaseline, credit, cred_ovf, origin>>
     ELSE IF rebaseline
       THEN /\ rebaseline' = FALSE
            /\ origin' = IF svc_epoch # cfg_epoch \/ pending # "none" THEN "stale"
                         ELSE IF svc_cons = 0 THEN "clean" ELSE "late"
            /\ UNCHANGED <<credit, cred_ovf>>
       ELSE /\ credit' = Clamp(credit + Delta(cons))
            /\ cred_ovf' = (cred_ovf \/ credit + Delta(cons) > CredMax)
            /\ UNCHANGED <<rebaseline, origin>>

-----------------------------------------------------------------------------
(* The exchange: CMD_573_PTRS word by word, then CMD_573_MP3CFG if the      *)
(* epoch moved.  Word 1 is the PCM pointer's (module PcmTransport).          *)

PtrsCmd ==
  /\ poll = "none"
  /\ poll' = "word2"
  /\ snap' = [epoch |-> cfg_epoch, told |-> TRUE]
  /\ UNCHANGED <<dioVars, streamVars, creditVars, thawed, told, svc_epoch, svc_cfg,
                 svc_cons, reported, resets>>

PtrsWord2 ==
  /\ poll = "word2"
  /\ poll' = "word3"
  /\ IF thawed THEN Credit(svc_cons % ConsMod) /\ reported' = svc_cons
               ELSE UNCHANGED <<creditVars, reported>>
  /\ UNCHANGED <<dioVars, streamVars, mboxVars, told, svc_epoch, svc_cfg, svc_cons, resets>>

PtrsWord3 ==
  /\ poll = "word3"
  /\ thawed' = told
  /\ told' = snap.told
  /\ IF snap.epoch # svc_epoch THEN poll' = "mp3cfg" /\ UNCHANGED snap
                               ELSE poll' = "none" /\ snap' = NoSnap
  /\ UNCHANGED <<dioVars, streamVars, creditVars, svc_epoch, svc_cfg, svc_cons,
                 reported, resets>>

(* One atomic tuple.  The service adopts it under the epoch PTRS returned, *)
(* and starts its count again.                                             *)
Mp3Cfg ==
  /\ poll = "mp3cfg"
  /\ poll' = "none"
  /\ svc_epoch' = snap.epoch
  /\ svc_cfg' = Config /\ bit15' = FALSE
  /\ svc_cons' = 0
  /\ reported' = 0
  /\ snap' = NoSnap
  /\ UNCHANGED <<mp3_start, mp3_end, fpga_ctrl, cfg_ddrsbm, pending, cfg_epoch,
                 streamVars, creditVars, thawed, told, resets>>

PollAbort ==
  /\ poll # "none"
  /\ poll' = "none"
  /\ snap' = NoSnap
  /\ UNCHANGED <<dioVars, streamVars, creditVars, thawed, told, svc_epoch, svc_cfg,
                 svc_cons, reported, resets>>

(* The service decodes one more byte of its window.  Fewer bytes than the   *)
(* count can tell apart pass between two polls.                             *)
HpsConsume ==
  /\ poll = "none"
  /\ Enabled(svc_cfg.ctrl)
  /\ svc_cfg.start + svc_cons < svc_cfg.end
  /\ svc_cons < reported + ConsMod - 1
  /\ svc_cons' = svc_cons + 1
  /\ UNCHANGED <<dioVars, streamVars, creditVars, mboxVars, poll, told, svc_epoch, svc_cfg,
                 reported, resets>>

-----------------------------------------------------------------------------
(* A core reset at any moment: the board registers, the streamer, the credit *)
(* unit and the mailbox's counts; not the OSD option, not the service.        *)
Mp3Reset ==
  /\ resets < MaxResets
  /\ resets' = resets + 1
  /\ mp3_start' = 0 /\ mp3_end' = 0 /\ fpga_ctrl' = {}
  /\ pending' = "none" /\ cfg_epoch' = 0 /\ bit15' = FALSE
  /\ state' = "IDLE" /\ cur' = 0 /\ byte_counter' = 0 /\ schedule' = 0
  /\ last_cons' = 0 /\ rebaseline' = TRUE /\ credit' = 0 /\ cred_ovf' = FALSE
  /\ origin' = "none" /\ taken' = 0
  /\ thawed' = FALSE /\ told' = FALSE /\ snap' = [snap EXCEPT !.told = (poll = "none")]
  /\ UNCHANGED <<cfg_ddrsbm, poll, svc_epoch, svc_cfg, svc_cons, reported>>

Game ==
  \/ \E start \in Starts, end \in Ends : WriteSetup(start, end)
  \/ \E bits \in CtrlWords : WriteCtrl(bits)
  \/ ChangeScheme

Exchange == PtrsCmd \/ PtrsWord2 \/ PtrsWord3 \/ Mp3Cfg

Mp3Next == Game \/ NewEpoch \/ StreamStep \/ Accept \/ Exchange \/ PollAbort
           \/ HpsConsume \/ Mp3Reset

Mp3Spec == Mp3Init /\ [][Mp3Next]_pacingVars

(* The clock never stops; polls are retried until they complete.  Nothing    *)
(* makes the game or the service's decoder go on.                            *)
Mp3Fairness ==
  /\ WF_pacingVars(StreamStep \/ Accept)
  /\ WF_pacingVars(PtrsCmd)
  /\ SF_pacingVars(PtrsWord2)
  /\ SF_pacingVars(PtrsWord3)

Mp3FairSpec == Mp3Spec /\ Mp3Fairness

-----------------------------------------------------------------------------
(* Every register keeps its range: the credit stays at or under its clamp   *)
(* although a byte, a report and an epoch change may meet on one clock.      *)
Mp3TypeOK ==
  /\ mp3_start \in Starts /\ mp3_end \in Ends /\ fpga_ctrl \subseteq {13, 14, 15}
  /\ cfg_ddrsbm \in BOOLEAN /\ bit15 \in BOOLEAN
  /\ pending \in {"none", "rearm", "notice"}
  /\ cfg_epoch \in Nat /\ svc_epoch \in Nat
  /\ state \in States /\ cur \in Nat /\ byte_counter \in Nat /\ schedule \in Nat
  /\ last_cons \in 0 .. ConsMod - 1 /\ credit \in 0 .. CredMax
  /\ rebaseline \in BOOLEAN /\ cred_ovf \in BOOLEAN
  /\ thawed \in BOOLEAN /\ told \in BOOLEAN
  /\ snap \in [epoch : Nat, told : BOOLEAN]
  /\ poll \in {"none", "word2", "word3", "mp3cfg"}
  /\ svc_cfg \in [start : Starts, end : Ends, ctrl : SUBSET {13, 14, 15}, ddrsbm : BOOLEAN]
  /\ svc_cons \in Nat /\ reported \in Nat /\ reported <= svc_cons
  /\ resets \in 0 .. MaxResets
  /\ origin \in {"none", "stale", "late", "clean"} /\ taken \in Nat

(* Every word is descrambled with the key step of its place in the window,   *)
(* whatever pauses, resumes and re-arms came before: the schedule is where    *)
(* the address is, one ahead while a decoded word is being emitted.          *)
KeysInStep ==
  pending # "rearm" /\ state # "LOAD" =>
    2 * schedule = (cur - mp3_start) + (IF state \in {"CAP", "HI", "LO"} THEN 2 ELSE 0)

(* The bytes emitted are those of the words passed, the last word's low byte *)
(* left out: 2N-1 of a window of N words, none twice, none skipped by a pause. *)
BytesInStep ==
  pending # "rearm" =>
    byte_counter = (cur - mp3_start)
                   + (IF state = "LO" THEN 1 ELSE 0)
                   - (IF cur >= mp3_end /\ cur > mp3_start THEN 1 ELSE 0)

(* Whatever pauses, resumes and re-arms came before, the three counts of the *)
(* streamer agree: the address, the key schedule and the bytes the game sees. *)
InStep == Mp3TypeOK /\ KeysInStep /\ BytesInStep

(* The service holds the epoch of a configuration set up since the reset.   *)
Mirrors == pending = "none" /\ told /\ cfg_epoch # 0 /\ svc_epoch = cfg_epoch

(* What the service mirrors under the current epoch is what the registers    *)
(* hold, however configuration writes, polls, aborted polls and resets       *)
(* interleave: no change hides behind an epoch already adopted.  But one     *)
(* does: bit 15 is in the tuple and moves no epoch (nor does the gain, which *)
(* is not in the model), so after a write of bit 15 alone the mirrored bit   *)
(* may be old, and only that bit.                                            *)
MirrorInSync ==
  Mirrors => Covered(svc_cfg) = Covered(Config) /\ (~bit15 => svc_cfg = Config)

(* Unless the baseline was adopted from a report made under an older         *)
(* configuration, the stream never gets ahead of what the service consumed:   *)
(* no credit outlives its window, none is given twice for one report.         *)
NeverLeads == origin # "stale" => taken + credit <= svc_cons

(* A song whose baseline was adopted at count zero ends where the game looks: *)
(* once the service has consumed the whole window, the streaming bit drops.   *)
SongEnds ==
  LET Done == /\ stream_en /\ svc_epoch = cfg_epoch /\ pending = "none"
              /\ origin = "clean" /\ ~cred_ovf /\ svc_cfg.end <= svc_cfg.start + svc_cons
  IN <>[]Done => <>[]~fpga_ctrl_rb

-----------------------------------------------------------------------------
(* What the source says and this model refutes: of a restarted counter,    *)
(* s573_mp3_credit says it "cannot be read as a huge delta and dump a burst  *)
(* of out_ready into the fresh song".                                       *)
NoBurst == ~rebaseline => taken + credit <= svc_cons
=============================================================================
