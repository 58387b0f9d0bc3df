--------------------------------- MODULE CdToc ---------------------------------
(***************************************************************************)
(* What the drive knows of the disc (s573_cdtoc): the track count, the     *)
(* lead-out and the table of track starts.  A mount sets the fallback, a   *)
(* single track as long as the image, which a serial divider works out bit *)
(* by bit; Main may then send the metadata of the cue sheet, word by word, *)
(* and both write the lead-out.                                            *)
(*                                                                         *)
(* One step is one clock.  Main mounts a disc and sends all of its words,  *)
(* at its own pace, before it mounts another; the divider may be at any    *)
(* point then.  Main's words count from the start of the disc, the pregap  *)
(* included; the drive's do not.  The kind of a track, kept and staged as  *)
(* its start is, is left out.                                              *)
(***************************************************************************)
LOCAL INSTANCE Integers
LOCAL INSTANCE Sequences

CONSTANTS
  SizeBits,   \* 40: bits of an image's size the divider works on
  SectorLen,  \* 2352: bytes of a raw sector
  PREGAP_LBA, \* 150: sectors of the pregap Main puts before track 1
  Lbas,       \* where tracks after the first may start, and end
  MaxTracks   \* bound: tracks of a disc

ASSUME DiscAssumption ==
  /\ {SizeBits, SectorLen, PREGAP_LBA, MaxTracks} \subseteq Nat /\ SectorLen > 0 /\ MaxTracks > 0
  /\ Lbas \subseteq Nat \ {0}

VARIABLES
  toc_track_count, toc_leadout, track_tbl, pend_start, cdinfo_seen,
  div_run, div_cnt, div_dvd, div_quot, div_rem,
  img_size,  \* the size of the mounted image, 0 for none
  disc,      \* the metadata Main sends of it, or none
  to_send    \* words of it Main has yet to send

tocVars == <<toc_track_count, toc_leadout, track_tbl, pend_start, cdinfo_seen,
             div_run, div_cnt, div_dvd, div_quot, div_rem, img_size, disc, to_send>>

-----------------------------------------------------------------------------
Tracks == 1 .. MaxTracks

(* The metadata of a disc: where its tracks start, the first at 0, and where *)
(* the last one ends.                                                       *)
NoDisc == <<>>
Discs == {d \in UNION {[1 .. n -> {0} \cup Lbas] : n \in 2 .. MaxTracks + 1} :
            d[1] = 0 /\ \A i \in 2 .. Len(d) : d[i - 1] < d[i]}

(* Main's words become the drive's.                                         *)
UserSpace(lba) == IF lba >= PREGAP_LBA THEN lba - PREGAP_LBA ELSE 0

TocInit ==
  /\ toc_track_count = 1 /\ toc_leadout = 0 /\ track_tbl = [t \in Tracks |-> 0]
  /\ pend_start = 0 /\ cdinfo_seen = FALSE
  /\ div_run = FALSE /\ div_cnt = 0 /\ div_dvd = 0 /\ div_quot = 0 /\ div_rem = 0
  /\ img_size = 0 /\ disc = NoDisc /\ to_send = <<>>

(* The words of a disc, in the order of their addresses: the number of its   *)
(* tracks, the lead-out, and of each track its start and the word that      *)
(* commits it.                                                              *)
WordsOf(d) ==
  IF d = NoDisc THEN <<>>
  ELSE <<[at |-> "count", data |-> Len(d) - 1], [at |-> "total", data |-> d[Len(d)]]>>
       \o [i \in 1 .. 2 * (Len(d) - 1) |->
             LET t == (i + 1) \div 2
             IN IF i % 2 = 1 THEN [at |-> "start", track |-> t, data |-> d[t]]
                ELSE [at |-> "commit", track |-> t]]

-----------------------------------------------------------------------------
Pow2[n \in Nat] == IF n = 0 THEN 1 ELSE 2 * Pow2[n - 1]

Bit(n, i) == (n \div Pow2[i]) % 2

(* One bit of the division: the next bit of the size into the remainder,     *)
(* and a one into the quotient if the sector fits.                          *)
Divide ==
  LET rem_shift == 2 * div_rem + Bit(div_dvd, SizeBits - 1)
      fits == rem_shift >= SectorLen
  IN /\ div_rem' = IF fits THEN rem_shift - SectorLen ELSE rem_shift
     /\ div_quot' = (2 * div_quot + IF fits THEN 1 ELSE 0) % Pow2[SizeBits]
     /\ div_dvd' = (2 * div_dvd) % Pow2[SizeBits]
     /\ div_cnt' = div_cnt - 1

DivClears == div_dvd' = 0 /\ div_quot' = 0 /\ div_rem' = 0 /\ div_cnt' = 0

(* mutant: the result is taken whatever Main has sent meanwhile *)
TakesAlways == TRUE

Takes == ~cdinfo_seen

(* A clock of the divider; the lead-out it leaves, unless a word of Main's   *)
(* comes on the same clock.                                                 *)
DividerLeadout == IF div_run /\ div_cnt = 0 /\ Takes THEN UserSpace(div_quot) ELSE toc_leadout

Divider ==
  \/ div_run /\ div_cnt > 0 /\ Divide /\ UNCHANGED div_run
  \/ div_run /\ div_cnt = 0 /\ div_run' = FALSE /\ DivClears
  \/ ~div_run /\ UNCHANGED <<div_run, div_cnt, div_dvd, div_quot, div_rem>>

Tick ==
  /\ div_run
  /\ Divider /\ toc_leadout' = DividerLeadout
  /\ UNCHANGED <<toc_track_count, track_tbl, pend_start, cdinfo_seen, img_size, disc, to_send>>

(* A word from Main.                                                        *)
TiWrite ==
  /\ to_send # <<>>
  /\ LET w == Head(to_send)
     IN /\ toc_track_count' = IF w.at = "count" /\ w.data # 0 THEN w.data ELSE toc_track_count
        /\ toc_leadout' = IF w.at = "total" THEN UserSpace(w.data) ELSE DividerLeadout
        /\ pend_start' = IF w.at # "start" THEN pend_start
                         ELSE IF w.track = 1 THEN w.data ELSE UserSpace(w.data)
        /\ track_tbl' = IF w.at = "commit" THEN [track_tbl EXCEPT ![w.track] = pend_start]
                        ELSE track_tbl
  /\ cdinfo_seen' = TRUE /\ Divider
  /\ to_send' = Tail(to_send)
  /\ UNCHANGED <<img_size, disc>>

(* A mount, with or without metadata to follow, or an unmount: size zero.    *)
ImgMounted ==
  /\ to_send = <<>>
  /\ img_size' \in 0 .. Pow2[SizeBits] - 1
  /\ disc' \in (IF img_size' = 0 THEN {NoDisc} ELSE {NoDisc} \cup Discs)
  /\ to_send' = WordsOf(disc')
  /\ cdinfo_seen' = FALSE /\ toc_track_count' = 1 /\ track_tbl' = [track_tbl EXCEPT ![1] = 0]
  /\ IF img_size' # 0
     THEN /\ div_dvd' = img_size' /\ div_quot' = 0 /\ div_rem' = 0
          /\ div_cnt' = SizeBits /\ div_run' = TRUE
          /\ UNCHANGED toc_leadout
     ELSE toc_leadout' = 0 /\ div_run' = FALSE /\ DivClears
  /\ UNCHANGED pend_start

TocNext == Tick \/ TiWrite \/ ImgMounted

-----------------------------------------------------------------------------
Leadout == IF disc = NoDisc THEN UserSpace(img_size \div SectorLen)
           ELSE UserSpace(disc[Len(disc)])

(* Once the divider is done and Main has nothing left to send, the drive     *)
(* knows the disc that is mounted and nothing of another: Main's metadata    *)
(* wherever the division ended among its words, or, of a disc without any,   *)
(* the whole sectors of its image behind the pregap, as one track.           *)
DiscIsTheMounted ==
  ~div_run /\ to_send = <<>> =>
    /\ toc_leadout = Leadout
    /\ toc_track_count = IF disc = NoDisc THEN 1 ELSE Len(disc) - 1
    /\ \A t \in 1 .. toc_track_count :
         track_tbl[t] = IF t = 1 THEN 0 ELSE UserSpace(disc[t])
=============================================================================
