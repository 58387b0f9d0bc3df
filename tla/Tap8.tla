-------------------------------- MODULE Tap8 --------------------------------
(***************************************************************************)
(* attribute_tap8.py judges a replay of textured quads: did every pixel    *)
(* take its colour from the palette row it asked for?  It reads a log of   *)
(* the pixel pipeline: a PIX line on every clock a pixel is valid in the   *)
(* first stage, with the row it asks for and the row that is resident, and *)
(* an OUT line when a pixel leaves with its final colour.                  *)
(*                                                                         *)
(* The pipeline is the vendored GPU with the testbench's taps (tb_gpu_     *)
(* replay.vhd): a pixel may be held in the first stage, and is logged on   *)
(* every clock of it; a transparent one never leaves.  A line is parsed in *)
(* the action that writes it: the file is read in the order it was written.*)
(***************************************************************************)
EXTENDS Integers, SequencesExt

CONSTANTS
  Coords,     \* screen coordinates
  rows,       \* the candidate palette rows
  NPixels,    \* bound: pixels drawn
  MaxHolds    \* bound: clocks on which the first stage is held

ASSUME PixelAssumption == Coords # {} /\ rows # {} /\ NPixels \in Nat /\ MaxHolds \in Nat

VARIABLES
  feed,       \* pixels not yet in the pipeline
  stage1,     \* the pixel in the first stage, at most one
  later,      \* pixels behind it, with the row they were looked up in
  resident,   \* the palette row loaded
  holds,      \* clocks held so far
  pix_at,     \* PIX records not joined yet, by coordinate
  tally,      \* joined, own_row_hits, wrong_row_hits, race_pix
  garbled,    \* history: a textured pixel left with another row's colour
  verdict

tap8Vars == <<feed, stage1, later, resident, holds, pix_at, tally, garbled, verdict>>

-----------------------------------------------------------------------------
(* What the entry a texel selects looks like: a colour of its row alone, one  *)
(* every row has, black, one of no candidate row, or transparent.            *)
Looks == {"unique", "shared", "black", "foreign", "transparent"}

Pixels == [xy : Coords, tex : BOOLEAN, s1tag : rows, look : Looks]

ZeroTally == [joined |-> 0, own_row_hits |-> 0, wrong_row_hits |-> 0, race_pix |-> 0]

Tap8Idle ==
  /\ feed = <<>> /\ stage1 = <<>> /\ later = <<>> /\ resident = CHOOSE r \in rows : TRUE
  /\ holds = 0 /\ pix_at = [c \in Coords |-> <<>>] /\ tally = ZeroTally
  /\ garbled = FALSE /\ verdict = "none"

Tap8Init ==
  /\ feed \in [1..NPixels -> Pixels] /\ stage1 = <<>> /\ later = <<>> /\ resident \in rows
  /\ holds = 0 /\ pix_at = [c \in Coords |-> <<>>] /\ tally = ZeroTally
  /\ garbled = FALSE /\ verdict = "reading"

-----------------------------------------------------------------------------
(* The rows whose palette holds the colour of a pixel looked up in row r. *)
val2rows(p, r) ==
  CASE p.look = "unique" -> {r}
    [] p.look = "shared" -> rows
    [] OTHER -> {}

Enter ==
  /\ verdict = "reading" /\ feed # <<>> /\ stage1 = <<>>
  /\ stage1' = <<Head(feed)>>
  /\ feed' = Tail(feed)
  /\ UNCHANGED <<later, resident, holds, pix_at, tally, garbled, verdict>>

(* A palette fetch lands, whatever the first stage holds. *)
LoadPalette(r) ==
  /\ verdict = "reading" /\ stage1 # <<>> /\ r # resident
  /\ holds < MaxHolds
  /\ resident' = r
  /\ holds' = holds + 1
  /\ UNCHANGED <<feed, stage1, later, pix_at, tally, garbled, verdict>>

PixLineAtJoin(p) ==
  /\ pix_at' = [pix_at EXCEPT ![p.xy] = Append(@, p)]
  /\ tally' = tally

(* A PIX line, read: one more record at its coordinate, and a race witness    *)
(* when the resident row is not the one a textured pixel asks for.           *)
PixLine(p) ==
  /\ pix_at' = [pix_at EXCEPT ![p.xy] = Append(@, p)]
  /\ tally' = IF p.tex /\ resident # p.s1tag THEN [tally EXCEPT !.race_pix = @ + 1] ELSE tally

Hold ==
  /\ verdict = "reading" /\ stage1 # <<>> /\ holds < MaxHolds
  /\ PixLine(stage1[1])
  /\ holds' = holds + 1
  /\ UNCHANGED <<feed, stage1, later, resident, garbled, verdict>>

Advance ==
  /\ verdict = "reading" /\ stage1 # <<>>
  /\ PixLine(stage1[1])
  /\ later' = Append(later, [pixel |-> stage1[1], row |-> resident])
  /\ stage1' = <<>>
  /\ UNCHANGED <<feed, resident, holds, garbled, verdict>>

(* An OUT line, read: joined to the oldest record of its coordinate, counted  *)
(* by what its colour says against the row that record asks for.             *)
OutLine(p, r) ==
  IF pix_at[p.xy] = <<>> THEN UNCHANGED <<pix_at, tally>>
  ELSE LET rec  == Head(pix_at[p.xy])
           hits == val2rows(p, r)
       IN  /\ pix_at' = [pix_at EXCEPT ![p.xy] = Tail(@)]
           /\ tally' =
                IF ~rec.tex THEN tally
                ELSE [tally EXCEPT
                        !.joined = @ + 1,
                        !.own_row_hits = IF rec.s1tag \in hits THEN @ + 1 ELSE @,
                        !.wrong_row_hits = IF hits # {} /\ rec.s1tag \notin hits THEN @ + 1 ELSE @]

Leave ==
  /\ verdict = "reading" /\ later # <<>>
  /\ LET out == Head(later)
         p   == out.pixel
     IN  IF p.look = "transparent" THEN UNCHANGED <<pix_at, tally, garbled>>
         ELSE /\ OutLine(p, out.row)
              /\ garbled' = (garbled \/ (p.tex /\ p.look = "unique" /\ out.row # p.s1tag))
  /\ later' = Tail(later)
  /\ UNCHANGED <<feed, stage1, resident, holds, verdict>>

Judge ==
  /\ verdict = "reading" /\ feed = <<>> /\ stage1 = <<>> /\ later = <<>>
  /\ verdict' = IF tally.joined = 0 THEN "INCONCLUSIVE"
                ELSE IF tally.wrong_row_hits = 0 /\ tally.race_pix = 0 THEN "CLEAN"
                ELSE "GARBLE PRESENT"
  /\ UNCHANGED <<feed, stage1, later, resident, holds, pix_at, tally, garbled>>

Tap8Next == Enter \/ (\E r \in rows : LoadPalette(r)) \/ Hold \/ Advance \/ Leave \/ Judge

-----------------------------------------------------------------------------
(* A verdict of CLEAN is never given to a run in which a pixel left with the  *)
(* colour of a row it had not asked for, however the held and the             *)
(* transparent pixels have put the join of OUT to PIX out of step.           *)
CleanIsClean == verdict = "CLEAN" => ~garbled
=============================================================================
