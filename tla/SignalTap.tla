------------------------------ MODULE SignalTap ------------------------------
(***************************************************************************)
(* The reader of Quartus SignalTap exports (read_stp_csv.py).  Quartus     *)
(* names every channel in the header and may leave the data column of a    *)
(* trigger-term channel out, with a dead filler column later; the reader   *)
(* must find, for each channel, the column that is really its own.         *)
(*                                                                         *)
(* An export is the header's channels, what each one looks like in this    *)
(* capture, and the anomaly.  The cells of a column are reduced to their   *)
(* shape, which is all the anchors look at.  One action is one step of the *)
(* audit; the report it prints is `parts`, `doubt` and `warned`.           *)
(***************************************************************************)
EXTENDS Integers, SequencesExt

CONSTANTS
  NCH,        \* channels in the header
  Kinds       \* what a channel can look like in a capture, see Shape

ASSUME HeaderAssumption == NCH \in Nat \ {0}
ASSUME KindAssumption == Kinds \subseteq {"strobe", "idle", "level", "quiet"} /\ Kinds # {}

VARIABLES
  export,     \* the file, see Exports
  phase,      \* of the audit: "anchors", "zones", "report", "suggested", or "none"
  votes,      \* decisive votes not yet fitted, in header order
  zones,      \* zones of agreed shift not yet reported, [lo, hi, shift]
  parts,      \* the suggested map so far, [lo, hi, shift]
  cur, cur_shift,
  doubt,      \* channels of the interval the report calls ambiguous
  warned      \* the report holds a WARNING, or the calibration is AMBIGUOUS

tapVars == <<export, phase, votes, zones, parts, cur, cur_shift, doubt, warned>>

-----------------------------------------------------------------------------
(* The file.                                                                 *)

Channels == 1..NCH

Shifts == -2..2

(* None, where a column or a shift is expected. *)
NoColumn == -9

(* A strobe and an idle strobe have a name the pulse anchor looks for; the    *)
(* others do not.                                                            *)
Shape == [strobe |-> "pulse", idle |-> "dead", level |-> "wide", quiet |-> "dead"]

NoExport == [kind |-> [h \in Channels |-> CHOOSE k \in Kinds : TRUE], drop |-> 0, filler |-> 0, front |-> 0,
             group |-> {}, qualified |-> FALSE, trigger |-> FALSE]

(* drop: the channel without a column; filler: the channel before whose       *)
(* column the dead one stands; front: dead columns before the first channel;  *)
(* group: the span of a one-hot FSM, a duplicated bus or the like; qualified: *)
(* the storage qualifier is among the channels; trigger: the user names the   *)
(* trigger channel to the audit.                                             *)
Exports ==
  [kind : [Channels -> Kinds], drop : {0}, filler : {0}, front : 0..2,
   group : {{}} \cup {h..h + 2 : h \in 1..NCH - 2}, qualified : BOOLEAN, trigger : {FALSE}]
  \cup
  UNION {[kind : [Channels -> Kinds], drop : {d}, filler : {0} \cup d + 1..NCH + 1,
          front : {0}, group : {{}} \cup {h..h + 2 : h \in 1..NCH - 2},
          qualified : {FALSE}, trigger : BOOLEAN] : d \in Channels}

Bit(p) == IF p THEN 1 ELSE 0

(* How far a channel's own column is from its place in the header. *)
TrueShift(h) ==
  export.front - Bit(export.drop # 0 /\ h > export.drop)
               + Bit(export.filler # 0 /\ h >= export.filler)

OwnColumn(h) == IF h = export.drop THEN NoColumn ELSE h + TrueShift(h)

Columns == 1..NCH + export.front - Bit(export.drop # 0) + Bit(export.filler # 0)

(* The shape of a data column: of the channel it belongs to, or dead. *)
ColumnShape(c) ==
  LET own == {h \in Channels : OwnColumn(h) = c}
  IN  IF own = {} THEN "dead" ELSE Shape[export.kind[CHOOSE h \in own : TRUE]]

-----------------------------------------------------------------------------
(* Calibration: one shift for the whole file.  All scores share the           *)
(* denominator Fourth(Cardinality(Columns)) * NCH * 2.                       *)

Claimed(s) == {h + s : h \in Channels}

Structural(s) ==
  LET misses == Cardinality(Claimed(s) \ Columns) + Cardinality(Columns \ Claimed(s))
  IN  IF misses > Cardinality(Columns) THEN 0 ELSE Cardinality(Columns) - misses

Validity(s) == Cardinality(Claimed(s) \cap Columns)

(* The one-hot and qualifier terms: best at the true shift where the capture  *)
(* has such channels, and neutral where it has not.                          *)
Evidence(s) ==
  IF export.drop = 0 /\ s # export.front /\ (export.qualified \/ export.group # {})
  THEN 1 ELSE 2

Fourth(n) == n * n * n * n

Score(s) == Fourth(Structural(s)) * Validity(s) * Evidence(s)

(* The first of the best-scored shifts, in the order they are tried. *)
BestOf(S) == CHOOSE s \in S : \A t \in S \ {s} : Score(s) > Score(t) \/ (Score(s) = Score(t) /\ s < t)

Chosen == BestOf(Shifts)

(* The top two are within 0.02 of each other. *)
Ambiguous ==
  50 * (Score(Chosen) - Score(BestOf(Shifts \ {Chosen}))) < Fourth(Cardinality(Columns)) * NCH * 2

-----------------------------------------------------------------------------
(* The anchors.                                                              *)

(* A vote for the best-scored shift, unless two share the best score. *)
Decisive(lo, hi, score) ==
  LET best == {s \in Shifts : \A t \in Shifts : score[t] <= score[s]}
  IN  IF Cardinality(best) > 1 THEN <<>>
      ELSE <<[lo |-> lo, hi |-> hi, shift |-> CHOOSE s \in best : TRUE]>>

(* 1.0 for short pulses, 0.5 for no ones at all, 0.0 for long runs. *)
PulseVote(h) ==
  IF export.kind[h] \notin {"strobe", "idle"} THEN <<>>
  ELSE Decisive(h, h, [s \in Shifts |->
         LET shape == ColumnShape(h + s)
         IN  IF shape = "pulse" THEN 2 ELSE IF shape = "dead" THEN 1 ELSE 0])

(* An anchor of several channels reads its own columns under one shift only   *)
(* when that is the shift of all of them; else nothing decides it.           *)
GroupVote(h) ==
  LET g == export.group
  IN  IF g = {} \/ h # Min(g) \/ export.drop \in g THEN <<>>
      ELSE Decisive(h, Max(g), [s \in Shifts |-> Bit(\A c \in g : TrueShift(c) = s)])

(* The anchors' decisive votes by the span of their channels.  The first      *)
(* channel alone cannot decide: shifts 0, 1 and 2 all keep it on the row.    *)
Votes == FlattenSeq([h \in Channels |-> PulseVote(h) \o GroupVote(h)])

-----------------------------------------------------------------------------
TapIdle ==
  /\ export = NoExport /\ phase = "none" /\ votes = <<>> /\ zones = <<>>
  /\ parts = <<>> /\ cur = 1 /\ cur_shift = 0 /\ doubt = {} /\ warned = FALSE

TapInit ==
  /\ export \in Exports /\ phase = "anchors" /\ votes = <<>> /\ zones = <<>>
  /\ parts = <<>> /\ cur = 1 /\ cur_shift = 0 /\ doubt = {} /\ warned = FALSE

Anchors ==
  /\ phase = "anchors"
  /\ phase' = "zones"
  /\ votes' = Votes
  /\ zones' = <<[lo |-> 0, hi |-> 0, shift |-> 0]>>
  /\ UNCHANGED <<export, parts, cur, cur_shift, doubt, warned>>

FitZone ==
  /\ phase = "zones" /\ votes # <<>>
  /\ LET v == Head(votes)
         z == Last(zones)
     IN  zones' = IF z.shift = v.shift THEN Front(zones) \o <<[z EXCEPT !.hi = v.hi]>>
                  ELSE Append(zones, v)
  /\ votes' = Tail(votes)
  /\ UNCHANGED <<export, phase, parts, cur, cur_shift, doubt, warned>>

(* A uniform file gets no map: it is read with the calibrated shift. *)
Verdict ==
  /\ phase = "zones" /\ votes = <<>>
  /\ phase' = IF Len(zones) = 1 THEN "suggested" ELSE "report"
  /\ warned' = (Len(zones) = 1 /\ Ambiguous)
  /\ UNCHANGED <<export, votes, zones, parts, cur, cur_shift, doubt>>

Part(lo, hi, shift) == IF lo > hi THEN <<>> ELSE <<[lo |-> lo, hi |-> hi, shift |-> shift]>>

NextZones(a, b) == phase = "report" /\ Len(zones) > 1 /\ a = zones[1] /\ b = zones[2]

(* The trigger channel, when the user names it and it lies in the gap; else   *)
(* the last channel of the gap, and the whole gap is in doubt.               *)
ReportDrop(a, b) ==
  LET pinned == export.trigger /\ export.drop \in a.hi + 1..b.lo
      bp     == IF pinned THEN export.drop ELSE b.lo
  IN  /\ NextZones(a, b) /\ b.shift = a.shift - 1
      /\ parts' = parts \o Part(cur, bp - 1, cur_shift) \o Part(bp, bp, NoColumn)
      /\ cur' = bp + 1
      /\ cur_shift' = b.shift
      /\ doubt' = IF pinned THEN doubt ELSE doubt \cup a.hi + 1..b.lo
      /\ zones' = Tail(zones)
      /\ UNCHANGED <<export, phase, votes, warned>>

FirstDeadBefore(gap) ==
  LET dead == {F \in gap : F = 1 \/ ColumnShape(F - 1) = "dead"}
  IN  {F \in dead : \A G \in dead : F <= G}

DeadBefore(gap) == {F \in gap : F = 1 \/ ColumnShape(F - 1) = "dead"}

(* The filler is a dead column in the gap: what lies between the first and    *)
(* the last place it can be has no column anyone knows.                      *)
ReportFiller(a, b) ==
  LET dead  == DeadBefore(a.hi + 1..b.lo)
      cands == IF dead = {} THEN {b.lo} ELSE dead
  IN  /\ NextZones(a, b) /\ b.shift = a.shift + 1
      /\ parts' = parts \o Part(cur, Min(cands) - 1, cur_shift)
                        \o Part(Min(cands), Max(cands) - 1, NoColumn)
      /\ cur' = Max(cands)
      /\ cur_shift' = b.shift
      /\ zones' = Tail(zones)
      /\ UNCHANGED <<export, phase, votes, doubt, warned>>

ReportJump(a, b) ==
  /\ NextZones(a, b) /\ b.shift \notin {a.shift - 1, a.shift + 1}
  /\ warned' = TRUE
  /\ cur_shift' = b.shift
  /\ zones' = Tail(zones)
  /\ UNCHANGED <<export, phase, votes, parts, cur, doubt>>

Suggest ==
  /\ phase = "report" /\ Len(zones) = 1
  /\ parts' = parts \o Part(cur, NCH, cur_shift)
  /\ phase' = "suggested"
  /\ UNCHANGED <<export, votes, zones, cur, cur_shift, doubt, warned>>

TapNext ==
  \/ Anchors \/ FitZone \/ Verdict \/ Suggest
  \/ \E a, b \in {zones[i] : i \in 1..Len(zones)} :
       ReportDrop(a, b) \/ ReportFiller(a, b) \/ ReportJump(a, b)

-----------------------------------------------------------------------------
(* Reading the file back with what the audit printed.                        *)

(* The shift a --map gives a channel: of the last part that names it. *)
MapShift(h) == parts[Max({i \in 1..Len(parts) : h \in parts[i].lo..parts[i].hi})].shift

Mapped(h) == \E i \in 1..Len(parts) : h \in parts[i].lo..parts[i].hi

Shift(h) == IF Mapped(h) THEN MapShift(h) ELSE Chosen

Cell(h) ==
  IF Shift(h) # NoColumn /\ h + Shift(h) \in Columns THEN h + Shift(h) ELSE NoColumn

(* What the audit is given to work with: anchors that vote for a shift the    *)
(* channels they span really have, and one in each stretch of channels that   *)
(* an anomaly shifted.                                                       *)
Honest(vs) == \A i \in 1..Len(vs) : \A h \in vs[i].lo..vs[i].hi :
                h # export.drop /\ vs[i].shift = TrueShift(h)

SeenIn(vs, stretch) == stretch = {} \/ \E i \in 1..Len(vs) : vs[i].lo \in stretch

Observed(vs) ==
  LET d == export.drop
      f == IF export.filler = 0 THEN NCH + 1 ELSE export.filler
  IN  d # 0 => d + 1 < f /\ SeenIn(vs, d + 1..f - 1) /\ SeenIn(vs, f..NCH)

(* Every channel read with the suggested map, or with the calibrated shift of *)
(* a file called uniform, yields the column that is its own or nothing: never *)
(* another signal's samples.  Only a channel of the interval the report calls *)
(* ambiguous, and a report with a warning, are excepted.                     *)
ReadsOwnColumn ==
  phase = "suggested" /\ ~warned =>
    LET vs == Votes IN Honest(vs) /\ Observed(vs) =>
      \A h \in Channels \ doubt : Cell(h) \in {OwnColumn(h), NoColumn}
=============================================================================
