-------------------------------- MODULE Spike --------------------------------
(***************************************************************************)
(* sim/spike_b_descramble/run_spike.py: the differential oracle that       *)
(* compares, byte for byte, what the fabric's streamer emits in a test     *)
(* bench with what the C reference of the descrambler produces from the    *)
(* same memory image, window and keys.                                     *)
(*                                                                         *)
(* A byte is its identity: the word of memory it comes from, how often the *)
(* key schedule had advanced, how often key 3 had been incremented, and    *)
(* the half.  Two bytes of different identity that happen to be equal are  *)
(* left out; the image is random and the keys differ.                      *)
(* The sink's pattern and the memory's latency are the free interleaving   *)
(* of the streamer's steps.                                                *)
(***************************************************************************)
EXTENDS Integers, SequencesExt

CONSTANTS Lengths,      \* window lengths in words
          Extended,     \* window lengths applied at a reload, 0: unchanged
          StartWords,   \* first word of the window
          Chunks,       \* most bytes the C reference is asked for at a time
          MaxReload,    \* latest reload
          InvRuns       \* RTL runs of the invariance check

ASSUME SpikeAssumption ==
  /\ Lengths \subseteq Nat \ {0} /\ Extended \subseteq Nat /\ StartWords \subseteq Nat
  /\ Chunks \subseteq Nat \ {0} /\ MaxReload \in Nat /\ InvRuns \in Nat \ {0}

VARIABLES case,         \* the case, or the invariance check
          tb,           \* the bench: [phase, cut, files]
          fab,          \* k573_mp3stream: [state, cur, end, rot, dw, out]
          cref,         \* s573_descramble.c: [cur, end, rot, hold, out, cut]
          spikeOk       \* the case's verdict, or "none"

spikeVars == <<case, tb, fab, cref, spikeOk>>

Builds == {"plain", "NO_KEY3_INC", "LOW_FIRST", "NO_2N1"}

(* Bytes the harness expects of the window [s, e), and a form of it that   *)
(* forgets the half word an odd window ends with.                          *)
SlenOfWholeWords(s, e) == IF e <= s THEN 0 ELSE ((e - s) \div 2) * 2 - 1
Slen(s, e) == IF e <= s THEN 0 ELSE ((e - s + 1) \div 2) * 2 - 1

Start(c) == 2 * c.sw
End(c)   == Start(c) + 2 * c.words - c.odd
End2(c)  == IF c.e2 = 0 THEN End(c) ELSE Start(c) + 2 * c.e2

Cases ==
  { c \in [kind : {"case"}, words : Lengths, sw : StartWords, odd : {0, 1}, sbm : BOOLEAN,
           reload : 0..MaxReload, e2 : Extended, chunk : Chunks, build : Builds] :
      c.reload <= Slen(Start(c), End(c)) /\ (c.reload = 0 => c.e2 = 0) }
  \cup [kind : {"invariance"}, words : Lengths, sw : StartWords, odd : {0}, sbm : {FALSE},
        reload : {0}, e2 : {0}, chunk : {1}, build : Builds]

(* The byte of word w after r steps of the schedule. *)
Byte(c, w, r, inc, half) ==
  [word |-> w, rot |-> r, key3 |-> IF c.sbm \/ ~inc THEN 0 ELSE r, half |-> half]

NoCase == [kind |-> "none"]
NoFab  == [state |-> "RST"]
Reset(c) ==
  [state |-> "LOAD", cur |-> Start(c), end |-> End(c), rot |-> 0, dw |-> <<0, 0>>, out |-> << >>]

NoTb   == [phase |-> "idle"]

SpikeIdle == case = NoCase /\ tb = NoTb /\ fab = NoFab /\ cref = NoFab /\ spikeOk = "none"

SpikeInit ==
  /\ case \in Cases
  /\ tb = [phase |-> "stream", cut |-> 0, files |-> << >>]
  /\ fab = Reset(case)
  /\ cref = NoFab /\ spikeOk = "none"

-----------------------------------------------------------------------------
(* k573_mp3stream, one state of its machine a step. *)
LastWord == fab.cur + 2 >= fab.end

LoadKeys == fab.state = "LOAD" /\ fab' = [fab EXCEPT !.state = "ADDR", !.rot = 0]

Address ==
  /\ fab.state = "ADDR"
  /\ fab' = [fab EXCEPT !.state = IF fab.cur < fab.end THEN "REQ" ELSE "IDLE"]

Answered == fab.state = "REQ" /\ fab' = [fab EXCEPT !.state = "STB"]

DecodeWord ==
  /\ fab.state = "STB"
  /\ fab' = [fab EXCEPT !.state = "HI", !.dw = <<fab.cur \div 2, fab.rot>>, !.rot = @ + 1]

(* The bench sees the count it stops at one clock late: one byte more. *)
SinkReady ==
  /\ tb.phase = "stream"
  /\ case.reload > 0 /\ tb.cut = 0 => Len(fab.out) <= case.reload

Sent(half) == Append(fab.out, Byte(case, fab.dw[1], fab.dw[2], TRUE, half))

EmitHigh ==
  /\ fab.state = "HI" /\ SinkReady
  /\ fab' = [fab EXCEPT !.state = "LO", !.out = Sent("hi")]

EmitLow ==
  /\ fab.state = "LO" /\ ~LastWord /\ SinkReady
  /\ fab' = [fab EXCEPT !.state = "ADDR", !.cur = @ + 2, !.out = Sent("lo")]

DropLow ==
  /\ fab.state = "LO" /\ LastWord
  /\ fab' = [fab EXCEPT !.state = "ADDR", !.cur = @ + 2]

Streamer ==
  /\ case.kind /= "none" /\ tb.phase \in {"stream", "held", "reloaded"}
  /\ LoadKeys \/ Address \/ Answered \/ DecodeWord \/ EmitHigh \/ EmitLow \/ DropLow
  /\ UNCHANGED <<case, tb, cref, spikeOk>>

-----------------------------------------------------------------------------
(* The bench: quiesce the sink, measure, reload, release. *)
ReloadDue == case.reload > 0 /\ tb.cut = 0 /\ Len(fab.out) >= case.reload

HoldSink ==
  /\ tb.phase = "stream" /\ ReloadDue
  /\ tb' = [tb EXCEPT !.phase = "held"]
  /\ UNCHANGED <<case, fab, cref, spikeOk>>

Reload ==
  /\ tb.phase = "held"
  /\ tb' = [tb EXCEPT !.phase = "reloaded", !.cut = Len(fab.out)]
  /\ fab' = [fab EXCEPT !.state = "LOAD", !.cur = Start(case), !.end = End2(case)]
  /\ UNCHANGED <<case, cref, spikeOk>>

ReleaseSink ==
  /\ tb.phase = "reloaded"
  /\ tb' = [tb EXCEPT !.phase = "stream"]
  /\ UNCHANGED <<case, fab, cref, spikeOk>>

RunC == cref' = [cur |-> Start(case), end |-> End(case), rot |-> 0, hold |-> << >>,
                 out |-> << >>, cut |-> FALSE]

(* Parked for 3000 clocks.  The invariance check runs its window again. *)
Parked ==
  /\ tb.phase = "stream" /\ ~ReloadDue
  /\ fab.out /= << >> /\ fab.cur >= fab.end
  /\ LET files == Append(tb.files, fab.out)
         again == case.kind = "invariance" /\ Len(files) < InvRuns
     IN IF again THEN /\ tb' = [tb EXCEPT !.files = files]
                      /\ fab' = Reset(case)
                      /\ UNCHANGED cref
                 ELSE /\ tb' = [tb EXCEPT !.files = files, !.phase = "reference"]
                      /\ RunC
                      /\ UNCHANGED fab
  /\ UNCHANGED <<case, spikeOk>>

(* The bench gives up: no file counts. *)
TimedOut ==
  /\ tb.phase = "stream" /\ case.kind = "case"
  /\ tb' = [tb EXCEPT !.phase = "timeout"]
  /\ spikeOk' = FALSE
  /\ UNCHANGED <<case, fab, cref>>

-----------------------------------------------------------------------------
(* s573_desc_pull, a byte at a time: the buffered byte first, then a word. *)
Half(second) == IF second = (case.build = "LOW_FIRST") THEN "hi" ELSE "lo"

PullByte(c) ==
  LET w(half) == Byte(case, c.cur \div 2, c.rot, case.build /= "NO_KEY3_INC", half)
      last    == case.build /= "NO_2N1" /\ c.cur + 2 >= c.end
  IN IF c.hold /= << >> THEN [c EXCEPT !.out = @ \o c.hold, !.hold = << >>]
     ELSE IF c.cur >= c.end THEN c
     ELSE [c EXCEPT !.out = Append(@, w(Half(FALSE))),
                    !.hold = IF last THEN << >> ELSE <<w(Half(TRUE))>>,
                    !.cur = @ + 2, !.rot = @ + 1]

Pull(c, max) == FoldLeft(LAMBDA s, i : PullByte(s), c, [i \in 1..max |-> i])

(* spike_main.c: up to the cut, the reload, and then the rest. *)
BeforeCut == tb.cut > 0 /\ ~cref.cut

Want == IF BeforeCut /\ tb.cut - Len(cref.out) < case.chunk
          THEN tb.cut - Len(cref.out) ELSE case.chunk

PullChunk ==
  /\ tb.phase = "reference" /\ Pull(cref, Want) /= cref
  /\ cref' = Pull(cref, Want)
  /\ UNCHANGED <<case, tb, fab, spikeOk>>

ReloadC ==
  /\ tb.phase = "reference" /\ BeforeCut /\ Pull(cref, Want) = cref
  /\ cref' = [cref EXCEPT !.cur = Start(case), !.end = End2(case), !.rot = 0,
                          !.hold = << >>, !.cut = TRUE]
  /\ UNCHANGED <<case, tb, fab, spikeOk>>

-----------------------------------------------------------------------------
(* run_case: the epoch, then the bytes and the lengths. *)
Expected == IF case.reload > 0 THEN tb.cut + Slen(Start(case), End2(case))
                               ELSE Slen(Start(case), End(case))

CaseOk ==
  LET a == tb.files[1]
  IN /\ case.reload > 0 => tb.cut \in case.reload..(case.reload + 2)
     /\ a = cref.out
     /\ Len(a) = Expected

(* run_invariance: every file is the reference's. *)
InvarianceOk == \A i \in 1..Len(tb.files) : tb.files[i] = cref.out

CompareFiles ==
  /\ tb.phase = "reference" /\ ~BeforeCut /\ Pull(cref, Want) = cref
  /\ tb' = [tb EXCEPT !.phase = "compared"]
  /\ spikeOk' = IF case.kind = "case" THEN CaseOk ELSE InvarianceOk
  /\ UNCHANGED <<case, fab, cref>>

SpikeNext ==
  \/ Streamer \/ HoldSink \/ Reload \/ ReleaseSink \/ Parked \/ TimedOut
  \/ PullChunk \/ ReloadC \/ CompareFiles

-----------------------------------------------------------------------------
(* What the board plays of a window: both bytes of each word it touches,   *)
(* high first, but the very last low byte; each word one step further in   *)
(* the schedule.                                                           *)
Window(e) ==
  LET n == 2 * Cardinality({ w \in 0..e : 2 * w >= Start(case) /\ 2 * w < e }) - 1
  IN [i \in 1..n |-> LET k == (i - 1) \div 2
                     IN Byte(case, case.sw + k, k, TRUE, IF i % 2 = 1 THEN "hi" ELSE "lo")]

Played == IF case.reload = 0 THEN Window(End(case))
          ELSE SubSeq(Window(End(case)), 1, tb.cut) \o Window(End2(case))

(* PASS means, and is given exactly when, the C reference produced what    *)
(* the board plays: for every pacing of the sink and the memory, wherever  *)
(* the reload fell, and however the reference was asked for its bytes.  A  *)
(* miscompiled reference is found unless the case cannot tell it apart.    *)
VerdictIsTrue == tb.phase = "compared" => (spikeOk <=> cref.out = Played)
=============================================================================
