------------------------------ MODULE SaveState ------------------------------
(***************************************************************************)
(* ss_gpu_dma_state.py picks, among savestates taken at arbitrary moments, *)
(* one that a simulation can resume: the GPU's DMA channel must not be in  *)
(* the middle of a display list, because the half-resumed transfer never   *)
(* delivers the rest.                                                      *)
(*                                                                         *)
(* The DMA controller is the PlayStation core's and external: its flags    *)
(* are the ones the decoder reads, moved as its header describes them.  A  *)
(* capture may also be a file of another layout or one too short to hold   *)
(* the slot.  One action is a step of the controller, a capture, or one    *)
(* file decoded.                                                           *)
(***************************************************************************)
EXTENDS Integers, Sequences

CONSTANTS
  Other,      \* another DMA channel's number
  MaxFiles    \* bound: files given on the command line

GPU_DMA_CH == 2

ASSUME ChannelAssumption == Other \in (0..6) \ {GPU_DMA_CH} /\ MaxFiles \in Nat

VARIABLES
  busy,       \* D_CHCR[2](24)
  channelOn,  \* channelOn[2]
  isOn, active_chan, gpu_waiting,  \* of the controller
  invsync,
  files,      \* the captures, in the order they will be named
  results,    \* [file, clean, sane] of those decoded
  exit        \* "run", "decode", then the exit code and the recommended file

ssVars == <<busy, channelOn, isOn, active_chan, gpu_waiting, invsync, files, results, exit>>

-----------------------------------------------------------------------------
Idle(done) ==
  /\ busy = FALSE /\ channelOn = FALSE /\ isOn = FALSE /\ active_chan = 0 /\ gpu_waiting = FALSE
  /\ invsync = FALSE /\ files = <<>> /\ results = <<>> /\ exit = [stage |-> done, code |-> 0, best |-> 0]

StateIdle == Idle("none")

StateInit == Idle("run")

Running == exit.stage = "run" /\ Len(files) < MaxFiles

(* The game starts the display list: busy from here until its last word. *)
StartList ==
  /\ Running /\ ~busy
  /\ busy' = TRUE
  /\ UNCHANGED <<channelOn, isOn, active_chan, gpu_waiting, invsync, files, results, exit>>

Grant ==
  /\ Running /\ busy /\ ~isOn /\ ~gpu_waiting
  /\ channelOn' = TRUE /\ isOn' = TRUE /\ active_chan' = GPU_DMA_CH
  /\ UNCHANGED <<busy, gpu_waiting, invsync, files, results, exit>>

(* The GPU's FIFO is full, or takes words again; or the channel is chopped    *)
(* and lets another run.                                                     *)
GpuWaits ==
  /\ Running /\ isOn /\ active_chan = GPU_DMA_CH
  /\ gpu_waiting' = ~gpu_waiting
  /\ UNCHANGED <<busy, channelOn, isOn, active_chan, invsync, files, results, exit>>

Chop ==
  /\ Running /\ isOn /\ active_chan = GPU_DMA_CH /\ ~gpu_waiting
  /\ isOn' = FALSE
  /\ UNCHANGED <<busy, channelOn, active_chan, gpu_waiting, invsync, files, results, exit>>

EndList ==
  /\ Running /\ isOn /\ active_chan = GPU_DMA_CH /\ ~gpu_waiting
  /\ busy' = FALSE /\ channelOn' = FALSE /\ isOn' = FALSE
  /\ UNCHANGED <<active_chan, gpu_waiting, invsync, files, results, exit>>

OtherChannel ==
  /\ Running /\ (isOn => active_chan = Other)
  /\ isOn' = ~isOn
  /\ active_chan' = Other
  /\ UNCHANGED <<busy, channelOn, gpu_waiting, invsync, files, results, exit>>

Vsync ==
  /\ Running
  /\ invsync' = ~invsync
  /\ UNCHANGED <<busy, channelOn, isOn, active_chan, gpu_waiting, files, results, exit>>

-----------------------------------------------------------------------------
(* The fields a file decodes to.  A file of another layout yields zeros where *)
(* the flags should be, and fails the sanity checks.                         *)
Capture(kind) ==
  [kind |-> kind, busy |-> busy, channelOn |-> channelOn, isOn |-> isOn,
   active |-> active_chan, waiting |-> gpu_waiting, invsync |-> invsync]

Foreign == [kind |-> "foreign", busy |-> FALSE, channelOn |-> FALSE, isOn |-> FALSE,
            active |-> 0, waiting |-> FALSE, invsync |-> FALSE]

TakeState ==
  /\ Running
  /\ \E f \in {Capture("slot"), Capture("short"), Foreign} : files' = Append(files, f)
  /\ UNCHANGED <<busy, channelOn, isOn, active_chan, gpu_waiting, invsync, results, exit>>

Examine ==
  /\ exit.stage = "run" /\ files # <<>>
  /\ exit' = [exit EXCEPT !.stage = "decode"]
  /\ UNCHANGED <<busy, channelOn, isOn, active_chan, gpu_waiting, invsync, files, results>>

BlockersOfTheChannel(f) == {b \in {"busy", "channelOn"} : f[b]}

Blockers(f) == {b \in {"busy", "channelOn", "isOn", "waiting"} : f[b]}

StateVerdict(f) ==
  IF Blockers(f) = {} THEN "CLEAN-RESUME"
  ELSE IF f.busy \/ f.channelOn \/ (f.isOn /\ f.active = GPU_DMA_CH) THEN "MID-DMA(gpu)"
  ELSE IF f.isOn THEN "MID-DMA" ELSE "BUSY"

(* A file too short for the slot is reported and left out. *)
Decode ==
  /\ exit.stage = "decode" /\ files # <<>>
  /\ LET f == Head(files)
     IN  results' = IF f.kind = "short" THEN results
                    ELSE Append(results, [file |-> f, sane |-> f.kind = "slot",
                                          clean |-> StateVerdict(f) = "CLEAN-RESUME"])
  /\ files' = Tail(files)
  /\ UNCHANGED <<busy, channelOn, isOn, active_chan, gpu_waiting, invsync, exit>>

(* The lexicographic key of the ranking, smaller first: clean, in vertical    *)
(* blank, channel not busy, controller not on.                               *)
Rank(r) ==
  LET bit(p) == IF p THEN 1 ELSE 0
  IN  8 * bit(~r.clean) + 4 * bit(~r.file.invsync) + 2 * bit(r.file.busy) + bit(r.file.isOn)

(* The first of the best ranked, as a stable sort leaves it. *)
Best == CHOOSE i \in 1..Len(results) :
          \A j \in 1..Len(results) :
            Rank(results[i]) < Rank(results[j]) \/ (Rank(results[i]) = Rank(results[j]) /\ i <= j)

AnyClean == \E i \in 1..Len(results) : results[i].clean

Recommend ==
  /\ exit.stage = "decode" /\ files = <<>>
  /\ exit' = [stage |-> "done", code |-> IF AnyClean THEN 0 ELSE 1,
              best |-> IF AnyClean THEN Best ELSE 0]
  /\ UNCHANGED <<busy, channelOn, isOn, active_chan, gpu_waiting, invsync, files, results>>

StateNext ==
  \/ StartList \/ Grant \/ GpuWaits \/ Chop \/ EndList \/ OtherChannel \/ Vsync
  \/ TakeState \/ Examine \/ Decode \/ Recommend

-----------------------------------------------------------------------------
(* Recommended is a state in which no list was under way and no other channel *)
(* held the controller, frozen in vertical blank if any such state was.  The  *)
(* exit code is 0 whenever there is one, and only then or for a file of       *)
(* another layout, which is marked suspect and may still be recommended.     *)
RecommendedResumes ==
  exit.stage = "done" =>
    LET resumable == {i \in 1..Len(results) :
          results[i].sane /\ ~results[i].file.busy /\ ~results[i].file.isOn}
    IN  /\ resumable # {} => exit.code = 0
        /\ exit.code = 0 => resumable # {} \/ \E i \in 1..Len(results) : ~results[i].sane
        /\ exit.best # 0 /\ results[exit.best].sane =>
             /\ exit.best \in resumable
             /\ (\E i \in resumable : results[i].file.invsync) => results[exit.best].file.invsync
=============================================================================
