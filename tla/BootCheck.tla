------------------------------ MODULE BootCheck ------------------------------
(***************************************************************************)
(* check_boot.py compares two full-system boots by their milestones.  Each *)
(* run leaves its trace in files of its own: the program counters the      *)
(* bench's tap logged, the I/O and EXP1 accesses, and the dumps of the     *)
(* framebuffer.  Only the milestones of the program counter share a        *)
(* timeline.                                                               *)
(*                                                                         *)
(* A run is what happened in the simulation: the milestone addresses the   *)
(* CPU fetched, in order, which of these fetches the tap wrote down, and   *)
(* what the other files show.  One action is one line of a trace parsed,   *)
(* the rest of the files of a run read, or the comparison.                 *)
(***************************************************************************)
EXTENDS Integers, SequencesExt, Lists

CONSTANTS
  PcKeys,     \* control-flow milestones a run may hit
  Events,     \* what a run's other files may show
  MaxTrace,   \* bound: milestone fetches in one run
  Required    \* milestones given with --require

ASSUME TraceAssumption ==
  /\ PcKeys \subseteq {"reset", "ram_test", "bss_clear", "copy_loop", "main_init"}
  /\ Events \subseteq {"kick", "kick_read", "poll", "spu", "fifo",
                       "fb_black", "fb_lit", "vga_black", "vga_lit"}
  /\ MaxTrace \in Nat

VARIABLES
  base_run, this_run,  \* [pc, events] as they happened: fetches and other files
  at,         \* the run being parsed: "none", "this", "base", "compare", "done"
  unread,     \* lines of its pc_trace.log still to parse
  facts,      \* by run: [pc_order, reached], what parse_run returns
  rc

bootVars == <<base_run, this_run, at, unread, facts, rc>>

-----------------------------------------------------------------------------
(* A fetch of a milestone address and whether pc_trace.log has a line of it.  *)
(* The tap writes one for a program counter that is not the one before plus 4, *)
(* while it has written fewer than 400000; for the one it finds on every       *)
(* 100000th clock; and for the one a jump to the panic loop came from.  A      *)
(* milestone entered by falling through, or after the cap, may go unlogged.    *)
Fetches == [key : PcKeys, logged : BOOLEAN]

Runs == [pc : UNION {[1..n -> Fetches] : n \in 0..MaxTrace}, events : SUBSET Events]

(* The lines of pc_trace.log, by milestone.  The second line of one fetch, as  *)
(* of a jump the snapshot finds, adds nothing to what is parsed.               *)
Trace(run) ==
  LET lines == Kept(run.pc, {f \in Fetches : f.logged})
  IN  [i \in 1..Len(lines) |-> lines[i].key]

NoFacts == [pc_order |-> <<>>, reached |-> {}]

EmptyRun == [pc |-> <<>>, events |-> {}]

BootIdle ==
  /\ base_run = EmptyRun /\ this_run = EmptyRun /\ at = "none" /\ unread = <<>>
  /\ facts = [r \in {"base", "this"} |-> NoFacts] /\ rc = 0

BootInit ==
  /\ base_run \in Runs /\ this_run \in Runs /\ at = "this" /\ unread = Trace(this_run)
  /\ facts = [r \in {"base", "this"} |-> NoFacts] /\ rc = 0

RunAt == IF at = "this" THEN this_run ELSE base_run

LastOccurrence(order, k) == Append(SelectSeq(order, LAMBDA j : j # k), k)

FirstOccurrence(order, k) == IF k \in Range(order) THEN order ELSE Append(order, k)

(* A line of pc_trace.log: the milestone of its physical address. *)
ParsePc ==
  /\ at \in {"this", "base"} /\ unread # <<>>
  /\ facts' = [facts EXCEPT ![at] =
                 [pc_order |-> FirstOccurrence(@.pc_order, Head(unread)),
                  reached |-> @.reached \cup {Head(unread)}]]
  /\ unread' = Tail(unread)
  /\ UNCHANGED <<base_run, this_run, at, rc>>

(* The milestones the other files are evidence of: a write to the watchdog's  *)
(* address, GPU and SPU registers, anything in the FIFO or the VRAM dump, and *)
(* a pixel that is not black in either dump.                                 *)
OtherMilestones(events) ==
  {m \in {"watchdog", "gpustat_poll", "gpustat_done", "draw", "framebuffer"} :
     CASE m = "watchdog"     -> "kick" \in events
       [] m = "gpustat_poll" -> "poll" \in events
       [] m = "gpustat_done" -> "spu" \in events
       [] m = "draw"         -> events \cap {"fifo", "fb_black", "fb_lit"} # {}
       [] m = "framebuffer"  -> events \cap {"fb_lit", "vga_lit"} # {}}

(* The rest of a run's files; the baseline is parsed after this run. *)
ParseRest ==
  /\ at \in {"this", "base"} /\ unread = <<>>
  /\ facts' = [facts EXCEPT ![at].reached = @ \cup OtherMilestones(RunAt.events)]
  /\ at' = IF at = "this" THEN "base" ELSE "compare"
  /\ unread' = IF at = "this" THEN Trace(base_run) ELSE <<>>
  /\ UNCHANGED <<base_run, this_run, rc>>

Shared == Kept(facts["base"].pc_order, Range(facts["this"].pc_order))

NewShared == Kept(facts["this"].pc_order, Range(Shared))

(* The gate, then the comparison: each of them can only raise the exit code. *)
Compare ==
  /\ at = "compare"
  /\ rc' = IF \/ ~(Required \subseteq facts["this"].reached)
              \/ ~(facts["base"].reached \subseteq facts["this"].reached)
              \/ Shared # NewShared
           THEN 1 ELSE 0
  /\ at' = "done"
  /\ UNCHANGED <<base_run, this_run, unread, facts>>

BootNext == ParsePc \/ ParseRest \/ Compare

-----------------------------------------------------------------------------
(* The milestones the CPU fetched, in order. *)
Executed(run) == [i \in 1..Len(run.pc) |-> run.pc[i].key]

(* The place of a milestone's first occurrence. *)
First(keys, k) == CHOOSE i \in 1..Len(keys) : keys[i] = k /\ \A j \in 1..i - 1 : keys[j] # k

(* No two milestones come first in another order in `there` than in `here`. *)
SameOrder(here, there) ==
  \A a, b \in Range(here) : First(here, a) < First(here, b) => First(there, a) < First(there, b)

(* The tap caught the first fetch of every milestone. *)
FirstsLogged(run) ==
  \A i \in 1..Len(run.pc) :
    (\A j \in 1..i - 1 : run.pc[j].key # run.pc[i].key) => run.pc[i].logged

(* What an exit code of 0 promises.  Of the files: every milestone the        *)
(* baseline's trace shows was executed by this run, the other milestones are  *)
(* all there again, and the two traces show the milestones in one order,      *)
(* retries and repeated visits included.  Of the boots, which is what the     *)
(* tool is run for, only as far as the tap saw them: when it caught the first *)
(* fetch of each milestone in both, nothing the baseline executed is lost and *)
(* no two milestones were first executed in another order.  A code of 1 is    *)
(* never raised against a run whose files repeat the baseline's.              *)
ExitCodeIsTrue ==
  at = "done" =>
    /\ rc = 0 =>
         /\ Range(Trace(base_run)) \subseteq Range(Executed(this_run))
         /\ OtherMilestones(base_run.events) \subseteq OtherMilestones(this_run.events)
         /\ SameOrder(Trace(base_run), Trace(this_run))
         /\ FirstsLogged(base_run) /\ FirstsLogged(this_run) =>
              /\ Range(Executed(base_run)) \subseteq Range(Executed(this_run))
              /\ SameOrder(Executed(base_run), Executed(this_run))
    /\ /\ Trace(this_run) = Trace(base_run) /\ this_run.events = base_run.events
       /\ Required \subseteq facts["this"].reached
       => rc = 0
=============================================================================
