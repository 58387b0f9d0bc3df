----------------------------- MODULE CtrlEvents -----------------------------
(***************************************************************************)
(* The decode events of the HPS mailbox (s573_hps_ext, CMD_573_CTRL): the  *)
(* service on the HPS counts the frames it decodes and the polls that      *)
(* decoded none, and sends both cumulative counts; the fabric pulses       *)
(* dec_frame_sync and dec_frame_idle as often as they have moved on.       *)
(*                                                                         *)
(* A step is a clock of the mailbox, with a word of the exchange or a      *)
(* reset in it, or something the service does.  An exchange may be given   *)
(* up after any word, and the service may die and start again at zero.     *)
(* The service obeys the header's contract: started again, it adopts the   *)
(* baselines of word 0.  PcmTransport has word 2, ctrl_flags.                *)
(***************************************************************************)
EXTENDS Integers

CONSTANTS CountMod,   \* 256: the counts are 8 bits wide
          PendMax,    \* 511: where pend_sync and pend_idle clamp
          MaxBehind   \* bound: events of a kind the service has not sent yet

ASSUME CtrlAssumption ==
  /\ {CountMod, PendMax, MaxBehind} \subseteq Nat
  /\ MaxBehind < CountMod /\ 0 < PendMax

VARIABLES
  pend, pulse, last, rebaseline, evt_ovf,  \* the fabric
  cnt, sent, service,                      \* the service: its counts, the words of the
                                           \* exchange so far, "up" or "new"
  owed                                     \* history: events the game has yet to see

ctrlVars == <<pend, pulse, last, rebaseline, evt_ovf, cnt, sent, service, owed>>

EventKinds == {"sync", "idle"}
NoEvents == [k \in EventKinds |-> 0]
NoPulse == [k \in EventKinds |-> FALSE]

CtrlInit ==
  /\ pend = NoEvents /\ pulse = NoPulse /\ last = NoEvents /\ rebaseline = TRUE /\ evt_ovf = FALSE
  /\ cnt = NoEvents /\ sent = 0 /\ service = "new" /\ owed = NoEvents

-----------------------------------------------------------------------------
(* The drain: pulses of one clock with a gap, every sync before any idle.   *)
Fires ==
  LET sync == ~pulse["sync"] /\ pend["sync"] > 0
  IN [k \in EventKinds |-> IF k = "sync" THEN sync
                       ELSE ~pulse["idle"] /\ pend["idle"] > 0 /\ pend["sync"] = 0]

One(b) == IF b THEN 1 ELSE 0

Drained == [k \in EventKinds |-> pend[k] - One(Fires[k])]

(* How far a count has moved on, modulo its width, and the sum that is       *)
(* clamped, not wrapped.                                                    *)
Delta(k) == IF cnt[k] >= last[k] THEN cnt[k] - last[k] ELSE cnt[k] + CountMod - last[k]

NextCount(n) == IF n + 1 = CountMod THEN 0 ELSE n + 1

(* mutant: two assignments to pend in a clock, the strobe's after the drain's *)
SumUndrained(k) == pend[k] + Delta(k)

Sum(k) == Drained[k] + Delta(k)

Clamped(n) == IF n > PendMax THEN PendMax ELSE n

Drain ==
  /\ pulse' = Fires
  /\ owed' = [k \in EventKinds |-> owed[k] - One(Fires[k])]

Clock ==
  /\ Drain /\ pend' = Drained
  /\ UNCHANGED <<last, rebaseline, evt_ovf, cnt, sent, service>>

(* Word 0: the baselines go up; a new service takes them for its counts.    *)
Word0 ==
  /\ sent = 0 /\ sent' = 1
  /\ Drain /\ pend' = Drained
  /\ IF service = "new" THEN cnt' = last /\ service' = "up" ELSE UNCHANGED <<cnt, service>>
  /\ UNCHANGED <<last, rebaseline, evt_ovf>>

(* Word 1: the counts come down.  The first after a reset are only adopted; *)
(* an overflow is flagged, and what it loses is no longer owed.             *)
Adopt ==
  /\ rebaseline /\ rebaseline' = FALSE
  /\ pend' = Drained /\ pulse' = Fires /\ owed' = Drained
  /\ UNCHANGED evt_ovf

Apply ==
  /\ ~rebaseline
  /\ pend' = [k \in EventKinds |-> Clamped(Sum(k))]
  /\ evt_ovf' = (evt_ovf \/ \E k \in EventKinds : Sum(k) > PendMax)
  /\ pulse' = Fires
  /\ owed' = [k \in EventKinds |-> IF Sum(k) > PendMax THEN PendMax
                               ELSE owed[k] - One(Fires[k])]
  /\ UNCHANGED rebaseline

Word1 ==
  /\ sent = 1 /\ sent' = 2
  /\ Adopt \/ Apply
  /\ last' = cnt
  /\ UNCHANGED <<cnt, service>>

(* Word 2 (ctrl_flags) ends the exchange; it may also end before.           *)
EndExchange ==
  /\ sent > 0 /\ sent' = 0
  /\ Drain /\ pend' = Drained
  /\ UNCHANGED <<last, rebaseline, evt_ovf, cnt, service>>

(* A core reset, dominating whatever else the clock brings.  The baselines  *)
(* stay: the next counts are adopted, whatever they are.                    *)
CtrlReset ==
  /\ pend' = NoEvents /\ pulse' = NoPulse /\ rebaseline' = TRUE /\ evt_ovf' = FALSE
  /\ owed' = NoEvents
  /\ UNCHANGED <<last, cnt, sent, service>>

(* The service decodes a frame, or finds none to decode.  Frames of before  *)
(* the first exchange after a reset were never heard: nobody is owed them.  *)
Decode(k) ==
  /\ service = "up" /\ Delta(k) < MaxBehind
  /\ cnt' = [cnt EXCEPT ![k] = NextCount(@)]
  /\ owed' = [owed EXCEPT ![k] = @ + One(~rebaseline)]
  /\ UNCHANGED <<pend, pulse, last, rebaseline, evt_ovf, sent, service>>

(* The service dies; what it had not sent dies with it.                     *)
Restart ==
  /\ service = "up" /\ service' = "new" /\ cnt' = NoEvents /\ sent' = 0
  /\ owed' = pend
  /\ UNCHANGED <<pend, pulse, last, rebaseline, evt_ovf>>

CtrlNext ==
  \/ Clock \/ Word0 \/ Word1 \/ EndExchange \/ CtrlReset
  \/ (\E k \in EventKinds : Decode(k)) \/ Restart

-----------------------------------------------------------------------------
CtrlTypeOK ==
  /\ pend \in [EventKinds -> 0 .. PendMax] /\ pulse \in [EventKinds -> BOOLEAN]
  /\ {last, cnt} \subseteq [EventKinds -> 0 .. CountMod - 1]
  /\ {rebaseline, evt_ovf} \subseteq BOOLEAN
  /\ sent \in 0 .. 2 /\ service \in {"up", "new"} /\ owed \in [EventKinds -> Int]

(* No decode event is lost, doubled or made up: what the game has yet to    *)
(* see of a kind is what waits for the drain and what the service's count   *)
(* is ahead of the last one applied, through wrapped counts, exchanges      *)
(* given up or repeated, resets and restarts of the service.  An event is   *)
(* only ever lost with evt_ovf raised, and the registers keep their ranges.  *)
EventsConserved ==
  /\ CtrlTypeOK
  /\ ~rebaseline =>
       \A k \in EventKinds : owed[k] = pend[k] + (IF service = "up" THEN Delta(k) ELSE 0)
=============================================================================
