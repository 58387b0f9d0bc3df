-------------------------------- MODULE Bench --------------------------------
(***************************************************************************)
(* The tools a developer runs beside the core: the SignalTap reader, the   *)
(* GPU replay generator and the judge of its log, the boot comparison, the *)
(* virtual pad, the savestate examiner and the descrambler's oracle.  They *)
(* share nothing: a behaviour is one run of one of them, the others idle.  *)
(***************************************************************************)
EXTENDS SignalTap, GpuReplay, Tap8, BootCheck, MisterPress, SaveState, Spike

vars == <<tapVars, replayVars, tap8Vars, bootVars, pressVars, ssVars, spikeVars>>

Init ==
  \/ TapInit /\ ReplayIdle /\ Tap8Idle /\ BootIdle /\ PressIdle /\ StateIdle /\ SpikeIdle
  \/ TapIdle /\ ReplayInit /\ Tap8Idle /\ BootIdle /\ PressIdle /\ StateIdle /\ SpikeIdle
  \/ TapIdle /\ ReplayIdle /\ Tap8Init /\ BootIdle /\ PressIdle /\ StateIdle /\ SpikeIdle
  \/ TapIdle /\ ReplayIdle /\ Tap8Idle /\ BootInit /\ PressIdle /\ StateIdle /\ SpikeIdle
  \/ TapIdle /\ ReplayIdle /\ Tap8Idle /\ BootIdle /\ PressInit /\ StateIdle /\ SpikeIdle
  \/ TapIdle /\ ReplayIdle /\ Tap8Idle /\ BootIdle /\ PressIdle /\ StateInit /\ SpikeIdle
  \/ TapIdle /\ ReplayIdle /\ Tap8Idle /\ BootIdle /\ PressIdle /\ StateIdle /\ SpikeInit

Next ==
  \/ TapNext    /\ UNCHANGED <<replayVars, tap8Vars, bootVars, pressVars, ssVars, spikeVars>>
  \/ ReplayNext /\ UNCHANGED <<tapVars, tap8Vars, bootVars, pressVars, ssVars, spikeVars>>
  \/ Tap8Next   /\ UNCHANGED <<tapVars, replayVars, bootVars, pressVars, ssVars, spikeVars>>
  \/ BootNext   /\ UNCHANGED <<tapVars, replayVars, tap8Vars, pressVars, ssVars, spikeVars>>
  \/ PressNext  /\ UNCHANGED <<tapVars, replayVars, tap8Vars, bootVars, ssVars, spikeVars>>
  \/ StateNext  /\ UNCHANGED <<tapVars, replayVars, tap8Vars, bootVars, pressVars, spikeVars>>
  \/ SpikeNext  /\ UNCHANGED <<tapVars, replayVars, tap8Vars, bootVars, pressVars, ssVars>>

Spec == Init /\ [][Next]_vars
=============================================================================
