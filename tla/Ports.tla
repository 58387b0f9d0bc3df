-------------------------------- MODULE Ports --------------------------------
(***************************************************************************)
(* The shared ports of the fabric: the DDR3 port, channels 3 and 4 of the  *)
(* SDRAM, the event counts of the HPS mailbox, the port of the NVRAM and   *)
(* the disc metadata.  They meet nowhere, so a behaviour is one of them at *)
(* work and the others at rest.                                            *)
(***************************************************************************)
EXTENDS DdrPort, SdramPorts, CtrlEvents, Nvram, CdToc

VARIABLE unit   \* "ddr", "sdram", "events", "nvram" or "disc"

vars == <<portVars, sdramVars, ctrlVars, nvramVars, tocVars, unit>>

Init ==
  /\ unit \in {"ddr", "sdram", "events", "nvram", "disc"}
  /\ DdrInit /\ SdramInit /\ CtrlInit /\ NvramInit /\ TocInit

Of(u, step) == unit = u /\ step /\ UNCHANGED unit

Next ==
  \/ Of("ddr", DdrNext) /\ UNCHANGED <<sdramVars, ctrlVars, nvramVars, tocVars>>
  \/ Of("sdram", SdramNext) /\ UNCHANGED <<portVars, ctrlVars, nvramVars, tocVars>>
  \/ Of("events", CtrlNext) /\ UNCHANGED <<portVars, sdramVars, nvramVars, tocVars>>
  \/ Of("nvram", NvramNext) /\ UNCHANGED <<portVars, sdramVars, ctrlVars, tocVars>>
  \/ Of("disc", TocNext) /\ UNCHANGED <<portVars, sdramVars, ctrlVars, nvramVars>>

Spec == Init /\ [][Next]_vars

(* DDR3 takes a command and returns a beat again and again. *)
Accepts == unit = "ddr" /\ (\E ready \in BOOLEAN : Edge(FALSE, ready))
           /\ UNCHANGED <<sdramVars, ctrlVars, nvramVars, tocVars, unit>>

Returns == unit = "ddr" /\ (\E ddr_busy \in BOOLEAN : Edge(ddr_busy, TRUE))
           /\ UNCHANGED <<sdramVars, ctrlVars, nvramVars, tocVars, unit>>

FairSpec == Spec /\ WF_vars(Accepts) /\ WF_vars(Returns)
=============================================================================
