----------------------------- MODULE MisterPress -----------------------------
(***************************************************************************)
(* mister_press.py presses buttons or key combinations on a running board: *)
(* it makes a virtual device, waits for MiSTer Main to find it, sends the  *)
(* events, and removes the device again.                                   *)
(*                                                                         *)
(* Three processes: the tool; the kernel, which drops events of keys the   *)
(* device never declared and of keys already in the state asked for, and   *)
(* removes the device when its file closes; and Main, which opens the      *)
(* device some time after its creation and reads its events in order.      *)
(* Kernel and Main are external.  Main reads many times a second: it has   *)
(* read everything when one of the tool's waits ends.                      *)
(***************************************************************************)
EXTENDS Integers, SequencesExt

CONSTANTS
  Codes,      \* key codes a user names in keyboard mode
  Buttons,    \* button codes a user names in pad mode
  Declared,   \* the code range a keyboard declares, 1..127 in the code
  PadDeclared,\* the range a pad declares, 0x130..0x13b
  MaxKeys,    \* bound: keys in one combo
  MaxCombos   \* bound: combos in one sequence

ASSUME CodeAssumption ==
  Codes \cup Buttons \subseteq Nat /\ MaxKeys \in Nat \ {0} /\ MaxCombos \in Nat \ {0}

VARIABLES
  mode,       \* "pad", "key", or "none"
  seq,        \* the combos still to press, codes[1..n-1] held and codes[n] tapped
  press,      \* "open", "wait_pre", "hold", "tap", "release", "wait_post", "closed"
  held,       \* modifiers of the current combo already held
  device,     \* the kernel has the device
  keys,       \* the keys it has down
  reader,     \* Main reads it
  late,       \* Main found it after the first wait
  queue,      \* events Main has not read, <<code, value>>
  main_keys,  \* what Main believes to be down
  acted,      \* the presses Main has read, [code, with]
  asked,      \* the whole sequence
  killed

pressVars == <<mode, seq, press, held, device, keys, reader, late, queue, main_keys, acted, asked, killed>>

-----------------------------------------------------------------------------
SequencesUpTo(S, n) == UNION {[1..m -> S] : m \in 1..n}

(* Two names of one key, or the same key twice, make no combination a user    *)
(* means.                                                                    *)
Combos == {c \in SequencesUpTo(Codes, MaxKeys) : IsInjective(c)}

PressIdle ==
  /\ mode = "none" /\ seq = <<>> /\ asked = <<>> /\ press = "closed"
  /\ held = 0 /\ device = FALSE /\ keys = {} /\ reader = FALSE /\ late = FALSE
  /\ queue = <<>> /\ main_keys = {} /\ acted = <<>> /\ killed = FALSE

PressInit ==
  /\ mode \in {"pad", "key"}
  /\ seq \in IF mode = "key" THEN SequencesUpTo(Combos, MaxCombos) ELSE {<<<<b>>>> : b \in Buttons}
  /\ asked = seq /\ press = "open"
  /\ held = 0 /\ device = FALSE /\ keys = {} /\ reader = FALSE /\ late = FALSE
  /\ queue = <<>> /\ main_keys = {} /\ acted = <<>> /\ killed = FALSE

KeyBits == IF mode = "key" THEN Declared ELSE PadDeclared

-----------------------------------------------------------------------------
(* The kernel takes an event. *)
emit(code, value) ==
  LET changes == code \in KeyBits /\ ((code \in keys) # (value = 1))
  IN  IF ~changes THEN UNCHANGED <<keys, queue>>
      ELSE /\ keys' = IF value = 1 THEN keys \cup {code} ELSE keys \ {code}
           /\ queue' = IF reader THEN Append(queue, <<code, value>>) ELSE queue

Combo == Head(seq)

FirstCode == Combo[1]

TapCode == Combo[Len(Combo)]

(* A wait is over only when Main has read what there is. *)
Waited == queue = <<>>

Open ==
  /\ press = "open"
  /\ device' = TRUE
  /\ press' = "wait_pre"
  /\ UNCHANGED <<mode, seq, held, keys, reader, late, queue, main_keys, acted, asked, killed>>

(* The device is found during the first wait, or later than the tool hoped. *)
EndPre ==
  /\ press = "wait_pre" /\ Waited
  /\ late' = ~reader
  /\ press' = "hold"
  /\ UNCHANGED <<mode, seq, held, device, keys, reader, queue, main_keys, acted, asked, killed>>

HoldModifier ==
  /\ press = "hold" /\ Waited /\ held < Len(Combo) - 1
  /\ emit(Combo[held + 1], 1)
  /\ held' = held + 1
  /\ UNCHANGED <<mode, seq, press, device, reader, late, main_keys, acted, asked, killed>>

TapDown ==
  /\ press = "hold" /\ Waited /\ held = Len(Combo) - 1
  /\ emit(TapCode, 1)
  /\ press' = "tap"
  /\ UNCHANGED <<mode, seq, held, device, reader, late, main_keys, acted, asked, killed>>

TapUp ==
  /\ press = "tap" /\ Waited
  /\ emit(TapCode, 0)
  /\ press' = "release"
  /\ UNCHANGED <<mode, seq, held, device, reader, late, main_keys, acted, asked, killed>>

(* Modifiers go up in the reverse of the order they went down. *)
ReleaseModifier ==
  /\ press = "release" /\ Waited /\ held > 0
  /\ emit(Combo[held], 0)
  /\ held' = held - 1
  /\ UNCHANGED <<mode, seq, press, device, reader, late, main_keys, acted, asked, killed>>

EndCombo ==
  /\ press = "release" /\ held = 0
  /\ seq' = Tail(seq)
  /\ press' = IF Len(seq) > 1 THEN "hold" ELSE "wait_post"
  /\ UNCHANGED <<mode, held, device, keys, reader, late, queue, main_keys, acted, asked, killed>>

(* Destroy and close; the file closes too when the tool dies at any point. *)
Close ==
  /\ \/ press = "wait_post" /\ Waited /\ UNCHANGED killed
     \/ press \notin {"open", "closed"} /\ killed' = TRUE
  /\ press' = "closed"
  /\ device' = FALSE /\ reader' = FALSE
  /\ keys' = {} /\ queue' = <<>> /\ main_keys' = {}
  /\ UNCHANGED <<mode, seq, held, late, acted, asked>>

-----------------------------------------------------------------------------
Enumerate ==
  /\ device /\ ~reader
  /\ reader' = TRUE
  /\ UNCHANGED <<mode, seq, press, held, device, keys, late, queue, main_keys, acted, asked, killed>>

(* Main takes note of each key going down and of what else is down then. *)
MainReads ==
  /\ reader /\ queue # <<>>
  /\ LET code  == Head(queue)[1]
         value == Head(queue)[2]
     IN  /\ main_keys' = IF value = 1 THEN main_keys \cup {code} ELSE main_keys \ {code}
         /\ acted' = IF value = 1 THEN Append(acted, [code |-> code, with |-> main_keys]) ELSE acted
  /\ queue' = Tail(queue)
  /\ UNCHANGED <<mode, seq, press, held, device, keys, reader, late, asked, killed>>

PressNext ==
  \/ Open \/ EndPre \/ HoldModifier \/ TapDown \/ TapUp \/ ReleaseModifier \/ EndCombo \/ Close
  \/ Enumerate \/ MainReads

-----------------------------------------------------------------------------
(* What a sequence of combos presses, one key after the other. *)
Presses(combos) ==
  FlattenSeq([i \in 1..Len(combos) |->
    [j \in 1..Len(combos[i]) |-> [code |-> combos[i][j], with |-> {combos[i][m] : m \in 1..j - 1}]]])

(* The device declares every key of the sequence. *)
Typable == \A i \in 1..Len(asked) : Range(asked[i]) \subseteq KeyBits

(* When Main has found the device in time, it acts on the presses that were   *)
(* asked for, in their order and each with exactly its modifiers down, and on *)
(* no other: a run cut short at any point leaves a prefix of them, and one    *)
(* that ends by itself has made them all.  What is down meanwhile is always   *)
(* the beginning of a combo, on its way down as on its way up: a modifier is  *)
(* not lifted under one that was pressed after it.                           *)
PressesAsAsked ==
  Typable /\ ~late =>
    /\ IsPrefix(acted, Presses(asked))
    /\ press = "closed" /\ ~killed => acted = Presses(asked)
    /\ press \in {"hold", "tap", "release"} =>
         \E n \in 0..Len(Combo) : keys = {Combo[m] : m \in 1..n}
=============================================================================
