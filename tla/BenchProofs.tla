----------------------------- MODULE BenchProofs -----------------------------
(***************************************************************************)
(* Proofs about the bench: what each of the offline tools says of the core  *)
(* is so.  The tools run one at a time and share nothing, so each has its   *)
(* own inductive invariant, and its section is independent of the others,   *)
(* but for the lemmas about FlattenSeq and about Kept.                      *)
(***************************************************************************)
EXTENDS Bench, Remainders, SequenceTheorems, FiniteSetTheorems, TLAPS

-----------------------------------------------------------------------------
(* The savestate examiner, ss_gpu_dma_state.py.                            *)

(* A file of the examiner: whether it is a save state, and the DMA and GPU *)
(* flags it records.                                                       *)
Flags == [kind : {"slot", "short", "foreign"}, busy : BOOLEAN, channelOn : BOOLEAN,
          isOn : BOOLEAN, active : 0..6, waiting : BOOLEAN, invsync : BOOLEAN]

(* What of the controller's flags a real slot can hold. *)
Consistent(f) ==
  /\ f.waiting => f.isOn /\ f.active = GPU_DMA_CH
  /\ f.isOn /\ f.active = GPU_DMA_CH => f.channelOn
  /\ f.channelOn => f.busy

(* The types of the examiner's variables.                                  *)
StateType ==
  /\ busy \in BOOLEAN /\ channelOn \in BOOLEAN /\ isOn \in BOOLEAN
  /\ active_chan \in 0..6 /\ gpu_waiting \in BOOLEAN /\ invsync \in BOOLEAN
  /\ files \in Seq(Flags)
  /\ results \in Seq([file : Flags, sane : BOOLEAN, clean : BOOLEAN])
  /\ exit \in [stage : {"none", "run", "decode", "done"}, code : Nat, best : Nat]

(* A slot taken now would be consistent.                                   *)
Controller == Consistent(Capture("slot"))

(* Every real slot taken is consistent; a short or a foreign file need not *)
(* be.                                                                     *)
Captures == \A i \in 1..Len(files) : files[i].kind = "slot" => Consistent(files[i])

(* What was said of each file: clean only without blockers, sane only when *)
(* its flags agree.                                                        *)
Decoded ==
  \A i \in 1..Len(results) :
    /\ results[i].clean <=> Blockers(results[i].file) = {}
    /\ results[i].sane => Consistent(results[i].file)

(* The inductive invariant of the examiner.                                *)
StateInv == StateType /\ Controller /\ Captures /\ Decoded /\ RecommendedResumes

(* It holds at the start.                                                  *)
LEMMA StateStart ==
  ASSUME StateIdle \/ StateInit
  PROVE  StateInv
<1>1. PICK d \in {"none", "run"} : Idle(d)
  BY DEF StateIdle, StateInit
<1> USE <1>1 DEF Idle
<1>2. StateType
  <2>1. <<>> \in Seq(Flags) /\ <<>> \in Seq([file : Flags, sane : BOOLEAN, clean : BOOLEAN])
    BY EmptySeq
  <2>2. exit \in [stage : {"none", "run", "decode", "done"}, code : Nat, best : Nat]
    OBVIOUS
  <2>3. files \in Seq(Flags) /\ results \in Seq([file : Flags, sane : BOOLEAN, clean : BOOLEAN])
    BY <2>1, Zenon
  <2>4. /\ busy \in BOOLEAN /\ channelOn \in BOOLEAN /\ isOn \in BOOLEAN
        /\ gpu_waiting \in BOOLEAN /\ invsync \in BOOLEAN
    BY Zenon
  <2>5. active_chan \in 0..6
    OBVIOUS
  <2>6. QED
    BY <2>2, <2>3, <2>4, <2>5, Zenon DEF StateType
<1>3. Controller
  BY DEF Controller, Consistent, Capture
<1>4. Captures /\ Decoded /\ RecommendedResumes
  BY DEF Captures, Decoded, RecommendedResumes
<1>5. QED
  BY <1>2, <1>3, <1>4 DEF StateInv

(* The steps of the controller leave the files alone.                      *)
ControllerStep == StartList \/ Grant \/ GpuWaits \/ Chop \/ EndList \/ OtherChannel \/ Vsync

(* Each step of the DMA controller keeps its flags consistent.             *)
LEMMA StateController ==
  ASSUME StateInv, ControllerStep
  PROVE  StateInv'
<1>1. StateType /\ Controller
  BY DEF StateInv
<1>2. Other \in 0..6 /\ Other # 2 /\ GPU_DMA_CH = 2
  BY ChannelAssumption DEF GPU_DMA_CH
<1>3. StateType'
  <2>1. active_chan' \in 0..6
    BY <1>1, <1>2 DEF StateType, ControllerStep, StartList, Grant, GpuWaits, Chop, EndList, OtherChannel, Vsync
  <2>2. /\ busy' \in BOOLEAN /\ channelOn' \in BOOLEAN /\ isOn' \in BOOLEAN
        /\ gpu_waiting' \in BOOLEAN /\ invsync' \in BOOLEAN
    BY <1>1 DEF StateType, ControllerStep, StartList, Grant, GpuWaits, Chop, EndList, OtherChannel, Vsync
  <2>3. UNCHANGED <<files, results, exit>>
    BY DEF ControllerStep, StartList, Grant, GpuWaits, Chop, EndList, OtherChannel, Vsync
  <2>4. QED
    BY <1>1, <2>1, <2>2, <2>3 DEF StateType
<1>4. Controller'
  BY <1>1, <1>2 DEF StateType, Controller, Consistent, Capture,
     ControllerStep, StartList, Grant, GpuWaits, Chop, EndList, OtherChannel, Vsync
<1>5. UNCHANGED <<files, results, exit>>
  BY DEF ControllerStep, StartList, Grant, GpuWaits, Chop, EndList, OtherChannel, Vsync
<1>6. Captures' /\ Decoded' /\ RecommendedResumes'
  BY <1>5 DEF StateInv, Captures, Decoded, RecommendedResumes
<1>7. QED
  BY <1>3, <1>4, <1>6 DEF StateInv

(* Taking a slot records the controller as it is; the other files are      *)
(* arbitrary.                                                              *)
LEMMA StateTake ==
  ASSUME StateInv, TakeState
  PROVE  StateInv'
<1>1. StateType /\ Controller /\ Captures /\ Decoded /\ RecommendedResumes
  BY DEF StateInv
<1>2. PICK f \in {Capture("slot"), Capture("short"), Foreign} : files' = Append(files, f)
  BY DEF TakeState
<1>3. f \in Flags
  <2>1. Capture("slot") \in Flags /\ Capture("short") \in Flags
    BY <1>1 DEF StateType, Flags, Capture
  <2>2. Foreign \in Flags
    BY DEF Flags, Foreign
  <2>3. QED
    BY <1>2, <2>1, <2>2
<1>4. f.kind = "slot" => Consistent(f)
  BY <1>1 DEF Controller, Capture, Foreign
<1>5. files \in Seq(Flags)
  BY <1>1 DEF StateType
<1>6. StateType'
  BY <1>1, <1>2, <1>3, <1>5, AppendProperties DEF TakeState, StateType
<1>7. Controller'
  BY <1>1 DEF TakeState, Controller, Consistent, Capture
<1>8. Captures'
  <2> SUFFICES ASSUME NEW i \in 1..Len(files'), files'[i].kind = "slot"
               PROVE  Consistent(files'[i])
    BY DEF Captures, Consistent
  <2>1. Len(files) \in Nat
    BY <1>5, LenProperties
  <2>2. Len(files') = Len(files) + 1 /\ files'[Len(files) + 1] = f
        /\ \A j \in 1..Len(files) : files'[j] = files[j]
    BY <1>2, <1>3, <1>5, AppendProperties
  <2>3. CASE i = Len(files) + 1
    BY <2>2, <2>3, <1>4
  <2>4. CASE i # Len(files) + 1
    <3>1. i \in 1..Len(files)
      BY <2>1, <2>2, <2>4
    <3>2. QED
      BY <3>1, <2>2, <1>1 DEF Captures
  <2>5. QED
    BY <2>3, <2>4
<1>9. Decoded' /\ RecommendedResumes'
  BY <1>1 DEF TakeState, Decoded, RecommendedResumes
<1>10. QED
  BY <1>6, <1>7, <1>8, <1>9 DEF StateInv

(* The tool begins with no results.                                        *)
LEMMA StateExamine ==
  ASSUME StateInv, Examine
  PROVE  StateInv'
<1>1. StateType'
  BY DEF StateInv, StateType, Examine
<1>2. Controller' /\ Captures' /\ Decoded'
  BY DEF StateInv, Controller, Consistent, Capture, Captures, Decoded, Examine
<1>3. exit'.stage = "decode"
  BY DEF StateInv, StateType, Examine
<1>4. QED
  BY <1>1, <1>2, <1>3 DEF StateInv, RecommendedResumes

(* The verdict CLEAN-RESUME is that no flag blocks.                         *)
LEMMA CleanVerdict ==
  ASSUME NEW f \in Flags
  PROVE  StateVerdict(f) = "CLEAN-RESUME" <=> Blockers(f) = {}
BY DEF StateVerdict

(* A file decoded adds one verdict, for that file.                         *)
LEMMA StateDecode ==
  ASSUME StateInv, Decode
  PROVE  StateInv'
<1>1. StateType /\ Controller /\ Captures /\ Decoded
  BY DEF StateInv
<1>2. files \in Seq(Flags) /\ files # <<>>
  BY <1>1 DEF StateType, Decode
<1>3. files' = Tail(files) /\ Len(files) \in Nat \ {0} /\ Head(files) = files[1]
  BY <1>2, EmptySeq DEF Decode
<1>4. Head(files) \in Flags /\ Tail(files) \in Seq(Flags) /\ Len(Tail(files)) = Len(files) - 1
      /\ \A i \in 1..Len(Tail(files)) : Tail(files)[i] = files[i + 1]
  BY <1>2, HeadTailProperties
<1>5. Captures'
  BY <1>1, <1>3, <1>4 DEF Captures, Consistent
<1>6. Controller' /\ exit' = exit
  BY <1>1 DEF Controller, Consistent, Capture, Decode
<1>7. RecommendedResumes'
  BY <1>6 DEF RecommendedResumes, Decode
<1> DEFINE rec == [file |-> Head(files), sane |-> Head(files).kind = "slot",
                   clean |-> StateVerdict(Head(files)) = "CLEAN-RESUME"]
           R == [file : Flags, sane : BOOLEAN, clean : BOOLEAN]
<1>8. rec \in R
  BY <1>4
<1>9. results' = results \/ results' = Append(results, rec)
  BY DEF Decode
<1>10. results \in Seq(R)
  BY <1>1 DEF StateType
<1>11. results' \in Seq(R)
  <2> HIDE DEF rec, R
  <2> QED
    BY <1>8, <1>9, <1>10, AppendProperties
<1>12. StateType'
  BY <1>1, <1>3, <1>4, <1>11 DEF StateType, Decode
<1>13. rec.clean <=> Blockers(rec.file) = {}
  BY <1>4, CleanVerdict
<1>14. rec.sane => Consistent(rec.file)
  <2>1. 1 \in 1..Len(files)
    BY <1>3
  <2>2. QED
    BY <2>1, <1>1, <1>3 DEF Captures
<1>15. Decoded'
  <2>1. CASE results' = results
    BY <2>1, <1>1 DEF Decoded
  <2>2. CASE results' = Append(results, rec)
    <3> HIDE DEF rec, R
    <3>1. Len(results) \in Nat
      BY <1>10, LenProperties
    <3>2. Len(results') = Len(results) + 1 /\ results'[Len(results) + 1] = rec
          /\ \A j \in 1..Len(results) : results'[j] = results[j]
      BY <2>2, <1>8, <1>10, AppendProperties
    <3>3. ASSUME NEW i \in 1..Len(results')
          PROVE  /\ results'[i].clean <=> Blockers(results'[i].file) = {}
                 /\ results'[i].sane => Consistent(results'[i].file)
      <4>1. CASE i = Len(results) + 1
        BY <4>1, <3>2, <1>13, <1>14
      <4>2. CASE i # Len(results) + 1
        <5>1. i \in 1..Len(results)
          BY <3>1, <3>2, <4>2
        <5>2. QED
          BY <5>1, <3>2, <1>1 DEF Decoded
      <4>3. QED
        BY <4>1, <4>2
    <3>4. QED
      BY <3>3 DEF Decoded, Consistent, Blockers
  <2>3. QED
    BY <1>9, <2>1, <2>2
<1>16. QED
  BY <1>5, <1>6, <1>7, <1>12, <1>15 DEF StateInv

(* Resumable, and clean, are the same of a sane file.                       *)
LEMMA SaneClean ==
  ASSUME StateInv, NEW i \in 1..Len(results)
  PROVE  /\ results[i].clean => ~results[i].file.busy /\ ~results[i].file.isOn
         /\ results[i].sane /\ ~results[i].file.busy /\ ~results[i].file.isOn => results[i].clean
<1>1. results[i].clean <=> Blockers(results[i].file) = {}
  BY DEF StateInv, Decoded
<1>2. results[i].sane => Consistent(results[i].file)
  BY DEF StateInv, Decoded
<1>3. results[i].clean => ~results[i].file.busy /\ ~results[i].file.isOn
  BY <1>1 DEF Blockers
<1>4. ASSUME results[i].sane, ~results[i].file.busy, ~results[i].file.isOn
      PROVE  Blockers(results[i].file) = {}
  BY <1>2, <1>4 DEF Consistent, Blockers
<1>5. QED
  BY <1>1, <1>3, <1>4

(* The rank by which the tool sorts a result.                              *)
LEMMA RankIs ==
  ASSUME StateInv, NEW i \in 1..Len(results)
  PROVE  /\ Rank(results[i]) \in 0..15
         /\ results[i].clean <=> Rank(results[i]) < 8
         /\ results[i].clean => (results[i].file.invsync <=> Rank(results[i]) < 4)
<1>1. results[i] \in [file : Flags, sane : BOOLEAN, clean : BOOLEAN]
  BY ElementOfSeq DEF StateInv, StateType
<1>2. results[i].clean \in BOOLEAN /\ results[i].file.invsync \in BOOLEAN
      /\ results[i].file.busy \in BOOLEAN /\ results[i].file.isOn \in BOOLEAN
  BY <1>1 DEF Flags
<1>3. results[i].clean => ~results[i].file.busy /\ ~results[i].file.isOn
  BY SaneClean
<1>4. QED
  BY <1>2, <1>3 DEF Rank

(* The stable sort has a first element.                                    *)
LEMMA BestIs ==
  ASSUME StateInv, results # <<>>
  PROVE  /\ Best \in 1..Len(results)
         /\ \A j \in 1..Len(results) : Rank(results[Best]) <= Rank(results[j])
<1>1. results \in Seq([file : Flags, sane : BOOLEAN, clean : BOOLEAN]) /\ Len(results) \in Nat \ {0}
  BY EmptySeq DEF StateInv, StateType
<1> DEFINE n == Len(results)
           Ranks == {Rank(results[i]) : i \in 1..n}
<1>2. \A i \in 1..n : Rank(results[i]) \in Nat
  BY RankIs
<1>3. Ranks \subseteq Nat /\ Ranks # {}
  BY <1>1, <1>2
<1>4. PICK m \in Ranks : \A k \in Ranks : m <= k
  BY <1>3, LeastExists
<1> DEFINE Lowest == {i \in 1..n : Rank(results[i]) = m}
<1>5. Lowest \subseteq Nat /\ Lowest # {}
  BY <1>1, <1>4
<1>6. PICK b \in Lowest : \A j \in Lowest : b <= j
  <2> HIDE DEF Lowest
  <2> QED
    BY <1>5, LeastExists
<1>7. ASSUME NEW j \in 1..n
      PROVE  Rank(results[b]) < Rank(results[j]) \/ (Rank(results[b]) = Rank(results[j]) /\ b <= j)
  <2>1. Rank(results[b]) = m /\ m <= Rank(results[j]) /\ m \in Nat /\ Rank(results[j]) \in Nat
    BY <1>2, <1>4, <1>6
  <2>2. Rank(results[j]) = m => b <= j
    BY <1>6
  <2>3. QED
    BY <2>1, <2>2
<1>8. b \in 1..n
  BY <1>6
<1>9. /\ Best \in 1..n
      /\ \A j \in 1..n : Rank(results[Best]) < Rank(results[j])
                           \/ (Rank(results[Best]) = Rank(results[j]) /\ Best <= j)
  BY <1>7, <1>8 DEF Best
<1>10. QED
  BY <1>2, <1>9

(* The file recommended is the first of the sorted results, so a clean     *)
(* sane one if there is one.                                               *)
LEMMA StateRecommend ==
  ASSUME StateInv, Recommend
  PROVE  StateInv'
<1>1. StateType /\ Controller /\ Captures /\ Decoded
  BY DEF StateInv
<1>2. UNCHANGED <<files, results>>
  BY DEF Recommend
<1>3. results # <<>> => Best \in Nat
  <2>1. Len(results) \in Nat
    BY <1>1, LenProperties DEF StateType
  <2>2. QED
    BY <2>1, BestIs
<1>4. AnyClean => results # <<>>
  BY DEF AnyClean
<1>5. exit' = [stage |-> "done", code |-> IF AnyClean THEN 0 ELSE 1, best |-> IF AnyClean THEN Best ELSE 0]
  BY DEF Recommend
<1>6. StateType'
  BY <1>1, <1>3, <1>4, <1>5 DEF StateType, Recommend
<1>7. Controller' /\ Captures' /\ Decoded'
  BY <1>1 DEF Controller, Consistent, Capture, Captures, Decoded, Recommend
<1> DEFINE resumable == {i \in 1..Len(results) :
                 results[i].sane /\ ~results[i].file.busy /\ ~results[i].file.isOn}
<1>8. resumable # {} => exit'.code = 0
  BY <1>5, SaneClean DEF AnyClean
<1>9. ASSUME exit'.best # 0, results[exit'.best].sane
      PROVE  /\ exit'.best \in resumable
             /\ (\E i \in resumable : results[i].file.invsync) => results[exit'.best].file.invsync
  <2>1. AnyClean /\ exit'.best = Best
    BY <1>5, <1>9
  <2>2. Best \in 1..Len(results) /\ \A j \in 1..Len(results) : Rank(results[Best]) <= Rank(results[j])
    BY <1>4, <2>1, BestIs
  <2>3. PICK j \in 1..Len(results) : results[j].clean
    BY <2>1 DEF AnyClean
  <2>4. results[Best].clean
    <3>1. Rank(results[j]) \in Int /\ Rank(results[j]) < 8 /\ Rank(results[Best]) \in Int
      BY <2>2, <2>3, RankIs, SMTT(30)
    <3>2. Rank(results[Best]) <= Rank(results[j])
      BY <2>2
    <3>3. Rank(results[Best]) < 8
      BY <3>1, <3>2
    <3>4. QED
      BY <2>2, <3>3, RankIs
  <2>5. Best \in resumable
    BY <1>9, <2>1, <2>2, <2>4, SaneClean
  <2>6. ASSUME NEW i \in resumable, results[i].file.invsync
        PROVE  results[Best].file.invsync
    <3>1. results[i].clean
      BY SaneClean
    <3>2. Rank(results[i]) < 4
      BY <2>6, <3>1, RankIs
    <3>3. Rank(results[Best]) < 4
      <4>1. Rank(results[Best]) <= Rank(results[i])
        BY <2>2
      <4>2. Rank(results[Best]) \in Int /\ Rank(results[i]) \in Int
        BY <2>2, RankIs
      <4>3. QED
        BY <3>2, <4>1, <4>2
    <3>4. QED
      BY <2>2, <2>4, <3>3, RankIs
  <2>7. QED
    BY <2>1, <2>5, <2>6
<1>10. exit'.code = 0 => resumable # {} \/ \E i \in 1..Len(results) : ~results[i].sane
  <2>1. SUFFICES ASSUME exit'.code = 0, \A i \in 1..Len(results) : results[i].sane
                 PROVE  resumable # {}
    OBVIOUS
  <2>2. PICK i \in 1..Len(results) : results[i].clean
    BY <1>5, <2>1 DEF AnyClean
  <2>3. i \in resumable
    BY <2>1, <2>2, SaneClean
  <2>4. QED
    BY <2>3
<1>11. RecommendedResumes'
  <2>1. results' = results
    BY <1>2
  <2> HIDE DEF resumable
  <2>2. QED
    BY <1>2, <1>8, <1>9, <1>10, <2>1 DEF RecommendedResumes, resumable
<1>12. QED
  BY <1>6, <1>7, <1>11 DEF StateInv

(* Every step of the examiner keeps its invariant.                         *)
LEMMA StateStep ==
  ASSUME StateInv, StateNext \/ UNCHANGED ssVars
  PROVE  StateInv'
<1>1. CASE ControllerStep
  BY <1>1, StateController
<1>2. CASE TakeState
  BY <1>2, StateTake
<1>3. CASE Examine
  BY <1>3, StateExamine
<1>4. CASE Decode
  BY <1>4, StateDecode
<1>5. CASE Recommend
  BY <1>5, StateRecommend
<1>6. CASE UNCHANGED ssVars
  BY <1>6 DEF ssVars, StateInv, StateType, Controller, Consistent, Capture, Captures, Decoded, RecommendedResumes
<1>7. QED
  BY <1>1, <1>2, <1>3, <1>4, <1>5, <1>6 DEF StateNext, ControllerStep

(* A file that ss_gpu_dma_state.py recommends and calls sane is one in     *)
(* which no list was under way and no channel held the controller, frozen  *)
(* in vertical blank if any such file was.  The exit code is 0 whenever    *)
(* there is one, and only then or for a file of another layout.  For every *)
(* history of the DMA controller and every set of files.                   *)
THEOREM StateResumes == Spec => []RecommendedResumes
<1>1. Init => StateInv
  BY StateStart DEF Init
<1>2. StateInv /\ [Next]_vars => StateInv'
  BY StateStep DEF Next, vars
<1>3. StateInv => RecommendedResumes
  BY DEF StateInv
<1>4. QED
  BY <1>1, <1>2, <1>3, PTL DEF Spec

-----------------------------------------------------------------------------
(* The judge of the render tap, attribute_tap8.py.                         *)

(* The counts the decoder keeps of the log lines.                          *)
Tallies == [joined : Nat, own_row_hits : Nat, wrong_row_hits : Nat, race_pix : Nat]

(* A pixel with the palette row that was resident when it was looked up.   *)
LookedUp == [pixel : Pixels, row : rows]

(* The types of the tap's variables.                                       *)
Tap8Type ==
  /\ feed \in Seq(Pixels) /\ later \in Seq(LookedUp)
  /\ stage1 = <<>> \/ (stage1 = <<stage1[1]>> /\ stage1[1] \in Pixels)
  /\ resident \in rows /\ tally \in Tallies /\ garbled \in BOOLEAN

(* Looked up in a row its texel had not asked for. *)
Wrong(b) == b.pixel.tex /\ b.row # b.pixel.s1tag

(* A pixel looked up in the wrong row has left a race witness in the log     *)
(* before it is seen to leave.                                             *)
Witnessed ==
  /\ garbled => tally.race_pix > 0
  /\ \A i \in 1..Len(later) : Wrong(later[i]) => tally.race_pix > 0

(* The inductive invariant of the tap and its decoder.                     *)
Tap8Inv == Tap8Type /\ Witnessed /\ CleanIsClean

(* It holds at the start.                                                  *)
LEMMA Tap8Start ==
  ASSUME Tap8Idle \/ Tap8Init
  PROVE  Tap8Inv
<1>1. feed \in Seq(Pixels)
  <2>1. CASE Tap8Idle
    BY <2>1, EmptySeq DEF Tap8Idle
  <2>2. CASE Tap8Init
    BY <2>2, PixelAssumption, SeqDef DEF Tap8Init
  <2>3. QED
    BY <2>1, <2>2
<1>2. later = <<>> /\ stage1 = <<>> /\ garbled = FALSE /\ tally = ZeroTally /\ verdict # "CLEAN"
  BY DEF Tap8Idle, Tap8Init
<1>3. resident \in rows
  BY PixelAssumption DEF Tap8Idle, Tap8Init
<1>4. tally \in Tallies
  BY <1>2 DEF ZeroTally, Tallies
<1>5. later \in Seq(LookedUp)
  BY <1>2, EmptySeq
<1>6. Tap8Type
  BY <1>1, <1>2, <1>3, <1>4, <1>5 DEF Tap8Type
<1>7. Witnessed /\ CleanIsClean
  BY <1>2 DEF Witnessed, CleanIsClean
<1>8. QED
  BY <1>6, <1>7 DEF Tap8Inv

(* A pixel that enters has been looked up nowhere.                         *)
LEMMA Tap8Enter ==
  ASSUME Tap8Inv, Enter
  PROVE  Tap8Inv'
<1>1. Head(feed) \in Pixels /\ Tail(feed) \in Seq(Pixels)
  BY HeadTailProperties DEF Tap8Inv, Tap8Type, Enter
<1>2. Tap8Type'
  BY <1>1 DEF Tap8Inv, Tap8Type, Enter
<1>3. Witnessed' /\ CleanIsClean'
  BY DEF Tap8Inv, Witnessed, CleanIsClean, Enter
<1>4. QED
  BY <1>2, <1>3 DEF Tap8Inv

(* A palette row loaded: what was looked up before it is untouched.        *)
LEMMA Tap8Load ==
  ASSUME Tap8Inv, NEW r \in rows, LoadPalette(r)
  PROVE  Tap8Inv'
<1>1. Tap8Type'
  BY DEF Tap8Inv, Tap8Type, LoadPalette
<1>2. Witnessed' /\ CleanIsClean'
  BY DEF Tap8Inv, Witnessed, CleanIsClean, LoadPalette
<1>3. QED
  BY <1>1, <1>2 DEF Tap8Inv

(* A PIX line never takes a witness back, and adds one when the row is wrong.*)
LEMMA PixLineTally ==
  ASSUME tally \in Tallies, NEW p, PixLine(p)
  PROVE  /\ tally' \in Tallies
         /\ tally.race_pix > 0 => tally'.race_pix > 0
         /\ p.tex /\ resident # p.s1tag => tally'.race_pix > 0
<1>1. tally' = tally \/ tally' = [tally EXCEPT !.race_pix = @ + 1]
  BY DEF PixLine
<1>2. p.tex /\ resident # p.s1tag => tally' = [tally EXCEPT !.race_pix = @ + 1]
  BY DEF PixLine
<1>3. tally.race_pix \in Nat
  BY DEF Tallies
<1>4. [tally EXCEPT !.race_pix = @ + 1] \in Tallies
      /\ [tally EXCEPT !.race_pix = @ + 1].race_pix = tally.race_pix + 1
  BY DEF Tallies
<1> DEFINE more == [tally EXCEPT !.race_pix = @ + 1]
<1> HIDE DEF more
<1>5. more.race_pix > 0 /\ more \in Tallies
  BY <1>3, <1>4 DEF more
<1>6. tally' = tally \/ tally' = more
  BY <1>1 DEF more
<1>7. p.tex /\ resident # p.s1tag => tally' = more
  BY <1>2 DEF more
<1>8. QED
  BY <1>5, <1>6, <1>7

(* A pixel held is logged as it waits.                                     *)
LEMMA Tap8Hold ==
  ASSUME Tap8Inv, Hold
  PROVE  Tap8Inv'
<1>1. PixLine(stage1[1]) /\ tally \in Tallies
  BY DEF Hold, Tap8Inv, Tap8Type
<1>2. tally' \in Tallies /\ (tally.race_pix > 0 => tally'.race_pix > 0)
  BY <1>1, PixLineTally
<1>3. Tap8Type'
  BY <1>2 DEF Tap8Inv, Tap8Type, Hold
<1>4. Witnessed' /\ CleanIsClean'
  BY <1>2 DEF Tap8Inv, Witnessed, CleanIsClean, Hold
<1>5. QED
  BY <1>3, <1>4 DEF Tap8Inv

(* The lookup logs its pixel first: a wrong one is witnessed by then.      *)
LEMMA Tap8Advance ==
  ASSUME Tap8Inv, Advance
  PROVE  Tap8Inv'
<1> DEFINE p == stage1[1]
           b == [pixel |-> p, row |-> resident]
<1>1. PixLine(p) /\ tally \in Tallies /\ p \in Pixels /\ resident \in rows /\ later \in Seq(LookedUp)
  BY DEF Advance, Tap8Inv, Tap8Type
<1>2. /\ tally' \in Tallies
      /\ tally.race_pix > 0 => tally'.race_pix > 0
      /\ p.tex /\ resident # p.s1tag => tally'.race_pix > 0
  BY <1>1, PixLineTally
<1>3. b \in LookedUp /\ (Wrong(b) <=> p.tex /\ resident # p.s1tag)
  BY <1>1 DEF LookedUp, Wrong
<1>4. later' = Append(later, b) /\ stage1' = <<>>
  BY DEF Advance
<1> HIDE DEF b
<1>5. /\ later' \in Seq(LookedUp) /\ Len(later') = Len(later) + 1
      /\ \A i \in 1..Len(later) : later'[i] = later[i]
      /\ later'[Len(later) + 1] = b
      /\ Len(later) \in Nat
  BY <1>1, <1>3, <1>4, AppendProperties, LenProperties
<1>6. Tap8Type'
  BY <1>2, <1>4, <1>5 DEF Tap8Inv, Tap8Type, Advance
<1>7. ASSUME NEW i \in 1..Len(later'), Wrong(later'[i])
      PROVE  tally'.race_pix > 0
  <2>1. CASE i = Len(later) + 1
    BY <2>1, <1>2, <1>3, <1>5, <1>7
  <2>2. CASE i # Len(later) + 1
    <3>1. i \in 1..Len(later)
      BY <1>5, <2>2
    <3>2. Wrong(later[i])
      BY <1>5, <1>7, <3>1
    <3>3. QED
      BY <1>2, <3>1, <3>2 DEF Tap8Inv, Witnessed
  <2>3. QED
    BY <2>1, <2>2
<1>8. Witnessed'
  BY <1>2, <1>7 DEF Tap8Inv, Witnessed, Wrong, Advance
<1>9. CleanIsClean'
  BY DEF Tap8Inv, CleanIsClean, Advance
<1>10. QED
  BY <1>6, <1>8, <1>9 DEF Tap8Inv

(* An OUT line counts joins and hits only.                                 *)
LEMMA OutLineTally ==
  ASSUME tally \in Tallies, NEW p, NEW r, OutLine(p, r)
  PROVE  tally' \in Tallies /\ tally'.race_pix = tally.race_pix
<1>1. CASE tally' = tally
  BY <1>1
<1>2. CASE tally' # tally
  <2>1. PICK rec, hits :
           tally' = [tally EXCEPT !.joined = @ + 1,
                        !.own_row_hits = IF rec.s1tag \in hits THEN @ + 1 ELSE @,
                        !.wrong_row_hits = IF hits # {} /\ rec.s1tag \notin hits THEN @ + 1 ELSE @]
    BY <1>2 DEF OutLine
  <2>2. PICK own, wrong \in Nat :
           tally' = [tally EXCEPT !.joined = @ + 1, !.own_row_hits = own, !.wrong_row_hits = wrong]
    <3>1. tally.own_row_hits \in Nat /\ tally.wrong_row_hits \in Nat
      BY DEF Tallies
    <3>2. (IF rec.s1tag \in hits THEN tally.own_row_hits + 1 ELSE tally.own_row_hits) \in Nat
      BY <3>1
    <3>3. (IF hits # {} /\ rec.s1tag \notin hits THEN tally.wrong_row_hits + 1 ELSE tally.wrong_row_hits) \in Nat
      BY <3>1
    <3>4. QED
      BY <2>1, <3>2, <3>3
  <2>3. tally.joined + 1 \in Nat
    BY DEF Tallies
  <2>4. \A j \in Nat :
           LET up == [tally EXCEPT !.joined = j, !.own_row_hits = own, !.wrong_row_hits = wrong]
           IN  up \in Tallies /\ up.race_pix = tally.race_pix
    BY Zenon DEF Tallies
  <2>5. tally' = [tally EXCEPT !.joined = tally.joined + 1, !.own_row_hits = own, !.wrong_row_hits = wrong]
    BY <2>2
  <2>6. QED
    BY <2>3, <2>4, <2>5, Zenon
<1>3. QED
  BY <1>1, <1>2

(* A pixel that leaves wrong was witnessed when it was looked up.          *)
LEMMA Tap8Leave ==
  ASSUME Tap8Inv, Leave
  PROVE  Tap8Inv'
<1> DEFINE b == Head(later)
<1>1. tally \in Tallies /\ later \in Seq(LookedUp) /\ later # <<>> /\ later' = Tail(later)
  BY DEF Leave, Tap8Inv, Tap8Type
<1>2. /\ b \in LookedUp /\ b = later[1] /\ 1 \in 1..Len(later)
      /\ Tail(later) \in Seq(LookedUp) /\ Len(Tail(later)) = Len(later) - 1
      /\ \A i \in 1..Len(Tail(later)) : Tail(later)[i] = later[i + 1]
      /\ Len(later) \in Nat
  BY <1>1, HeadTailProperties, EmptySeq, LenProperties
<1>3. tally' \in Tallies /\ tally'.race_pix = tally.race_pix
  <2>1. UNCHANGED tally \/ OutLine(b.pixel, b.row)
    BY DEF Leave
  <2>2. QED
    BY <1>1, <2>1, OutLineTally
<1>4. garbled' => garbled \/ Wrong(b)
  BY DEF Leave, Wrong
<1>5. garbled' \in BOOLEAN
  BY DEF Leave, Tap8Inv, Tap8Type
<1>6. Tap8Type'
  BY <1>1, <1>2, <1>3, <1>5 DEF Tap8Inv, Tap8Type, Leave
<1>7. garbled' => tally'.race_pix > 0
  BY <1>2, <1>3, <1>4 DEF Tap8Inv, Witnessed
<1>8. ASSUME NEW i \in 1..Len(later'), Wrong(later'[i])
      PROVE  tally'.race_pix > 0
  <2>1. i + 1 \in 1..Len(later) /\ later'[i] = later[i + 1]
    BY <1>1, <1>2
  <2>2. QED
    BY <1>3, <1>8, <2>1 DEF Tap8Inv, Witnessed
<1>9. Witnessed'
  BY <1>7, <1>8 DEF Witnessed, Wrong
<1>10. CleanIsClean'
  BY DEF CleanIsClean, Leave
<1>11. QED
  BY <1>6, <1>9, <1>10 DEF Tap8Inv

(* The verdict reads the counts.                                           *)
LEMMA Tap8Judge ==
  ASSUME Tap8Inv, Judge
  PROVE  Tap8Inv'
<1>1. verdict' = "CLEAN" => tally.race_pix = 0
  BY DEF Judge
<1>2. CleanIsClean'
  BY <1>1 DEF Tap8Inv, Witnessed, CleanIsClean, Judge
<1>3. Tap8Type'
  BY DEF Tap8Inv, Tap8Type, Judge
<1>4. Witnessed'
  BY DEF Tap8Inv, Witnessed, Judge
<1>5. QED
  BY <1>2, <1>3, <1>4 DEF Tap8Inv

(* Every step keeps the invariant.                                         *)
LEMMA Tap8Step ==
  ASSUME Tap8Inv, Tap8Next \/ UNCHANGED tap8Vars
  PROVE  Tap8Inv'
<1>1. CASE Tap8Next
  BY <1>1, Tap8Enter, Tap8Load, Tap8Hold, Tap8Advance, Tap8Leave, Tap8Judge DEF Tap8Next
<1>2. CASE UNCHANGED tap8Vars
  BY <1>2 DEF tap8Vars, Tap8Inv, Tap8Type, Witnessed, CleanIsClean
<1>3. QED
  BY <1>1, <1>2

(* A log that decode_tap8.py calls clean comes of a run in which no pixel  *)
(* was looked up in a palette row it had not asked for: the witness on the *)
(* input side is in the log before the output side can be wrong. For all   *)
(* rows and pixels.                                                        *)
THEOREM Tap8Clean == Spec => []CleanIsClean
<1>1. Init => Tap8Inv
  BY Tap8Start DEF Init
<1>2. Tap8Inv /\ [Next]_vars => Tap8Inv'
  BY Tap8Step DEF Next, vars
<1>3. Tap8Inv => CleanIsClean
  BY DEF Tap8Inv
<1>4. QED
  BY <1>1, <1>2, <1>3, PTL DEF Spec

-----------------------------------------------------------------------------
(* The descrambler oracle, run_spike.py.                                   *)

(* A byte the descrambler puts out, by the word and the keys it comes      *)
(* from.                                                                   *)
Bytes == [word : Nat, rot : Nat, key3 : Nat, half : {"hi", "lo"}]

(* The words a window [Start, e) touches, and the bytes it plays.            *)
WordsOf(c, e) == (e - Start(c) + 1) \div 2

(* The j-th byte of an uninterrupted window.                               *)
NthByte(c, j) ==
  Byte(c, c.sw + (j - 1) \div 2, (j - 1) \div 2, TRUE, IF j % 2 = 1 THEN "hi" ELSE "lo")

(* The window [Start, e): the last word gives one byte only.               *)
WindowOf(c, e) == [i \in 1..2 * WordsOf(c, e) - 1 |-> NthByte(c, i)]

(* What the bench collects of a case: the window, or its start up to the   *)
(* reload and the reloaded window.                                         *)
PlayedOf(c, cut) == IF c.reload = 0 THEN WindowOf(c, End(c))
                    ELSE SubSeq(WindowOf(c, End(c)), 1, cut) \o WindowOf(c, End2(c))

(* What the proof needs of a test case, from SpikeAssumption.              *)
LEMMA CaseIs ==
  ASSUME NEW c \in Cases
  PROVE  /\ c.words \in Nat \ {0} /\ c.sw \in Nat /\ c.odd \in {0, 1} /\ c.reload \in Nat
         /\ c.e2 \in Nat /\ c.kind \in {"case", "invariance"} /\ c.sbm \in BOOLEAN
         /\ c.kind = "invariance" => c.reload = 0
         /\ Start(c) \in Nat /\ End(c) \in Nat /\ End2(c) \in Nat
         /\ End(c) > Start(c) /\ End2(c) > Start(c)
         /\ c.reload <= 2 * WordsOf(c, End(c)) - 1
<1>1. /\ c.words \in Nat \ {0} /\ c.sw \in Nat /\ c.odd \in {0, 1} /\ c.reload \in Nat
      /\ c.e2 \in Nat /\ c.kind \in {"case", "invariance"} /\ c.sbm \in BOOLEAN
      /\ c.kind = "invariance" => c.reload = 0
      /\ c.reload > 0 => c.reload <= Slen(Start(c), End(c))
  <2>1. CASE c.kind = "case"
    <3>1. /\ c.words \in Lengths /\ c.sw \in StartWords /\ c.odd \in {0, 1}
          /\ c.reload \in 0..MaxReload /\ c.e2 \in Extended /\ c.reload <= Slen(Start(c), End(c))
      BY <2>1 DEF Cases
    <3>2. c.sbm \in BOOLEAN
      BY <2>1 DEF Cases
    <3>3. /\ c.words \in Nat \ {0} /\ c.sw \in Nat /\ c.e2 \in Nat /\ c.reload \in Nat
      <4>1. c.words \in Nat \ {0} /\ c.sw \in Nat /\ c.e2 \in Nat
        BY <3>1, SpikeAssumption, Zenon
      <4>2. c.reload \in Nat
        BY <3>1, SpikeAssumption
      <4>3. QED
        BY <4>1, <4>2
    <3>4. QED
      BY <2>1, <3>1, <3>2, <3>3, Zenon
  <2>2. CASE c.kind # "case"
    <3>1. /\ c.words \in Lengths /\ c.sw \in StartWords /\ c.odd = 0
          /\ c.reload = 0 /\ c.e2 = 0 /\ c.kind = "invariance"
      BY <2>2 DEF Cases
    <3>2. c.sbm \in BOOLEAN
      BY <2>2 DEF Cases
    <3>3. /\ c.words \in Nat \ {0} /\ c.sw \in Nat /\ c.e2 \in Nat /\ c.reload \in Nat /\ ~(c.reload > 0)
      <4>1. c.words \in Nat \ {0} /\ c.sw \in Nat
        BY <3>1, SpikeAssumption, Zenon
      <4>2. c.e2 \in Nat /\ c.reload \in Nat /\ ~(c.reload > 0)
        BY <3>1
      <4>3. QED
        BY <4>1, <4>2
    <3>4. QED
      BY <2>2, <3>1, <3>2, <3>3, Zenon
  <2>3. QED
    BY <2>1, <2>2
<1>2. /\ Start(c) \in Nat /\ End(c) \in Nat /\ End2(c) \in Nat
      /\ End(c) > Start(c) /\ End2(c) > Start(c)
  BY <1>1 DEF Start, End, End2
<1>3. c.reload <= 2 * WordsOf(c, End(c)) - 1
  BY <1>1, <1>2 DEF Slen, WordsOf
<1>4. QED
  BY <1>1, <1>2, <1>3

(* A window's words are those that begin before its end.                   *)
LEMMA WordsAre ==
  ASSUME NEW c \in Cases, NEW e \in Nat, e > Start(c)
  PROVE  /\ WordsOf(c, e) \in Nat \ {0}
         /\ \A k \in Nat : Start(c) + 2 * k < e <=> k < WordsOf(c, e)
BY CaseIs DEF WordsOf

(* Bytes of the window are bytes.                                          *)
LEMMA NthByteIs ==
  ASSUME NEW c \in Cases, NEW j \in Nat \ {0}
  PROVE  NthByte(c, j) \in Bytes
<1>1. c.sw + (j - 1) \div 2 \in Nat /\ (j - 1) \div 2 \in Nat
  BY CaseIs
<1>2. (IF c.sbm THEN 0 ELSE (j - 1) \div 2) \in Nat
  BY <1>1
<1>3. (IF j % 2 = 1 THEN "hi" ELSE "lo") \in {"hi", "lo"}
  OBVIOUS
<1>4. QED
  BY <1>1, <1>2, <1>3 DEF NthByte, Byte, Bytes

(* The window is a sequence of them.                                       *)
LEMMA WindowOfIs ==
  ASSUME NEW c \in Cases, NEW e \in Nat, e > Start(c)
  PROVE  /\ WindowOf(c, e) \in Seq(Bytes)
         /\ Len(WindowOf(c, e)) = 2 * WordsOf(c, e) - 1
         /\ \A j \in 1..2 * WordsOf(c, e) - 1 : WindowOf(c, e)[j] = NthByte(c, j)
<1> DEFINE n == 2 * WordsOf(c, e) - 1
<1>1. n \in Nat
  BY WordsAre
<1>2. \A j \in 1..n : NthByte(c, j) \in Bytes
  BY <1>1, NthByteIs
<1> HIDE DEF n
<1>3. [i \in 1..n |-> NthByte(c, i)] \in [1..n -> Bytes]
  BY <1>2
<1>4. [i \in 1..n |-> NthByte(c, i)] \in Seq(Bytes)
  BY <1>1, <1>3, SeqDef
<1>5. Len([i \in 1..n |-> NthByte(c, i)]) = n
  BY <1>1, <1>4, LenProperties
<1>6. QED
  BY <1>4, <1>5 DEF WindowOf, n

(* The window of the property is that one.                                 *)
WindowBytes(c, e) ==
  LET n == 2 * Cardinality({ w \in 0..e : 2 * w >= Start(c) /\ 2 * w < e }) - 1
  IN [i \in 1..n |-> LET k == (i - 1) \div 2
                     IN Byte(c, c.sw + k, k, TRUE, IF i % 2 = 1 THEN "hi" ELSE "lo")]

(* So is the property's whole output.                                      *)
PlayedBytes(c, cut) == IF c.reload = 0 THEN WindowBytes(c, End(c))
                       ELSE SubSeq(WindowBytes(c, End(c)), 1, cut) \o WindowBytes(c, End2(c))

(* The two definitions of a window agree.                                  *)
LEMMA WindowIs ==
  ASSUME NEW c \in Cases, NEW e \in Nat, e > Start(c)
  PROVE  WindowBytes(c, e) = WindowOf(c, e)
<1> DEFINE ws == { w \in 0..e : 2 * w >= Start(c) /\ 2 * w < e }
           N == WordsOf(c, e)
<1>1. c.sw \in Nat /\ Start(c) = 2 * c.sw
  BY CaseIs DEF Start
<1>2. N \in Nat \ {0} /\ N = (e - 2 * c.sw + 1) \div 2
  BY <1>1, WordsAre DEF WordsOf
<1>3. ws = c.sw .. c.sw + N - 1
  BY <1>1, <1>2
<1>4. Cardinality(ws) = N
  <2> HIDE DEF ws, N
  <2>1. c.sw \in Int /\ c.sw + N - 1 \in Int /\ ~(c.sw > c.sw + N - 1)
    BY <1>1, <1>2
  <2>2. Cardinality(c.sw .. c.sw + N - 1) = (c.sw + N - 1) - c.sw + 1
    BY <2>1, FS_Interval
  <2>3. (c.sw + N - 1) - c.sw + 1 = N
    BY <1>1, <1>2
  <2>4. QED
    BY <1>3, <2>2, <2>3
<1> HIDE DEF ws, N
<1>5. WindowBytes(c, e) = [i \in 1..2 * Cardinality(ws) - 1 |-> NthByte(c, i)]
  BY DEF WindowBytes, NthByte, ws
<1>6. QED
  BY <1>4, <1>5 DEF WindowOf, N

(* And those of the output.                                                *)
LEMMA PlayedIs ==
  ASSUME NEW c \in Cases, NEW cut
  PROVE  PlayedBytes(c, cut) = PlayedOf(c, cut)
BY CaseIs, WindowIs DEF PlayedBytes, PlayedOf

(* A file with the bytes of the first window up to the cut and of the      *)
(* second behind it is the output of the case.                             *)
LEMMA PlayedOfIs ==
  ASSUME NEW c \in Cases, NEW cut \in Nat, cut <= 2 * WordsOf(c, End(c)) - 1, NEW f \in Seq(Bytes),
         c.reload = 0 => cut = 0,
         Len(f) = cut + 2 * WordsOf(c, IF c.reload = 0 THEN End(c) ELSE End2(c)) - 1,
         \A j \in 1..cut : f[j] = NthByte(c, j),
         \A j \in 1..Len(f) - cut : f[cut + j] = NthByte(c, j)
  PROVE  f = PlayedOf(c, cut)
<1> DEFINE e == IF c.reload = 0 THEN End(c) ELSE End2(c)
           w == WindowOf(c, e)
           v == WindowOf(c, End(c))
<1>1. End(c) \in Nat /\ End(c) > Start(c) /\ e \in Nat /\ e > Start(c)
  BY CaseIs
<1>2. /\ w \in Seq(Bytes) /\ Len(w) = 2 * WordsOf(c, e) - 1 /\ Len(w) \in Nat
      /\ \A j \in 1..Len(w) : w[j] = NthByte(c, j)
  <2> HIDE DEF e
  <2> QED
    BY <1>1, WindowOfIs, LenProperties
<1>3. /\ v \in Seq(Bytes) /\ Len(v) = 2 * WordsOf(c, End(c)) - 1
      /\ \A j \in 1..Len(v) : v[j] = NthByte(c, j)
  BY <1>1, WindowOfIs
<1>4. Len(f) = cut + Len(w)
  BY <1>2
<1>5. CASE c.reload = 0
  <2>1. PlayedOf(c, cut) = w /\ cut = 0
    BY <1>5 DEF PlayedOf
  <2>2. \A j \in 1..Len(f) : f[j] = w[j]
    <3> HIDE DEF w
    <3> QED
      BY <1>2, <1>4, <2>1
  <2>3. QED
    <3> HIDE DEF w
    <3> QED
      BY <1>2, <1>4, <2>1, <2>2, SeqEqual
<1>6. CASE c.reload # 0
  <2> DEFINE u == SubSeq(v, 1, cut)
  <2>1. PlayedOf(c, cut) = u \o w
    BY <1>6 DEF PlayedOf
  <2> HIDE DEF w, v, e
  <2>2. \A j \in 1..cut : v[j] \in Bytes /\ v[j] = NthByte(c, j)
    BY <1>3, ElementOfSeq
  <2>3. u \in Seq(Bytes) /\ Len(u) = cut /\ \A j \in 1..cut : u[j] = NthByte(c, j)
    BY <2>2, SubSeqProperties
  <2> HIDE DEF u
  <2>4. /\ u \o w \in Seq(Bytes) /\ Len(u \o w) = cut + Len(w)
        /\ \A j \in 1..cut + Len(w) : (u \o w)[j] = IF j <= cut THEN u[j] ELSE w[j - cut]
    BY <1>2, <2>3, ConcatProperties
  <2>5. ASSUME NEW j \in 1..Len(f)
        PROVE  f[j] = (u \o w)[j]
    <3>1. CASE j <= cut
      <4>1. j \in 1..cut /\ j \in 1..cut + Len(w)
        BY <3>1, <1>2, <1>4
      <4>2. u[j] = NthByte(c, j) /\ f[j] = NthByte(c, j) /\ (u \o w)[j] = u[j]
        BY <3>1, <4>1, <2>3, <2>4
      <4>3. QED
        BY <4>2
    <3>2. CASE j > cut
      <4>1. j - cut \in 1..Len(w) /\ j = cut + (j - cut)
        BY <3>2, <1>2, <1>4
      <4>2. f[cut + (j - cut)] = NthByte(c, j - cut)
        BY <4>1, <1>4, <1>2
      <4>3. w[j - cut] = NthByte(c, j - cut)
        BY <4>1, <1>2
      <4>4. (u \o w)[j] = w[j - cut]
        BY <3>2, <2>4, <1>4, <1>2
      <4>5. QED
        BY <4>1, <4>2, <4>3, <4>4
    <3>3. j <= cut \/ j > cut
      OBVIOUS
    <3>4. QED
      BY <3>1, <3>2, <3>3, Zenon
  <2>6. QED
    BY <1>4, <2>1, <2>4, <2>5, SeqEqual
<1>7. QED
  BY <1>5, <1>6

-----------------------------------------------------------------------------
(* The streamer runs only while the bench is in one of these phases.       *)
Live == {"stream", "held", "reloaded"}

(* The state of the bench.                                                 *)
Tbs == [phase : Live \cup {"reference", "compared", "timeout"}, cut : Nat, files : Seq(Seq(Bytes))]

(* The state of the streamer and of the descrambler behind it.             *)
Fabs == [state : {"LOAD", "ADDR", "REQ", "STB", "HI", "LO", "IDLE"}, cur : Nat, end : Nat,
         rot : Nat, dw : Nat \X Nat, out : Seq(Bytes)]

(* The streamer f has finished k of the n words of its window since the bench *)
(* last cut its output, and may be inside the next one; it has sent m bytes. *)
AtWord(c, f, n, k) ==
  /\ f.cur = Start(c) + 2 * k /\ k <= n
  /\ f.state = "LOAD" => k = 0
  /\ f.state \in {"LOAD", "REQ", "STB", "HI", "LO"} => k < n
  /\ f.state = "IDLE" => k = n

(* The keys are those of the word under way.                               *)
AtKeys(c, f, k) ==
  /\ f.state \in {"ADDR", "REQ", "STB"} => f.rot = k
  /\ f.state \in {"HI", "LO"} => f.rot = k + 1 /\ f.dw = <<c.sw + k, k>>

(* The bytes sent, by the half that comes next; the last word sends one.   *)
AtByte(f, n, k, m) ==
  /\ f.state = "LO" => m = 2 * k + 1
  /\ f.state # "LO" => m = IF k < n THEN 2 * k ELSE 2 * n - 1

(* All of that, for the word with number k.                                *)
AtStep(c, t, f, k) ==
  /\ AtWord(c, f, WordsOf(c, f.end), k)
  /\ AtKeys(c, f, k)
  /\ AtByte(f, WordsOf(c, f.end), k, Len(f.out) - t.cut)
  /\ Len(f.out) >= t.cut

(* What it has sent is the start of the window, before the cut and after it.  *)
Placed(c, t, out) ==
  /\ \A j \in 1..t.cut : out[j] = NthByte(c, j)
  /\ \A j \in 1..Len(out) - t.cut : out[t.cut + j] = NthByte(c, j)

(* The end of the window under way.                                        *)
EndOf(c, t) == IF t.cut = 0 THEN End(c) ELSE End2(c)

(* The streamer is somewhere in its window, and what it has sent is right. *)
Streams(c, t, f) ==
  /\ f \in Fabs /\ f.end = EndOf(c, t)
  /\ \E k \in Nat : AtStep(c, t, f, k)
  /\ Placed(c, t, f.out)

(* The cut falls at the reload's count or one byte late, in the first window. *)
Cut(c, t) ==
  t.cut > 0 => /\ t.cut \in c.reload..c.reload + 1
               /\ t.cut <= 2 * WordsOf(c, End(c)) - 1
               /\ c.reload > 0

(* The bench reloads within a byte of the count it waits for.              *)
Holds(c, t, out) ==
  /\ c.reload > 0 /\ t.cut = 0 => Len(out) <= c.reload + 1
  /\ t.phase = "held" => t.cut = 0 /\ c.reload > 0 /\ Len(out) >= c.reload
  /\ t.phase = "reloaded" => t.cut > 0

(* Every file collected is the output of the case.                         *)
Filed(c, t) ==
  /\ \A i \in 1..Len(t.files) : t.files[i] = PlayedOf(c, t.cut)
  /\ c.reload > 0 /\ t.phase \in Live => t.files = <<>>
  /\ t.phase \in {"reference", "compared"} => t.files # <<>> /\ (c.reload > 0 => t.cut > 0)

(* The inductive invariant of the bench.                                   *)
SpikeInv ==
  \/ tb.phase = "idle"
  \/ /\ case \in Cases /\ tb \in Tbs /\ Cut(case, tb) /\ Filed(case, tb)
     /\ tb.phase \in Live => Streams(case, tb, fab) /\ Holds(case, tb, fab.out)
     /\ VerdictIsTrue

(* Windows are not empty.                                                  *)
LEMMA EndIs ==
  ASSUME NEW c \in Cases, NEW t \in Tbs
  PROVE  EndOf(c, t) \in Nat /\ EndOf(c, t) > Start(c)
BY CaseIs DEF EndOf

(* The streamer's comparison with the end address counts words.            *)
LEMMA Behind ==
  ASSUME NEW c \in Cases, NEW t \in Tbs, NEW f, Streams(c, t, f), NEW k \in Nat, AtStep(c, t, f, k)
  PROVE  /\ WordsOf(c, f.end) \in Nat \ {0}
         /\ f.cur < f.end <=> k < WordsOf(c, f.end)
         /\ f.cur + 2 >= f.end <=> ~(k + 1 < WordsOf(c, f.end))
<1>1. f.end \in Nat /\ f.end > Start(c) /\ Start(c) \in Nat
  BY EndIs, CaseIs DEF Streams
<1>2. f.cur = Start(c) + 2 * k
  BY DEF AtStep, AtWord
<1>3. k + 1 \in Nat /\ f.cur + 2 = Start(c) + 2 * (k + 1)
  BY <1>1, <1>2
<1>4. WordsOf(c, f.end) \in Nat \ {0} /\ (Start(c) + 2 * k < f.end <=> k < WordsOf(c, f.end))
  BY <1>1, WordsAre
<1>5. Start(c) + 2 * (k + 1) < f.end <=> k + 1 < WordsOf(c, f.end)
  BY <1>1, <1>3, WordsAre
<1>6. QED
  BY <1>1, <1>2, <1>3, <1>4, <1>5

(* Which byte the halves of word k are.                                    *)
LEMMA NthByteOf ==
  ASSUME NEW c, NEW j, NEW k, NEW h, (j - 1) \div 2 = k, (IF j % 2 = 1 THEN "hi" ELSE "lo") = h
  PROVE  NthByte(c, j) = Byte(c, c.sw + k, k, TRUE, h)
BY Zenon DEF NthByte

(* The high half is sent first.                                            *)
LEMMA HalvesAre ==
  ASSUME NEW c, NEW k \in Nat
  PROVE  /\ Byte(c, c.sw + k, k, TRUE, "hi") = NthByte(c, 2 * k + 1)
         /\ Byte(c, c.sw + k, k, TRUE, "lo") = NthByte(c, 2 * k + 2)
<1>1. PICK i, j \in Nat : i = 2 * k + 1 /\ j = 2 * k + 2
  OBVIOUS
<1>2. (i - 1) \div 2 = k /\ (IF i % 2 = 1 THEN "hi" ELSE "lo") = "hi"
  BY <1>1
<1>3. (j - 1) \div 2 = k /\ (IF j % 2 = 1 THEN "hi" ELSE "lo") = "lo"
  BY <1>1
<1>4. NthByte(c, i) = Byte(c, c.sw + k, k, TRUE, "hi") /\ NthByte(c, j) = Byte(c, c.sw + k, k, TRUE, "lo")
  BY <1>2, <1>3, NthByteOf, Zenon
<1>5. QED
  BY <1>1, <1>4, Zenon

(* One byte more keeps what was sent right.                                *)
LEMMA SendsNext ==
  ASSUME NEW c \in Cases, NEW t \in Tbs, NEW out \in Seq(Bytes), NEW m \in Nat,
         Placed(c, t, out), Len(out) = t.cut + m, NEW b, b = NthByte(c, m + 1)
  PROVE  /\ Append(out, b) \in Seq(Bytes) /\ Len(Append(out, b)) = t.cut + m + 1
         /\ Placed(c, t, Append(out, b))
<1>1. t.cut \in Nat
  BY DEF Tbs
<1>2. b \in Bytes
  BY NthByteIs
<1> DEFINE new == Append(out, b)
<1>3. /\ new \in Seq(Bytes) /\ Len(new) = Len(out) + 1
      /\ \A i \in 1..Len(out) : new[i] = out[i]
      /\ new[Len(out) + 1] = b
  BY <1>2, AppendProperties
<1> HIDE DEF new
<1>4. ASSUME NEW j \in 1..t.cut
      PROVE  new[j] = NthByte(c, j)
  <2>1. j \in 1..Len(out)
    BY <1>1
  <2>2. QED
    BY <2>1, <1>3 DEF Placed
<1>5. ASSUME NEW j \in 1..Len(new) - t.cut
      PROVE  new[t.cut + j] = NthByte(c, j)
  <2>1. CASE j = m + 1
    BY <2>1, <1>1, <1>3, SMTT(30)
  <2>2. CASE j # m + 1
    <3>0. Len(new) - t.cut = m + 1 /\ Len(out) - t.cut = m
      <4>1. Len(new) = t.cut + m + 1
        BY <1>3
      <4>2. QED
        BY <1>1, <4>1
    <3>1. j \in 1..Len(out) - t.cut /\ t.cut + j \in 1..Len(out)
      BY <2>2, <3>0, <1>1
    <3>2. QED
      BY <3>1, <1>3 DEF Placed
  <2>3. QED
    BY <2>1, <2>2
<1>6. Placed(c, t, new)
  BY <1>4, <1>5 DEF Placed
<1>7. QED
  BY <1>1, <1>3, <1>6 DEF new

(* The types of the streamer's fields.                                     *)
LEMMA FieldsAre ==
  ASSUME NEW f \in Fabs
  PROVE  /\ f.cur \in Nat /\ f.end \in Nat /\ f.rot \in Nat /\ f.dw \in Nat \X Nat /\ f.out \in Seq(Bytes)
         /\ f.state \in {"LOAD", "ADDR", "REQ", "STB", "HI", "LO", "IDLE"} /\ Len(f.out) \in Nat
<1>1. f.out \in Seq(Bytes)
  BY DEF Fabs
<1>2. Len(f.out) \in Nat
  BY <1>1, LenProperties
<1>3. QED
  BY <1>1, <1>2 DEF Fabs

(* A change of the streamer's state alone.                                 *)
LEMMA Moves ==
  ASSUME NEW f \in Fabs, NEW st \in {"LOAD", "ADDR", "REQ", "STB", "HI", "LO", "IDLE"}, NEW g,
         g = [f EXCEPT !.state = st]
  PROVE  /\ g \in Fabs /\ g.state = st /\ g.cur = f.cur /\ g.end = f.end /\ g.rot = f.rot
         /\ g.dw = f.dw /\ g.out = f.out
BY Zenon DEF Fabs

(* The reset of the keys at the start of a window.                         *)
LEMMA Loads ==
  ASSUME NEW f \in Fabs, NEW g, g = [f EXCEPT !.state = "ADDR", !.rot = 0]
  PROVE  /\ g \in Fabs /\ g.state = "ADDR" /\ g.cur = f.cur /\ g.end = f.end /\ g.rot = 0
         /\ g.out = f.out
<1>1. 0 \in Nat
  OBVIOUS
<1>2. QED
  BY <1>1, Zenon DEF Fabs

(* The steps that send nothing.                                            *)
Quiet(f, g) ==
  \/ f.state = "LOAD" /\ g = [f EXCEPT !.state = "ADDR", !.rot = 0]
  \/ f.state = "ADDR" /\ g = [f EXCEPT !.state = IF f.cur < f.end THEN "REQ" ELSE "IDLE"]
  \/ f.state = "REQ" /\ g = [f EXCEPT !.state = "STB"]
  \/ f.state = "STB" /\ g = [f EXCEPT !.state = "HI", !.dw = <<f.cur \div 2, f.rot>>, !.rot = @ + 1]
  \/ f.state = "LO" /\ f.cur + 2 >= f.end /\ g = [f EXCEPT !.state = "ADDR", !.cur = @ + 2]

(* A step that sends nothing stays in the window.                          *)
LEMMA StreamerQuiet ==
  ASSUME NEW c \in Cases, NEW t \in Tbs, NEW f, Streams(c, t, f), NEW g, Quiet(f, g)
  PROVE  Streams(c, t, g) /\ g.out = f.out
<1>1. PICK k \in Nat : AtStep(c, t, f, k)
  BY DEF Streams
<1> DEFINE n == WordsOf(c, f.end)
           m == Len(f.out) - t.cut
<1>2. /\ n \in Nat \ {0}
      /\ f.cur < f.end <=> k < n
      /\ f.cur + 2 >= f.end <=> ~(k + 1 < n)
  BY <1>1, Behind
<1>3. f \in Fabs /\ f.end = EndOf(c, t) /\ Placed(c, t, f.out) /\ t.cut \in Nat
  BY DEF Streams, Tbs
<1>4. AtWord(c, f, n, k) /\ AtKeys(c, f, k) /\ AtByte(f, n, k, m) /\ Len(f.out) >= t.cut
  BY <1>1 DEF AtStep
<1>5. c.sw \in Nat /\ Start(c) = 2 * c.sw
  BY CaseIs DEF Start
<1>6. f.cur \in Nat /\ f.rot \in Nat /\ m \in Int
  BY <1>3, FieldsAre
<1> HIDE DEF n
<1> HIDE DEF m
<1>7. ASSUME NEW l \in Nat, g \in Fabs, g.end = f.end, g.out = f.out,
             AtWord(c, g, n, l), AtKeys(c, g, l), AtByte(g, n, l, m)
      PROVE  Streams(c, t, g)
  <2>1. AtStep(c, t, g, l)
    BY <1>4, <1>7 DEF AtStep, n, m
  <2>2. QED
    BY <1>3, <1>7, <2>1 DEF Streams
<1>0. \/ f.state = "LOAD" /\ g = [f EXCEPT !.state = "ADDR", !.rot = 0]
      \/ f.state = "ADDR" /\ g = [f EXCEPT !.state = IF f.cur < f.end THEN "REQ" ELSE "IDLE"]
      \/ f.state = "REQ" /\ g = [f EXCEPT !.state = "STB"]
      \/ f.state = "STB" /\ g = [f EXCEPT !.state = "HI", !.dw = <<f.cur \div 2, f.rot>>, !.rot = @ + 1]
      \/ f.state = "LO" /\ f.cur + 2 >= f.end /\ g = [f EXCEPT !.state = "ADDR", !.cur = @ + 2]
  BY DEF Quiet
<1>8. CASE f.state = "LOAD"
  <2>1. g \in Fabs /\ g.state = "ADDR" /\ g.cur = f.cur /\ g.end = f.end /\ g.rot = 0 /\ g.out = f.out
    BY <1>0, <1>3, <1>8, Loads
  <2>2. k = 0 /\ k < n
    BY <1>4, <1>8 DEF AtWord
  <2>3. AtWord(c, g, n, k)
    BY <1>4, <2>1, <2>2 DEF AtWord
  <2>4. AtKeys(c, g, k)
    BY <2>1, <2>2 DEF AtKeys
  <2>5. AtByte(g, n, k, m)
    BY <1>4, <1>8, <2>1 DEF AtByte
  <2>6. QED
    BY <1>7, <2>1, <2>3, <2>4, <2>5
<1>9. CASE f.state = "ADDR"
  <2> DEFINE st == IF f.cur < f.end THEN "REQ" ELSE "IDLE"
  <2>0. st \in {"REQ", "IDLE"} /\ (st = "REQ" <=> k < n)
    BY <1>2
  <2>1. g \in Fabs /\ g.cur = f.cur /\ g.end = f.end /\ g.rot = f.rot /\ g.out = f.out /\ g.state = st
    <3>1. g = [f EXCEPT !.state = st]
      BY <1>0, <1>9
    <3> HIDE DEF st
    <3>2. QED
      BY <1>3, <2>0, <3>1, Moves
  <2> HIDE DEF st
  <2>2. AtWord(c, g, n, k)
    <3>1. f.cur = Start(c) + 2 * k /\ k <= n
      BY <1>4 DEF AtWord
    <3>2. k < n \/ k = n
      BY <1>2, <3>1
    <3>3. QED
      BY <2>0, <2>1, <3>1, <3>2 DEF AtWord
  <2>3. g.state = "REQ" \/ g.state = "IDLE"
    BY <2>0, <2>1
  <2>4. AtKeys(c, g, k)
    BY <1>4, <1>9, <2>1, <2>3 DEF AtKeys
  <2>5. AtByte(g, n, k, m)
    BY <1>4, <1>9, <2>1, <2>3 DEF AtByte
  <2>6. QED
    BY <1>7, <2>1, <2>2, <2>4, <2>5
<1>10. CASE f.state = "REQ"
  <2>1. g \in Fabs /\ g.state = "STB" /\ g.cur = f.cur /\ g.end = f.end /\ g.rot = f.rot /\ g.out = f.out
    BY <1>0, <1>3, <1>10 DEF Fabs
  <2>2. AtWord(c, g, n, k)
    BY <1>4, <1>10, <2>1 DEF AtWord
  <2>3. AtKeys(c, g, k)
    BY <1>4, <1>10, <2>1 DEF AtKeys
  <2>4. AtByte(g, n, k, m)
    BY <1>4, <1>10, <2>1 DEF AtByte
  <2>5. QED
    BY <1>7, <2>1, <2>2, <2>3, <2>4
<1>11. CASE f.state = "STB"
  <2>1. f.rot = k /\ f.cur = 2 * c.sw + 2 * k
    BY <1>4, <1>5, <1>11 DEF AtKeys, AtWord
  <2>2. (2 * c.sw + 2 * k) \div 2 = c.sw + k
    BY <1>5
  <2>3. (f.cur \div 2) = c.sw + k
    BY <2>1, <2>2
  <2>4. g = [f EXCEPT !.state = "HI", !.dw = <<c.sw + k, k>>, !.rot = k + 1]
    BY <1>0, <1>11, <2>1, <2>3
  <2>5. <<c.sw + k, k>> \in Nat \X Nat /\ k + 1 \in Nat
    BY <1>5
  <2>6. /\ g \in Fabs /\ g.state = "HI" /\ g.cur = f.cur /\ g.end = f.end /\ g.rot = k + 1
        /\ g.dw = <<c.sw + k, k>> /\ g.out = f.out
    BY <1>3, <2>4, <2>5, Zenon DEF Fabs
  <2>7. AtWord(c, g, n, k)
    BY <1>4, <1>11, <2>6 DEF AtWord
  <2>8. AtKeys(c, g, k)
    BY <2>6 DEF AtKeys
  <2>9. AtByte(g, n, k, m)
    BY <1>4, <1>11, <2>6 DEF AtByte
  <2>10. QED
    BY <1>7, <2>6, <2>7, <2>8, <2>9
<1>12. CASE f.state = "LO"
  <2>1. f.cur + 2 \in Nat
    BY <1>6
  <2>2. g \in Fabs /\ g.state = "ADDR" /\ g.cur = f.cur + 2 /\ g.end = f.end /\ g.rot = f.rot /\ g.out = f.out
    BY <1>0, <1>3, <1>12, <2>1 DEF Fabs
  <2>3. k + 1 \in Nat /\ k + 1 = n
    BY <1>0, <1>2, <1>4, <1>12 DEF AtWord
  <2>4. AtWord(c, g, n, k + 1)
    <3>1. g.cur = Start(c) + 2 * (k + 1)
      BY <1>4, <1>5, <2>2 DEF AtWord
    <3>2. QED
      BY <2>2, <2>3, <3>1 DEF AtWord
  <2>5. AtKeys(c, g, k + 1)
    BY <1>4, <1>12, <2>2 DEF AtKeys
  <2>6. AtByte(g, n, k + 1, m)
    BY <1>4, <1>12, <2>2, <2>3 DEF AtByte
  <2>7. QED
    BY <1>7, <2>2, <2>3, <2>4, <2>5, <2>6
<1>13. QED
  BY <1>0, <1>8, <1>9, <1>10, <1>11, <1>12

(* The steps that send a byte.                                             *)
LEMMA StreamerSends ==
  ASSUME NEW c \in Cases, NEW t \in Tbs, NEW f, Streams(c, t, f), NEW g,
         \/ /\ f.state = "HI"
            /\ g = [f EXCEPT !.state = "LO", !.out = Append(f.out, Byte(c, f.dw[1], f.dw[2], TRUE, "hi"))]
         \/ /\ f.state = "LO" /\ ~(f.cur + 2 >= f.end)
            /\ g = [f EXCEPT !.state = "ADDR", !.cur = @ + 2,
                             !.out = Append(f.out, Byte(c, f.dw[1], f.dw[2], TRUE, "lo"))]
  PROVE  Streams(c, t, g) /\ Len(g.out) = Len(f.out) + 1
<1>1. PICK k \in Nat : AtStep(c, t, f, k)
  BY DEF Streams
<1> DEFINE n == WordsOf(c, f.end)
           m == Len(f.out) - t.cut
<1>2. /\ n \in Nat \ {0}
      /\ f.cur < f.end <=> k < n
      /\ f.cur + 2 >= f.end <=> ~(k + 1 < n)
  BY <1>1, Behind
<1>3. f \in Fabs /\ f.end = EndOf(c, t) /\ Placed(c, t, f.out) /\ t.cut \in Nat
  BY DEF Streams, Tbs
<1>4. AtWord(c, f, n, k) /\ AtKeys(c, f, k) /\ AtByte(f, n, k, m) /\ Len(f.out) >= t.cut
  BY <1>1 DEF AtStep
<1>5. c.sw \in Nat /\ Start(c) = 2 * c.sw
  BY CaseIs DEF Start
<1>6. f.cur \in Nat /\ f.rot \in Nat /\ f.out \in Seq(Bytes) /\ Len(f.out) \in Nat /\ m \in Nat
      /\ Len(f.out) = t.cut + m
  BY <1>3, <1>4, FieldsAre
<1>7. f.dw[1] = c.sw + k /\ f.dw[2] = k /\ f.rot = k + 1 /\ k < n
  BY <1>4 DEF AtKeys, AtWord
<1> HIDE DEF n
<1> HIDE DEF m
<1>8. ASSUME NEW l \in Nat, NEW b, b = NthByte(c, m + 1),
             g \in Fabs, g.end = f.end, g.out = Append(f.out, b),
             AtWord(c, g, n, l), AtKeys(c, g, l), AtByte(g, n, l, m + 1)
      PROVE  Streams(c, t, g) /\ Len(g.out) = Len(f.out) + 1
  <2>1. Append(f.out, b) \in Seq(Bytes) /\ Len(Append(f.out, b)) = t.cut + m + 1
        /\ Placed(c, t, Append(f.out, b))
    BY <1>3, <1>6, <1>8, SendsNext, SMTT(30)
  <2>2. Len(g.out) - t.cut = m + 1 /\ Len(g.out) >= t.cut /\ Len(g.out) = Len(f.out) + 1
    BY <1>3, <1>6, <1>8, <2>1
  <2>3. AtStep(c, t, g, l)
    BY <1>8, <2>2 DEF AtStep, n
  <2>4. QED
    BY <1>3, <1>8, <2>1, <2>2, <2>3 DEF Streams
<1>9. ASSUME NEW b, b = NthByte(c, m + 1)
      PROVE  Append(f.out, b) \in Seq(Bytes)
  BY <1>3, <1>6, <1>9, SendsNext
<1>10. CASE f.state = "HI"
  <2> DEFINE b == Byte(c, f.dw[1], f.dw[2], TRUE, "hi")
  <2>1. m = 2 * k
    BY <1>4, <1>7, <1>10 DEF AtByte
  <2>2. b = NthByte(c, m + 1)
    BY <1>7, <2>1, HalvesAre
  <2>3. g = [f EXCEPT !.state = "LO", !.out = Append(f.out, b)]
    BY <1>10
  <2> HIDE DEF b
  <2>4. Append(f.out, b) \in Seq(Bytes)
    BY <1>9, <2>2
  <2>5. /\ g \in Fabs /\ g.state = "LO" /\ g.cur = f.cur /\ g.end = f.end /\ g.rot = f.rot /\ g.dw = f.dw
        /\ g.out = Append(f.out, b)
    BY <1>3, <2>3, <2>4 DEF Fabs
  <2>6. AtWord(c, g, n, k)
    BY <1>4, <1>10, <2>5 DEF AtWord
  <2>7. AtKeys(c, g, k)
    BY <1>4, <1>10, <2>5 DEF AtKeys
  <2>8. AtByte(g, n, k, m + 1)
    BY <2>1, <2>5 DEF AtByte
  <2>9. QED
    BY <1>8, <2>2, <2>5, <2>6, <2>7, <2>8
<1>11. CASE f.state = "LO"
  <2> DEFINE b == Byte(c, f.dw[1], f.dw[2], TRUE, "lo")
  <2>1. m = 2 * k + 1
    BY <1>4, <1>7, <1>11 DEF AtByte
  <2>2. b = NthByte(c, m + 1)
    <3>1. m + 1 = 2 * k + 2
      BY <2>1
    <3>2. Byte(c, c.sw + k, k, TRUE, "lo") = NthByte(c, 2 * k + 2)
      BY HalvesAre
    <3>3. b = Byte(c, c.sw + k, k, TRUE, "lo")
      BY <1>7
    <3>4. QED
      BY <3>1, <3>2, <3>3
  <2>3. g = [f EXCEPT !.state = "ADDR", !.cur = f.cur + 2, !.out = Append(f.out, b)]
    BY <1>11
  <2> HIDE DEF b
  <2>4. Append(f.out, b) \in Seq(Bytes) /\ f.cur + 2 \in Nat
    BY <1>6, <1>9, <2>2
  <2>5. /\ g \in Fabs /\ g.state = "ADDR" /\ g.cur = f.cur + 2 /\ g.end = f.end /\ g.rot = f.rot
        /\ g.out = Append(f.out, b)
    BY <1>3, <2>3, <2>4, Zenon DEF Fabs
  <2>6. k + 1 \in Nat /\ k + 1 < n /\ m + 1 = 2 * (k + 1)
    BY <1>2, <1>11, <2>1
  <2>7. AtWord(c, g, n, k + 1)
    <3>1. g.cur = Start(c) + 2 * (k + 1)
      BY <1>4, <1>5, <2>5, SMTT(30) DEF AtWord
    <3>2. k + 1 <= n
      BY <1>2, <2>6
    <3>3. QED
      BY <2>5, <3>1, <3>2 DEF AtWord
  <2>8. AtKeys(c, g, k + 1)
    BY <1>7, <2>5 DEF AtKeys
  <2>9. AtByte(g, n, k + 1, m + 1)
    BY <2>5, <2>6 DEF AtByte
  <2>10. QED
    BY <1>8, <2>2, <2>5, <2>6, <2>7, <2>8, <2>9
<1>12. QED
  BY <1>10, <1>11

-----------------------------------------------------------------------------
(* The bytes sent are never more than the window's.                        *)
LEMMA NoMore ==
  ASSUME NEW c \in Cases, NEW t \in Tbs, NEW f, Streams(c, t, f)
  PROVE  /\ Len(f.out) \in Nat /\ t.cut <= Len(f.out)
         /\ Len(f.out) - t.cut <= 2 * WordsOf(c, EndOf(c, t)) - 1
         /\ f.cur >= f.end => Len(f.out) - t.cut = 2 * WordsOf(c, EndOf(c, t)) - 1
<1>1. PICK k \in Nat : AtStep(c, t, f, k)
  BY DEF Streams
<1> DEFINE n == WordsOf(c, f.end)
<1>2. f \in Fabs /\ f.end = EndOf(c, t) /\ t.cut \in Nat
  BY DEF Streams, Tbs
<1>3. f.cur \in Nat /\ f.end \in Nat /\ Len(f.out) \in Nat
  BY <1>2, FieldsAre
<1>4. n \in Nat \ {0} /\ (f.cur < f.end <=> k < n)
  BY <1>1, Behind
<1>5. /\ k <= n
      /\ f.state = "LO" => k < n
      /\ AtByte(f, n, k, Len(f.out) - t.cut) /\ Len(f.out) >= t.cut
  BY <1>1 DEF AtStep, AtWord
<1> HIDE DEF n
<1>6. Len(f.out) - t.cut <= 2 * n - 1
  BY <1>2, <1>3, <1>4, <1>5 DEF AtByte
<1>7. f.cur >= f.end => Len(f.out) - t.cut = 2 * n - 1
  <2>1. ASSUME f.cur >= f.end PROVE ~(k < n)
    BY <1>3, <1>4, <2>1
  <2>2. QED
    BY <1>5, <2>1 DEF AtByte
<1>8. QED
  BY <1>2, <1>3, <1>5, <1>6, <1>7 DEF n

(* A freshly loaded streamer, its output cut at m bytes.                    *)
LEMMA Loaded ==
  ASSUME NEW c \in Cases, NEW t \in Tbs, NEW f \in Fabs,
         f.state = "LOAD", f.cur = Start(c), f.end = EndOf(c, t),
         Len(f.out) = t.cut, Placed(c, t, f.out)
  PROVE  Streams(c, t, f)
<1> DEFINE n == WordsOf(c, f.end)
<1>1. n \in Nat \ {0} /\ t.cut \in Nat /\ Start(c) \in Nat
  BY EndIs, WordsAre, CaseIs DEF Tbs
<1> HIDE DEF n
<1>2. AtWord(c, f, n, 0)
  BY <1>1 DEF AtWord
<1>3. AtKeys(c, f, 0)
  BY DEF AtKeys
<1>4. AtByte(f, n, 0, Len(f.out) - t.cut)
  BY <1>1 DEF AtByte
<1>5. AtStep(c, t, f, 0)
  BY <1>1, <1>2, <1>3, <1>4 DEF AtStep, n
<1>6. QED
  BY <1>5 DEF Streams

(* A reload starts the window again, with the output cut where it is.      *)
LEMMA ResetStreams ==
  ASSUME NEW c \in Cases, NEW t \in Tbs, t.cut = 0
  PROVE  Streams(c, t, Reset(c)) /\ Reset(c).out = << >>
<1>1. Start(c) \in Nat /\ End(c) \in Nat
  BY CaseIs
<1>2. << >> \in Seq(Bytes) /\ <<0, 0>> \in Nat \X Nat /\ Len(<< >>) = 0
  BY EmptySeq
<1>3. Reset(c) \in Fabs
  BY <1>1, <1>2 DEF Reset, Fabs
<1>4. /\ Reset(c).state = "LOAD" /\ Reset(c).cur = Start(c) /\ Reset(c).end = EndOf(c, t)
      /\ Reset(c).out = << >>
  BY DEF Reset, EndOf
<1>5. Placed(c, t, << >>)
  BY <1>2 DEF Placed
<1>6. QED
  BY <1>2, <1>3, <1>4, <1>5, Loaded

-----------------------------------------------------------------------------
(* The invariant holds when a case begins.                                 *)
LEMMA SpikeStart ==
  ASSUME SpikeIdle \/ SpikeInit
  PROVE  SpikeInv
<1>1. CASE SpikeIdle
  BY <1>1 DEF SpikeIdle, NoTb, SpikeInv
<1>2. CASE SpikeInit
  <2>1. case \in Cases /\ tb = [phase |-> "stream", cut |-> 0, files |-> << >>] /\ fab = Reset(case)
    BY <1>2 DEF SpikeInit
  <2>2. << >> \in Seq(Seq(Bytes)) /\ Len(<< >>) = 0
    BY EmptySeq
  <2>3. tb \in Tbs /\ tb.phase = "stream" /\ tb.cut = 0 /\ tb.files = << >>
    BY <2>1, <2>2 DEF Tbs, Live
  <2>4. Streams(case, tb, fab) /\ fab.out = << >>
    BY <2>1, <2>3, ResetStreams
  <2>5. Cut(case, tb)
    BY <2>3 DEF Cut
  <2>6. Filed(case, tb)
    BY <2>2, <2>3 DEF Filed
  <2>7. Holds(case, tb, fab.out)
    BY <2>1, <2>2, <2>3, <2>4, CaseIs DEF Holds
  <2>8. VerdictIsTrue
    BY <2>3 DEF VerdictIsTrue
  <2>9. QED
    BY <2>1, <2>3, <2>4, <2>5, <2>6, <2>7, <2>8 DEF SpikeInv
<1>3. QED
  BY <1>1, <1>2

(* The streamer's steps keep it.                                           *)
LEMMA SpikeStreamer ==
  ASSUME SpikeInv, Streamer
  PROVE  SpikeInv'
<1>1. tb.phase \in Live /\ tb.phase # "idle" /\ UNCHANGED <<case, tb>>
  BY DEF Streamer, Live
<1>2. /\ case \in Cases /\ tb \in Tbs /\ Cut(case, tb) /\ Filed(case, tb)
      /\ Streams(case, tb, fab) /\ Holds(case, tb, fab.out)
  BY <1>1 DEF SpikeInv
<1>3. \/ UNCHANGED fab.out /\ Streams(case, tb, fab')
      \/ Streams(case, tb, fab') /\ Len(fab'.out) = Len(fab.out) + 1 /\ SinkReady
  <2>1. CASE LoadKeys \/ Address \/ Answered \/ DecodeWord \/ DropLow
    <3>1. Quiet(fab, fab')
      BY <2>1, Zenon DEF LoadKeys, Address, Answered, DecodeWord, DropLow, LastWord, Quiet
    <3>2. Streams(case, tb, fab') /\ fab'.out = fab.out
      BY <1>2, <3>1, StreamerQuiet
    <3>3. QED
      BY <3>2
  <2>2. CASE EmitHigh \/ EmitLow
    <3>1. \/ /\ fab.state = "HI"
             /\ fab' = [fab EXCEPT !.state = "LO", !.out = Append(fab.out, Byte(case, fab.dw[1], fab.dw[2], TRUE, "hi"))]
          \/ /\ fab.state = "LO" /\ ~(fab.cur + 2 >= fab.end)
             /\ fab' = [fab EXCEPT !.state = "ADDR", !.cur = @ + 2,
                                   !.out = Append(fab.out, Byte(case, fab.dw[1], fab.dw[2], TRUE, "lo"))]
      BY <2>2 DEF EmitHigh, EmitLow, LastWord, Sent
    <3>2. Streams(case, tb, fab') /\ Len(fab'.out) = Len(fab.out) + 1
      BY <1>2, <3>1, StreamerSends
    <3>3. SinkReady
      BY <2>2 DEF EmitHigh, EmitLow
    <3>4. QED
      BY <3>2, <3>3
  <2>3. QED
    BY <2>1, <2>2 DEF Streamer
<1>4. Holds(case, tb, fab'.out)
  <2>1. CASE fab'.out = fab.out
    BY <1>2, <2>1
  <2>2. CASE Len(fab'.out) = Len(fab.out) + 1 /\ SinkReady
    <3>1. tb.phase = "stream" /\ (case.reload > 0 /\ tb.cut = 0 => Len(fab.out) <= case.reload)
      BY <2>2 DEF SinkReady
    <3>2. Len(fab.out) \in Nat /\ case.reload \in Nat
      BY <1>2, NoMore, CaseIs
    <3>3. case.reload > 0 /\ tb.cut = 0 => Len(fab'.out) <= case.reload + 1
      BY <2>2, <3>1, <3>2
    <3>4. QED
      BY <3>1, <3>3 DEF Holds
  <2>3. QED
    BY <1>3, <2>1, <2>2
<1>5. tb'.phase # "compared"
  BY <1>1 DEF Live
<1>6. VerdictIsTrue'
  BY <1>5 DEF VerdictIsTrue
<1>7. Streams(case, tb, fab')
  BY <1>3
<1>8. case' = case /\ tb' = tb
  BY <1>1
<1>9. /\ case' \in Cases /\ tb' \in Tbs /\ Cut(case', tb') /\ Filed(case', tb')
      /\ Streams(case', tb', fab') /\ Holds(case', tb', fab'.out)
  BY <1>2, <1>4, <1>7, <1>8
<1>10. QED
  BY <1>6, <1>9 DEF SpikeInv

(* So does holding the streamer,                                           *)
LEMMA SpikeHold ==
  ASSUME SpikeInv, HoldSink
  PROVE  SpikeInv'
<1>1. tb.phase = "stream" /\ ReloadDue /\ tb' = [tb EXCEPT !.phase = "held"] /\ case' = case /\ fab' = fab
  BY DEF HoldSink
<1>2. /\ case \in Cases /\ tb \in Tbs /\ Cut(case, tb) /\ Filed(case, tb)
      /\ Streams(case, tb, fab) /\ Holds(case, tb, fab.out)
  BY <1>1 DEF SpikeInv, Live
<1>3. tb' \in Tbs /\ tb'.phase = "held" /\ tb'.cut = tb.cut /\ tb'.files = tb.files
  BY <1>1, <1>2 DEF Tbs, Live
<1>4. Cut(case, tb')
  BY <1>2, <1>3 DEF Cut
<1>5. Filed(case, tb')
  BY <1>1, <1>2, <1>3 DEF Filed, Live
<1>6. Streams(case, tb', fab)
  BY <1>2, <1>3 DEF Streams, EndOf, AtStep, Placed
<1>7. Holds(case, tb', fab.out)
  BY <1>1, <1>2, <1>3 DEF Holds, ReloadDue
<1>8. VerdictIsTrue'
  BY <1>3 DEF VerdictIsTrue
<1>9. QED
  BY <1>1, <1>2, <1>3, <1>4, <1>5, <1>6, <1>7, <1>8 DEF SpikeInv

(* reloading it,                                                           *)
LEMMA SpikeReload ==
  ASSUME SpikeInv, Reload
  PROVE  SpikeInv'
<1>1. /\ tb.phase = "held" /\ case' = case
      /\ tb' = [tb EXCEPT !.phase = "reloaded", !.cut = Len(fab.out)]
      /\ fab' = [fab EXCEPT !.state = "LOAD", !.cur = Start(case), !.end = End2(case)]
  BY DEF Reload
<1>2. /\ case \in Cases /\ tb \in Tbs /\ Cut(case, tb) /\ Filed(case, tb)
      /\ Streams(case, tb, fab) /\ Holds(case, tb, fab.out)
  BY <1>1 DEF SpikeInv, Live
<1>3. tb.cut = 0 /\ case.reload > 0 /\ Len(fab.out) >= case.reload /\ Len(fab.out) <= case.reload + 1
  BY <1>1, <1>2 DEF Holds
<1>4. Len(fab.out) \in Nat /\ Len(fab.out) <= 2 * WordsOf(case, End(case)) - 1 /\ case.reload \in Nat
  BY <1>2, <1>3, NoMore, CaseIs DEF EndOf
<1>5. tb' \in Tbs /\ tb'.phase = "reloaded" /\ tb'.cut = Len(fab.out) /\ tb'.files = tb.files
  BY <1>1, <1>2, <1>4 DEF Tbs, Live
<1>6. tb'.cut > 0
  BY <1>3, <1>4, <1>5
<1>7. Cut(case, tb')
  BY <1>3, <1>4, <1>5 DEF Cut
<1>8. Filed(case, tb')
  <2>1. tb.files = << >>
    BY <1>1, <1>2, <1>3 DEF Filed, Live
  <2>2. Len(<< >>) = 0
    OBVIOUS
  <2>3. QED
    BY <1>5, <2>1, <2>2 DEF Filed
<1>9. Start(case) \in Nat /\ End2(case) \in Nat /\ fab \in Fabs
  BY <1>2, CaseIs DEF Streams
<1>10. /\ fab' \in Fabs /\ fab'.state = "LOAD" /\ fab'.cur = Start(case) /\ fab'.end = End2(case)
       /\ fab'.out = fab.out
  BY <1>1, <1>9, Zenon DEF Fabs
<1>11. EndOf(case, tb') = End2(case)
  BY <1>3, <1>4, <1>5 DEF EndOf
<1>12. Placed(case, tb', fab.out)
  <2>1. \A j \in 1..Len(fab.out) - tb.cut : fab.out[tb.cut + j] = NthByte(case, j)
    BY <1>2 DEF Streams, Placed
  <2>2. \A j \in 1..Len(fab.out) : fab.out[j] = NthByte(case, j)
    BY <1>3, <1>4, <2>1
  <2>3. QED
    BY <1>4, <1>5, <2>2 DEF Placed
<1>13. Streams(case, tb', fab')
  BY <1>2, <1>5, <1>10, <1>11, <1>12, Loaded, Zenon
<1>14. Holds(case, tb', fab.out)
  BY <1>5, <1>6 DEF Holds
<1>15. VerdictIsTrue'
  BY <1>5 DEF VerdictIsTrue
<1>16. QED
  BY <1>1, <1>2, <1>5, <1>7, <1>8, <1>10, <1>13, <1>14, <1>15 DEF SpikeInv

(* and letting it go.                                                      *)
LEMMA SpikeRelease ==
  ASSUME SpikeInv, ReleaseSink
  PROVE  SpikeInv'
<1>1. tb.phase = "reloaded" /\ tb' = [tb EXCEPT !.phase = "stream"] /\ case' = case /\ fab' = fab
  BY DEF ReleaseSink
<1>2. /\ case \in Cases /\ tb \in Tbs /\ Cut(case, tb) /\ Filed(case, tb)
      /\ Streams(case, tb, fab) /\ Holds(case, tb, fab.out)
  BY <1>1 DEF SpikeInv, Live
<1>3. tb' \in Tbs /\ tb'.phase = "stream" /\ tb'.cut = tb.cut /\ tb'.files = tb.files
  BY <1>1, <1>2 DEF Tbs, Live
<1>4. Cut(case, tb')
  BY <1>2, <1>3 DEF Cut
<1>5. Filed(case, tb')
  BY <1>1, <1>2, <1>3 DEF Filed, Live
<1>6. Streams(case, tb', fab)
  BY <1>2, <1>3 DEF Streams, EndOf, AtStep, Placed
<1>7. Holds(case, tb', fab.out)
  BY <1>1, <1>2, <1>3 DEF Holds
<1>8. VerdictIsTrue'
  BY <1>3 DEF VerdictIsTrue
<1>9. QED
  BY <1>1, <1>2, <1>3, <1>4, <1>5, <1>6, <1>7, <1>8 DEF SpikeInv

(* Parked, the file is all the board plays.                                *)
LEMMA ParkedFile ==
  ASSUME SpikeInv, Parked
  PROVE  /\ fab.out \in Seq(Bytes) /\ fab.out = PlayedOf(case, tb.cut)
         /\ case.reload > 0 => tb.cut > 0
<1>1. tb.phase = "stream" /\ ~ReloadDue /\ fab.cur >= fab.end
  BY DEF Parked
<1>2. /\ case \in Cases /\ tb \in Tbs /\ Cut(case, tb)
      /\ Streams(case, tb, fab) /\ Holds(case, tb, fab.out)
  BY <1>1 DEF SpikeInv, Live
<1>3. /\ Len(fab.out) \in Nat /\ tb.cut <= Len(fab.out)
      /\ Len(fab.out) - tb.cut = 2 * WordsOf(case, EndOf(case, tb)) - 1
  BY <1>1, <1>2, NoMore
<1>4. tb.cut \in Nat /\ case.reload \in Nat /\ case.reload <= 2 * WordsOf(case, End(case)) - 1
  BY <1>2, CaseIs DEF Tbs
<1>5. case.reload > 0 => tb.cut > 0
  <2>1. ASSUME case.reload > 0, tb.cut = 0
        PROVE  FALSE
    <3>1. Len(fab.out) >= case.reload
      BY <1>3, <1>4, <2>1 DEF EndOf
    <3>2. QED
      BY <1>1, <2>1, <3>1 DEF ReloadDue
  <2>2. QED
    BY <1>4, <2>1
<1>6. case.reload = 0 => tb.cut = 0
  BY <1>2, <1>4 DEF Cut
<1>7. tb.cut <= 2 * WordsOf(case, End(case)) - 1
  <2>1. WordsOf(case, End(case)) \in Nat \ {0}
    BY <1>2, CaseIs, WordsAre
  <2>2. QED
    BY <1>2, <1>4, <2>1 DEF Cut
<1>8. EndOf(case, tb) = IF case.reload = 0 THEN End(case) ELSE End2(case)
  BY <1>4, <1>5, <1>6 DEF EndOf
<1>9. EndOf(case, tb) \in Nat /\ WordsOf(case, EndOf(case, tb)) \in Nat
  BY <1>2, EndIs, WordsAre
<1>10. Len(fab.out) = tb.cut + 2 * WordsOf(case, IF case.reload = 0 THEN End(case) ELSE End2(case)) - 1
  <2>1. Len(fab.out) = tb.cut + 2 * WordsOf(case, EndOf(case, tb)) - 1
    BY <1>3, <1>4, <1>9
  <2>2. QED
    BY <1>8, <2>1
<1>11. fab.out \in Seq(Bytes) /\ Placed(case, tb, fab.out)
  BY <1>2 DEF Streams, Fabs
<1>12. fab.out = PlayedOf(case, tb.cut)
  BY <1>2, <1>4, <1>6, <1>7, <1>10, <1>11, PlayedOfIs DEF Placed
<1>13. QED
  BY <1>5, <1>11, <1>12

(* A streamer that has parked has sent the whole window.                   *)
LEMMA SpikeParked ==
  ASSUME SpikeInv, Parked
  PROVE  SpikeInv'
<1> DEFINE more == Append(tb.files, fab.out)
<1>1. tb.phase = "stream" /\ case' = case
  BY DEF Parked
<1>2. case \in Cases /\ tb \in Tbs /\ Cut(case, tb) /\ Filed(case, tb)
  BY <1>1 DEF SpikeInv
<1>3. /\ fab.out \in Seq(Bytes) /\ fab.out = PlayedOf(case, tb.cut)
      /\ case.reload > 0 => tb.cut > 0
  BY ParkedFile
<1>4. tb.files \in Seq(Seq(Bytes)) /\ tb.cut \in Nat /\ case.reload \in Nat
  BY <1>2, CaseIs DEF Tbs
<1>5. /\ more \in Seq(Seq(Bytes)) /\ more # << >> /\ Len(more) = Len(tb.files) + 1
      /\ \A i \in 1..Len(tb.files) : more[i] = tb.files[i]
      /\ more[Len(tb.files) + 1] = fab.out
      /\ Len(tb.files) \in Nat
  BY <1>3, <1>4, AppendProperties, LenProperties
<1>6. (\/ /\ case.kind = "invariance" /\ tb' = [tb EXCEPT !.files = more] /\ fab' = Reset(case))
      \/ tb' = [tb EXCEPT !.files = more, !.phase = "reference"]
  BY DEF Parked
<1> HIDE DEF more
<1>7. \A i \in 1..Len(more) : more[i] = PlayedOf(case, tb.cut)
  <2> SUFFICES ASSUME NEW i \in 1..Len(more)
               PROVE  more[i] = PlayedOf(case, tb.cut)
    OBVIOUS
  <2>1. i = Len(tb.files) + 1 \/ i \in 1..Len(tb.files)
    BY <1>5
  <2>2. QED
    BY <1>2, <1>3, <1>5, <2>1 DEF Filed
<1>8. /\ tb' \in Tbs /\ tb'.cut = tb.cut /\ tb'.files = more
      /\ tb'.phase \in {"stream", "reference"}
  BY <1>1, <1>2, <1>5, <1>6 DEF Tbs, Live
<1>9. Cut(case, tb')
  BY <1>2, <1>8 DEF Cut
<1>10. VerdictIsTrue'
  BY <1>8 DEF VerdictIsTrue
<1>11. CASE case.kind = "invariance" /\ tb' = [tb EXCEPT !.files = more] /\ fab' = Reset(case)
  <2>1. case.reload = 0 /\ tb.cut = 0
    BY <1>2, <1>4, <1>11, CaseIs DEF Cut
  <2>2. tb'.phase = "stream"
    BY <1>1, <1>2, <1>11 DEF Tbs
  <2>3. Streams(case, tb', fab') /\ fab'.out = << >>
    <3>1. tb' \in Tbs /\ tb'.cut = 0
      BY <1>8, <2>1
    <3>2. Streams(case, tb', Reset(case)) /\ Reset(case).out = << >>
      BY <1>2, <3>1, ResetStreams, Zenon
    <3>3. QED
      BY <1>11, <3>2
  <2>4. Filed(case, tb')
    BY <1>7, <1>8, <2>1, <2>2 DEF Filed
  <2>5. Holds(case, tb', fab'.out)
    BY <2>1, <2>2 DEF Holds
  <2>6. QED
    BY <1>1, <1>2, <1>8, <1>9, <1>10, <2>3, <2>4, <2>5 DEF SpikeInv
<1>12. CASE tb' = [tb EXCEPT !.files = more, !.phase = "reference"]
  <2>1. tb'.phase = "reference"
    BY <1>2, <1>12 DEF Tbs
  <2>2. Filed(case, tb')
    BY <1>3, <1>5, <1>7, <1>8, <2>1 DEF Filed, Live
  <2>3. QED
    BY <1>1, <1>2, <1>8, <1>9, <1>10, <2>1, <2>2 DEF SpikeInv, Live
<1>13. QED
  BY <1>6, <1>11, <1>12

(* A case that never parked is not compared.                               *)
LEMMA SpikeTimedOut ==
  ASSUME SpikeInv, TimedOut
  PROVE  SpikeInv'
<1>1. tb.phase = "stream" /\ tb' = [tb EXCEPT !.phase = "timeout"] /\ case' = case
  BY DEF TimedOut
<1>2. case \in Cases /\ tb \in Tbs /\ Cut(case, tb) /\ Filed(case, tb)
  BY <1>1 DEF SpikeInv
<1>3. tb' \in Tbs /\ tb'.phase = "timeout" /\ tb'.cut = tb.cut /\ tb'.files = tb.files
  BY <1>1, <1>2 DEF Tbs, Live
<1>4. Cut(case, tb') /\ Filed(case, tb')
  BY <1>2, <1>3 DEF Cut, Filed, Live
<1>5. VerdictIsTrue'
  BY <1>3 DEF VerdictIsTrue
<1>6. QED
  BY <1>1, <1>2, <1>3, <1>4, <1>5 DEF SpikeInv, Live

(* While the reference is asked for its bytes nothing is judged.           *)
LEMMA SpikeReference ==
  ASSUME SpikeInv, PullChunk \/ ReloadC
  PROVE  SpikeInv'
<1>1. tb.phase = "reference" /\ tb' = tb /\ case' = case
  BY DEF PullChunk, ReloadC
<1>2. case \in Cases /\ tb \in Tbs /\ Cut(case, tb) /\ Filed(case, tb)
  BY <1>1 DEF SpikeInv
<1>3. VerdictIsTrue'
  BY <1>1 DEF VerdictIsTrue
<1>4. QED
  BY <1>1, <1>2, <1>3 DEF SpikeInv, Live

(* The length of a case's output.                                          *)
LEMMA PlayedLength ==
  ASSUME NEW c \in Cases, NEW cut \in Nat, c.reload = 0 => cut = 0, cut <= 2 * WordsOf(c, End(c)) - 1
  PROVE  Len(PlayedOf(c, cut)) = IF c.reload > 0 THEN cut + Slen(Start(c), End2(c)) ELSE Slen(Start(c), End(c))
<1>1. /\ Start(c) \in Nat /\ End(c) \in Nat /\ End2(c) \in Nat /\ c.reload \in Nat
      /\ End(c) > Start(c) /\ End2(c) > Start(c)
  BY CaseIs
<1>2. /\ Slen(Start(c), End(c)) = 2 * WordsOf(c, End(c)) - 1
      /\ Slen(Start(c), End2(c)) = 2 * WordsOf(c, End2(c)) - 1
  BY <1>1 DEF Slen, WordsOf
<1> DEFINE v == WindowOf(c, End(c))
           w == WindowOf(c, End2(c))
<1>3. /\ v \in Seq(Bytes) /\ Len(v) = 2 * WordsOf(c, End(c)) - 1
      /\ w \in Seq(Bytes) /\ Len(w) = 2 * WordsOf(c, End2(c)) - 1
  BY <1>1, WindowOfIs
<1>4. CASE c.reload = 0
  BY <1>2, <1>3, <1>4 DEF PlayedOf
<1>5. CASE c.reload # 0
  <2> DEFINE u == SubSeq(v, 1, cut)
  <2>1. PlayedOf(c, cut) = u \o w
    BY <1>5 DEF PlayedOf
  <2> HIDE DEF v, w
  <2>2. \A j \in 1..cut : v[j] \in Bytes
    BY <1>3, ElementOfSeq
  <2>3. u \in Seq(Bytes) /\ Len(u) = cut
    BY <2>2, SubSeqProperties
  <2> HIDE DEF u
  <2>4. Len(u \o w) = cut + Len(w)
    BY <1>3, <2>3, ConcatProperties
  <2>5. c.reload > 0
    BY <1>1, <1>5
  <2>6. QED
    BY <1>2, <1>3, <2>1, <2>4, <2>5
<1>6. QED
  BY <1>4, <1>5

(* The comparison: the files are all the board plays, and as long as the      *)
(* harness expects, so the verdict says whether the reference is the same.    *)
LEMMA SpikeCompare ==
  ASSUME SpikeInv, CompareFiles
  PROVE  SpikeInv'
<1>1. /\ tb.phase = "reference" /\ tb' = [tb EXCEPT !.phase = "compared"]
      /\ case' = case /\ cref' = cref
      /\ spikeOk' = IF case.kind = "case" THEN CaseOk ELSE InvarianceOk
  BY DEF CompareFiles
<1>2. case \in Cases /\ tb \in Tbs /\ Cut(case, tb) /\ Filed(case, tb)
  BY <1>1 DEF SpikeInv
<1>3. tb' \in Tbs /\ tb'.phase = "compared" /\ tb'.cut = tb.cut /\ tb'.files = tb.files
  BY <1>1, <1>2 DEF Tbs, Live
<1>4. Cut(case, tb') /\ Filed(case, tb')
  BY <1>1, <1>2, <1>3 DEF Cut, Filed, Live
<1>5. /\ tb.files \in Seq(Seq(Bytes)) /\ tb.files # << >> /\ tb.cut \in Nat /\ Len(tb.files) \in Nat \ {0}
      /\ \A i \in 1..Len(tb.files) : tb.files[i] = PlayedOf(case, tb.cut)
  BY <1>1, <1>2, EmptySeq DEF Filed, Tbs
<1>6. tb.files[1] = PlayedOf(case, tb.cut)
  BY <1>5
<1>7. case.reload > 0 => tb.cut \in case.reload..(case.reload + 2)
  BY <1>1, <1>2, CaseIs DEF Filed, Cut
<1>8. Len(PlayedOf(case, tb.cut)) = Expected
  <2>1. tb.cut = 0 \/ tb.cut <= 2 * WordsOf(case, End(case)) - 1
    BY <1>2, <1>5 DEF Cut
  <2>2. tb.cut <= 2 * WordsOf(case, End(case)) - 1 /\ (case.reload = 0 => tb.cut = 0)
    <3>1. WordsOf(case, End(case)) \in Nat \ {0} /\ case.reload \in Nat
      BY <1>2, CaseIs, WordsAre
    <3>2. QED
      BY <1>2, <1>5, <2>1, <3>1 DEF Cut
  <2>3. QED
    BY <1>2, <1>5, <2>2, PlayedLength DEF Expected
<1>9. CaseOk <=> cref.out = PlayedOf(case, tb.cut)
  BY <1>6, <1>7, <1>8, Zenon DEF CaseOk
<1>10. InvarianceOk <=> cref.out = PlayedOf(case, tb.cut)
  <2>1. 1 \in 1..Len(tb.files)
    BY <1>5
  <2>2. QED
    BY <1>5, <2>1, Zenon DEF InvarianceOk
<1>11. spikeOk' <=> cref.out = PlayedOf(case, tb.cut)
  BY <1>1, <1>9, <1>10, Zenon
<1>12. case' \in Cases
  BY <1>1, <1>2
<1>13. Played' = PlayedOf(case', tb'.cut)
  <2>1. Played' = PlayedBytes(case', tb'.cut)
    BY DEF Played, PlayedBytes, Window, WindowBytes
  <2>2. PlayedBytes(case', tb'.cut) = PlayedOf(case', tb'.cut)
    BY <1>12, PlayedIs
  <2>3. QED
    BY <2>1, <2>2
<1>14. VerdictIsTrue'
  <2>1. Played' = PlayedOf(case, tb.cut)
    BY <1>1, <1>3, <1>13
  <2>2. QED
    BY <1>1, <1>11, <2>1, Zenon DEF VerdictIsTrue
<1>15. QED
  BY <1>1, <1>2, <1>3, <1>4, <1>14 DEF SpikeInv, Live

(* Every step keeps the invariant.                                         *)
LEMMA SpikeStep ==
  ASSUME SpikeInv, SpikeNext \/ UNCHANGED spikeVars
  PROVE  SpikeInv'
<1>1. CASE SpikeNext
  BY <1>1, SpikeStreamer, SpikeHold, SpikeReload, SpikeRelease, SpikeParked, SpikeTimedOut,
     SpikeReference, SpikeCompare DEF SpikeNext
<1>2. CASE UNCHANGED spikeVars
  <2>1. case' = case /\ tb' = tb /\ fab' = fab /\ cref' = cref /\ spikeOk' = spikeOk
    BY <1>2 DEF spikeVars
  <2>2. Played' = Played
    <3>1. Played' = PlayedBytes(case', tb'.cut)
      BY DEF Played, PlayedBytes, Window, WindowBytes
    <3>2. Played = PlayedBytes(case, tb.cut)
      BY DEF Played, PlayedBytes, Window, WindowBytes
    <3>3. QED
      BY <2>1, <3>1, <3>2
  <2>3. VerdictIsTrue => VerdictIsTrue'
    BY <2>1, <2>2 DEF VerdictIsTrue
  <2>4. QED
    BY <2>1, <2>3 DEF SpikeInv
<1>3. QED
  BY <1>1, <1>2

(* A case passes exactly when the C reference produced what the board      *)
(* plays: for every pacing of the sink and the memory, wherever the reload *)
(* fell, for every range of cases.                                         *)
THEOREM SpikeVerdict == Spec => []VerdictIsTrue
<1>1. Init => SpikeInv
  BY SpikeStart DEF Init
<1>2. SpikeInv /\ [Next]_vars => SpikeInv'
  BY SpikeStep DEF Next, vars
<1>3. SpikeInv => VerdictIsTrue
  BY DEF SpikeInv, VerdictIsTrue
<1>4. QED
  BY <1>1, <1>2, <1>3, PTL DEF Spec

-----------------------------------------------------------------------------
(* Lists: what FlattenSeq and Kept make.                                   *)

(* The functions defined step by step from their value at zero: there is one. *)
Iterates(n, D, d, step) ==
  {f \in [0..n -> D] : f[0] = d /\ \A i \in 1..n : f[i] = step[i][f[i - 1]]}

(* A function computed step by step exists: by the least number of steps   *)
(* at which one would not.                                                 *)
LEMMA StepByStep ==
  ASSUME NEW n \in Nat, NEW D, NEW d \in D, NEW step \in [1..n -> [D -> D]]
  PROVE  Iterates(n, D, d, step) # {}
<1> DEFINE Defined(m) == \E f \in [0..m -> D] : f[0] = d /\ \A i \in 1..m : f[i] = step[i][f[i - 1]]
           Bad == {m \in 0..n : ~Defined(m)}
<1>1. SUFFICES ASSUME ~Defined(n) PROVE FALSE
  BY DEF Iterates
<1>2. Bad \subseteq Nat /\ Bad # {}
  <2>1. n \in Bad
    BY <1>1
  <2>2. QED
    BY <2>1
<1>3. PICK t \in Bad : \A m \in Bad : t <= m
  BY <1>2, LeastExists
<1>4. t # 0
  <2> DEFINE h == [i \in 0..0 |-> d]
  <2>1. h \in [0..0 -> D] /\ h[0] = d /\ \A i \in 1..0 : h[i] = step[i][h[i - 1]]
    OBVIOUS
  <2> HIDE DEF h
  <2>2. Defined(0)
    BY <2>1
  <2>3. QED
    BY <2>2
<1>5. t - 1 \in 0..n /\ t \in 1..n
  BY <1>4
<1>6. Defined(t - 1)
  <2>1. t - 1 \notin Bad
    BY <1>3, <1>5
  <2> HIDE DEF Defined
  <2>2. QED
    BY <1>5, <2>1
<1>7. PICK f \in [0..t - 1 -> D] : f[0] = d /\ \A i \in 1..t - 1 : f[i] = step[i][f[i - 1]]
  BY <1>6
<1> DEFINE g == [i \in 0..t |-> IF i < t THEN f[i] ELSE step[t][f[t - 1]]]
<1>8. g \in [0..t -> D]
  <2>1. ASSUME NEW i \in 0..t PROVE g[i] \in D
    <3>1. CASE i < t
      BY <1>5, <1>7, <3>1
    <3>2. CASE i = t
      <4>1. t \in 1..n /\ f[t - 1] \in D
        BY <1>5, <1>7
      <4>2. step[t][f[t - 1]] \in D
        BY <4>1
      <4>3. QED
        BY <3>2, <4>2
    <3>3. QED
      BY <3>1, <3>2, <1>5
  <2>2. QED
    BY <2>1
<1>9. g[0] = d
  BY <1>5, <1>7
<1>10. ASSUME NEW i \in 1..t PROVE g[i] = step[i][g[i - 1]]
  <2>1. i - 1 \in 0..t - 1 /\ g[i - 1] = f[i - 1]
    BY <1>5
  <2>2. CASE i < t
    BY <1>5, <1>7, <2>1, <2>2
  <2>3. CASE i = t
    BY <1>5, <2>1, <2>3
  <2>4. QED
    BY <2>2, <2>3, <1>5
<1>11. Defined(t)
  <2> HIDE DEF g
  <2>1. QED
    BY <1>8, <1>9, <1>10
<1>12. QED
  BY <1>3, <1>11

(* What FlattenSeq makes: the first i sequences, one after the other.        *)
Joinings(S, ss) ==
  {f \in [0..Len(ss) -> Seq(S)] :
     /\ f[0] = <<>> /\ f[Len(ss)] = FlattenSeq(ss)
     /\ \A i \in 1..Len(ss) : f[i] = f[i - 1] \o ss[i]}

(* FlattenSeq joins its sequences one by one.                              *)
LEMMA FlattenIs ==
  ASSUME NEW S, NEW ss \in Seq(Seq(S))
  PROVE  Joinings(S, ss) # {}
<1> DEFINE n == Len(ss)
           step == [i \in 1..n |-> [s \in Seq(S) |-> s \o ss[i]]]
           Flat == CHOOSE h : h = [i \in 1..n |-> IF i = 1 THEN ss[i] ELSE h[i - 1] \o ss[i]]
<1>1. n \in Nat /\ \A i \in 1..n : ss[i] \in Seq(S)
  OBVIOUS
<1>2. step \in [1..n -> [Seq(S) -> Seq(S)]]
  <2>1. ASSUME NEW i \in 1..n, NEW s \in Seq(S) PROVE s \o ss[i] \in Seq(S)
    <3>1. ss[i] \in Seq(S)
      BY <1>1
    <3>2. QED
      BY <3>1, ConcatProperties
  <2>2. QED
    BY <2>1
<1>3. <<>> \in Seq(S)
  OBVIOUS
<1>4. PICK f \in [0..n -> Seq(S)] : f[0] = <<>> /\ \A i \in 1..n : f[i] = step[i][f[i - 1]]
  <2>1. Iterates(n, Seq(S), <<>>, step) # {}
    BY <1>1, <1>2, <1>3, StepByStep
  <2>2. QED
    BY <2>1, Zenon DEF Iterates
<1>5. ASSUME NEW i \in 1..n PROVE f[i] = f[i - 1] \o ss[i]
  <2>1. i - 1 \in 0..n
    BY <1>1
  <2>3. f[i - 1] \in Seq(S)
    BY <1>4, <2>1
  <2>2. QED
    BY <1>4, <2>3
<1>8. 1 \in 1..n => f[1] = ss[1]
  <2>1. SUFFICES ASSUME 1 \in 1..n PROVE f[1] = ss[1]
    OBVIOUS
  <2>2. f[1] = f[1 - 1] \o ss[1] /\ ss[1] \in Seq(S)
    BY <1>1, <1>5, <2>1
  <2>3. f[1 - 1] = <<>>
    BY <1>4
  <2>4. <<>> \o ss[1] = ss[1]
    BY <2>2
  <2>5. QED
    BY <2>2, <2>3, <2>4
<1>6. f[n] = FlattenSeq(ss)
  <2>1. CASE n = 0
    <3>1. ss = <<>>
      BY <2>1
    <3>2. QED
      BY <1>4, <2>1, <3>1 DEF FlattenSeq
  <2>2. CASE n # 0
    <3>1. FlattenSeq(ss) = Flat[n]
      BY <2>2, Zenon DEF FlattenSeq
    <3> DEFINE h == [i \in 1..n |-> f[i]]
    <3>2. h = [i \in 1..n |-> IF i = 1 THEN ss[i] ELSE h[i - 1] \o ss[i]]
      <4>1. ASSUME NEW i \in 1..n PROVE f[i] = IF i = 1 THEN ss[i] ELSE h[i - 1] \o ss[i]
        <5>1. CASE i = 1
          <6>1. f[1] = ss[1]
            BY <1>8, <5>1
          <6>2. QED
            BY <5>1, <6>1
        <5>2. CASE i # 1
          <6>1. i - 1 \in 1..n
            BY <5>2, <1>1
          <6>2. QED
            BY <1>5, <5>2, <6>1
        <5>3. QED
          BY <5>1, <5>2
      <4>2. QED
        BY <4>1
    <3>3. Flat = [i \in 1..n |-> IF i = 1 THEN ss[i] ELSE Flat[i - 1] \o ss[i]]
      <4> HIDE DEF h
      <4>1. QED
        BY <3>2, Zenon
    <3> HIDE DEF Flat
    <3>4. \A i \in 1..n : Flat[i] = f[i]
      <4> DEFINE Bad == {i \in 1..n : Flat[i] # f[i]}
      <4>1. SUFFICES ASSUME Bad # {} PROVE FALSE
        OBVIOUS
      <4>2. PICK t \in Bad : \A m \in Bad : t <= m
        <5>1. Bad \subseteq Nat
          OBVIOUS
        <5>2. QED
          BY <4>1, <5>1, LeastExists
      <4>3. Flat[t] = IF t = 1 THEN ss[t] ELSE Flat[t - 1] \o ss[t]
        <5>1. t \in 1..n
          OBVIOUS
        <5>2. QED
          BY <3>3, <5>1
      <4>4. CASE t = 1
        <5>1. f[1] = ss[1]
          BY <1>8, <4>4
        <5>2. QED
          BY <4>3, <4>4, <5>1
      <4>5. CASE t # 1
        <5>1. t \in 1..n /\ f[t] # Flat[t]
          OBVIOUS
        <5>2. t - 1 \in 1..n /\ ~(t <= t - 1)
          BY <4>5, <5>1, <1>1
        <5>3. Flat[t - 1] = f[t - 1]
          BY <4>2, <5>2
        <5>4. QED
          BY <1>5, <4>3, <4>5, <5>1, <5>3
      <4>6. QED
        BY <4>4, <4>5
    <3>5. QED
      BY <2>2, <3>1, <3>4, <1>1, SMTT(30)
  <2>3. QED
    BY <2>1, <2>2
<1>7. f \in Joinings(S, ss)
  BY <1>4, <1>5, <1>6, Zenon DEF Joinings
<1>9. QED
  BY <1>7

(* A set that holds zero and goes on from each number to the next.           *)
LEMMA CountsUp ==
  ASSUME NEW n \in Nat, NEW T, 0 \in T, \A i \in 1..n : i - 1 \in T => i \in T
  PROVE  0..n \subseteq T
<1> DEFINE Bad == {i \in 0..n : i \notin T}
<1>1. SUFFICES ASSUME Bad # {} PROVE FALSE
  OBVIOUS
<1>2. PICK t \in Bad : \A m \in Bad : t <= m
  <2>1. Bad \subseteq Nat
    OBVIOUS
  <2>2. QED
    BY <1>1, <2>1, LeastExists
<1>3. t \in 0..n /\ t \notin T /\ t # 0
  OBVIOUS
<1>4. t \in 1..n /\ t - 1 \in 0..n /\ ~(t <= t - 1)
  BY <1>3
<1>5. t - 1 \in T
  BY <1>2, <1>4
<1>6. QED
  BY <1>3, <1>4, <1>5

(* What Kept makes of the first i items.                                     *)
Keepings(X, s, S) ==
  {f \in [0..Len(s) -> Seq(X)] :
     /\ f[0] = <<>> /\ f[Len(s)] = Kept(s, S)
     /\ \A i \in 1..Len(s) : f[i] = IF s[i] \in S THEN Append(f[i - 1], s[i]) ELSE f[i - 1]}

(* Kept is computed item by item.                                          *)
LEMMA KeptIs ==
  ASSUME NEW X, NEW s \in Seq(X), NEW S
  PROVE  Keepings(X, s, S) # {}
<1> DEFINE n == Len(s)
           step == [i \in 1..n |-> [t \in Seq(X) |-> IF s[i] \in S THEN Append(t, s[i]) ELSE t]]
<1>1. n \in Nat /\ \A i \in 1..n : s[i] \in X
  OBVIOUS
<1>2. step \in [1..n -> [Seq(X) -> Seq(X)]]
  <2>1. ASSUME NEW i \in 1..n, NEW t \in Seq(X)
        PROVE  (IF s[i] \in S THEN Append(t, s[i]) ELSE t) \in Seq(X)
    <3>1. s[i] \in X
      BY <1>1
    <3>2. Append(t, s[i]) \in Seq(X)
      BY <3>1, AppendProperties
    <3>3. QED
      BY <3>2
  <2>2. QED
    BY <2>1
<1>3. <<>> \in Seq(X)
  OBVIOUS
<1>4. PICK f \in [0..n -> Seq(X)] : f[0] = <<>> /\ \A i \in 1..n : f[i] = step[i][f[i - 1]]
  <2>1. Iterates(n, Seq(X), <<>>, step) # {}
    BY <1>1, <1>2, <1>3, StepByStep
  <2>2. QED
    BY <2>1, Zenon DEF Iterates
<1>5. ASSUME NEW i \in 1..n
      PROVE  f[i] = IF s[i] \in S THEN Append(f[i - 1], s[i]) ELSE f[i - 1]
  <2>1. i - 1 \in 0..n
    BY <1>1
  <2>2. f[i - 1] \in Seq(X)
    BY <1>4, <2>1
  <2>3. QED
    BY <1>4, <2>2
<1> DEFINE K == CHOOSE h : h = [i \in 0..n |-> IF i = 0 THEN <<>>
                                ELSE IF s[i] \in S THEN Append(h[i - 1], s[i]) ELSE h[i - 1]]
<1>6. f = [i \in 0..n |-> IF i = 0 THEN <<>>
                          ELSE IF s[i] \in S THEN Append(f[i - 1], s[i]) ELSE f[i - 1]]
  <2>1. ASSUME NEW i \in 0..n
        PROVE  f[i] = IF i = 0 THEN <<>>
                      ELSE IF s[i] \in S THEN Append(f[i - 1], s[i]) ELSE f[i - 1]
    <3>1. CASE i = 0
      BY <1>4, <3>1
    <3>2. CASE i # 0
      <4>1. i \in 1..n
        BY <1>1, <3>2
      <4>2. QED
        BY <1>5, <3>2, <4>1
    <3>3. QED
      BY <3>1, <3>2
  <2>2. QED
    BY <1>4, <2>1
<1>7. K = [i \in 0..n |-> IF i = 0 THEN <<>>
                          ELSE IF s[i] \in S THEN Append(K[i - 1], s[i]) ELSE K[i - 1]]
  BY <1>6, Zenon
<1>8. Kept(s, S) = K[n]
  BY Zenon DEF Kept
<1> HIDE DEF K
<1>9. 0..n \subseteq {i \in 0..n : K[i] = f[i]}
  <2> DEFINE T == {i \in 0..n : K[i] = f[i]}
  <2>1. 0 \in T
    BY <1>1, <1>4, <1>7
  <2>2. ASSUME NEW i \in 1..n, i - 1 \in T PROVE i \in T
    <3>1. i \in 0..n /\ i # 0 /\ K[i - 1] = f[i - 1]
      BY <2>2, <1>1
    <3>2. K[i] = IF s[i] \in S THEN Append(K[i - 1], s[i]) ELSE K[i - 1]
      BY <1>7, <3>1
    <3>3. QED
      BY <1>5, <3>1, <3>2
  <2>3. QED
    <3> HIDE DEF T
    <3>1. 0..n \subseteq T
      BY <1>1, <2>1, <2>2, CountsUp
    <3>2. QED
      BY <3>1 DEF T
<1>10. f[n] = Kept(s, S)
  BY <1>1, <1>8, <1>9
<1>11. f \in Keepings(X, s, S)
  BY <1>4, <1>5, <1>10, Zenon DEF Keepings
<1>12. QED
  BY <1>11

(* The items kept are those of the set, in their order; all of them when the *)
(* set holds them all.                                                       *)
LEMMA KeptFacts ==
  ASSUME NEW X, NEW s \in Seq(X), NEW S
  PROVE  /\ Kept(s, S) \in Seq(X)
         /\ Range(Kept(s, S)) = Range(s) \cap S
         /\ \A i, j \in 1..Len(Kept(s, S)) : i < j =>
              \E p, q \in 1..Len(s) : p < q /\ s[p] = Kept(s, S)[i] /\ s[q] = Kept(s, S)[j]
         /\ Range(s) \subseteq S => Kept(s, S) = s
<1>1. PICK f \in [0..Len(s) -> Seq(X)] :
        /\ f[0] = <<>> /\ f[Len(s)] = Kept(s, S)
        /\ \A i \in 1..Len(s) : f[i] = IF s[i] \in S THEN Append(f[i - 1], s[i]) ELSE f[i - 1]
  <2>1. Keepings(X, s, S) # {}
    BY KeptIs
  <2>2. QED
    BY <2>1, Zenon DEF Keepings
<1> DEFINE n == Len(s)
<1>2. n \in Nat /\ \A i \in 1..n : s[i] \in X
  OBVIOUS
<1>3. \A k \in 0..n : f[k] \in Seq(X)
  BY <1>1
<1> DEFINE Within(k) == \A m \in 1..Len(f[k]) : \E p \in 1..k : s[p] = f[k][m] /\ s[p] \in S
           Whole(k) == \A p \in 1..k : s[p] \in S => \E m \in 1..Len(f[k]) : f[k][m] = s[p]
           Sorted(k) == \A i, j \in 1..Len(f[k]) : i < j =>
                          \E p, q \in 1..k : p < q /\ s[p] = f[k][i] /\ s[q] = f[k][j]
           Same(k) == Range(s) \subseteq S => Len(f[k]) = k /\ \A m \in 1..k : f[k][m] = s[m]
           Good == {k \in 0..n : Within(k) /\ Whole(k) /\ Sorted(k) /\ Same(k)}
<1>4. 0 \in Good
  <2>1. f[0] = <<>> /\ Len(f[0]) = 0
    BY <1>1
  <2>2. Within(0) /\ Whole(0) /\ Sorted(0) /\ Same(0)
    BY <2>1
  <2>3. QED
    BY <1>2, <2>2
<1>5. ASSUME NEW k \in 1..n, k - 1 \in Good PROVE k \in Good
  <2>1. k - 1 \in 0..n /\ k \in 0..n /\ k \in Nat /\ s[k] \in X
    BY <1>2
  <2>2. Within(k - 1) /\ Whole(k - 1) /\ Sorted(k - 1) /\ Same(k - 1)
    BY <1>5
  <2> DEFINE old == f[k - 1]
             L == Len(old)
  <2>3. old \in Seq(X) /\ L \in Nat
    BY <1>3, <2>1
  <2>4. CASE s[k] \notin S
    <3>1. f[k] = old
      BY <1>1, <2>4
    <3>2. k \in DOMAIN s
      BY <1>2
    <3>3. ~(Range(s) \subseteq S)
      BY <2>4, <3>2 DEF Range
    <3>4. Within(k) /\ Whole(k) /\ Sorted(k) /\ Same(k)
      <4>1. 1..k = (1..k - 1) \cup {k}
        BY <2>1
      <4> HIDE DEF old
      <4>2. Within(k)
        BY <2>2, <3>1, <4>1 DEF old
      <4>3. Whole(k)
        BY <2>2, <2>4, <3>1, <4>1 DEF old
      <4>4. Sorted(k)
        BY <2>2, <3>1, <4>1 DEF old
      <4>5. QED
        BY <3>3, <4>2, <4>3, <4>4
    <3>5. QED
      BY <2>1, <3>4
  <2>5. CASE s[k] \in S
    <3>1. f[k] = Append(old, s[k])
      BY <1>1, <2>5
    <3>2. /\ Len(f[k]) = L + 1 /\ f[k][L + 1] = s[k]
          /\ \A m \in 1..L : f[k][m] = old[m]
      BY <2>1, <2>3, <3>1, AppendProperties
    <3>3. 1..k = (1..k - 1) \cup {k} /\ 1..L + 1 = (1..L) \cup {L + 1}
      BY <2>1, <2>3
    <3>4. Within(k)
      <4>1. ASSUME NEW m \in 1..L + 1 PROVE \E p \in 1..k : s[p] = f[k][m] /\ s[p] \in S
        <5>1. CASE m = L + 1
          BY <2>5, <3>2, <5>1, <2>1
        <5>2. CASE m \in 1..L
          BY <2>2, <3>2, <3>3, <5>2
        <5>3. QED
          BY <3>3, <5>1, <5>2
      <4>2. QED
        BY <3>2, <4>1
    <3>5. Whole(k)
      <4>1. ASSUME NEW p \in 1..k, s[p] \in S PROVE \E m \in 1..L + 1 : f[k][m] = s[p]
        <5>1. CASE p = k
          BY <2>3, <3>2, <5>1
        <5>2. CASE p \in 1..k - 1
          <6>1. PICK m \in 1..L : old[m] = s[p]
            BY <2>2, <4>1, <5>2
          <6>2. QED
            BY <3>2, <3>3, <6>1
        <5>3. QED
          BY <3>3, <5>1, <5>2
      <4>2. QED
        BY <3>2, <4>1
    <3>6. Sorted(k)
      <4>1. ASSUME NEW i \in 1..L + 1, NEW j \in 1..L + 1, i < j
            PROVE  \E p, q \in 1..k : p < q /\ s[p] = f[k][i] /\ s[q] = f[k][j]
        <5>1. i \in 1..L
          BY <2>3, <4>1
        <5>2. CASE j = L + 1
          <6>1. PICK p \in 1..k - 1 : s[p] = old[i]
            BY <2>2, <5>1
          <6>2. p \in 1..k /\ k \in 1..k /\ p < k
            BY <2>1
          <6>3. QED
            BY <3>2, <5>1, <5>2, <6>1, <6>2
        <5>3. CASE j \in 1..L
          <6>1. PICK p \in 1..k - 1, q \in 1..k - 1 : p < q /\ s[p] = old[i] /\ s[q] = old[j]
            BY <2>2, <4>1, <5>1, <5>3
          <6>2. QED
            BY <3>2, <3>3, <5>1, <5>3, <6>1
        <5>4. QED
          BY <3>3, <5>2, <5>3
      <4>2. QED
        BY <3>2, <4>1
    <3>7. Same(k)
      <4>1. SUFFICES ASSUME Range(s) \subseteq S
                     PROVE  Len(f[k]) = k /\ \A m \in 1..k : f[k][m] = s[m]
        OBVIOUS
      <4>2. L = k - 1 /\ \A m \in 1..k - 1 : old[m] = s[m]
        BY <2>2, <4>1
      <4>3. QED
        BY <2>1, <3>2, <3>3, <4>2
    <3>8. QED
      BY <2>1, <3>4, <3>5, <3>6, <3>7
  <2>6. QED
    BY <2>4, <2>5
<1>6. n \in Good
  <2> HIDE DEF Good
  <2>1. 0..n \subseteq Good
    BY <1>2, <1>4, <1>5, CountsUp
  <2>2. QED
    BY <1>2, <2>1
<1>7. Within(n) /\ Whole(n) /\ Sorted(n) /\ Same(n)
  BY <1>6
<1> DEFINE kept == Kept(s, S)
<1>8. kept \in Seq(X) /\ f[n] = kept
  BY <1>1, <1>2
<1>9. Range(kept) = Range(s) \cap S
  <2>1. DOMAIN kept = 1..Len(kept) /\ DOMAIN s = 1..n
    BY <1>8
  <2> HIDE DEF kept
  <2>2. ASSUME NEW x \in Range(kept) PROVE x \in Range(s) \cap S
    <3>1. PICK m \in 1..Len(kept) : x = kept[m]
      BY <2>1 DEF Range
    <3>2. PICK p \in 1..n : s[p] = kept[m] /\ s[p] \in S
      BY <1>7, <1>8
    <3>3. QED
      BY <2>1, <3>1, <3>2 DEF Range
  <2>3. ASSUME NEW x \in Range(s) \cap S PROVE x \in Range(kept)
    <3>1. PICK p \in 1..n : x = s[p] /\ s[p] \in S
      BY <2>1 DEF Range
    <3>2. PICK m \in 1..Len(kept) : kept[m] = s[p]
      BY <1>7, <1>8, <3>1
    <3>3. QED
      BY <2>1, <3>1, <3>2 DEF Range
  <2>4. QED
    BY <2>2, <2>3
<1>10. Range(s) \subseteq S => kept = s
  <2> HIDE DEF kept
  <2>1. QED
    BY <1>7, <1>8, SeqEqual
<1>11. QED
  <2> HIDE DEF kept
  <2>1. QED
    BY <1>7, <1>8, <1>9, <1>10 DEF kept

(* Membership of a sequence's range, by index.                               *)
LEMMA InRange ==
  ASSUME NEW X, NEW s \in Seq(X), NEW x, x \in Range(s)
  PROVE  \E i \in 1..Len(s) : s[i] = x
BY DEF Range

(* And the other way round.                                                *)
LEMMA IsInRange ==
  ASSUME NEW X, NEW s \in Seq(X), NEW i \in 1..Len(s)
  PROVE  s[i] \in Range(s)
BY DEF Range

(* An item of the set is kept, after nothing but items that came before it.  *)
LEMMA KeptFirst ==
  ASSUME NEW X, NEW s \in Seq(X), NEW S, NEW q \in 1..Len(s), s[q] \in S
  PROVE  \E m \in 1..Len(Kept(s, S)) :
           Kept(s, S)[m] = s[q] /\ \A h \in 1..m - 1 : \E l \in 1..q - 1 : s[l] = Kept(s, S)[h]
<1>1. PICK f \in [0..Len(s) -> Seq(X)] :
        /\ f[0] = <<>> /\ f[Len(s)] = Kept(s, S)
        /\ \A i \in 1..Len(s) : f[i] = IF s[i] \in S THEN Append(f[i - 1], s[i]) ELSE f[i - 1]
  <2>1. Keepings(X, s, S) # {}
    BY KeptIs
  <2>2. QED
    BY <2>1, Zenon DEF Keepings
<1> DEFINE n == Len(s)
           Within(k) == \A m \in 1..Len(f[k]) : \E p \in 1..k : s[p] = f[k][m]
           There(k) == \E m \in 1..Len(f[k]) :
                         f[k][m] = s[q] /\ \A h \in 1..m - 1 : \E l \in 1..q - 1 : s[l] = f[k][h]
           Good == {k \in 0..n : Within(k) /\ (q <= k => There(k))}
<1>2. n \in Nat /\ q \in 1..n /\ \A i \in 1..n : s[i] \in X
  OBVIOUS
<1>3. \A k \in 0..n : f[k] \in Seq(X)
  BY <1>1
<1>4. 0 \in Good
  <2>1. Len(f[0]) = 0
    BY <1>1
  <2>2. Within(0) /\ ~(q <= 0)
    BY <1>2, <2>1
  <2>3. QED
    BY <1>2, <2>2
<1>5. ASSUME NEW k \in 1..n, k - 1 \in Good PROVE k \in Good
  <2> DEFINE old == f[k - 1]
             L == Len(old)
  <2>1. k - 1 \in 0..n /\ k \in 0..n /\ k \in Nat /\ s[k] \in X
    BY <1>2
  <2>2. old \in Seq(X) /\ L \in Nat
    BY <1>3, <2>1
  <2>3. Within(k - 1) /\ (q <= k - 1 => There(k - 1))
    BY <1>5
  <2>4. 1..k = (1..k - 1) \cup {k}
    BY <2>1
  <2>5. CASE s[k] \notin S
    <3>1. f[k] = old /\ q # k
      BY <1>1, <2>5
    <3>2. Within(k)
      <4> HIDE DEF old
      <4>1. QED
        BY <2>3, <2>4, <3>1 DEF old
    <3>3. q <= k => There(k)
      <4>1. q <= k => q <= k - 1
        BY <1>2, <2>1, <3>1
      <4>2. There(k - 1) => There(k)
        BY <3>1
      <4>3. QED
        BY <2>3, <4>1, <4>2
    <3>4. QED
      BY <2>1, <3>2, <3>3
  <2>6. CASE s[k] \in S
    <3>1. f[k] = Append(old, s[k])
      BY <1>1, <2>6
    <3>2. /\ Len(f[k]) = L + 1 /\ f[k][L + 1] = s[k]
          /\ \A m \in 1..L : f[k][m] = old[m]
      BY <2>1, <2>2, <3>1, AppendProperties
    <3>3. 1..L + 1 = (1..L) \cup {L + 1}
      BY <2>2
    <3>4. Within(k)
      <4>1. ASSUME NEW m \in 1..L + 1 PROVE \E p \in 1..k : s[p] = f[k][m]
        <5>1. CASE m = L + 1
          BY <2>1, <3>2, <5>1
        <5>2. CASE m \in 1..L
          BY <2>3, <2>4, <3>2, <5>2
        <5>3. QED
          BY <3>3, <5>1, <5>2
      <4>2. QED
        BY <3>2, <4>1
    <3>5. ASSUME q <= k PROVE There(k)
      <4>1. CASE q = k
        <5>1. L + 1 \in 1..Len(f[k]) /\ f[k][L + 1] = s[q]
          BY <2>2, <3>2, <4>1
        <5>2. ASSUME NEW h \in 1..(L + 1) - 1 PROVE \E l \in 1..q - 1 : s[l] = f[k][h]
          <6>1. h \in 1..L
            BY <2>2
          <6>2. f[k][h] = old[h]
            BY <3>2, <6>1
          <6>3. QED
            BY <2>3, <4>1, <6>1, <6>2
        <5>3. QED
          BY <5>1, <5>2
      <4>2. CASE q # k
        <5>1. q <= k - 1
          BY <1>2, <2>1, <3>5, <4>2
        <5>2. PICK m \in 1..L :
                old[m] = s[q] /\ \A h \in 1..m - 1 : \E l \in 1..q - 1 : s[l] = old[h]
          BY <2>3, <5>1
        <5>3. m \in 1..Len(f[k]) /\ f[k][m] = s[q]
          <6>1. old[m] = s[q]
            BY <5>2
          <6>2. f[k][m] = old[m]
            BY <3>2
          <6>3. m \in 1..Len(f[k])
            BY <2>2, <3>2
          <6>4. QED
            BY <6>1, <6>2, <6>3
        <5>4. ASSUME NEW h \in 1..m - 1 PROVE \E l \in 1..q - 1 : s[l] = f[k][h]
          <6>1. h \in 1..L
            BY <2>2
          <6>2. QED
            BY <3>2, <5>2, <6>1
        <5>5. QED
          BY <5>3, <5>4
      <4>3. QED
        BY <4>1, <4>2
    <3>6. QED
      BY <2>1, <3>4, <3>5
  <2>7. QED
    BY <2>5, <2>6
<1>6. n \in Good
  <2> HIDE DEF Good
  <2>1. 0..n \subseteq Good
    BY <1>2, <1>4, <1>5, CountsUp
  <2>2. QED
    BY <1>2, <2>1
<1>7. There(n)
  BY <1>2, <1>6
<1>8. QED
  BY <1>1, <1>7, Zenon

-----------------------------------------------------------------------------
(* The boot comparison, check_boot.py.                                     *)

(* `order` holds the milestones of the first n lines of pc, each of them once, *)
(* in the order they first come.                                           *)
Parsed(order, pc, n) ==
  /\ order \in Seq(PcKeys)
  /\ \A i \in 1..Len(order) : \E m \in 1..n : pc[m] = order[i]
  /\ \A m \in 1..n : \E i \in 1..Len(order) : order[i] = pc[m]
  /\ \A i, j \in 1..Len(order) : i < j =>
       \E m \in 1..n : pc[m] = order[i] /\ \A k \in 1..m : pc[k] # order[j]

(* The milestones of the other files.                                      *)
OtherKeys == {"watchdog", "gpustat_poll", "gpustat_done", "draw", "framebuffer"}

(* What parse returns.                                                     *)
FactSets == [pc_order : Seq(PcKeys), reached : SUBSET (PcKeys \cup OtherKeys)]

(* A trace read but for some lines.                                        *)
Reading(pc, n, lines, f) ==
  /\ Len(lines) = Len(pc) - n
  /\ \A i \in 1..Len(lines) : lines[i] = pc[n + i]
  /\ Parsed(f.pc_order, pc, n)
  /\ f.reached = {pc[m] : m \in 1..n}

(* A run read to its end.                                                  *)
ReadWhole(run, f) ==
  /\ Parsed(f.pc_order, Trace(run), Len(Trace(run)))
  /\ f.reached = {Trace(run)[m] : m \in 1..Len(Trace(run))} \cup OtherMilestones(run.events)

(* The types of the comparison's variables.                                *)
BootType ==
  /\ base_run.pc \in Seq(Fetches) /\ this_run.pc \in Seq(Fetches)
  /\ unread \in Seq(PcKeys) /\ facts \in [{"base", "this"} -> FactSets]

(* What has been read by each stage.                                       *)
Progress ==
  /\ at = "this" => /\ \E n \in 0..Len(Trace(this_run)) : Reading(Trace(this_run), n, unread, facts["this"])
                    /\ facts["base"] = NoFacts
  /\ at = "base" => /\ \E n \in 0..Len(Trace(base_run)) : Reading(Trace(base_run), n, unread, facts["base"])
                    /\ ReadWhole(this_run, facts["this"])
  /\ at \in {"compare", "done"} => /\ ReadWhole(this_run, facts["this"])
                                   /\ ReadWhole(base_run, facts["base"])

(* The inductive invariant of the comparison.                              *)
BootInv == BootType /\ Progress /\ ExitCodeIsTrue

(* Before the first line there is no milestone.                            *)
LEMMA NothingParsed ==
  ASSUME NEW pc
  PROVE  Parsed(<<>>, pc, 0)
<1>1. <<>> \in Seq(PcKeys) /\ Len(<<>>) = 0
  OBVIOUS
<1>2. QED
  BY <1>1 DEF Parsed

(* The facts of a run not read yet.                                        *)
LEMMA NoFactsType == NoFacts \in FactSets /\ NoFacts.pc_order = <<>> /\ NoFacts.reached = {}
<1>1. <<>> \in Seq(PcKeys)
  OBVIOUS
<1>2. QED
  BY <1>1 DEF NoFacts, FactSets

(* The trace has lines of what was executed only, and a fetch the tap logged  *)
(* has its line after lines of earlier fetches only.                         *)
LEMMA BootTraceIs ==
  ASSUME NEW run, run.pc \in Seq(Fetches)
  PROVE  /\ Trace(run) \in Seq(PcKeys) /\ Executed(run) \in Seq(PcKeys)
         /\ Len(Executed(run)) = Len(run.pc)
         /\ \A i \in 1..Len(run.pc) : Executed(run)[i] = run.pc[i].key
         /\ Range(Trace(run)) \subseteq Range(Executed(run))
         /\ \A i \in 1..Len(run.pc) : run.pc[i].logged =>
              \E m \in 1..Len(Trace(run)) :
                /\ Trace(run)[m] = Executed(run)[i]
                /\ \A h \in 1..m - 1 : \E l \in 1..i - 1 : Trace(run)[h] = Executed(run)[l]
<1> DEFINE S == {f \in Fetches : f.logged}
           lines == Kept(run.pc, S)
           T == Trace(run)
           E == Executed(run)
           n == Len(run.pc)
<1>1. n \in Nat /\ \A i \in 1..n : run.pc[i] \in Fetches
  OBVIOUS
<1>2. \A f \in Fetches : f.key \in PcKeys
  BY DEF Fetches
<1>3. lines \in Seq(Fetches) /\ Range(lines) = Range(run.pc) \cap S
  BY KeptFacts
<1>4. T = [i \in 1..Len(lines) |-> lines[i].key]
  BY DEF Trace
<1>5. E = [i \in 1..n |-> run.pc[i].key]
  BY DEF Executed
<1> HIDE DEF lines, T, E
<1>6. Len(lines) \in Nat /\ \A i \in 1..Len(lines) : lines[i] \in Fetches
  BY <1>3
<1>7. T \in Seq(PcKeys) /\ Len(T) = Len(lines) /\ \A i \in 1..Len(T) : T[i] = lines[i].key
  <2>1. T \in [1..Len(lines) -> PcKeys]
    BY <1>2, <1>4, <1>6
  <2>2. T \in Seq(PcKeys)
    BY <1>6, <2>1, SeqDef
  <2>3. Len(T) = Len(lines)
    BY <1>6, <2>1, <2>2
  <2>4. QED
    BY <1>4, <2>2, <2>3
<1>8. E \in Seq(PcKeys) /\ Len(E) = n /\ \A i \in 1..n : E[i] = run.pc[i].key
  <2>1. E \in [1..n -> PcKeys]
    BY <1>1, <1>2, <1>5
  <2>2. E \in Seq(PcKeys)
    BY <1>1, <2>1, SeqDef
  <2>3. Len(E) = n
    BY <1>1, <2>1, <2>2
  <2>4. QED
    BY <1>5, <2>2, <2>3
<1>9. ASSUME NEW x \in Range(T) PROVE x \in Range(E)
  <2>1. PICK m \in 1..Len(T) : T[m] = x
    BY <1>7, InRange
  <2>2. lines[m] \in Range(lines) /\ x = lines[m].key
    BY <1>3, <1>7, <2>1, IsInRange
  <2>3. PICK i \in 1..n : run.pc[i] = lines[m]
    BY <1>3, <2>2, InRange
  <2>4. E[i] = x /\ i \in 1..Len(E)
    BY <1>8, <2>2, <2>3
  <2>5. QED
    BY <1>8, <2>4, IsInRange
<1>10. ASSUME NEW i \in 1..n, run.pc[i].logged
       PROVE  \E m \in 1..Len(T) : /\ T[m] = E[i]
                                    /\ \A h \in 1..m - 1 : \E l \in 1..i - 1 : T[h] = E[l]
  <2>1. run.pc[i] \in S
    BY <1>1, <1>10
  <2>2. PICK m \in 1..Len(lines) :
          lines[m] = run.pc[i] /\ \A h \in 1..m - 1 : \E l \in 1..i - 1 : run.pc[l] = lines[h]
    <3> DEFINE s == run.pc
    <3>1. s \in Seq(Fetches) /\ i \in 1..Len(s) /\ s[i] \in S
      BY <2>1
    <3> HIDE DEF s, S
    <3>2. \E m \in 1..Len(Kept(s, S)) :
            Kept(s, S)[m] = s[i] /\ \A h \in 1..m - 1 : \E l \in 1..i - 1 : s[l] = Kept(s, S)[h]
      BY <3>1, KeptFirst
    <3>3. QED
      BY <3>2, Zenon DEF lines, s
  <2>3. T[m] = E[i] /\ m \in 1..Len(T)
    BY <1>7, <1>8, <2>2
  <2>4. ASSUME NEW h \in 1..m - 1 PROVE \E l \in 1..i - 1 : T[h] = E[l]
    <3>1. PICK l \in 1..i - 1 : run.pc[l] = lines[h]
      BY <2>2
    <3>2. l \in 1..n /\ h \in 1..Len(T)
      BY <1>1, <1>6, <1>7
    <3>3. QED
      BY <1>7, <1>8, <3>1, <3>2
  <2>5. QED
    BY <2>3, <2>4
<1>11. QED
  BY <1>7, <1>8, <1>9, <1>10 DEF T, E

(* The invariant holds at the start.                                       *)
LEMMA BootStart ==
  ASSUME BootIdle \/ BootInit
  PROVE  BootInv
<1>1. base_run.pc \in Seq(Fetches) /\ this_run.pc \in Seq(Fetches)
  <2>1. CASE BootIdle
    <3>1. base_run.pc = <<>> /\ this_run.pc = <<>>
      BY <2>1 DEF BootIdle, EmptyRun
    <3>2. <<>> \in Seq(Fetches)
      OBVIOUS
    <3>3. QED
      BY <3>1, <3>2
  <2>2. CASE BootInit
    <3>1. \A run \in Runs : run.pc \in Seq(Fetches)
      <4>1. ASSUME NEW run \in Runs PROVE run.pc \in Seq(Fetches)
        <5>1. PICK n \in 0..MaxTrace : run.pc \in [1..n -> Fetches]
          BY DEF Runs
        <5>2. n \in Nat
          BY TraceAssumption
        <5>3. QED
          BY <5>1, <5>2, SeqDef
      <4>2. QED
        BY <4>1
    <3>2. QED
      BY <2>2, <3>1 DEF BootInit
  <2>3. QED
    BY <2>1, <2>2
<1> DEFINE T == Trace(this_run)
<1>0. T \in Seq(PcKeys)
  BY <1>1, BootTraceIs
<1> HIDE DEF T
<1>2. facts = [r \in {"base", "this"} |-> NoFacts]
  BY DEF BootIdle, BootInit
<1>3. facts["base"] = NoFacts /\ facts["this"] = NoFacts /\ facts \in [{"base", "this"} -> FactSets]
  BY <1>2, NoFactsType
<1>4. BootType
  <2>1. unread \in Seq(PcKeys)
    <3>1. unread = <<>> \/ unread = T
      BY DEF BootIdle, BootInit, T
    <3>2. <<>> \in Seq(PcKeys)
      OBVIOUS
    <3>3. QED
      BY <1>0, <3>1, <3>2
  <2>2. QED
    BY <1>1, <1>3, <2>1 DEF BootType
<1>5. at \in {"none", "this"} /\ (at = "this" => unread = T)
  BY DEF BootIdle, BootInit, T
<1>6. Progress
  <2>1. CASE at = "this"
    <3>1. unread = T /\ Len(T) \in Nat
      BY <1>5, <1>0, <2>1
    <3>2. Reading(T, 0, unread, facts["this"])
      <4>1. Parsed(facts["this"].pc_order, T, 0)
        BY <1>3, NoFactsType, NothingParsed
      <4>2. facts["this"].reached = {T[m] : m \in 1..0}
        BY <1>3, NoFactsType
      <4>3. Len(unread) = Len(T) - 0 /\ \A i \in 1..Len(unread) : unread[i] = T[0 + i]
        BY <3>1
      <4>4. QED
        BY <4>1, <4>2, <4>3 DEF Reading
    <3>3. QED
      <4>1. 0 \in 0..Len(T)
        BY <3>1
      <4>2. QED
        BY <1>3, <2>1, <3>2, <4>1 DEF Progress, T
  <2>2. CASE at = "none"
    BY <2>2 DEF Progress
  <2>3. QED
    BY <1>5, <2>1, <2>2
<1>7. ExitCodeIsTrue
  BY <1>5 DEF ExitCodeIsTrue
<1>8. QED
  BY <1>4, <1>6, <1>7 DEF BootInv

(* A line more: a milestone met before changes nothing, a new one comes last. *)
LEMMA ParsedOne ==
  ASSUME NEW pc \in Seq(PcKeys), NEW n \in Nat, n < Len(pc), NEW order, Parsed(order, pc, n)
  PROVE  Parsed(FirstOccurrence(order, pc[n + 1]), pc, n + 1)
<1> DEFINE k == pc[n + 1]
           L == Len(order)
<1>1. k \in PcKeys /\ order \in Seq(PcKeys) /\ L \in Nat
  BY DEF Parsed
<1>2. 1..n + 1 = (1..n) \cup {n + 1}
  OBVIOUS
<1>3. k \in Range(order) <=> \E i \in 1..L : order[i] = k
  BY <1>1 DEF Range
<1> HIDE DEF k
<1>4. CASE k \in Range(order)
  <2>1. FirstOccurrence(order, k) = order
    BY <1>4 DEF FirstOccurrence
  <2>2. \A i \in 1..L : \E m \in 1..n + 1 : pc[m] = order[i]
    BY <1>2 DEF Parsed
  <2>3. \A m \in 1..n + 1 : \E i \in 1..L : order[i] = pc[m]
    BY <1>2, <1>3, <1>4 DEF Parsed, k
  <2>4. \A i, j \in 1..L : i < j => \E m \in 1..n + 1 : pc[m] = order[i] /\ \A h \in 1..m : pc[h] # order[j]
    BY <1>2 DEF Parsed
  <2>5. Parsed(order, pc, n + 1)
    BY <1>1, <2>2, <2>3, <2>4 DEF Parsed
  <2>6. QED
    BY <2>1, <2>5 DEF k
<1>5. CASE k \notin Range(order)
  <2> DEFINE new == Append(order, k)
  <2>1. FirstOccurrence(order, k) = new
    BY <1>5 DEF FirstOccurrence
  <2>2. /\ new \in Seq(PcKeys) /\ Len(new) = L + 1 /\ new[L + 1] = k
        /\ \A i \in 1..L : new[i] = order[i]
    BY <1>1, AppendProperties
  <2> HIDE DEF new
  <2>3. 1..L + 1 = (1..L) \cup {L + 1}
    BY <1>1
  <2>4. \A i \in 1..L + 1 : \E m \in 1..n + 1 : pc[m] = new[i]
    <3>1. ASSUME NEW i \in 1..L PROVE \E m \in 1..n + 1 : pc[m] = new[i]
      BY <1>2, <2>2 DEF Parsed
    <3>2. n + 1 \in 1..n + 1 /\ pc[n + 1] = new[L + 1]
      BY <2>2 DEF k
    <3>3. QED
      BY <2>3, <3>1, <3>2
  <2>5. \A m \in 1..n + 1 : \E i \in 1..L + 1 : new[i] = pc[m]
    <3>1. ASSUME NEW m \in 1..n PROVE \E i \in 1..L + 1 : new[i] = pc[m]
      <4>1. PICK i \in 1..L : order[i] = pc[m]
        BY DEF Parsed
      <4>2. QED
        BY <2>2, <2>3, <4>1
    <3>2. L + 1 \in 1..L + 1 /\ pc[n + 1] = new[L + 1]
      BY <1>1, <2>2 DEF k
    <3>3. QED
      BY <1>2, <3>1, <3>2
  <2>6. ASSUME NEW i \in 1..L + 1, NEW j \in 1..L + 1, i < j
        PROVE  \E m \in 1..n + 1 : pc[m] = new[i] /\ \A h \in 1..m : pc[h] # new[j]
    <3>1. i \in 1..L /\ new[i] = order[i]
      BY <1>1, <2>2, <2>6
    <3>2. CASE j \in 1..L
      <4>1. PICK m \in 1..n : pc[m] = order[i] /\ \A h \in 1..m : pc[h] # order[j]
        BY <2>6, <3>1, <3>2 DEF Parsed
      <4>2. QED
        BY <1>2, <2>2, <3>1, <3>2, <4>1
    <3>3. CASE j = L + 1
      <4>1. PICK m \in 1..n : pc[m] = order[i]
        BY <3>1 DEF Parsed
      <4>2. ASSUME NEW h \in 1..m PROVE pc[h] # k
        <5>1. h \in 1..n
          OBVIOUS
        <5>2. PICK l \in 1..L : order[l] = pc[h]
          BY <5>1 DEF Parsed
        <5>3. QED
          BY <1>3, <1>5, <5>2
      <4>3. QED
        BY <1>2, <2>2, <3>1, <3>3, <4>1, <4>2
    <3>4. QED
      BY <2>3, <3>2, <3>3
  <2>7. Parsed(new, pc, n + 1)
    BY <2>2, <2>4, <2>5, <2>6 DEF Parsed
  <2>8. QED
    BY <2>1, <2>7 DEF k
<1>6. QED
  BY <1>4, <1>5

(* Reading one line more.                                                  *)
LEMMA ReadsOne ==
  ASSUME NEW pc \in Seq(PcKeys), NEW n \in 0..Len(pc),
         NEW lines \in Seq(PcKeys), lines # <<>>, NEW f \in FactSets, Reading(pc, n, lines, f),
         NEW g, g = [pc_order |-> FirstOccurrence(f.pc_order, Head(lines)),
                     reached |-> f.reached \cup {Head(lines)}]
  PROVE  /\ n + 1 \in 0..Len(pc) /\ Reading(pc, n + 1, Tail(lines), g)
         /\ Tail(lines) \in Seq(PcKeys) /\ g \in FactSets
<1> DEFINE k == pc[n + 1]
           rest == Tail(lines)
<1>1. /\ Len(lines) = Len(pc) - n /\ Len(pc) \in Nat
      /\ \A i \in 1..Len(lines) : lines[i] = pc[n + i]
  <2>1. Len(pc) \in Nat
    OBVIOUS
  <2>2. Len(lines) = Len(pc) - n /\ \A i \in 1..Len(lines) : lines[i] = pc[n + i]
    BY Zenon DEF Reading
  <2>3. QED
    BY <2>1, <2>2
<1>2. /\ Head(lines) = lines[1] /\ rest \in Seq(PcKeys) /\ Len(rest) = Len(lines) - 1
      /\ \A i \in 1..Len(rest) : rest[i] = lines[i + 1]
  BY HeadTailProperties
<1>3. Len(lines) \in Nat \ {0} /\ n < Len(pc) /\ n \in Nat
  BY <1>1
<1>4. Head(lines) = k /\ k \in PcKeys
  BY <1>1, <1>2, <1>3
<1> HIDE DEF rest
<1>5. /\ Len(rest) = Len(pc) - (n + 1)
      /\ \A i \in 1..Len(rest) : rest[i] = pc[(n + 1) + i]
  <2>1. ASSUME NEW i \in 1..Len(rest) PROVE rest[i] = pc[(n + 1) + i]
    <3>1. i + 1 \in 1..Len(lines) /\ n + (i + 1) = (n + 1) + i
      BY <1>2, <1>3
    <3>2. lines[i + 1] = pc[n + (i + 1)]
      BY <1>1, <3>1
    <3>3. QED
      BY <1>2, <3>1, <3>2
  <2>2. QED
    BY <1>1, <1>2, <1>3, <2>1
<1>6. Parsed(g.pc_order, pc, n + 1)
  <2>1. Parsed(f.pc_order, pc, n) /\ g.pc_order = FirstOccurrence(f.pc_order, k)
    BY <1>4 DEF Reading
  <2>2. QED
    BY <1>3, <2>1, ParsedOne
<1>7. g.reached = {pc[m] : m \in 1..n + 1}
  <2>1. 1..n + 1 = (1..n) \cup {n + 1} /\ f.reached = {pc[m] : m \in 1..n}
    BY <1>3 DEF Reading
  <2>2. g.reached = f.reached \cup {k}
    BY <1>4
  <2>3. QED
    BY <2>1, <2>2
<1>8. g \in FactSets
  <2>1. FirstOccurrence(f.pc_order, k) \in Seq(PcKeys)
    <3>1. g.pc_order \in Seq(PcKeys)
      BY <1>6 DEF Parsed
    <3>2. QED
      BY <1>4, <3>1
  <2>2. f.reached \cup {k} \in SUBSET (PcKeys \cup OtherKeys)
    BY <1>4 DEF FactSets
  <2>3. QED
    BY <1>4, <2>1, <2>2 DEF FactSets
<1>9. Reading(pc, n + 1, rest, g)
  BY <1>5, <1>6, <1>7 DEF Reading
<1>10. QED
  BY <1>2, <1>3, <1>8, <1>9 DEF rest

(* A line of pc_trace.log keeps the invariant.                              *)
LEMMA BootParsePc ==
  ASSUME BootInv, ParsePc
  PROVE  BootInv'
<1>1. /\ base_run' = base_run /\ this_run' = this_run /\ at' = at /\ unread' = Tail(unread)
      /\ at \in {"this", "base"} /\ unread # <<>>
  BY DEF ParsePc
<1>2. BootType
  BY DEF BootInv
<1> DEFINE new == [pc_order |-> FirstOccurrence(facts[at].pc_order, Head(unread)),
                   reached |-> facts[at].reached \cup {Head(unread)}]
<1>3. facts' = [facts EXCEPT ![at] = new]
  BY DEF ParsePc
<1>4. facts[at] \in FactSets /\ facts \in [{"base", "this"} -> FactSets]
  BY <1>1, <1>2 DEF BootType
<1>5. PICK g : g = new
  OBVIOUS
<1>6. /\ facts'[at] = g /\ \A r \in {"base", "this"} : r # at => facts'[r] = facts[r]
      /\ (g \in FactSets => facts' \in [{"base", "this"} -> FactSets])
  <2> HIDE DEF new
  <2>1. QED
    BY <1>1, <1>3, <1>4, <1>5
<1>7. CASE at = "this"
  <2>1. PICK n \in 0..Len(Trace(this_run)) : Reading(Trace(this_run), n, unread, facts["this"])
    BY <1>7 DEF BootInv, Progress
  <2>2. /\ n + 1 \in 0..Len(Trace(this_run)) /\ Reading(Trace(this_run), n + 1, Tail(unread), g)
        /\ Tail(unread) \in Seq(PcKeys) /\ g \in FactSets
    <3>1. Trace(this_run) \in Seq(PcKeys) /\ unread \in Seq(PcKeys)
      BY <1>2, BootTraceIs DEF BootType
    <3>2. QED
      BY <1>1, <1>4, <1>5, <1>7, <2>1, <3>1, ReadsOne
  <2>3. BootType'
    BY <1>1, <1>2, <1>6, <2>2 DEF BootType
  <2>4. Progress'
    <3>1. at' = "this" /\ facts'["this"] = g /\ facts'["base"] = facts["base"]
      BY <1>1, <1>6, <1>7
    <3>2. facts["base"] = NoFacts
      BY <1>7 DEF BootInv, Progress
    <3>3. Reading(Trace(this_run'), n + 1, unread', facts'["this"]) /\ n + 1 \in 0..Len(Trace(this_run'))
      BY <1>1, <2>2, <3>1
    <3>4. facts'["base"] = NoFacts
      BY <3>1, <3>2
    <3>5. QED
      BY <3>1, <3>3, <3>4 DEF Progress
  <2>5. ExitCodeIsTrue'
    BY <1>1, <1>7 DEF ExitCodeIsTrue
  <2>6. QED
    BY <2>3, <2>4, <2>5 DEF BootInv
<1>8. CASE at = "base"
  <2>1. PICK n \in 0..Len(Trace(base_run)) : Reading(Trace(base_run), n, unread, facts["base"])
    BY <1>8 DEF BootInv, Progress
  <2>2. /\ n + 1 \in 0..Len(Trace(base_run)) /\ Reading(Trace(base_run), n + 1, Tail(unread), g)
        /\ Tail(unread) \in Seq(PcKeys) /\ g \in FactSets
    <3>1. Trace(base_run) \in Seq(PcKeys) /\ unread \in Seq(PcKeys)
      BY <1>2, BootTraceIs DEF BootType
    <3>2. QED
      BY <1>1, <1>4, <1>5, <1>8, <2>1, <3>1, ReadsOne
  <2>3. BootType'
    BY <1>1, <1>2, <1>6, <2>2 DEF BootType
  <2>4. Progress'
    <3>1. at' = "base" /\ facts'["base"] = g /\ facts'["this"] = facts["this"]
      BY <1>1, <1>6, <1>8
    <3>2. ReadWhole(this_run, facts["this"])
      BY <1>8 DEF BootInv, Progress
    <3>3. Reading(Trace(base_run'), n + 1, unread', facts'["base"]) /\ n + 1 \in 0..Len(Trace(base_run'))
      BY <1>1, <2>2, <3>1
    <3>4. ReadWhole(this_run', facts'["this"])
      BY <1>1, <3>1, <3>2
    <3>5. QED
      BY <3>1, <3>3, <3>4 DEF Progress
  <2>5. ExitCodeIsTrue'
    BY <1>1, <1>8 DEF ExitCodeIsTrue
  <2>6. QED
    BY <2>3, <2>4, <2>5 DEF BootInv
<1>9. QED
  BY <1>1, <1>7, <1>8

(* The other files add no milestone of the program counter.                *)
LEMMA WholeRun ==
  ASSUME NEW run, Trace(run) \in Seq(PcKeys), NEW n \in 0..Len(Trace(run)), NEW f \in FactSets,
         Reading(Trace(run), n, <<>>, f), NEW g,
         g = [f EXCEPT !.reached = @ \cup OtherMilestones(run.events)]
  PROVE  ReadWhole(run, g) /\ g \in FactSets
<1>1. n = Len(Trace(run))
  <2>1. Len(<<>>) = 0 /\ Len(Trace(run)) \in Nat
    OBVIOUS
  <2>2. QED
    BY <2>1 DEF Reading
<1>2. g.pc_order = f.pc_order /\ g.reached = f.reached \cup OtherMilestones(run.events)
  BY DEF FactSets
<1>3. OtherMilestones(run.events) \subseteq OtherKeys
  BY DEF OtherMilestones, OtherKeys
<1>4. g \in FactSets
  BY <1>3 DEF FactSets
<1>5. QED
  BY <1>1, <1>2, <1>4 DEF ReadWhole, Reading

(* The rest of a run's files keeps the invariant.                          *)
LEMMA BootParseRest ==
  ASSUME BootInv, ParseRest
  PROVE  BootInv'
<1>1. /\ base_run' = base_run /\ this_run' = this_run /\ unread = <<>>
      /\ at \in {"this", "base"} /\ at' = IF at = "this" THEN "base" ELSE "compare"
      /\ unread' = IF at = "this" THEN Trace(base_run) ELSE <<>>
  BY DEF ParseRest
<1>2. BootType
  BY DEF BootInv
<1>3. PICK g : g = [facts[at] EXCEPT !.reached = @ \cup OtherMilestones(RunAt.events)]
  OBVIOUS
<1>4. facts' = [facts EXCEPT ![at] = g]
  BY <1>3 DEF ParseRest
<1>5. facts[at] \in FactSets /\ facts \in [{"base", "this"} -> FactSets]
  BY <1>1, <1>2 DEF BootType
<1>6. /\ facts'[at] = g /\ \A r \in {"base", "this"} : r # at => facts'[r] = facts[r]
      /\ (g \in FactSets => facts' \in [{"base", "this"} -> FactSets])
  BY <1>1, <1>4, <1>5
<1>0. Trace(base_run) \in Seq(PcKeys) /\ Trace(this_run) \in Seq(PcKeys)
  BY <1>2, BootTraceIs DEF BootType
<1>7. unread' \in Seq(PcKeys)
  <2>1. <<>> \in Seq(PcKeys)
    OBVIOUS
  <2>2. QED
    BY <1>0, <1>1, <2>1
<1>8. CASE at = "this"
  <2>1. PICK n \in 0..Len(Trace(this_run)) : Reading(Trace(this_run), n, unread, facts["this"])
    BY <1>8 DEF BootInv, Progress
  <2>2. ReadWhole(this_run, g) /\ g \in FactSets
    <3>1. g = [facts["this"] EXCEPT !.reached = @ \cup OtherMilestones(this_run.events)]
      BY <1>3, <1>8 DEF RunAt
    <3>2. facts["this"] \in FactSets /\ Reading(Trace(this_run), n, <<>>, facts["this"])
      BY <1>1, <1>5, <1>8, <2>1
    <3>3. QED
      BY <1>0, <3>1, <3>2, WholeRun
  <2>3. BootType'
    BY <1>1, <1>2, <1>6, <1>7, <2>2 DEF BootType
  <2>4. Progress'
    <3>1. /\ at' = "base" /\ unread' = Trace(base_run') /\ facts'["this"] = g
          /\ facts'["base"] = NoFacts
      BY <1>1, <1>6, <1>8 DEF BootInv, Progress
    <3>2. Reading(Trace(base_run'), 0, unread', facts'["base"]) /\ 0 \in 0..Len(Trace(base_run'))
      <4>1. Len(unread') \in Nat
        BY <1>7
      <4>2. Parsed(facts'["base"].pc_order, Trace(base_run'), 0)
        BY <3>1, NoFactsType, NothingParsed
      <4>3. facts'["base"].reached = {Trace(base_run')[m] : m \in 1..0}
        BY <3>1, NoFactsType
      <4>4. \A i \in 1..Len(unread') : unread'[i] = Trace(base_run')[0 + i]
        BY <3>1, <4>1
      <4>5. QED
        BY <3>1, <4>1, <4>2, <4>3, <4>4 DEF Reading
    <3>3. ReadWhole(this_run', facts'["this"])
      BY <1>1, <2>2, <3>1
    <3>4. QED
      BY <3>1, <3>2, <3>3 DEF Progress
  <2>5. ExitCodeIsTrue'
    BY <1>1, <1>8 DEF ExitCodeIsTrue
  <2>6. QED
    BY <2>3, <2>4, <2>5 DEF BootInv
<1>9. CASE at = "base"
  <2>1. PICK n \in 0..Len(Trace(base_run)) : Reading(Trace(base_run), n, unread, facts["base"])
    BY <1>9 DEF BootInv, Progress
  <2>2. ReadWhole(base_run, g) /\ g \in FactSets
    <3>1. g = [facts["base"] EXCEPT !.reached = @ \cup OtherMilestones(base_run.events)]
      BY <1>3, <1>9 DEF RunAt
    <3>2. facts["base"] \in FactSets /\ Reading(Trace(base_run), n, <<>>, facts["base"])
      BY <1>1, <1>5, <1>9, <2>1
    <3>3. QED
      BY <1>0, <3>1, <3>2, WholeRun
  <2>3. BootType'
    BY <1>1, <1>2, <1>6, <1>7, <2>2 DEF BootType
  <2>4. Progress'
    <3>1. at' = "compare" /\ facts'["base"] = g /\ facts'["this"] = facts["this"]
      BY <1>1, <1>6, <1>9
    <3>2. ReadWhole(this_run, facts["this"])
      BY <1>9 DEF BootInv, Progress
    <3>3. ReadWhole(base_run', facts'["base"]) /\ ReadWhole(this_run', facts'["this"])
      BY <1>1, <2>2, <3>1, <3>2
    <3>4. QED
      BY <3>1, <3>3 DEF Progress
  <2>5. ExitCodeIsTrue'
    BY <1>1, <1>9 DEF ExitCodeIsTrue
  <2>6. QED
    BY <2>3, <2>4, <2>5 DEF BootInv
<1>10. QED
  BY <1>1, <1>8, <1>9

(* The place of a milestone's first occurrence.                             *)
LEMMA FirstIs ==
  ASSUME NEW pc \in Seq(PcKeys), NEW k \in Range(pc)
  PROVE  /\ First(pc, k) \in 1..Len(pc) /\ pc[First(pc, k)] = k
         /\ \A j \in 1..First(pc, k) - 1 : pc[j] # k
<1> DEFINE P(i) == pc[i] = k /\ \A j \in 1..i - 1 : pc[j] # k
           At == {i \in 1..Len(pc) : pc[i] = k}
<1>1. At \subseteq Nat /\ At # {}
  BY DEF Range
<1>2. PICK t \in At : \A m \in At : t <= m
  BY <1>1, LeastExists
<1>3. t \in 1..Len(pc) /\ pc[t] = k
  OBVIOUS
<1>4. ASSUME NEW j \in 1..t - 1 PROVE pc[j] # k
  <2>1. j \in 1..Len(pc) /\ ~(t <= j)
    BY <1>3
  <2>2. QED
    BY <1>2, <2>1
<1>5. \E i \in 1..Len(pc) : P(i)
  BY <1>3, <1>4
<1>6. First(pc, k) = CHOOSE i \in 1..Len(pc) : P(i)
  BY DEF First
<1> HIDE DEF P
<1>7. First(pc, k) \in 1..Len(pc) /\ P(First(pc, k))
  BY <1>5, <1>6
<1>8. QED
  BY <1>7 DEF P

(* A milestone met before any occurrence of another first comes before it.   *)
LEMMA MetBefore ==
  ASSUME NEW pc \in Seq(PcKeys), NEW a \in Range(pc), NEW b \in Range(pc),
         NEW m \in 1..Len(pc), pc[m] = a, \A h \in 1..m : pc[h] # b
  PROVE  First(pc, a) < First(pc, b)
<1>1. /\ First(pc, a) \in 1..Len(pc) /\ \A j \in 1..First(pc, a) - 1 : pc[j] # a
      /\ First(pc, b) \in 1..Len(pc) /\ pc[First(pc, b)] = b
  BY FirstIs
<1> DEFINE p == First(pc, a)
           q == First(pc, b)
<1> HIDE DEF p, q
<1>2. p <= m
  BY <1>1 DEF p
<1>3. m < q
  BY <1>1 DEF q
<1>4. QED
  BY <1>1, <1>2, <1>3 DEF p, q

(* When the tap caught every first fetch, the trace shows every milestone and *)
(* the order they were first executed in.                                    *)
LEMMA FirstsSeen ==
  ASSUME NEW run, run.pc \in Seq(Fetches), FirstsLogged(run)
  PROVE  /\ Range(Executed(run)) = Range(Trace(run))
         /\ \A a, b \in Range(Executed(run)) :
              First(Executed(run), a) < First(Executed(run), b)
                <=> First(Trace(run), a) < First(Trace(run), b)
<1> DEFINE T == Trace(run)
           E == Executed(run)
           n == Len(run.pc)
<1>1. /\ T \in Seq(PcKeys) /\ E \in Seq(PcKeys) /\ Len(E) = n
      /\ \A i \in 1..n : E[i] = run.pc[i].key
      /\ Range(T) \subseteq Range(E)
      /\ \A i \in 1..n : run.pc[i].logged =>
           \E m \in 1..Len(T) : /\ T[m] = E[i]
                                 /\ \A h \in 1..m - 1 : \E l \in 1..i - 1 : T[h] = E[l]
  BY BootTraceIs
<1> HIDE DEF T, E
<1>2. ASSUME NEW k \in Range(E)
      PROVE  /\ First(E, k) \in 1..n /\ E[First(E, k)] = k
             /\ \A j \in 1..First(E, k) - 1 : E[j] # k
             /\ \E m \in 1..Len(T) :
                  /\ T[m] = k
                  /\ \A h \in 1..m - 1 : \E l \in 1..First(E, k) - 1 : T[h] = E[l]
  <2> DEFINE p == First(E, k)
  <2>1. p \in 1..n /\ E[p] = k /\ \A j \in 1..p - 1 : E[j] # k
    BY <1>1, FirstIs
  <2> HIDE DEF p
  <2>2. \A j \in 1..p - 1 : run.pc[j].key # run.pc[p].key
    <3>1. ASSUME NEW j \in 1..p - 1 PROVE run.pc[j].key # run.pc[p].key
      <4>1. j \in 1..n
        BY <2>1
      <4>2. QED
        BY <1>1, <2>1, <4>1
    <3>2. QED
      BY <3>1
  <2>3. run.pc[p].logged
    BY <2>1, <2>2 DEF FirstsLogged
  <2>4. \E m \in 1..Len(T) : T[m] = E[p] /\ \A h \in 1..m - 1 : \E l \in 1..p - 1 : T[h] = E[l]
    BY <1>1, <2>1, <2>3
  <2>5. QED
    BY <2>1, <2>4 DEF p
<1>3. Range(E) = Range(T)
  <2>1. ASSUME NEW k \in Range(E) PROVE k \in Range(T)
    <3>1. PICK m \in 1..Len(T) : T[m] = k
      BY <1>2
    <3>2. QED
      BY <1>1, <3>1, IsInRange
  <2>2. QED
    BY <1>1, <2>1
<1>4. ASSUME NEW a \in Range(E), NEW b \in Range(E), First(E, a) < First(E, b)
      PROVE  First(T, a) < First(T, b)
  <2> DEFINE p == First(E, a)
             q == First(E, b)
  <2>1. p \in 1..n /\ E[p] = a /\ q \in 1..n /\ \A j \in 1..q - 1 : E[j] # b
    BY <1>2
  <2>2. PICK m \in 1..Len(T) : T[m] = a /\ \A h \in 1..m - 1 : \E l \in 1..p - 1 : T[h] = E[l]
    BY <1>2
  <2>3. p < q
    BY <1>4
  <2> HIDE DEF p, q
  <2>4. p \in 1..q - 1 /\ a # b
    BY <2>1, <2>3
  <2>5. ASSUME NEW h \in 1..m PROVE T[h] # b
    <3>1. CASE h = m
      BY <2>2, <2>4, <3>1
    <3>2. CASE h # m
      <4>1. h \in 1..m - 1
        BY <3>2
      <4>2. PICK l \in 1..p - 1 : T[h] = E[l]
        BY <2>2, <4>1
      <4>3. l \in 1..q - 1
        BY <2>1, <2>3
      <4>4. QED
        BY <2>1, <4>2, <4>3
    <3>3. QED
      BY <3>1, <3>2
  <2>6. a \in Range(T) /\ b \in Range(T)
    BY <1>3
  <2>7. QED
    BY <1>1, <2>2, <2>5, <2>6, MetBefore
<1>5. ASSUME NEW a \in Range(E), NEW b \in Range(E), First(T, a) < First(T, b)
      PROVE  First(E, a) < First(E, b)
  <2>1. First(E, a) \in Int /\ First(E, b) \in Int /\ E[First(E, a)] = a /\ E[First(E, b)] = b
    BY <1>2
  <2>2. First(T, a) \in Int /\ First(T, b) \in Int
    <3>1. First(T, a) \in 1..Len(T) /\ First(T, b) \in 1..Len(T)
      BY <1>1, <1>3, FirstIs
    <3>2. QED
      BY <3>1
  <2>3. First(E, a) # First(E, b)
    <3>1. a # b
      BY <1>5, <2>2
    <3>2. QED
      BY <2>1, <3>1
  <2>4. ~(First(E, b) < First(E, a))
    <3>1. First(E, b) < First(E, a) => First(T, b) < First(T, a)
      BY <1>4
    <3>2. QED
      BY <1>5, <2>2, <3>1
  <2>5. QED
    BY <2>1, <2>3, <2>4
<1>6. QED
  BY <1>3, <1>4, <1>5 DEF T, E

(* What was parsed is what the trace shows.                                *)
LEMMA ParsedRange ==
  ASSUME NEW pc \in Seq(PcKeys), NEW order, Parsed(order, pc, Len(pc))
  PROVE  Range(order) = Range(pc)
<1>1. DOMAIN pc = 1..Len(pc) /\ DOMAIN order = 1..Len(order)
  BY DEF Parsed
<1>2. ASSUME NEW x \in Range(order) PROVE x \in Range(pc)
  <2>1. PICK i \in 1..Len(order) : order[i] = x
    BY <1>1 DEF Range
  <2>2. PICK m \in 1..Len(pc) : pc[m] = order[i]
    BY DEF Parsed
  <2>3. QED
    BY <1>1, <2>1, <2>2 DEF Range
<1>3. ASSUME NEW x \in Range(pc) PROVE x \in Range(order)
  <2>1. PICK m \in 1..Len(pc) : pc[m] = x
    BY <1>1 DEF Range
  <2>2. PICK i \in 1..Len(order) : order[i] = pc[m]
    BY DEF Parsed
  <2>3. QED
    BY <1>1, <2>1, <2>2 DEF Range
<1>4. QED
  BY <1>2, <1>3

(* The order parsed is the order of the first lines.                         *)
LEMMA ParsedSorted ==
  ASSUME NEW pc \in Seq(PcKeys), NEW order, Parsed(order, pc, Len(pc)),
         NEW i \in 1..Len(order), NEW j \in 1..Len(order), i < j
  PROVE  First(pc, order[i]) < First(pc, order[j])
<1>1. order[i] \in Range(pc) /\ order[j] \in Range(pc)
  <2>1. order[i] \in Range(order) /\ order[j] \in Range(order)
    <3>1. order \in Seq(PcKeys)
      BY DEF Parsed
    <3>2. QED
      BY <3>1 DEF Range
  <2>2. QED
    BY <2>1, ParsedRange
<1>2. PICK m \in 1..Len(pc) : pc[m] = order[i] /\ \A h \in 1..m : pc[h] # order[j]
  BY DEF Parsed
<1>3. QED
  BY <1>1, <1>2, MetBefore

(* There is one such order: two of the same trace begin alike.               *)
LEMMA SameParse ==
  ASSUME NEW pc \in Seq(PcKeys),
         NEW o1, Parsed(o1, pc, Len(pc)), NEW o2, Parsed(o2, pc, Len(pc))
  PROVE  Len(o1) <= Len(o2) /\ \A i \in 1..Len(o1) : o1[i] = o2[i]
<1> DEFINE Bad == {i \in 1..Len(o1) : i > Len(o2) \/ o1[i] # o2[i]}
<1>1. o1 \in Seq(PcKeys) /\ o2 \in Seq(PcKeys)
  BY DEF Parsed
<1>2. Range(o1) = Range(pc) /\ Range(o2) = Range(pc)
  BY ParsedRange
<1>3. \A k \in Range(pc) : First(pc, k) \in Int
  <2>1. ASSUME NEW k \in Range(pc) PROVE First(pc, k) \in Int
    <3>1. First(pc, k) \in 1..Len(pc)
      BY FirstIs
    <3>2. QED
      BY <3>1
  <2>2. QED
    BY <2>1
<1> DEFINE F(k) == First(pc, k)
<1>4. \A i, j \in 1..Len(o1) : i < j => F(o1[i]) < F(o1[j])
  BY ParsedSorted
<1>5. \A i, j \in 1..Len(o2) : i < j => F(o2[i]) < F(o2[j])
  BY ParsedSorted
<1> HIDE DEF F
<1>6. Bad = {}
  <2>1. SUFFICES ASSUME Bad # {} PROVE FALSE
    OBVIOUS
  <2>2. PICK t \in Bad : \A m \in Bad : t <= m
    <3>1. Bad \subseteq Nat
      OBVIOUS
    <3>2. QED
      BY <2>1, <3>1, LeastExists
  <2>3. t \in 1..Len(o1) /\ (t > Len(o2) \/ o1[t] # o2[t])
    OBVIOUS
  <2>4. \A m \in 1..t - 1 : m \in 1..Len(o2) /\ o1[m] = o2[m]
    <3>1. ASSUME NEW m \in 1..t - 1 PROVE m \in 1..Len(o2) /\ o1[m] = o2[m]
      <4>1. m \in 1..Len(o1) /\ ~(t <= m)
        BY <1>1, <2>3
      <4>2. m \notin Bad
        BY <2>2, <4>1
      <4>3. QED
        BY <1>1, <4>1, <4>2
    <3>2. QED
      BY <3>1
  <2>5. PICK j \in 1..Len(o2) : o2[j] = o1[t]
    <3>1. o1[t] \in Range(o2)
      BY <1>1, <1>2, <2>3, IsInRange
    <3>2. QED
      BY <1>1, <3>1, InRange
  <2>6. F(o1[t]) \in Int
    <3>1. o1[t] \in Range(pc)
      BY <1>1, <1>2, <2>3, IsInRange
    <3>2. QED
      BY <1>3, <3>1 DEF F
  <2>7. ~(j < t)
    <3>1. SUFFICES ASSUME j < t PROVE FALSE
      OBVIOUS
    <3>2. j \in 1..t - 1 /\ j \in 1..Len(o1)
      BY <1>1, <2>3, <3>1
    <3>3. o1[j] = o1[t] /\ F(o1[j]) < F(o1[t])
      BY <1>4, <2>3, <2>4, <2>5, <3>1, <3>2
    <3>4. QED
      BY <2>6, <3>3
  <2>8. t \in 1..Len(o2) /\ t < j
    BY <1>1, <2>3, <2>5, <2>7
  <2>9. PICK k \in 1..Len(o1) : o1[k] = o2[t]
    <3>1. o2[t] \in Range(o1)
      BY <1>1, <1>2, <2>8, IsInRange
    <3>2. QED
      BY <1>1, <3>1, InRange
  <2>10. F(o2[t]) < F(o1[t]) /\ F(o2[t]) \in Int
    <3>1. o2[t] \in Range(pc)
      BY <1>1, <1>2, <2>8, IsInRange
    <3>2. F(o2[t]) < F(o2[j])
      BY <1>5, <2>8
    <3>3. QED
      BY <1>3, <2>5, <3>1, <3>2 DEF F
  <2>11. k < t
    <3>1. k # t
      BY <2>3, <2>8, <2>9
    <3>2. ~(t < k)
      <4>1. t < k => F(o1[t]) < F(o1[k])
        BY <1>4, <2>3
      <4>2. QED
        BY <2>6, <2>9, <2>10, <4>1
    <3>3. QED
      BY <1>1, <2>3, <3>1, <3>2
  <2>12. o2[k] = o2[t] /\ k \in 1..Len(o2)
    <3>1. k \in 1..t - 1
      BY <2>11, <2>3
    <3>2. QED
      BY <2>4, <2>9, <3>1
  <2>13. F(o2[k]) < F(o2[t])
    BY <1>5, <2>8, <2>11, <2>12
  <2>14. QED
    BY <2>10, <2>12, <2>13
<1>7. Len(o1) <= Len(o2)
  <2>1. Len(o1) > Len(o2) => Len(o1) \in Bad
    BY <1>1
  <2>2. QED
    BY <1>1, <1>6, <2>1
<1>8. QED
  BY <1>1, <1>6, <1>7

(* No two milestones of both traces come in another order.                   *)
LEMMA OrderPreserved ==
  ASSUME NEW p1 \in Seq(PcKeys), NEW o1, Parsed(o1, p1, Len(p1)),
         NEW p2 \in Seq(PcKeys), NEW o2, Parsed(o2, p2, Len(p2)),
         Range(p1) \subseteq Range(p2),
         Kept(o1, Range(o2)) = Kept(o2, Range(Kept(o1, Range(o2)))),
         NEW a \in Range(p1), NEW b \in Range(p1), First(p1, a) < First(p1, b)
  PROVE  First(p2, a) < First(p2, b)
<1>1. o1 \in Seq(PcKeys) /\ o2 \in Seq(PcKeys)
  BY DEF Parsed
<1>2. Range(o1) = Range(p1) /\ Range(o2) = Range(p2)
  BY ParsedRange
<1>3. Kept(o1, Range(o2)) = o1
  BY <1>1, <1>2, KeptFacts
<1>4. o1 = Kept(o2, Range(o1))
  BY <1>3
<1>5. PICK i \in 1..Len(o1), j \in 1..Len(o1) : o1[i] = a /\ o1[j] = b
  <2>1. a \in Range(o1) /\ b \in Range(o1)
    BY <1>2
  <2>2. (\E i \in 1..Len(o1) : o1[i] = a) /\ (\E j \in 1..Len(o1) : o1[j] = b)
    BY <1>1, <2>1, InRange
  <2>3. QED
    BY <2>2
<1>6. First(p1, a) \in Int /\ First(p1, b) \in Int
  <2>1. First(p1, a) \in 1..Len(p1) /\ First(p1, b) \in 1..Len(p1)
    BY FirstIs
  <2>2. QED
    BY <2>1
<1>7. i < j
  <2>1. i # j
    BY <1>5, <1>6
  <2>2. j < i => First(p1, b) < First(p1, a)
    BY <1>5, ParsedSorted
  <2>3. QED
    BY <1>6, <2>1, <2>2
<1> DEFINE InOrder(s) == \A m, n \in 1..Len(s) :
                          m < n => \E p, q \in 1..Len(o2) : p < q /\ o2[p] = s[m] /\ o2[q] = s[n]
<1>8. InOrder(o1)
  <2>1. InOrder(Kept(o2, Range(o1)))
    BY <1>1, KeptFacts
  <2> HIDE DEF InOrder
  <2>2. QED
    BY <1>4, <2>1, Zenon
<1>9. PICK p \in 1..Len(o2), q \in 1..Len(o2) : p < q /\ o2[p] = a /\ o2[q] = b
  BY <1>5, <1>7, <1>8
<1>10. QED
  BY <1>9, ParsedSorted

(* The exit code is what the two traces give.                                *)
LEMMA BootCompare ==
  ASSUME BootInv, Compare
  PROVE  BootInv'
<1> DEFINE o1 == facts["base"].pc_order
           o2 == facts["this"].pc_order
           t1 == Trace(base_run)
           t2 == Trace(this_run)
           e1 == Executed(base_run)
           e2 == Executed(this_run)
<1>1. /\ base_run' = base_run /\ this_run' = this_run /\ facts' = facts /\ unread' = unread
      /\ at = "compare" /\ at' = "done"
  BY DEF Compare
<1>2. base_run.pc \in Seq(Fetches) /\ this_run.pc \in Seq(Fetches)
  BY DEF BootInv, BootType
<1>3. ReadWhole(this_run, facts["this"]) /\ ReadWhole(base_run, facts["base"])
  BY <1>1 DEF BootInv, Progress
<1>4. /\ t1 \in Seq(PcKeys) /\ t2 \in Seq(PcKeys)
      /\ Range(t1) \subseteq Range(e1) /\ Range(t2) \subseteq Range(e2)
  BY <1>2, BootTraceIs
<1>5. Parsed(o1, t1, Len(t1)) /\ Parsed(o2, t2, Len(t2))
  BY <1>3 DEF ReadWhole
<1>6. /\ facts["base"].reached = {t1[m] : m \in 1..Len(t1)} \cup OtherMilestones(base_run.events)
      /\ facts["this"].reached = {t2[m] : m \in 1..Len(t2)} \cup OtherMilestones(this_run.events)
  BY <1>3 DEF ReadWhole
<1>7. /\ FirstsLogged(base_run) =>
           /\ Range(e1) = Range(t1)
           /\ \A a, b \in Range(e1) : First(e1, a) < First(e1, b) <=> First(t1, a) < First(t1, b)
      /\ FirstsLogged(this_run) =>
           /\ Range(e2) = Range(t2)
           /\ \A a, b \in Range(e2) : First(e2, a) < First(e2, b) <=> First(t2, a) < First(t2, b)
  BY <1>2, FirstsSeen
<1> HIDE DEF t1, t2, e1, e2
<1>8. /\ facts["base"].reached = Range(t1) \cup OtherMilestones(base_run.events)
      /\ facts["this"].reached = Range(t2) \cup OtherMilestones(this_run.events)
  BY <1>4, <1>6 DEF Range
<1>9. ASSUME rc' = 0
      PROVE  /\ Range(t1) \subseteq Range(t2)
             /\ OtherMilestones(base_run.events) \subseteq OtherMilestones(this_run.events)
             /\ \A a, b \in Range(t1) : First(t1, a) < First(t1, b) => First(t2, a) < First(t2, b)
  <2>1. /\ facts["base"].reached \subseteq facts["this"].reached
        /\ Kept(o1, Range(o2)) = Kept(o2, Range(Kept(o1, Range(o2))))
    BY <1>9 DEF Compare, Shared, NewShared
  <2>2. Range(t1) \subseteq PcKeys /\ Range(t2) \subseteq PcKeys /\ PcKeys \cap OtherKeys = {}
    BY <1>4, TraceAssumption DEF Range, OtherKeys
  <2>3. OtherMilestones(base_run.events) \subseteq OtherKeys /\ OtherMilestones(this_run.events) \subseteq OtherKeys
    BY DEF OtherMilestones, OtherKeys
  <2>4. /\ Range(t1) \subseteq Range(t2)
        /\ OtherMilestones(base_run.events) \subseteq OtherMilestones(this_run.events)
    BY <1>8, <2>1, <2>2, <2>3
  <2>5. ASSUME NEW a \in Range(t1), NEW b \in Range(t1), First(t1, a) < First(t1, b)
        PROVE  First(t2, a) < First(t2, b)
    BY <1>4, <1>5, <2>1, <2>4, <2>5, OrderPreserved
  <2>6. QED
    BY <2>4, <2>5
<1>10. ASSUME rc' = 0, FirstsLogged(base_run), FirstsLogged(this_run)
       PROVE  /\ Range(e1) \subseteq Range(e2)
              /\ \A a, b \in Range(e1) : First(e1, a) < First(e1, b) => First(e2, a) < First(e2, b)
  <2>1. Range(e1) = Range(t1) /\ Range(e2) = Range(t2) /\ Range(t1) \subseteq Range(t2)
    BY <1>7, <1>9, <1>10
  <2>2. ASSUME NEW a \in Range(e1), NEW b \in Range(e1), First(e1, a) < First(e1, b)
        PROVE  First(e2, a) < First(e2, b)
    <3>1. First(t1, a) < First(t1, b)
      BY <1>7, <1>10, <2>2
    <3>2. First(t2, a) < First(t2, b)
      BY <1>9, <1>10, <2>1, <3>1
    <3>3. QED
      BY <1>7, <1>10, <2>1, <3>2
  <2>3. QED
    BY <2>1, <2>2
<1>11. ASSUME t2 = t1, this_run.events = base_run.events, Required \subseteq facts["this"].reached
       PROVE  rc' = 0
  <2>1. o1 \in Seq(PcKeys) /\ o2 \in Seq(PcKeys)
    BY <1>5 DEF Parsed
  <2>2. o1 = o2
    <3>1. /\ Len(o1) <= Len(o2) /\ \A i \in 1..Len(o1) : o1[i] = o2[i]
          /\ Len(o2) <= Len(o1)
      BY <1>4, <1>5, <1>11, SameParse
    <3>2. Len(o1) = Len(o2)
      BY <2>1, <3>1
    <3>3. QED
      BY <2>1, <3>1, <3>2, SeqEqual
  <2>3. Kept(o1, Range(o1)) = o1
    BY <2>1, KeptFacts
  <2>4. Shared = NewShared
    BY <2>2, <2>3 DEF Shared, NewShared
  <2>5. facts["base"].reached \subseteq facts["this"].reached
    BY <1>8, <1>11
  <2>6. QED
    BY <1>11, <2>4, <2>5 DEF Compare
<1>12. rc' = 0 =>
         /\ Range(t1) \subseteq Range(e2)
         /\ OtherMilestones(base_run.events) \subseteq OtherMilestones(this_run.events)
         /\ SameOrder(t1, t2)
         /\ FirstsLogged(base_run) /\ FirstsLogged(this_run) =>
              Range(e1) \subseteq Range(e2) /\ SameOrder(e1, e2)
  <2>1. ASSUME rc' = 0 PROVE Range(t1) \subseteq Range(e2) /\ SameOrder(t1, t2)
    BY <1>4, <1>9, <2>1 DEF SameOrder
  <2>2. ASSUME rc' = 0, FirstsLogged(base_run), FirstsLogged(this_run)
        PROVE  Range(e1) \subseteq Range(e2) /\ SameOrder(e1, e2)
    BY <1>10, <2>2 DEF SameOrder
  <2>3. QED
    BY <1>9, <2>1, <2>2
<1>13. ExitCodeIsTrue'
  BY <1>1, <1>11, <1>12 DEF ExitCodeIsTrue, t1, t2, e1, e2
<1>14. BootType' /\ Progress'
  BY <1>1 DEF BootInv, BootType, Progress
<1>15. QED
  BY <1>13, <1>14 DEF BootInv

(* Every step keeps the invariant.                                         *)
LEMMA BootStep ==
  ASSUME BootInv, BootNext \/ UNCHANGED bootVars
  PROVE  BootInv'
<1>1. CASE BootNext
  BY <1>1, BootParsePc, BootParseRest, BootCompare DEF BootNext
<1>2. CASE UNCHANGED bootVars
  <2>1. UNCHANGED <<base_run, this_run, at, unread, facts, rc>>
    BY <1>2 DEF bootVars
  <2>2. BootType' /\ Progress'
    BY <2>1 DEF BootInv, BootType, Progress
  <2>3. ExitCodeIsTrue'
    BY <2>1 DEF BootInv, ExitCodeIsTrue
  <2>4. QED
    BY <2>2, <2>3 DEF BootInv
<1>3. QED
  BY <1>1, <1>2

(* What an exit code of 0 of check_boot.py promises, for all traces and        *)
(* milestones: every milestone of the baseline's trace was executed by the    *)
(* run, none of the other files lacks one, and the traces agree on the order  *)
(* of the milestones, however often each was visited.  Of the two boots it     *)
(* says as much only if the tap, which leaves out what is entered by falling   *)
(* through and stops at its cap, caught the first fetch of each milestone.  A   *)
(* run whose files repeat the baseline's gets a 0.                            *)
THEOREM ExitCodesAreTrue == Spec => []ExitCodeIsTrue
<1>1. Init => BootInv
  BY BootStart DEF Init
<1>2. BootInv /\ [Next]_vars => BootInv'
  BY BootStep DEF Next, vars
<1>3. BootInv => ExitCodeIsTrue
  BY DEF BootInv
<1>4. QED
  BY <1>1, <1>2, <1>3, PTL DEF Spec

-----------------------------------------------------------------------------
(* Lists: where FlattenSeq puts each.                                      *)

(* The items of two sequences joined.                                      *)
LEMMA ConcatFacts ==
  ASSUME NEW S, NEW s1 \in Seq(S), NEW s2 \in Seq(S)
  PROVE  /\ s1 \o s2 \in Seq(S)
         /\ Len(s1 \o s2) = Len(s1) + Len(s2)
         /\ \A j \in 1..Len(s1) : (s1 \o s2)[j] = s1[j]
         /\ \A j \in 1..Len(s2) : (s1 \o s2)[Len(s1) + j] = s2[j]
<1>1. Len(s1) \in Nat /\ Len(s2) \in Nat
  OBVIOUS
<1>2. /\ s1 \o s2 \in Seq(S)
      /\ Len(s1 \o s2) = Len(s1) + Len(s2)
  BY ConcatProperties
<1>3. ASSUME NEW j \in 1..Len(s1) PROVE (s1 \o s2)[j] = s1[j]
  BY <1>1, ConcatProperties
<1>4. ASSUME NEW j \in 1..Len(s2) PROVE (s1 \o s2)[Len(s1) + j] = s2[j]
  BY <1>1, ConcatProperties
<1>5. QED
  BY <1>2, <1>3, <1>4

(* FlattenSeq gives a sequence.                                            *)
LEMMA FlattenType ==
  ASSUME NEW S, NEW ss \in Seq(Seq(S))
  PROVE  FlattenSeq(ss) \in Seq(S)
<1>1. PICK f \in [0..Len(ss) -> Seq(S)] : f[Len(ss)] = FlattenSeq(ss)
  <2>1. Joinings(S, ss) # {}
    BY FlattenIs
  <2>2. QED
    BY <2>1, Zenon DEF Joinings
<1>2. Len(ss) \in 0..Len(ss)
  OBVIOUS
<1>3. QED
  BY <1>1, <1>2

(* Where each sequence begins in what FlattenSeq makes of them.              *)
Offsets(ss) ==
  {off \in [0..Len(ss) -> Nat] :
     /\ off[0] = 0 /\ off[Len(ss)] = Len(FlattenSeq(ss))
     /\ \A i \in 1..Len(ss) :
          /\ off[i] = off[i - 1] + Len(ss[i]) /\ off[i] <= Len(FlattenSeq(ss))
          /\ \A j \in 1..Len(ss[i]) : FlattenSeq(ss)[off[i - 1] + j] = ss[i][j]}

(* Each sequence is in it, at its offset.                                  *)
LEMMA FlattenLayout ==
  ASSUME NEW S, NEW ss \in Seq(Seq(S))
  PROVE  Offsets(ss) # {}
<1> DEFINE n == Len(ss)
           F == FlattenSeq(ss)
<1>1. PICK f \in [0..n -> Seq(S)] :
        f[0] = <<>> /\ f[n] = F /\ \A i \in 1..n : f[i] = f[i - 1] \o ss[i]
  <2>1. Joinings(S, ss) # {}
    BY FlattenIs
  <2>2. QED
    BY <2>1, Zenon DEF Joinings
<1>2. n \in Nat /\ \A i \in 1..n : ss[i] \in Seq(S) /\ i - 1 \in 0..n /\ i \in 0..n
  OBVIOUS
<1> HIDE DEF F
<1>3. ASSUME NEW i \in 1..n
      PROVE  /\ Len(f[i]) = Len(f[i - 1]) + Len(ss[i])
             /\ \A j \in 1..Len(f[i - 1]) : f[i][j] = f[i - 1][j]
             /\ \A j \in 1..Len(ss[i]) : f[i][Len(f[i - 1]) + j] = ss[i][j]
  <2>1. f[i - 1] \in Seq(S) /\ ss[i] \in Seq(S) /\ f[i] = f[i - 1] \o ss[i]
    BY <1>1, <1>2
  <2> DEFINE a == f[i - 1]
             b == ss[i]
  <2> HIDE DEF a, b
  <2>2. a \in Seq(S) /\ b \in Seq(S) /\ f[i] = a \o b
    BY <2>1 DEF a, b
  <2>3. /\ Len(a \o b) = Len(a) + Len(b)
        /\ \A j \in 1..Len(a) : (a \o b)[j] = a[j]
        /\ \A j \in 1..Len(b) : (a \o b)[Len(a) + j] = b[j]
    BY <2>2, ConcatFacts
  <2>4. /\ Len(f[i]) = Len(a) + Len(b)
        /\ \A j \in 1..Len(a) : f[i][j] = a[j]
        /\ \A j \in 1..Len(b) : f[i][Len(a) + j] = b[j]
    BY <2>2, <2>3, Zenon
  <2>5. QED
    BY <2>4 DEF a, b
<1>4. ASSUME NEW i \in 0..n
      PROVE  Len(f[i]) <= Len(F) /\ \A j \in 1..Len(f[i]) : F[j] = f[i][j]
  <2> DEFINE T == {m \in 0..n : i <= m => /\ Len(f[i]) <= Len(f[m])
                                          /\ \A j \in 1..Len(f[i]) : f[m][j] = f[i][j]}
  <2>1. \A m \in 0..n : Len(f[m]) \in Nat
    BY <1>1
  <2>2. 0 \in T
    BY <1>2, <2>1
  <2>3. ASSUME NEW m \in 1..n, m - 1 \in T PROVE m \in T
    <3>1. CASE i <= m - 1
      <4>1. /\ Len(f[i]) <= Len(f[m - 1])
            /\ \A j \in 1..Len(f[i]) : f[m - 1][j] = f[i][j]
        BY <2>3, <3>1
      <4>2. Len(ss[m]) \in Nat /\ Len(f[m]) = Len(f[m - 1]) + Len(ss[m])
        <5>1. ss[m] \in Seq(S)
          BY <1>2
        <5>2. QED
          BY <1>3, <5>1, LenProperties
      <4>3. Len(f[i]) <= Len(f[m])
        <5> DEFINE a == Len(f[i])
                   b == Len(f[m - 1])
                   c == Len(ss[m])
                   d == Len(f[m])
        <5>1. a \in Nat /\ b \in Nat
          BY <1>2, <2>1
        <5>2. c \in Nat /\ d = b + c /\ a <= b
          BY <4>1, <4>2
        <5> HIDE DEF a, b, c, d
        <5>3. a <= d
          BY <5>1, <5>2
        <5>4. QED
          BY <5>3 DEF a, d
      <4>4. ASSUME NEW j \in 1..Len(f[i]) PROVE f[m][j] = f[i][j]
        <5>1. j \in 1..Len(f[m - 1])
          BY <1>2, <2>1, <4>1
        <5>2. QED
          BY <1>3, <4>1, <5>1
      <4>5. QED
        BY <1>2, <4>3, <4>4
    <3>2. CASE i = m
      BY <1>2, <2>1, <3>2
    <3>3. CASE i > m
      BY <1>2, <3>3
    <3>4. QED
      BY <3>1, <3>2, <3>3
  <2>4. n \in T
    <3>1. 0..n \subseteq T
      <4> HIDE DEF T
      <4>1. QED
        BY <1>2, <2>2, <2>3, CountsUp
    <3>2. QED
      BY <1>2, <3>1
  <2>5. QED
    BY <1>1, <2>4
<1> DEFINE off == [i \in 0..n |-> Len(f[i])]
<1>5. off \in [0..n -> Nat] /\ off[0] = 0 /\ off[n] = Len(F)
  BY <1>1, <1>2
<1>6. ASSUME NEW i \in 1..n
      PROVE  /\ off[i] = off[i - 1] + Len(ss[i]) /\ off[i] <= Len(F)
             /\ \A j \in 1..Len(ss[i]) : F[off[i - 1] + j] = ss[i][j]
  <2>1. off[i] = Len(f[i]) /\ off[i - 1] = Len(f[i - 1]) /\ Len(f[i - 1]) \in Nat /\ Len(ss[i]) \in Nat
    BY <1>1, <1>2
  <2>2. off[i] = off[i - 1] + Len(ss[i]) /\ off[i] <= Len(F)
    BY <1>2, <1>3, <1>4, <2>1
  <2>3. ASSUME NEW j \in 1..Len(ss[i]) PROVE F[off[i - 1] + j] = ss[i][j]
    <3>1. Len(f[i - 1]) + j \in 1..Len(f[i])
      <4> DEFINE b == Len(f[i - 1])
                 c == Len(ss[i])
                 d == Len(f[i])
      <4>1. d = b + c /\ b \in Nat /\ c \in Nat /\ j \in 1..c
        BY <1>3, <2>1
      <4> HIDE DEF b, c, d
      <4>2. b + j \in 1..d
        BY <4>1
      <4>3. QED
        BY <4>2 DEF b, d
    <3>2. F[Len(f[i - 1]) + j] = f[i][Len(f[i - 1]) + j]
      BY <1>2, <1>4, <3>1
    <3>3. QED
      BY <1>3, <2>1, <3>2
  <2>4. QED
    BY <2>2, <2>3
<1>7. off \in Offsets(ss)
  <2> HIDE DEF off
  <2>1. QED
    BY <1>5, <1>6, Zenon DEF Offsets, F
<1>8. QED
  BY <1>7

(* Sequences of one item each.                                               *)
LEMMA FlattenSingles ==
  ASSUME NEW S, NEW s \in Seq(S)
  PROVE  FlattenSeq([i \in 1..Len(s) |-> <<s[i]>>]) = s
<1> DEFINE ss == [i \in 1..Len(s) |-> <<s[i]>>]
           F == FlattenSeq(ss)
<1>1. ss \in Seq(Seq(S)) /\ Len(ss) = Len(s) /\ \A i \in 1..Len(s) : ss[i] = <<s[i]>>
  <2>1. \A i \in 1..Len(s) : s[i] \in S
    OBVIOUS
  <2>2. \A i \in 1..Len(s) : <<s[i]>> \in Seq(S)
    BY <2>1
  <2>3. ss \in [1..Len(s) -> Seq(S)]
    BY <2>2
  <2>4. QED
    BY <2>3
<1> HIDE DEF ss
<1>2. PICK off \in [0..Len(s) -> Nat] :
        /\ off[0] = 0 /\ off[Len(s)] = Len(F)
        /\ \A i \in 1..Len(s) :
             /\ off[i] = off[i - 1] + Len(ss[i])
             /\ \A j \in 1..Len(ss[i]) : F[off[i - 1] + j] = ss[i][j]
  <2>1. Offsets(ss) # {}
    BY <1>1, FlattenLayout
  <2>2. PICK off \in Offsets(ss) : TRUE
    BY <2>1
  <2>3. /\ off \in [0..Len(s) -> Nat] /\ off[0] = 0 /\ off[Len(s)] = Len(FlattenSeq(ss))
        /\ \A i \in 1..Len(ss) :
             /\ off[i] = off[i - 1] + Len(ss[i])
             /\ \A j \in 1..Len(ss[i]) : FlattenSeq(ss)[off[i - 1] + j] = ss[i][j]
    BY <1>1, <2>2, Zenon DEF Offsets
  <2>4. QED
    BY <1>1, <2>3, Zenon
<1>3. F \in Seq(S)
  BY <1>1, FlattenType
<1> HIDE DEF F
<1> DEFINE T == {i \in 0..Len(s) : off[i] = i}
<1>4. ASSUME NEW i \in 1..Len(s) PROVE Len(ss[i]) = 1 /\ ss[i][1] = s[i]
  <2>1. ss[i] = <<s[i]>>
    BY <1>1
  <2>2. QED
    BY <2>1
<1>5. 0..Len(s) \subseteq T
  <2>1. 0 \in T
    BY <1>2
  <2>2. ASSUME NEW i \in 1..Len(s), i - 1 \in T PROVE i \in T
    <3>1. off[i] = off[i - 1] + Len(ss[i]) /\ Len(ss[i]) = 1
      BY <1>2, <1>4
    <3>2. QED
      BY <2>2, <3>1
  <2>3. Len(s) \in Nat
    OBVIOUS
  <2> HIDE DEF T
  <2>4. QED
    BY <2>1, <2>2, <2>3, CountsUp
<1>6. Len(F) = Len(s)
  <2>1. Len(s) \in 0..Len(s)
    OBVIOUS
  <2>2. QED
    BY <1>2, <1>5, <2>1
<1>7. ASSUME NEW i \in 1..Len(s) PROVE F[i] = s[i]
  <2>1. i - 1 \in 0..Len(s) /\ 1 \in 1..Len(ss[i])
    BY <1>4
  <2>2. F[off[i - 1] + 1] = ss[i][1]
    BY <1>2, <2>1
  <2>3. off[i - 1] + 1 = i
    BY <1>5, <2>1
  <2>4. QED
    BY <1>4, <2>2, <2>3
<1>8. F = s
  BY <1>3, <1>6, <1>7, SeqEqual
<1>9. QED
  BY <1>8 DEF F, ss

-----------------------------------------------------------------------------
(* The virtual pad, mister_press.py.                                       *)

(* What Main acts on: a key, with the keys that were down before it.         *)
Press == [code : Nat, with : SUBSET Nat]

(* A combo without a key twice. *)
Chords == {c \in Seq(Nat) : Len(c) >= 1 /\ \A i, j \in 1..Len(c) : c[i] = c[j] => i = j}

(* The j-th press of a combo.                                              *)
PressOf(c, j) == [code |-> c[j], with |-> {c[m] : m \in 1..j - 1}]

(* The presses of each combo.                                              *)
PressLists(combos) ==
  [i \in 1..Len(combos) |-> [j \in 1..Len(combos[i]) |-> PressOf(combos[i], j)]]

(* Where the presses of each combo begin among those of the sequence.        *)
Starts(combos) ==
  {off \in [0..Len(combos) -> Nat] :
     /\ off[0] = 0 /\ off[Len(combos)] = Len(Presses(combos))
     /\ \A i \in 1..Len(combos) :
          /\ off[i] = off[i - 1] + Len(combos[i]) /\ off[i] <= Len(Presses(combos))
          /\ \A j \in 1..Len(combos[i]) : Presses(combos)[off[i - 1] + j] = PressOf(combos[i], j)}

(* Those offsets.                                                          *)
FirstSent(combos) == CHOOSE off \in Starts(combos) : TRUE

(* There are such offsets.                                                 *)
LEMMA PressLayout ==
  ASSUME NEW combos \in Seq(Chords)
  PROVE  FirstSent(combos) \in Starts(combos) /\ Presses(combos) \in Seq(Press)
<1> DEFINE ss == PressLists(combos)
           n == Len(combos)
<1>1. n \in Nat /\ \A i \in 1..n : combos[i] \in Seq(Nat)
  BY DEF Chords
<1>2. ASSUME NEW i \in 1..n
      PROVE  /\ ss[i] = [j \in 1..Len(combos[i]) |-> PressOf(combos[i], j)]
             /\ ss[i] \in Seq(Press) /\ Len(ss[i]) = Len(combos[i])
  <2> DEFINE c == combos[i]
  <2>1. c \in Seq(Nat)
    BY <1>1
  <2> HIDE DEF c
  <2>2. \A j \in 1..Len(c) : PressOf(c, j) \in Press
    <3>1. ASSUME NEW j \in 1..Len(c) PROVE PressOf(c, j) \in Press
      <4>1. c[j] \in Nat /\ {c[m] : m \in 1..j - 1} \in SUBSET Nat
        BY <2>1
      <4>2. QED
        BY <4>1 DEF PressOf, Press
    <3>2. QED
      BY <3>1
  <2>3. /\ [j \in 1..Len(c) |-> PressOf(c, j)] \in Seq(Press)
        /\ Len([j \in 1..Len(c) |-> PressOf(c, j)]) = Len(c)
    BY <2>1, <2>2
  <2>4. ss[i] = [j \in 1..Len(c) |-> PressOf(c, j)]
    BY DEF PressLists, c
  <2>5. QED
    BY <2>3, <2>4 DEF c
<1>3. ss \in Seq(Seq(Press)) /\ Len(ss) = n
  <2>1. ss = [i \in 1..n |-> ss[i]]
    BY DEF PressLists
  <2> HIDE DEF ss
  <2>2. QED
    BY <1>1, <1>2, <2>1
<1>4. Presses(combos) = FlattenSeq(ss)
  BY DEF Presses, PressLists, PressOf
<1> HIDE DEF ss
<1>5. Offsets(ss) # {} /\ FlattenSeq(ss) \in Seq(Press)
  BY <1>3, FlattenLayout, FlattenType
<1>6. PICK off \in Offsets(ss) : TRUE
  BY <1>5
<1>7. /\ off \in [0..n -> Nat] /\ off[0] = 0 /\ off[n] = Len(Presses(combos))
      /\ \A i \in 1..n :
           /\ off[i] = off[i - 1] + Len(ss[i]) /\ off[i] <= Len(Presses(combos))
           /\ \A j \in 1..Len(ss[i]) : Presses(combos)[off[i - 1] + j] = ss[i][j]
  BY <1>3, <1>4, <1>6, Zenon DEF Offsets
<1>8. ASSUME NEW i \in 1..n
      PROVE  /\ off[i] = off[i - 1] + Len(combos[i]) /\ off[i] <= Len(Presses(combos))
             /\ \A j \in 1..Len(combos[i]) : Presses(combos)[off[i - 1] + j] = PressOf(combos[i], j)
  <2>1. Len(ss[i]) = Len(combos[i]) /\ \A j \in 1..Len(combos[i]) : ss[i][j] = PressOf(combos[i], j)
    BY <1>2
  <2>2. QED
    BY <1>7, <2>1
<1>9. off \in Starts(combos)
  BY <1>7, <1>8, Zenon DEF Starts
<1>10. QED
  BY <1>4, <1>5, <1>9 DEF FirstSent

(* Main has acted on the first k presses of the sequence and on no other.    *)
Follows(acts, combos, k) ==
  /\ acts \in Seq(Press) /\ k \in Nat /\ k <= Len(Presses(combos)) /\ Len(acts) = k
  /\ \A i \in 1..k : acts[i] = Presses(combos)[i]

(* Having acted on the first k presses is having acted on a prefix.        *)
LEMMA FollowsIsPrefix ==
  ASSUME NEW combos \in Seq(Chords), NEW acts, NEW k, Follows(acts, combos, k)
  PROVE  IsPrefix(acts, Presses(combos)) /\ (k = Len(Presses(combos)) => acts = Presses(combos))
<1> DEFINE P == Presses(combos)
<1>1. P \in Seq(Press)
  BY PressLayout
<1>2. acts \in Seq(Press) /\ k \in Nat /\ k <= Len(P) /\ Len(acts) = k /\ \A i \in 1..k : acts[i] = P[i]
  BY DEF Follows
<1> HIDE DEF P
<1>3. SubSeq(acts, 1, k) = SubSeq(P, 1, k)
  <2>1. SubSeq(acts, 1, k) \in Seq(Press) /\ SubSeq(P, 1, k) \in Seq(Press)
    BY <1>1, <1>2
  <2>2. Len(SubSeq(acts, 1, k)) = k /\ Len(SubSeq(P, 1, k)) = k
    BY <1>1, <1>2
  <2>3. \A i \in 1..k : SubSeq(acts, 1, k)[i] = acts[i] /\ SubSeq(P, 1, k)[i] = P[i]
    BY <1>1, <1>2
  <2>4. QED
    BY <1>2, <2>1, <2>2, <2>3, SeqEqual
<1>4. IsPrefix(acts, P)
  BY <1>1, <1>2, <1>3 DEF IsPrefix
<1>5. k = Len(P) => acts = P
  BY <1>1, <1>2, SeqEqual
<1>6. QED
  BY <1>4, <1>5 DEF P

(* The stages of the tool.                                                 *)
PressStages == {"open", "wait_pre", "hold", "tap", "release", "wait_post", "closed"}

(* The types of the pad's variables.                                       *)
PressType ==
  /\ asked \in Seq(Chords) /\ seq \in Seq(Chords) /\ Len(seq) <= Len(asked)
  /\ press \in PressStages /\ held \in Nat
  /\ device \in BOOLEAN /\ reader \in BOOLEAN /\ late \in BOOLEAN /\ killed \in BOOLEAN

(* What is left of the sequence is its end. *)
Remaining == \A i \in 1..Len(seq) : seq[i] = asked[Len(asked) - Len(seq) + i]

(* What each stage of the tool implies.                                    *)
PressPhase ==
  /\ press \in {"open", "closed"} => ~device /\ ~reader
  /\ press \in {"open", "wait_pre"} =>
       seq = asked /\ Len(asked) >= 1 /\ held = 0 /\ queue = <<>> /\ keys = {} /\ main_keys = {} /\ acted = <<>>
  /\ press \in {"hold", "tap", "release"} => Len(seq) >= 1 /\ held <= Len(Head(seq)) - 1
  /\ press = "tap" => held = Len(Head(seq)) - 1
  /\ press = "wait_post" => seq = <<>>
  /\ press = "closed" => keys = {} /\ main_keys = {}

(* The presses sent so far, and the keys down after them.                    *)
Current == IF press = "hold" THEN held ELSE IF press \in {"tap", "release"} THEN Len(Head(seq)) ELSE 0

Given == FirstSent(asked)[Len(asked) - Len(seq)] + Current

(* The first n keys of a combo.                                            *)
Pressed(c, n) == {c[m] : m \in 1..n}

(* The keys the tool holds down.                                           *)
Down ==
  IF press \in {"hold", "release"} THEN Pressed(Head(seq), held)
  ELSE IF press = "tap" THEN Pressed(Head(seq), held + 1) ELSE {}

(* Main has read the first n presses, or all but the last event sent.       *)
Heard(q, down, known, acts, combos, n) ==
  \/ q = <<>> /\ known = down /\ Follows(acts, combos, n)
  \/ \E code \in Nat :
       /\ q = <<<<code, 1>>>> /\ down = known \cup {code}
       /\ n \in Nat /\ n >= 1 /\ n <= Len(Presses(combos)) /\ Follows(acts, combos, n - 1)
       /\ Presses(combos)[n] = [code |-> code, with |-> known]
  \/ \E code \in Nat :
       /\ q = <<<<code, 0>>>> /\ down = known \ {code} /\ Follows(acts, combos, n)

(* Once Main listens in time it is at most one event behind, and at the    *)
(* end it has acted on what was sent.                                      *)
Listening ==
  Typable /\ ~late =>
    /\ press \in {"hold", "tap", "release", "wait_post"} =>
         reader /\ keys = Down /\ Heard(queue, keys, main_keys, acted, asked, Given)
    /\ press = "closed" =>
         \E k \in Nat : Follows(acted, asked, k) /\ (~killed => k = Len(Presses(asked)))

(* The inductive invariant of the pad.                                     *)
PressInv == PressType /\ Remaining /\ PressPhase /\ Listening

(* It holds at the start.                                                  *)
LEMMA PressStart ==
  ASSUME PressIdle \/ PressInit
  PROVE  PressInv
<1>1. asked = seq /\ asked \in Seq(Chords) /\ held = 0 /\ device = FALSE /\ keys = {}
      /\ reader = FALSE /\ late = FALSE /\ queue = <<>> /\ main_keys = {} /\ acted = <<>>
      /\ killed = FALSE /\ press \in {"open", "closed"} /\ (press = "closed" => asked = <<>>)
      /\ (press = "open" => Len(asked) >= 1)
  <2>1. CASE PressIdle
    <3>1. <<>> \in Seq(Chords)
      OBVIOUS
    <3>2. QED
      BY <2>1, <3>1 DEF PressIdle
  <2>2. CASE PressInit
    <3>1. \A k \in Codes \cup Buttons : k \in Nat
      BY CodeAssumption
    <3>2. ASSUME NEW k \in Nat PROVE <<k>> \in Chords
      BY DEF Chords
    <3>3. ASSUME NEW c \in Combos PROVE c \in Chords
      <4>1. PICK m \in 1..MaxKeys : c \in [1..m -> Codes]
        BY DEF Combos, SequencesUpTo
      <4>2. c \in [1..m -> Nat] /\ m \in Nat /\ m >= 1
        BY <3>1, <4>1, CodeAssumption
      <4>3. c \in Seq(Nat) /\ Len(c) = m /\ DOMAIN c = 1..m
        BY <4>2
      <4>4. \A i, j \in 1..Len(c) : c[i] = c[j] => i = j
        <5>1. IsInjective(c)
          BY DEF Combos
        <5>2. QED
          BY <4>3, <5>1 DEF IsInjective
      <4>5. Len(c) >= 1 /\ c \in Seq(Nat)
        BY <4>2, <4>3
      <4>6. QED
        BY <4>4, <4>5, Zenon DEF Chords
    <3>4. Combos \subseteq Chords
      BY <3>3
    <3>5. ASSUME NEW s \in SequencesUpTo(Combos, MaxCombos) PROVE s \in Seq(Chords) /\ Len(s) >= 1
      <4>1. PICK m \in 1..MaxCombos : s \in [1..m -> Combos]
        BY DEF SequencesUpTo
      <4>2. s \in [1..m -> Chords] /\ m \in Nat
        BY <3>4, <4>1, CodeAssumption
      <4>3. QED
        BY <4>2
    <3>6. ASSUME NEW b \in Buttons PROVE <<<<b>>>> \in Seq(Chords) /\ Len(<<<<b>>>>) >= 1
      <4>1. <<b>> \in Chords
        BY <3>1, <3>2
      <4>2. QED
        BY <4>1
    <3>7. seq \in Seq(Chords) /\ Len(seq) >= 1
      BY <2>2, <3>5, <3>6 DEF PressInit
    <3>8. QED
      BY <2>2, <3>7 DEF PressInit
  <2>3. QED
    BY <2>1, <2>2
<1>2. PressType /\ Remaining /\ PressPhase
  <2>1. Len(asked) \in Nat
    BY <1>1
  <2>2. PressType
    <3>1. /\ asked \in Seq(Chords) /\ seq \in Seq(Chords) /\ Len(seq) <= Len(asked)
          /\ press \in PressStages /\ held \in Nat
      BY <1>1, <2>1 DEF PressStages
    <3>2. device \in BOOLEAN /\ reader \in BOOLEAN /\ late \in BOOLEAN /\ killed \in BOOLEAN
      BY <1>1, Zenon
    <3>3. QED
      BY <3>1, <3>2, Zenon DEF PressType
  <2>3. Remaining
    BY <1>1, <2>1 DEF Remaining
  <2>4. PressPhase
    BY <1>1 DEF PressPhase
  <2>5. QED
    BY <2>2, <2>3, <2>4
<1>3. Listening
  <2>1. press = "closed" => Follows(acted, asked, 0) /\ Len(Presses(asked)) = 0
    <3>1. SUFFICES ASSUME asked = <<>> PROVE Follows(acted, asked, 0) /\ Len(Presses(asked)) = 0
      BY <1>1
    <3>2. /\ FirstSent(asked)[0] = 0 /\ FirstSent(asked)[Len(asked)] = Len(Presses(asked))
          /\ Len(asked) = 0
      <4>1. FirstSent(asked) \in Starts(asked)
        BY <1>1, PressLayout
      <4>2. QED
        BY <3>1, <4>1 DEF Starts
    <3>3. acted \in Seq(Press) /\ Len(acted) = 0
      BY <1>1
    <3>4. QED
      BY <3>2, <3>3 DEF Follows
  <2>2. QED
    BY <1>1, <2>1 DEF Listening
<1>4. QED
  BY <1>2, <1>3 DEF PressInv

(* The combo under way, among those asked for.                               *)
LEMMA AtCombo ==
  ASSUME PressInv, press \in {"hold", "tap", "release"}
  PROVE  LET n == Len(asked) - Len(seq)
             c == Head(seq)
             off == FirstSent(asked)
         IN  /\ n \in Nat /\ n + 1 \in 1..Len(asked) /\ c = asked[n + 1] /\ c \in Chords
             /\ off[n] \in Nat /\ off[n + 1] = off[n] + Len(c)
             /\ off[n + 1] <= Len(Presses(asked))
             /\ \A j \in 1..Len(c) : Presses(asked)[off[n] + j] = PressOf(c, j)
<1> DEFINE n == Len(asked) - Len(seq)
           c == Head(seq)
           off == FirstSent(asked)
<1>1. /\ asked \in Seq(Chords) /\ seq \in Seq(Chords) /\ Len(seq) <= Len(asked) /\ Len(seq) >= 1
      /\ \A i \in 1..Len(seq) : seq[i] = asked[n + i]
  BY DEF PressInv, PressType, PressPhase, Remaining
<1>2. n \in Nat /\ n + 1 \in 1..Len(asked)
  BY <1>1
<1>3. c = seq[1] /\ c \in Chords /\ c = asked[n + 1]
  BY <1>1
<1>4. off \in Starts(asked)
  BY <1>1, PressLayout
<1> HIDE DEF n, c, off
<1>5. n \in 0..Len(asked) /\ (n + 1) - 1 = n
  BY <1>2
<1>6. /\ off \in [0..Len(asked) -> Nat]
      /\ \A i \in 1..Len(asked) :
           /\ off[i] = off[i - 1] + Len(asked[i]) /\ off[i] <= Len(Presses(asked))
           /\ \A j \in 1..Len(asked[i]) : Presses(asked)[off[i - 1] + j] = PressOf(asked[i], j)
  BY <1>4, Zenon DEF Starts
<1>7. /\ off[n] \in Nat /\ off[n + 1] = off[n] + Len(c) /\ off[n + 1] <= Len(Presses(asked))
      /\ \A j \in 1..Len(c) : Presses(asked)[off[n] + j] = PressOf(c, j)
  BY <1>2, <1>3, <1>5, <1>6
<1>8. QED
  BY <1>2, <1>3, <1>7 DEF n, c, off

(* One key more.                                                           *)
LEMMA PressedMore ==
  ASSUME NEW c, NEW m \in Nat \ {0}
  PROVE  Pressed(c, m) = Pressed(c, m - 1) \cup {c[m]}
<1>1. 1..m = 1..(m - 1) \cup {m}
  OBVIOUS
<1>2. \A x : x \in Pressed(c, m) <=> \E i \in 1..m : x = c[i]
  BY DEF Pressed
<1>3. \A x : x \in Pressed(c, m - 1) <=> \E i \in 1..m - 1 : x = c[i]
  BY DEF Pressed
<1>4. QED
  BY <1>1, <1>2, <1>3

(* A press the kernel takes: Main, who had read everything, has it to read.  *)
LEMMA PressSent ==
  ASSUME NEW combos \in Seq(Chords), NEW c \in Chords,
         NEW m1 \in Nat \ {0}, m1 <= Len(c),
         NEW n1 \in Nat \ {0}, n1 <= Len(Presses(combos)), Presses(combos)[n1] = PressOf(c, m1),
         NEW known, known = Pressed(c, m1 - 1), NEW acts, Follows(acts, combos, n1 - 1)
  PROVE  /\ c[m1] \notin known /\ c[m1] \in Nat
         /\ Heard(<<<<c[m1], 1>>>>, known \cup {c[m1]}, known, acts, combos, n1)
<1> DEFINE m == m1 - 1
<1>1. c \in Seq(Nat) /\ \A i, j \in 1..Len(c) : c[i] = c[j] => i = j
  BY DEF Chords
<1>2. m1 \in 1..Len(c) /\ 1..m \subseteq 1..Len(c) /\ m1 \notin 1..m /\ m = m1 - 1
  BY <1>1
<1>3. c[m1] \notin known /\ c[m1] \in Nat
  <2>1. \A i \in 1..m : c[i] # c[m1]
    BY <1>1, <1>2
  <2>2. QED
    BY <1>1, <1>2, <2>1 DEF Pressed
<1>5. Presses(combos)[n1] = [code |-> c[m1], with |-> known]
  <2>1. Presses(combos)[n1] = [code |-> c[m1], with |-> {c[i] : i \in 1..m1 - 1}]
    BY DEF PressOf
  <2>2. {c[i] : i \in 1..m1 - 1} = known
    BY <1>2 DEF Pressed
  <2>3. QED
    BY <2>1, <2>2
<1>6. n1 \in Nat /\ n1 >= 1 /\ n1 - 1 = n1 - 1
  OBVIOUS
<1> DEFINE code == c[m1]
<1>7. Heard(<<<<code, 1>>>>, known \cup {code}, known, acts, combos, n1)
  <2>1. /\ n1 \in Nat /\ n1 >= 1 /\ n1 <= Len(Presses(combos))
        /\ Follows(acts, combos, n1 - 1)
    BY <1>6
  <2>2. code \in Nat /\ Presses(combos)[n1] = [code |-> code, with |-> known]
    BY <1>3, <1>5
  <2> HIDE DEF code
  <2>3. QED
    BY <2>1, <2>2, Zenon DEF Heard
<1>8. QED
  BY <1>3, <1>7

(* A release.                                                                *)
LEMMA ReleaseSent ==
  ASSUME NEW c \in Chords, NEW m \in Nat, m + 1 <= Len(c), NEW n,
         NEW known, known = Pressed(c, m + 1), NEW acts, NEW combos, Follows(acts, combos, n)
  PROVE  /\ c[m + 1] \in known /\ c[m + 1] \in Nat
         /\ Heard(<<<<c[m + 1], 0>>>>, known \ {c[m + 1]}, known, acts, combos, n)
         /\ known \ {c[m + 1]} = Pressed(c, m)
<1>1. c \in Seq(Nat) /\ \A i, j \in 1..Len(c) : c[i] = c[j] => i = j
  BY DEF Chords
<1>2. m + 1 \in 1..Len(c) /\ 1..m \subseteq 1..Len(c) /\ m + 1 \notin 1..m
      /\ 1..m + 1 = 1..m \cup {m + 1}
  BY <1>1
<1>3. c[m + 1] \in known /\ c[m + 1] \in Nat
  BY <1>1, <1>2 DEF Pressed
<1>4. known \ {c[m + 1]} = Pressed(c, m)
  <2>1. \A x : x \in known <=> \E i \in 1..m + 1 : x = c[i]
    BY DEF Pressed
  <2>2. \A x : x \in Pressed(c, m) <=> \E i \in 1..m : x = c[i]
    BY DEF Pressed
  <2>3. QED
    BY <1>1, <1>2, <2>1, <2>2
<1> DEFINE code == c[m + 1]
<1>5. Heard(<<<<code, 0>>>>, known \ {code}, known, acts, combos, n)
  <2>1. code \in Nat
    BY <1>3
  <2> HIDE DEF code
  <2>2. QED
    BY <2>1, Zenon DEF Heard
<1>6. QED
  BY <1>3, <1>4, <1>5

(* Main reads the event.                                                     *)
LEMMA ReadOne ==
  ASSUME NEW combos \in Seq(Chords), NEW q, q # <<>>, NEW down, NEW known, NEW acts, NEW n,
         Heard(q, down, known, acts, combos, n),
         NEW known2, known2 = IF Head(q)[2] = 1 THEN known \cup {Head(q)[1]} ELSE known \ {Head(q)[1]},
         NEW acts2, acts2 = IF Head(q)[2] = 1 THEN Append(acts, [code |-> Head(q)[1], with |-> known])
                            ELSE acts
  PROVE  Heard(Tail(q), down, known2, acts2, combos, n)
<1>1. CASE \E code \in Nat :
             /\ q = <<<<code, 1>>>> /\ down = known \cup {code}
             /\ n \in Nat /\ n >= 1 /\ n <= Len(Presses(combos)) /\ Follows(acts, combos, n - 1)
             /\ Presses(combos)[n] = [code |-> code, with |-> known]
  <2>1. PICK code \in Nat :
          /\ q = <<<<code, 1>>>> /\ down = known \cup {code}
          /\ n \in Nat /\ n >= 1 /\ n <= Len(Presses(combos)) /\ Follows(acts, combos, n - 1)
          /\ Presses(combos)[n] = [code |-> code, with |-> known]
    BY <1>1
  <2>2. Tail(q) = <<>> /\ Head(q) = <<code, 1>>
    BY <2>1
  <2>3. known2 = down /\ acts2 = Append(acts, Presses(combos)[n])
    BY <2>1, <2>2
  <2>4. Follows(acts2, combos, n)
    <3> DEFINE P == Presses(combos)
    <3>1. P \in Seq(Press)
      BY PressLayout
    <3>2. /\ acts \in Seq(Press) /\ Len(acts) = n - 1 /\ \A i \in 1..n - 1 : acts[i] = P[i]
          /\ n \in Nat /\ n >= 1 /\ n <= Len(P) /\ acts2 = Append(acts, P[n])
      BY <2>1, <2>3 DEF Follows
    <3> HIDE DEF P
    <3>3. P[n] \in Press
      BY <3>1, <3>2
    <3>4. acts2 \in Seq(Press) /\ Len(acts2) = n /\ \A i \in 1..n : acts2[i] = P[i]
      BY <3>2, <3>3
    <3>5. QED
      BY <3>2, <3>4 DEF Follows, P
  <2>5. QED
    BY <2>2, <2>3, <2>4, Zenon DEF Heard
<1>2. CASE \E code \in Nat :
             /\ q = <<<<code, 0>>>> /\ down = known \ {code} /\ Follows(acts, combos, n)
  <2>1. PICK code \in Nat :
          q = <<<<code, 0>>>> /\ down = known \ {code} /\ Follows(acts, combos, n)
    BY <1>2
  <2>2. Tail(q) = <<>> /\ Head(q) = <<code, 0>>
    BY <2>1
  <2>3. known2 = down /\ acts2 = acts
    BY <2>1, <2>2
  <2>4. QED
    BY <2>1, <2>2, <2>3, Zenon DEF Heard
<1>3. QED
  BY <1>1, <1>2, Zenon DEF Heard

(* The keys of a combo are keys the device declares, if all are.            *)
LEMMA ComboTypable ==
  ASSUME PressInv, press \in {"hold", "tap", "release"}, Typable
  PROVE  \A j \in 1..Len(Head(seq)) : Head(seq)[j] \in KeyBits
<1> DEFINE c == Head(seq)
<1>1. Len(asked) - Len(seq) + 1 \in 1..Len(asked) /\ c = asked[Len(asked) - Len(seq) + 1] /\ c \in Chords
  BY AtCombo
<1>2. Range(c) \subseteq KeyBits
  BY <1>1 DEF Typable
<1>3. c \in Seq(Nat)
  BY <1>1 DEF Chords
<1> HIDE DEF c
<1>4. \A j \in 1..Len(c) : c[j] \in Range(c)
  BY <1>3, IsInRange
<1>5. QED
  BY <1>2, <1>4 DEF c

(* A modifier or the last key pressed keeps the invariant.                 *)
LEMMA StepHold ==
  ASSUME PressInv, HoldModifier \/ TapDown
  PROVE  PressInv'
<1> DEFINE n == Len(asked) - Len(seq)
           c == Head(seq)
           off == FirstSent(asked)
<1>1. /\ press = "hold" /\ press' \in {"hold", "tap"} /\ queue = <<>>
      /\ held' \in Nat /\ held' <= Len(c) - 1 /\ (press' = "tap" => held' = Len(c) - 1)
      /\ IF press' = "hold" THEN held' = held + 1 ELSE held' = held
      /\ emit(c[held + 1], 1)
      /\ UNCHANGED <<mode, seq, device, reader, late, main_keys, acted, asked, killed>>
  <2>1. held \in Nat /\ held <= Len(c) - 1 /\ Len(c) \in Nat
    <3>1. c \in Chords
      BY AtCombo DEF HoldModifier, TapDown
    <3>2. QED
      BY <3>1, SMTT(30) DEF PressInv, PressType, PressPhase, HoldModifier, TapDown, Chords
  <2>2. CASE HoldModifier
    BY <2>1, <2>2 DEF HoldModifier, Waited, Combo
  <2>3. CASE TapDown
    <3>0. emit(TapCode, 1) /\ press = "hold" /\ press' = "tap" /\ queue = <<>> /\ held = Len(c) - 1
          /\ UNCHANGED <<mode, seq, held, device, reader, late, main_keys, acted, asked, killed>>
      BY <2>3 DEF TapDown, Waited, Combo
    <3>1. TapCode = c[held + 1]
      BY <2>1, <2>3 DEF TapDown, TapCode, Combo
    <3>2. QED
      BY <2>1, <3>0, <3>1 DEF emit
  <2>4. QED
    BY <2>2, <2>3
<1>2. /\ n \in Nat /\ c \in Chords /\ off[n] \in Nat /\ off[n + 1] = off[n] + Len(c)
      /\ off[n + 1] <= Len(Presses(asked))
      /\ \A j \in 1..Len(c) : Presses(asked)[off[n] + j] = PressOf(c, j)
  BY <1>1, AtCombo
<1>3. /\ asked \in Seq(Chords) /\ held \in Nat /\ held <= Len(c) - 1 /\ Len(c) \in Nat
      /\ Len(Presses(asked)) \in Nat
  <2>1. asked \in Seq(Chords) /\ c \in Seq(Nat)
    BY <1>2 DEF PressInv, PressType, Chords
  <2>2. Presses(asked) \in Seq(Press)
    BY <2>1, PressLayout
  <2>3. QED
    BY <1>1, <2>1, <2>2 DEF PressInv, PressType, PressPhase
<1>4. PressType' /\ Remaining' /\ PressPhase'
  <2>1. PressType'
    BY <1>1 DEF PressInv, PressType, PressStages
  <2>2. Remaining'
    BY <1>1 DEF PressInv, Remaining
  <2>3. Len(seq') >= 1 /\ held' <= Len(Head(seq')) - 1 /\ (press' = "tap" => held' = Len(Head(seq')) - 1)
    BY <1>1 DEF PressInv, PressPhase
  <2>4. PressPhase'
    BY <1>1, <2>3 DEF PressPhase
  <2>5. QED
    BY <2>1, <2>2, <2>4
<1>5. ASSUME Typable', ~late'
      PROVE  reader' /\ keys' = Down' /\ Heard(queue, keys, main_keys, acted, asked, Given)'
  <2>1. Typable /\ ~late
    BY <1>1, <1>5 DEF Typable, KeyBits
  <2>2. reader /\ keys = Down /\ Heard(queue, keys, main_keys, acted, asked, Given)
    BY <1>1, <2>1 DEF PressInv, Listening
  <2>3. Given = off[n] + held /\ Down = Pressed(c, held)
    BY <1>1 DEF Given, Current, Down
  <2>4. main_keys = keys /\ Follows(acted, asked, off[n] + held)
    BY <1>1, <2>2, <2>3 DEF Heard
  <2>5. c[held + 1] \in KeyBits
    <3>1. held + 1 \in 1..Len(c)
      BY <1>3
    <3>2. QED
      BY <1>1, <2>1, <3>1, ComboTypable
  <2> DEFINE k == off[n] + held
  <2>6. /\ c[held + 1] \notin keys /\ c[held + 1] \in Nat
        /\ Heard(<<<<c[held + 1], 1>>>>, keys \cup {c[held + 1]}, keys, acted, asked, k + 1)
        /\ keys \cup {c[held + 1]} = Pressed(c, held + 1)
    <3>1. k \in Nat /\ k + 1 <= Len(Presses(asked)) /\ held + 1 <= Len(c) /\ k + 1 = off[n] + (held + 1)
      <4> DEFINE o == off[n]
                 l == Len(c)
                 p == Len(Presses(asked))
      <4>1. o \in Nat /\ l \in Nat /\ p \in Nat /\ o + l <= p /\ held \in Nat /\ held <= l - 1
        BY <1>2, <1>3
      <4> HIDE DEF o, l, p
      <4>2. o + held \in Nat /\ o + held + 1 <= p /\ held + 1 <= l /\ o + held + 1 = o + (held + 1)
        BY <4>1
      <4>3. QED
        BY <4>2 DEF o, l, p
    <3>2. Presses(asked)[k + 1] = PressOf(c, held + 1)
      <4>1. held + 1 \in 1..Len(c)
        BY <1>3
      <4>2. QED
        BY <1>2, <3>1, <4>1
    <3>3. keys = Pressed(c, held) /\ Follows(acted, asked, k)
      BY <2>2, <2>3, <2>4
    <3>4. asked \in Seq(Chords) /\ c \in Chords /\ held \in Nat
      BY <1>2, <1>3
    <3> DEFINE h == held + 1
               k1 == k + 1
    <3>5. h \in Nat \ {0} /\ k1 \in Nat \ {0} /\ h - 1 = held /\ k1 - 1 = k /\ h <= Len(c) /\ k1 <= Len(Presses(asked))
          /\ Presses(asked)[k1] = PressOf(c, h)
      BY <3>1, <3>2, <3>4
    <3> HIDE DEF n, c, off, k, h, k1
    <3>6. /\ c[h] \notin keys /\ c[h] \in Nat
          /\ Heard(<<<<c[h], 1>>>>, keys \cup {c[h]}, keys, acted, asked, k1)
          /\ keys \cup {c[h]} = Pressed(c, h)
      <4>1. keys = Pressed(c, h - 1) /\ Follows(acted, asked, k1 - 1)
        BY <3>3, <3>5
      <4>3. h \in Nat \ {0} /\ h <= Len(c) /\ k1 \in Nat \ {0} /\ k1 <= Len(Presses(asked))
        BY <3>5
      <4>4. c[h] \notin keys /\ c[h] \in Nat
        BY <3>4, <3>5, <4>1, <4>3, PressSent
      <4>5. Heard(<<<<c[h], 1>>>>, keys \cup {c[h]}, keys, acted, asked, k1)
        BY <3>4, <3>5, <4>1, <4>3, PressSent
      <4>6. keys \cup {c[h]} = Pressed(c, h)
        <5>1. Pressed(c, h) = Pressed(c, h - 1) \cup {c[h]}
          BY <4>3, PressedMore
        <5>2. QED
          BY <4>1, <5>1, Zenon
      <4>2. QED
        BY <4>4, <4>5, <4>6
    <3>7. QED
      BY <3>6 DEF h, k1
  <2>7. keys' = keys \cup {c[held + 1]} /\ queue' = <<<<c[held + 1], 1>>>>
    <3>1. keys' = keys \cup {c[held + 1]} /\ queue' = Append(queue, <<c[held + 1], 1>>)
      BY <1>1, <2>2, <2>5, <2>6 DEF emit
    <3>2. QED
      BY <1>1, <3>1
  <2>8. Down' = Pressed(c, held + 1) /\ Given' = k + 1
    <3>1. Given' = off[n] + Current' /\ Current' = held + 1
      BY <1>1, <1>2, <1>3 DEF Given, Current
    <3>2. Down' = Pressed(c, held + 1)
      BY <1>1, <1>3 DEF Down
    <3>3. QED
      BY <1>2, <1>3, <3>1, <3>2, SMTT(30)
  <2>9. main_keys' = keys /\ acted' = acted /\ asked' = asked /\ reader'
    BY <1>1, <2>2, <2>4
  <2> HIDE DEF n, c, off, k
  <2>10. Heard(queue, keys, main_keys, acted, asked, Given)'
    BY <2>6, <2>7, <2>8, <2>9
  <2>11. QED
    BY <2>6, <2>7, <2>8, <2>9, <2>10
<1>6. Listening'
  BY <1>1, <1>5 DEF Listening
<1>7. QED
  BY <1>4, <1>6 DEF PressInv

(* A key released keeps it.                                                *)
LEMMA StepRelease ==
  ASSUME PressInv, TapUp \/ ReleaseModifier
  PROVE  PressInv'
<1> DEFINE n == Len(asked) - Len(seq)
           c == Head(seq)
           off == FirstSent(asked)
           m == IF press = "tap" THEN held ELSE held - 1
<1>1. press \in {"tap", "release"} /\ asked \in Seq(Chords) /\ held \in Nat /\ held <= Len(c) - 1
      /\ (press = "tap" => held = Len(c) - 1)
  BY DEF PressInv, PressType, PressPhase, TapUp, ReleaseModifier
<1>2. n \in Nat /\ c \in Chords /\ off[n] \in Nat /\ Len(c) \in Nat
  <2>1. n \in Nat /\ c \in Chords /\ off[n] \in Nat
    BY <1>1, AtCombo
  <2>2. QED
    BY <2>1 DEF Chords
<1>3. /\ press' = "release" /\ queue = <<>> /\ m \in Nat /\ m + 1 <= Len(c) /\ held' = m
      /\ emit(c[m + 1], 0)
      /\ UNCHANGED <<mode, seq, device, reader, late, main_keys, acted, asked, killed>>
  <2>1. CASE TapUp
    <3>1. TapCode = c[m + 1]
      BY <1>1, <1>2, <2>1 DEF TapUp, TapCode, Combo
    <3>2. QED
      BY <1>1, <1>2, <2>1, <3>1 DEF TapUp, Waited
  <2>2. CASE ReleaseModifier
    <3>1. press = "release" /\ held > 0 /\ m = held - 1
      BY <2>2 DEF ReleaseModifier
    <3>2. m \in Nat /\ m + 1 = held
      BY <1>1, <3>1
    <3>3. QED
      BY <1>1, <1>2, <2>2, <3>1, <3>2 DEF ReleaseModifier, Waited, Combo
  <2>3. QED
    BY <2>1, <2>2
<1>4. PressType' /\ Remaining' /\ PressPhase'
  <2>1. PressType'
    <3>1. held' \in Nat
      BY <1>3
    <3>2. QED
      BY <1>3, <3>1 DEF PressInv, PressType, PressStages
  <2>2. Remaining'
    BY <1>3 DEF PressInv, Remaining
  <2>3. Len(seq') >= 1 /\ held' <= Len(Head(seq')) - 1
    BY <1>1, <1>2, <1>3 DEF PressInv, PressPhase
  <2>4. PressPhase'
    BY <1>3, <2>3 DEF PressPhase
  <2>5. QED
    BY <2>1, <2>2, <2>4
<1>5. ASSUME Typable', ~late'
      PROVE  reader' /\ keys' = Down' /\ Heard(queue, keys, main_keys, acted, asked, Given)'
  <2>1. Typable /\ ~late
    BY <1>3, <1>5 DEF Typable, KeyBits
  <2>2. reader /\ keys = Down /\ Heard(queue, keys, main_keys, acted, asked, Given)
    BY <1>1, <2>1 DEF PressInv, Listening
  <2>3. Given = off[n] + Len(c) /\ Down = Pressed(c, m + 1)
    <3>1. Given = off[n] + Len(c)
      BY <1>1 DEF Given, Current
    <3>2. CASE press = "tap"
      BY <3>1, <3>2 DEF Down
    <3>3. CASE press = "release"
      <4>1. m + 1 = held
        BY <1>1, <3>3
      <4>2. QED
        BY <3>1, <3>3, <4>1 DEF Down
    <3>4. QED
      BY <1>1, <3>2, <3>3
  <2> DEFINE k == off[n] + Len(c)
  <2>4. main_keys = keys /\ Follows(acted, asked, k)
    BY <1>3, <2>2, <2>3 DEF Heard
  <2>5. c[m + 1] \in KeyBits
    <3>1. m + 1 \in 1..Len(c)
      BY <1>2, <1>3
    <3>2. QED
      BY <1>1, <2>1, <3>1, ComboTypable
  <2>6. keys = Pressed(c, m + 1)
    BY <2>2, <2>3
  <2>7. m \in Nat /\ m + 1 <= Len(c)
    BY <1>3
  <2>8. Given' = k /\ Down' = Pressed(c, m)
    BY <1>3 DEF Given, Current, Down
  <2> HIDE DEF n, c, off, k, m
  <2>9. /\ c[m + 1] \in keys /\ c[m + 1] \in Nat
        /\ Heard(<<<<c[m + 1], 0>>>>, keys \ {c[m + 1]}, keys, acted, asked, k)
        /\ keys \ {c[m + 1]} = Pressed(c, m)
    BY <1>2, <2>4, <2>6, <2>7, ReleaseSent
  <2>10. keys' = keys \ {c[m + 1]} /\ queue' = <<<<c[m + 1], 0>>>>
    <3>1. keys' = keys \ {c[m + 1]} /\ queue' = Append(queue, <<c[m + 1], 0>>)
      BY <1>3, <2>2, <2>5, <2>9 DEF emit
    <3>2. QED
      BY <1>3, <3>1
  <2>11. main_keys' = keys /\ acted' = acted /\ asked' = asked /\ reader'
    BY <1>3, <2>2, <2>4
  <2>12. Heard(queue, keys, main_keys, acted, asked, Given)'
    BY <2>8, <2>9, <2>10, <2>11
  <2>13. QED
    BY <2>8, <2>9, <2>10, <2>11, <2>12
<1>6. Listening'
  BY <1>3, <1>5 DEF Listening
<1>7. QED
  BY <1>4, <1>6 DEF PressInv

(* Creating the device and waiting for Main keeps it.                      *)
LEMMA StepOpen ==
  ASSUME PressInv, Open \/ EndPre
  PROVE  PressInv'
<1>1. /\ press \in {"open", "wait_pre"} /\ press' \in {"wait_pre", "hold"}
      /\ UNCHANGED <<mode, seq, held, keys, reader, queue, main_keys, acted, asked, killed>>
      /\ late' \in BOOLEAN /\ device' \in BOOLEAN /\ (press' = "hold" => late' = ~reader)
      /\ seq = asked /\ held = 0 /\ queue = <<>> /\ keys = {} /\ main_keys = {} /\ acted = <<>>
      /\ reader \in BOOLEAN /\ Len(asked) >= 1
  <2>1. CASE Open
    BY <2>1, Zenon DEF Open, PressInv, PressType, PressPhase
  <2>2. CASE EndPre
    BY <2>2, Zenon DEF EndPre, PressInv, PressType, PressPhase
  <2>3. QED
    BY <2>1, <2>2
<1>2. asked \in Seq(Chords) /\ Len(asked) \in Nat
  BY DEF PressInv, PressType
<1>3. PressType'
  <2>1. /\ asked' \in Seq(Chords) /\ seq' \in Seq(Chords) /\ Len(seq') <= Len(asked')
        /\ press' \in PressStages /\ held' \in Nat
    BY <1>1 DEF PressInv, PressType, PressStages
  <2>2. device' \in BOOLEAN /\ reader' \in BOOLEAN /\ late' \in BOOLEAN /\ killed' \in BOOLEAN
    BY <1>1, Zenon DEF PressInv, PressType
  <2>3. QED
    BY <2>1, <2>2, Zenon DEF PressType
<1>4. Remaining'
  BY <1>1 DEF PressInv, Remaining
<1>5. Head(asked) = asked[1] /\ Len(Head(asked)) \in Nat /\ Len(Head(asked)) >= 1
  <2>1. Head(asked) \in Chords /\ Head(asked) = asked[1]
    BY <1>1, <1>2
  <2>2. QED
    BY <2>1 DEF Chords
<1>6. PressPhase'
  <2>1. Len(seq') >= 1 /\ held' <= Len(Head(seq')) - 1
    BY <1>1, <1>5
  <2>2. QED
    BY <1>1, <2>1 DEF PressPhase
<1>7. ASSUME Typable', ~late', press' = "hold"
      PROVE  reader' /\ keys' = Down' /\ Heard(queue, keys, main_keys, acted, asked, Given)'
  <2>1. Follows(acted, asked, 0)
    <3>1. Presses(asked) \in Seq(Press)
      BY <1>2, PressLayout
    <3>2. Len(Presses(asked)) >= 0 /\ <<>> \in Seq(Press)
      BY <3>1
    <3>3. QED
      BY <1>1, <3>2 DEF Follows
  <2>2. FirstSent(asked)[0] = 0
    BY <1>2, PressLayout DEF Starts
  <2>3. Given' = 0
    <3>1. Len(asked) - Len(asked) = 0
      BY <1>2
    <3>2. Given' = FirstSent(asked)[Len(asked) - Len(asked)] + 0
      BY <1>1, <1>7 DEF Given, Current
    <3>3. QED
      BY <2>2, <3>1, <3>2
  <2>4. Down' = {}
    BY <1>1, <1>7 DEF Down, Pressed
  <2>5. Heard(<<>>, {}, {}, acted, asked, 0)
    BY <2>1, Zenon DEF Heard
  <2>6. Heard(queue, keys, main_keys, acted, asked, Given)'
    BY <1>1, <2>3, <2>5
  <2>7. QED
    BY <1>1, <1>7, <2>4, <2>6
<1>8. Listening'
  BY <1>1, <1>7 DEF Listening
<1>9. QED
  BY <1>3, <1>4, <1>6, <1>8 DEF PressInv

(* The next combo keeps it.                                                *)
LEMMA StepEndCombo ==
  ASSUME PressInv, EndCombo
  PROVE  PressInv'
<1> DEFINE n == Len(asked) - Len(seq)
           c == Head(seq)
           off == FirstSent(asked)
<1>1. /\ press = "release" /\ held = 0 /\ seq' = Tail(seq)
      /\ press' = IF Len(seq) > 1 THEN "hold" ELSE "wait_post"
      /\ UNCHANGED <<mode, held, device, keys, reader, late, queue, main_keys, acted, asked, killed>>
  BY DEF EndCombo
<1>2. /\ asked \in Seq(Chords) /\ seq \in Seq(Chords) /\ Len(seq) >= 1 /\ Len(seq) <= Len(asked)
      /\ \A i \in 1..Len(seq) : seq[i] = asked[n + i]
  BY <1>1 DEF PressInv, PressType, PressPhase, Remaining
<1>3. n \in Nat /\ off[n] \in Nat /\ off[n + 1] = off[n] + Len(c)
  BY <1>1, AtCombo
<1>4. /\ seq' \in Seq(Chords) /\ Len(seq') = Len(seq) - 1 /\ Len(asked) - Len(seq') = n + 1
      /\ \A i \in 1..Len(seq') : seq'[i] = seq[i + 1]
  <2>1. seq \in Seq(Chords) /\ seq # <<>> /\ Len(seq) \in Nat /\ Len(asked) \in Nat
    BY <1>2
  <2>2. /\ Tail(seq) \in Seq(Chords) /\ Len(Tail(seq)) = Len(seq) - 1
        /\ \A i \in 1..Len(Tail(seq)) : Tail(seq)[i] = seq[i + 1]
    BY <2>1
  <2>3. Len(asked) - (Len(seq) - 1) = n + 1
    BY <2>1
  <2>4. QED
    BY <1>1, <2>2, <2>3
<1>5. PressType'
  <2>1. /\ asked' \in Seq(Chords) /\ seq' \in Seq(Chords) /\ Len(seq') <= Len(asked')
        /\ press' \in PressStages /\ held' \in Nat
    BY <1>1, <1>2, <1>4 DEF PressStages
  <2>2. device' \in BOOLEAN /\ reader' \in BOOLEAN /\ late' \in BOOLEAN /\ killed' \in BOOLEAN
    BY <1>1, Zenon DEF PressInv, PressType
  <2>3. QED
    BY <2>1, <2>2, Zenon DEF PressType
<1>6. Remaining'
  <2>1. ASSUME NEW i \in 1..Len(seq') PROVE seq'[i] = asked[(n + 1) + i]
    <3>1. i + 1 \in 1..Len(seq) /\ n + (i + 1) = (n + 1) + i
      BY <1>2, <1>3, <1>4
    <3>2. QED
      BY <1>2, <1>4, <3>1
  <2>2. QED
    BY <1>1, <1>4, <2>1 DEF Remaining
<1>7. PressPhase'
  <2>1. press' = "hold" => Len(seq') >= 1 /\ held' <= Len(Head(seq')) - 1
    <3>1. SUFFICES ASSUME press' = "hold" PROVE Len(seq') >= 1 /\ held' <= Len(Head(seq')) - 1
      OBVIOUS
    <3>2. Len(seq') >= 1
      BY <1>1, <1>2, <1>4, <3>1
    <3>3. Head(seq') \in Chords
      BY <1>4, <3>2
    <3>4. QED
      BY <1>1, <3>2, <3>3 DEF Chords
  <2>2. press' = "wait_post" => seq' = <<>>
    BY <1>1, <1>2, <1>4
  <2>3. press' \in {"hold", "wait_post"}
    BY <1>1
  <2>4. QED
    BY <2>1, <2>2, <2>3 DEF PressPhase
<1>8. ASSUME Typable', ~late'
      PROVE  reader' /\ keys' = Down' /\ Heard(queue, keys, main_keys, acted, asked, Given)'
  <2>1. Typable /\ ~late
    BY <1>1, <1>8 DEF Typable, KeyBits
  <2>2. reader /\ keys = Down /\ Heard(queue, keys, main_keys, acted, asked, Given)
    BY <1>1, <2>1 DEF PressInv, Listening
  <2>3. Given' = Given
    <3>1. Given = off[n] + Len(c)
      BY <1>1 DEF Given, Current
    <3>2. Current' = 0
      BY <1>1 DEF Current
    <3>3. Given' = off[n + 1] + 0
      <4>1. Given' = FirstSent(asked')[Len(asked') - Len(seq')] + Current'
        BY DEF Given
      <4>2. QED
        BY <1>1, <1>4, <3>2, <4>1
    <3>4. Len(c) \in Nat
      <4>1. c \in Chords
        BY <1>1, AtCombo
      <4>2. QED
        BY <4>1 DEF Chords
    <3>5. QED
      BY <1>3, <3>1, <3>3, <3>4
  <2>4. Down = {} /\ Down' = {}
    BY <1>1 DEF Down, Pressed
  <2>5. Heard(queue, keys, main_keys, acted, asked, Given)'
    BY <1>1, <2>2, <2>3
  <2>6. QED
    BY <1>1, <2>2, <2>4, <2>5
<1>9. Listening'
  BY <1>1, <1>8 DEF Listening
<1>10. QED
  BY <1>5, <1>6, <1>7, <1>9 DEF PressInv

(* The end of the tool, or its being killed, keeps it: the kernel lifts    *)
(* what is down.                                                           *)
LEMMA StepClose ==
  ASSUME PressInv, Close
  PROVE  PressInv'
<1>1. /\ \/ press = "wait_post" /\ queue = <<>> /\ killed' = killed
         \/ press \notin {"open", "closed"} /\ killed' = TRUE
      /\ press' = "closed" /\ device' = FALSE /\ reader' = FALSE /\ keys' = {} /\ main_keys' = {}
      /\ UNCHANGED <<mode, seq, held, late, acted, asked>>
  BY DEF Close, Waited
<1>2. asked \in Seq(Chords) /\ press \in PressStages /\ killed \in BOOLEAN
  BY DEF PressInv, PressType
<1>3. PressType'
  <2>1. /\ asked' \in Seq(Chords) /\ seq' \in Seq(Chords) /\ Len(seq') <= Len(asked')
        /\ press' \in PressStages /\ held' \in Nat
    BY <1>1 DEF PressInv, PressType, PressStages
  <2>2. device' \in BOOLEAN /\ reader' \in BOOLEAN /\ late' \in BOOLEAN /\ killed' \in BOOLEAN
    BY <1>1, <1>2, Zenon DEF PressInv, PressType
  <2>3. QED
    BY <2>1, <2>2, Zenon DEF PressType
<1>4. Remaining' /\ PressPhase'
  BY <1>1 DEF PressInv, Remaining, PressPhase
<1>5. ASSUME Typable', ~late'
      PROVE  \E k \in Nat : Follows(acted, asked, k) /\ (~killed' => k = Len(Presses(asked)))
  <2>1. Typable /\ ~late
    BY <1>1, <1>5 DEF Typable, KeyBits
  <2>2. CASE press \in {"hold", "tap", "release", "wait_post"}
    <3>1. Heard(queue, keys, main_keys, acted, asked, Given)
      BY <2>1, <2>2 DEF PressInv, Listening
    <3>2. CASE killed'
      <4>1. \E k : Follows(acted, asked, k)
        BY <3>1, Zenon DEF Heard
      <4>2. QED
        BY <3>2, <4>1 DEF Follows
    <3>3. CASE ~killed'
      <4>1. press = "wait_post" /\ queue = <<>>
        BY <1>1, <3>3
      <4>2. Follows(acted, asked, Given)
        BY <3>1, <4>1 DEF Heard
      <4>3. Given = Len(Presses(asked))
        <5>1. FirstSent(asked)[Len(asked)] = Len(Presses(asked)) /\ Presses(asked) \in Seq(Press)
          BY <1>2, PressLayout DEF Starts
        <5>2. seq = <<>> /\ Current = 0
          BY <4>1 DEF PressInv, PressPhase, Current
        <5>3. Len(asked) - Len(seq) = Len(asked)
          BY <1>2, <5>2
        <5>4. Given = Len(Presses(asked)) + 0 /\ Len(Presses(asked)) \in Nat
          BY <5>1, <5>2, <5>3 DEF Given
        <5>5. QED
          BY <5>4
      <4>4. QED
        BY <4>2, <4>3 DEF Follows
    <3>4. QED
      BY <3>2, <3>3
  <2>3. CASE press = "wait_pre"
    <3>1. killed' = TRUE /\ acted = <<>>
      BY <1>1, <2>3 DEF PressInv, PressPhase
    <3>2. Presses(asked) \in Seq(Press)
      BY <1>2, PressLayout
    <3>3. Follows(acted, asked, 0)
      <4>1. Len(Presses(asked)) >= 0 /\ <<>> \in Seq(Press)
        BY <3>2
      <4>2. QED
        BY <3>1, <4>1 DEF Follows
    <3>4. QED
      BY <3>1, <3>3
  <2>4. press \in {"hold", "tap", "release", "wait_post", "wait_pre"}
    BY <1>1, <1>2 DEF PressStages
  <2>5. QED
    BY <2>2, <2>3, <2>4
<1>6. Listening'
  BY <1>1, <1>5 DEF Listening
<1>7. QED
  BY <1>3, <1>4, <1>6 DEF PressInv

(* Main opening the device and reading it keeps it.                        *)
LEMMA StepMain ==
  ASSUME PressInv, Enumerate \/ MainReads
  PROVE  PressInv'
<1>1. /\ UNCHANGED <<mode, seq, press, held, device, keys, late, asked, killed>> /\ reader' = TRUE
      /\ press \notin {"open", "closed"}
  BY DEF Enumerate, MainReads, PressInv, PressPhase
<1>2. PressType' /\ Remaining'
  BY <1>1 DEF PressInv, PressType, Remaining
<1>3. PressPhase'
  <2>1. press = "wait_pre" => UNCHANGED <<queue, main_keys, acted>>
    BY DEF PressInv, PressPhase, Enumerate, MainReads
  <2>2. QED
    BY <1>1, <2>1 DEF PressInv, PressPhase
<1>4. ASSUME Typable', ~late', press \in {"hold", "tap", "release", "wait_post"}
      PROVE  keys' = Down' /\ Heard(queue, keys, main_keys, acted, asked, Given)'
  <2>1. Typable /\ ~late
    BY <1>1, <1>4 DEF Typable, KeyBits
  <2>2. reader /\ keys = Down /\ Heard(queue, keys, main_keys, acted, asked, Given)
    BY <1>4, <2>1 DEF PressInv, Listening
  <2>3. Down' = Down /\ Given' = Given
    BY <1>1 DEF Down, Given, Current
  <2>4. /\ MainReads /\ queue # <<>> /\ queue' = Tail(queue)
        /\ main_keys' = IF Head(queue)[2] = 1 THEN main_keys \cup {Head(queue)[1]}
                        ELSE main_keys \ {Head(queue)[1]}
        /\ acted' = IF Head(queue)[2] = 1
                    THEN Append(acted, [code |-> Head(queue)[1], with |-> main_keys]) ELSE acted
    <3>1. MainReads
      BY <2>2 DEF Enumerate
    <3>2. QED
      BY <3>1, Zenon DEF MainReads
  <2>5. asked \in Seq(Chords)
    BY DEF PressInv, PressType
  <2>6. Heard(Tail(queue), keys, main_keys', acted', asked, Given)
    BY <2>2, <2>4, <2>5, ReadOne
  <2>7. Heard(queue, keys, main_keys, acted, asked, Given)'
    BY <1>1, <2>3, <2>4, <2>6
  <2>8. QED
    BY <1>1, <2>2, <2>3, <2>7
<1>5. Listening'
  BY <1>1, <1>4 DEF Listening
<1>6. QED
  BY <1>2, <1>3, <1>5 DEF PressInv

(* Every step keeps the invariant.                                         *)
LEMMA PressStep ==
  ASSUME PressInv, PressNext \/ UNCHANGED pressVars
  PROVE  PressInv'
<1>1. CASE PressNext
  BY <1>1, StepOpen, StepHold, StepRelease, StepEndCombo, StepClose, StepMain DEF PressNext
<1>2. CASE UNCHANGED pressVars
  <2>1. UNCHANGED <<mode, seq, press, held, device, keys, reader, late, queue, main_keys, acted,
                    asked, killed>>
    BY <1>2 DEF pressVars
  <2>2. PressType' /\ Remaining' /\ PressPhase'
    BY <2>1 DEF PressInv, PressType, Remaining, PressPhase
  <2>3. Typable' = Typable /\ Down' = Down /\ Given' = Given
    BY <2>1 DEF Typable, KeyBits, Down, Given, Current
  <2>4. Listening'
    BY <2>1, <2>3 DEF PressInv, Listening
  <2>5. QED
    BY <2>2, <2>4 DEF PressInv
<1>3. QED
  BY <1>1, <1>2

(* When Main has found the virtual device in time, it acts on the presses     *)
(* mister_press.py was asked for, in order and with exactly their modifiers,  *)
(* wherever the run is cut short, and on all of them if it is not; what is    *)
(* down is always the beginning of a combination.  For every sequence of      *)
(* combinations of different keys and every range of keys.                   *)
THEOREM AsAsked == Spec => []PressesAsAsked
<1>1. Init => PressInv
  BY PressStart DEF Init
<1>2. PressInv /\ [Next]_vars => PressInv'
  BY PressStep DEF Next, vars
<1>3. PressInv => PressesAsAsked
  <2>1. SUFFICES ASSUME PressInv PROVE PressesAsAsked
    OBVIOUS
  <2>2. asked \in Seq(Chords) /\ press \in PressStages
    BY <2>1 DEF PressInv, PressType
  <2>3. ASSUME Typable, ~late, press \in {"hold", "tap", "release"}
        PROVE  \E n \in 0..Len(Combo) : keys = {Combo[m] : m \in 1..n}
    <3> DEFINE n == IF press = "tap" THEN held + 1 ELSE held
    <3>1. keys = Pressed(Combo, n)
      BY <2>1, <2>3 DEF PressInv, Listening, Down, Combo
    <3>2. n \in 0..Len(Combo)
      <4>1. Combo \in Chords
        BY <2>1, <2>3, AtCombo DEF Combo
      <4>2. Len(Combo) \in Nat
        BY <4>1 DEF Chords
      <4>3. held \in Nat /\ held <= Len(Combo) - 1
        BY <2>1, <2>3 DEF PressInv, PressType, PressPhase, Combo
      <4>4. QED
        BY <4>2, <4>3
    <3> HIDE DEF n
    <3>3. keys = {Combo[m] : m \in 1..n}
      BY <3>1, Zenon DEF Pressed
    <3>4. QED
      BY <3>2, <3>3
  <2>4. ASSUME Typable, ~late
        PROVE  \E k : Follows(acted, asked, k)
                      /\ (press = "closed" /\ ~killed => k = Len(Presses(asked)))
    <3>1. CASE press \in {"open", "wait_pre"}
      <4>1. acted = <<>> /\ Presses(asked) \in Seq(Press)
        BY <2>1, <2>2, <3>1, PressLayout DEF PressInv, PressPhase
      <4>2. Len(Presses(asked)) >= 0 /\ <<>> \in Seq(Press)
        BY <4>1
      <4>3. Follows(acted, asked, 0)
        BY <4>1, <4>2 DEF Follows
      <4>4. QED
        BY <3>1, <4>3
    <3>2. CASE press \in {"hold", "tap", "release", "wait_post"}
      <4>1. Heard(queue, keys, main_keys, acted, asked, Given)
        BY <2>1, <2>4, <3>2 DEF PressInv, Listening
      <4>2. \E k : Follows(acted, asked, k)
        BY <4>1, Zenon DEF Heard
      <4>3. QED
        BY <3>2, <4>2
    <3>3. CASE press = "closed"
      BY <2>1, <2>4, <3>3 DEF PressInv, Listening
    <3>4. QED
      BY <2>2, <3>1, <3>2, <3>3 DEF PressStages
  <2>5. ASSUME Typable, ~late
        PROVE  /\ IsPrefix(acted, Presses(asked))
               /\ press = "closed" /\ ~killed => acted = Presses(asked)
    <3>1. PICK k : Follows(acted, asked, k)
                   /\ (press = "closed" /\ ~killed => k = Len(Presses(asked)))
      BY <2>4, <2>5
    <3>2. IsPrefix(acted, Presses(asked)) /\ (k = Len(Presses(asked)) => acted = Presses(asked))
      BY <2>2, <3>1, FollowsIsPrefix
    <3>3. QED
      BY <3>1, <3>2
  <2>6. QED
    BY <2>3, <2>5 DEF PressesAsAsked
<1>4. QED
  BY <1>1, <1>2, <1>3, PTL DEF Spec

-----------------------------------------------------------------------------
(* The GPU replay, gen_stream.py and ot_trace.py.                          *)

(* A stream leads from a mark, the words that may be queued and the nodes   *)
(* drawn, to another if its packets do so one by one.                       *)
Packets == [port : {"GP0", "GP1"}, words : Nat, gap : {"step", "drain"}, node : Nat]

(* The marks.                                                              *)
Marks == [level : Nat, drawn : Seq(Nat)]

(* The mark of a level and a list of nodes.                                *)
At(l, s) == [level |-> l, drawn |-> s]

(* The words that may be queued when a packet has been pushed at level l.  *)
Queued(p, l) == l + (IF p.port = "GP0" THEN p.words ELSE 0)

(* A packet leads from mark a to mark b: with nothing drained it fits, and *)
(* a node it draws is the next one drawn.                                  *)
Passes(p, a, b) ==
  /\ Queued(p, a.level) <= Room /\ (p.gap # "drain" => Queued(p, a.level) <= b.level)
  /\ b.drawn = IF p.node = NoNode THEN a.drawn ELSE Append(a.drawn, p.node)

(* The marks along a stream.                                               *)
Ways(ps, a, b) ==
  {f \in [0..Len(ps) -> Marks] :
     f[0] = a /\ f[Len(ps)] = b /\ \A i \in 1..Len(ps) : Passes(ps[i], f[i - 1], f[i])}

(* A stream leads from a to b.                                             *)
Leads(ps, a, b) == ps \in Seq(Packets) /\ a \in Marks /\ b \in Marks /\ Ways(ps, a, b) # {}

(* The empty stream leads nowhere.                                         *)
LEMMA LeadsNone ==
  ASSUME NEW a \in Marks
  PROVE  Leads(<<>>, a, a)
<1> DEFINE f == [i \in 0..0 |-> a]
<1>1. f \in [0..Len(<<>>) -> Marks] /\ f[0] = a /\ f[Len(<<>>)] = a
  OBVIOUS
<1>2. \A i \in 1..Len(<<>>) : Passes(<<>>[i], f[i - 1], f[i])
  OBVIOUS
<1> HIDE DEF f
<1>3. f \in Ways(<<>>, a, a)
  BY <1>1, <1>2, Zenon DEF Ways
<1>4. <<>> \in Seq(Packets)
  OBVIOUS
<1>5. QED
  BY <1>3, <1>4 DEF Leads

(* A stream of one packet.                                                 *)
LEMMA LeadsOne ==
  ASSUME NEW p \in Packets, NEW a \in Marks, NEW b \in Marks, Passes(p, a, b)
  PROVE  Leads(<<p>>, a, b)
<1> DEFINE f == [i \in 0..1 |-> IF i = 0 THEN a ELSE b]
<1>1. f \in [0..Len(<<p>>) -> Marks] /\ f[0] = a /\ f[Len(<<p>>)] = b
  OBVIOUS
<1>2. \A i \in 1..Len(<<p>>) : Passes(<<p>>[i], f[i - 1], f[i])
  <2>1. \A i \in 1..Len(<<p>>) : i = 1 /\ <<p>>[i] = p /\ f[i - 1] = a /\ f[i] = b
    OBVIOUS
  <2>2. QED
    BY <2>1
<1> HIDE DEF f
<1>3. f \in Ways(<<p>>, a, b)
  BY <1>1, <1>2, Zenon DEF Ways
<1>4. <<p>> \in Seq(Packets)
  OBVIOUS
<1>5. QED
  BY <1>3, <1>4 DEF Leads

(* A stream after a stream.                                                *)
LEMMA LeadsOn ==
  ASSUME NEW ps, NEW qs, NEW a, NEW b, NEW c, Leads(ps, a, b), Leads(qs, b, c)
  PROVE  Leads(ps \o qs, a, c)
<1>1. /\ ps \in Seq(Packets) /\ qs \in Seq(Packets) /\ a \in Marks /\ b \in Marks /\ c \in Marks
      /\ Ways(ps, a, b) # {} /\ Ways(qs, b, c) # {}
  BY DEF Leads
<1>2. PICK f \in Ways(ps, a, b), g \in Ways(qs, b, c) : TRUE
  BY <1>1
<1> DEFINE m == Len(ps)
           n == Len(qs)
           rs == ps \o qs
           h == [i \in 0..m + n |-> IF i <= m THEN f[i] ELSE g[i - m]]
<1>3. m \in Nat /\ n \in Nat
  BY <1>1
<1>4. /\ f \in [0..m -> Marks] /\ f[0] = a /\ f[m] = b
      /\ \A i \in 1..m : Passes(ps[i], f[i - 1], f[i])
      /\ g \in [0..n -> Marks] /\ g[0] = b /\ g[n] = c
      /\ \A i \in 1..n : Passes(qs[i], g[i - 1], g[i])
  BY <1>2, Zenon DEF Ways
<1>5. /\ rs \in Seq(Packets) /\ Len(rs) = m + n
      /\ \A i \in 1..m : rs[i] = ps[i]
      /\ \A i \in 1..n : rs[m + i] = qs[i]
  BY <1>1, ConcatFacts
<1> HIDE DEF m, n, rs
<1>6. h \in [0..m + n -> Marks] /\ h[0] = a /\ h[m + n] = c
  <2>1. ASSUME NEW i \in 0..m + n PROVE h[i] \in Marks
    <3>1. CASE i <= m
      BY <1>3, <1>4, <3>1
    <3>2. CASE ~(i <= m)
      <4>1. i - m \in 0..n
        BY <1>3, <3>2
      <4>2. QED
        BY <1>4, <3>2, <4>1
    <3>3. QED
      BY <3>1, <3>2
  <2>2. h[0] = a
    BY <1>3, <1>4
  <2>3. h[m + n] = c
    <3>1. CASE n = 0
      BY <1>3, <1>4, <3>1
    <3>2. CASE n # 0
      <4>1. ~(m + n <= m) /\ (m + n) - m = n /\ m + n \in 0..m + n
        BY <1>3, <3>2
      <4>2. QED
        BY <1>4, <4>1
    <3>3. QED
      BY <3>1, <3>2
  <2>4. QED
    BY <2>1, <2>2, <2>3
<1>7. ASSUME NEW i \in 1..m + n PROVE Passes(rs[i], h[i - 1], h[i])
  <2>1. CASE i <= m
    <3>1. i \in 1..m /\ h[i - 1] = f[i - 1] /\ h[i] = f[i]
      BY <1>3, <2>1
    <3>2. QED
      BY <1>4, <1>5, <3>1
  <2>2. CASE ~(i <= m)
    <3> DEFINE j == i - m
    <3>1. j \in 1..n /\ i = m + j /\ h[i] = g[j]
      BY <1>3, <2>2
    <3>2. h[i - 1] = g[j - 1]
      <4>1. CASE j = 1
        BY <1>3, <1>4, <3>1, <4>1
      <4>2. CASE j # 1
        <5>1. ~(i - 1 <= m) /\ (i - 1) - m = j - 1 /\ i - 1 \in 0..m + n
          BY <1>3, <3>1, <4>2
        <5>2. QED
          BY <5>1
      <4>3. QED
        BY <4>1, <4>2
    <3>3. rs[i] = qs[j]
      BY <1>5, <3>1
    <3> HIDE DEF j, h
    <3>4. Passes(qs[j], g[j - 1], g[j])
      BY <1>4, <3>1
    <3>5. QED
      BY <3>1, <3>2, <3>3, <3>4
  <2>3. QED
    BY <2>1, <2>2
<1>8. h \in Ways(rs, a, c)
  <2> HIDE DEF h
  <2>1. QED
    BY <1>5, <1>6, <1>7, Zenon DEF Ways
<1>9. QED
  BY <1>1, <1>5, <1>8 DEF Leads, rs

(* Sequences of packets that each lead from one mark to the next.            *)
LEMMA LeadsAlong ==
  ASSUME NEW ss \in Seq(Seq(Packets)), NEW g \in [0..Len(ss) -> Marks],
         \A i \in 1..Len(ss) : Leads(ss[i], g[i - 1], g[i])
  PROVE  Leads(FlattenSeq(ss), g[0], g[Len(ss)])
<1> DEFINE n == Len(ss)
<1>1. PICK f \in [0..n -> Seq(Packets)] :
        f[0] = <<>> /\ f[n] = FlattenSeq(ss) /\ \A i \in 1..n : f[i] = f[i - 1] \o ss[i]
  <2>1. Joinings(Packets, ss) # {}
    BY FlattenIs
  <2>2. QED
    BY <2>1, Zenon DEF Joinings
<1>2. n \in Nat
  OBVIOUS
<1> DEFINE T == {i \in 0..n : Leads(f[i], g[0], g[i])}
<1>3. 0 \in T
  <2>1. g[0] \in Marks
    BY <1>2
  <2>2. Leads(f[0], g[0], g[0])
    BY <1>1, <2>1, LeadsNone
  <2>3. QED
    BY <1>2, <2>2
<1>4. ASSUME NEW i \in 1..n, i - 1 \in T PROVE i \in T
  <2>1. Leads(f[i - 1], g[0], g[i - 1]) /\ Leads(ss[i], g[i - 1], g[i])
    BY <1>4
  <2>2. Leads(f[i - 1] \o ss[i], g[0], g[i])
    BY <2>1, LeadsOn
  <2>3. f[i] = f[i - 1] \o ss[i]
    BY <1>1
  <2>4. Leads(f[i], g[0], g[i])
    BY <2>2, <2>3, Zenon
  <2>5. QED
    BY <1>2, <2>4
<1>5. 0..n \subseteq T
  <2> HIDE DEF T
  <2>1. QED
    BY <1>2, <1>3, <1>4, CountsUp
<1>6. Leads(f[n], g[0], g[n])
  BY <1>2, <1>5
<1>7. QED
  BY <1>1, <1>6

(* The first packet takes the first step.                                    *)
LEMMA LeadsFirst ==
  ASSUME NEW ps, ps # <<>>, NEW a, NEW b, Leads(ps, a, b)
  PROVE  \E c \in Marks : Passes(Head(ps), a, c) /\ Leads(Tail(ps), c, b)
<1>1. ps \in Seq(Packets) /\ a \in Marks /\ b \in Marks /\ Ways(ps, a, b) # {}
  BY DEF Leads
<1>2. PICK f \in Ways(ps, a, b) : TRUE
  BY <1>1
<1> DEFINE n == Len(ps)
           t == Tail(ps)
           g == [i \in 0..n - 1 |-> f[i + 1]]
<1>3. /\ f \in [0..n -> Marks] /\ f[0] = a /\ f[n] = b
      /\ \A i \in 1..n : Passes(ps[i], f[i - 1], f[i])
  BY <1>2, Zenon DEF Ways
<1>4. /\ n \in Nat /\ n >= 1 /\ Head(ps) = ps[1] /\ t \in Seq(Packets) /\ Len(t) = n - 1
      /\ \A i \in 1..n - 1 : t[i] = ps[i + 1]
  BY <1>1
<1> HIDE DEF n, t
<1>5. f[1] \in Marks /\ Passes(Head(ps), a, f[1])
  BY <1>3, <1>4
<1>6. g \in [0..n - 1 -> Marks] /\ g[0] = f[1] /\ g[n - 1] = b
  <2>1. \A i \in 0..n - 1 : i + 1 \in 0..n
    BY <1>4
  <2>2. n - 1 \in 0..n - 1 /\ (n - 1) + 1 = n /\ 0 \in 0..n - 1
    BY <1>4
  <2>3. QED
    BY <1>3, <2>1, <2>2
<1>7. ASSUME NEW i \in 1..n - 1 PROVE Passes(t[i], g[i - 1], g[i])
  <2>1. i + 1 \in 1..n /\ (i + 1) - 1 = i /\ i - 1 \in 0..n - 1 /\ i \in 0..n - 1 /\ (i - 1) + 1 = i
    BY <1>4
  <2>2. Passes(ps[i + 1], f[i], f[i + 1])
    BY <1>3, <2>1
  <2>3. t[i] = ps[i + 1] /\ g[i - 1] = f[i] /\ g[i] = f[i + 1]
    BY <1>4, <2>1
  <2> HIDE DEF g
  <2>4. QED
    BY <2>2, <2>3
<1>8. g \in Ways(t, f[1], b)
  <2> HIDE DEF g
  <2>1. QED
    BY <1>4, <1>6, <1>7, Zenon DEF Ways
<1>9. Leads(t, f[1], b)
  BY <1>1, <1>4, <1>5, <1>8 DEF Leads
<1>10. QED
  BY <1>5, <1>9 DEF t

(* What the proof needs of the constants, from NodeAssumption.             *)
LEMMA NodeFacts ==
  /\ HeadRects \in Nodes /\ HeadQuads \in Nodes
  /\ \A n \in Nodes : n \in Nat /\ n # NoNode /\ NodeWords[n] \in 0..255
<1>1. HeadRects \in Nodes /\ HeadQuads \in Nodes
  BY NodeAssumption
<1>2. ASSUME NEW n \in Nodes PROVE n \in Nat /\ n # NoNode /\ NodeWords[n] \in 0..255
  <2>1. n \in Nat \ {0}
    BY NodeAssumption
  <2>2. NodeWords[n] \in 0..255
    BY NodeAssumption
  <2>3. QED
    BY <2>1, <2>2 DEF NoNode
<1>3. QED
  BY <1>1, <1>2

(* There is a largest node, and Room is for it and 18 words.               *)
LEMMA RoomHolds ==
  /\ Room \in Nat /\ 18 <= Room
  /\ \A n \in Nodes : NodeWords[n] \in Nat /\ NodeWords[n] + 18 <= Room
<1> DEFINE Short == {k \in 0..255 : \E n \in Nodes : NodeWords[n] = 255 - k}
           P(w) == (\E n \in Nodes : NodeWords[n] = w) /\ \A n \in Nodes : NodeWords[n] <= w
<1>1. Short \subseteq Nat /\ Short # {}
  <2>1. HeadRects \in Nodes /\ NodeWords[HeadRects] \in 0..255
    BY NodeFacts
  <2>2. 255 - NodeWords[HeadRects] \in 0..255 /\ 255 - (255 - NodeWords[HeadRects]) = NodeWords[HeadRects]
    BY <2>1
  <2>3. 255 - NodeWords[HeadRects] \in Short
    BY <2>1, <2>2
  <2>4. QED
    BY <2>3
<1>2. PICK k \in Short : \A m \in Short : k <= m
  BY <1>1, LeastExists
<1>3. ASSUME NEW n \in Nodes PROVE NodeWords[n] <= 255 - k
  <2>1. NodeWords[n] \in 0..255 /\ k \in 0..255
    BY <1>2, NodeFacts
  <2>2. 255 - NodeWords[n] \in 0..255 /\ 255 - (255 - NodeWords[n]) = NodeWords[n]
    BY <2>1
  <2>3. 255 - NodeWords[n] \in Short
    BY <2>2
  <2>4. k <= 255 - NodeWords[n]
    BY <1>2, <2>3
  <2>5. QED
    BY <2>1, <2>4
<1>4. 255 - k \in 0..255 /\ P(255 - k)
  BY <1>2, <1>3
<1>5. Widest = CHOOSE w \in 0..255 : P(w)
  BY DEF Widest
<1> HIDE DEF P
<1>6. Widest \in 0..255 /\ P(Widest)
  BY <1>4, <1>5
<1>7. \A n \in Nodes : NodeWords[n] <= Widest
  BY <1>6 DEF P
<1>8. QED
  BY <1>6, <1>7, NodeFacts DEF Room

(* The packets the streams are made of.                                      *)
LEMMA LeadsGP1 ==
  ASSUME NEW w \in Nat, NEW l \in 0..18, NEW s \in Seq(Nat)
  PROVE  Leads(GP1(w), At(l, s), At(l, s))
<1> DEFINE p == Packet("GP1", w, "step", NoNode)
<1>1. p \in Packets /\ At(l, s) \in Marks
  BY DEF Packet, Packets, NoNode, At, Marks
<1>2. Passes(p, At(l, s), At(l, s))
  <2>1. l + 0 <= Room
    BY RoomHolds
  <2>2. QED
    BY <2>1 DEF Passes, Queued, Packet, At
<1>3. QED
  BY <1>1, <1>2, LeadsOne DEF GP1

(* A GP0 write raises the level by its words.                              *)
LEMMA LeadsGP0 ==
  ASSUME NEW w \in Nat, NEW l \in 0..18, l + w <= 18, NEW s \in Seq(Nat), NEW m, m = l + w
  PROVE  Leads(GP0(w), At(l, s), At(m, s))
<1> DEFINE p == Packet("GP0", w, "step", NoNode)
<1>1. p \in Packets /\ At(l, s) \in Marks /\ At(m, s) \in Marks
  BY SMTT(30) DEF Packet, Packets, NoNode, At, Marks
<1>2. Passes(p, At(l, s), At(m, s))
  <2>1. l + w <= Room
    BY RoomHolds
  <2>2. QED
    BY <2>1 DEF Passes, Queued, Packet, At
<1>3. QED
  BY <1>1, <1>2, LeadsOne DEF GP0

(* A node's packet is drawn, and gives the GPU time to drain.              *)
LEMMA LeadsNode ==
  ASSUME NEW n \in Nodes, NEW l \in 0..18, NEW s \in Seq(Nat)
  PROVE  Leads(NodePacket(n), At(l, s), At(l, Append(s, n)))
<1> DEFINE p == Packet("GP0", NodeWords[n], "drain", n)
<1>1. n \in Nat /\ n # NoNode /\ NodeWords[n] \in Nat
  BY NodeFacts, RoomHolds
<1>2. p \in Packets /\ At(l, s) \in Marks /\ At(l, Append(s, n)) \in Marks
  BY <1>1, SMTT(30) DEF Packet, Packets, At, Marks
<1>3. Passes(p, At(l, s), At(l, Append(s, n)))
  <2>1. l + NodeWords[n] <= Room
    BY <1>1, RoomHolds
  <2>2. QED
    BY <1>1, <2>1 DEF Passes, Queued, Packet, At
<1>4. QED
  BY <1>2, <1>3, LeadsOne DEF NodePacket

(* Two items joined.                                                       *)
LEMMA PairOf ==
  ASSUME NEW x, NEW y
  PROVE  <<x>> \o <<y>> = <<x, y>>
<1>1. <<x>> \in Seq({x, y}) /\ <<y>> \in Seq({x, y})
  OBVIOUS
<1>2. <<x>> \o <<y>> \in Seq({x, y}) /\ <<x, y>> \in Seq({x, y})
  BY <1>1, ConcatProperties
<1>3. Len(<<x>>) = 1 /\ Len(<<y>>) = 1 /\ Len(<<x, y>>) = 2 /\ Len(<<x>> \o <<y>>) = 2
  BY <1>1, ConcatProperties
<1>4. (<<x>> \o <<y>>)[1] = x /\ (<<x>> \o <<y>>)[1 + 1] = y
  BY <1>1, <1>3, ConcatFacts
<1>5. \A i \in 1..2 : (<<x>> \o <<y>>)[i] = <<x, y>>[i]
  <2>1. \A i \in 1..2 : i = 1 \/ i = 2
    OBVIOUS
  <2>2. 1 + 1 = 2
    OBVIOUS
  <2>3. QED
    BY <1>4, <2>1, <2>2
<1>6. QED
  BY <1>2, <1>3, <1>5, SeqEqual

(* A packet, alone or after another, with time to drain.                     *)
LEMMA LeadsDrainOne ==
  ASSUME NEW w \in Nat, NEW l \in 0..18, l + w <= 18, NEW s \in Seq(Nat)
  PROVE  Leads(Drain(GP0(w)), At(l, s), At(l, s))
<1> DEFINE p == Packet("GP0", w, "drain", NoNode)
<1>1. Drain(GP0(w)) = <<p>>
  BY DEF Drain, GP0, Packet
<1>2. p \in Packets /\ At(l, s) \in Marks
  BY DEF Packet, Packets, NoNode, At, Marks
<1>3. Passes(p, At(l, s), At(l, s))
  <2>1. l + w <= Room
    BY RoomHolds
  <2>2. QED
    BY <2>1 DEF Passes, Queued, Packet, At
<1>4. QED
  BY <1>1, <1>2, <1>3, LeadsOne

(* Two packets, and time to drain after both.                              *)
LEMMA LeadsDrainTwo ==
  ASSUME NEW v \in Nat, NEW w \in Nat, NEW l \in 0..18, l + v + w <= 18, NEW s \in Seq(Nat)
  PROVE  Leads(Drain(GP0(v) \o GP0(w)), At(l, s), At(l, s))
<1> DEFINE p == Packet("GP0", w, "drain", NoNode)
           q == Packet("GP0", v, "step", NoNode)
           r == Packet("GP0", w, "step", NoNode)
<1>1. Drain(GP0(v) \o GP0(w)) = GP0(v) \o <<p>>
  <2>1. GP0(v) = <<q>> /\ GP0(w) = <<r>> /\ p = [r EXCEPT !.gap = "drain"]
    BY DEF GP0, Packet
  <2>2. q \in Packets /\ p \in Packets /\ r \in Packets
    BY DEF Packet, Packets, NoNode
  <2> HIDE DEF p, q, r
  <2>3. <<q>> \o <<r>> = <<q, r>> /\ <<q>> \o <<p>> = <<q, p>>
    BY <2>2, PairOf
  <2>4. Drain(<<q, r>>) = <<q, p>>
    <3>1. Drain(<<q, r>>) = [<<q, r>> EXCEPT ![2] = [r EXCEPT !.gap = "drain"]]
      BY DEF Drain
    <3>2. [<<q, r>> EXCEPT ![2] = p] = <<q, p>>
      OBVIOUS
    <3>3. QED
      BY <2>1, <3>1, <3>2
  <2>5. QED
    BY <2>1, <2>3, <2>4
<1>0. l \in Nat /\ l + v \in Nat /\ l + v \in 0..18
  OBVIOUS
<1>2. p \in Packets /\ At(l, s) \in Marks /\ At(l + v, s) \in Marks
  BY <1>0 DEF Packet, Packets, NoNode, At, Marks
<1>3. Passes(p, At(l + v, s), At(l, s))
  <2>1. l + v + w <= Room
    BY RoomHolds
  <2>2. QED
    BY <2>1 DEF Passes, Queued, Packet, At
<1>4. Leads(GP0(v), At(l, s), At(l + v, s))
  <2>1. l + v <= 18
    OBVIOUS
  <2>2. QED
    BY <2>1, LeadsGP0
<1>5. Leads(<<p>>, At(l + v, s), At(l, s))
  BY <1>2, <1>3, LeadsOne
<1>6. QED
  BY <1>1, <1>4, <1>5, LeadsOn

(* Concatenation is associative; and for the lists of nodes.                 *)
LEMMA ConcatTwice ==
  ASSUME NEW S, NEW p \in Seq(S), NEW q \in Seq(S), NEW r \in Seq(S)
  PROVE  (p \o q) \o r = p \o (q \o r)
OBVIOUS

LEMMA ConcatNumbers ==
  ASSUME NEW p \in Seq(Nat), NEW q \in Seq(Nat), NEW r \in Seq(Nat)
  PROVE  (p \o q) \o r = p \o (q \o r)
<1> DEFINE S == Nat
<1>1. p \in Seq(S) /\ q \in Seq(S) /\ r \in Seq(S)
  OBVIOUS
<1> HIDE DEF S
<1>2. QED
  BY <1>1, ConcatTwice

(* The nodes of a list.                                                      *)
NodePackets(c) == FlattenSeq([k \in 1..Len(c) |-> NodePacket(c[k])])

(* The nodes of a list are drawn in its order.                             *)
LEMMA LeadsNodes ==
  ASSUME NEW c \in Seq(Nodes), NEW l \in 0..18, NEW s \in Seq(Nat)
  PROVE  Leads(NodePackets(c), At(l, s), At(l, s \o c))
<1> DEFINE n == Len(c)
           ss == [k \in 1..n |-> NodePacket(c[k])]
           ones == [k \in 1..n |-> <<c[k]>>]
<1>1. n \in Nat /\ \A k \in 1..n : c[k] \in Nodes /\ c[k] \in Nat
  BY NodeFacts
<1>2. c \in Seq(Nat)
  BY <1>1
<1>3. ones \in Seq(Seq(Nat)) /\ Len(ones) = n /\ \A k \in 1..n : ones[k] = <<c[k]>>
  <2>1. \A k \in 1..n : <<c[k]>> \in Seq(Nat)
    BY <1>1
  <2>2. QED
    BY <1>1, <2>1
<1>4. PICK f \in [0..n -> Seq(Nat)] :
        f[0] = <<>> /\ f[n] = c /\ \A k \in 1..n : f[k] = f[k - 1] \o <<c[k]>>
  <2>1. Joinings(Nat, ones) # {} /\ FlattenSeq(ones) = c
    BY <1>2, <1>3, FlattenIs, FlattenSingles
  <2>2. PICK f \in Joinings(Nat, ones) : TRUE
    BY <2>1
  <2>3. /\ f \in [0..Len(ones) -> Seq(Nat)] /\ f[0] = <<>> /\ f[Len(ones)] = FlattenSeq(ones)
        /\ \A k \in 1..Len(ones) : f[k] = f[k - 1] \o ones[k]
    BY <2>2, Zenon DEF Joinings
  <2> HIDE DEF ones
  <2>4. f \in [0..n -> Seq(Nat)] /\ f[0] = <<>> /\ f[n] = c
    BY <1>3, <2>1, <2>3, Zenon
  <2>5. \A k \in 1..n : f[k] = f[k - 1] \o <<c[k]>>
    <3>1. ASSUME NEW k \in 1..n PROVE f[k] = f[k - 1] \o <<c[k]>>
      <4>1. f[k] = f[k - 1] \o ones[k] /\ ones[k] = <<c[k]>>
        BY <1>3, <2>3
      <4>2. QED
        BY <4>1, Zenon
    <3>2. QED
      BY <3>1
  <2>6. QED
    BY <2>4, <2>5
<1> DEFINE g == [k \in 0..n |-> At(l, s \o f[k])]
<1>5. g \in [0..n -> Marks]
  <2>1. ASSUME NEW k \in 0..n PROVE At(l, s \o f[k]) \in Marks
    <3>1. f[k] \in Seq(Nat)
      BY <1>4
    <3>2. s \o f[k] \in Seq(Nat)
      BY <3>1, ConcatFacts
    <3>3. QED
      BY <3>2 DEF At, Marks
  <2>2. QED
    BY <2>1
<1>6. ASSUME NEW k \in 1..n PROVE Leads(ss[k], g[k - 1], g[k])
  <2>1. f[k - 1] \in Seq(Nat) /\ c[k] \in Nodes /\ c[k] \in Nat /\ k - 1 \in 0..n /\ k \in 0..n
    BY <1>1, <1>4
  <2> DEFINE t == s \o f[k - 1]
  <2>2. t \in Seq(Nat)
    BY <2>1, ConcatFacts
  <2>3. s \o f[k] = Append(t, c[k])
    <3>1. f[k] = f[k - 1] \o <<c[k]>>
      BY <1>4
    <3>2. Append(t, c[k]) = t \o <<c[k]>>
      BY <2>1, <2>2, AppendIsConcat
    <3>3. s \o (f[k - 1] \o <<c[k]>>) = (s \o f[k - 1]) \o <<c[k]>>
      <4>1. <<c[k]>> \in Seq(Nat) /\ f[k - 1] \in Seq(Nat) /\ s \in Seq(Nat)
        BY <2>1
      <4>2. QED
        BY <4>1, ConcatNumbers, Zenon
    <3>4. QED
      BY <3>1, <3>2, <3>3, Zenon
  <2>4. g[k - 1] = At(l, t) /\ g[k] = At(l, Append(t, c[k])) /\ ss[k] = NodePacket(c[k])
    BY <2>1, <2>3
  <2> HIDE DEF t, g, ss
  <2>5. Leads(NodePacket(c[k]), At(l, t), At(l, Append(t, c[k])))
    BY <2>1, <2>2, LeadsNode
  <2>6. QED
    BY <2>4, <2>5
<1>7. ss \in Seq(Seq(Packets)) /\ Len(ss) = n
  <2>1. ASSUME NEW k \in 1..n PROVE ss[k] \in Seq(Packets)
    BY <1>6 DEF Leads
  <2>2. ss = [k \in 1..n |-> ss[k]]
    OBVIOUS
  <2> HIDE DEF ss
  <2>3. QED
    BY <1>1, <2>1, <2>2
<1>8. g[0] = At(l, s) /\ g[n] = At(l, s \o c)
  <2>1. s \o <<>> = s
    BY ConcatEmptySeq
  <2>2. g[0] = At(l, s \o f[0]) /\ g[n] = At(l, s \o f[n])
    BY <1>1
  <2>3. QED
    BY <1>4, <2>1, <2>2, Zenon
<1>9. Leads(FlattenSeq(ss), g[0], g[n])
  <2> HIDE DEF ss, g
  <2>1. QED
    BY <1>5, <1>6, <1>7, LeadsAlong
<1>10. QED
  BY <1>8, <1>9, Zenon DEF NodePackets

(* The streams.  Each holds at most 18 words, or a node's before them, when  *)
(* it next gives the GPU time to drain.                                      *)
Level(l) == At(l, <<>>)

(* A GP0 write, with nothing drawn yet.                                    *)
LEMMA LeadsWords ==
  ASSUME NEW w \in Nat, NEW l \in 0..18, NEW m \in 0..18, m = l + w
  PROVE  Leads(GP0(w), Level(l), Level(m))
<1>1. <<>> \in Seq(Nat) /\ l + w <= 18
  OBVIOUS
<1>2. QED
  BY <1>1, LeadsGP0 DEF Level

(* A GP1 write takes no room.                                              *)
LEMMA LeadsStatus ==
  ASSUME NEW w \in Nat, NEW l \in 0..18
  PROVE  Leads(GP1(w), Level(l), Level(l))
<1>1. <<>> \in Seq(Nat)
  OBVIOUS
<1>2. QED
  BY <1>1, LeadsGP1 DEF Level

(* Writes followed by time to drain.                                       *)
LEMMA LeadsDrained ==
  ASSUME NEW v \in Nat, NEW w \in Nat, NEW l \in 0..18
  PROVE  /\ l + w <= 18 => Leads(Drain(GP0(w)), Level(l), Level(l))
         /\ l + v + w <= 18 => Leads(Drain(GP0(v) \o GP0(w)), Level(l), Level(l))
<1>1. <<>> \in Seq(Nat)
  OBVIOUS
<1>2. QED
  BY <1>1, LeadsDrainOne, LeadsDrainTwo DEF Level

(* A list, with nothing drawn before.                                      *)
LEMMA LeadsList ==
  ASSUME NEW c \in Seq(Nodes), NEW l \in 0..18
  PROVE  Leads(NodePackets(c), Level(l), At(l, c))
<1>1. c \in Seq(Nat)
  BY NodeFacts
<1>2. <<>> \in Seq(Nat) /\ <<>> \o c = c
  BY <1>1, ConcatEmptySeq
<1>3. Leads(NodePackets(c), At(l, <<>>), At(l, <<>> \o c))
  BY <1>2, LeadsNodes
<1>4. QED
  BY <1>2, <1>3 DEF Level

(* One node.                                                               *)
LEMMA LeadsPick ==
  ASSUME NEW n \in Nodes, NEW l \in 0..18
  PROVE  Leads(NodePacket(n), Level(l), At(l, <<n>>))
<1>1. <<>> \in Seq(Nat) /\ Append(<<>>, n) = <<n>>
  OBVIOUS
<1>2. Leads(NodePacket(n), At(l, <<>>), At(l, Append(<<>>, n)))
  BY <1>1, LeadsNode
<1>3. QED
  BY <1>1, <1>2 DEF Level

(* The streams of gen_stream.py, one by one: the display setup,            *)
LEMMA LeadsDisplay == Leads(display_setup_320x240, Level(0), Level(4))
<1>1. Leads(GP1(7), Level(0), Level(0))
  BY LeadsStatus
<1>2. Leads(GP0(1), Level(0), Level(1)) /\ Leads(GP0(2), Level(1), Level(3))
      /\ Leads(GP0(1), Level(3), Level(4))
  BY LeadsWords
<1>3. Leads(GP1(7) \o GP0(1), Level(0), Level(1))
  BY <1>1, <1>2, LeadsOn
<1>4. Leads((GP1(7) \o GP0(1)) \o GP0(2), Level(0), Level(3))
  BY <1>2, <1>3, LeadsOn
<1>5. QED
  BY <1>2, <1>4, LeadsOn DEF display_setup_320x240, DisplayOn, draw_mode, draw_area, draw_offset

(* that of the panel rig,                                                  *)
LEMMA LeadsPanel == Leads(PanelSetup, Level(0), Level(4))
<1>1. Leads(GP1(7), Level(0), Level(0))
  BY LeadsStatus
<1>2. Leads(GP0(2), Level(0), Level(2)) /\ Leads(GP0(1), Level(2), Level(3))
      /\ Leads(GP0(1), Level(3), Level(4))
  BY LeadsWords
<1>3. Leads(GP1(7) \o GP0(2), Level(0), Level(2))
  BY <1>1, <1>2, LeadsOn
<1>4. Leads((GP1(7) \o GP0(2)) \o GP0(1), Level(0), Level(3))
  BY <1>2, <1>3, LeadsOn
<1>5. QED
  BY <1>2, <1>4, LeadsOn DEF PanelSetup, DisplayOn, draw_area, draw_offset, tex_window

(* a stream that leads back to where it began, any number of times,        *)
LEMMA LeadsAgain ==
  ASSUME NEW k \in Nat, NEW ps, NEW a, Leads(ps, a, a)
  PROVE  Leads(FlattenSeq([i \in 1..k |-> ps]), a, a)
<1> DEFINE ss == [i \in 1..k |-> ps]
           g == [i \in 0..k |-> a]
<1>1. ps \in Seq(Packets) /\ a \in Marks
  BY DEF Leads
<1>2. ss \in Seq(Seq(Packets)) /\ Len(ss) = k /\ g \in [0..k -> Marks] /\ g[0] = a /\ g[k] = a
  BY <1>1
<1>3. \A i \in 1..k : ss[i] = ps /\ g[i - 1] = a /\ g[i] = a
  OBVIOUS
<1> HIDE DEF ss, g
<1>4. Leads(FlattenSeq(ss), g[0], g[k])
  BY <1>2, <1>3, LeadsAlong
<1>5. QED
  BY <1>2, <1>4, Zenon DEF ss

(* and the builds.                                                         *)
LEMMA LeadsDemo == Leads(build_demo, Level(0), Level(16))
<1>1. Leads(GP0(3), Level(4), Level(7)) /\ Leads(GP0(3), Level(7), Level(10))
      /\ Leads(GP0(3), Level(10), Level(13)) /\ Leads(GP0(3), Level(13), Level(16))
  BY LeadsWords
<1> DEFINE d == display_setup_320x240
<1>2. Leads(d \o GP0(3), Level(0), Level(7))
  BY <1>1, LeadsDisplay, LeadsOn
<1>3. Leads((d \o GP0(3)) \o GP0(3), Level(0), Level(10))
  BY <1>1, <1>2, LeadsOn
<1>4. Leads(((d \o GP0(3)) \o GP0(3)) \o GP0(3), Level(0), Level(13))
  BY <1>1, <1>3, LeadsOn
<1>5. Leads((((d \o GP0(3)) \o GP0(3)) \o GP0(3)) \o GP0(3), Level(0), Level(16))
  BY <1>1, <1>4, LeadsOn
<1>6. QED
  BY <1>5 DEF build_demo, fill_vram, flat_rect

(* What the textured builds begin with.                                    *)
LEMMA LeadsTexture ==
  Leads(display_setup_320x240 \o fill_vram \o draw_mode \o tex_window, Level(0), Level(9))
<1>1. Leads(GP0(3), Level(4), Level(7)) /\ Leads(GP0(1), Level(7), Level(8))
      /\ Leads(GP0(1), Level(8), Level(9))
  BY LeadsWords
<1> DEFINE d == display_setup_320x240
<1>2. Leads(d \o GP0(3), Level(0), Level(7))
  BY <1>1, LeadsDisplay, LeadsOn
<1>3. Leads((d \o GP0(3)) \o GP0(1), Level(0), Level(8))
  BY <1>1, <1>2, LeadsOn
<1>4. Leads(((d \o GP0(3)) \o GP0(1)) \o GP0(1), Level(0), Level(9))
  BY <1>1, <1>3, LeadsOn
<1>5. QED
  BY <1>4 DEF fill_vram, draw_mode, tex_window

(* build_texquad.                                                          *)
LEMMA LeadsTexquad == Leads(build_texquad, Level(0), Level(18))
<1>1. Leads(GP0(9), Level(9), Level(18))
  BY LeadsWords
<1>2. QED
  BY <1>1, LeadsTexture, LeadsOn DEF build_texquad, quad_tex_4pt

(* build_texrect.                                                          *)
LEMMA LeadsTexrect == Leads(build_texrect, Level(0), Level(13))
<1>1. Leads(GP0(4), Level(9), Level(13))
  BY LeadsWords
<1>2. QED
  BY <1>1, LeadsTexture, LeadsOn DEF build_texrect, rect_tex

(* build_bgpanel573.                                                       *)
LEMMA LeadsBgpanel == Leads(build_bgpanel573, Level(0), Level(4))
<1> DEFINE ps == Drain(GP0(1) \o GP0(4))
<1>1. Leads(ps, Level(4), Level(4))
  BY LeadsDrained
<1> HIDE DEF ps
<1>2. Leads(FlattenSeq([i \in 1..4 |-> ps]), Level(4), Level(4))
  BY <1>1, LeadsAgain
<1>3. Leads(PanelSetup \o FlattenSeq([i \in 1..4 |-> ps]), Level(0), Level(4))
  BY <1>2, LeadsPanel, LeadsOn
<1>4. QED
  BY <1>3, Zenon DEF build_bgpanel573, ps, draw_mode, rect_tex

(* build_clutrace with time to drain.                                      *)
LEMMA LeadsClutrace ==
  ASSUME job.build = "clutrace", Paced, job.gap \in {"drain", "step"}, ClutQuads \in Nat
  PROVE  Leads(build_clutrace, Level(0), Level(9))
<1> DEFINE ps == Drain(GP0(9))
           k == ClutQuads
<1>1. Leads(ps, Level(9), Level(9)) /\ k \in Nat
  <2>1. Leads(Drain(GP0(9)), Level(9), Level(9))
    BY LeadsDrained
  <2>2. QED
    BY <2>1
<1>2. ClutQuad = ps
  BY DEF ClutQuad, Paced, quad_tex_4pt
<1> HIDE DEF ps, k
<1>3. Leads(FlattenSeq([i \in 1..k |-> ps]), Level(9), Level(9))
  BY <1>1, LeadsAgain
<1> DEFINE d == display_setup_320x240 \o fill_vram \o draw_mode \o tex_window
<1>4. Leads(d \o FlattenSeq([i \in 1..k |-> ps]), Level(0), Level(9))
  <2>1. Leads(d, Level(0), Level(9))
    BY LeadsTexture
  <2> HIDE DEF d
  <2>2. QED
    BY <1>3, <2>1, LeadsOn
<1>5. build_clutrace = d \o FlattenSeq([i \in 1..k |-> ps])
  BY <1>2, Zenon DEF build_clutrace, k
<1>6. QED
  BY <1>4, <1>5, Zenon

(* The packets that draw no node.                                          *)
Drawless == {p \in Packets : p.node = NoNode}

(* build_clutrace draws none, drained or not.                              *)
LEMMA ClutraceIsQuiet ==
  ASSUME ClutQuads \in Nat
  PROVE  build_clutrace \in Seq(Drawless)
<1> DEFINE k == ClutQuads
           ss == [i \in 1..k |-> ClutQuad]
<1>1. ASSUME NEW w \in Nat PROVE GP0(w) \in Seq(Drawless) /\ GP1(w) \in Seq(Drawless)
  <2>1. Packet("GP0", w, "step", NoNode) \in Drawless /\ Packet("GP1", w, "step", NoNode) \in Drawless
    BY DEF Packet, Drawless, Packets, NoNode
  <2>2. QED
    BY <2>1 DEF GP0, GP1
<1>2. ASSUME NEW ps \in Seq(Drawless), NEW qs \in Seq(Drawless) PROVE ps \o qs \in Seq(Drawless)
  BY ConcatFacts
<1>3. ClutQuad \in Seq(Drawless)
  <2>1. Drain(GP0(9)) = <<Packet("GP0", 9, "drain", NoNode)>>
    BY DEF Drain, GP0, Packet
  <2>2. Packet("GP0", 9, "drain", NoNode) \in Drawless
    BY DEF Packet, Drawless, Packets, NoNode
  <2>3. Drain(GP0(9)) \in Seq(Drawless)
    <3> DEFINE x == Packet("GP0", 9, "drain", NoNode)
    <3>1. x \in Drawless
      BY <2>2
    <3> HIDE DEF x
    <3>2. <<x>> \in Seq(Drawless)
      BY <3>1
    <3>3. QED
      BY <2>1, <3>2, Zenon DEF x
  <2>4. GP0(9) \in Seq(Drawless)
    BY <1>1
  <2>5. QED
    BY <2>3, <2>4 DEF ClutQuad, quad_tex_4pt
<1>4. ss \in Seq(Seq(Drawless))
  BY <1>3
<1> HIDE DEF ss
<1>5. FlattenSeq(ss) \in Seq(Drawless)
  BY <1>4, FlattenType
<1> DEFINE a == (GP1(7) \o GP0(1)) \o GP0(2)
           d == ((a \o GP0(1)) \o GP0(3)) \o GP0(1)
<1>6. /\ GP1(7) \in Seq(Drawless) /\ GP0(1) \in Seq(Drawless) /\ GP0(2) \in Seq(Drawless)
      /\ GP0(3) \in Seq(Drawless)
  BY <1>1
<1>7. a \in Seq(Drawless)
  BY <1>2, <1>6
<1> HIDE DEF a
<1>8. d \in Seq(Drawless)
  <2>1. a \o GP0(1) \in Seq(Drawless)
    BY <1>2, <1>6, <1>7
  <2>2. (a \o GP0(1)) \o GP0(3) \in Seq(Drawless)
    BY <1>2, <1>6, <2>1
  <2>3. QED
    BY <1>2, <1>6, <2>2
<1>9. build_clutrace = (d \o GP0(1)) \o FlattenSeq(ss)
  BY Zenon DEF build_clutrace, display_setup_320x240, DisplayOn, fill_vram, draw_mode, draw_area,
    draw_offset, tex_window, a, d, ss
<1> HIDE DEF d
<1>10. d \o GP0(1) \in Seq(Drawless)
  BY <1>2, <1>6, <1>8
<1>11. (d \o GP0(1)) \o FlattenSeq(ss) \in Seq(Drawless)
  BY <1>2, <1>5, <1>10
<1>12. QED
  BY <1>9, <1>11, Zenon

(* build_wrongclut: what comes before the node is the most any build has   *)
(* queued before a node.                                                   *)
LEMMA LeadsWrongclut ==
  ASSUME job.pick \in Nodes
  PROVE  Leads(build_wrongclut, Level(0), At(18, <<job.pick>>))
<1>1. Leads(GP0(3), Level(4), Level(7)) /\ Leads(cpu2vram(16), Level(7), Level(18))
  <2>1. (16 + 1) \div 2 = 8
    OBVIOUS
  <2>2. cpu2vram(16) = GP0(11)
    BY <2>1 DEF cpu2vram
  <2>3. QED
    BY <2>2, LeadsWords
<1>2. Leads(NodePacket(job.pick), Level(18), At(18, <<job.pick>>))
  BY LeadsPick
<1>3. Leads(PanelSetup \o fill_vram, Level(0), Level(7))
  BY <1>1, LeadsPanel, LeadsOn DEF fill_vram
<1>4. Leads((PanelSetup \o fill_vram) \o cpu2vram(16), Level(0), Level(18))
  BY <1>1, <1>3, LeadsOn
<1>5. QED
  BY <1>2, <1>4, LeadsOn DEF build_wrongclut

(* build_fullframe draws every chain.                                      *)
LEMMA LeadsFullframe ==
  ASSUME chains \in Seq(Seq(Nodes))
  PROVE  Leads(build_fullframe573, Level(0), At(4, FlattenSeq(chains)))
<1> DEFINE n == Len(chains)
           ss == [i \in 1..n |-> NodePackets(chains[i])]
<1>1. n \in Nat /\ \A i \in 1..n : chains[i] \in Seq(Nodes)
  OBVIOUS
<1>2. chains \in Seq(Seq(Nat)) /\ \A c \in Seq(Nodes) : c \in Seq(Nat)
  <2>1. \A c \in Seq(Nodes) : c \in Seq(Nat)
    BY NodeFacts
  <2>2. QED
    BY <1>1, <2>1
<1>3. PICK f \in [0..n -> Seq(Nat)] :
        f[0] = <<>> /\ f[n] = FlattenSeq(chains) /\ \A i \in 1..n : f[i] = f[i - 1] \o chains[i]
  <2>1. Joinings(Nat, chains) # {}
    BY <1>2, FlattenIs
  <2>2. QED
    BY <2>1, Zenon DEF Joinings
<1> DEFINE g == [i \in 0..n |-> At(4, f[i])]
<1>4. g \in [0..n -> Marks] /\ g[0] = Level(4) /\ g[n] = At(4, FlattenSeq(chains))
  <2>1. \A i \in 0..n : At(4, f[i]) \in Marks
    BY <1>3 DEF At, Marks
  <2>2. QED
    BY <1>1, <1>3, <2>1 DEF Level
<1>5. ASSUME NEW i \in 1..n PROVE Leads(ss[i], g[i - 1], g[i])
  <2>1. f[i - 1] \in Seq(Nat) /\ chains[i] \in Seq(Nodes) /\ i - 1 \in 0..n /\ i \in 0..n
    <3>1. n \in Nat
      BY <1>1
    <3>2. i - 1 \in 0..n /\ i \in 0..n
      BY <3>1
    <3>3. f[i - 1] \in Seq(Nat)
      BY <3>2, <1>3
    <3>4. chains[i] \in Seq(Nodes)
      BY <1>1
    <3>5. QED
      BY <3>2, <3>3, <3>4
  <2> DEFINE s == f[i - 1]
             c == chains[i]
  <2>2. Leads(NodePackets(chains[i]), At(4, f[i - 1]), At(4, f[i - 1] \o chains[i]))
    <3>1. s \in Seq(Nat) /\ c \in Seq(Nodes) /\ 4 \in 0..18
      BY <2>1
    <3> HIDE DEF s, c
    <3>2. Leads(NodePackets(c), At(4, s), At(4, s \o c))
      BY <3>1, LeadsNodes
    <3>3. QED
      BY <3>2 DEF s, c
  <2>3. /\ ss[i] = NodePackets(chains[i]) /\ g[i - 1] = At(4, f[i - 1]) /\ g[i] = At(4, f[i])
        /\ f[i] = f[i - 1] \o chains[i]
    BY <1>3, <2>1
  <2> HIDE DEF ss, g
  <2>4. QED
    BY <2>2, <2>3, Zenon
<1>6. ss \in Seq(Seq(Packets)) /\ Len(ss) = n
  <2>1. ASSUME NEW i \in 1..n PROVE ss[i] \in Seq(Packets)
    BY <1>5 DEF Leads
  <2>2. ss = [i \in 1..n |-> ss[i]]
    OBVIOUS
  <2> HIDE DEF ss
  <2>3. QED
    BY <1>1, <2>1, <2>2
<1>7. Leads(FlattenSeq(ss), Level(4), At(4, FlattenSeq(chains)))
  <2>1. Leads(FlattenSeq(ss), g[0], g[n])
    <3> HIDE DEF ss, g
    <3>1. QED
      BY <1>4, <1>5, <1>6, LeadsAlong
  <2>2. QED
    BY <1>4, <2>1, Zenon
<1>8. Leads(PanelSetup \o FlattenSeq(ss), Level(0), At(4, FlattenSeq(chains)))
  <2> HIDE DEF ss
  <2>1. QED
    BY <1>7, LeadsPanel, LeadsOn
<1>9. build_fullframe573 = PanelSetup \o FlattenSeq(ss)
  BY Zenon DEF build_fullframe573, NodePackets
<1>10. QED
  BY <1>8, <1>9, Zenon

(* build_garbleband draws its targets.                                     *)
LEMMA LeadsGarbleband ==
  ASSUME Targets \in Seq(Nodes)
  PROVE  Leads(build_garbleband, Level(0), At(13, Targets))
<1> DEFINE t == Targets
<1>1. t \in Seq(Nat)
  BY NodeFacts
<1>2. Leads(PanelSetup \o fill_vram, Level(0), Level(7))
  <2>1. Leads(GP0(3), Level(4), Level(7))
    BY LeadsWords
  <2>2. QED
    BY <2>1, LeadsPanel, LeadsOn DEF fill_vram
<1>3. Leads(NodePackets(t), Level(7), At(7, t))
  BY LeadsList
<1> HIDE DEF t
<1>4. Leads(GP0(1), At(7, t), At(8, t)) /\ Leads(GP0(1), At(8, t), At(9, t))
      /\ Leads(GP0(4), At(9, t), At(13, t))
  BY <1>1, LeadsGP0
<1> DEFINE a == (PanelSetup \o fill_vram) \o NodePackets(t)
<1>5. Leads(a, Level(0), At(7, t))
  BY <1>2, <1>3, LeadsOn
<1> HIDE DEF a
<1>6. Leads(a \o GP0(1), Level(0), At(8, t))
  BY <1>4, <1>5, LeadsOn
<1>7. Leads((a \o GP0(1)) \o GP0(1), Level(0), At(9, t))
  BY <1>4, <1>6, LeadsOn
<1>8. Leads(((a \o GP0(1)) \o GP0(1)) \o GP0(4), Level(0), At(13, t))
  BY <1>4, <1>7, LeadsOn
<1>9. build_garbleband = ((a \o GP0(1)) \o GP0(1)) \o GP0(4)
  BY Zenon DEF build_garbleband, NodePackets, a, t, draw_mode, tex_window, rect_tex
<1>10. QED
  BY <1>8, <1>9, Zenon DEF t

(* The walk.                                                                 *)
Walks == [nodes : Seq(Nodes), addr : Nodes \cup {Outside}]

(* The steps of walk_ot.                                                   *)
Traces(head) ==
  {w \in [0..MaxNodes -> Walks] :
     /\ w[0] = [nodes |-> <<>>, addr |-> head] /\ w[MaxNodes].nodes = walk_ot(head)
     /\ \A i \in 1..MaxNodes : w[i] = TraceStep(w[i - 1])}

(* The walk takes MaxNodes steps at most.                                  *)
LEMMA TraceIs ==
  ASSUME next \in [Nodes -> Nodes \cup {Outside}], NEW head \in Nodes
  PROVE  Traces(head) # {}
<1> DEFINE n == MaxNodes
           first == [nodes |-> <<>>, addr |-> head]
           step == [i \in 1..n |-> [w \in Walks |-> TraceStep(w)]]
<1>1. n \in Nat /\ first \in Walks
  <2>1. <<>> \in Seq(Nodes)
    OBVIOUS
  <2>2. QED
    BY <2>1, NodeAssumption DEF Walks
<1>2. ASSUME NEW w \in Walks PROVE TraceStep(w) \in Walks
  <2>1. w.nodes \in Seq(Nodes) /\ w.addr \in Nodes \cup {Outside}
    BY DEF Walks
  <2>2. CASE w.addr \notin Nodes \/ w.addr \in Range(w.nodes)
    BY <2>2 DEF TraceStep
  <2>3. CASE ~(w.addr \notin Nodes \/ w.addr \in Range(w.nodes))
    <3>1. TraceStep(w) = [nodes |-> Append(w.nodes, w.addr), addr |-> next[w.addr]]
      BY <2>3 DEF TraceStep
    <3>2. Append(w.nodes, w.addr) \in Seq(Nodes) /\ next[w.addr] \in Nodes \cup {Outside}
      BY <2>1, <2>3, AppendProperties
    <3>3. QED
      BY <3>1, <3>2 DEF Walks
  <2>4. QED
    BY <2>2, <2>3
<1>3. step \in [1..n -> [Walks -> Walks]]
  BY <1>2
<1>4. PICK f \in [0..n -> Walks] : f[0] = first /\ \A i \in 1..n : f[i] = step[i][f[i - 1]]
  <2>1. Iterates(n, Walks, first, step) # {}
    <3> HIDE DEF n, first, step
    <3>1. QED
      BY <1>1, <1>3, StepByStep
  <2>2. QED
    BY <2>1, Zenon DEF Iterates
<1>5. ASSUME NEW i \in 1..n PROVE f[i] = TraceStep(f[i - 1])
  <2>1. f[i - 1] \in Walks
    BY <1>1, <1>4
  <2>2. QED
    BY <1>4, <2>1
<1> DEFINE K == CHOOSE h : h = [i \in 0..n |-> IF i = 0 THEN first ELSE TraceStep(h[i - 1])]
<1>6. f = [i \in 0..n |-> IF i = 0 THEN first ELSE TraceStep(f[i - 1])]
  <2>1. ASSUME NEW i \in 0..n PROVE f[i] = IF i = 0 THEN first ELSE TraceStep(f[i - 1])
    <3>1. CASE i = 0
      BY <1>4, <3>1
    <3>2. CASE i # 0
      <4>1. i \in 1..n
        BY <1>1, <3>2
      <4>2. QED
        BY <1>5, <3>2, <4>1
    <3>3. QED
      BY <3>1, <3>2
  <2> HIDE DEF first
  <2>2. QED
    BY <1>4, <2>1
<1>7. K = [i \in 0..n |-> IF i = 0 THEN first ELSE TraceStep(K[i - 1])]
  <2> HIDE DEF first
  <2>1. QED
    BY <1>6, Zenon
<1>8. walk_ot(head) = K[n].nodes
  BY Zenon DEF walk_ot
<1> HIDE DEF K, first
<1>9. 0..n \subseteq {i \in 0..n : K[i] = f[i]}
  <2> DEFINE T == {i \in 0..n : K[i] = f[i]}
  <2>1. 0 \in T
    BY <1>1, <1>4, <1>7
  <2>2. ASSUME NEW i \in 1..n, i - 1 \in T PROVE i \in T
    <3>1. i \in 0..n /\ i # 0 /\ K[i - 1] = f[i - 1]
      BY <2>2, <1>1
    <3>2. K[i] = TraceStep(K[i - 1])
      BY <1>7, <3>1
    <3>3. f[i] = TraceStep(f[i - 1])
      BY <1>5
    <3>4. K[i] = f[i]
      BY <3>1, <3>2, <3>3, Zenon
    <3>5. QED
      BY <3>1, <3>4
  <2>3. QED
    <3> HIDE DEF T
    <3>1. 0..n \subseteq T
      BY <1>1, <2>1, <2>2, CountsUp
    <3>2. QED
      BY <3>1 DEF T
<1>10. f[n].nodes = walk_ot(head)
  BY <1>1, <1>8, <1>9
<1>11. f \in Traces(head)
  BY <1>4, <1>5, <1>10, Zenon DEF Traces, first
<1>12. QED
  BY <1>11

(* ot_trace.py's walk of a list that is one, is that list.                   *)
LEMMA WalkIsList ==
  ASSUME next \in [Nodes -> Nodes \cup {Outside}], NEW head \in Nodes,
         NEW c \in Seq(Nodes), Len(c) \in 1..MaxNodes, OneList(c, head)
  PROVE  walk_ot(head) = c
<1> DEFINE L == Len(c)
           N == MaxNodes
<1>1. /\ L \in 1..N /\ N \in Nat /\ c[1] = head
      /\ \A i \in 1..L - 1 : c[i + 1] = next[c[i]]
      /\ \A i, j \in 1..L : c[i] = c[j] => i = j
      /\ L = N \/ next[c[L]] \in {Outside} \cup Range(c)
  BY NodeAssumption DEF OneList
<1>2. PICK w \in [0..N -> Walks] :
        /\ w[0] = [nodes |-> <<>>, addr |-> head] /\ w[N].nodes = walk_ot(head)
        /\ \A i \in 1..N : w[i] = TraceStep(w[i - 1])
  <2>1. Traces(head) # {}
    BY TraceIs
  <2>2. QED
    BY <2>1, Zenon DEF Traces
<1> HIDE DEF L, N
<1> DEFINE Short(k) == IF k < L THEN k ELSE L
           Follow(k) == IF k < L THEN c[k + 1] ELSE next[c[L]]
           Is(k) == /\ Len(w[k].nodes) = Short(k) /\ \A i \in 1..Short(k) : w[k].nodes[i] = c[i]
                    /\ w[k].addr = Follow(k)
           T == {k \in 0..N : Is(k)}
<1>3. \A k \in 0..N : w[k].nodes \in Seq(Nodes)
  BY <1>2 DEF Walks
<1>4. 0 \in T
  <2>1. w[0].nodes = <<>> /\ w[0].addr = c[0 + 1] /\ 0 < L /\ 0 \in 0..N
    BY <1>1, <1>2
  <2>2. QED
    BY <2>1
<1>5. ASSUME NEW k \in 1..N, k - 1 \in T PROVE k \in T
  <2> DEFINE v == w[k - 1]
             ns == v.nodes
  <2>1. /\ w[k] = TraceStep(v) /\ ns \in Seq(Nodes)
        /\ Len(ns) = Short(k - 1) /\ \A i \in 1..Short(k - 1) : ns[i] = c[i]
        /\ v.addr = Follow(k - 1)
    <3>1. k - 1 \in 0..N
      BY <1>1
    <3>2. QED
      BY <1>2, <1>3, <1>5, <3>1
  <2>5. /\ v.addr \notin Nodes \/ v.addr \in Range(ns) => TraceStep(v) = v
        /\ ~(v.addr \notin Nodes \/ v.addr \in Range(ns)) =>
             TraceStep(v) = [nodes |-> Append(ns, v.addr), addr |-> next[v.addr]]
    BY DEF TraceStep
  <2>6. v.nodes = ns
    OBVIOUS
  <2>7. ns \in Seq(Nodes)
    BY <2>1
  <2> HIDE DEF ns, v
  <2>2. CASE k - 1 < L
    <3>1. /\ Len(ns) = k - 1 /\ \A i \in 1..k - 1 : ns[i] = c[i]
          /\ v.addr = c[k] /\ k \in 1..L
      <4>1. k \in 1..L /\ (k - 1) + 1 = k /\ k - 1 \in 0..N
        BY <1>1, <2>2
      <4>2. Short(k - 1) = k - 1 /\ Follow(k - 1) = c[(k - 1) + 1]
        BY <2>2
      <4> HIDE DEF Short, Follow
      <4>3. QED
        BY <2>1, <4>1, <4>2
    <3>2. c[k] \in Nodes /\ c[k] \notin Range(ns)
      <4>1. c[k] \in Nodes
        BY <3>1 DEF L
      <4>2. SUFFICES ASSUME c[k] \in Range(ns) PROVE FALSE
        BY <4>1
      <4>3. PICK i \in 1..Len(ns) : ns[i] = c[k]
        BY <2>7, <4>2, InRange
      <4>4. i \in 1..k - 1 /\ c[i] = c[k]
        BY <3>1, <4>3
      <4>5. QED
        BY <1>1, <3>1, <4>4
    <3>3. w[k] = [nodes |-> Append(ns, c[k]), addr |-> next[c[k]]]
      BY <2>1, <2>5, <3>1, <3>2
    <3>4. w[k].nodes = Append(ns, c[k]) /\ w[k].addr = next[c[k]]
      BY <3>3
    <3>5. Len(w[k].nodes) = k /\ \A i \in 1..k : w[k].nodes[i] = c[i]
      <4>1. Len(Append(ns, c[k])) = Len(ns) + 1
        BY <2>1, <3>2, AppendProperties
      <4>2. \A i \in 1..Len(ns) : Append(ns, c[k])[i] = ns[i]
        BY <2>1, <3>2, AppendProperties
      <4>3. Append(ns, c[k])[Len(ns) + 1] = c[k]
        BY <2>1, <3>2, AppendProperties
      <4>4. QED
        BY <3>1, <3>4, <4>1, <4>2, <4>3
    <3>6. Short(k) = k /\ Follow(k) = next[c[k]]
      BY <1>1, <3>1
    <3>7. Is(k)
      BY <3>4, <3>5, <3>6
    <3> HIDE DEF Is
    <3>8. QED
      BY <1>1, <3>7
  <2>3. CASE ~(k - 1 < L)
    <3>1. /\ Len(ns) = L /\ v.addr = next[c[L]]
          /\ \A i \in 1..L : ns[i] = c[i]
          /\ L # N /\ Short(k) = L /\ Follow(k) = next[c[L]]
      BY <1>1, <2>1, <2>3
    <3>2. ns = c
      BY <2>1, <3>1, SeqEqual DEF L
    <3>3. v.addr \notin Nodes \/ v.addr \in Range(ns)
      <4>1. Outside \notin Nodes
        BY NodeAssumption
      <4>2. QED
        BY <1>1, <3>1, <3>2, <4>1
    <3>4. w[k] = v
      BY <2>1, <2>5, <3>3
    <3>5. Is(k)
      <4>1. w[k].nodes = ns /\ w[k].addr = v.addr
        BY <2>6, <3>4
      <4> HIDE DEF Short, Follow
      <4>2. QED
        BY <3>1, <4>1
    <3> HIDE DEF Is
    <3>6. QED
      BY <1>1, <3>5
  <2>4. QED
    BY <2>2, <2>3
<1>6. N \in T
  <2>1. 0..N \subseteq T
    <3> HIDE DEF T
    <3>1. QED
      BY <1>1, <1>4, <1>5, CountsUp
  <2>2. QED
    BY <1>1, <2>1
<1>7. Short(N) = L
  BY <1>1
<1>8. w[N].nodes = c
  <2>1. Len(w[N].nodes) = L /\ \A i \in 1..L : w[N].nodes[i] = c[i]
    BY <1>6, <1>7
  <2>2. w[N].nodes \in Seq(Nodes)
    BY <1>1, <1>3
  <2>3. QED
    BY <2>1, <2>2, SeqEqual DEF L
<1>9. QED
  BY <1>2, <1>8

(* The nodes the band replay draws.                                          *)
LEMMA TargetsAre ==
  ASSUME chains \in Seq(Seq(Nodes)), Len(chains) >= 1, job.pick \in Nodes
  PROVE  /\ Targets \in Seq(Nodes)
         /\ \A i, j \in 1..Len(Targets) : Targets[i] = Targets[j] => i = j
         /\ Range(Targets) = Range(chains[1]) \cap
              ({job.pick} \cup (IF job.option = "neighbors" THEN Range(Band) ELSE {}))
<1> DEFINE c == chains[1]
           kept == Kept(Band, Range(c))
           band == IF job.option # "neighbors" THEN <<>> ELSE kept
           pick == job.pick
           wanted == IF job.option = "neighbors" THEN Range(Band) ELSE {}
<1>1. Targets = IF pick \notin Range(band) /\ pick \in Range(c) THEN <<pick>> \o band ELSE band
  BY DEF Targets
<1>2. c \in Seq(Nodes) /\ pick \in Nodes
  OBVIOUS
<1>3. Range(c) \subseteq Nodes
  BY <1>2 DEF Range
<1>4. Band \in Seq(Nat) /\ \A i, j \in 1..Len(Band) : Band[i] = Band[j] => i = j
  BY BandAssumption
<1>5. /\ kept \in Seq(Nat) /\ Range(kept) = Range(Band) \cap Range(c)
      /\ \A i, j \in 1..Len(kept) : i < j =>
           \E p, q \in 1..Len(Band) : p < q /\ Band[p] = kept[i] /\ Band[q] = kept[j]
  <2> HIDE DEF c
  <2>1. QED
    BY <1>4, KeptFacts
<1> HIDE DEF c, kept
<1>6. \A i, j \in 1..Len(kept) : kept[i] = kept[j] => i = j
  <2>1. ASSUME NEW i \in 1..Len(kept), NEW j \in 1..Len(kept), i < j PROVE kept[i] # kept[j]
    <3>1. PICK p \in 1..Len(Band), q \in 1..Len(Band) : p < q /\ Band[p] = kept[i] /\ Band[q] = kept[j]
      BY <1>5, <2>1
    <3>2. SUFFICES ASSUME kept[i] = kept[j] PROVE FALSE
      OBVIOUS
    <3>3. Band[p] = Band[q]
      BY <3>1, <3>2, Zenon
    <3>4. p = q
      BY <1>4, <3>3
    <3>5. p \in Int /\ q \in Int
      BY <1>4
    <3>6. QED
      BY <3>1, <3>4, <3>5
  <2>2. QED
    <3>1. Len(kept) \in Nat
      BY <1>5
    <3>2. ASSUME NEW i \in 1..Len(kept), NEW j \in 1..Len(kept), kept[i] = kept[j] PROVE i = j
      <4>1. i \in Int /\ j \in Int /\ ~(i < j) /\ ~(j < i)
        BY <2>1, <3>1, <3>2
      <4>2. QED
        BY <4>1
    <3>3. QED
      BY <3>2, Zenon
<1>7. kept \in Seq(Nodes)
  <2>1. \A i \in 1..Len(kept) : kept[i] \in Nodes
    <3>1. ASSUME NEW i \in 1..Len(kept) PROVE kept[i] \in Nodes
      <4>1. kept[i] \in Range(kept)
        BY <1>5, IsInRange
      <4>2. QED
        BY <1>3, <1>5, <4>1
    <3>2. QED
      BY <3>1
  <2>2. kept = [i \in 1..Len(kept) |-> kept[i]] /\ Len(kept) \in Nat
    BY <1>5
  <2>3. kept \in [1..Len(kept) -> Nodes]
    BY <2>1, <2>2
  <2>4. QED
    BY <2>2, <2>3, SeqDef
<1>8. /\ band \in Seq(Nodes) /\ Range(band) = wanted \cap Range(c)
      /\ \A i, j \in 1..Len(band) : band[i] = band[j] => i = j
  <2>1. CASE job.option = "neighbors"
    <3>1. band = kept /\ wanted = Range(Band)
      BY <2>1
    <3> HIDE DEF band, wanted
    <3>2. Range(band) = wanted \cap Range(c)
      BY <1>5, <3>1
    <3>3. band \in Seq(Nodes)
      BY <1>7, <3>1
    <3>4. \A i, j \in 1..Len(band) : band[i] = band[j] => i = j
      BY <1>6, <3>1, Zenon
    <3>5. QED
      BY <3>2, <3>3, <3>4
  <2>2. CASE job.option # "neighbors"
    <3>1. band = <<>> /\ wanted = {} /\ <<>> \in Seq(Nodes) /\ Len(<<>>) = 0
      BY <2>2
    <3>2. Range(band) = {}
      BY <3>1 DEF Range
    <3> HIDE DEF band, wanted
    <3>3. Range(band) = wanted \cap Range(c)
      BY <3>1, <3>2
    <3>4. band \in Seq(Nodes) /\ \A i, j \in 1..Len(band) : band[i] = band[j] => i = j
      BY <3>1
    <3>5. QED
      BY <3>3, <3>4
  <2>3. QED
    BY <2>1, <2>2
<1> HIDE DEF band, wanted
<1>9. CASE ~(pick \notin Range(band) /\ pick \in Range(c))
  <2>1. Targets = band
    BY <1>1, <1>9
  <2>2. Range(band) = Range(c) \cap ({pick} \cup wanted)
    BY <1>8, <1>9
  <2>3. QED
    BY <1>8, <2>1, <2>2 DEF wanted, c
<1>10. CASE pick \notin Range(band) /\ pick \in Range(c)
  <2> DEFINE t == <<pick>> \o band
  <2>1. Targets = t
    BY <1>1, <1>10
  <2>2. <<pick>> \in Seq(Nodes) /\ Len(<<pick>>) = 1 /\ <<pick>>[1] = pick
    BY <1>2
  <2>3. /\ t \in Seq(Nodes) /\ Len(t) = 1 + Len(band) /\ t[1] = pick
        /\ \A j \in 1..Len(band) : t[1 + j] = band[j]
    <3>1. /\ t \in Seq(Nodes) /\ Len(t) = Len(<<pick>>) + Len(band)
          /\ \A j \in 1..Len(<<pick>>) : t[j] = <<pick>>[j]
          /\ \A j \in 1..Len(band) : t[Len(<<pick>>) + j] = band[j]
      BY <1>8, <2>2, ConcatFacts
    <3> HIDE DEF t
    <3>2. QED
      BY <2>2, <3>1
  <2> HIDE DEF t
  <2>4. Len(band) \in Nat /\ \A j \in 1..Len(band) : band[j] \in Range(band)
    BY <1>8, IsInRange
  <2>5. \A i \in 1..Len(t) : i = 1 \/ (i - 1 \in 1..Len(band) /\ t[i] = band[i - 1])
    <3>1. ASSUME NEW i \in 1..Len(t), i # 1 PROVE i - 1 \in 1..Len(band) /\ t[i] = band[i - 1]
      <4>1. i - 1 \in 1..Len(band) /\ 1 + (i - 1) = i
        BY <2>3, <2>4, <3>1
      <4>2. QED
        BY <2>3, <4>1
    <3>2. QED
      BY <3>1
  <2>6. ASSUME NEW i \in 1..Len(t), NEW j \in 1..Len(t), t[i] = t[j] PROVE i = j
    <3>1. CASE i = 1
      <4>1. j = 1
        BY <1>10, <2>3, <2>4, <2>5, <2>6, <3>1
      <4>2. QED
        BY <3>1, <4>1
    <3>2. CASE j = 1
      <4>1. i = 1
        BY <1>10, <2>3, <2>4, <2>5, <2>6, <3>2
      <4>2. QED
        BY <3>2, <4>1
    <3>3. CASE i # 1 /\ j # 1
      <4>1. /\ i - 1 \in 1..Len(band) /\ t[i] = band[i - 1]
            /\ j - 1 \in 1..Len(band) /\ t[j] = band[j - 1]
        BY <2>5, <3>3
      <4>2. band[i - 1] = band[j - 1]
        BY <2>6, <4>1
      <4>3. i - 1 = j - 1
        BY <1>8, <4>1, <4>2, Zenon
      <4>4. i \in Int /\ j \in Int
        BY <2>3
      <4>5. QED
        BY <4>3, <4>4
    <3>4. QED
      BY <3>1, <3>2, <3>3
  <2>7. Range(t) = {pick} \cup Range(band)
    <3>1. ASSUME NEW x \in Range(t) PROVE x \in {pick} \cup Range(band)
      <4>1. PICK i \in 1..Len(t) : t[i] = x
        BY <2>3, InRange
      <4>2. QED
        BY <2>3, <2>4, <2>5, <4>1
    <3>2. ASSUME NEW x \in Range(band) PROVE x \in Range(t)
      <4>1. PICK j \in 1..Len(band) : band[j] = x
        BY <1>8, InRange
      <4>2. 1 + j \in 1..Len(t)
        BY <2>3, <2>4
      <4>3. t[1 + j] \in Range(t)
        BY <2>3, <4>2, IsInRange
      <4>4. QED
        BY <2>3, <4>1, <4>3
    <3>3. pick \in Range(t)
      <4>1. 1 \in 1..Len(t)
        BY <2>3, <2>4
      <4>2. QED
        BY <2>3, <4>1, IsInRange
    <3>4. QED
      BY <3>1, <3>2, <3>3
  <2>8. Range(t) = Range(c) \cap ({pick} \cup wanted)
    BY <1>8, <1>10, <2>7
  <2>9. QED
    BY <2>1, <2>3, <2>6, <2>8 DEF wanted, c
<1>11. QED
  BY <1>9, <1>10

-----------------------------------------------------------------------------
(* The streams the tool can build.                                         *)
BuildNames == {"demo", "texquad", "texrect", "bgpanel", "clutrace", "fullframe", "garbleband", "wrongclut"}

(* The types of the replay's variables.                                    *)
ReplayType ==
  /\ next \in [Nodes -> Nodes \cup {Outside}]
  /\ job_stage \in {"none", "walk", "replay", "done"}
  /\ job_stage # "none" => job.build \in BuildNames
  /\ job.heads \in Seq(Nodes)
  /\ job.gap \in {"drain", "step"} /\ job.panel \in Nat /\ job.neigh \in Nat
  /\ job.build \in {"garbleband", "wrongclut"} => job.pick \in Nodes /\ Len(job.heads) = 1
  /\ chains \in Seq(Seq(Nodes)) /\ Len(chains) <= Len(job.heads)
  /\ nodes \in Seq(Nodes) /\ Len(nodes) <= MaxNodes

(* The nodes of a walk are a list as far as it has come.                     *)
Walked ==
  /\ seen = Range(nodes)
  /\ \A i \in 1..Len(nodes) - 1 : nodes[i + 1] = next[nodes[i]]
  /\ \A i, j \in 1..Len(nodes) : nodes[i] = nodes[j] => i = j
  /\ nodes = <<>> => addr = Outside \/ (Len(chains) < Len(job.heads) /\ addr = job.heads[Len(chains) + 1])
  /\ nodes # <<>> => /\ Len(chains) < Len(job.heads) /\ nodes[1] = job.heads[Len(chains) + 1]
                     /\ addr = next[nodes[Len(nodes)]]
  /\ job_stage \in {"replay", "done"} => Len(chains) = Len(job.heads)

(* Every chain walked is a list from its head.                             *)
ChainsAreLists ==
  \A i \in 1..Len(chains) : OneList(chains[i], job.heads[i]) /\ Len(chains[i]) \in 1..MaxNodes

(* The nodes a job draws. *)
Ahead ==
  CASE job.build = "fullframe"  -> FlattenSeq(chains)
    [] job.build = "garbleband" -> Targets
    [] job.build = "wrongclut"  -> <<job.pick>>
    [] OTHER                    -> <<>>

(* A paced stream on its way: what is drawn and what is left of the stream *)
(* make the nodes of the job.                                              *)
OnItsWay ==
  \E l, m \in Nat : Leads(stream, At(l, drawn), At(m, Ahead)) /\ backlog \in 0..l

(* And one that is not paced, which draws no node; and what was queued.    *)
Streaming ==
  /\ job_stage \in {"none", "walk"} => backlog = 0 /\ drawn = <<>>
  /\ job_stage = "replay" /\ Paced => OnItsWay
  /\ job_stage = "replay" /\ ~Paced => stream \in Seq(Drawless) /\ drawn = <<>>
  /\ job_stage = "done" => drawn = Ahead \/ (job.build = "wrongclut" /\ drawn = <<>>)
  /\ Paced => most \in 0..Room

(* The inductive invariant of the replay.                                  *)
ReplayInv == ReplayType /\ Walked /\ ChainsAreLists /\ Streaming

(* The types of the jobs.                                                  *)
LEMMA JobFacts ==
  ASSUME NEW j \in Jobs
  PROVE  /\ j.build \in BuildNames /\ j.heads \in Seq(Nodes)
         /\ j.build \in {"garbleband", "wrongclut"} => j.pick \in Nodes /\ Len(j.heads) = 1
         /\ j.gap \in {"drain", "step"} /\ j.panel \in Nat /\ j.neigh \in Nat
<1>1. HeadRects \in Nodes /\ HeadQuads \in Nodes /\ Picks \subseteq Nodes
  BY NodeAssumption
<1>2. /\ <<>> \in Seq(Nodes) /\ <<HeadRects, HeadQuads>> \in Seq(Nodes)
      /\ <<HeadRects>> \in Seq(Nodes) /\ <<HeadQuads>> \in Seq(Nodes) /\ Len(<<HeadQuads>>) = 1
  BY <1>1
<1>3. /\ j.build \in BuildNames
      /\ j.heads \in {<<>>, <<HeadRects, HeadQuads>>, <<HeadRects>>, <<HeadQuads>>}
      /\ j.build \in {"garbleband", "wrongclut"} => j.pick \in Picks /\ j.heads = <<HeadQuads>>
  BY DEF Jobs, JobOf, BuildNames
<1>4. j.gap \in {"drain", "step"} /\ j.panel \in Nat /\ j.neigh \in Nat
  <2>1. \A b, h, p, o : LET x == JobOf(b, h, p, o) IN x.gap = "drain" /\ x.panel = 4 /\ x.neigh = 1
    BY DEF JobOf
  <2>2. CASE \E b, h, p, o : j = JobOf(b, h, p, o)
    BY <2>1, <2>2
  <2>3. CASE ~\E b, h, p, o : j = JobOf(b, h, p, o)
    <3>1. j \in [build : {"clutrace"}, heads : {<<>>}, pick : {NoNode}, option : {"none", "alternate"},
                  gap : {"drain", "step"}, panel : QuadCounts, neigh : QuadCounts]
      BY <2>3 DEF Jobs
    <3>2. j.gap \in {"drain", "step"} /\ j.panel \in QuadCounts /\ j.neigh \in QuadCounts
      BY <3>1
    <3>3. QED
      BY <3>2, NodeAssumption
  <2>4. QED
    BY <2>2, <2>3
<1>5. QED
  BY <1>1, <1>2, <1>3, <1>4

(* The invariant holds at the start.                                       *)
LEMMA ReplayStart ==
  ASSUME ReplayIdle \/ ReplayInit
  PROVE  ReplayInv
<1>1. /\ seen = {} /\ nodes = <<>> /\ chains = <<>> /\ addr = Outside /\ backlog = 0 /\ drawn = <<>>
      /\ most = 0 /\ job_stage \in {"none", "walk"}
      /\ (job_stage = "walk" => job \in Jobs) /\ (job_stage = "none" => job = NoJob)
      /\ next \in [Nodes -> Nodes \cup {Outside}]
  BY DEF ReplayIdle, ReplayInit
<1>2. /\ job_stage # "none" => job.build \in BuildNames
      /\ job.heads \in Seq(Nodes)
      /\ job.build \in {"garbleband", "wrongclut"} => job.pick \in Nodes /\ Len(job.heads) = 1
      /\ job.gap \in {"drain", "step"} /\ job.panel \in Nat /\ job.neigh \in Nat
  <2>1. CASE job_stage = "walk"
    BY <1>1, <2>1, JobFacts
  <2>2. CASE job_stage = "none"
    <3>1. /\ job.build = "none" /\ job.heads = <<>> /\ <<>> \in Seq(Nodes)
          /\ job.gap = "drain" /\ job.panel = 4 /\ job.neigh = 1
      BY <1>1, <2>2 DEF NoJob, JobOf
    <3>2. QED
      BY <2>2, <3>1
  <2>3. QED
    BY <1>1, <2>1, <2>2
<1>3. /\ <<>> \in Seq(Seq(Nodes)) /\ <<>> \in Seq(Nodes) /\ Len(<<>>) = 0 /\ Len(job.heads) \in Nat
      /\ MaxNodes \in Nat /\ Range(<<>>) = {}
  BY <1>2, NodeAssumption DEF Range
<1>4. ReplayType
  BY <1>1, <1>2, <1>3 DEF ReplayType
<1>5. Walked
  BY <1>1, <1>3 DEF Walked
<1>6. ChainsAreLists
  BY <1>1, <1>3 DEF ChainsAreLists
<1>7. Streaming
  BY <1>1, RoomHolds DEF Streaming
<1>8. QED
  BY <1>4, <1>5, <1>6, <1>7 DEF ReplayInv

(* Whatever is built draws the nodes of its job.                           *)
LEMMA BuiltLeads ==
  ASSUME ReplayType, job.build \in BuildNames, Len(chains) = Len(job.heads), Paced
  PROVE  \E m \in Nat : Leads(Built, Level(0), At(m, Ahead))
<1>1. chains \in Seq(Seq(Nodes))
  BY DEF ReplayType
<1>2. CASE job.build = "demo"
  BY <1>2, LeadsDemo, Zenon DEF Built, Ahead, Level
<1>3. CASE job.build = "texquad"
  BY <1>3, LeadsTexquad DEF Built, Ahead, Level
<1>4. CASE job.build = "texrect"
  BY <1>4, LeadsTexrect DEF Built, Ahead, Level
<1>5. CASE job.build = "bgpanel"
  BY <1>5, LeadsBgpanel DEF Built, Ahead, Level
<1>6. CASE job.build = "clutrace"
  <2>1. ClutQuads \in Nat /\ job.gap \in {"drain", "step"}
    BY DEF ReplayType, ClutQuads
  <2>2. Leads(build_clutrace, Level(0), Level(9))
    BY <1>6, <2>1, LeadsClutrace
  <2>3. QED
    BY <1>6, <2>2 DEF Built, Ahead, Level
<1>7. CASE job.build = "fullframe"
  <2>1. Built = build_fullframe573 /\ Ahead = FlattenSeq(chains)
    BY <1>7 DEF Built, Ahead
  <2>2. Leads(build_fullframe573, Level(0), At(4, FlattenSeq(chains)))
    BY <1>1, LeadsFullframe
  <2>3. QED
    BY <2>1, <2>2
<1>8. CASE job.build = "garbleband"
  <2>1. Built = build_garbleband /\ Ahead = Targets
    BY <1>8 DEF Built, Ahead
  <2>2. Len(chains) >= 1 /\ job.pick \in Nodes
    BY <1>8 DEF ReplayType
  <2>3. Targets \in Seq(Nodes)
    BY <1>1, <2>2, TargetsAre
  <2>4. Leads(build_garbleband, Level(0), At(13, Targets))
    BY <2>3, LeadsGarbleband
  <2>5. QED
    BY <2>1, <2>4
<1>9. CASE job.build = "wrongclut"
  <2>1. Built = build_wrongclut /\ Ahead = <<job.pick>>
    BY <1>9 DEF Built, Ahead
  <2>2. job.pick \in Nodes
    BY <1>9 DEF ReplayType
  <2>3. Leads(build_wrongclut, Level(0), At(18, <<job.pick>>))
    BY <2>2, LeadsWrongclut
  <2>4. QED
    BY <2>1, <2>3
<1>10. QED
  BY <1>2, <1>3, <1>4, <1>5, <1>6, <1>7, <1>8, <1>9 DEF BuildNames

(* What the walk leaves of the replay, and the replay of the walk.           *)
LEMMA ReplaySame ==
  /\ Streaming /\ UNCHANGED <<job, job_stage, chains, stream, backlog, drawn, most>> => Streaming'
  /\ Walked /\ UNCHANGED <<next, job, addr, seen, nodes, chains>> /\ (job_stage' \in {"replay", "done"} =>
       Len(chains) = Len(job.heads)) => Walked'
  /\ ChainsAreLists /\ UNCHANGED <<next, job, chains>> => ChainsAreLists'
  /\ UNCHANGED <<job, chains>> => Ahead' = Ahead
<1>1. ASSUME UNCHANGED <<job, chains>> PROVE Ahead' = Ahead
  <2>1. Targets' = Targets
    BY <1>1 DEF Targets
  <2>2. QED
    BY <1>1, <2>1 DEF Ahead
<1>2. ASSUME Streaming, UNCHANGED <<job, job_stage, chains, stream, backlog, drawn, most>>
      PROVE  Streaming'
  <2>1. Ahead' = Ahead /\ Paced' = Paced
    BY <1>1, <1>2 DEF Paced
  <2>2. OnItsWay => OnItsWay'
    BY <1>2, <2>1 DEF OnItsWay
  <2>3. QED
    BY <1>2, <2>1, <2>2 DEF Streaming
<1>3. ASSUME Walked, UNCHANGED <<next, job, addr, seen, nodes, chains>>,
             job_stage' \in {"replay", "done"} => Len(chains) = Len(job.heads)
      PROVE  Walked'
  BY <1>3 DEF Walked
<1>4. ASSUME ChainsAreLists, UNCHANGED <<next, job, chains>> PROVE ChainsAreLists'
  <2>1. ASSUME NEW i \in 1..Len(chains)
        PROVE  OneList(chains[i], job.heads[i])' /\ Len(chains[i]) \in 1..MaxNodes
    <3>1. OneList(chains[i], job.heads[i]) /\ Len(chains[i]) \in 1..MaxNodes
      BY <1>4, <2>1 DEF ChainsAreLists
    <3>2. QED
      BY <1>4, <3>1, Zenon DEF OneList
  <2>2. QED
    BY <1>4, <2>1, Zenon DEF ChainsAreLists
<1>5. QED
  BY <1>1, <1>2, <1>3, <1>4

(* A walk begins.                                                          *)
LEMMA StartWalkStep ==
  ASSUME ReplayInv, StartWalk
  PROVE  ReplayInv'
<1>1. /\ job_stage = "walk" /\ nodes = <<>> /\ seen = {} /\ Len(chains) < Len(job.heads)
      /\ addr' = job.heads[Len(chains) + 1]
      /\ UNCHANGED <<next, job, job_stage, seen, nodes, chains, stream, backlog, drawn, most>>
  BY DEF StartWalk
<1>2. ReplayType'
  BY <1>1 DEF ReplayInv, ReplayType
<1>3. Walked'
  BY <1>1 DEF ReplayInv, Walked
<1>4. ChainsAreLists' /\ Streaming'
  BY <1>1, ReplaySame DEF ReplayInv
<1>5. QED
  BY <1>2, <1>3, <1>4 DEF ReplayInv

(* A node more.                                                            *)
LEMMA WalkNodeStep ==
  ASSUME ReplayInv, WalkNode
  PROVE  ReplayInv'
<1>1. /\ job_stage = "walk" /\ Len(nodes) < MaxNodes /\ addr \in Nodes /\ addr \notin seen
      /\ seen' = seen \cup {addr} /\ nodes' = Append(nodes, addr) /\ addr' = next[addr]
      /\ UNCHANGED <<next, job, job_stage, chains, stream, backlog, drawn, most>>
  BY DEF WalkNode, WalkGoesOn
<1>2. /\ nodes \in Seq(Nodes) /\ Len(nodes) \in Nat /\ MaxNodes \in Nat /\ Outside \notin Nodes
      /\ seen = Range(nodes)
  BY NodeAssumption DEF ReplayInv, ReplayType, Walked
<1>3. /\ nodes' \in Seq(Nodes) /\ Len(nodes') = Len(nodes) + 1
      /\ \A i \in 1..Len(nodes) : nodes'[i] = nodes[i]
      /\ nodes'[Len(nodes) + 1] = addr
  BY <1>1, <1>2, AppendProperties
<1>4. ReplayType'
  BY <1>1, <1>2, <1>3 DEF ReplayInv, ReplayType
<1>5. seen' = Range(nodes)'
  <2>1. ASSUME NEW x \in Range(nodes') PROVE x \in seen \cup {addr}
    <3>1. PICK i \in 1..Len(nodes') : nodes'[i] = x
      BY <1>3, InRange
    <3>2. CASE i = Len(nodes) + 1
      BY <1>3, <3>1, <3>2
    <3>3. CASE i # Len(nodes) + 1
      <4>1. i \in 1..Len(nodes) /\ nodes[i] = x
        BY <1>2, <1>3, <3>1, <3>3
      <4>2. QED
        BY <1>2, <4>1, IsInRange
    <3>4. QED
      BY <3>2, <3>3
  <2>2. ASSUME NEW x \in seen PROVE x \in Range(nodes')
    <3>1. PICK i \in 1..Len(nodes) : nodes[i] = x
      BY <1>2, InRange
    <3>2. i \in 1..Len(nodes') /\ nodes'[i] = x
      BY <1>2, <1>3, <3>1
    <3>3. QED
      BY <1>3, <3>2, IsInRange
  <2>3. addr \in Range(nodes')
    <3>1. Len(nodes) + 1 \in 1..Len(nodes')
      BY <1>2, <1>3
    <3>2. nodes'[Len(nodes) + 1] \in Range(nodes')
      BY <1>3, <3>1, IsInRange
    <3>3. QED
      BY <1>3, <3>2
  <2>4. Range(nodes') = seen'
    BY <1>1, <2>1, <2>2, <2>3
  <2>5. QED
    BY <2>4 DEF Range
<1>6. \A i \in 1..Len(nodes) : nodes[i] # addr
  <2>1. \A i \in 1..Len(nodes) : nodes[i] \in Range(nodes)
    BY <1>2, IsInRange
  <2>2. QED
    BY <1>1, <1>2, <2>1
<1>7. ASSUME NEW i \in 1..Len(nodes'), NEW j \in 1..Len(nodes'), nodes'[i] = nodes'[j] PROVE i = j
  <2>1. /\ i \in 1..Len(nodes) \/ i = Len(nodes) + 1
        /\ j \in 1..Len(nodes) \/ j = Len(nodes) + 1
    BY <1>2, <1>3
  <2>2. \A p, q \in 1..Len(nodes) : nodes[p] = nodes[q] => p = q
    BY DEF ReplayInv, Walked
  <2>3. QED
    BY <1>3, <1>6, <1>7, <2>1, <2>2
<1>8. /\ Len(chains) < Len(job.heads) /\ nodes'[1] = job.heads[Len(chains) + 1]
      /\ \A i \in 1..Len(nodes') - 1 : nodes'[i + 1] = next[nodes'[i]]
  <2>1. CASE nodes = <<>>
    <3>1. Len(nodes) = 0
      BY <2>1
    <3>2. Len(chains) < Len(job.heads) /\ addr = job.heads[Len(chains) + 1]
      BY <1>1, <1>2, <2>1 DEF ReplayInv, Walked
    <3>3. QED
      BY <1>3, <3>1, <3>2
  <2>2. CASE nodes # <<>>
    <3>1. /\ Len(chains) < Len(job.heads) /\ nodes[1] = job.heads[Len(chains) + 1]
          /\ addr = next[nodes[Len(nodes)]]
          /\ \A i \in 1..Len(nodes) - 1 : nodes[i + 1] = next[nodes[i]]
      BY <2>2 DEF ReplayInv, Walked
    <3>2. Len(nodes) >= 1
      BY <1>2, <2>2
    <3>3. nodes'[1] = nodes[1]
      BY <1>2, <1>3, <3>2
    <3>4. ASSUME NEW i \in 1..Len(nodes') - 1 PROVE nodes'[i + 1] = next[nodes'[i]]
      <4>1. CASE i = Len(nodes)
        BY <1>3, <3>1, <3>2, <4>1
      <4>2. CASE i # Len(nodes)
        <5>1. i \in 1..Len(nodes) - 1 /\ i \in 1..Len(nodes) /\ i + 1 \in 1..Len(nodes)
          BY <1>2, <1>3, <4>2
        <5>2. QED
          BY <1>3, <3>1, <5>1
      <4>3. QED
        BY <4>1, <4>2
    <3>5. QED
      BY <3>1, <3>3, <3>4
  <2>3. QED
    BY <2>1, <2>2
<1>9. nodes' # <<>> /\ addr' = next[nodes'[Len(nodes')]]
  BY <1>1, <1>2, <1>3
<1>10. Walked'
  <2>1. \A i, j \in 1..Len(nodes') : nodes'[i] = nodes'[j] => i = j
    BY <1>7
  <2>2. job_stage' \notin {"replay", "done"} /\ chains' = chains /\ job' = job /\ next' = next
    BY <1>1
  <2>3. QED
    BY <1>5, <1>8, <1>9, <2>1, <2>2 DEF Walked
<1>11. ChainsAreLists' /\ Streaming'
  BY <1>1, ReplaySame DEF ReplayInv
<1>12. QED
  BY <1>4, <1>10, <1>11 DEF ReplayInv

(* A walk that ended is a chain; one that looped or left the image is      *)
(* none.                                                                   *)
LEMMA EndWalkStep ==
  ASSUME ReplayInv, EndWalk
  PROVE  ReplayInv'
<1>1. /\ job_stage = "walk" /\ nodes # <<>> /\ ~WalkGoesOn
      /\ chains' = Append(chains, nodes)
      /\ addr' = Outside /\ seen' = {} /\ nodes' = <<>>
      /\ UNCHANGED <<next, job, job_stage, stream, backlog, drawn, most>>
  BY DEF EndWalk
<1>2. /\ nodes \in Seq(Nodes) /\ Len(nodes) \in Nat /\ Len(nodes) <= MaxNodes /\ MaxNodes \in Nat
      /\ chains \in Seq(Seq(Nodes)) /\ Len(chains) \in Nat /\ Len(job.heads) \in Nat
      /\ next \in [Nodes -> Nodes \cup {Outside}]
      /\ Len(chains) < Len(job.heads) /\ nodes[1] = job.heads[Len(chains) + 1]
      /\ addr = next[nodes[Len(nodes)]] /\ seen = Range(nodes)
      /\ \A i \in 1..Len(nodes) - 1 : nodes[i + 1] = next[nodes[i]]
      /\ \A i, j \in 1..Len(nodes) : nodes[i] = nodes[j] => i = j
  BY <1>1, NodeAssumption DEF ReplayInv, ReplayType, Walked
<1>3. Len(nodes) >= 1
  BY <1>1, <1>2
<1>4. OneList(nodes, job.heads[Len(chains) + 1])
  <2>1. nodes[Len(nodes)] \in Nodes
    BY <1>2, <1>3
  <2>2. addr \in Nodes \cup {Outside}
    BY <1>2, <2>1
  <2>3. Len(nodes) = MaxNodes \/ addr \notin Nodes \/ addr \in seen
    BY <1>1, <1>2 DEF WalkGoesOn
  <2>4. Len(nodes) = MaxNodes \/ next[nodes[Len(nodes)]] \in {Outside} \cup Range(nodes)
    BY <1>2, <2>2, <2>3
  <2>5. QED
    BY <1>2, <2>4, Zenon DEF OneList
<1>5. /\ chains' \in Seq(Seq(Nodes)) /\ Len(chains') = Len(chains) + 1
      /\ \A i \in 1..Len(chains) : chains'[i] = chains[i]
      /\ chains'[Len(chains) + 1] = nodes
  BY <1>1, <1>2, AppendProperties
<1>6. ReplayType'
  <2>1. /\ nodes' \in Seq(Nodes) /\ Len(nodes') <= MaxNodes /\ Len(chains') <= Len(job'.heads)
    BY <1>1, <1>2, <1>5
  <2>2. QED
    BY <1>1, <1>5, <2>1 DEF ReplayInv, ReplayType
<1>7. Walked'
  <2>1. Range(nodes)' = {} /\ Len(nodes') = 0
    BY <1>1 DEF Range
  <2>2. QED
    BY <1>1, <2>1 DEF Walked
<1>8. ChainsAreLists'
  <2>1. ASSUME NEW i \in 1..Len(chains')
        PROVE  OneList(chains'[i], job.heads[i]) /\ Len(chains'[i]) \in 1..MaxNodes
    <3>1. CASE i = Len(chains) + 1
      BY <1>2, <1>3, <1>4, <1>5, <3>1
    <3>2. CASE i # Len(chains) + 1
      <4>1. i \in 1..Len(chains) /\ chains'[i] = chains[i]
        BY <1>2, <1>5, <3>2
      <4>2. QED
        BY <4>1 DEF ReplayInv, ChainsAreLists
    <3>3. QED
      BY <3>1, <3>2
  <2>2. QED
    BY <1>1, <2>1 DEF ChainsAreLists, OneList
<1>9. Streaming'
  BY <1>1 DEF ReplayInv, Streaming, Paced
<1>10. QED
  BY <1>6, <1>7, <1>8, <1>9 DEF ReplayInv

(* A stream is built.                                                      *)
LEMMA BuildStep ==
  ASSUME ReplayInv, Build
  PROVE  ReplayInv'
<1>1. /\ job_stage = "walk" /\ Len(chains) = Len(job.heads)
      /\ (NoPick /\ job_stage' = "done") \/ (job_stage' = "replay" /\ stream' = Built)
      /\ UNCHANGED <<next, job, addr, seen, nodes, chains, backlog, drawn, most>>
  BY DEF Build
<1>2. ReplayType /\ Walked /\ ChainsAreLists /\ Streaming
  BY DEF ReplayInv
<1>3. ReplayType'
  BY <1>1, <1>2 DEF ReplayType
<1>4. Walked' /\ ChainsAreLists'
  BY <1>1, <1>2, ReplaySame
<1>5. backlog = 0 /\ drawn = <<>> /\ (Paced => most \in 0..Room) /\ Paced' = Paced
  BY <1>1, <1>2 DEF Streaming, Paced
<1>6. Streaming'
  <2>1. CASE NoPick /\ job_stage' = "done"
    BY <1>1, <1>5, <2>1 DEF NoPick, Streaming
  <2>2. CASE job_stage' = "replay" /\ stream' = Built
    <3>1. job.build \in BuildNames
      BY <1>1, <1>2 DEF ReplayType
    <3>2. ASSUME Paced PROVE OnItsWay'
      <4>1. PICK m \in Nat : Leads(Built, Level(0), At(m, Ahead))
        BY <1>1, <1>2, <3>1, <3>2, BuiltLeads
      <4>2. Ahead' = Ahead
        BY <1>1, ReplaySame
      <4>3. Leads(stream', At(0, drawn'), At(m, Ahead'))
        BY <1>1, <1>5, <2>2, <4>1, <4>2 DEF Level
      <4>4. 0 \in Nat /\ backlog' \in 0..0
        BY <1>1, <1>5
      <4>5. QED
        BY <4>3, <4>4 DEF OnItsWay
    <3>3. ASSUME ~Paced PROVE stream' \in Seq(Drawless)
      <4>1. job.build = "clutrace" /\ ClutQuads \in Nat
        BY <1>2, <3>3 DEF Paced, ReplayType, ClutQuads
      <4>2. stream' = build_clutrace
        BY <2>2, <4>1 DEF Built
      <4>3. QED
        BY <4>1, <4>2, ClutraceIsQuiet
    <3>4. QED
      BY <1>1, <1>5, <2>2, <3>2, <3>3 DEF Streaming
  <2>3. QED
    BY <1>1, <2>1, <2>2
<1>7. QED
  BY <1>3, <1>4, <1>6 DEF ReplayInv

(* A word more is pushed, and drained or not.                              *)
LEMMA PushStep ==
  ASSUME ReplayInv, Push
  PROVE  ReplayInv'
<1> DEFINE p == Head(stream)
           queued == Queued(p, backlog)
<1>1. /\ job_stage = "replay" /\ stream # <<>>
      /\ backlog' = IF p.gap = "drain" THEN 0 ELSE queued
      /\ most' = IF queued > most THEN queued ELSE most
      /\ drawn' = IF p.node = NoNode THEN drawn ELSE Append(drawn, p.node)
      /\ stream' = Tail(stream)
      /\ UNCHANGED <<next, job, job_stage, addr, seen, nodes, chains>>
  BY Zenon DEF Push, Queued
<1>2. ReplayType /\ Walked /\ ChainsAreLists /\ Streaming
  BY DEF ReplayInv
<1>3. ReplayType'
  BY <1>1, <1>2 DEF ReplayType
<1>4. Walked' /\ ChainsAreLists'
  <2>1. Len(chains) = Len(job.heads)
    BY <1>1, <1>2 DEF Walked
  <2>2. QED
    BY <1>1, <1>2, <2>1, ReplaySame
<1>5. ASSUME Paced
      PROVE  OnItsWay' /\ most' \in 0..Room
  <2>1. PICK l \in Nat, m \in Nat :
          Leads(stream, At(l, drawn), At(m, Ahead)) /\ backlog \in 0..l
    BY <1>1, <1>2, <1>5 DEF Streaming, OnItsWay
  <2>2. PICK c \in Marks : Passes(p, At(l, drawn), c) /\ Leads(Tail(stream), c, At(m, Ahead))
    BY <1>1, <2>1, LeadsFirst
  <2>3. p \in Packets
    <3>1. stream \in Seq(Packets)
      BY <2>1 DEF Leads
    <3>2. QED
      BY <1>1, <3>1
  <2>4. /\ c.level \in Nat /\ c.drawn = drawn' /\ c = At(c.level, drawn')
        /\ Queued(p, l) <= Room /\ (p.gap # "drain" => Queued(p, l) <= c.level)
    <3>1. c.drawn = drawn'
      BY <1>1, <2>2 DEF Passes, At
    <3>2. c.level \in Nat /\ c = [level |-> c.level, drawn |-> c.drawn]
      BY DEF Marks
    <3>3. Queued(p, l) <= Room /\ (p.gap # "drain" => Queued(p, l) <= c.level)
      BY <2>2 DEF Passes, At
    <3>4. QED
      BY <3>1, <3>2, <3>3 DEF At
  <2>5. Leads(stream', At(c.level, drawn'), At(m, Ahead'))
    <3>1. Ahead' = Ahead
      BY <1>1, ReplaySame
    <3>2. QED
      BY <1>1, <2>2, <2>4, <3>1, Zenon
  <2>6. p.words \in Nat /\ Room \in Nat /\ backlog \in 0..l /\ most \in 0..Room
    BY <1>2, <1>5, <2>1, <2>3, RoomHolds DEF Packets, Streaming
  <2>7. queued \in 0..Queued(p, l)
    BY <2>6 DEF Queued
  <2>8. Queued(p, l) \in Nat
    BY <2>6 DEF Queued
  <2> HIDE DEF queued, p
  <2>9. backlog' \in 0..c.level
    <3>1. CASE p.gap = "drain"
      BY <1>1, <2>4, <3>1
    <3>2. CASE p.gap # "drain"
      BY <1>1, <2>4, <2>7, <2>8, <3>2
    <3>3. QED
      BY <3>1, <3>2
  <2>10. queued \in 0..Room
    BY <2>4, <2>6, <2>7, <2>8
  <2>11. most' \in 0..Room
    BY <1>1, <2>6, <2>10
  <2>12. OnItsWay'
    BY <2>4, <2>5, <2>9 DEF OnItsWay
  <2>13. QED
    BY <2>11, <2>12
<1>6. ASSUME ~Paced
      PROVE  stream' \in Seq(Drawless) /\ drawn' = <<>>
  <2>1. stream \in Seq(Drawless) /\ drawn = <<>>
    BY <1>1, <1>2, <1>6 DEF Streaming
  <2>2. p \in Drawless /\ stream' \in Seq(Drawless)
    BY <1>1, <2>1
  <2>3. p.node = NoNode
    BY <2>2 DEF Drawless
  <2>4. QED
    BY <1>1, <2>1, <2>2, <2>3
<1>7. Paced' = Paced
  BY <1>1 DEF Paced
<1>8. Streaming'
  <2> HIDE DEF p, queued
  <2>1. QED
    BY <1>1, <1>5, <1>6, <1>7 DEF Streaming
<1>9. QED
  BY <1>3, <1>4, <1>8 DEF ReplayInv

(* The stream ends.                                                        *)
LEMMA EndReplayStep ==
  ASSUME ReplayInv, EndReplay
  PROVE  ReplayInv'
<1>1. /\ job_stage = "replay" /\ stream = <<>> /\ job_stage' = "done"
      /\ UNCHANGED <<next, job, addr, seen, nodes, chains, stream, backlog, drawn, most>>
  BY DEF EndReplay
<1>2. ReplayType /\ Walked /\ ChainsAreLists /\ Streaming
  BY DEF ReplayInv
<1>3. ReplayType'
  BY <1>1, <1>2 DEF ReplayType
<1>4. Walked' /\ ChainsAreLists'
  <2>1. Len(chains) = Len(job.heads)
    BY <1>1, <1>2 DEF Walked
  <2>2. QED
    BY <1>1, <1>2, <2>1, ReplaySame
<1>5. ASSUME Paced PROVE drawn = Ahead
  <2>1. PICK l \in Nat, m \in Nat : Leads(stream, At(l, drawn), At(m, Ahead))
    BY <1>1, <1>2, <1>5 DEF Streaming, OnItsWay
  <2>2. Ways(<<>>, At(l, drawn), At(m, Ahead)) # {}
    BY <1>1, <2>1 DEF Leads
  <2>3. PICK f : f[0] = At(l, drawn) /\ f[Len(<<>>)] = At(m, Ahead)
    BY <2>2, Zenon DEF Ways
  <2>4. Len(<<>>) = 0
    OBVIOUS
  <2>5. At(l, drawn) = At(m, Ahead)
    BY <2>3, <2>4
  <2>6. QED
    BY <2>5 DEF At
<1>6. ASSUME ~Paced PROVE drawn = Ahead
  BY <1>1, <1>2, <1>6 DEF Streaming, Ahead, Paced
<1>7. drawn' = Ahead' /\ Paced' = Paced
  BY <1>1, <1>5, <1>6, ReplaySame DEF Paced
<1>8. Streaming'
  BY <1>1, <1>2, <1>7 DEF Streaming
<1>9. QED
  BY <1>3, <1>4, <1>8 DEF ReplayInv

(* Every step keeps the invariant.                                         *)
LEMMA ReplayAlways == Spec => []ReplayInv
<1>1. Init => ReplayInv
  BY ReplayStart DEF Init
<1>2. ReplayInv /\ [Next]_vars => ReplayInv'
  <2> SUFFICES ASSUME ReplayInv, [Next]_vars PROVE ReplayInv'
    OBVIOUS
  <2>1. CASE ReplayNext
    BY <2>1, StartWalkStep, WalkNodeStep, EndWalkStep, BuildStep, PushStep, EndReplayStep DEF ReplayNext
  <2>2. CASE UNCHANGED replayVars
    <3>1. UNCHANGED <<next, job, job_stage, addr, seen, nodes, chains, stream, backlog, drawn, most>>
      BY <2>2 DEF replayVars
    <3>2. ReplayType'
      BY <3>1 DEF ReplayInv, ReplayType
    <3>3. Walked'
      BY <3>1 DEF ReplayInv, Walked
    <3>4. ChainsAreLists' /\ Streaming'
      BY <3>1, ReplaySame DEF ReplayInv
    <3>5. QED
      BY <3>2, <3>3, <3>4 DEF ReplayInv
  <2>3. QED
    BY <2>1, <2>2 DEF Next, vars
<1>3. QED
  BY <1>1, <1>2, PTL DEF Spec

(* What the GPU's FIFO may have to hold of a stream gen_stream.py builds is *)
(* bounded by the longest setup and the largest node, for every ordering   *)
(* table, however long its lists: no build leaves two nodes or quads       *)
(* without the long gap between them, but a clutrace whose user asked for  *)
(* a tight one with `drain N`, of which nothing is claimed.                *)
THEOREM OneNodeAtATime == Spec => []NeedIsOneNode
<1>1. ReplayInv => NeedIsOneNode
  BY RoomHolds DEF ReplayInv, Streaming, NeedIsOneNode
<1>2. QED
  BY <1>1, ReplayAlways, PTL

(* What ot_trace.py walks is the list of the ordering table, and the       *)
(* replay draws the nodes of its job in list order, each once.  For every  *)
(* ordering table and list length.                                         *)
THEOREM TheListIsDrawn == Spec => []DrawsTheList
<1>1. ReplayInv => DrawsTheList
  <2> SUFFICES ASSUME ReplayInv PROVE DrawsTheList
    OBVIOUS
  <2>1. ReplayType /\ Walked /\ ChainsAreLists /\ Streaming
    BY DEF ReplayInv
  <2>2. ASSUME NEW i \in 1..Len(chains)
        PROVE  OneList(chains[i], job.heads[i]) /\ walk_ot(job.heads[i]) = chains[i]
    <3>1. OneList(chains[i], job.heads[i]) /\ Len(chains[i]) \in 1..MaxNodes
      BY <2>1 DEF ChainsAreLists
    <3>2. /\ chains[i] \in Seq(Nodes) /\ job.heads[i] \in Nodes
          /\ next \in [Nodes -> Nodes \cup {Outside}]
      <4>1. chains \in Seq(Seq(Nodes)) /\ job.heads \in Seq(Nodes) /\ Len(chains) <= Len(job.heads)
        BY <2>1 DEF ReplayType
      <4>2. Len(chains) \in Nat /\ Len(job.heads) \in Nat
        BY <4>1
      <4>3. i \in 1..Len(job.heads)
        BY <4>1, <4>2
      <4>4. QED
        BY <2>1, <4>1, <4>3 DEF ReplayType
    <3>3. QED
      BY <3>1, <3>2, WalkIsList
  <2>3. ASSUME job_stage = "done", job.build = "fullframe" PROVE drawn = FlattenSeq(chains)
    BY <2>1, <2>3 DEF Streaming, Ahead
  <2>4. ASSUME job_stage = "done", job.build = "garbleband"
        PROVE  /\ \A i, j \in 1..Len(drawn) : drawn[i] = drawn[j] => i = j
               /\ Range(drawn) = Range(chains[1]) \cap
                    ({job.pick} \cup (IF job.option = "neighbors" THEN Range(Band) ELSE {}))
    <3>1. drawn = Targets
      BY <2>1, <2>4 DEF Streaming, Ahead
    <3>2. chains \in Seq(Seq(Nodes)) /\ Len(chains) >= 1 /\ job.pick \in Nodes
      BY <2>1, <2>4 DEF ReplayType, Walked
    <3>3. /\ \A i, j \in 1..Len(Targets) : Targets[i] = Targets[j] => i = j
          /\ Range(Targets) = Range(chains[1]) \cap
               ({job.pick} \cup (IF job.option = "neighbors" THEN Range(Band) ELSE {}))
      BY <3>2, TargetsAre
    <3>4. QED
      BY <3>1, <3>3, Zenon
  <2>5. ASSUME job_stage = "done", job.build = "wrongclut", drawn # <<>> PROVE drawn = <<job.pick>>
    BY <2>1, <2>5 DEF Streaming, Ahead
  <2>6. QED
    BY <2>2, <2>3, <2>4, <2>5, Zenon DEF DrawsTheList
<1>2. QED
  BY <1>1, ReplayAlways, PTL

-----------------------------------------------------------------------------
(* The SignalTap reader, read_stp_csv.py.                                  *)

(* Where the columns are back in step with the channels: at the filler       *)
(* column, or nowhere.                                                       *)
Begins == IF export.filler = 0 THEN NCH + 1 ELSE export.filler

(* What the proof needs of an export.                                      *)
LEMMA ExportFacts ==
  ASSUME export \in Exports
  PROVE  /\ NCH \in Nat /\ NCH >= 1 /\ export.drop \in 0..NCH /\ export.front \in 0..2
         /\ export.kind \in [Channels -> Kinds]
         /\ export.group = {} \/ \E h \in 1..NCH - 2 : export.group = h..h + 2
         /\ export.drop = 0 => export.filler = 0
         /\ export.drop # 0 => export.front = 0 /\ Begins \in export.drop + 1..NCH + 1
<1>1. NCH \in Nat /\ NCH >= 1
  BY HeaderAssumption
<1>2. CASE export \in [kind : [Channels -> Kinds], drop : {0}, filler : {0}, front : 0..2,
   group : {{}} \cup {h..h + 2 : h \in 1..NCH - 2}, qualified : BOOLEAN, trigger : {FALSE}]
  BY <1>1, <1>2
<1>3. ASSUME NEW d \in Channels,
             export \in [kind : [Channels -> Kinds], drop : {d}, filler : {0} \cup d + 1..NCH + 1,
               front : {0}, group : {{}} \cup {h..h + 2 : h \in 1..NCH - 2},
               qualified : {FALSE}, trigger : BOOLEAN]
      PROVE  /\ export.drop = d /\ export.front = 0 /\ export.filler \in {0} \cup d + 1..NCH + 1
             /\ export.kind \in [Channels -> Kinds]
             /\ export.group = {} \/ \E h \in 1..NCH - 2 : export.group = h..h + 2
  BY <1>3
<1>4. CASE \E d \in Channels :
             export \in [kind : [Channels -> Kinds], drop : {d}, filler : {0} \cup d + 1..NCH + 1,
               front : {0}, group : {{}} \cup {h..h + 2 : h \in 1..NCH - 2},
               qualified : {FALSE}, trigger : BOOLEAN]
  <2>1. /\ export.drop \in Channels /\ export.front = 0
        /\ export.filler \in {0} \cup export.drop + 1..NCH + 1
        /\ export.kind \in [Channels -> Kinds]
        /\ export.group = {} \/ \E h \in 1..NCH - 2 : export.group = h..h + 2
    BY <1>3, <1>4
  <2>2. QED
    BY <1>1, <2>1 DEF Channels, Begins
<1>5. QED
  BY <1>2, <1>4 DEF Exports

(* The true shift, by the place of the channel.                            *)
LEMMA TrueShiftIs ==
  ASSUME export \in Exports, NEW h \in Channels
  PROVE  /\ export.drop = 0 => TrueShift(h) = export.front
         /\ export.drop # 0 /\ h < export.drop => TrueShift(h) = 0
         /\ export.drop # 0 /\ h > export.drop /\ h < Begins => TrueShift(h) = -1
         /\ export.drop # 0 /\ h >= Begins => TrueShift(h) = 0
<1>1. h \in Nat /\ h <= NCH /\ export.front \in Int /\ NCH \in Nat
  BY ExportFacts DEF Channels
<1>2. CASE export.drop = 0
  BY <1>1, <1>2, ExportFacts DEF TrueShift, Bit
<1>3. CASE export.drop # 0
  <2>1. export.front = 0 /\ Begins \in export.drop + 1..NCH + 1 /\ export.drop \in Nat
    BY <1>3, ExportFacts
  <2>2. Begins = IF export.filler = 0 THEN NCH + 1 ELSE export.filler
    BY DEF Begins
  <2>3. QED
    BY <1>1, <1>3, <2>1, <2>2 DEF TrueShift, Bit
<1>4. QED
  BY <1>2, <1>3

(* Products of larger factors are larger.                                  *)
LEMMA ProductsOrdered ==
  ASSUME NEW a \in Nat, NEW b \in Nat, NEW c \in Nat, NEW d \in Nat, a <= b, c <= d
  PROVE  a * c \in Nat /\ b * d \in Nat /\ a * c <= b * d
<1>1. a * c <= b * c /\ b * c <= b * d
  <2>1. (b - a) * c \in Nat /\ b * (d - c) \in Nat
    BY SMTT(30)
  <2>2. (b - a) * c = b * c - a * c /\ b * (d - c) = b * d - b * c
    BY SMTT(30)
  <2>3. a * c \in Int /\ b * c \in Int /\ b * d \in Int
    OBVIOUS
  <2>4. QED
    BY <2>1, <2>2, <2>3
<1>2. a * c \in Nat /\ b * c \in Nat /\ b * d \in Nat
  BY SMTT(30)
<1>3. QED
  BY <1>1, <1>2

(* So are fourth powers.                                                   *)
LEMMA FourthGrows ==
  ASSUME NEW a \in Nat, NEW b \in Nat, a <= b
  PROVE  Fourth(a) \in Nat /\ Fourth(b) \in Nat /\ Fourth(a) <= Fourth(b)
<1>1. a * a \in Nat /\ b * b \in Nat /\ a * a <= b * b
  BY ProductsOrdered
<1> DEFINE a2 == a * a
           b2 == b * b
<1>2. a2 * a \in Nat /\ b2 * b \in Nat /\ a2 * a <= b2 * b
  <2> HIDE DEF a2, b2
  <2>1. a2 \in Nat /\ b2 \in Nat /\ a2 <= b2
    BY <1>1 DEF a2, b2
  <2>2. QED
    BY <2>1, ProductsOrdered
<1> DEFINE a3 == a2 * a
           b3 == b2 * b
<1>3. a3 * a \in Nat /\ b3 * b \in Nat /\ a3 * a <= b3 * b
  <2> HIDE DEF a3, b3
  <2>1. a3 \in Nat /\ b3 \in Nat /\ a3 <= b3
    BY <1>2 DEF a3, b3
  <2>2. QED
    BY <2>1, ProductsOrdered
<1>4. QED
  BY <1>3 DEF Fourth

(* And they are positive.                                                  *)
LEMMA FourthPositive ==
  ASSUME NEW n \in Nat, n >= 1
  PROVE  Fourth(n) \in Nat /\ Fourth(n) >= 1
<1>1. Fourth(1) = 1 /\ 1 \in Nat
  BY DEF Fourth
<1>2. QED
  BY <1>1, FourthGrows

(* How many of the channels a shift keeps on the row.                        *)
OnRow(s) ==
  LET lo == IF s < 0 THEN 1 ELSE s + 1
      hi == IF s <= export.front THEN NCH + s ELSE NCH + export.front
  IN  IF lo > hi THEN 0 ELSE hi - lo + 1

(* The factors of the score, of a file that has all its columns.           *)
LEMMA CalibrationTerms ==
  ASSUME export \in Exports, export.drop = 0, NEW s \in Shifts
  PROVE  /\ Validity(s) = OnRow(s) /\ OnRow(s) \in 0..NCH
         /\ OnRow(s) = NCH <=> s \in 0..export.front
         /\ Structural(s) \in 0..NCH
         /\ OnRow(s) = NCH => Structural(s) = NCH
         /\ Cardinality(Columns) \in Nat /\ Cardinality(Columns) >= 1
<1> DEFINE N == NCH
           f == export.front
           v == OnRow(s)
<1>1. N \in Nat /\ N >= 1 /\ f \in 0..2 /\ export.filler = 0 /\ s \in -2..2
  BY ExportFacts DEF Shifts
<1>2. Columns = 1..N + f
  BY <1>1 DEF Columns, Bit
<1>3. Claimed(s) = s + 1..s + N
  <2>1. ASSUME NEW x \in s + 1..s + N PROVE x \in Claimed(s)
    <3>1. x - s \in Channels /\ (x - s) + s = x
      BY <1>1, <2>1 DEF Channels
    <3>2. QED
      BY <3>1 DEF Claimed
  <2>2. ASSUME NEW x \in Claimed(s) PROVE x \in s + 1..s + N
    BY <1>1, <2>2 DEF Claimed, Channels
  <2>3. QED
    BY <2>1, <2>2
<1> DEFINE lo == IF s < 0 THEN 1 ELSE s + 1
           hi == IF s <= f THEN N + s ELSE N + f
<1>4. Claimed(s) \cap Columns = lo..hi /\ Columns \cap Claimed(s) = lo..hi
  BY <1>1, <1>2, <1>3
<1>5. /\ IsFiniteSet(Claimed(s)) /\ Cardinality(Claimed(s)) = N
      /\ IsFiniteSet(Columns) /\ Cardinality(Columns) = N + f
      /\ Cardinality(lo..hi) = v
  <2>1. s + 1 \in Int /\ s + N \in Int /\ 1 \in Int /\ N + f \in Int /\ lo \in Int /\ hi \in Int
    BY <1>1
  <2>2. Cardinality(lo..hi) = IF lo > hi THEN 0 ELSE hi - lo + 1
    <3> HIDE DEF lo, hi
    <3>1. QED
      BY <2>1, FS_Interval
  <2>3. IsFiniteSet(s + 1..s + N) /\ Cardinality(s + 1..s + N) = N
    <3>1. ~(s + 1 > s + N) /\ (s + N) - (s + 1) + 1 = N
      BY <1>1
    <3>2. QED
      BY <2>1, <3>1, FS_Interval
  <2>4. IsFiniteSet(1..N + f) /\ Cardinality(1..N + f) = N + f
    <3>1. ~(1 > N + f) /\ (N + f) - 1 + 1 = N + f
      BY <1>1
    <3>2. QED
      BY <2>1, <3>1, FS_Interval
  <2>5. QED
    BY <1>2, <1>3, <2>2, <2>3, <2>4 DEF OnRow
<1>6. /\ Validity(s) = v
      /\ Cardinality(Claimed(s) \ Columns) = N - v
      /\ Cardinality(Columns \ Claimed(s)) = (N + f) - v
  <2>1. Validity(s) = v
    BY <1>4, <1>5 DEF Validity
  <2>2. Cardinality(Claimed(s) \ Columns) = Cardinality(Claimed(s)) - Cardinality(Claimed(s) \cap Columns)
    BY <1>5, FS_Difference
  <2>3. Cardinality(Columns \ Claimed(s)) = Cardinality(Columns) - Cardinality(Columns \cap Claimed(s))
    BY <1>5, FS_Difference
  <2>4. Cardinality(Claimed(s) \cap Columns) = v /\ Cardinality(Columns \cap Claimed(s)) = v
    BY <1>4, <1>5, Zenon
  <2>5. Cardinality(Claimed(s)) = N /\ Cardinality(Columns) = N + f
    BY <1>5
  <2>6. Cardinality(Claimed(s) \ Columns) = N - v
    BY <2>2, <2>4, <2>5, Zenon
  <2>7. Cardinality(Columns \ Claimed(s)) = (N + f) - v
    BY <2>3, <2>4, <2>5, Zenon
  <2>8. QED
    BY <2>1, <2>6, <2>7, Zenon
<1>7. v \in 0..N /\ (v = N <=> s \in 0..f)
  BY <1>1 DEF OnRow
<1>8. Structural(s) = IF (N - v) + ((N + f) - v) > N + f THEN 0 ELSE (N + f) - ((N - v) + ((N + f) - v))
  BY <1>5, <1>6 DEF Structural
<1> HIDE DEF v
<1>9. Structural(s) \in 0..N /\ (v = N => Structural(s) = N)
  BY <1>1, <1>7, <1>8
<1>10. Validity(s) = v /\ Cardinality(Columns) \in Nat /\ Cardinality(Columns) >= 1
  BY <1>1, <1>5, <1>6
<1>11. QED
  BY <1>7, <1>9, <1>10 DEF v

(* The score of a shift that keeps every channel on the row, and of another. *)
Full == Fourth(NCH) * NCH

(* The scores of the shifts: those up to the true one keep all channels on *)
(* the row; the true one alone, or with those that have as much evidence,  *)
(* scores the most.                                                        *)
LEMMA Scores ==
  ASSUME export \in Exports, export.drop = 0, NEW s \in Shifts
  PROVE  /\ Full \in Nat /\ Full >= 1 /\ Score(s) \in Nat
         /\ s \notin 0..export.front => Score(s) < 2 * Full
         /\ s \in 0..export.front =>
              Score(s) = IF s # export.front /\ (export.qualified \/ export.group # {}) THEN Full ELSE 2 * Full
<1> DEFINE N == NCH
           v == OnRow(s)
           t == Structural(s)
<1>1. /\ N \in Nat /\ N >= 1 /\ v \in 0..N /\ t \in 0..N /\ Validity(s) = v
      /\ v = N <=> s \in 0..export.front
      /\ v = N => t = N
  BY ExportFacts, CalibrationTerms
<1>2. Fourth(N) \in Nat /\ Fourth(N) >= 1
  BY <1>1, FourthPositive
<1>3. Full \in Nat /\ Full >= 1
  <2>1. 1 \in Nat /\ 1 * 1 = 1
    OBVIOUS
  <2>2. QED
    BY <1>1, <1>2, <2>1, ProductsOrdered DEF Full
<1>4. Score(s) = Fourth(t) * v * Evidence(s)
  BY <1>1 DEF Score
<1> HIDE DEF v, t
<1>5. Fourth(t) \in Nat /\ Fourth(t) <= Fourth(N) /\ v \in Nat /\ N \in Nat /\ v <= N
  <2>1. t \in Nat /\ t <= N
    BY <1>1
  <2>2. QED
    BY <1>1, <2>1, FourthGrows
<1> DEFINE x == Fourth(t) * v
<1>6. x \in Nat /\ x <= Full
  BY <1>2, <1>5, ProductsOrdered DEF Full
<1>7. Evidence(s) = IF s # export.front /\ (export.qualified \/ export.group # {}) THEN 1 ELSE 2
  BY DEF Evidence
<1>8. ASSUME s \notin 0..export.front PROVE x < Full
  <2>1. v <= N - 1 /\ N - 1 \in Nat
    BY <1>1, <1>8
  <2>2. Fourth(t) * v <= Fourth(N) * (N - 1)
    BY <1>2, <1>5, <2>1, ProductsOrdered
  <2>3. Fourth(N) * (N - 1) = Fourth(N) * N - Fourth(N)
    BY <1>1, <1>2
  <2>4. Fourth(N) * N \in Int /\ Fourth(N) * (N - 1) \in Int
    BY <1>1, <1>2
  <2>5. QED
    BY <1>2, <1>6, <2>2, <2>3, <2>4 DEF Full
<1>9. s \in 0..export.front => x = Full
  BY <1>1 DEF Full
<1> HIDE DEF x
<1>10. Score(s) = x \/ Score(s) = 2 * x
  <2>1. Score(s) = x * Evidence(s)
    BY <1>4 DEF x
  <2>2. x * 1 = x /\ x * 2 = 2 * x
    BY <1>6
  <2>3. QED
    BY <1>7, <2>1, <2>2
<1>11. Score(s) = IF s # export.front /\ (export.qualified \/ export.group # {}) THEN x ELSE 2 * x
  <2>1. Score(s) = x * Evidence(s)
    BY <1>4 DEF x
  <2>2. x * 1 = x /\ x * 2 = 2 * x
    BY <1>6
  <2>3. QED
    BY <1>7, <2>1, <2>2
<1>12. QED
  BY <1>3, <1>6, <1>8, <1>9, <1>10, <1>11

(* A shift that beats all others, or comes first, is the one chosen.       *)
LEMMA BestIsUnique ==
  ASSUME NEW S, NEW b \in S, S \subseteq Int, \A s \in S : Score(s) \in Int,
         \A t \in S \ {b} : Score(b) > Score(t) \/ (Score(b) = Score(t) /\ b < t)
  PROVE  BestOf(S) = b
<1> DEFINE Is(s) == \A t \in S \ {s} : Score(s) > Score(t) \/ (Score(s) = Score(t) /\ s < t)
<1>1. BestOf(S) \in S /\ Is(BestOf(S))
  BY Zenon DEF BestOf
<1>2. SUFFICES ASSUME BestOf(S) # b PROVE FALSE
  OBVIOUS
<1> DEFINE c == BestOf(S)
<1>3. c \in S /\ c \in Int /\ b \in Int /\ Score(b) \in Int /\ Score(c) \in Int /\ c # b
  BY <1>1, <1>2
<1>4. Score(b) > Score(c) \/ (Score(b) = Score(c) /\ b < c)
  BY <1>3
<1>5. Score(c) > Score(b) \/ (Score(c) = Score(b) /\ c < b)
  BY <1>1, <1>3
<1> HIDE DEF c
<1>6. QED
  BY <1>3, <1>4, <1>5

(* A file without an anomaly is read under its own shift, or is ambiguous.   *)
LEMMA Calibrated ==
  ASSUME export \in Exports, export.drop = 0, ~Ambiguous
  PROVE  Chosen = export.front
<1> DEFINE f == export.front
           evidence == export.qualified \/ export.group # {}
<1>1. f \in 0..2 /\ f \in Shifts /\ Shifts \subseteq Int /\ NCH \in Nat /\ NCH >= 1
  BY ExportFacts DEF Shifts
<1>2. \A s \in Shifts :
        /\ Full \in Nat /\ Full >= 1 /\ Score(s) \in Nat
        /\ s \notin 0..f => Score(s) < 2 * Full
        /\ s \in 0..f => Score(s) = IF s # f /\ evidence THEN Full ELSE 2 * Full
  BY Scores
<1>3. Full \in Nat /\ Full >= 1 /\ \A s \in Shifts : Score(s) \in Int
  BY <1>1, <1>2
<1>4. CASE evidence \/ f = 0
  <2>1. ASSUME NEW t \in Shifts \ {f} PROVE Score(f) > Score(t)
    <3>1. Score(f) = 2 * Full
      BY <1>1, <1>2
    <3>2. CASE t \notin 0..f
      BY <1>2, <3>1, <3>2
    <3>3. CASE t \in 0..f
      <4>1. evidence /\ t # f
        BY <1>1, <1>4, <3>3
      <4>2. Score(t) = Full
        BY <1>2, <3>3, <4>1
      <4>3. QED
        BY <1>3, <3>1, <4>2
    <3>4. QED
      BY <3>2, <3>3
  <2>2. BestOf(Shifts) = f
    BY <1>1, <1>3, <2>1, BestIsUnique
  <2>3. QED
    BY <2>2 DEF Chosen
<1>5. CASE ~evidence /\ f # 0
  <2>1. \A s \in Shifts : Score(s) = 2 * Full \/ Score(s) < 2 * Full
    BY <1>2, <1>5
  <2>2. /\ 0 \in Shifts /\ 1 \in Shifts
        /\ Score(0) = 2 * Full /\ Score(1) = 2 * Full
        /\ \A s \in Shifts : s < 0 => Score(s) < 2 * Full
    <3>1. 0 \in Shifts /\ 1 \in Shifts /\ 0 \in 0..f /\ 1 \in 0..f
      BY <1>1, <1>5 DEF Shifts
    <3>2. \A s \in Shifts : s < 0 => s \notin 0..f
      BY <1>1
    <3>3. QED
      BY <1>2, <1>5, <3>1, <3>2
  <2>3. ASSUME NEW t \in Shifts \ {0} PROVE Score(0) > Score(t) \/ (Score(0) = Score(t) /\ 0 < t)
    BY <1>1, <1>3, <2>1, <2>2, <2>3
  <2>4. Chosen = 0
    BY <1>1, <1>3, <2>2, <2>3, BestIsUnique DEF Chosen
  <2> DEFINE R == Shifts \ {0}
  <2>5. ASSUME NEW t \in R \ {1} PROVE Score(1) > Score(t) \/ (Score(1) = Score(t) /\ 1 < t)
    BY <1>1, <1>3, <2>1, <2>2, <2>5
  <2>6. BestOf(R) = 1
    <3>1. 1 \in R /\ R \subseteq Int /\ \A s \in R : Score(s) \in Int
      BY <1>1, <1>3, <2>2
    <3> HIDE DEF R
    <3>2. QED
      BY <2>5, <3>1, BestIsUnique
  <2>7. 50 * (Score(Chosen) - Score(BestOf(Shifts \ {Chosen}))) = 0
    <3>1. BestOf(Shifts \ {Chosen}) = 1
      BY <2>4, <2>6
    <3>2. QED
      BY <1>3, <2>2, <2>4, <3>1
  <2>8. Fourth(Cardinality(Columns)) * NCH * 2 > 0
    <3> DEFINE C == Cardinality(Columns)
    <3>1. C \in Nat /\ C >= 1
      BY <1>1, CalibrationTerms
    <3> HIDE DEF C
    <3>2. Fourth(C) \in Nat /\ Fourth(C) >= 1
      BY <3>1, FourthPositive
    <3>3. 1 * 1 <= Fourth(C) * NCH /\ Fourth(C) * NCH \in Nat
      BY <1>1, <3>2, ProductsOrdered
    <3>4. Fourth(C) * NCH * 2 > 0
      BY <3>3
    <3>5. QED
      BY <3>4 DEF C
  <2>9. QED
    BY <2>7, <2>8 DEF Ambiguous
<1>6. QED
  BY <1>4, <1>5

(* The votes come in header order.                                           *)
Ballots == [lo : Channels, hi : Channels, shift : Shifts]

(* Votes that come in the order of the header.                             *)
HeaderOrder(vs) ==
  /\ vs \in Seq(Ballots)
  /\ \A i \in 1..Len(vs) : vs[i].lo <= vs[i].hi
  /\ \A i, j \in 1..Len(vs) : i < j => vs[i].lo <= vs[j].lo

(* At most one vote, of the span from h. *)
OneVote(vs, h) ==
  /\ vs \in Seq(Ballots) /\ Len(vs) <= 1
  /\ \A i \in 1..Len(vs) : vs[i].lo = h /\ vs[i].lo <= vs[i].hi

(* The least and the greatest number of a set.                             *)
LEMMA MinMaxAre ==
  ASSUME NEW S, NEW n \in Nat, S \subseteq 0..n, S # {}
  PROVE  /\ Min(S) \in S /\ \A x \in S : Min(S) <= x
         /\ Max(S) \in S /\ \A x \in S : x <= Max(S)
<1>1. \E x \in S : \A y \in S : x <= y
  <2>1. S \subseteq Nat
    OBVIOUS
  <2>2. QED
    BY <2>1, LeastExists
<1>2. \E x \in S : \A y \in S : y <= x
  <2>1. S \subseteq 0..(n + 1) - 1 /\ n + 1 \in Nat
    OBVIOUS
  <2>2. QED
    BY <2>1, LargestExists
<1>3. Min(S) \in S /\ \A x \in S : Min(S) <= x
  BY <1>1, Zenon DEF Min
<1>4. \E x \in S : \A y \in S : x >= y
  BY <1>2
<1>5. Max(S) \in S /\ \A y \in S : Max(S) >= y
  BY <1>4, Zenon DEF Max
<1>6. \A x \in S : x <= Max(S)
  BY <1>5
<1>7. QED
  BY <1>3, <1>5, <1>6

(* A score gives at most one vote.                                         *)
LEMMA DecisiveIs ==
  ASSUME NEW lo \in Channels, NEW hi \in Channels, lo <= hi, NEW score,
         \A s \in Shifts : score[s] \in 0..2
  PROVE  OneVote(Decisive(lo, hi, score), lo)
<1> DEFINE best == {s \in Shifts : \A t \in Shifts : score[t] <= score[s]}
           v == [lo |-> lo, hi |-> hi, shift |-> CHOOSE s \in best : TRUE]
<1>1. best # {}
  <2> DEFINE T == {k \in 0..2 : \E s \in Shifts : score[s] = k}
  <2>1. T \subseteq 0..3 - 1 /\ T # {} /\ 3 \in Nat
    <3>1. 0 \in Shifts
      BY DEF Shifts
    <3>2. score[0] \in T
      BY <3>1
    <3>3. QED
      BY <3>2
  <2>2. \E k \in T : \A m \in T : m <= k
    <3> HIDE DEF T
    <3>1. QED
      BY <2>1, LargestExists
  <2>3. PICK k \in T : \A m \in T : m <= k
    BY <2>2
  <2>4. PICK s \in Shifts : score[s] = k
    OBVIOUS
  <2>5. s \in best
    BY <2>3, <2>4
  <2>6. QED
    BY <2>5
<1>2. Decisive(lo, hi, score) = IF Cardinality(best) > 1 THEN <<>> ELSE <<v>>
  BY DEF Decisive
<1>3. v \in Ballots
  BY <1>1 DEF Ballots
<1>4. OneVote(<<>>, lo)
  <2>1. <<>> \in Seq(Ballots) /\ Len(<<>>) = 0
    OBVIOUS
  <2>2. QED
    BY <2>1 DEF OneVote
<1>5. OneVote(<<v>>, lo)
  <2>1. v.lo = lo /\ v.hi = hi
    OBVIOUS
  <2> HIDE DEF v
  <2>2. <<v>> \in Seq(Ballots) /\ Len(<<v>>) = 1 /\ <<v>>[1] = v
    BY <1>3
  <2>3. QED
    BY <2>1, <2>2 DEF OneVote
<1>6. QED
  BY <1>2, <1>4, <1>5

(* Or none.                                                                *)
LEMMA NoVote == ASSUME NEW h PROVE OneVote(<<>>, h)
<1>1. <<>> \in Seq(Ballots) /\ Len(<<>>) = 0
  OBVIOUS
<1>2. QED
  BY <1>1 DEF OneVote

(* A pulse gives at most one vote,                                         *)
LEMMA PulseVoteIs ==
  ASSUME NEW h \in Channels
  PROVE  OneVote(PulseVote(h), h)
<1> DEFINE score == [s \in Shifts |->
             LET shape == ColumnShape(h + s)
             IN  IF shape = "pulse" THEN 2 ELSE IF shape = "dead" THEN 1 ELSE 0]
<1>1. \A s \in Shifts : score[s] \in 0..2
  OBVIOUS
<1>2. PulseVote(h) = IF export.kind[h] \notin {"strobe", "idle"} THEN <<>> ELSE Decisive(h, h, score)
  BY DEF PulseVote
<1>3. h <= h
  BY HeaderAssumption DEF Channels
<1> HIDE DEF score
<1>4. OneVote(Decisive(h, h, score), h)
  BY <1>1, <1>3, DecisiveIs
<1>5. QED
  BY <1>2, <1>4, NoVote

(* and so does a group.                                                    *)
LEMMA GroupVoteIs ==
  ASSUME export \in Exports, NEW h \in Channels
  PROVE  OneVote(GroupVote(h), h)
<1> DEFINE g == export.group
           score == [s \in Shifts |-> Bit(\A c \in g : TrueShift(c) = s)]
<1>1. \A s \in Shifts : score[s] \in 0..2
  BY DEF Bit
<1>2. GroupVote(h) = IF g = {} \/ h # Min(g) \/ export.drop \in g THEN <<>>
                     ELSE Decisive(h, Max(g), score)
  BY Zenon DEF GroupVote
<1>3. ASSUME g # {}, h = Min(g) PROVE Max(g) \in Channels /\ h <= Max(g)
  <2>1. PICK k \in 1..NCH - 2 : g = k..k + 2
    BY <1>3, ExportFacts
  <2>2. NCH \in Nat /\ g \subseteq 0..NCH /\ g \subseteq Channels
    BY <2>1, HeaderAssumption DEF Channels
  <2> HIDE DEF g
  <2>3. Min(g) \in g /\ Max(g) \in g /\ Min(g) <= Max(g)
    BY <1>3, <2>2, MinMaxAre
  <2>4. QED
    BY <1>3, <2>2, <2>3
<1> HIDE DEF score, g
<1>4. ASSUME g # {}, h = Min(g) PROVE OneVote(Decisive(h, Max(g), score), h)
  BY <1>1, <1>3, <1>4, DecisiveIs
<1>5. QED
  BY <1>2, <1>4, NoVote

(* What one more channel's votes do to the order.                            *)
LEMMA VotesJoin ==
  ASSUME NEW vs, NEW ws, NEW h \in Channels, HeaderOrder(vs),
         \A i \in 1..Len(vs) : vs[i].lo <= h, OneVote(ws, h)
  PROVE  HeaderOrder(vs \o ws) /\ \A i \in 1..Len(vs \o ws) : (vs \o ws)[i].lo <= h
<1> DEFINE m == Len(vs)
           n == Len(ws)
           us == vs \o ws
<1>1. /\ vs \in Seq(Ballots) /\ ws \in Seq(Ballots) /\ m \in Nat /\ n \in 0..1 /\ h \in Int
      /\ \A i \in 1..m : vs[i].lo <= vs[i].hi /\ vs[i].lo <= h /\ vs[i].lo \in Int
      /\ \A i, j \in 1..m : i < j => vs[i].lo <= vs[j].lo
      /\ \A i \in 1..n : ws[i].lo = h /\ ws[i].lo <= ws[i].hi
  <2>1. vs \in Seq(Ballots) /\ ws \in Seq(Ballots) /\ h \in Int /\ NCH \in Nat
    BY HeaderAssumption DEF HeaderOrder, OneVote, Channels
  <2>2. \A i \in 1..m : vs[i] \in Ballots
    BY <2>1
  <2>3. \A i \in 1..m : vs[i].lo \in Int
    BY <2>1, <2>2 DEF Ballots, Channels
  <2>4. m \in Nat /\ n \in 0..1
    <3>1. Len(vs) \in Nat /\ Len(ws) \in Nat
      BY <2>1
    <3>2. Len(ws) <= 1
      BY DEF OneVote
    <3>3. \A k \in Nat : k <= 1 => k \in 0..1
      OBVIOUS
    <3>4. QED
      BY <3>1, <3>2, <3>3, Zenon
  <2>5. QED
    BY <2>1, <2>3, <2>4 DEF HeaderOrder, OneVote
<1>2. /\ us \in Seq(Ballots) /\ Len(us) = m + n
      /\ \A i \in 1..m : us[i] = vs[i]
      /\ \A i \in 1..n : us[m + i] = ws[i]
  BY <1>1, ConcatFacts
<1> HIDE DEF m, n, us
<1>3. ASSUME NEW i \in 1..Len(us)
      PROVE  (i \in 1..m /\ us[i] = vs[i]) \/ (i = m + 1 /\ n = 1 /\ us[i] = ws[1])
  <2>1. CASE i <= m
    BY <1>1, <1>2, <2>1
  <2>2. CASE i > m
    <3>1. n = 1 /\ i = m + 1 /\ 1 \in 1..n
      BY <1>1, <1>2, <2>2
    <3>2. QED
      BY <1>2, <3>1
  <2>3. QED
    BY <1>1, <2>1, <2>2
<1>4. ASSUME NEW i \in 1..Len(us) PROVE us[i].lo <= us[i].hi /\ us[i].lo <= h /\ (i = m + 1 => us[i].lo = h)
  BY <1>1, <1>3
<1>5. ASSUME NEW i \in 1..Len(us), NEW j \in 1..Len(us), i < j PROVE us[i].lo <= us[j].lo
  <2>1. CASE j \in 1..m
    <3>1. i \in 1..m
      BY <1>1, <1>2, <1>5, <2>1
    <3>2. QED
      BY <1>1, <1>2, <1>5, <2>1, <3>1
  <2>2. CASE j = m + 1
    BY <1>4, <2>2
  <2>3. QED
    BY <1>3, <2>1, <2>2
<1>6. HeaderOrder(us)
  BY <1>2, <1>4, <1>5 DEF HeaderOrder
<1>7. QED
  BY <1>4, <1>6 DEF us

(* All votes come in header order.                                         *)
LEMMA VotesInOrder ==
  ASSUME export \in Exports
  PROVE  HeaderOrder(Votes)
<1> DEFINE N == NCH
           both == [h \in Channels |-> PulseVote(h) \o GroupVote(h)]
<1>1. N \in Nat /\ Channels = 1..N
  BY HeaderAssumption DEF Channels
<1>2. \A h \in Channels : PulseVote(h) \in Seq(Ballots) /\ GroupVote(h) \in Seq(Ballots)
  BY PulseVoteIs, GroupVoteIs DEF OneVote
<1>3. both \in Seq(Seq(Ballots)) /\ Len(both) = N
  BY <1>1, <1>2
<1>4. PICK f \in [0..N -> Seq(Ballots)] :
        f[0] = <<>> /\ f[N] = FlattenSeq(both) /\ \A i \in 1..N : f[i] = f[i - 1] \o both[i]
  <2>1. Joinings(Ballots, both) # {}
    <3> HIDE DEF both
    <3>1. QED
      BY <1>3, FlattenIs
  <2>2. PICK f \in [0..Len(both) -> Seq(Ballots)] :
        f[0] = <<>> /\ f[Len(both)] = FlattenSeq(both) /\ \A i \in 1..Len(both) : f[i] = f[i - 1] \o both[i]
    BY <2>1, Zenon DEF Joinings
  <2>3. QED
    BY <1>3, <2>2
<1> DEFINE Upto(i) == HeaderOrder(f[i]) /\ \A k \in 1..Len(f[i]) : f[i][k].lo <= i
           T == {i \in 0..N : Upto(i)}
<1>5. 0 \in T
  <2>1. <<>> \in Seq(Ballots) /\ Len(<<>>) = 0
    OBVIOUS
  <2>2. HeaderOrder(<<>>)
    BY <2>1 DEF HeaderOrder
  <2>3. QED
    BY <1>1, <1>4, <2>1, <2>2
<1>6. ASSUME NEW i \in 1..N, i - 1 \in T PROVE i \in T
  <2> DEFINE g == f[i - 1]
             p == PulseVote(i)
             q == GroupVote(i)
  <2>1. i \in Channels /\ i \in Nat
    BY <1>1
  <2>2. HeaderOrder(g) /\ \A k \in 1..Len(g) : g[k].lo <= i
    <3>1. HeaderOrder(g) /\ \A k \in 1..Len(g) : g[k].lo <= i - 1
      BY <1>6
    <3>2. \A k \in 1..Len(g) : g[k].lo \in Int
      <4>1. g \in Seq(Ballots)
        BY <3>1 DEF HeaderOrder
      <4> HIDE DEF g
      <4>2. \A k \in 1..Len(g) : g[k] \in Ballots
        BY <4>1
      <4>3. QED
        BY <1>1, <4>2 DEF Ballots, Channels
    <3> HIDE DEF g
    <3>3. QED
      BY <2>1, <3>1, <3>2
  <2>3. OneVote(p, i) /\ OneVote(q, i)
    BY <2>1, PulseVoteIs, GroupVoteIs
  <2>4. f[i] = g \o (p \o q)
    <3>1. f[i] = f[i - 1] \o both[i]
      BY <1>4
    <3>2. both[i] = p \o q
      BY <2>1
    <3>3. QED
      BY <3>1, <3>2, Zenon
  <2> HIDE DEF p, q, g
  <2>5. g \o (p \o q) = (g \o p) \o q
    <3>1. g \in Seq(Ballots) /\ p \in Seq(Ballots) /\ q \in Seq(Ballots)
      BY <2>2, <2>3 DEF HeaderOrder, OneVote
    <3>2. QED
      BY <3>1, ConcatTwice
  <2> DEFINE gp == g \o p
  <2>6. HeaderOrder(gp) /\ \A k \in 1..Len(gp) : gp[k].lo <= i
    BY <2>1, <2>2, <2>3, VotesJoin
  <2> HIDE DEF gp
  <2>7. HeaderOrder(gp \o q) /\ \A k \in 1..Len(gp \o q) : (gp \o q)[k].lo <= i
    BY <2>1, <2>3, <2>6, VotesJoin
  <2>8. f[i] = gp \o q
    BY <2>4, <2>5 DEF gp
  <2>9. i \in 0..N
    BY <1>1
  <2>10. QED
    BY <2>7, <2>8, <2>9
<1>7. N \in T
  <2>1. 0..N \subseteq T
    <3> HIDE DEF T
    <3>1. QED
      BY <1>1, <1>5, <1>6, CountsUp
  <2>2. QED
    BY <1>1, <2>1
<1>8. HeaderOrder(FlattenSeq(both))
  BY <1>4, <1>7
<1>9. QED
  BY <1>8 DEF Votes

(* The zones: the first, of shift 0, ends before the dropped channel; the    *)
(* next lies between it and the filler; the last begins behind the filler.   *)
Spans == [lo : 0..NCH, hi : 0..NCH, shift : Shifts]

(* A zone of the channels behind the dropped one, one column to the left.  *)
InRun(z) == z.shift = -1 /\ z.lo \in export.drop + 1..Begins - 1 /\ z.hi \in export.drop + 1..Begins - 1

(* A zone of the channels back in step.                                    *)
InTail(z) == z.shift = 0 /\ z.lo \in Begins..NCH

(* A file without a column left out, after the votes left are vs. *)
FitsUniform(zs) ==
  \/ Len(zs) = 1 /\ zs[1].shift = 0 /\ (export.front # 0 => zs[1].hi = 0)
  \/ /\ Len(zs) = 2 /\ export.front # 0 /\ zs[1].shift = 0 /\ zs[1].hi = 0
     /\ zs[2].shift = export.front /\ zs[2].lo \in Channels

(* A file with a column left out: the zones found so far are the first of  *)
(* the three, and the votes left lie behind them.                          *)
FitsDropped(vs, zs) ==
  /\ Len(zs) \in 1..3 /\ zs[1].shift = 0 /\ zs[1].hi < export.drop
  /\ Len(zs) >= 2 => InRun(zs[2]) /\ \A i \in 1..Len(vs) : vs[i].lo > export.drop
  /\ Len(zs) = 3 => InTail(zs[3]) /\ \A i \in 1..Len(vs) : vs[i].lo >= Begins
  /\ Len(zs) >= 2 \/ SeenIn(vs, export.drop + 1..Begins - 1)
  /\ Begins <= NCH => Len(zs) = 3 \/ SeenIn(vs, Begins..NCH)

(* The zones found so far, after which the votes vs are left.              *)
Fits(vs, zs) ==
  /\ HeaderOrder(vs) /\ Honest(vs) /\ zs \in Seq(Spans)
  /\ export.drop = 0 => FitsUniform(zs)
  /\ export.drop # 0 => export.drop + 1 < Begins /\ FitsDropped(vs, zs)

(* An honest vote gives the true shift of its channels.                    *)
LEMMA BallotIs ==
  ASSUME export \in Exports, NEW vs, HeaderOrder(vs), Honest(vs), NEW i \in 1..Len(vs)
  PROVE  /\ vs[i] \in Ballots /\ vs[i].lo \in Channels /\ vs[i].hi \in Channels /\ vs[i].lo <= vs[i].hi
         /\ export.drop = 0 => vs[i].shift = export.front
         /\ export.drop # 0 =>
              \/ vs[i].shift = 0 /\ vs[i].hi < export.drop /\ vs[i].lo < export.drop
              \/ vs[i].shift = -1 /\ vs[i].lo > export.drop /\ vs[i].hi > export.drop /\ vs[i].hi < Begins
              \/ vs[i].shift = 0 /\ vs[i].lo >= Begins
<1> DEFINE v == vs[i]
           d == export.drop
<1>1. vs \in Seq(Ballots) /\ v.lo <= v.hi
  BY DEF HeaderOrder
<1>2. v \in Ballots
  BY <1>1
<1>3. \A h \in v.lo..v.hi : h # d /\ v.shift = TrueShift(h)
  BY DEF Honest
<1> HIDE DEF v
<1>4. v.lo \in Channels /\ v.hi \in Channels /\ NCH \in Nat
  BY <1>2, HeaderAssumption DEF Ballots
<1>5. v.lo \in v.lo..v.hi /\ v.hi \in v.lo..v.hi /\ v.lo \in Nat /\ v.hi \in Nat /\ v.hi <= NCH
  BY <1>1, <1>4 DEF Channels, v
<1>6. v.shift = TrueShift(v.lo) /\ v.shift = TrueShift(v.hi) /\ v.lo # d /\ v.hi # d
  BY <1>3, <1>5
<1>7. d = 0 => v.shift = export.front
  BY <1>4, <1>6, TrueShiftIs
<1>8. ASSUME d # 0
      PROVE  \/ v.shift = 0 /\ v.hi < d /\ v.lo < d
             \/ v.shift = -1 /\ v.lo > d /\ v.hi > d /\ v.hi < Begins
             \/ v.shift = 0 /\ v.lo >= Begins
  <2>1. d \in Nat /\ Begins \in Nat
    BY <1>4, <1>8, ExportFacts
  <2>2. /\ v.lo < d => v.shift = 0
        /\ v.lo > d /\ v.lo < Begins => v.shift = -1
        /\ v.lo >= Begins => v.shift = 0
        /\ v.hi > d /\ v.hi < Begins => v.shift = -1
        /\ v.hi >= Begins => v.shift = 0
    BY <1>4, <1>6, <1>8, TrueShiftIs
  <2>3. v.lo < d => ~(v.hi > d)
    <3>1. SUFFICES ASSUME v.lo < d, v.hi > d PROVE FALSE
      OBVIOUS
    <3>2. d \in v.lo..v.hi
      BY <1>5, <2>1, <3>1
    <3>3. QED
      BY <1>3, <3>2
  <2>4. v.lo <= v.hi
    BY <1>1 DEF v
  <2>5. QED
    BY <1>5, <1>6, <2>1, <2>2, <2>3, <2>4
<1>9. v.lo <= v.hi
  BY <1>1 DEF v
<1>10. QED
  BY <1>2, <1>4, <1>7, <1>8, <1>9 DEF v

(* The votes behind the first.                                             *)
LEMMA OrderOfTail ==
  ASSUME NEW vs, vs # <<>>, HeaderOrder(vs), Honest(vs)
  PROVE  /\ HeaderOrder(Tail(vs)) /\ Honest(Tail(vs))
         /\ Len(vs) \in Nat /\ 1 \in 1..Len(vs) /\ Len(Tail(vs)) = Len(vs) - 1
         /\ \A i \in 1..Len(Tail(vs)) : i + 1 \in 1..Len(vs) /\ Tail(vs)[i] = vs[i + 1] /\ vs[1].lo <= vs[i + 1].lo
         /\ Head(vs) = vs[1]
<1>1. vs \in Seq(Ballots)
  BY DEF HeaderOrder
<1>2. /\ Tail(vs) \in Seq(Ballots) /\ Len(vs) \in Nat /\ Len(vs) >= 1 /\ Len(Tail(vs)) = Len(vs) - 1
      /\ \A i \in 1..Len(Tail(vs)) : Tail(vs)[i] = vs[i + 1]
      /\ Head(vs) = vs[1]
  BY <1>1
<1>3. \A i \in 1..Len(Tail(vs)) : i + 1 \in 1..Len(vs) /\ vs[1].lo <= vs[i + 1].lo
  <2>1. \A i \in 1..Len(Tail(vs)) : i + 1 \in 1..Len(vs) /\ 1 < i + 1 /\ 1 \in 1..Len(vs)
    BY <1>2
  <2>2. QED
    BY <2>1 DEF HeaderOrder
<1>4. Honest(Tail(vs))
  BY <1>2, <1>3 DEF Honest
<1> DEFINE t == Tail(vs)
<1> HIDE DEF t
<1>5. HeaderOrder(t)
  <2>1. /\ t \in Seq(Ballots) /\ Len(t) = Len(vs) - 1
        /\ \A i \in 1..Len(t) : t[i] = vs[i + 1] /\ i + 1 \in 1..Len(vs)
    BY <1>2, <1>3 DEF t
  <2>2. \A i \in 1..Len(t) : t[i].lo <= t[i].hi
    BY <2>1 DEF HeaderOrder
  <2>3. ASSUME NEW i \in 1..Len(t), NEW j \in 1..Len(t), i < j PROVE t[i].lo <= t[j].lo
    <3>1. i + 1 < j + 1 /\ i + 1 \in 1..Len(vs) /\ j + 1 \in 1..Len(vs)
      BY <1>2, <2>1, <2>3
    <3>2. vs[i + 1].lo <= vs[j + 1].lo
      BY <3>1 DEF HeaderOrder
    <3>3. QED
      BY <2>1, <3>2
  <2>4. QED
    BY <2>1, <2>2, <2>3 DEF HeaderOrder
<1>6. QED
  BY <1>2, <1>3, <1>4, <1>5 DEF t

(* A vote behind the first is still to come.                               *)
LEMMA SeenInTail ==
  ASSUME NEW vs, vs # <<>>, HeaderOrder(vs), Honest(vs), NEW S, SeenIn(vs, S), vs[1].lo \notin S
  PROVE  SeenIn(Tail(vs), S)
<1>1. CASE S = {}
  BY <1>1 DEF SeenIn
<1>2. CASE S # {}
  <2>1. PICK i \in 1..Len(vs) : vs[i].lo \in S
    BY <1>2 DEF SeenIn
  <2>2. i # 1 /\ Len(vs) \in Nat /\ Len(Tail(vs)) = Len(vs) - 1
    BY <2>1, OrderOfTail
  <2>3. i - 1 \in 1..Len(Tail(vs)) /\ (i - 1) + 1 = i
    BY <2>1, <2>2
  <2>4. Tail(vs)[i - 1] = vs[i]
    BY <2>3, OrderOfTail
  <2>5. QED
    BY <2>1, <2>3, <2>4 DEF SeenIn
<1>3. QED
  BY <1>1, <1>2

(* A vote extends the last zone or begins one.                               *)
Refitted(zs, v) ==
  LET z == Last(zs)
  IN  IF z.shift = v.shift THEN Front(zs) \o <<[z EXCEPT !.hi = v.hi]>> ELSE Append(zs, v)

(* The zones after one vote more.                                          *)
LEMMA RefittedIs ==
  ASSUME NEW zs \in Seq(Spans), Len(zs) >= 1, NEW v \in Ballots
  PROVE  /\ Refitted(zs, v) \in Seq(Spans)
         /\ zs[Len(zs)].shift = v.shift =>
              /\ Len(Refitted(zs, v)) = Len(zs)
              /\ \A i \in 1..Len(zs) - 1 : Refitted(zs, v)[i] = zs[i]
              /\ Refitted(zs, v)[Len(zs)].lo = zs[Len(zs)].lo
              /\ Refitted(zs, v)[Len(zs)].hi = v.hi
              /\ Refitted(zs, v)[Len(zs)].shift = v.shift
         /\ zs[Len(zs)].shift # v.shift =>
              /\ Len(Refitted(zs, v)) = Len(zs) + 1
              /\ \A i \in 1..Len(zs) : Refitted(zs, v)[i] = zs[i]
              /\ Refitted(zs, v)[Len(zs) + 1] = v
<1> DEFINE n == Len(zs)
           z == zs[n]
           w == [z EXCEPT !.hi = v.hi]
           front == SubSeq(zs, 1, n - 1)
<1>1. n \in Nat /\ n >= 1 /\ NCH \in Nat /\ z \in Spans /\ Channels \subseteq 0..NCH
  BY HeaderAssumption DEF Channels
<1>2. v \in Spans
  BY <1>1 DEF Ballots, Spans
<1>3. w \in Spans /\ w.lo = z.lo /\ w.hi = v.hi /\ w.shift = z.shift
  BY <1>1, <1>2 DEF Spans
<1>4. Refitted(zs, v) = IF z.shift = v.shift THEN front \o <<w>> ELSE Append(zs, v)
  BY DEF Refitted, Last, Front
<1>5. front \in Seq(Spans) /\ Len(front) = n - 1 /\ \A i \in 1..n - 1 : front[i] = zs[i]
  <2>1. 1 \in 1..n + 1 /\ n - 1 \in 0..n /\ n - 1 \in 1 - 1..n /\ (n - 1) - 1 + 1 = n - 1
    BY <1>1
  <2>2. \A i \in 1..n - 1 : i \in 1..n /\ 1 + i - 1 = i
    BY <1>1
  <2> HIDE DEF n
  <2>3. /\ SubSeq(zs, 1, n - 1) \in Seq(Spans)
        /\ Len(SubSeq(zs, 1, n - 1)) = n - 1
        /\ \A i \in 1..n - 1 : SubSeq(zs, 1, n - 1)[i] = zs[i]
    <3>1. n = Len(zs) /\ n \in Nat /\ n >= 1
      BY <1>1 DEF n
    <3>2. QED
      BY <2>1, <3>1
  <2>4. QED
    BY <2>3
<1> HIDE DEF z, w, front
<1>6. ASSUME z.shift = v.shift
      PROVE  /\ front \o <<w>> \in Seq(Spans) /\ Len(front \o <<w>>) = n
             /\ \A i \in 1..n - 1 : (front \o <<w>>)[i] = zs[i]
             /\ (front \o <<w>>)[n] = w
  <2>1. <<w>> \in Seq(Spans) /\ Len(<<w>>) = 1 /\ <<w>>[1] = w
    BY <1>3
  <2>2. /\ front \o <<w>> \in Seq(Spans) /\ Len(front \o <<w>>) = Len(front) + Len(<<w>>)
        /\ \A i \in 1..Len(front) : (front \o <<w>>)[i] = front[i]
        /\ \A i \in 1..Len(<<w>>) : (front \o <<w>>)[Len(front) + i] = <<w>>[i]
    BY <1>5, <2>1, ConcatFacts
  <2>3. (front \o <<w>>)[Len(front) + 1] = w
    BY <2>1, <2>2
  <2>4. (n - 1) + 1 = n
    BY <1>1
  <2>5. QED
    BY <1>5, <2>1, <2>2, <2>3, <2>4
<1>7. /\ Append(zs, v) \in Seq(Spans) /\ Len(Append(zs, v)) = n + 1
      /\ \A i \in 1..n : Append(zs, v)[i] = zs[i]
      /\ Append(zs, v)[n + 1] = v
  BY <1>2, AppendProperties
<1>8. CASE z.shift = v.shift
  <2>1. Refitted(zs, v) = front \o <<w>>
    BY <1>4, <1>8
  <2>2. QED
    BY <1>3, <1>6, <1>8, <2>1 DEF z
<1>9. CASE z.shift # v.shift
  <2>1. Refitted(zs, v) = Append(zs, v)
    BY <1>4, <1>9
  <2>2. QED
    BY <1>7, <1>9, <2>1 DEF z
<1>10. QED
  BY <1>8, <1>9

(* A vote of a file that has all its columns.                              *)
LEMMA FitUniform ==
  ASSUME export \in Exports, export.drop = 0, NEW zs \in Seq(Spans), FitsUniform(zs),
         NEW v \in Ballots, v.shift = export.front
  PROVE  FitsUniform(Refitted(zs, v))
<1> DEFINE r == Refitted(zs, v)
<1>1. /\ export.front \in 0..2 /\ v.lo \in Channels
      /\ Len(zs) = 1 \/ Len(zs) = 2
      /\ Len(zs) >= 1
  BY ExportFacts DEF FitsUniform, Ballots
<1>2. /\ zs[Len(zs)].shift = v.shift =>
              /\ Len(r) = Len(zs)
              /\ \A i \in 1..Len(zs) - 1 : r[i] = zs[i]
              /\ r[Len(zs)].lo = zs[Len(zs)].lo
              /\ r[Len(zs)].shift = v.shift
      /\ zs[Len(zs)].shift # v.shift =>
              /\ Len(r) = Len(zs) + 1
              /\ \A i \in 1..Len(zs) : r[i] = zs[i]
              /\ r[Len(zs) + 1] = v
  <2>1. Len(zs) >= 1
    BY <1>1
  <2>2. QED
    BY <2>1, RefittedIs
<1> HIDE DEF r
<1>3. CASE Len(zs) = 1
  <2>1. zs[1].shift = 0 /\ (export.front # 0 => zs[1].hi = 0)
    BY <1>3 DEF FitsUniform
  <2>2. CASE export.front = 0
    <3>1. Len(r) = 1 /\ r[1].shift = 0
      BY <1>2, <1>3, <2>1, <2>2
    <3>2. QED
      BY <2>2, <3>1 DEF FitsUniform, r
  <2>3. CASE export.front # 0
    <3>1. Len(r) = 2 /\ r[1] = zs[1] /\ r[2] = v
      BY <1>2, <1>3, <2>1, <2>3
    <3>2. QED
      BY <1>1, <2>1, <2>3, <3>1 DEF FitsUniform, r
  <2>4. QED
    BY <2>2, <2>3
<1>4. CASE Len(zs) = 2
  <2>1. /\ export.front # 0 /\ zs[1].shift = 0 /\ zs[1].hi = 0
        /\ zs[2].shift = export.front /\ zs[2].lo \in Channels
    BY <1>4 DEF FitsUniform
  <2>2. Len(r) = 2 /\ r[1] = zs[1] /\ r[2].shift = export.front /\ r[2].lo = zs[2].lo
    BY <1>2, <1>4, <2>1
  <2>3. QED
    BY <2>1, <2>2 DEF FitsUniform, r
<1>5. QED
  BY <1>1, <1>3, <1>4

(* A vote of one that has not.                                             *)
LEMMA FitDropped ==
  ASSUME export \in Exports, export.drop # 0, export.drop + 1 < Begins,
         NEW vs, vs # <<>>, HeaderOrder(vs), Honest(vs),
         NEW zs \in Seq(Spans), FitsDropped(vs, zs)
  PROVE  FitsDropped(Tail(vs), Refitted(zs, vs[1]))
<1> DEFINE d == export.drop
           f == Begins
           v == vs[1]
           t == Tail(vs)
           n == Len(zs)
           r == Refitted(zs, v)
           Run == d + 1..f - 1
           Beyond == f..NCH
<1>1. d \in Nat /\ d >= 1 /\ f \in Nat /\ NCH \in Nat /\ d + 1 < f
  BY ExportFacts
<1>2. /\ n \in 1..3 /\ zs[1].shift = 0 /\ zs[1].hi < d
      /\ n >= 2 => InRun(zs[2]) /\ \A i \in 1..Len(vs) : vs[i].lo > d
      /\ n = 3 => InTail(zs[3]) /\ \A i \in 1..Len(vs) : vs[i].lo >= f
      /\ n >= 2 \/ SeenIn(vs, Run)
      /\ f <= NCH => n = 3 \/ SeenIn(vs, Beyond)
  BY DEF FitsDropped
<1>3. /\ 1 \in 1..Len(vs) /\ \A i \in 1..Len(t) : i + 1 \in 1..Len(vs) /\ t[i] = vs[i + 1] /\ v.lo <= vs[i + 1].lo
  BY OrderOfTail
<1>4. /\ v \in Ballots /\ v.lo \in Nat /\ v.hi \in Nat /\ v.lo <= NCH /\ v.hi <= NCH /\ v.lo <= v.hi
      /\ \/ v.shift = 0 /\ v.hi < d /\ v.lo < d
         \/ v.shift = -1 /\ v.lo > d /\ v.hi > d /\ v.hi < f
         \/ v.shift = 0 /\ v.lo >= f
  <2>1. v \in Ballots /\ v.lo \in Channels /\ v.hi \in Channels /\ v.lo <= v.hi
    BY <1>3, BallotIs
  <2>2. \/ v.shift = 0 /\ v.hi < d /\ v.lo < d
        \/ v.shift = -1 /\ v.lo > d /\ v.hi > d /\ v.hi < f
        \/ v.shift = 0 /\ v.lo >= f
    BY <1>3, BallotIs
  <2> HIDE DEF v
  <2>3. QED
    BY <1>1, <2>1, <2>2 DEF Channels
<1>5. /\ zs[n].shift = v.shift =>
              /\ Len(r) = n
              /\ \A i \in 1..n - 1 : r[i] = zs[i]
              /\ r[n].lo = zs[n].lo /\ r[n].hi = v.hi
              /\ r[n].shift = v.shift
      /\ zs[n].shift # v.shift =>
              /\ Len(r) = n + 1
              /\ \A i \in 1..n : r[i] = zs[i]
              /\ r[n + 1] = v
  <2>1. n >= 1
    BY <1>2
  <2>2. QED
    BY <1>4, <2>1, RefittedIs
<1>6. \A i \in 1..Len(t) : t[i].lo \in Nat /\ t[i].lo >= v.lo
  <2>1. \A i \in 1..Len(t) : t[i] \in Ballots /\ t[i].lo >= v.lo
    <3>1. vs \in Seq(Ballots)
      BY DEF HeaderOrder
    <3>2. \A i \in 1..Len(t) : vs[i + 1] \in Ballots
      BY <1>3, <3>1
    <3>3. \A i \in 1..Len(t) : vs[i + 1].lo \in Int
      BY <1>1, <3>2 DEF Ballots, Channels
    <3>4. QED
      BY <1>3, <1>4, <3>2, <3>3
  <2>2. QED
    BY <1>1, <2>1 DEF Ballots, Channels
<1>7. /\ SeenIn(vs, Run) /\ v.lo \notin Run => SeenIn(t, Run)
      /\ SeenIn(vs, Beyond) /\ v.lo \notin Beyond => SeenIn(t, Beyond)
  BY SeenInTail
<1> HIDE DEF v, t, n, r, d, f, Run, Beyond
<1>8. /\ \A i \in Run : i > d /\ i < f
      /\ \A i \in Nat : i > d /\ i < f => i \in Run
      /\ \A i \in Nat : i <= NCH => (i \in Beyond <=> i >= f)
  BY <1>1 DEF Run, Beyond
<1>9. CASE v.hi < d /\ v.lo < d /\ v.shift = 0
  <2>1. n = 1
    BY <1>1, <1>2, <1>3, <1>4, <1>9 DEF v
  <2>2. Len(r) = 1 /\ r[1].shift = 0 /\ r[1].hi < d
    BY <1>2, <1>5, <1>9, <2>1
  <2>3. v.lo \notin Run /\ v.lo \notin Beyond
    BY <1>1, <1>4, <1>8, <1>9
  <2>4. SeenIn(t, Run) /\ (f <= NCH => SeenIn(t, Beyond))
    BY <1>2, <1>7, <2>1, <2>3
  <2>5. QED
    BY <2>2, <2>4 DEF FitsDropped, r, v, t, d, f, Run, Beyond
<1>10. CASE v.shift = -1 /\ v.lo > d /\ v.hi > d /\ v.hi < f
  <2>1. v.lo \in Run /\ v.hi \in Run /\ v.lo \notin Beyond
    BY <1>1, <1>4, <1>8, <1>10
  <2>2. n # 3
    BY <1>1, <1>2, <1>3, <1>4, <1>10 DEF v
  <2>3. \A i \in 1..Len(t) : t[i].lo > d
    BY <1>1, <1>4, <1>6, <1>10
  <2>4. Len(r) = 2 /\ r[1] = zs[1] /\ InRun(r[2])
    <3>1. CASE n = 1
      <4>1. Len(r) = 2 /\ r[1] = zs[1] /\ r[2] = v
        BY <1>2, <1>5, <1>10, <3>1
      <4>2. QED
        BY <1>10, <2>1, <4>1 DEF InRun, Run, d, f
    <3>2. CASE n = 2
      <4>1. InRun(zs[2])
        BY <1>2, <3>2
      <4>2. zs[2].shift = v.shift
        BY <1>10, <4>1 DEF InRun
      <4>3. Len(r) = 2 /\ r[1] = zs[1] /\ r[2].lo = zs[2].lo /\ r[2].hi = v.hi /\ r[2].shift = v.shift
        BY <1>5, <3>2, <4>2
      <4>4. QED
        BY <1>10, <2>1, <4>1, <4>3 DEF InRun, Run, d, f
    <3>3. QED
      BY <1>2, <2>2, <3>1, <3>2
  <2>5. f <= NCH => SeenIn(t, Beyond)
    BY <1>2, <1>7, <2>1, <2>2
  <2>6. QED
    BY <1>2, <2>3, <2>4, <2>5 DEF FitsDropped, r, v, t, d, f, Run, Beyond
<1>11. CASE v.shift = 0 /\ v.lo >= f
  <2>1. v.lo \in Beyond /\ v.lo \notin Run /\ v.lo > d
    BY <1>1, <1>4, <1>8, <1>11
  <2>2. \A i \in 1..Len(t) : t[i].lo > d /\ t[i].lo >= f
    BY <1>1, <1>4, <1>6, <1>11
  <2>3. n # 1
    <3>1. SUFFICES ASSUME n = 1 PROVE FALSE
      OBVIOUS
    <3>2. SeenIn(t, Run)
      BY <1>2, <1>7, <2>1, <3>1
    <3>3. d + 1 \in Run
      BY <1>1, <1>8
    <3>4. PICK i \in 1..Len(t) : t[i].lo \in Run
      BY <3>2, <3>3 DEF SeenIn
    <3>5. QED
      BY <1>1, <1>8, <2>2, <3>4, <1>6
  <2>4. Len(r) = 3 /\ r[1] = zs[1] /\ r[2] = zs[2] /\ InTail(r[3])
    <3>1. CASE n = 2
      <4>1. zs[2].shift # v.shift
        BY <1>2, <1>11, <3>1 DEF InRun
      <4>2. Len(r) = 3 /\ r[1] = zs[1] /\ r[2] = zs[2] /\ r[3] = v
        BY <1>5, <3>1, <4>1
      <4>3. QED
        BY <1>11, <2>1, <4>2 DEF InTail, Beyond, f
    <3>2. CASE n = 3
      <4>1. InTail(zs[3])
        BY <1>2, <3>2
      <4>2. zs[3].shift = v.shift
        BY <1>11, <4>1 DEF InTail
      <4>3. Len(r) = 3 /\ r[1] = zs[1] /\ r[2] = zs[2] /\ r[3].lo = zs[3].lo /\ r[3].shift = v.shift
        BY <1>5, <3>2, <4>2
      <4>4. QED
        BY <1>11, <4>1, <4>3 DEF InTail
    <3>3. QED
      BY <1>2, <2>3, <3>1, <3>2
  <2>5. InRun(zs[2])
    BY <1>2, <2>3
  <2>6. QED
    BY <1>2, <2>2, <2>4, <2>5 DEF FitsDropped, r, v, t, d, f
<1>12. QED
  BY <1>4, <1>9, <1>10, <1>11

(* Either way the zones still fit.                                         *)
LEMMA FitsOneMore ==
  ASSUME export \in Exports, NEW vs, vs # <<>>, NEW zs, Fits(vs, zs)
  PROVE  Fits(Tail(vs), Refitted(zs, Head(vs)))
<1>1. HeaderOrder(vs) /\ Honest(vs) /\ zs \in Seq(Spans)
  BY DEF Fits
<1>2. HeaderOrder(Tail(vs)) /\ Honest(Tail(vs)) /\ Head(vs) = vs[1] /\ 1 \in 1..Len(vs)
  BY <1>1, OrderOfTail
<1>3. vs[1] \in Ballots
  BY <1>1, <1>2, BallotIs
<1>4. Len(zs) >= 1
  BY DEF Fits, FitsUniform, FitsDropped
<1>5. Refitted(zs, vs[1]) \in Seq(Spans)
  BY <1>1, <1>3, <1>4, RefittedIs
<1>6. ASSUME export.drop = 0 PROVE FitsUniform(Refitted(zs, vs[1]))
  <2>1. vs[1].shift = export.front
    BY <1>1, <1>2, <1>6, BallotIs
  <2>2. FitsUniform(zs)
    BY <1>6 DEF Fits
  <2>3. QED
    BY <1>1, <1>3, <1>6, <2>1, <2>2, FitUniform
<1>7. ASSUME export.drop # 0
      PROVE  export.drop + 1 < Begins /\ FitsDropped(Tail(vs), Refitted(zs, vs[1]))
  <2>1. export.drop + 1 < Begins /\ FitsDropped(vs, zs)
    BY <1>7 DEF Fits
  <2>2. QED
    BY <1>1, <1>7, <2>1, FitDropped
<1>8. QED
  BY <1>2, <1>5, <1>6, <1>7 DEF Fits

(* The map suggested so far: right where it speaks, and complete up to cur.  *)
Pieces == [lo : Int, hi : Int, shift : Shifts \cup {NoColumn}]

(* The map so far is right, where it gives a shift and the channel is not  *)
(* in doubt.                                                               *)
Faithful(ps, db) ==
  /\ ps \in Seq(Pieces)
  /\ \A p \in Range(ps) : \A h \in Channels \ db :
       h \in p.lo..p.hi => p.shift = NoColumn \/ (p.shift = TrueShift(h) /\ h # export.drop)

(* It speaks of every channel before n.                                    *)
Covers(ps, n) == \A h \in Channels : h < n => \E p \in Range(ps) : h \in p.lo..p.hi

(* What is left to report, when the current part begins at c with shift cs.  *)
LeftUniform(zs, c, cs) ==
  \/ Len(zs) = 2 /\ cs = 0 /\ c = 1 /\ export.front # 0 /\ zs[1].shift = 0 /\ zs[1].hi = 0
     /\ zs[2].shift = export.front /\ zs[2].lo \in Channels
  \/ Len(zs) = 1 /\ cs = export.front

(* The same of a file with a column left out.                              *)
LeftDropped(zs, c, cs) ==
  \/ /\ cs = 0 /\ c = 1 /\ zs[1].shift = 0 /\ zs[1].hi < export.drop
     /\ Len(zs) >= 2 /\ InRun(zs[2])
     /\ IF Begins <= NCH THEN Len(zs) = 3 /\ InTail(zs[3]) ELSE Len(zs) = 2
  \/ /\ cs = -1 /\ c > export.drop /\ InRun(zs[1])
     /\ IF Begins <= NCH THEN Len(zs) = 2 /\ InTail(zs[2]) ELSE Len(zs) = 1
  \/ cs = 0 /\ c >= Begins /\ Len(zs) = 1

(* The report has come to channel c: the map is right and complete so far, *)
(* and the zones left are those of the file.                               *)
Reported(zs, ps, c, cs, db) ==
  /\ zs \in Seq(Spans) /\ c \in Nat /\ c >= 1 /\ Faithful(ps, db) /\ Covers(ps, c)
  /\ export.drop = 0 => LeftUniform(zs, c, cs)
  /\ export.drop # 0 => LeftDropped(zs, c, cs)

(* The part of the map added for a stretch of channels.                    *)
LEMMA PartIs ==
  ASSUME NEW lo \in Int, NEW hi \in Int, NEW s \in Shifts \cup {NoColumn}
  PROVE  /\ Part(lo, hi, s) \in Seq(Pieces)
         /\ \A p \in Range(Part(lo, hi, s)) : p.lo = lo /\ p.hi = hi /\ p.shift = s
         /\ \A h \in lo..hi : \E p \in Range(Part(lo, hi, s)) : h \in p.lo..p.hi
<1> DEFINE p == [lo |-> lo, hi |-> hi, shift |-> s]
<1>1. p \in Pieces
  BY DEF Pieces
<1>2. p.lo = lo /\ p.hi = hi /\ p.shift = s
  OBVIOUS
<1>3. Part(lo, hi, s) = IF lo > hi THEN <<>> ELSE <<p>>
  BY DEF Part
<1> HIDE DEF p
<1>4. <<p>> \in Seq(Pieces) /\ Len(<<p>>) = 1 /\ <<p>>[1] = p /\ <<>> \in Seq(Pieces) /\ Len(<<>>) = 0
  BY <1>1
<1>5. ASSUME NEW x \in Range(<<p>>) PROVE x = p
  <2>0. <<p>> \in Seq(Pieces) /\ x \in Range(<<p>>)
    BY <1>4, <1>5
  <2>1. PICK i \in 1..Len(<<p>>) : <<p>>[i] = x
    <3>1. \E i \in 1..Len(<<p>>) : <<p>>[i] = x
      BY <2>0, InRange
    <3>2. QED
      BY <3>1
  <2>2. i = 1
    BY <1>4
  <2>3. QED
    BY <1>4, <2>1, <2>2
<1>6. p \in Range(<<p>>)
  <2>1. 1 \in 1..Len(<<p>>)
    BY <1>4
  <2>2. <<p>>[1] \in Range(<<p>>)
    BY <1>4, <2>1, IsInRange
  <2>3. QED
    BY <1>4, <2>2
<1>7. Range(<<>>) = {}
  BY <1>4 DEF Range
<1>8. CASE lo > hi
  <2>1. Part(lo, hi, s) = <<>> /\ lo..hi = {}
    BY <1>3, <1>8
  <2>2. QED
    BY <1>4, <1>7, <2>1
<1>9. CASE ~(lo > hi)
  <2>1. Part(lo, hi, s) = <<p>>
    BY <1>3, <1>9
  <2>2. QED
    BY <1>2, <1>4, <1>5, <1>6, <2>1
<1>10. QED
  BY <1>8, <1>9

(* The items of two sequences joined, as a set.                            *)
LEMMA RangeOfJoin ==
  ASSUME NEW S, NEW s \in Seq(S), NEW t \in Seq(S)
  PROVE  s \o t \in Seq(S) /\ Range(s \o t) = Range(s) \cup Range(t)
<1> DEFINE u == s \o t
<1>1. /\ u \in Seq(S) /\ Len(u) = Len(s) + Len(t) /\ Len(s) \in Nat /\ Len(t) \in Nat
      /\ \A j \in 1..Len(s) : u[j] = s[j]
      /\ \A j \in 1..Len(t) : u[Len(s) + j] = t[j]
  BY ConcatFacts
<1> HIDE DEF u
<1>2. ASSUME NEW x \in Range(u) PROVE x \in Range(s) \cup Range(t)
  <2>1. PICK i \in 1..Len(u) : u[i] = x
    BY <1>1, InRange
  <2>2. CASE i <= Len(s)
    <3>1. i \in 1..Len(s) /\ s[i] = x
      BY <1>1, <2>1, <2>2
    <3>2. QED
      BY <3>1, IsInRange
  <2>3. CASE i > Len(s)
    <3>1. i - Len(s) \in 1..Len(t) /\ Len(s) + (i - Len(s)) = i
      BY <1>1, <2>3
    <3>2. t[i - Len(s)] = x
      BY <1>1, <2>1, <3>1
    <3>3. t[i - Len(s)] \in Range(t)
      BY <3>1, IsInRange
    <3>4. QED
      BY <3>2, <3>3
  <2>4. QED
    BY <1>1, <2>2, <2>3
<1>3. ASSUME NEW x \in Range(s) PROVE x \in Range(u)
  <2>1. PICK i \in 1..Len(s) : s[i] = x
    BY InRange
  <2>2. i \in 1..Len(u) /\ u[i] = x
    BY <1>1, <2>1
  <2>3. QED
    BY <1>1, <2>2, IsInRange
<1>4. ASSUME NEW x \in Range(t) PROVE x \in Range(u)
  <2>1. PICK i \in 1..Len(t) : t[i] = x
    BY InRange
  <2>2. Len(s) + i \in 1..Len(u) /\ u[Len(s) + i] = x
    BY <1>1, <2>1
  <2>3. u[Len(s) + i] \in Range(u)
    BY <1>1, <2>2, IsInRange
  <2>4. QED
    BY <2>2, <2>3
<1>5. QED
  BY <1>1, <1>2, <1>3, <1>4 DEF u

(* A part that is right where it speaks leaves the map so.                   *)
LEMMA PartJoins ==
  ASSUME export \in Exports, NEW ps, NEW db, NEW c \in Int, Faithful(ps, db), Covers(ps, c),
         NEW lo \in Int, NEW hi \in Int, NEW s \in Shifts \cup {NoColumn}, lo <= c,
         \A h \in Channels \ db :
           h \in lo..hi => s = NoColumn \/ (s = TrueShift(h) /\ h # export.drop)
  PROVE  Faithful(ps \o Part(lo, hi, s), db) /\ Covers(ps \o Part(lo, hi, s), hi + 1)
<1> DEFINE q == Part(lo, hi, s)
<1>1. ps \in Seq(Pieces) /\ q \in Seq(Pieces)
  BY PartIs DEF Faithful
<1>2. /\ \A p \in Range(q) : p.lo = lo /\ p.hi = hi /\ p.shift = s
      /\ \A h \in lo..hi : \E p \in Range(q) : h \in p.lo..p.hi
  <2>1. \A p \in Range(Part(lo, hi, s)) : p.lo = lo /\ p.hi = hi /\ p.shift = s
    BY PartIs
  <2>2. \A h \in lo..hi : \E p \in Range(Part(lo, hi, s)) : h \in p.lo..p.hi
    BY PartIs
  <2>3. QED
    BY <2>1, <2>2
<1> HIDE DEF q
<1>3. ps \o q \in Seq(Pieces) /\ Range(ps \o q) = Range(ps) \cup Range(q)
  BY <1>1, RangeOfJoin
<1>4. Faithful(ps \o q, db)
  <2>1. ASSUME NEW p \in Range(ps \o q), NEW h \in Channels \ db, h \in p.lo..p.hi
        PROVE  p.shift = NoColumn \/ (p.shift = TrueShift(h) /\ h # export.drop)
    <3>1. CASE p \in Range(ps)
      BY <2>1, <3>1 DEF Faithful
    <3>2. CASE p \in Range(q)
      BY <1>2, <2>1, <3>2
    <3>3. QED
      BY <1>3, <3>1, <3>2
  <2>2. QED
    BY <1>3, <2>1 DEF Faithful
<1>5. Covers(ps \o q, hi + 1)
  <2>1. ASSUME NEW h \in Channels, h < hi + 1 PROVE \E p \in Range(ps \o q) : h \in p.lo..p.hi
    <3>1. h \in Int
      BY HeaderAssumption DEF Channels
    <3>2. CASE h < c
      BY <1>3, <3>2 DEF Covers
    <3>3. CASE h >= c
      <4>1. h \in lo..hi
        BY <2>1, <3>1, <3>3
      <4>2. QED
        BY <1>2, <1>3, <4>1
    <3>4. QED
      BY <3>1, <3>2, <3>3
  <2>2. QED
    BY <2>1 DEF Covers
<1>6. QED
  BY <1>4, <1>5 DEF q

(* The zones behind the first.                                             *)
LEMMA SpansAre ==
  ASSUME NEW zs \in Seq(Spans), Len(zs) > 1
  PROVE  /\ Tail(zs) \in Seq(Spans) /\ Len(Tail(zs)) = Len(zs) - 1
         /\ \A i \in 1..Len(zs) - 1 : Tail(zs)[i] = zs[i + 1]
         /\ zs[1].lo \in 0..NCH /\ zs[1].hi \in 0..NCH /\ zs[1].shift \in Shifts
         /\ zs[2].lo \in 0..NCH /\ zs[2].hi \in 0..NCH /\ zs[2].shift \in Shifts
<1>1. /\ zs # <<>> /\ Len(zs) \in Nat /\ 1 \in 1..Len(zs) /\ 2 \in 1..Len(zs)
  OBVIOUS
<1>2. zs[1] \in Spans /\ zs[2] \in Spans
  BY <1>1
<1>3. Tail(zs) \in Seq(Spans) /\ Len(Tail(zs)) = Len(zs) - 1 /\ \A i \in 1..Len(zs) - 1 : Tail(zs)[i] = zs[i + 1]
  BY <1>1
<1>4. QED
  BY <1>2, <1>3 DEF Spans

(* The report of a zone one less.                                            *)
LEMMA DropReported ==
  ASSUME export \in Exports, NEW zs, NEW ps, NEW c, NEW cs, NEW db, Reported(zs, ps, c, cs, db),
         Len(zs) > 1, zs[2].shift = zs[1].shift - 1, NEW bp,
         NEW gap, gap = zs[1].hi + 1..zs[2].lo, NEW more, more \subseteq gap,
         \/ bp = export.drop /\ export.drop \in gap
         \/ bp = zs[2].lo /\ more = gap
  PROVE  Reported(Tail(zs), ps \o Part(c, bp - 1, cs) \o Part(bp, bp, NoColumn), bp + 1, zs[2].shift,
                  db \cup more)
<1> DEFINE d == export.drop
           f == Begins
           a == zs[1]
           b == zs[2]
<1>1. /\ zs \in Seq(Spans) /\ c \in Nat /\ c >= 1 /\ Faithful(ps, db) /\ Covers(ps, c)
      /\ d = 0 => LeftUniform(zs, c, cs)
      /\ d # 0 => LeftDropped(zs, c, cs)
  BY DEF Reported
<1>2. /\ d \in 0..NCH /\ NCH \in Nat /\ export.front \in 0..2 /\ (d # 0 => f \in d + 1..NCH + 1)
  BY ExportFacts
<1>3. /\ Tail(zs) \in Seq(Spans) /\ Len(Tail(zs)) = Len(zs) - 1
      /\ \A i \in 1..Len(zs) - 1 : Tail(zs)[i] = zs[i + 1]
      /\ a.lo \in 0..NCH /\ a.hi \in 0..NCH /\ b.lo \in 0..NCH /\ b.hi \in 0..NCH
  BY <1>1, SpansAre
<1>4. /\ d # 0 /\ cs = 0 /\ c = 1 /\ a.shift = 0 /\ a.hi < d /\ InRun(b) /\ b.shift = -1
      /\ IF f <= NCH THEN Len(zs) = 3 /\ InTail(zs[3]) ELSE Len(zs) = 2
  <2>1. d # 0
    <3>1. SUFFICES ASSUME d = 0 PROVE FALSE
      OBVIOUS
    <3>2. a.shift = 0 /\ b.shift = export.front
      BY <1>1, <3>1 DEF LeftUniform
    <3>3. QED
      BY <1>2, <3>2
  <2>2. LeftDropped(zs, c, cs)
    BY <1>1, <2>1
  <2>3. ~(cs = -1 /\ InRun(a) /\ IF f <= NCH THEN Len(zs) = 2 /\ InTail(b) ELSE Len(zs) = 1)
    BY DEF InRun, InTail
  <2>4. QED
    BY <2>1, <2>2, <2>3 DEF LeftDropped, InRun
<1>5. b.lo \in d + 1..f - 1 /\ b.hi \in d + 1..f - 1 /\ b.lo > d /\ b.lo <= NCH
  BY <1>2, <1>4 DEF InRun
<1>6. bp \in d..f - 1 /\ bp \in Int /\ bp >= 1
  BY <1>2, <1>4, <1>5
<1> DEFINE db2 == db \cup more
<1>7. Faithful(ps, db2)
  BY <1>1 DEF Faithful
<1>8. ASSUME NEW h \in Channels \ db2, h \in c..bp - 1
      PROVE  cs = NoColumn \/ (cs = TrueShift(h) /\ h # d)
  <2>1. h \in Nat /\ h \in Channels
    BY DEF Channels
  <2>2. h < d
    <3>1. CASE bp = d
      BY <1>2, <1>8, <2>1, <3>1
    <3>2. CASE bp = b.lo /\ more = gap
      <4>1. h \notin a.hi + 1..b.lo
        BY <1>8, <3>2
      <4>2. h <= b.lo
        BY <1>5, <1>8, <2>1, <3>2
      <4>3. h < a.hi + 1
        BY <1>3, <2>1, <4>1, <4>2
      <4>4. QED
        BY <1>2, <1>3, <1>4, <2>1, <4>3
    <3>3. QED
      BY <3>1, <3>2
  <2>3. TrueShift(h) = 0
    BY <1>4, <2>1, <2>2, TrueShiftIs
  <2>4. QED
    BY <1>2, <1>4, <2>1, <2>2, <2>3
<1> HIDE DEF db2
<1> DEFINE ps1 == ps \o Part(c, bp - 1, cs)
<1>9. Faithful(ps1, db2) /\ Covers(ps1, bp - 1 + 1)
  <2>1. c \in Int /\ bp - 1 \in Int /\ c <= c /\ cs \in Shifts \cup {NoColumn}
    BY <1>1, <1>4, <1>6 DEF Shifts
  <2>2. QED
    BY <1>1, <1>7, <1>8, <2>1, PartJoins
<1>10. bp - 1 + 1 = bp
  BY <1>6
<1> HIDE DEF ps1
<1> DEFINE ps2 == ps1 \o Part(bp, bp, NoColumn)
<1>11. Faithful(ps2, db2) /\ Covers(ps2, bp + 1)
  <2>1. bp \in Int /\ bp <= bp /\ NoColumn \in Shifts \cup {NoColumn} /\ Covers(ps1, bp)
    BY <1>6, <1>9, <1>10
  <2>2. QED
    BY <1>9, <2>1, PartJoins
<1> HIDE DEF ps2
<1>12. LeftDropped(Tail(zs), bp + 1, b.shift)
  <2>1. bp + 1 > d
    BY <1>2, <1>6
  <2>2. Tail(zs)[1] = zs[2]
    <3>1. 1 \in 1..Len(zs) - 1 /\ 1 + 1 = 2
      BY <1>1
    <3>2. QED
      BY <1>3, <3>1
  <2>3. CASE f <= NCH
    <3>1. Len(zs) = 3 /\ InTail(zs[3])
      BY <1>4, <2>3
    <3>2. Len(Tail(zs)) = 2 /\ Tail(zs)[2] = zs[3]
      <4>1. 2 \in 1..Len(zs) - 1 /\ 2 + 1 = 3 /\ Len(zs) - 1 = 2
        BY <3>1
      <4>2. Tail(zs)[2] = zs[2 + 1]
        BY <1>3, <4>1
      <4>3. QED
        BY <1>3, <4>1, <4>2
    <3>3. QED
      BY <1>4, <2>1, <2>2, <2>3, <3>1, <3>2 DEF LeftDropped
  <2>4. CASE ~(f <= NCH)
    <3>1. Len(zs) = 2
      BY <1>4, <2>4
    <3>2. Len(Tail(zs)) = 1
      BY <1>3, <3>1
    <3>3. QED
      BY <1>4, <2>1, <2>2, <2>4, <3>2 DEF LeftDropped
  <2>5. QED
    BY <2>3, <2>4
<1>13. bp + 1 \in Nat /\ bp + 1 >= 1
  BY <1>6
<1>14. Reported(Tail(zs), ps2, bp + 1, b.shift, db2)
  BY <1>3, <1>4, <1>11, <1>12, <1>13 DEF Reported
<1>15. QED
  BY <1>14 DEF ps2, ps1, db2

(* The filler's own place is one of those the report takes for it.           *)
LEMMA FillerIsDead ==
  ASSUME export \in Exports, export.drop # 0, export.drop + 1 < Begins, Begins <= NCH
  PROVE  ColumnShape(Begins - 1) = "dead"
<1> DEFINE c == Begins - 1
<1>1. export.drop \in Nat /\ Begins \in Nat /\ NCH \in Nat /\ c \in Nat
  BY ExportFacts
<1>2. ASSUME NEW h \in Channels PROVE OwnColumn(h) # c
  <2>1. h \in Nat
    BY DEF Channels
  <2>2. CASE h = export.drop
    BY <1>1, <2>2 DEF OwnColumn, NoColumn
  <2>3. CASE h # export.drop
    <3>1. OwnColumn(h) = h + TrueShift(h)
      BY <2>3 DEF OwnColumn
    <3>2. \/ h < Begins - 1 /\ h < export.drop /\ TrueShift(h) = 0
          \/ h < Begins /\ TrueShift(h) = -1
          \/ h >= Begins /\ TrueShift(h) = 0
      BY <1>1, <2>1, <2>3, TrueShiftIs
    <3>3. QED
      BY <1>1, <2>1, <3>1, <3>2
  <2>4. QED
    BY <2>2, <2>3
<1>3. {h \in Channels : OwnColumn(h) = c} = {}
  BY <1>2
<1>4. QED
  BY <1>3, Zenon DEF ColumnShape

(* A filler column reported: the places it may have had are in doubt.      *)
LEMMA FillerReported ==
  ASSUME export \in Exports, NEW zs, NEW ps, NEW c, NEW cs, NEW db, Reported(zs, ps, c, cs, db),
         export.drop # 0 => export.drop + 1 < Begins,
         Len(zs) > 1, zs[2].shift = zs[1].shift + 1,
         NEW dead, dead = DeadBefore(zs[1].hi + 1..zs[2].lo),
         NEW cands, cands = IF dead = {} THEN {zs[2].lo} ELSE dead
  PROVE  Reported(Tail(zs), ps \o Part(c, Min(cands) - 1, cs) \o Part(Min(cands), Max(cands) - 1, NoColumn),
                  Max(cands), zs[2].shift, db)
<1> DEFINE d == export.drop
           f == Begins
           a == zs[1]
           b == zs[2]
           lo == Min(cands)
           hi == Max(cands)
<1>1. /\ zs \in Seq(Spans) /\ c \in Nat /\ c >= 1 /\ Faithful(ps, db) /\ Covers(ps, c)
      /\ d = 0 => LeftUniform(zs, c, cs)
      /\ d # 0 => LeftDropped(zs, c, cs)
  BY DEF Reported
<1>2. /\ d \in 0..NCH /\ NCH \in Nat /\ export.front \in 0..2 /\ (d # 0 => f \in d + 1..NCH + 1)
  BY ExportFacts
<1>3. /\ Tail(zs) \in Seq(Spans) /\ Len(Tail(zs)) = Len(zs) - 1
      /\ \A i \in 1..Len(zs) - 1 : Tail(zs)[i] = zs[i + 1]
      /\ a.lo \in 0..NCH /\ a.hi \in 0..NCH /\ b.lo \in 0..NCH /\ b.hi \in 0..NCH
  BY <1>1, SpansAre
<1>4. dead = {F \in a.hi + 1..b.lo : F = 1 \/ ColumnShape(F - 1) = "dead"}
  BY DEF DeadBefore
<1>5. CASE d = 0
  <2>1. /\ Len(zs) = 2 /\ cs = 0 /\ c = 1 /\ export.front # 0 /\ a.shift = 0 /\ a.hi = 0
        /\ b.shift = export.front /\ b.lo \in Channels
    <3>1. Len(zs) # 1
      OBVIOUS
    <3>2. QED
      BY <1>1, <1>5, <3>1 DEF LeftUniform
  <2>2. b.lo \in Nat /\ b.lo >= 1
    BY <2>1 DEF Channels
  <2>3. 1 \in dead
    <3>1. 1 \in a.hi + 1..b.lo
      BY <2>1, <2>2
    <3>2. QED
      BY <1>4, <3>1
  <2>4. cands = dead /\ cands # {} /\ cands \subseteq 0..NCH /\ \A F \in cands : F >= 1
    <3>1. cands = dead
      BY <2>3
    <3>2. \A F \in a.hi + 1..b.lo : F \in 0..NCH /\ F >= 1
      BY <1>2, <1>3, <2>1
    <3>3. QED
      BY <1>4, <2>3, <3>1, <3>2
  <2>5. lo \in cands /\ hi \in cands /\ lo <= 1
    <3>1. /\ Min(cands) \in cands /\ \A x \in cands : Min(cands) <= x
          /\ Max(cands) \in cands
      BY <1>2, <2>4, MinMaxAre
    <3>2. QED
      BY <2>3, <2>4, <3>1
  <2> HIDE DEF lo, hi
  <2>6. lo = 1 /\ hi \in Nat /\ hi >= 1
    BY <1>2, <2>4, <2>5
  <2> DEFINE ps1 == ps \o Part(c, lo - 1, cs)
             ps2 == ps1 \o Part(lo, hi - 1, NoColumn)
  <2>7. Faithful(ps1, db) /\ Covers(ps1, lo - 1 + 1)
    <3>1. c \in Int /\ lo - 1 \in Int /\ c <= c /\ cs \in Shifts \cup {NoColumn}
      BY <1>1, <2>1, <2>6 DEF Shifts
    <3>2. \A h \in Channels \ db : h \in c..lo - 1 => cs = NoColumn \/ (cs = TrueShift(h) /\ h # d)
      BY <2>1, <2>6
    <3>3. QED
      BY <1>1, <3>1, <3>2, PartJoins
  <2> HIDE DEF ps1
  <2>8. Faithful(ps2, db) /\ Covers(ps2, hi - 1 + 1)
    <3>1. lo - 1 + 1 = lo /\ lo \in Int /\ lo <= lo /\ hi - 1 \in Int /\ NoColumn \in Shifts \cup {NoColumn}
      BY <2>6
    <3>2. Covers(ps1, lo)
      BY <2>7, <3>1
    <3>3. QED
      BY <2>7, <3>1, <3>2, PartJoins
  <2> HIDE DEF ps2
  <2>9. hi - 1 + 1 = hi /\ Len(Tail(zs)) = 1
    BY <1>3, <2>1, <2>6
  <2>10. Reported(Tail(zs), ps2, hi, b.shift, db)
    BY <1>3, <1>5, <2>1, <2>6, <2>8, <2>9 DEF Reported, LeftUniform
  <2>11. QED
    BY <2>10 DEF ps2, ps1, lo, hi
<1>6. CASE d # 0
  <2>1. /\ cs = -1 /\ c > d /\ InRun(a) /\ f <= NCH /\ Len(zs) = 2 /\ InTail(b)
    <3>1. LeftDropped(zs, c, cs)
      BY <1>1, <1>6
    <3>2. ~(a.shift = 0 /\ InRun(b))
      BY DEF InRun
    <3>3. Len(zs) # 1
      OBVIOUS
    <3>4. QED
      BY <3>1, <3>2, <3>3 DEF LeftDropped
  <2>2. a.hi \in d + 1..f - 1 /\ b.lo \in f..NCH /\ b.shift = 0
    BY <2>1 DEF InRun, InTail
  <2>3. f \in dead
    <3>1. f \in a.hi + 1..b.lo
      BY <1>2, <1>3, <1>6, <2>2
    <3>2. ColumnShape(f - 1) = "dead"
      BY <1>6, <2>1, FillerIsDead
    <3>3. QED
      BY <1>4, <3>1, <3>2
  <2>4. cands = dead /\ cands # {} /\ cands \subseteq 0..NCH
    <3>1. cands = dead
      BY <2>3
    <3>2. \A F \in a.hi + 1..b.lo : F \in 0..NCH
      BY <1>2, <1>3, <1>6
    <3>3. QED
      BY <1>4, <2>3, <3>1, <3>2
  <2>5. lo \in 0..NCH /\ hi \in 0..NCH /\ lo <= f /\ f <= hi
    <3>1. /\ Min(cands) \in cands /\ \A x \in cands : Min(cands) <= x
          /\ Max(cands) \in cands /\ \A x \in cands : x <= Max(cands)
      BY <1>2, <2>4, MinMaxAre
    <3>2. QED
      BY <2>3, <2>4, <3>1
  <2> HIDE DEF lo, hi
  <2>6. lo \in Int /\ hi \in Nat /\ hi >= 1 /\ f \in Nat /\ d \in Nat
    BY <1>2, <1>6, <2>5
  <2> DEFINE ps1 == ps \o Part(c, lo - 1, cs)
             ps2 == ps1 \o Part(lo, hi - 1, NoColumn)
  <2>7. Faithful(ps1, db) /\ Covers(ps1, lo - 1 + 1)
    <3>1. c \in Int /\ lo - 1 \in Int /\ c <= c /\ cs \in Shifts \cup {NoColumn}
      BY <1>1, <2>1, <2>6 DEF Shifts
    <3>2. ASSUME NEW h \in Channels \ db, h \in c..lo - 1
          PROVE  cs = NoColumn \/ (cs = TrueShift(h) /\ h # d)
      <4>1. h \in Channels /\ h \in Nat /\ h > d /\ h < f
        BY <1>1, <2>1, <2>5, <2>6, <3>2 DEF Channels
      <4>2. TrueShift(h) = -1
        BY <1>6, <4>1, TrueShiftIs
      <4>3. QED
        BY <2>1, <2>6, <4>1, <4>2
    <3>3. QED
      BY <1>1, <3>1, <3>2, PartJoins
  <2> HIDE DEF ps1
  <2>8. Faithful(ps2, db) /\ Covers(ps2, hi - 1 + 1)
    <3>1. lo - 1 + 1 = lo /\ lo \in Int /\ lo <= lo /\ hi - 1 \in Int /\ NoColumn \in Shifts \cup {NoColumn}
      BY <2>6
    <3>2. Covers(ps1, lo)
      BY <2>7, <3>1
    <3>3. QED
      BY <2>7, <3>1, <3>2, PartJoins
  <2> HIDE DEF ps2
  <2>9. hi - 1 + 1 = hi /\ Len(Tail(zs)) = 1 /\ hi >= f
    BY <1>3, <2>1, <2>5, <2>6
  <2>10. LeftDropped(Tail(zs), hi, b.shift)
    BY <2>2, <2>9 DEF LeftDropped
  <2>11. Reported(Tail(zs), ps2, hi, b.shift, db)
    BY <1>3, <1>6, <2>6, <2>8, <2>9, <2>10 DEF Reported
  <2>12. QED
    BY <2>11 DEF ps2, ps1, lo, hi
<1>7. QED
  BY <1>5, <1>6

(* The last part completes the map.                                          *)
LEMMA MapComplete ==
  ASSUME export \in Exports, NEW zs, NEW ps, NEW c, NEW cs, NEW db, Reported(zs, ps, c, cs, db), Len(zs) = 1
  PROVE  Faithful(ps \o Part(c, NCH, cs), db) /\ Covers(ps \o Part(c, NCH, cs), NCH + 1)
<1> DEFINE d == export.drop
           f == Begins
<1>1. /\ zs \in Seq(Spans) /\ c \in Nat /\ c >= 1 /\ Faithful(ps, db) /\ Covers(ps, c)
      /\ d = 0 => LeftUniform(zs, c, cs)
      /\ d # 0 => LeftDropped(zs, c, cs)
  BY DEF Reported
<1>2. /\ d \in 0..NCH /\ NCH \in Nat /\ export.front \in 0..2 /\ (d # 0 => f \in d + 1..NCH + 1)
  BY ExportFacts
<1>3. d = 0 => cs = export.front
  BY <1>1 DEF LeftUniform
<1>4. d # 0 => (cs = -1 /\ c > d /\ ~(f <= NCH)) \/ (cs = 0 /\ c >= f)
  BY <1>1 DEF LeftDropped
<1>5. cs \in Shifts \cup {NoColumn} /\ c \in Int /\ NCH \in Int /\ c <= c
  BY <1>1, <1>2, <1>3, <1>4 DEF Shifts
<1>6. ASSUME NEW h \in Channels \ db, h \in c..NCH
      PROVE  cs = NoColumn \/ (cs = TrueShift(h) /\ h # d)
  <2>1. h \in Channels /\ h \in Nat /\ h >= c /\ h <= NCH /\ h >= 1
    BY <1>1, <1>2, <1>6 DEF Channels
  <2>2. CASE d = 0
    <3>1. TrueShift(h) = export.front
      BY <2>1, <2>2, TrueShiftIs
    <3>2. QED
      BY <1>3, <2>1, <2>2, <3>1
  <2>3. CASE d # 0
    <3>1. f \in Nat /\ d \in Nat /\ d < f
      BY <1>2, <2>3
    <3>2. CASE cs = -1 /\ c > d /\ ~(f <= NCH)
      <4>1. h > d /\ h < f
        BY <1>1, <1>2, <2>1, <3>1, <3>2
      <4>2. TrueShift(h) = -1
        BY <2>1, <2>3, <4>1, TrueShiftIs
      <4>3. QED
        BY <3>1, <3>2, <2>1, <4>1, <4>2
    <3>3. CASE cs = 0 /\ c >= f
      <4>1. h >= f /\ h # d
        BY <1>1, <2>1, <3>1, <3>3
      <4>2. TrueShift(h) = 0
        BY <2>1, <2>3, <4>1, TrueShiftIs
      <4>3. QED
        BY <3>3, <4>1, <4>2
    <3>4. QED
      BY <1>4, <2>3, <3>2, <3>3
  <2>4. QED
    BY <2>2, <2>3
<1>7. QED
  BY <1>1, <1>5, <1>6, PartJoins

(* No vote is mistaken, and each zone of the file has one: what            *)
(* ReadsOwnColumn asks of the export.                                      *)
Legible == Honest(Votes) /\ Observed(Votes)

(* The inductive invariant of the reader.                                  *)
TapInv ==
  /\ phase \in {"none", "anchors", "zones", "report", "suggested"}
  /\ phase # "none" => export \in Exports
  /\ phase \in {"anchors", "zones"} =>
       parts = <<>> /\ cur = 1 /\ cur_shift = 0 /\ doubt = {} /\ ~warned
  /\ phase = "zones" => (Legible => Fits(votes, zones))
  /\ phase = "report" => (~warned /\ Legible => Reported(zones, parts, cur, cur_shift, doubt))
  /\ phase = "suggested" => (~warned /\ Legible =>
       \/ parts = <<>> /\ export.drop = 0 /\ ~Ambiguous
       \/ Faithful(parts, doubt) /\ Covers(parts, NCH + 1))

(* The file stays what it is.                                                *)
LEMMA SameShape ==
  ASSUME UNCHANGED export
  PROVE  /\ \A h : TrueShift(h)' = TrueShift(h)
         /\ \A c : ColumnShape(c)' = ColumnShape(c)
         /\ Columns' = Columns /\ Begins' = Begins
<1>1. \A h : TrueShift(h)' = TrueShift(h)
  BY DEF TrueShift, Bit
<1>2. \A h : OwnColumn(h)' = OwnColumn(h)
  BY <1>1 DEF OwnColumn
<1>3. ASSUME NEW c PROVE ColumnShape(c)' = ColumnShape(c)
  <2> DEFINE own == {h \in Channels : OwnColumn(h) = c}
             first == CHOOSE h \in own : TRUE
  <2>1. own' = own
    BY <1>2
  <2>2. first' = first
    BY <2>1, Zenon
  <2>3. ColumnShape(c) = IF own = {} THEN "dead" ELSE Shape[export.kind[first]]
    BY DEF ColumnShape
  <2> HIDE DEF first, own
  <2>4. ColumnShape(c)' = IF own' = {} THEN "dead" ELSE Shape[export'.kind[first']]
    BY Zenon DEF ColumnShape, own, first
  <2>5. QED
    BY <2>1, <2>2, <2>3, <2>4
<1>4. Columns' = Columns /\ Begins' = Begins
  BY DEF Columns, Begins
<1>5. QED
  BY <1>1, <1>3, <1>4

(* So its votes are the same.                                              *)
LEMMA SameVotes ==
  ASSUME UNCHANGED export
  PROVE  Votes' = Votes
<1>1. ASSUME NEW h \in Channels PROVE PulseVote(h)' = PulseVote(h)
  <2>1. \A c : ColumnShape(c)' = ColumnShape(c)
    BY SameShape
  <2>2. QED
    BY <2>1, Zenon DEF PulseVote
<1>2. ASSUME NEW h \in Channels PROVE GroupVote(h)' = GroupVote(h)
  <2>1. \A c : TrueShift(c)' = TrueShift(c)
    BY SameShape
  <2>2. QED
    BY <2>1, Zenon DEF GroupVote
<1>3. [h \in Channels |-> PulseVote(h) \o GroupVote(h)]' = [h \in Channels |-> PulseVote(h) \o GroupVote(h)]
  BY <1>1, <1>2
<1>4. QED
  BY <1>3 DEF Votes

(* And what is said of it.                                                 *)
LEMMA SameReading ==
  ASSUME UNCHANGED export
  PROVE  /\ Legible' <=> Legible
         /\ Ambiguous' <=> Ambiguous
         /\ \A vs, zs : Fits(vs, zs)' <=> Fits(vs, zs)
         /\ \A ps, db : Faithful(ps, db)' <=> Faithful(ps, db)
         /\ \A zs, ps, c, cs, db : Reported(zs, ps, c, cs, db)' <=> Reported(zs, ps, c, cs, db)
<1>1. /\ \A h : TrueShift(h)' = TrueShift(h)
      /\ Columns' = Columns /\ Begins' = Begins /\ Votes' = Votes
  BY SameShape, SameVotes
<1>2. \A vs : Honest(vs)' <=> Honest(vs)
  BY <1>1, Zenon DEF Honest
<1>3. \A vs : Observed(vs)' <=> Observed(vs)
  BY Zenon DEF Observed
<1>4. Legible' <=> Legible
  BY <1>1, <1>2, <1>3, Zenon DEF Legible
<1>5. Ambiguous' <=> Ambiguous
  <2>1. \A s : Score(s)' = Score(s)
    <3>1. \A s : Structural(s)' = Structural(s)
      BY <1>1, Zenon DEF Structural
    <3>2. \A s : Validity(s)' = Validity(s)
      BY <1>1, Zenon DEF Validity
    <3>3. \A s : Evidence(s)' = Evidence(s)
      BY Zenon DEF Evidence
    <3>4. QED
      BY <3>1, <3>2, <3>3, Zenon DEF Score
  <2>2. \A S : BestOf(S)' = BestOf(S)
    BY <2>1, Zenon DEF BestOf
  <2>3. Chosen' = Chosen
    BY <2>2, Zenon DEF Chosen
  <2>4. QED
    BY <1>1, <2>1, <2>2, <2>3, Zenon DEF Ambiguous
<1>6. (\A z : InRun(z)' <=> InRun(z)) /\ (\A z : InTail(z)' <=> InTail(z))
  BY <1>1, Zenon DEF InRun, InTail
<1>7. \A vs, zs : Fits(vs, zs)' <=> Fits(vs, zs)
  <2>1. \A zs : FitsUniform(zs)' <=> FitsUniform(zs)
    BY Zenon DEF FitsUniform
  <2>2. \A vs, zs : FitsDropped(vs, zs)' <=> FitsDropped(vs, zs)
    BY <1>1, <1>6, ZenonT(30) DEF FitsDropped
  <2>3. QED
    BY <1>1, <1>2, <2>1, <2>2, Zenon DEF Fits
<1>8. \A ps, db : Faithful(ps, db)' <=> Faithful(ps, db)
  BY <1>1, Zenon DEF Faithful
<1>9. \A zs, ps, c, cs, db : Reported(zs, ps, c, cs, db)' <=> Reported(zs, ps, c, cs, db)
  <2>1. \A zs, c, cs : LeftUniform(zs, c, cs)' <=> LeftUniform(zs, c, cs)
    BY Zenon DEF LeftUniform
  <2>2. \A zs, c, cs : LeftDropped(zs, c, cs)' <=> LeftDropped(zs, c, cs)
    <3>1. ASSUME NEW zs, NEW c, NEW cs PROVE LeftDropped(zs, c, cs)' <=> LeftDropped(zs, c, cs)
      BY <1>1, <1>6 DEF LeftDropped
    <3>2. QED
      BY <3>1
  <2>3. ASSUME NEW zs, NEW ps, NEW c, NEW cs, NEW db
        PROVE  Reported(zs, ps, c, cs, db)' <=> Reported(zs, ps, c, cs, db)
    <3>1. Covers(ps, c)' <=> Covers(ps, c)
      BY DEF Covers
    <3>2. QED
      BY <1>8, <2>1, <2>2, <3>1 DEF Reported
  <2>4. QED
    BY <2>3
<1>10. QED
  BY <1>4, <1>5, <1>7, <1>8, <1>9

(* The invariant holds at the start.                                       *)
LEMMA TapStart ==
  ASSUME TapIdle \/ TapInit
  PROVE  TapInv
<1>1. phase \in {"none", "anchors"} /\ (phase = "anchors" => export \in Exports)
      /\ parts = <<>> /\ cur = 1 /\ cur_shift = 0 /\ doubt = {} /\ ~warned
  BY DEF TapIdle, TapInit
<1>2. QED
  BY <1>1 DEF TapInv

(* Collecting the votes keeps it.                                          *)
LEMMA AnchorsStep ==
  ASSUME TapInv, Anchors
  PROVE  TapInv'
<1> DEFINE z == [lo |-> 0, hi |-> 0, shift |-> 0]
           d == export.drop
           f == Begins
<1>1. /\ phase = "anchors" /\ phase' = "zones" /\ votes' = Votes /\ zones' = <<z>>
      /\ UNCHANGED <<export, parts, cur, cur_shift, doubt, warned>>
  BY DEF Anchors
<1>2. export \in Exports /\ parts = <<>> /\ cur = 1 /\ cur_shift = 0 /\ doubt = {} /\ ~warned
  BY <1>1 DEF TapInv
<1>3. NCH \in Nat /\ d \in 0..NCH /\ z \in Spans /\ z.shift = 0 /\ z.hi = 0
  BY <1>2, ExportFacts DEF Spans, Shifts
<1> HIDE DEF z
<1>4. <<z>> \in Seq(Spans) /\ Len(<<z>>) = 1 /\ <<z>>[1] = z
  BY <1>3
<1>5. ASSUME Legible PROVE Fits(votes', zones')
  <2>1. HeaderOrder(Votes) /\ Honest(Votes) /\ Observed(Votes)
    BY <1>2, <1>5, VotesInOrder DEF Legible
  <2>2. FitsUniform(<<z>>)
    BY <1>3, <1>4 DEF FitsUniform
  <2>3. ASSUME d # 0 PROVE d + 1 < f /\ FitsDropped(Votes, <<z>>)
    <3>1. d + 1 < f /\ SeenIn(Votes, d + 1..f - 1) /\ SeenIn(Votes, f..NCH)
      BY <2>1, <2>3, Zenon DEF Observed, Begins
    <3>2. <<z>>[1].hi < d /\ Len(<<z>>) \in 1..3 /\ ~(Len(<<z>>) >= 2) /\ Len(<<z>>) # 3 /\ <<z>>[1].shift = 0
      BY <1>3, <1>4, <2>3
    <3>3. QED
      BY <3>1, <3>2 DEF FitsDropped
  <2>4. QED
    BY <1>1, <1>4, <2>1, <2>2, <2>3 DEF Fits
<1>6. Legible' => Fits(votes, zones)'
  BY <1>1, <1>5, SameReading
<1>7. QED
  BY <1>1, <1>2, <1>6 DEF TapInv

(* Fitting one keeps it.                                                   *)
LEMMA FitZoneStep ==
  ASSUME TapInv, FitZone
  PROVE  TapInv'
<1>1. /\ phase = "zones" /\ votes # <<>> /\ phase' = phase
      /\ zones' = Refitted(zones, Head(votes)) /\ votes' = Tail(votes)
      /\ UNCHANGED <<export, parts, cur, cur_shift, doubt, warned>>
  BY Zenon DEF FitZone, Refitted
<1>2. /\ export \in Exports /\ parts = <<>> /\ cur = 1 /\ cur_shift = 0 /\ doubt = {} /\ ~warned
      /\ Legible => Fits(votes, zones)
  BY <1>1 DEF TapInv
<1>3. Legible => Fits(votes', zones')
  BY <1>1, <1>2, FitsOneMore
<1>4. Legible' => Fits(votes, zones)'
  BY <1>1, <1>3, SameReading
<1>5. QED
  BY <1>1, <1>2, <1>4 DEF TapInv

(* No vote is left: what the zones say of the file.                          *)
LEMMA AllFitted ==
  ASSUME export \in Exports, Fits(<<>>, zones)
  PROVE  /\ Len(zones) = 1 => export.drop = 0
         /\ Len(zones) # 1 => Reported(zones, <<>>, 1, 0, {})
<1> DEFINE d == export.drop
           f == Begins
<1>1. /\ zones \in Seq(Spans) /\ (d = 0 => FitsUniform(zones))
      /\ d # 0 => d + 1 < f /\ FitsDropped(<<>>, zones)
  BY DEF Fits
<1>2. d \in 0..NCH /\ NCH \in Nat /\ (d # 0 => f \in d + 1..NCH + 1)
  BY ExportFacts
<1>3. <<>> \in Seq(Pieces) /\ Len(<<>>) = 0 /\ Range(<<>>) = {}
  BY DEF Range
<1>4. \A S : SeenIn(<<>>, S) => S = {}
  BY <1>3 DEF SeenIn
<1>5. ASSUME d # 0
      PROVE  /\ Len(zones) \in 2..3 /\ zones[1].shift = 0 /\ zones[1].hi < d /\ InRun(zones[2])
             /\ Len(zones) = 3 => InTail(zones[3])
             /\ f <= NCH => Len(zones) = 3
  <2>1. d + 1 \in d + 1..f - 1 /\ (f <= NCH => f \in f..NCH)
    BY <1>1, <1>2, <1>5
  <2>2. Len(zones) \in 1..3 /\ (Len(zones) >= 2 \/ SeenIn(<<>>, d + 1..f - 1))
    BY <1>1, <1>5 DEF FitsDropped
  <2>3. Len(zones) >= 2
    BY <1>4, <2>1, <2>2
  <2>4. f <= NCH => Len(zones) = 3
    <3>1. f <= NCH => Len(zones) = 3 \/ SeenIn(<<>>, f..NCH)
      BY <1>1, <1>5 DEF FitsDropped
    <3>2. QED
      BY <1>4, <2>1, <3>1
  <2>5. QED
    BY <1>1, <1>5, <2>2, <2>3, <2>4 DEF FitsDropped
<1>6. Len(zones) = 1 => d = 0
  BY <1>5
<1>7. ASSUME Len(zones) # 1 PROVE Reported(zones, <<>>, 1, 0, {})
  <2>1. Faithful(<<>>, {})
    BY <1>3 DEF Faithful
  <2>2. Covers(<<>>, 1)
    BY DEF Covers, Channels
  <2>3. ASSUME d = 0 PROVE LeftUniform(zones, 1, 0)
    BY <1>1, <1>7, <2>3 DEF FitsUniform, LeftUniform
  <2>4. ASSUME d # 0 PROVE LeftDropped(zones, 1, 0)
    <3>1. CASE f <= NCH
      BY <1>5, <2>4, <3>1 DEF LeftDropped
    <3>2. CASE ~(f <= NCH)
      <4>1. Len(zones) # 3
        <5>1. SUFFICES ASSUME Len(zones) = 3 PROVE FALSE
          OBVIOUS
        <5>2. zones[3].lo \in f..NCH
          BY <1>5, <2>4, <5>1 DEF InTail
        <5>3. QED
          BY <1>2, <2>4, <3>2, <5>2
      <4>2. Len(zones) = 2
        BY <1>5, <2>4, <4>1
      <4>3. QED
        BY <1>5, <2>4, <3>2, <4>2 DEF LeftDropped
    <3>3. QED
      BY <3>1, <3>2
  <2>5. QED
    BY <1>1, <2>1, <2>2, <2>3, <2>4 DEF Reported
<1>8. QED
  BY <1>6, <1>7

(* The verdict keeps it.                                                   *)
LEMMA VerdictStep ==
  ASSUME TapInv, Verdict
  PROVE  TapInv'
<1>1. /\ phase = "zones" /\ votes = <<>>
      /\ phase' = IF Len(zones) = 1 THEN "suggested" ELSE "report"
      /\ warned' = (Len(zones) = 1 /\ Ambiguous)
      /\ UNCHANGED <<export, votes, zones, parts, cur, cur_shift, doubt>>
  BY DEF Verdict
<1>2. /\ export \in Exports /\ parts = <<>> /\ cur = 1 /\ cur_shift = 0 /\ doubt = {}
      /\ Legible => Fits(votes, zones)
  BY <1>1 DEF TapInv
<1>3. /\ Legible' <=> Legible
      /\ Ambiguous' <=> Ambiguous
      /\ \A zs, ps, c, cs, db : Reported(zs, ps, c, cs, db)' <=> Reported(zs, ps, c, cs, db)
  BY <1>1, SameReading
<1>4. CASE Len(zones) = 1
  <2>1. phase' = "suggested" /\ (~warned' => ~Ambiguous)
    BY <1>1, <1>4, Zenon
  <2>2. Legible => export.drop = 0
    BY <1>1, <1>2, <1>4, AllFitted
  <2>3. ~warned' /\ Legible' => parts' = <<>> /\ export'.drop = 0 /\ ~Ambiguous'
    BY <1>1, <1>2, <1>3, <2>1, <2>2
  <2>4. QED
    BY <1>1, <1>2, <2>1, <2>3 DEF TapInv
<1>5. CASE Len(zones) # 1
  <2>1. phase' = "report"
    BY <1>1, <1>5
  <2>2. Legible => Reported(zones', parts', cur', cur_shift', doubt')
    BY <1>1, <1>2, <1>5, AllFitted
  <2>3. Legible' => Reported(zones, parts, cur, cur_shift, doubt)'
    BY <1>3, <2>2
  <2>4. QED
    BY <1>1, <1>2, <2>1, <2>3 DEF TapInv
<1>6. QED
  BY <1>4, <1>5

(* A step of the report keeps it when the report stays right.              *)
LEMMA ReportInv ==
  ASSUME TapInv, phase = "report", phase' = "report", UNCHANGED export,
         Legible /\ ~warned' => Reported(zones', parts', cur', cur_shift', doubt')
  PROVE  TapInv'
<1>1. export \in Exports
  BY DEF TapInv
<1>2. Legible' /\ ~warned' => Reported(zones, parts, cur, cur_shift, doubt)'
  BY SameReading
<1>3. QED
  BY <1>1, <1>2 DEF TapInv

(* A dropped column reported keeps it,                                     *)
LEMMA ReportDropStep ==
  ASSUME TapInv, NEW a, NEW b, ReportDrop(a, b)
  PROVE  TapInv'
<1> DEFINE gap == a.hi + 1..b.lo
           pinned == export.trigger /\ export.drop \in gap
           bp == IF pinned THEN export.drop ELSE b.lo
           more == IF pinned THEN {} ELSE gap
<1>1. /\ phase = "report" /\ Len(zones) > 1 /\ a = zones[1] /\ b = zones[2] /\ b.shift = a.shift - 1
      /\ parts' = parts \o Part(cur, bp - 1, cur_shift) \o Part(bp, bp, NoColumn)
      /\ cur' = bp + 1 /\ cur_shift' = b.shift
      /\ doubt' = IF pinned THEN doubt ELSE doubt \cup gap
      /\ zones' = Tail(zones) /\ phase' = "report"
      /\ UNCHANGED <<export, warned>>
  BY Zenon DEF ReportDrop, NextZones
<1>2. doubt' = doubt \cup more /\ more \subseteq gap
  BY <1>1
<1>3. \/ bp = export.drop /\ export.drop \in gap
      \/ bp = b.lo /\ more = gap
  OBVIOUS
<1>4. export \in Exports /\ (~warned /\ Legible => Reported(zones, parts, cur, cur_shift, doubt))
  BY <1>1 DEF TapInv
<1> HIDE DEF bp, more, pinned, gap
<1>5. ASSUME Reported(zones, parts, cur, cur_shift, doubt)
      PROVE  Reported(zones', parts', cur', cur_shift', doubt')
  <2>1. gap = zones[1].hi + 1..zones[2].lo
    BY <1>1 DEF gap
  <2>2. Reported(Tail(zones), parts \o Part(cur, bp - 1, cur_shift) \o Part(bp, bp, NoColumn), bp + 1,
                 zones[2].shift, doubt \cup more)
    BY <1>1, <1>2, <1>3, <1>4, <1>5, <2>1, DropReported
  <2>3. QED
    BY <1>1, <1>2, <2>2, Zenon
<1>6. QED
  BY <1>1, <1>4, <1>5, ReportInv

(* so does a filler column,                                                *)
LEMMA ReportFillerStep ==
  ASSUME TapInv, NEW a, NEW b, ReportFiller(a, b)
  PROVE  TapInv'
<1> DEFINE dead == DeadBefore(a.hi + 1..b.lo)
           cands == IF dead = {} THEN {b.lo} ELSE dead
<1>1. /\ phase = "report" /\ Len(zones) > 1 /\ a = zones[1] /\ b = zones[2] /\ b.shift = a.shift + 1
      /\ parts' = parts \o Part(cur, Min(cands) - 1, cur_shift) \o Part(Min(cands), Max(cands) - 1, NoColumn)
      /\ cur' = Max(cands) /\ cur_shift' = b.shift
      /\ zones' = Tail(zones) /\ phase' = "report"
      /\ UNCHANGED <<export, doubt, warned>>
  BY Zenon DEF ReportFiller, NextZones
<1>2. export \in Exports /\ (~warned /\ Legible => Reported(zones, parts, cur, cur_shift, doubt))
  BY <1>1 DEF TapInv
<1>3. dead = DeadBefore(zones[1].hi + 1..zones[2].lo)
  BY <1>1
<1>4. cands = IF dead = {} THEN {zones[2].lo} ELSE dead
  BY <1>1
<1> HIDE DEF dead, cands
<1>5. ASSUME Legible, export.drop # 0 PROVE export.drop + 1 < Begins
  BY <1>5, Zenon DEF Legible, Observed, Begins
<1>6. ASSUME Legible, Reported(zones, parts, cur, cur_shift, doubt)
      PROVE  Reported(zones', parts', cur', cur_shift', doubt')
  <2>1. Reported(Tail(zones), parts \o Part(cur, Min(cands) - 1, cur_shift)
                                    \o Part(Min(cands), Max(cands) - 1, NoColumn),
                 Max(cands), zones[2].shift, doubt)
    BY <1>1, <1>2, <1>3, <1>4, <1>5, <1>6, FillerReported
  <2>2. QED
    BY <1>1, <2>1, Zenon
<1>7. QED
  BY <1>1, <1>2, <1>6, ReportInv

(* and a jump, which warns the user.                                       *)
LEMMA ReportJumpStep ==
  ASSUME TapInv, NEW a, NEW b, ReportJump(a, b)
  PROVE  TapInv'
<1>1. phase = "report" /\ phase' = "report" /\ warned' = TRUE /\ UNCHANGED export
  BY DEF ReportJump, NextZones
<1>2. QED
  BY <1>1, ReportInv

(* The map suggested is complete.                                          *)
LEMMA SuggestStep ==
  ASSUME TapInv, Suggest
  PROVE  TapInv'
<1>1. /\ phase = "report" /\ Len(zones) = 1 /\ parts' = parts \o Part(cur, NCH, cur_shift)
      /\ phase' = "suggested" /\ UNCHANGED <<export, doubt, warned>>
  BY DEF Suggest
<1>2. export \in Exports /\ (~warned /\ Legible => Reported(zones, parts, cur, cur_shift, doubt))
  BY <1>1 DEF TapInv
<1>3. ~warned /\ Legible => Faithful(parts', doubt) /\ Covers(parts', NCH + 1)
  BY <1>1, <1>2, MapComplete
<1>4. ~warned' /\ Legible' => Faithful(parts, doubt)' /\ Covers(parts, NCH + 1)'
  <2>1. Covers(parts, NCH + 1)' <=> Covers(parts', NCH + 1)
    BY DEF Covers
  <2>2. QED
    BY <1>1, <1>3, <2>1, SameReading
<1>5. QED
  BY <1>1, <1>2, <1>4 DEF TapInv

(* Steps of the other tools do not matter.                                 *)
LEMMA TapSame == ASSUME TapInv, UNCHANGED tapVars PROVE TapInv'
<1>1. UNCHANGED <<export, phase, votes, zones, parts, cur, cur_shift, doubt, warned>>
  BY DEF tapVars
<1>2. /\ Legible' <=> Legible
      /\ Ambiguous' <=> Ambiguous
      /\ Fits(votes, zones)' <=> Fits(votes, zones)
      /\ Faithful(parts, doubt)' <=> Faithful(parts, doubt)
      /\ Covers(parts, NCH + 1)' <=> Covers(parts, NCH + 1)
      /\ Reported(zones, parts, cur, cur_shift, doubt)' <=> Reported(zones, parts, cur, cur_shift, doubt)
  BY <1>1, SameReading DEF Covers
<1>3. QED
  BY <1>1, <1>2 DEF TapInv

(* Every step keeps the invariant.                                         *)
LEMMA TapAlways == Spec => []TapInv
<1>1. Init => TapInv
  BY TapStart DEF Init
<1>2. TapInv /\ [Next]_vars => TapInv'
  <2> SUFFICES ASSUME TapInv, [Next]_vars PROVE TapInv'
    OBVIOUS
  <2>1. CASE TapNext
    BY <2>1, AnchorsStep, FitZoneStep, VerdictStep, SuggestStep, ReportDropStep, ReportFillerStep,
       ReportJumpStep DEF TapNext
  <2>2. CASE UNCHANGED tapVars
    BY <2>2, TapSame
  <2>3. QED
    BY <2>1, <2>2 DEF Next, vars
<1>3. QED
  BY <1>1, <1>2, PTL DEF Spec

(* The column the map yields.                                                *)
LEMMA MappedColumn ==
  ASSUME export \in Exports, Faithful(parts, doubt), Covers(parts, NCH + 1), NEW h \in Channels \ doubt
  PROVE  Cell(h) \in {OwnColumn(h), NoColumn}
<1> DEFINE I == {i \in 1..Len(parts) : h \in parts[i].lo..parts[i].hi}
<1>1. parts \in Seq(Pieces) /\ Len(parts) \in Nat /\ h \in Channels /\ h < NCH + 1
  BY HeaderAssumption DEF Faithful, Channels
<1>2. PICK p \in Range(parts) : h \in p.lo..p.hi
  BY <1>1 DEF Covers
<1>3. PICK i \in 1..Len(parts) : parts[i] = p
  BY <1>1, InRange
<1>4. i \in I /\ I \subseteq 0..Len(parts)
  BY <1>1, <1>2, <1>3
<1>5. Max(I) \in I
  <2> HIDE DEF I
  <2>1. QED
    BY <1>1, <1>4, MinMaxAre
<1>6. Mapped(h) /\ MapShift(h) = parts[Max(I)].shift
  BY <1>2, <1>3 DEF Mapped, MapShift
<1> DEFINE q == parts[Max(I)]
<1>7. q \in Range(parts) /\ h \in q.lo..q.hi
  <2>1. Max(I) \in 1..Len(parts) /\ h \in parts[Max(I)].lo..parts[Max(I)].hi
    BY <1>5
  <2>2. parts[Max(I)] \in Range(parts)
    BY <1>1, <2>1, IsInRange
  <2>3. QED
    BY <2>1, <2>2
<1>8. q.shift = NoColumn \/ (q.shift = TrueShift(h) /\ h # export.drop)
  BY <1>7 DEF Faithful
<1>9. Shift(h) = q.shift
  BY <1>6, Zenon DEF Shift
<1> HIDE DEF q
<1>10. CASE q.shift = NoColumn
  BY <1>9, <1>10 DEF Cell
<1>11. CASE q.shift = TrueShift(h) /\ h # export.drop
  BY <1>9, <1>11 DEF Cell, OwnColumn
<1>12. QED
  BY <1>8, <1>10, <1>11

(* A channel that read_stp_csv.py reads under the map it suggests is read  *)
(* in its own column or not at all, unless the tool warned or put the      *)
(* channel in doubt: for every number of channels and every anomaly of the *)
(* export, as long as no vote is mistaken and each zone of the file has    *)
(* one.                                                                    *)
THEOREM ColumnsAreOwn == Spec => []ReadsOwnColumn
<1>1. TapInv => ReadsOwnColumn
  <2> SUFFICES ASSUME TapInv, phase = "suggested", ~warned, Legible, NEW h \in Channels \ doubt
               PROVE  Cell(h) \in {OwnColumn(h), NoColumn}
    BY Zenon DEF ReadsOwnColumn, Legible
  <2>1. /\ export \in Exports
        /\ \/ parts = <<>> /\ export.drop = 0 /\ ~Ambiguous
           \/ Faithful(parts, doubt) /\ Covers(parts, NCH + 1)
    BY DEF TapInv
  <2>2. CASE parts = <<>> /\ export.drop = 0 /\ ~Ambiguous
    <3>1. Chosen = export.front
      BY <2>1, <2>2, Calibrated
    <3>2. Len(parts) = 0
      BY <2>2
    <3>3. ~Mapped(h)
      BY <3>2 DEF Mapped
    <3>4. Shift(h) = export.front
      BY <3>1, <3>3 DEF Shift
    <3>5. TrueShift(h) = export.front /\ h # 0
      BY <2>1, <2>2, TrueShiftIs DEF Channels
    <3>6. OwnColumn(h) = h + Shift(h)
      BY <2>2, <3>4, <3>5 DEF OwnColumn
    <3>7. QED
      BY <3>6 DEF Cell
  <2>3. CASE Faithful(parts, doubt) /\ Covers(parts, NCH + 1)
    BY <2>1, <2>3, MappedColumn
  <2>4. QED
    BY <2>1, <2>2, <2>3
<1>2. QED
  BY <1>1, TapAlways, PTL
=============================================================================
