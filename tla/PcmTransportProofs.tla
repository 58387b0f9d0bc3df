-------------------------- MODULE PcmTransportProofs --------------------------
(***************************************************************************)
(* Proofs about the decoded-PCM path, for every ring and buffer depth: its *)
(* pointers never lap one another, and it implements the queue of          *)
(* SampleFifo.                                                             *)
(***************************************************************************)
EXTENDS PcmTransport, Remainders, SequenceTheorems, TLAPS

(* Advancing a pointer keeps it in range, lap bit included. *)
LEMMA AdvanceType ==
  ASSUME NEW depth \in Nat \ {0}, NEW p \in Ptr(depth)
  PROVE  Advance(p, depth) \in Ptr(depth)
BY DEF Advance, Ptr

(* A pointer without its lap bit is a slot of the ring. *)
LEMMA SlotType ==
  ASSUME NEW depth \in Nat \ {0}, NEW p \in Ptr(depth)
  PROVE  Slot(p, depth) \in 0 .. depth - 1
BY DEF Slot, Ptr

(* The order of a chain of pointers is the same seen from one that moved   *)
(* forward, but not past the chain.                                        *)
LEMMA RebaseChain ==
  ASSUME NEW depth \in Nat \ {0}, NEW h \in Ptr(depth), NEW p \in Ptr(depth),
         NEW a \in Ptr(depth), NEW b \in Ptr(depth), NEW c \in Ptr(depth),
         Ahead(p, h, depth) <= Ahead(a, h, depth),
         Ahead(a, h, depth) <= Ahead(b, h, depth),
         Ahead(b, h, depth) <= Ahead(c, h, depth),
         Ahead(c, h, depth) <= depth
  PROVE  /\ Ahead(a, p, depth) <= Ahead(b, p, depth)
         /\ Ahead(b, p, depth) <= Ahead(c, p, depth)
         /\ Ahead(c, p, depth) <= depth
BY DEF Ahead, Ptr

(* Every action keeps every variable in its type. *)
THEOREM TypeCorrect == Spec => []TypeOK
<1> USE RingBeatsAssumption, FifoDepthAssumption, EpochModAssumption, MaxBeatsAssumption
<1>1. Init => TypeOK
  <2>1. 0 \in Ptr(RingBeats) /\ 0 \in Ptr(FifoDepth) /\ 0 \in Epoch /\ 0 \in 0 .. MaxBeats
    BY DEF Ptr, Epoch
  <2>2. /\ [s \in 0 .. RingBeats - 1 |-> 0] \in [0 .. RingBeats - 1 -> Nat]
        /\ [s \in 0 .. FifoDepth - 1 |-> 0] \in [0 .. FifoDepth - 1 -> Nat]
    OBVIOUS
  <2>3. "none" \in {"none", "word1", "word3"} /\ "IDLE" \in States /\ 0 \in Nat
    BY DEF States
  <2>4. QED
    BY <2>1, <2>2, <2>3, Zenon DEF Init, TypeOK
<1>2. TypeOK /\ [Next]_vars => TypeOK'
  <2> SUFFICES ASSUME TypeOK, [Next]_vars
               PROVE  TypeOK'
    OBVIOUS
  <2>0. 0 \in Ptr(RingBeats) /\ 0 \in Ptr(FifoDepth) /\ 0 \in Epoch /\ NextEpoch \in Epoch
    BY DEF Ptr, Epoch, NextEpoch, TypeOK
  <2>1. CASE Reader
    <3>1. CASE RingFetch
      BY <3>1 DEF TypeOK, RingFetch, hpsVars, mboxVars, bufferVars, States
    <3>2. CASE RingLatch
      BY <3>2 DEF TypeOK, RingLatch, hpsVars, mboxVars, bufferVars, States
    <3>3. CASE RingPush0
      <4>1. SamplesOf(beat)[1] \in Nat
        BY DEF SamplesOf, TypeOK
      <4>2. QED
        BY <3>3, <4>1, AdvanceType, SlotType
           DEF TypeOK, RingPush0, Push, hpsVars, mboxVars, States
    <3>4. CASE RingPush1
      <4>1. SamplesOf(beat)[2] \in Nat
        BY DEF SamplesOf, TypeOK
      <4>2. QED
        BY <3>4, <4>1, AdvanceType, SlotType
           DEF TypeOK, RingPush1, Push, hpsVars, mboxVars, States
    <3>5. CASE RingWait
      BY <3>5 DEF TypeOK, RingWait, hpsVars, mboxVars, bufferVars, States
    <3>6. QED
      BY <2>1, <3>1, <3>2, <3>3, <3>4, <3>5 DEF Reader
  <2>2. CASE Channel
    <3>1. ring[Slot(fab_rd_ptr, RingBeats)] \in Nat
      BY SlotType DEF TypeOK
    <3>2. QED
      BY <2>2, <3>1 DEF TypeOK, Channel, DdrAnswer, DdrRelease, hpsVars, mboxVars, bufferVars
  <2>3. CASE DrainPop
    <3>1. mem[Slot(rptr, FifoDepth)] \in Nat
      BY SlotType DEF TypeOK
    <3>2. played' \in Nat /\ rptr' \in Ptr(FifoDepth)
      BY <2>3, <3>1, AdvanceType DEF TypeOK, DrainPop
    <3>3. QED
      BY <2>3, <3>2 DEF TypeOK, DrainPop, hpsVars, mboxVars, readerVars
  <2>4. CASE Exchange
    BY <2>0, <2>4 DEF TypeOK, Exchange, PtrsCmd, PtrsWord1, PtrsWord3, PtrsAbort, Reinit, Keep,
         hpsVars, mboxVars, readerVars, bufferVars
  <2>5. CASE Service
    <3>1. CASE HpsDecode
      <4>1. ring' \in [0 .. RingBeats - 1 -> Nat]
        BY <3>1, SlotType DEF TypeOK, HpsDecode
      <4>2. decoded' \in 0 .. MaxBeats /\ hwr' \in Ptr(RingBeats)
        BY <3>1, AdvanceType DEF TypeOK, HpsDecode
      <4>3. QED
        BY <3>1, <4>1, <4>2 DEF TypeOK, HpsDecode, mboxVars, readerVars, bufferVars
    <3>2. CASE HpsCollapse
      BY <3>2, AdvanceType DEF TypeOK, HpsCollapse, mboxVars, readerVars, bufferVars
    <3>3. ASSUME NEW on \in BOOLEAN, CtrlDrain(on)
          PROVE  TypeOK'
      BY <3>3 DEF TypeOK, CtrlDrain, hpsVars, readerVars, bufferVars
    <3>4. QED
      BY <2>5, <3>1, <3>2, <3>3 DEF Service
  <2>6. CASE CoreReset
    BY <2>0, <2>6 DEF TypeOK, CoreReset, BumpEpoch, hpsVars, States
  <2>7. CASE UNCHANGED vars
    BY <2>7 DEF TypeOK, vars, hpsVars, mboxVars, readerVars, bufferVars
  <2>8. QED
    BY <2>1, <2>2, <2>3, <2>4, <2>5, <2>6, <2>7 DEF Next
<1>3. QED
  BY <1>1, <1>2, PTL DEF Spec

(* A rewind, a lap, a reset or a retried poll keeps the pointers in the order *)
(* they chase each other; the reader is silent until its reset is known.      *)
THEOREM InductiveInvariant == Spec => []IInv
<1> USE RingBeatsAssumption, FifoDepthAssumption, EpochModAssumption, MaxBeatsAssumption
<1>1. Init => IInv
  BY DEF Init, IInv, EpochInv, SpanInv, CollapseInv, HeldBeatIsCounted, Synced, FromHrd, Ahead,
         ptrs_thawed, have_data
<1>2. TypeOK /\ IInv /\ [Next]_vars => IInv'
  <2> SUFFICES ASSUME TypeOK, IInv, [Next]_vars
               PROVE  IInv'
    OBVIOUS
  <2> USE DEF TypeOK, IInv, EpochInv, SpanInv, CollapseInv, HeldBeatIsCounted, Synced, FromHrd,
              ptrs_thawed, have_data, Ptr, Epoch
  <2>1. CASE RingFetch
    BY <2>1 DEF RingFetch, parked, full, hpsVars, mboxVars, bufferVars
  <2>2. CASE RingLatch
    BY <2>2 DEF RingLatch, parked, full, hpsVars, mboxVars, bufferVars
  <2>3. CASE RingPush0
    BY <2>3 DEF RingPush0, Push, parked, full, hpsVars, mboxVars
  <2>4. CASE RingPush1
    BY <2>4 DEF RingPush1, Push, parked, full, hpsVars, mboxVars, Advance, Ahead
  <2>5. CASE RingWait
    BY <2>5 DEF RingWait, parked, full, hpsVars, mboxVars, bufferVars
  <2>6. CASE Channel
    <3>1. /\ UNCHANGED <<hpsVars, mboxVars, state, fab_rd_ptr, bufferVars>>
      BY <2>6 DEF Channel, DdrAnswer, DdrRelease
    <3>2. QED
      BY <3>1 DEF parked, full, hpsVars, mboxVars, bufferVars
  <2>7. CASE DrainPop
    BY <2>7 DEF DrainPop, parked, full, empty, hpsVars, mboxVars, readerVars
  <2>8. CASE PtrsCmd
    BY <2>8 DEF PtrsCmd, parked, full, Ahead, readerVars, bufferVars
  <2>9. CASE PtrsWord1
    BY <2>9 DEF PtrsWord1, parked, full, Ahead, readerVars, bufferVars
  <2>10. CASE PtrsWord3
    <3>1. CASE snap # hepoch
      BY <2>10, <3>1 DEF PtrsWord3, Reinit, Ahead, readerVars, bufferVars
    <3>2. CASE snap = hepoch
      <4>1. CASE Synced /\ ~collapsed
        <5>1. /\ hrd' = polled /\ poll' = "none"
              /\ UNCHANGED <<hwr, hepoch, rst_epoch, collapsed, hps_pcm_wr, fab_rd_ptr, state>>
              /\ hps_rst_ack' = hepoch
          BY <2>10, <3>2 DEF PtrsWord3, Keep, readerVars
        <5>2. /\ FromHrd(polled) <= FromHrd(fab_rd_ptr)
              /\ FromHrd(fab_rd_ptr) <= FromHrd(hps_pcm_wr)
              /\ FromHrd(hps_pcm_wr) <= FromHrd(hwr)
              /\ FromHrd(hwr) <= RingBeats
          BY <2>10, <4>1 DEF PtrsWord3
        <5>3. /\ Ahead(fab_rd_ptr, polled, RingBeats) <= Ahead(hps_pcm_wr, polled, RingBeats)
              /\ Ahead(hps_pcm_wr, polled, RingBeats) <= Ahead(hwr, polled, RingBeats)
              /\ Ahead(hwr, polled, RingBeats) <= RingBeats
          BY <5>2, RebaseChain
        <5>4. QED
          BY <4>1, <5>1, <5>3
      <4>2. CASE Synced /\ collapsed
        BY <2>10, <3>2, <4>2 DEF PtrsWord3, Keep, parked, full, readerVars, bufferVars
      <4>3. CASE ~Synced
        BY <2>10, <3>2, <4>3 DEF PtrsWord3, Keep, readerVars, bufferVars
      <4>4. QED
        BY <4>1, <4>2, <4>3
    <3>3. QED
      BY <3>1, <3>2
  <2>11. CASE PtrsAbort
    BY <2>11 DEF PtrsAbort, parked, full, mboxVars, readerVars, bufferVars
  <2>12. CASE HpsDecode
    BY <2>12 DEF HpsDecode, parked, full, Ahead, Advance, mboxVars, readerVars, bufferVars
  <2>13. CASE HpsCollapse
    <3>1. /\ hrd' = hrd /\ Ahead(hwr', hrd, RingBeats) = 1
          /\ fab_rd_ptr' = hrd /\ poll' = "none"
      BY <2>13 DEF HpsCollapse, Ahead, Advance, readerVars
    <3>2. ~drain_en' /\ parked' /\ collapsed'
      BY <2>13 DEF HpsCollapse, parked, full, mboxVars, readerVars, bufferVars
    <3>3. Synced => FromHrd(hps_pcm_wr) <= RingBeats
      BY DEF Ahead
    <3>4. QED
      BY <2>13, <3>1, <3>2, <3>3 DEF HpsCollapse, mboxVars, readerVars, bufferVars
  <2>14. ASSUME NEW on \in BOOLEAN, CtrlDrain(on)
         PROVE  IInv'
    BY <2>14 DEF CtrlDrain, parked, full, hpsVars, readerVars, bufferVars
  <2>15. CASE CoreReset
    BY <2>15 DEF CoreReset, BumpEpoch, NextEpoch, hpsVars
  <2>16. CASE UNCHANGED vars
    BY <2>16 DEF vars, parked, full, hpsVars, mboxVars, readerVars, bufferVars
  <2>17. QED
    BY <2>1, <2>2, <2>3, <2>4, <2>5, <2>6, <2>7, <2>8, <2>9, <2>10, <2>11, <2>12, <2>13, <2>14,
       <2>15, <2>16 DEF Next, Reader, Exchange, Service
<1>3. QED
  BY <1>1, <1>2, TypeCorrect, PTL DEF Spec

(* The four safety invariants of the run, for every depth of ring and buffer. *)
THEOREM PointersAreSafe ==
  Spec => [](NeverLaps /\ HeldBeatIsCounted /\ FreeSpaceIsSafe /\ StaleEpochIsSilent)
<1>1. TypeOK /\ IInv => NeverLaps /\ HeldBeatIsCounted /\ FreeSpaceIsSafe /\ StaleEpochIsSilent
  BY RingBeatsAssumption, EpochModAssumption
     DEF TypeOK, IInv, EpochInv, SpanInv, CollapseInv, NeverLaps, HeldBeatIsCounted,
         FreeSpaceIsSafe, StaleEpochIsSilent, Synced, FromHrd, Ahead, have_data, empty, Ptr
<1>2. QED
  BY <1>1, TypeCorrect, InductiveInvariant, PTL

(* No lap of the ring is taken for another, on either side of it.            *)
THEOREM RingStaysSafe == Spec => []RingIsSafe
<1>1. TypeOK /\ NeverLaps /\ FreeSpaceIsSafe => RingIsSafe
  BY DEF RingIsSafe
<1>2. QED
  BY <1>1, TypeCorrect, PointersAreSafe, PTL

(* After a reset the service has not heard of, nothing old is heard.         *)
THEOREM StaleStaysSilent == Spec => []StaleEpochIsSilent
BY PointersAreSafe, PTL

-----------------------------------------------------------------------------
(* The path implements the queue of SampleFifo.  First its places: slot k    *)
(* after a pointer, for a buffer or a ring of any depth.                     *)
LEMMA PlaceOf ==
  ASSUME NEW D \in Nat \ {0}, NEW p \in Ptr(D), NEW k \in 0 .. D - 1
  PROVE  (p + k) % D = (IF Slot(p, D) + k < D THEN Slot(p, D) + k ELSE Slot(p, D) + k - D)
<1>1. (p % D) = Slot(p, D)
  <2>1. CASE p < D
    <3>1. p = D * 0 + p /\ p \in 0 .. D - 1 /\ 0 \in Nat
      BY <2>1 DEF Ptr
    <3>2. (p % D) = p
      BY <3>1, ModUnique
    <3>3. QED
      BY <2>1, <3>2 DEF Slot, Ptr
  <2>2. CASE p >= D
    <3>1. p = D * 1 + (p - D) /\ p - D \in 0 .. D - 1 /\ 1 \in Nat
      BY <2>2 DEF Ptr
    <3>2. (p % D) = p - D
      BY <3>1, ModUnique
    <3>3. QED
      BY <2>2, <3>2 DEF Slot, Ptr
  <2>3. QED
    BY <2>1, <2>2 DEF Ptr
<1>2. p \in Nat
  BY DEF Ptr
<1>3. QED
  BY <1>1, <1>2, ModShift

(* The first place is the pointer's slot, the next ones follow it, and all   *)
(* are slots of the buffer.                                                 *)
LEMMA Places ==
  ASSUME NEW D \in Nat \ {0}, NEW p \in Ptr(D)
  PROVE  /\ (p + 0) % D = Slot(p, D)
         /\ \A k \in 0 .. D - 1 : (p + k) % D \in 0 .. D - 1
         /\ \A k \in 0 .. D - 2 : (Advance(p, D) + k) % D = (p + (k + 1)) % D
         /\ \A j, k \in 0 .. D - 1 : j # k => (p + j) % D # (p + k) % D
<1>1. Slot(p, D) \in 0 .. D - 1 /\ p \in Nat
  BY DEF Slot, Ptr
<1>2. \A k \in 0 .. D - 1 :
        (p + k) % D = (IF Slot(p, D) + k < D THEN Slot(p, D) + k ELSE Slot(p, D) + k - D)
  BY PlaceOf
<1>3. Advance(p, D) \in Ptr(D)
  BY AdvanceType
<1>4. \A k \in 0 .. D - 1 :
        (Advance(p, D) + k) % D = (IF Slot(Advance(p, D), D) + k < D THEN Slot(Advance(p, D), D) + k
                                   ELSE Slot(Advance(p, D), D) + k - D)
  BY <1>3, PlaceOf
<1>5. Slot(Advance(p, D), D) = (IF Slot(p, D) + 1 = D THEN 0 ELSE Slot(p, D) + 1)
  BY DEF Slot, Advance, Ptr
<1>6. (p + 0) % D = Slot(p, D)
  BY <1>1, <1>2
<1>7. \A k \in 0 .. D - 1 : (p + k) % D \in 0 .. D - 1
  BY <1>1, <1>2
<1>8. ASSUME NEW k \in 0 .. D - 2
      PROVE  (Advance(p, D) + k) % D = (p + (k + 1)) % D
  <2>1. k \in 0 .. D - 1 /\ k + 1 \in 0 .. D - 1
    OBVIOUS
  <2>2. (p + (k + 1)) % D = (IF Slot(p, D) + (k + 1) < D THEN Slot(p, D) + (k + 1)
                             ELSE Slot(p, D) + (k + 1) - D)
    BY <1>2, <2>1
  <2>3. QED
    BY <1>1, <1>4, <1>5, <2>1, <2>2
<1>9. ASSUME NEW j \in 0 .. D - 1, NEW k \in 0 .. D - 1, j # k
      PROVE  (p + j) % D # (p + k) % D
  <2>1. (p + j) % D = (IF Slot(p, D) + j < D THEN Slot(p, D) + j ELSE Slot(p, D) + j - D)
    BY <1>2
  <2>2. (p + k) % D = (IF Slot(p, D) + k < D THEN Slot(p, D) + k ELSE Slot(p, D) + k - D)
    BY <1>2
  <2>3. QED
    BY <1>1, <1>9, <2>1, <2>2
<1>10. QED
  BY <1>6, <1>7, <1>8, <1>9

(* The place as far after the reader as the writer is ahead is the writer's. *)
LEMMA PlaceAtWriter ==
  ASSUME NEW D \in Nat \ {0}, NEW w \in Ptr(D), NEW r \in Ptr(D), Ahead(w, r, D) < D
  PROVE  (r + Ahead(w, r, D)) % D = Slot(w, D)
<1>1. Ahead(w, r, D) \in 0 .. D - 1
  BY DEF Ahead, Ptr
<1>2. (r + Ahead(w, r, D)) % D = (IF Slot(r, D) + Ahead(w, r, D) < D THEN Slot(r, D) + Ahead(w, r, D)
                                  ELSE Slot(r, D) + Ahead(w, r, D) - D)
  BY <1>1, PlaceOf
<1>3. QED
  BY <1>1, <1>2 DEF Ahead, Ptr, Slot

(* How a step of either pointer counts. *)
LEMMA AheadSteps ==
  ASSUME NEW D \in Nat \ {0}, NEW w \in Ptr(D), NEW r \in Ptr(D)
  PROVE  /\ Ahead(w, r, D) \in 0 .. 2 * D - 1
         /\ Ahead(w, r, D) = 0 <=> w = r
         /\ Ahead(w, r, D) < 2 * D - 1 => Ahead(Advance(w, D), r, D) = Ahead(w, r, D) + 1
         /\ Ahead(w, r, D) > 0 => Ahead(w, Advance(r, D), D) = Ahead(w, r, D) - 1
BY DEF Ahead, Advance, Ptr

-----------------------------------------------------------------------------
(* What the mapping rests on beside IInv: the buffer never overflows, and    *)
(* the word on the read channel is still the reader's slot when it is taken.  *)
PathInv ==
  /\ Ahead(wptr, rptr, FifoDepth) <= FifoDepth
  /\ rd_req <=> state = "REQ"
  /\ state = "IDLE" => ~rd_ack
  /\ state = "REQ" /\ rd_ack => rd_data = ring[Slot(fab_rd_ptr, RingBeats)]

(* The unread ring is at most one lap, and a beat in hand is of it.           *)
LEMMA UnreadRange ==
  ASSUME TypeOK, IInv
  PROVE  /\ Synced => Ahead(hwr, fab_rd_ptr, RingBeats) \in 0 .. RingBeats
         /\ state \in {"REQ", "PUSH0", "PUSH1"} =>
              Synced /\ Ahead(hwr, fab_rd_ptr, RingBeats) \in 1 .. RingBeats
         /\ Synced /\ Ahead(hwr, hrd, RingBeats) < RingBeats =>
              Ahead(hwr, fab_rd_ptr, RingBeats) < RingBeats
<1> USE RingBeatsAssumption DEF TypeOK, Ptr
<1>1. CASE Synced /\ ~collapsed
  BY <1>1 DEF IInv, SpanInv, HeldBeatIsCounted, have_data, FromHrd, Ahead
<1>2. CASE Synced /\ collapsed
  BY <1>2 DEF IInv, CollapseInv, FromHrd, Ahead
<1>3. CASE ~Synced
  BY <1>3 DEF IInv, EpochInv
<1>4. QED
  BY <1>1, <1>2, <1>3

(* Every step keeps both. *)
LEMMA PathStep ==
  ASSUME TypeOK, IInv, PathInv, [Next]_vars
  PROVE  PathInv'
<1> USE RingBeatsAssumption, FifoDepthAssumption DEF PathInv
<1>0. /\ wptr \in Ptr(FifoDepth) /\ rptr \in Ptr(FifoDepth)
      /\ hwr \in Ptr(RingBeats) /\ fab_rd_ptr \in Ptr(RingBeats) /\ hrd \in Ptr(RingBeats)
      /\ ring \in [0 .. RingBeats - 1 -> Nat]
  BY DEF TypeOK
<1>1. ~full => Ahead(Advance(wptr, FifoDepth), rptr, FifoDepth) <= FifoDepth
  <2>1. /\ Ahead(wptr, rptr, FifoDepth) \in 0 .. 2 * FifoDepth - 1
        /\ Ahead(wptr, rptr, FifoDepth) < 2 * FifoDepth - 1 =>
             Ahead(Advance(wptr, FifoDepth), rptr, FifoDepth) = Ahead(wptr, rptr, FifoDepth) + 1
    BY <1>0, AheadSteps
  <2>2. QED
    BY <2>1 DEF full
<1>2. CASE RingFetch \/ RingLatch \/ RingWait
  BY <1>2 DEF RingFetch, RingLatch, RingWait, hpsVars, mboxVars, bufferVars
<1>3. CASE RingPush0
  BY <1>1, <1>3 DEF RingPush0, Push, hpsVars, mboxVars
<1>4. CASE RingPush1
  BY <1>1, <1>4 DEF RingPush1, Push, hpsVars, mboxVars
<1>5. CASE Channel
  BY <1>5 DEF Channel, DdrAnswer, DdrRelease, hpsVars, mboxVars, bufferVars
<1>6. CASE DrainPop
  <2>1. ~empty => Ahead(wptr, Advance(rptr, FifoDepth), FifoDepth) <= FifoDepth
    <3>1. /\ Ahead(wptr, rptr, FifoDepth) \in 0 .. 2 * FifoDepth - 1
          /\ Ahead(wptr, rptr, FifoDepth) = 0 <=> wptr = rptr
          /\ Ahead(wptr, rptr, FifoDepth) > 0 =>
               Ahead(wptr, Advance(rptr, FifoDepth), FifoDepth) = Ahead(wptr, rptr, FifoDepth) - 1
      BY <1>0, AheadSteps
    <3>2. QED
      BY <3>1 DEF empty
  <2>2. QED
    BY <1>6, <2>1 DEF DrainPop, hpsVars, mboxVars, readerVars
<1>7. CASE Exchange \/ HpsCollapse \/ (\E on \in BOOLEAN : CtrlDrain(on))
  BY <1>7 DEF Exchange, PtrsCmd, PtrsWord1, PtrsWord3, PtrsAbort, HpsCollapse, CtrlDrain,
              hpsVars, readerVars, bufferVars
<1>8. CASE HpsDecode
  <2>1. state = "REQ" => Slot(hwr, RingBeats) # Slot(fab_rd_ptr, RingBeats)
    <3>1. SUFFICES ASSUME state = "REQ" PROVE Slot(hwr, RingBeats) # Slot(fab_rd_ptr, RingBeats)
      OBVIOUS
    <3>2. Ahead(hwr, fab_rd_ptr, RingBeats) \in 1 .. RingBeats - 1
      BY <1>0, <1>8, <3>1, UnreadRange DEF HpsDecode
    <3>3. QED
      BY <1>0, <3>2 DEF Ahead, Slot, Ptr
  <2>2. ring'[Slot(fab_rd_ptr, RingBeats)] = ring[Slot(fab_rd_ptr, RingBeats)] \/ state # "REQ"
    BY <1>0, <1>8, <2>1, SlotType DEF HpsDecode
  <2>3. QED
    BY <1>8, <2>2 DEF HpsDecode, readerVars, bufferVars
<1>9. CASE CoreReset
  BY <1>9 DEF CoreReset, Ahead
<1>10. CASE UNCHANGED vars
  BY <1>10 DEF vars, hpsVars, readerVars, bufferVars
<1>11. QED
  BY <1>2, <1>3, <1>4, <1>5, <1>6, <1>7, <1>8, <1>9, <1>10
     DEF Next, Reader, Service
-----------------------------------------------------------------------------
(* The queue by its places: the samples buffered, then the samples of the    *)
(* unread beats, the first of which may be in the reader's hands and half    *)
(* pushed.                                                                  *)
Waiting == BufferContents \o RingContents

Buffered == Ahead(wptr, rptr, FifoDepth)

Beats == IF Synced THEN Ahead(hwr, fab_rd_ptr, RingBeats) ELSE 0

Pushed == IF state = "PUSH1" THEN 1 ELSE 0

BeatAt(k) == IF state \in {"PUSH0", "PUSH1"} /\ k = 0 THEN beat
             ELSE ring[(fab_rd_ptr + k) % RingBeats]

Shape ==
  /\ Waiting \in Seq(Nat) /\ Len(Waiting) = Buffered + 2 * Beats - Pushed
  /\ Buffered \in 0 .. FifoDepth /\ Beats \in 0 .. RingBeats /\ Pushed \in 0 .. 1
  /\ Pushed = 1 => Beats > 0
  /\ \A i \in 1 .. Buffered : Waiting[i] = mem[(rptr + (i - 1)) % FifoDepth]
  /\ \A j \in Pushed .. 2 * Beats - 1 :
       Waiting[Buffered - Pushed + 1 + j] = 2 * BeatAt(j \div 2) + (j % 2)

(* The mapped queue is that one. *)
LEMMA QueueShape == TypeOK /\ IInv /\ PathInv => Shape
<1> SUFFICES ASSUME TypeOK, IInv, PathInv PROVE Shape
  OBVIOUS
<1> USE RingBeatsAssumption, FifoDepthAssumption
<1>0. /\ wptr \in Ptr(FifoDepth) /\ rptr \in Ptr(FifoDepth)
      /\ hwr \in Ptr(RingBeats) /\ fab_rd_ptr \in Ptr(RingBeats)
      /\ ring \in [0 .. RingBeats - 1 -> Nat] /\ mem \in [0 .. FifoDepth - 1 -> Nat] /\ beat \in Nat
  BY DEF TypeOK
<1>1. Buffered \in 0 .. FifoDepth
  BY <1>0, AheadSteps DEF PathInv, Buffered
<1>2. Beats \in 0 .. RingBeats /\ (state \in {"PUSH0", "PUSH1"} => Beats \in 1 .. RingBeats)
  BY UnreadRange DEF Beats
<1>3. Pushed \in 0 .. 1 /\ (Pushed = 1 => Beats > 0)
  BY <1>2 DEF Pushed
<1>4. BufferContents = [i \in 1 .. Buffered |-> mem[(rptr + i - 1) % FifoDepth]]
  BY DEF BufferContents, Buffered
<1>5. \A i \in 1 .. Buffered : mem[(rptr + i - 1) % FifoDepth] \in Nat
  <2>1. TAKE i \in 1 .. Buffered
  <2>2. i - 1 \in 0 .. FifoDepth - 1 /\ rptr + i - 1 = rptr + (i - 1)
    BY <1>0, <1>1 DEF Ptr
  <2>3. (rptr + (i - 1)) % FifoDepth \in 0 .. FifoDepth - 1
    BY <1>0, <2>2, Places
  <2>4. QED
    BY <1>0, <2>2, <2>3
<1>6. BufferContents \in Seq(Nat) /\ Len(BufferContents) = Buffered
  <2>1. Buffered \in Nat
    BY <1>1
  <2>2. BufferContents \in Seq(Nat)
    BY <1>4, <1>5, <2>1, IsASeq
  <2>3. QED
    BY <1>4, <2>1, <2>2, LenProperties
<1> DEFINE n == 2 * Beats - Pushed
<1>7. RingContents = [i \in 1 .. n |-> RingSample(i - 1 + Pushed)]
  BY DEF RingContents, Beats, Pushed, Synced
<1>8. \A j \in 0 .. 2 * Beats - 1 :
         RingSample(j) = 2 * BeatAt(j \div 2) + (j % 2) /\ RingSample(j) \in Nat
  <2>1. TAKE j \in 0 .. 2 * Beats - 1
  <2>2. j \in Nat /\ j \div 2 \in 0 .. RingBeats - 1 /\ j % 2 \in 0 .. 1 /\ (j < 2 <=> j \div 2 = 0)
    BY <1>2
  <2>3. (fab_rd_ptr + (j \div 2)) % RingBeats \in 0 .. RingBeats - 1
    BY <1>0, <2>2, Places
  <2>4. BeatAt(j \div 2) \in Nat
    BY <1>0, <2>3 DEF BeatAt
  <2>5. RingSample(j) = SamplesOf(BeatAt(j \div 2))[1 + (j % 2)]
    BY <2>2 DEF RingSample, BeatAt
  <2>6. \A b \in Nat, x \in 0 .. 1 : SamplesOf(b)[1 + x] = 2 * b + x
    BY DEF SamplesOf
  <2>7. SamplesOf(BeatAt(j \div 2))[1 + (j % 2)] = 2 * BeatAt(j \div 2) + (j % 2)
    BY <2>2, <2>4, <2>6, Zenon
  <2>8. 2 * BeatAt(j \div 2) + (j % 2) \in Nat
    BY <2>2, <2>4
  <2>9. QED
    BY <2>5, <2>7, <2>8, Zenon
<1>9. n \in Nat
  BY <1>2, <1>3
<1>10. RingContents \in Seq(Nat) /\ Len(RingContents) = n
  <2>1. \A i \in 1 .. n : RingSample(i - 1 + Pushed) \in Nat
    <3>1. TAKE i \in 1 .. n
    <3>2. i - 1 + Pushed \in 0 .. 2 * Beats - 1
      BY <1>2, <1>3
    <3>3. QED
      BY <1>8, <3>2
  <2> HIDE DEF n
  <2>2. RingContents \in Seq(Nat)
    BY <1>7, <1>9, <2>1, IsASeq
  <2>3. QED
    BY <1>7, <1>9, <2>2, LenProperties
<1>11. /\ Waiting \in Seq(Nat) /\ Len(Waiting) = Buffered + n
       /\ \A i \in 1 .. Buffered + n : Waiting[i] =
            IF i <= Buffered THEN BufferContents[i] ELSE RingContents[i - Buffered]
  <2> DEFINE a == BufferContents
             b == RingContents
  <2>1. Waiting = a \o b /\ a \in Seq(Nat) /\ b \in Seq(Nat) /\ Len(a) = Buffered /\ Len(b) = n
    BY <1>6, <1>10 DEF Waiting
  <2> HIDE DEF a, b, n
  <2>2. /\ a \o b \in Seq(Nat) /\ Len(a \o b) = Len(a) + Len(b)
        /\ \A i \in 1 .. Len(a) + Len(b) : (a \o b)[i] = IF i <= Len(a) THEN a[i] ELSE b[i - Len(a)]
    BY <2>1, ConcatProperties
  <2>3. QED
    BY <2>1, <2>2 DEF a, b
<1>12. ASSUME NEW i \in 1 .. Buffered
       PROVE  Waiting[i] = mem[(rptr + (i - 1)) % FifoDepth]
  <2>1. rptr + i - 1 = rptr + (i - 1)
    BY <1>0, <1>1 DEF Ptr
  <2>2. i \in 1 .. Buffered + n
    BY <1>1, <1>9
  <2>3. BufferContents[i] = mem[(rptr + i - 1) % FifoDepth]
    BY <1>4
  <2>4. QED
    BY <1>1, <1>11, <2>1, <2>2, <2>3
<1>13. ASSUME NEW j \in Pushed .. 2 * Beats - 1
       PROVE  Waiting[Buffered - Pushed + 1 + j] = 2 * BeatAt(j \div 2) + (j % 2)
  <2> DEFINE i == j + 1 - Pushed
  <2>1. i \in 1 .. n /\ i - 1 + Pushed = j /\ j \in 0 .. 2 * Beats - 1
    BY <1>2, <1>3
  <2>2. /\ Buffered - Pushed + 1 + j = Buffered + i /\ Buffered + i \in 1 .. Buffered + n
        /\ (Buffered + i) - Buffered = i /\ ~(Buffered + i <= Buffered)
    BY <1>1, <1>2, <1>3, <1>9
  <2>3. RingContents[i] = RingSample(j)
    BY <1>7, <2>1
  <2>4. QED
    BY <1>8, <1>11, <2>1, <2>2, <2>3
<1>14. QED
  BY <1>1, <1>2, <1>3, <1>11, <1>12, <1>13 DEF Shape

(* Two queues of the same length and samples are one. *)
LEMMA SameQueue ==
  ASSUME Shape, Shape', Len(Waiting') = Len(Waiting),
         \A i \in 1 .. Len(Waiting) : Waiting'[i] = Waiting[i]
  PROVE  Waiting' = Waiting
<1>1. Waiting \in Seq(Nat) /\ Waiting' \in Seq(Nat)
  BY DEF Shape
<1>2. QED
  BY <1>1, SeqEqual

(* A queue that kept its first samples is the other's head. *)
LEMMA CutQueue ==
  ASSUME Shape, Shape', Len(Waiting') <= Len(Waiting),
         \A i \in 1 .. Len(Waiting') : Waiting'[i] = Waiting[i]
  PROVE  \E n \in 0 .. Len(Waiting) : Waiting' = SubSeq(Waiting, 1, n)
<1> DEFINE n == Len(Waiting')
<1>1. Waiting \in Seq(Nat) /\ Waiting' \in Seq(Nat)
  BY DEF Shape
<1>2. n \in Nat /\ n \in 0 .. Len(Waiting) /\ n \in Int /\ 1 \in Int
  BY <1>1, LenProperties
<1>3. \A i \in 1 .. n : Waiting[i] \in Nat
  BY <1>1, <1>2, ElementOfSeq, LenProperties
<1>4. /\ SubSeq(Waiting, 1, n) \in Seq(Nat)
      /\ Len(SubSeq(Waiting, 1, n)) = n
      /\ \A i \in 1 .. n : SubSeq(Waiting, 1, n)[i] = Waiting[i]
  <2> HIDE DEF n
  <2>1. /\ SubSeq(Waiting, 1, n) \in Seq(Nat)
        /\ Len(SubSeq(Waiting, 1, n)) = (IF 1 <= n THEN n - 1 + 1 ELSE 0)
        /\ \A i \in 1 .. n - 1 + 1 : SubSeq(Waiting, 1, n)[i] = Waiting[1 + i - 1]
    BY <1>2, <1>3, SubSeqProperties
  <2>2. QED
    BY <1>2, <2>1
<1>5. Waiting' = SubSeq(Waiting, 1, n)
  BY <1>1, <1>4, SeqEqual
<1>6. QED
  BY <1>2, <1>5
(* A step that moves no pointer of it and rewrites none of its samples keeps *)
(* the queue.                                                               *)
LEMMA Undisturbed ==
  ASSUME Shape, Shape', UNCHANGED <<mem, rptr>>,
         Buffered' = Buffered, Beats' = Beats, Pushed' = Pushed,
         \A k \in 0 .. Beats - 1 : BeatAt(k)' = BeatAt(k)
  PROVE  Waiting' = Waiting
<1>1. Len(Waiting') = Len(Waiting)
  BY DEF Shape
<1>2. ASSUME NEW i \in 1 .. Len(Waiting)
      PROVE  Waiting'[i] = Waiting[i]
  <2>1. CASE i <= Buffered
    <3>1. i \in 1 .. Buffered /\ i \in 1 .. Buffered'
      BY <2>1 DEF Shape
    <3>2. Waiting[i] = mem[(rptr + (i - 1)) % FifoDepth]
      BY <3>1 DEF Shape
    <3>3. Waiting'[i] = mem'[(rptr' + (i - 1)) % FifoDepth]
      BY <3>1 DEF Shape
    <3>4. QED
      BY <3>2, <3>3
  <2>2. CASE i > Buffered
    <3> DEFINE j == i - Buffered + Pushed - 1
    <3>1. j \in Pushed .. 2 * Beats - 1 /\ Buffered - Pushed + 1 + j = i /\ j \div 2 \in 0 .. Beats - 1
      BY <2>2 DEF Shape
    <3>2. Waiting[i] = 2 * BeatAt(j \div 2) + (j % 2)
      BY <3>1 DEF Shape
    <3> HIDE DEF j
    <3>3. \A m \in Pushed .. 2 * Beats - 1, k \in 0 .. Beats - 1 :
            k = m \div 2 => Waiting'[Buffered - Pushed + 1 + m] = 2 * BeatAt(k)' + (m % 2)
      BY DEF Shape
    <3>4. Waiting'[i] = 2 * BeatAt(j \div 2) + (j % 2)
      BY <3>1, <3>3
    <3>5. QED
      BY <3>2, <3>4
  <2>3. QED
    BY <2>1, <2>2 DEF Shape
<1>3. QED
  BY <1>1, <1>2, SameQueue

(* One sample joins the buffer behind those that wait there. *)
LEMMA PushPlaces ==
  ASSUME TypeOK, PathInv, NEW x, Push(x)
  PROVE  /\ Buffered' = Buffered + 1 /\ rptr' = rptr
         /\ \A i \in 1 .. Buffered :
              mem'[(rptr + (i - 1)) % FifoDepth] = mem[(rptr + (i - 1)) % FifoDepth]
         /\ mem'[(rptr + Buffered) % FifoDepth] = x
<1> USE FifoDepthAssumption
<1>0. /\ wptr \in Ptr(FifoDepth) /\ rptr \in Ptr(FifoDepth) /\ mem \in [0 .. FifoDepth - 1 -> Nat]
      /\ wptr' = Advance(wptr, FifoDepth) /\ rptr' = rptr
      /\ mem' = [mem EXCEPT ![Slot(wptr, FifoDepth)] = x]
  BY DEF TypeOK, Push
<1>1. Buffered \in 0 .. FifoDepth - 1
  <2>1. Ahead(wptr, rptr, FifoDepth) \in 0 .. 2 * FifoDepth - 1
    BY <1>0, AheadSteps
  <2>2. QED
    BY <2>1 DEF Push, full, PathInv, Buffered
<1>2. Buffered' = Buffered + 1
  <2>1. Ahead(Advance(wptr, FifoDepth), rptr, FifoDepth) = Ahead(wptr, rptr, FifoDepth) + 1
    BY <1>0, <1>1, AheadSteps DEF Buffered
  <2>2. QED
    BY <1>0, <2>1 DEF Buffered
<1>3. (rptr + Buffered) % FifoDepth = Slot(wptr, FifoDepth)
  BY <1>0, <1>1, PlaceAtWriter DEF Buffered
<1>4. Slot(wptr, FifoDepth) \in 0 .. FifoDepth - 1
  BY <1>0, SlotType
<1>5. ASSUME NEW i \in 1 .. Buffered
      PROVE  mem'[(rptr + (i - 1)) % FifoDepth] = mem[(rptr + (i - 1)) % FifoDepth]
  <2>1. i - 1 \in 0 .. FifoDepth - 1 /\ Buffered \in 0 .. FifoDepth - 1 /\ i - 1 # Buffered
    BY <1>1
  <2>2. /\ (rptr + (i - 1)) % FifoDepth \in 0 .. FifoDepth - 1
        /\ (rptr + (i - 1)) % FifoDepth # (rptr + Buffered) % FifoDepth
    BY <1>0, <2>1, Places
  <2>3. QED
    BY <1>0, <1>3, <2>2
<1>6. mem'[(rptr + Buffered) % FifoDepth] = x
  BY <1>0, <1>3, <1>4
<1>7. QED
  BY <1>0, <1>2, <1>5, <1>6

(* The first sample of the beat in hand goes from the ring to the buffer. *)
LEMMA Push0Step ==
  ASSUME TypeOK, PathInv, Shape, Shape', RingPush0
  PROVE  Waiting' = Waiting
<1>1. /\ Buffered' = Buffered + 1 /\ rptr' = rptr
      /\ \A i \in 1 .. Buffered :
           mem'[(rptr + (i - 1)) % FifoDepth] = mem[(rptr + (i - 1)) % FifoDepth]
      /\ mem'[(rptr + Buffered) % FifoDepth] = 2 * beat
  BY PushPlaces DEF RingPush0, SamplesOf, TypeOK
<1>2. /\ Pushed = 0 /\ Pushed' = 1 /\ Beats' = Beats /\ Beats' > 0
      /\ \A k \in 0 .. Beats - 1 : BeatAt(k)' = BeatAt(k)
      /\ BeatAt(0) = beat
  BY DEF RingPush0, Pushed, Beats, BeatAt, Shape, Synced, hpsVars, mboxVars
<1>3. /\ Len(Waiting') = Len(Waiting)
      /\ Buffered \in Nat /\ Beats \in Nat /\ Len(Waiting) = Buffered + 2 * Beats
  BY <1>1, <1>2, FifoDepthAssumption, RingBeatsAssumption DEF Shape
<1>4. ASSUME NEW i \in 1 .. Len(Waiting)
      PROVE  Waiting'[i] = Waiting[i]
  <2>1. CASE i <= Buffered + 1
    <3>1. i \in 1 .. Buffered' /\ Buffered \in Nat
      BY <1>1, <2>1 DEF Shape
    <3>2. Waiting'[i] = mem'[(rptr + (i - 1)) % FifoDepth]
      BY <1>1, <3>1 DEF Shape
    <3>3. CASE i <= Buffered
      <4>1. i \in 1 .. Buffered
        BY <3>3, <3>1
      <4>2. Waiting[i] = mem[(rptr + (i - 1)) % FifoDepth]
        BY <4>1 DEF Shape
      <4>3. QED
        BY <1>1, <3>2, <4>1, <4>2
    <3>4. CASE i = Buffered + 1
      <4>1. i - 1 = Buffered
        BY <3>1, <3>4
      <4>2. Waiting[i] = 2 * BeatAt(0 \div 2) + (0 % 2)
        <5>1. 0 \in Pushed .. 2 * Beats - 1 /\ Buffered - Pushed + 1 + 0 = i
          BY <1>2, <3>1, <3>4 DEF Shape
        <5>2. QED
          BY <5>1 DEF Shape
      <4>3. 0 \div 2 = 0 /\ 0 % 2 = 0 /\ beat \in Nat
        BY DEF TypeOK
      <4>4. Waiting[i] = 2 * beat
        BY <1>2, <4>2, <4>3
      <4>5. QED
        BY <1>1, <3>2, <4>1, <4>4
    <3>5. QED
      BY <2>1, <3>1, <3>3, <3>4
  <2>2. CASE i > Buffered + 1
    <3> DEFINE j == i - Buffered - 1
    <3>1. /\ j \in Pushed .. 2 * Beats - 1 /\ j \in Pushed' .. 2 * Beats' - 1
          /\ Buffered - Pushed + 1 + j = i /\ Buffered' - Pushed' + 1 + j = i
          /\ j \div 2 \in 0 .. Beats - 1
      BY <1>1, <1>2, <1>3, <2>2
    <3>2. Waiting[i] = 2 * BeatAt(j \div 2) + (j % 2)
      BY <3>1 DEF Shape
    <3> HIDE DEF j
    <3>3. \A m \in Pushed' .. 2 * Beats' - 1, k \in 0 .. Beats - 1 :
            k = m \div 2 => Waiting'[Buffered' - Pushed' + 1 + m] = 2 * BeatAt(k)' + (m % 2)
      BY DEF Shape
    <3>4. Waiting'[i] = 2 * BeatAt(j \div 2) + (j % 2)
      BY <1>2, <3>1, <3>3
    <3>5. QED
      BY <3>2, <3>4
  <2>3. QED
    BY <1>3, <2>1, <2>2
<1>5. QED
  BY <1>3, <1>4, SameQueue
(* The second one follows it, and the reader goes on to the next beat. *)
LEMMA Push1Step ==
  ASSUME TypeOK, IInv, PathInv, Shape, Shape', RingPush1
  PROVE  Waiting' = Waiting
<1> USE RingBeatsAssumption
<1>0. beat \in Nat /\ fab_rd_ptr \in Ptr(RingBeats) /\ hwr \in Ptr(RingBeats)
  BY DEF TypeOK
<1>1. /\ Buffered' = Buffered + 1 /\ rptr' = rptr
      /\ \A i \in 1 .. Buffered :
           mem'[(rptr + (i - 1)) % FifoDepth] = mem[(rptr + (i - 1)) % FifoDepth]
      /\ mem'[(rptr + Buffered) % FifoDepth] = 2 * beat + 1
  BY PushPlaces DEF RingPush1, SamplesOf, TypeOK
<1>2. /\ Pushed = 1 /\ Pushed' = 0 /\ Beats' = Beats - 1 /\ BeatAt(0) = beat
      /\ \A k \in 0 .. Beats - 2 : BeatAt(k)' = BeatAt(k + 1)
  <2>1. Pushed = 1 /\ Pushed' = 0 /\ BeatAt(0) = beat
    BY DEF RingPush1, Pushed, BeatAt
  <2>2. /\ Synced /\ Ahead(hwr, fab_rd_ptr, RingBeats) \in 1 .. RingBeats
        /\ Synced' /\ hwr' = hwr /\ ring' = ring
        /\ fab_rd_ptr' = Advance(fab_rd_ptr, RingBeats) /\ state' = "WAIT"
    BY UnreadRange DEF RingPush1, hpsVars, mboxVars, Synced
  <2>3. Beats' = Beats - 1
    BY <1>0, <2>2, AheadSteps DEF Beats
  <2>4. ASSUME NEW k \in 0 .. Beats - 2
        PROVE  BeatAt(k)' = BeatAt(k + 1)
    <3>1. k \in 0 .. RingBeats - 2 /\ k + 1 # 0
      BY <2>2 DEF Beats
    <3>2. (fab_rd_ptr' + k) % RingBeats = (fab_rd_ptr + (k + 1)) % RingBeats
      BY <1>0, <2>2, <3>1, Places
    <3>3. QED
      BY <2>2, <3>1, <3>2 DEF BeatAt
  <2>5. QED
    BY <2>1, <2>3, <2>4
<1>3. /\ Len(Waiting') = Len(Waiting)
      /\ Buffered \in Nat /\ Beats \in Nat /\ Len(Waiting) = Buffered + 2 * Beats - 1 /\ Beats > 0
  BY <1>1, <1>2, FifoDepthAssumption DEF Shape
<1>4. ASSUME NEW i \in 1 .. Len(Waiting)
      PROVE  Waiting'[i] = Waiting[i]
  <2>1. CASE i <= Buffered + 1
    <3>1. i \in 1 .. Buffered'
      BY <1>1, <1>3, <2>1
    <3>2. Waiting'[i] = mem'[(rptr + (i - 1)) % FifoDepth]
      BY <1>1, <3>1 DEF Shape
    <3>3. CASE i <= Buffered
      <4>1. i \in 1 .. Buffered
        BY <1>3, <3>3
      <4>2. Waiting[i] = mem[(rptr + (i - 1)) % FifoDepth]
        BY <4>1 DEF Shape
      <4>3. QED
        BY <1>1, <3>2, <4>1, <4>2
    <3>4. CASE i = Buffered + 1
      <4>1. i - 1 = Buffered
        BY <1>3, <3>4
      <4>2. Waiting[i] = 2 * BeatAt(1 \div 2) + (1 % 2)
        <5>1. 1 \in Pushed .. 2 * Beats - 1 /\ Buffered - Pushed + 1 + 1 = i
          BY <1>2, <1>3, <3>4
        <5>2. QED
          BY <5>1 DEF Shape
      <4>3. 1 \div 2 = 0 /\ 1 % 2 = 1
        OBVIOUS
      <4>4. Waiting[i] = 2 * beat + 1
        BY <1>2, <4>2, <4>3
      <4>5. QED
        BY <1>1, <3>2, <4>1, <4>4
    <3>5. QED
      BY <1>3, <2>1, <3>3, <3>4
  <2>2. CASE i > Buffered + 1
    <3> DEFINE j == i - Buffered - 2
    <3>1. /\ j + 2 \in Pushed .. 2 * Beats - 1 /\ j \in Pushed' .. 2 * Beats' - 1
          /\ Buffered - Pushed + 1 + (j + 2) = i /\ Buffered' - Pushed' + 1 + j = i
      BY <1>1, <1>2, <1>3, <2>2
    <3>2. /\ (j + 2) \div 2 = (j \div 2) + 1 /\ (j + 2) % 2 = j % 2 /\ j \div 2 \in 0 .. Beats - 2
      BY <1>2, <1>3, <3>1
    <3>3. Waiting[i] = 2 * BeatAt((j \div 2) + 1) + (j % 2)
      <4> HIDE DEF j
      <4>1. Waiting[Buffered - Pushed + 1 + (j + 2)] = 2 * BeatAt((j + 2) \div 2) + ((j + 2) % 2)
        BY <3>1 DEF Shape
      <4>2. QED
        BY <3>1, <3>2, <4>1
    <3> HIDE DEF j
    <3>4. \A m \in Pushed' .. 2 * Beats' - 1, k \in 0 .. Beats - 2 :
            k = m \div 2 => Waiting'[Buffered' - Pushed' + 1 + m] = 2 * BeatAt(k)' + (m % 2)
      BY DEF Shape
    <3>5. Waiting'[i] = 2 * BeatAt((j \div 2) + 1) + (j % 2)
      BY <1>2, <3>1, <3>2, <3>4
    <3>6. QED
      BY <3>3, <3>5
  <2>3. QED
    BY <1>3, <2>1, <2>2
<1>5. QED
  BY <1>3, <1>4, SameQueue

(* A decoded beat joins the tail, or is lost on a service that has not heard  *)
(* of a reset.                                                              *)
LEMMA DecodeStep ==
  ASSUME TypeOK, IInv, Shape, Shape', HpsDecode
  PROVE  IF Synced THEN Waiting' = Waiting \o SamplesOf(decoded) ELSE Waiting' = Waiting
<1> USE RingBeatsAssumption
<1>0. /\ fab_rd_ptr \in Ptr(RingBeats) /\ hwr \in Ptr(RingBeats) /\ decoded \in Nat
      /\ ring \in [0 .. RingBeats - 1 -> Nat]
  BY MaxBeatsAssumption DEF TypeOK
<1>1. /\ UNCHANGED <<hepoch, rst_epoch, state, fab_rd_ptr, beat, mem, wptr, rptr>>
      /\ hwr' = Advance(hwr, RingBeats)
      /\ ring' = [ring EXCEPT ![Slot(hwr, RingBeats)] = decoded]
      /\ Ahead(hwr, hrd, RingBeats) < RingBeats
  BY DEF HpsDecode, mboxVars, readerVars, bufferVars
<1>2. Buffered' = Buffered /\ Pushed' = Pushed
  BY <1>1 DEF Buffered, Pushed
<1>3. CASE ~Synced
  <2>1. Beats = 0 /\ Beats' = 0
    BY <1>1, <1>3 DEF Beats, Synced
  <2>2. \A k \in 0 .. Beats - 1 : BeatAt(k)' = BeatAt(k)
    BY <2>1
  <2>3. QED
    BY <1>1, <1>2, <1>3, <2>1, <2>2, Undisturbed
<1>4. CASE Synced
  <2>1. Beats = Ahead(hwr, fab_rd_ptr, RingBeats) /\ Beats \in 0 .. RingBeats - 1
    BY <1>1, <1>4, UnreadRange DEF Beats
  <2>2. Beats' = Beats + 1
    <3>1. Ahead(Advance(hwr, RingBeats), fab_rd_ptr, RingBeats) = Ahead(hwr, fab_rd_ptr, RingBeats) + 1
      BY <1>0, <2>1, AheadSteps
    <3>2. QED
      BY <1>1, <1>4, <2>1, <3>1 DEF Beats, Synced
  <2>3. (fab_rd_ptr + Beats) % RingBeats = Slot(hwr, RingBeats)
    BY <1>0, <2>1, PlaceAtWriter
  <2>4. Slot(hwr, RingBeats) \in 0 .. RingBeats - 1
    BY <1>0, SlotType
  <2>5. state \in {"PUSH0", "PUSH1"} => Beats > 0
    BY <2>1, UnreadRange
  <2>6. BeatAt(Beats)' = BeatAt(Beats)' /\ \A k : k = Beats => BeatAt(k)' = decoded
    BY <1>0, <1>1, <2>3, <2>4, <2>5 DEF BeatAt
  <2>7. ASSUME NEW k \in 0 .. Beats - 1
        PROVE  BeatAt(k)' = BeatAt(k)
    <3>1. k \in 0 .. RingBeats - 1 /\ Beats \in 0 .. RingBeats - 1 /\ k # Beats
      BY <2>1
    <3>2. /\ (fab_rd_ptr + k) % RingBeats \in 0 .. RingBeats - 1
          /\ (fab_rd_ptr + k) % RingBeats # (fab_rd_ptr + Beats) % RingBeats
      BY <1>0, <3>1, Places
    <3>3. QED
      BY <1>0, <1>1, <2>3, <3>2 DEF BeatAt
  <2>8. /\ Buffered \in Nat /\ Len(Waiting) = Buffered + 2 * Beats - Pushed
        /\ Len(Waiting') = Len(Waiting) + 2 /\ Pushed \in 0 .. 1 /\ Len(Waiting) \in Nat
        /\ Beats \in Nat /\ (Pushed = 1 => Beats > 0)
    <3>1. /\ Len(Waiting) = Buffered + 2 * Beats - Pushed /\ Len(Waiting') = Buffered' + 2 * Beats' - Pushed'
          /\ Buffered \in 0 .. FifoDepth /\ Pushed \in 0 .. 1 /\ (Pushed = 1 => Beats > 0)
      BY DEF Shape
    <3>2. Beats \in Nat /\ Buffered \in Nat
      BY <2>1, <3>1, FifoDepthAssumption
    <3>3. QED
      BY <1>2, <2>2, <3>1, <3>2
  <2>8s. Waiting \in Seq(Nat) /\ Waiting' \in Seq(Nat)
    BY DEF Shape
  <2>9. SamplesOf(decoded) = <<2 * decoded, 2 * decoded + 1>>
    BY DEF SamplesOf
  <2>10. /\ SamplesOf(decoded) \in Seq(Nat) /\ Len(SamplesOf(decoded)) = 2
         /\ SamplesOf(decoded)[1] = 2 * decoded /\ SamplesOf(decoded)[2] = 2 * decoded + 1
    BY <1>0, <2>9
  <2>11. /\ Waiting \o SamplesOf(decoded) \in Seq(Nat)
         /\ Len(Waiting \o SamplesOf(decoded)) = Len(Waiting) + 2
         /\ \A i \in 1 .. Len(Waiting) + 2 : (Waiting \o SamplesOf(decoded))[i] =
              IF i <= Len(Waiting) THEN Waiting[i] ELSE SamplesOf(decoded)[i - Len(Waiting)]
    <3> DEFINE t == SamplesOf(decoded)
    <3>1. t \in Seq(Nat) /\ Len(t) = 2
      BY <2>10
    <3> HIDE DEF t
    <3>2. /\ Waiting \o t \in Seq(Nat)
          /\ Len(Waiting \o t) = Len(Waiting) + Len(t)
          /\ \A i \in 1 .. Len(Waiting) + Len(t) : (Waiting \o t)[i] =
               IF i <= Len(Waiting) THEN Waiting[i] ELSE t[i - Len(Waiting)]
      BY <2>8s, <3>1, ConcatProperties, Zenon
    <3>3. QED
      BY <3>1, <3>2, Zenon DEF t
  <2>12. \A m \in Pushed .. 2 * (Beats + 1) - 1, k \in 0 .. Beats :
           k = m \div 2 => Waiting'[Buffered - Pushed + 1 + m] = 2 * BeatAt(k)' + (m % 2)
    BY <1>2, <2>2 DEF Shape
  <2>13. ASSUME NEW i \in 1 .. Len(Waiting) + 2
         PROVE  Waiting'[i] = (Waiting \o SamplesOf(decoded))[i]
    <3>1. CASE i <= Buffered
      <4>1. i \in 1 .. Buffered /\ i \in 1 .. Buffered' /\ i <= Len(Waiting)
        BY <1>2, <2>8, <3>1
      <4>2. Waiting[i] = mem[(rptr + (i - 1)) % FifoDepth]
        BY <4>1 DEF Shape
      <4>3. Waiting'[i] = mem'[(rptr' + (i - 1)) % FifoDepth]
        BY <4>1 DEF Shape
      <4>4. QED
        BY <1>1, <2>11, <4>1, <4>2, <4>3
    <3>2. CASE i > Buffered /\ i <= Len(Waiting)
      <4> DEFINE j == i - Buffered + Pushed - 1
      <4>1. /\ j \in Pushed .. 2 * Beats - 1 /\ j \in Pushed .. 2 * (Beats + 1) - 1
            /\ Buffered - Pushed + 1 + j = i /\ j \div 2 \in 0 .. Beats - 1 /\ j \div 2 \in 0 .. Beats
        BY <2>8, <3>2
      <4> HIDE DEF j
      <4>2. Waiting[i] = 2 * BeatAt(j \div 2) + (j % 2)
        BY <4>1 DEF Shape
      <4>3. Waiting'[i] = 2 * BeatAt(j \div 2) + (j % 2)
        BY <2>7, <2>12, <4>1
      <4>4. QED
        BY <2>11, <3>2, <4>2, <4>3
    <3>3. CASE i > Len(Waiting)
      <4> DEFINE m == 2 * Beats + (i - Len(Waiting) - 1)
      <4>1. /\ m \in Pushed .. 2 * (Beats + 1) - 1 /\ Beats \in 0 .. Beats /\ Beats = m \div 2
            /\ m % 2 = i - Len(Waiting) - 1 /\ Buffered - Pushed + 1 + m = i
            /\ i - Len(Waiting) \in 1 .. 2
        <5>1. i - Len(Waiting) - 1 \in 0 .. 1
          BY <2>8, <3>3
        <5>2. Beats \in Nat
          BY <2>1
        <5>3. \A b \in Nat, x \in 0 .. 1 : b = (2 * b + x) \div 2 /\ (2 * b + x) % 2 = x
          OBVIOUS
        <5>4. m % 2 = i - Len(Waiting) - 1 /\ Beats = m \div 2
          BY <5>1, <5>2, <5>3
        <5>5. m \in Pushed .. 2 * (Beats + 1) - 1 /\ Buffered - Pushed + 1 + m = i
              /\ Beats \in 0 .. Beats
          BY <2>8, <5>1, <5>2
        <5>6. QED
          BY <2>8, <3>3, <5>4, <5>5
      <4> HIDE DEF m
      <4>2. Waiting'[i] = 2 * decoded + (i - Len(Waiting) - 1)
        BY <2>6, <2>12, <4>1
      <4>3. SamplesOf(decoded)[i - Len(Waiting)] = 2 * decoded + (i - Len(Waiting) - 1)
        <5>1. i - Len(Waiting) = 1 \/ i - Len(Waiting) = 2
          BY <4>1
        <5>2. QED
          <6>1. CASE i - Len(Waiting) = 1
          BY <1>0, <2>10, <6>1
        <6>2. CASE i - Len(Waiting) = 2
          BY <1>0, <2>10, <6>2
        <6>3. QED
          BY <5>1, <6>1, <6>2
      <4>4. ~(i <= Len(Waiting))
        BY <2>8, <3>3
      <4>5. (Waiting \o SamplesOf(decoded))[i] = SamplesOf(decoded)[i - Len(Waiting)]
        BY <2>11, <4>4, Zenon
      <4>6. QED
        BY <4>2, <4>3, <4>5, Zenon
    <3>4. i <= Buffered \/ (i > Buffered /\ i <= Len(Waiting)) \/ i > Len(Waiting)
      BY <2>8
    <3>5. QED
      BY <3>1, <3>2, <3>3, <3>4, Zenon
  <2>14. Waiting' = Waiting \o SamplesOf(decoded)
    BY <2>8, <2>11, <2>13, <2>8s, SeqEqual
  <2>15. QED
    BY <1>4, <2>14
<1>5. QED
  BY <1>3, <1>4
(* The drain takes the head of the queue. *)
LEMMA DrainStep ==
  ASSUME TypeOK, PathInv, Shape, Shape', DrainPop
  PROVE  Waiting # <<>> /\ played' = Head(Waiting) + 1 /\ Waiting' = Tail(Waiting)
<1> USE FifoDepthAssumption
<1>0. wptr \in Ptr(FifoDepth) /\ rptr \in Ptr(FifoDepth)
  BY DEF TypeOK
<1>1. /\ UNCHANGED <<mem, wptr, hwr, fab_rd_ptr, hepoch, rst_epoch, state, beat, ring>>
      /\ rptr' = Advance(rptr, FifoDepth) /\ wptr # rptr
      /\ played' = mem[Slot(rptr, FifoDepth)] + 1
  BY DEF DrainPop, empty, hpsVars, mboxVars, readerVars
<1>2. Buffered > 0 /\ Buffered' = Buffered - 1
  <2>1. /\ Ahead(wptr, rptr, FifoDepth) \in 0 .. 2 * FifoDepth - 1
        /\ Ahead(wptr, rptr, FifoDepth) = 0 <=> wptr = rptr
        /\ Ahead(wptr, rptr, FifoDepth) > 0 =>
             Ahead(wptr, Advance(rptr, FifoDepth), FifoDepth) = Ahead(wptr, rptr, FifoDepth) - 1
    BY <1>0, AheadSteps
  <2>2. QED
    BY <1>1, <2>1 DEF Buffered
<1>3. /\ Beats' = Beats /\ Pushed' = Pushed
      /\ \A k \in 0 .. Beats - 1 : BeatAt(k)' = BeatAt(k)
  BY <1>1 DEF Beats, Synced, Pushed, BeatAt
<1>4. Waiting \in Seq(Nat) /\ Waiting' \in Seq(Nat)
  BY DEF Shape
<1>5. /\ Buffered \in 0 .. FifoDepth /\ Beats \in Nat /\ Pushed \in 0 .. 1
      /\ Pushed = 1 => Beats > 0
      /\ Len(Waiting) = Buffered + 2 * Beats - Pushed
      /\ Len(Waiting') = Buffered' + 2 * Beats' - Pushed'
  BY RingBeatsAssumption DEF Shape
<1>6. Len(Waiting) \in Nat /\ Len(Waiting) > 0 /\ Len(Waiting') = Len(Waiting) - 1
  BY <1>2, <1>3, <1>5
<1>7. Waiting # <<>>
  <2>1. Len(<<>>) = 0
    OBVIOUS
  <2>2. QED
    BY <1>6, <2>1
<1>8. Head(Waiting) = mem[Slot(rptr, FifoDepth)]
  <2>1. 1 \in 1 .. Buffered
    BY <1>2, <1>5
  <2>2. Waiting[1] = mem[(rptr + (1 - 1)) % FifoDepth]
    BY <2>1 DEF Shape
  <2>3. 1 - 1 = 0 /\ (rptr + 0) % FifoDepth = Slot(rptr, FifoDepth)
    BY <1>0, Places
  <2>4. QED
    BY <1>4, <1>7, <2>2, <2>3
<1>9. /\ Tail(Waiting) \in Seq(Nat) /\ Len(Tail(Waiting)) = Len(Waiting) - 1
      /\ \A i \in 1 .. Len(Waiting) - 1 : Tail(Waiting)[i] = Waiting[i + 1]
  BY <1>4, <1>7, HeadTailProperties
<1>10. ASSUME NEW i \in 1 .. Len(Waiting) - 1
       PROVE  Waiting'[i] = Waiting[i + 1]
  <2>1. CASE i + 1 <= Buffered
    <3>1. i \in 1 .. Buffered' /\ i + 1 \in 1 .. Buffered /\ i - 1 \in 0 .. FifoDepth - 2
          /\ (i + 1) - 1 = (i - 1) + 1
      BY <1>2, <1>5, <2>1
    <3>2. Waiting[i + 1] = mem[(rptr + ((i + 1) - 1)) % FifoDepth]
      BY <3>1 DEF Shape
    <3>3. Waiting'[i] = mem'[(rptr' + (i - 1)) % FifoDepth]
      BY <3>1 DEF Shape
    <3>4. (Advance(rptr, FifoDepth) + (i - 1)) % FifoDepth = (rptr + ((i - 1) + 1)) % FifoDepth
      BY <1>0, <3>1, Places
    <3>5. QED
      BY <1>1, <3>1, <3>2, <3>3, <3>4
  <2>2. CASE i + 1 > Buffered
    <3> DEFINE j == i - Buffered + Pushed
    <3>1. /\ j \in Pushed .. 2 * Beats - 1 /\ j \div 2 \in 0 .. Beats - 1
          /\ Buffered - Pushed + 1 + j = i + 1 /\ Buffered' - Pushed + 1 + j = i
      BY <1>2, <1>5, <2>2
    <3> HIDE DEF j
    <3>2. Waiting[i + 1] = 2 * BeatAt(j \div 2) + (j % 2)
      BY <3>1 DEF Shape
    <3>3. \A m \in Pushed .. 2 * Beats - 1, k \in 0 .. Beats - 1 :
            k = m \div 2 => Waiting'[Buffered' - Pushed + 1 + m] = 2 * BeatAt(k)' + (m % 2)
      BY <1>3 DEF Shape
    <3>4. QED
      BY <1>3, <3>1, <3>2, <3>3
  <2>3. i + 1 <= Buffered \/ i + 1 > Buffered
    BY <1>5
  <2>4. QED
    BY <2>1, <2>2, <2>3
<1>11. Waiting' = Tail(Waiting)
  BY <1>4, <1>6, <1>9, <1>10, SeqEqual
<1>12. QED
  BY <1>1, <1>7, <1>8, <1>11

(* The beat the channel returned is the one the reader's slot holds. *)
LEMMA LatchStep ==
  ASSUME TypeOK, PathInv, Shape, Shape', RingLatch
  PROVE  Waiting' = Waiting
<1>1. /\ UNCHANGED <<mem, wptr, rptr, hwr, fab_rd_ptr, hepoch, rst_epoch, ring>>
      /\ state = "REQ" /\ state' = "PUSH0" /\ beat' = ring[Slot(fab_rd_ptr, RingBeats)]
  BY DEF RingLatch, PathInv, hpsVars, mboxVars, bufferVars
<1>2. (fab_rd_ptr + 0) % RingBeats = Slot(fab_rd_ptr, RingBeats)
  BY RingBeatsAssumption, Places DEF TypeOK
<1>3. \A k \in 0 .. Beats - 1 : BeatAt(k)' = BeatAt(k)
  BY <1>1, <1>2 DEF BeatAt
<1>4. Buffered' = Buffered /\ Beats' = Beats /\ Pushed' = Pushed
  BY <1>1 DEF Buffered, Beats, Synced, Pushed
<1>5. QED
  BY <1>1, <1>3, <1>4, Undisturbed

(* An exchange of the mailbox, heard or broken off, moves nothing of it. *)
LEMMA ExchangeStep ==
  ASSUME IInv, Shape, Shape', Exchange
  PROVE  Waiting' = Waiting
<1>1. UNCHANGED <<mem, wptr, rptr, fab_rd_ptr, rst_epoch, state, beat, ring>>
  BY DEF Exchange, PtrsCmd, PtrsWord1, PtrsWord3, PtrsAbort, mboxVars, readerVars, bufferVars
<1>2. Beats' = Beats
  <2>1. CASE PtrsWord3 /\ snap # hepoch
    <3>1. ~Synced /\ fab_rd_ptr = 0
      BY <2>1 DEF PtrsWord3, IInv, EpochInv, Synced
    <3>2. hwr' = 0 /\ fab_rd_ptr' = 0
      BY <1>1, <2>1, <3>1 DEF PtrsWord3, Reinit
    <3>3. QED
      BY <3>1, <3>2 DEF Beats, Ahead
  <2>2. CASE ~(PtrsWord3 /\ snap # hepoch)
    <3>1. UNCHANGED <<hwr, hepoch>>
      BY <2>2 DEF Exchange, PtrsCmd, PtrsWord1, PtrsWord3, PtrsAbort, Keep
    <3>2. QED
      BY <1>1, <3>1 DEF Beats, Synced
  <2>3. QED
    BY <2>1, <2>2
<1>3. Buffered' = Buffered /\ Pushed' = Pushed /\ \A k \in 0 .. Beats - 1 : BeatAt(k)' = BeatAt(k)
  BY <1>1 DEF Buffered, Pushed, BeatAt
<1>4. QED
  BY <1>1, <1>2, <1>3, Undisturbed

(* A rewind drops the tail of the queue and keeps the beat in hand ... *)
LEMMA CollapseStep ==
  ASSUME TypeOK, IInv, Shape, Shape', HpsCollapse
  PROVE  \E n \in 0 .. Len(Waiting) : Waiting' = SubSeq(Waiting, 1, n)
<1> USE RingBeatsAssumption
<1>0. fab_rd_ptr \in Ptr(RingBeats) /\ hwr \in Ptr(RingBeats)
  BY DEF TypeOK
<1>1. /\ UNCHANGED <<mem, wptr, rptr, fab_rd_ptr, hepoch, rst_epoch, state, beat, ring>>
      /\ hwr' = Advance(fab_rd_ptr, RingBeats) /\ Ahead(hwr, fab_rd_ptr, RingBeats) > 1
  BY DEF HpsCollapse, mboxVars, readerVars, bufferVars
<1>2. /\ Buffered' = Buffered /\ Pushed' = Pushed
      /\ \A k \in 0 .. Beats - 1 : BeatAt(k)' = BeatAt(k)
  BY <1>1 DEF Buffered, Pushed, BeatAt
<1>3. IF Synced THEN Beats > 1 /\ Beats' = 1 ELSE Beats = 0 /\ Beats' = 0
  <2>1. Ahead(Advance(fab_rd_ptr, RingBeats), fab_rd_ptr, RingBeats) = 1
    BY <1>0 DEF Ahead, Advance, Ptr
  <2>2. QED
    BY <1>1, <2>1 DEF Beats, Synced
<1>4. /\ Buffered \in Nat /\ Beats \in Nat /\ Pushed \in 0 .. 1
      /\ Len(Waiting) = Buffered + 2 * Beats - Pushed
      /\ Len(Waiting') = Buffered' + 2 * Beats' - Pushed'
  BY FifoDepthAssumption DEF Shape
<1>5. Len(Waiting') <= Len(Waiting)
  BY <1>2, <1>3, <1>4
<1>6. ASSUME NEW i \in 1 .. Len(Waiting')
      PROVE  Waiting'[i] = Waiting[i]
  <2>1. CASE i <= Buffered
    <3>1. i \in 1 .. Buffered /\ i \in 1 .. Buffered'
      BY <1>2, <1>4, <2>1
    <3>2. Waiting[i] = mem[(rptr + (i - 1)) % FifoDepth]
      BY <3>1 DEF Shape
    <3>3. Waiting'[i] = mem'[(rptr' + (i - 1)) % FifoDepth]
      BY <3>1 DEF Shape
    <3>4. QED
      BY <1>1, <3>2, <3>3
  <2>2. CASE i > Buffered
    <3> DEFINE j == i - Buffered + Pushed - 1
    <3>1. /\ j \in Pushed .. 2 * Beats - 1 /\ j \in Pushed .. 2 * Beats' - 1
          /\ j \div 2 \in 0 .. Beats - 1 /\ Buffered - Pushed + 1 + j = i
      BY <1>2, <1>3, <1>4, <2>2
    <3> HIDE DEF j
    <3>2. Waiting[i] = 2 * BeatAt(j \div 2) + (j % 2)
      BY <3>1 DEF Shape
    <3>3. \A m \in Pushed .. 2 * Beats' - 1, k \in 0 .. Beats - 1 :
            k = m \div 2 => Waiting'[Buffered - Pushed + 1 + m] = 2 * BeatAt(k)' + (m % 2)
      BY <1>2 DEF Shape
    <3>4. QED
      BY <1>2, <3>1, <3>2, <3>3
  <2>3. i <= Buffered \/ i > Buffered
    BY <1>4
  <2>4. QED
    BY <2>1, <2>2, <2>3
<1>7. QED
  BY <1>5, <1>6, CutQueue

(* ... and a reset drops all of it. *)
LEMMA ResetStep ==
  ASSUME Shape, Shape', CoreReset
  PROVE  \E n \in 0 .. Len(Waiting) : Waiting' = SubSeq(Waiting, 1, n)
<1>1. Buffered' = 0 /\ Beats' = 0 /\ Pushed' = 0
  BY DEF CoreReset, BumpEpoch, hpsVars, Buffered, Beats, Synced, Pushed, Ahead
<1>2. Len(Waiting') = 0
  BY <1>1 DEF Shape
<1>3. Len(Waiting) \in Nat
  BY LenProperties DEF Shape
<1>4. Len(Waiting') <= Len(Waiting) /\ \A i \in 1 .. Len(Waiting') : Waiting'[i] = Waiting[i]
  BY <1>2, <1>3
<1>5. QED
  BY <1>4, CutQueue
(* Every step of the path is one of the queue, or leaves it as it is. *)
LEMMA PathRefines ==
  ASSUME TypeOK, IInv, PathInv, Shape, Shape', [Next]_vars
  PROVE  [Fifo!FifoNext]_(Fifo!fifoVars)
<1> USE DEF Fifo!fifoVars
<1>0. Fifo!fifoVars' = Fifo!fifoVars <=> (decoded' = decoded /\ Waiting' = Waiting /\ played' = played)
  BY DEF Waiting
<1>1. CASE RingFetch \/ RingWait \/ Channel \/ \E on \in BOOLEAN : CtrlDrain(on)
  <2>1. UNCHANGED <<mem, wptr, rptr, hwr, fab_rd_ptr, hepoch, rst_epoch, beat, ring, decoded, played>>
    BY <1>1 DEF RingFetch, RingWait, Channel, DdrAnswer, DdrRelease, CtrlDrain,
                hpsVars, mboxVars, readerVars, bufferVars
  <2>2. state' = state \/ {state, state'} \subseteq {"IDLE", "REQ", "WAIT"}
    BY <1>1 DEF RingFetch, RingWait, Channel, DdrAnswer, DdrRelease, CtrlDrain, readerVars
  <2>3. /\ Buffered' = Buffered /\ Beats' = Beats /\ Pushed' = Pushed
        /\ \A k \in 0 .. Beats - 1 : BeatAt(k)' = BeatAt(k)
    BY <2>1, <2>2 DEF Buffered, Beats, Synced, Pushed, BeatAt
  <2>4. Waiting' = Waiting
    BY <2>1, <2>3, Undisturbed
  <2>5. QED
    BY <1>0, <2>1, <2>4
<1>2. CASE RingLatch \/ RingPush0 \/ RingPush1 \/ Exchange
  <2>1. UNCHANGED <<decoded, played>>
    BY <1>2 DEF RingLatch, RingPush0, RingPush1, Push, Exchange, PtrsCmd, PtrsWord1, PtrsWord3,
                PtrsAbort, hpsVars, bufferVars
  <2>2. Waiting' = Waiting
    BY <1>2, LatchStep, Push0Step, Push1Step, ExchangeStep
  <2>3. QED
    BY <1>0, <2>1, <2>2
<1>3. CASE DrainPop
  <2>1. Waiting # <<>> /\ played' = Head(Waiting) + 1 /\ Waiting' = Tail(Waiting)
    BY <1>3, DrainStep
  <2>2. decoded' = decoded
    BY <1>3 DEF DrainPop, hpsVars
  <2>3. Fifo!Play
    BY <2>1, <2>2 DEF Fifo!Play, Waiting
  <2>4. QED
    BY <2>3 DEF Fifo!FifoNext
<1>4. CASE HpsDecode
  <2>1. decoded' = decoded + 1 /\ played' = played
    BY <1>4 DEF HpsDecode, bufferVars
  <2>2. IF Synced THEN Waiting' = Waiting \o SamplesOf(decoded) ELSE Waiting' = Waiting
    BY <1>4, DecodeStep
  <2>3. Fifo!SamplesOf(decoded) = SamplesOf(decoded)
    BY DEF Fifo!SamplesOf, SamplesOf
  <2>4. Fifo!Enqueue \/ Fifo!DecodeInVain
    BY <2>1, <2>2, <2>3, Zenon DEF Fifo!Enqueue, Fifo!DecodeInVain, Waiting
  <2>5. QED
    BY <2>4 DEF Fifo!FifoNext
<1>5. CASE HpsCollapse \/ CoreReset
  <2>1. UNCHANGED <<decoded, played>>
    BY <1>5 DEF HpsCollapse, CoreReset, hpsVars, bufferVars
  <2>2. \E n \in 0 .. Len(Waiting) : Waiting' = SubSeq(Waiting, 1, n)
    BY <1>5, CollapseStep, ResetStep
  <2>3. Fifo!Discard
    BY <2>1, <2>2, Zenon DEF Fifo!Discard, Waiting
  <2>4. QED
    BY <2>3 DEF Fifo!FifoNext
<1>6. CASE UNCHANGED vars
  <2>1. UNCHANGED <<mem, wptr, rptr, hwr, fab_rd_ptr, hepoch, rst_epoch, beat, ring, state, decoded, played>>
    BY <1>6 DEF vars, hpsVars, mboxVars, readerVars, bufferVars
  <2>2. /\ Buffered' = Buffered /\ Beats' = Beats /\ Pushed' = Pushed
        /\ \A k \in 0 .. Beats - 1 : BeatAt(k)' = BeatAt(k)
    BY <2>1 DEF Buffered, Beats, Synced, Pushed, BeatAt
  <2>3. Waiting' = Waiting
    BY <2>1, <2>2, Undisturbed
  <2>4. QED
    BY <1>0, <2>1, <2>3
<1>7. QED
  BY <1>1, <1>2, <1>3, <1>4, <1>5, <1>6 DEF Next, Reader, Service

(* What PathInv adds to the inductive invariant holds in every state. *)
THEOREM PathIsSafe == Spec => []PathInv
<1>1. Init => PathInv
  BY FifoDepthAssumption DEF Init, PathInv, Ahead
<1>2. TypeOK /\ IInv /\ PathInv /\ [Next]_vars => PathInv'
  BY PathStep
<1>3. QED
  BY <1>1, <1>2, TypeCorrect, InductiveInvariant, PTL DEF Spec

(* The decoded-PCM path implements the queue of SampleFifo for every depth of *)
(* ring and buffer: through laps of the ring, song changes, resets and polls  *)
(* that break off, samples are played in decode order and at most once.       *)
THEOREM PathImplementsFifo == Spec => ImplementsFifo
<1>1. Init => Fifo!FifoInit
  <2>1. SUFFICES ASSUME Init PROVE Fifo!FifoInit
    OBVIOUS
  <2>2. Ahead(wptr, rptr, FifoDepth) = 0 /\ Ahead(hwr, fab_rd_ptr, RingBeats) = 0
        /\ hepoch = rst_epoch /\ state = "IDLE"
    BY <2>1 DEF Init, Ahead
  <2>3. BufferContents = <<>>
    BY <2>2 DEF BufferContents
  <2>4. RingContents = <<>>
    BY <2>2 DEF RingContents
  <2>5. decoded = 0 /\ played = 0 /\ BufferContents \o RingContents = <<>>
    BY <2>1, <2>3, <2>4 DEF Init
  <2>6. QED
    BY <2>5 DEF Fifo!FifoInit
<1>2. TypeOK /\ IInv /\ PathInv /\ [Next]_vars /\ TypeOK' /\ IInv' /\ PathInv'
        => [Fifo!FifoNext]_(Fifo!fifoVars)
  <2>1. (TypeOK /\ IInv /\ PathInv => Shape) /\ (TypeOK' /\ IInv' /\ PathInv' => Shape')
    BY QueueShape, PTL
  <2>2. QED
    BY <2>1, PathRefines
<1>3. QED
  BY <1>1, <1>2, TypeCorrect, InductiveInvariant, PathIsSafe, PTL
     DEF Spec, ImplementsFifo, Fifo!FifoSpec
=============================================================================
