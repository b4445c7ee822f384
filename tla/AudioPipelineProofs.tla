------------------------ MODULE AudioPipelineProofs -------------------------
(***************************************************************************)
(* Ignoring the results of zix_ring_write and zix_ring_read is safe for    *)
(* every frame size, channel count and request of at most a block, and for *)
(* any number of callbacks: a ring of twice a block neither refuses a      *)
(* block nor runs dry.                                                     *)
(***************************************************************************)
EXTENDS AudioPipeline, TLAPS

(* What the callback knows at each of its positions.  A refill starts with *)
(* less than a block in the ring, hence ends with less than two.           *)
Progress ==
  /\ pc # "idle" => asked \in Requests
  /\ pc = "process" => ReadSpace < asked /\ produced = sent
  /\ pc = "fill" => ReadSpace < asked /\ produced = sent + Block
  /\ pc = "read" => ReadSpace - asked < Block

PipelineInv == TypeOK /\ NoBlockLost /\ NoUnderrun /\ LatencyBelowBlock /\ Progress

LEMMA BlockIsPositive == Block \in Nat /\ Block > 0
BY BlockAssumption DEF Block

LEMMA PipelineInit == Init => PipelineInv
<1> SUFFICES ASSUME Init PROVE PipelineInv
  OBVIOUS
<1>1. /\ active = FALSE /\ pc = "idle" /\ asked = 0 /\ produced = 0
      /\ sent = 0 /\ rcvd = 0
  BY DEF Init, Ring!Init
<1>2. active \in BOOLEAN
  BY <1>1, Zenon
<1>3. pc = "idle" /\ asked = 0 /\ produced = 0 /\ sent = 0 /\ rcvd = 0
  BY <1>1, Zenon
<1> QED
  BY <1>2, <1>3, BlockIsPositive, RingAssumption
  DEF PipelineInv, TypeOK, NoBlockLost, NoUnderrun, LatencyBelowBlock, Progress, ReadSpace

LEMMA PipelineStep == PipelineInv /\ [Next]_vars => PipelineInv'
<1> SUFFICES ASSUME PipelineInv, [Next]_vars PROVE PipelineInv'
  OBVIOUS
<1> USE BlockIsPositive, RingAssumption, RequestsAssumption
    DEF PipelineInv, TypeOK, NoBlockLost, NoUnderrun, LatencyBelowBlock, Progress, ReadSpace
<1>1. CASE Activated
  BY <1>1 DEF Activated
<1>2. CASE Deactivated
  BY <1>2 DEF Deactivated
<1>3. ASSUME NEW n \in Requests, OnAudioReady(n) PROVE PipelineInv'
  BY <1>3 DEF OnAudioReady, Starves
<1>4. CASE CallPluginProcess
  BY <1>4 DEF CallPluginProcess
<1>5. CASE FillAudioOutput
  <2>1. Ring!Put(Block)
    BY <1>5 DEF FillAudioOutput
  <2> QED BY <1>5, <2>1 DEF FillAudioOutput, Ring!Put
<1>6. CASE ReadRing
  <2>1. Ring!Get(asked)
    BY <1>6 DEF ReadRing
  <2> QED BY <1>6, <2>1 DEF ReadRing, Ring!Get
<1>7. CASE UNCHANGED vars
  BY <1>7 DEF vars
<1> QED BY <1>1, <1>2, <1>3, <1>4, <1>5, <1>6, <1>7 DEF Next

(* fillAudioOutput never loses a block.                                    *)
THEOREM BlocksAreKept == Spec => []NoBlockLost
<1>1. PipelineInv => NoBlockLost
  BY DEF PipelineInv
<1> QED BY <1>1, PipelineInit, PipelineStep, PTL DEF Spec

(* onAudioReady never finds too little in the ring after its refill.       *)
THEOREM DeviceIsServed == Spec => []NoUnderrun
<1>1. PipelineInv => NoUnderrun
  BY DEF PipelineInv
<1> QED BY <1>1, PipelineInit, PipelineStep, PTL DEF Spec

(* Between callbacks less than a block waits in the ring.                  *)
THEOREM LatencyIsBounded == Spec => []LatencyBelowBlock
<1>1. PipelineInv => LatencyBelowBlock
  BY DEF PipelineInv
<1> QED BY <1>1, PipelineInit, PipelineStep, PTL DEF Spec

(* The types, and a ring that never holds more than its capacity.          *)
THEOREM PipelineTypes == Spec => []TypeOK
<1>1. PipelineInv => TypeOK
  BY DEF PipelineInv
<1> QED BY <1>1, PipelineInit, PipelineStep, PTL DEF Spec
=============================================================================
