--------------------------- MODULE ForwardingProofs ---------------------------
(***************************************************************************)
(* Proofs about Forwarding, for rings of every depth and counters of every *)
(* width: IInv is inductive, and the safety invariants follow from it.     *)
(***************************************************************************)
EXTENDS Forwarding, ModArith, Sequences

(* The constants, as the arithmetic lemmas want them.                      *)
LEMMA Constants ==
    /\ Depth \in Nat \ {0} /\ 4 * Depth \in Nat \ {0}
    /\ IdxMod \in Nat \ {0} /\ IdxMod % (4 * Depth) = 0 /\ IdxMod % Depth = 0
    /\ CtrMod \in Nat \ {0} /\ CtrMod % Depth = 0 /\ Depth < CtrMod
  <1>1. Depth \in Nat \ {0} /\ 4 * Depth \in Nat \ {0}
    BY DepthAssumption
  <1>2. IdxMod \in Nat \ {0} /\ IdxMod % (4 * Depth) = 0
    BY IdxModAssumption
  <1>3. CtrMod \in Nat \ {0} /\ CtrMod % Depth = 0 /\ Depth < CtrMod
    BY <1>1, CtrModAssumption
  <1>4. IdxMod % Depth = 0
    <2>1. 4 * Depth = Depth * 4 /\ 4 \in Nat \ {0}  BY <1>1
    <2>2. QED  BY <1>1, <1>2, <2>1, ModFactor
  <1>5. QED  BY <1>1, <1>2, <1>3, <1>4

(* The owner bit is a bit, flips on every pass over the ring, and flips    *)
(* between neighbours only where the ring starts over.                     *)
LEMMA OwnerBit ==
    ASSUME NEW n \in Int
    PROVE  /\ NicOwner(n) \in Owners
           /\ NicOwner(n + Depth) = 1 - NicOwner(n)
           /\ NicOwner(n + 1) = IF (n + 1) % Depth = 0 THEN 1 - NicOwner(n)
                                                       ELSE NicOwner(n)
  <1> DEFINE q == n \div Depth
  <1>1. q \in Int  BY Constants, DivMod
  <1>2. (n + Depth) \div Depth = q + 1  BY Constants, ModPass
  <1>3. /\ (n + 1) % Depth = 0 => (n + 1) \div Depth = q + 1
        /\ (n + 1) % Depth # 0 => (n + 1) \div Depth = q
    BY Constants, ModSucc
  <1> HIDE DEF q
  <1>4. q % 2 \in {0, 1} /\ (q + 1) % 2 = 1 - (q % 2)  BY <1>1
  <1>5. NicOwner(n) = q % 2  BY DEF NicOwner, q
  <1>6. NicOwner(n + Depth) = (q + 1) % 2  BY <1>2 DEF NicOwner
  <1>7. NicOwner(n + 1) = IF (n + 1) % Depth = 0 THEN (q + 1) % 2 ELSE q % 2
    BY <1>3 DEF NicOwner
  <1>8. QED  BY <1>4, <1>5, <1>6, <1>7 DEF Owners

(* A wrapped counter and its neighbour in the ring.                        *)
LEMMA Wrapped ==
    ASSUME NEW n \in Int
    PROVE  /\ n % Depth \in Slots /\ n % CtrMod \in 0 .. CtrMod - 1
           /\ n % IdxMod \in 0 .. IdxMod - 1
           /\ (n % CtrMod) % Depth = n % Depth
           /\ (n % IdxMod) % Depth = n % Depth
           /\ ((n % CtrMod) + 1) % CtrMod = (n + 1) % CtrMod
           /\ ((n % IdxMod) + 1) % IdxMod = (n + 1) % IdxMod
           /\ ((n % IdxMod) + 4) % IdxMod = (n + 4) % IdxMod
  <1>1. n % Depth \in Slots /\ n % CtrMod \in 0 .. CtrMod - 1
        /\ n % IdxMod \in 0 .. IdxMod - 1
    BY Constants, DivMod DEF Slots
  <1>2. (n % CtrMod) % Depth = n % Depth /\ (n % IdxMod) % Depth = n % Depth
    BY Constants, ModOfMod
  <1>3. 1 \in Int /\ 4 \in Int  OBVIOUS
  <1>4. ((n % CtrMod) + 1) % CtrMod = (n + 1) % CtrMod  BY <1>3, Constants, ModAdd
  <1>5. ((n % IdxMod) + 1) % IdxMod = (n + 1) % IdxMod  BY <1>3, Constants, ModAdd
  <1>6. ((n % IdxMod) + 4) % IdxMod = (n + 4) % IdxMod  BY <1>3, Constants, ModAdd
  <1>7. QED  BY <1>1, <1>2, <1>4, <1>5, <1>6

(* The data segment of a WQE, from its number or from the wrapped segment  *)
(* index, and where two WQEs of one pass are.                              *)
LEMMA DataSegs ==
    ASSUME NEW k \in Int
    PROVE  /\ DataSeg(4 * k) \in SqSegs
           /\ DataSeg((4 * k) % IdxMod) = DataSeg(4 * k)
           /\ \A j \in Int : k < j /\ j < k + Depth =>
                 DataSeg(4 * k) # DataSeg(4 * j)
  <1>1. 4 * k + 2 \in Int /\ 4 * k \in Int /\ 2 \in Int  OBVIOUS
  <1>2. DataSeg(4 * k) \in SqSegs
    BY <1>1, Constants, DivMod DEF DataSeg, SQ_IDX_MASK, SqSegs
  <1>3. DataSeg((4 * k) % IdxMod) = DataSeg(4 * k)
    <2> DEFINE a == 4 * k
               b == (a % IdxMod) + 2
    <2>1. a \in Int /\ a + 2 \in Int /\ b \in Int  BY Constants, DivMod
    <2>2. b % IdxMod = (a + 2) % IdxMod  BY <1>1, <2>1, Constants, ModAdd
    <2> HIDE DEF a, b
    <2>3. (b % IdxMod) % (4 * Depth) = b % (4 * Depth)
      BY <2>1, Constants, ModOfMod
    <2>4. ((a + 2) % IdxMod) % (4 * Depth) = (a + 2) % (4 * Depth)
      BY <2>1, Constants, ModOfMod
    <2>5. b % (4 * Depth) = (a + 2) % (4 * Depth)  BY <2>2, <2>3, <2>4
    <2>6. QED  BY <2>5 DEF DataSeg, SQ_IDX_MASK, a, b
  <1>4. ASSUME NEW j \in Int, k < j, j < k + Depth
        PROVE  DataSeg(4 * k) # DataSeg(4 * j)
    <2> DEFINE a == 4 * k + 2
               b == 4 * j + 2
    <2>1. a \in Int /\ b \in Int /\ a < b /\ b < a + 4 * Depth
      BY <1>4, Constants
    <2> HIDE DEF a, b
    <2>2. a % (4 * Depth) # b % (4 * Depth)  BY <2>1, Constants, ModInjective
    <2>3. QED  BY <2>2 DEF DataSeg, SQ_IDX_MASK, a, b
  <1>5. QED  BY <1>2, <1>3, <1>4

(* Two receptions of one window of Depth use different entries.            *)
LEMMA SlotsApart ==
    ASSUME NEW a \in Int, NEW b \in Int, a # b, a < b + Depth, b < a + Depth
    PROVE  a % Depth # b % Depth
  <1>1. CASE a < b  BY <1>1, Constants, ModInjective
  <1>2. CASE b < a  BY <1>2, Constants, ModInjective
  <1>3. QED  BY <1>1, <1>2

-----------------------------------------------------------------------------
(* The invariant holds of the memory the host hands over.                  *)
LEMMA InitIInv == Init => IInv
  <1> SUFFICES ASSUME Init PROVE IInv  OBVIOUS
  <1> USE Constants DEF Init
  <1>1. 0 % IdxMod = 0 /\ 0 % Depth = 0 /\ 0 \div Depth = 0
    BY ModSmall
  <1>2. Depth % CtrMod = Depth  BY ModSmall
  <1>3. NicOwner(0) = 0  BY <1>1 DEF NicOwner
  <1>4. written = 0 /\ posted = 0 /\ freed = 0  BY DEF written, posted, freed
  <1>5. TypeInv
    BY DEF TypeInv, Content, NoContent, Packets, Nothing, Slots, Owners
  <1>6. CountersInv  BY <1>4 DEF CountersInv
  <1>7. ContextInv
    <2>1. Depth + freed = Depth /\ 4 * written = 0  BY <1>4
    <2>2. QED  BY <1>1, <1>2, <1>3, <1>4, <2>1 DEF ContextInv
  <1>8. ReceivedInv  BY DEF ReceivedInv
  <1>9. PostedInv  BY <1>4 DEF PostedInv
  <1>10. QED  BY <1>5, <1>6, <1>7, <1>8, <1>9 DEF IInv

-----------------------------------------------------------------------------
(* One lemma per action.  The counters first: how an action moves them.    *)
LEMMA Counters ==
    ASSUME TypeInv
    PROVE  /\ written \in Nat /\ posted \in Nat /\ freed \in Nat
           /\ taken <= freed /\ freed <= posted /\ posted <= written
           /\ written <= taken + 1
  BY DEF TypeInv, written, posted, freed

(* A reception, into an entry the NIC owns.                                *)
LEMMA NicReceiveIInv == IInv /\ NicReceive => IInv'
  <1> SUFFICES ASSUME IInv, NicReceive PROVE IInv'  OBVIOUS
  <1> USE DEF NicReceive, threadVars
  <1> DEFINE n == rxCount
  <1>t. TypeInv /\ n \in Nat /\ taken \in Nat /\ freed \in Nat
    BY Counters DEF IInv, TypeInv
  <1>1. written' = written /\ posted' = posted /\ freed' = freed
    BY DEF written, posted, freed
  <1>2. n < freed + Depth
    <2> DEFINE a == Depth + freed
    <2>1. a \in Int /\ (-n) \in Int  BY <1>t, Constants
    <2>2. rq_dbr = a % CtrMod /\ rq_dbr - n = (a % CtrMod) + (-n)
      BY <1>t, <2>1, Constants, Wrapped DEF IInv, ContextInv
    <2>3. ((a % CtrMod) + (-n)) % CtrMod = (a + (-n)) % CtrMod
      BY <2>1, Constants, ModAdd
    <2>4. n # a
      <3> SUFFICES ASSUME n = a PROVE FALSE  OBVIOUS
      <3>1. a + (-n) = 0  BY <2>1
      <3>2. 0 % CtrMod = 0  BY Constants, ModSmall
      <3>3. QED  BY <2>2, <2>3, <3>1, <3>2
    <2>5. QED  BY <1>t, <2>4, Constants DEF IInv, CountersInv
  <1>3. n % Depth \in Slots /\ n % CtrMod \in 0 .. CtrMod - 1 /\ NicOwner(n) \in Owners
    BY <1>t, Wrapped, OwnerBit
  <1>4. TypeInv'
    BY <1>t, <1>3 DEF TypeInv, Content, Packets
  <1>5. CountersInv'
    BY <1>t, <1>1, <1>2, Constants DEF IInv, CountersInv
  <1>6. ContextInv'
    BY <1>1 DEF IInv, ContextInv, NicOwner
  <1>7. ReceivedInv'
    <2>1. ASSUME NEW m \in 0 .. rxCount' - 1, rxCount' <= m + Depth
          PROVE  /\ cq_ring'[m % Depth] = [owner |-> NicOwner(m),
                                           wqe_counter |-> m % CtrMod]
                 /\ buffer'[m % Depth] = [pkt |-> m, swapped |-> SwapDone(m)']
      <3>1. CASE m = n
        <4>1. ~SwapDone(m)'
          BY <1>t, <3>1 DEF SwapDone, IInv, CountersInv
        <4>2. SwapDone(m)' = FALSE  BY <4>1 DEF SwapDone
        <4>3. m % Depth = n % Depth /\ NicOwner(m) = NicOwner(n)
              /\ m % CtrMod = n % CtrMod
          BY <3>1
        <4>4. cq_ring'[n % Depth] = [owner |-> NicOwner(n),
                                     wqe_counter |-> n % CtrMod]
          BY <1>3, <1>t DEF TypeInv
        <4>5. buffer'[n % Depth] = [pkt |-> n, swapped |-> FALSE]
          BY <1>3, <1>t DEF TypeInv
        <4>6. QED  BY <3>1, <4>2, <4>3, <4>4, <4>5
      <3>2. CASE m # n
        <4>1. m \in 0 .. n - 1 /\ n <= m + Depth /\ m < n + Depth /\ n < m + Depth
          BY <1>t, <2>1, <3>2, Constants
        <4>2. m % Depth # n % Depth  BY <1>t, <3>2, <4>1, SlotsApart
        <4>3. m % Depth \in Slots  BY <4>1, Wrapped
        <4>4. SwapDone(m)' = SwapDone(m)  BY DEF SwapDone
        <4>5. QED  BY <1>t, <4>1, <4>2, <4>3, <4>4 DEF IInv, ReceivedInv, TypeInv
      <3>3. QED  BY <3>1, <3>2
    <2>2. ASSUME NEW s \in Slots, s >= rxCount'
          PROVE  cq_ring'[s].owner = 1
      <3>1. s \in 0 .. Depth - 1 /\ s > n  BY <1>t, <2>2 DEF Slots
      <3>2. n % Depth = n  BY <1>t, <3>1, Constants, ModSmall
      <3>3. cq_ring'[s] = cq_ring[s]  BY <1>t, <3>1, <3>2 DEF TypeInv
      <3>4. QED  BY <1>t, <3>1, <3>3 DEF IInv, ReceivedInv, Slots
    <2>3. QED  BY <2>1, <2>2 DEF ReceivedInv
  <1>8. PostedInv'
    BY <1>1 DEF IInv, PostedInv, DataSeg, SQ_IDX_MASK
  <1>9. QED  BY <1>4, <1>5, <1>6, <1>7, <1>8 DEF IInv

(* What a WQE points at is a packet, or nothing.                           *)
LEMMA WqeContentType ==
    ASSUME TypeInv, NEW k \in Int
    PROVE  WqeContent(k) \in Content
  BY DataSegs DEF TypeInv, WqeContent, NoContent, Content, Packets, Nothing

(* A transmission, which changes no memory of the program.                 *)
LEMMA NicTransmitIInv == IInv /\ NicTransmit => IInv'
  <1> SUFFICES ASSUME IInv, NicTransmit PROVE IInv'  OBVIOUS
  <1> USE DEF NicTransmit, threadVars
  <1>t. TypeInv /\ txCount \in Nat /\ posted \in Nat
    BY Counters DEF IInv, TypeInv
  <1>1. written' = written /\ posted' = posted /\ freed' = freed
    BY DEF written, posted, freed
  <1>2. txCount < posted
    <2> DEFINE a == posted
               b == -txCount
    <2>1. a \in Int /\ b \in Int  BY <1>t
    <2>2. sq_db = a % IdxMod /\ sq_db - txCount = (a % IdxMod) + b
      BY <1>t, <2>1, Wrapped, Constants DEF IInv, ContextInv
    <2>3. txCount = posted => a + b = 0  BY <1>t
    <2> HIDE DEF a, b
    <2>4. txCount # posted
      <3>1. ((a % IdxMod) + b) % IdxMod = (a + b) % IdxMod
        BY <2>1, Constants, ModAdd
      <3>2. 0 % IdxMod = 0  BY Constants, ModSmall
      <3>3. QED  BY <2>2, <2>3, <3>1, <3>2
    <2>5. QED  BY <1>t, <2>4 DEF IInv, CountersInv
  <1>3. TypeInv'
    BY <1>t, WqeContentType DEF TypeInv
  <1>4. CountersInv'  BY <1>t, <1>1, <1>2 DEF IInv, CountersInv
  <1>5. ContextInv'  BY <1>1 DEF IInv, ContextInv, NicOwner
  <1>6. ReceivedInv'  BY DEF IInv, ReceivedInv, SwapDone, NicOwner
  <1>7. PostedInv'  BY <1>1 DEF IInv, PostedInv, DataSeg, SQ_IDX_MASK
  <1>8. QED  BY <1>3, <1>4, <1>5, <1>6, <1>7 DEF IInv

(* The packet in hand is the one the invariant speaks of.                  *)
LEMMA InHand ==
    ASSUME IInv, pc # "poll"
    PROVE  /\ taken \in 0 .. rxCount - 1 /\ taken % Depth \in Slots
           /\ pc # "read" => RqData = taken % Depth
           /\ pc # "step" =>
                /\ rxCount <= taken + Depth
                /\ cq_ring[cqe].wqe_counter = taken % CtrMod
                /\ buffer[taken % Depth] = [pkt |-> taken, swapped |-> SwapDone(taken)]
  <1>1. taken \in Nat /\ rxCount \in Nat /\ taken < rxCount
    BY DEF IInv, TypeInv, CountersInv
  <1>2. taken \in 0 .. rxCount - 1 /\ taken % Depth \in Slots
    BY <1>1, Wrapped
  <1>3. pc # "read" => RqData = taken % Depth
    BY <1>1, Wrapped DEF IInv, ContextInv, RqData, RqWqeAddr, RQ_IDX_MASK, TypeInv
  <1>4. ASSUME pc # "step"
        PROVE  /\ rxCount <= taken + Depth
               /\ cq_ring[cqe].wqe_counter = taken % CtrMod
               /\ buffer[taken % Depth] = [pkt |-> taken, swapped |-> SwapDone(taken)]
    <2>1. rxCount <= taken + Depth
      BY <1>4 DEF IInv, CountersInv, freed
    <2>2. /\ cq_ring[taken % Depth] = [owner |-> NicOwner(taken),
                                       wqe_counter |-> taken % CtrMod]
          /\ buffer[taken % Depth] = [pkt |-> taken, swapped |-> SwapDone(taken)]
      BY <1>2, <2>1 DEF IInv, ReceivedInv
    <2>3. QED  BY <2>1, <2>2 DEF IInv, ContextInv
  <1>5. QED  BY <1>2, <1>3, <1>4

(* The owner bit of the CQE a polling thread looks at.                      *)
LEMMA PollTells == IInv => PollTruthful
  <1> SUFFICES ASSUME IInv, pc = "poll" PROVE CqeReady <=> rxCount > taken
    BY DEF PollTruthful
  <1>1. TypeInv /\ taken \in Nat /\ rxCount \in Nat /\ taken <= rxCount
    BY DEF IInv, TypeInv, CountersInv
  <1>2. cqe = taken % Depth /\ cq_hw_owner_bit = 1 - NicOwner(taken)
    BY DEF IInv, ContextInv
  <1>3. CASE taken < rxCount
    <2>1. taken \in 0 .. rxCount - 1 /\ rxCount <= taken + Depth
      BY <1>1, <1>3 DEF IInv, CountersInv, freed
    <2>2. cq_ring[taken % Depth] = [owner |-> NicOwner(taken),
                                   wqe_counter |-> taken % CtrMod]
      BY <2>1 DEF IInv, ReceivedInv
    <2>3. NicOwner(taken) \in {0, 1}  BY <1>1, OwnerBit DEF Owners
    <2>4. QED  BY <1>2, <1>3, <2>2, <2>3 DEF CqeReady
  <1>4. CASE taken = rxCount /\ taken < Depth
    <2>1. taken \in 0 .. Depth - 1  BY <1>1, <1>4, Constants
    <2>2. taken % Depth = taken /\ taken \div Depth = 0
      BY <2>1, Constants, ModSmall
    <2>3. NicOwner(taken) = 0  BY <2>2 DEF NicOwner
    <2>4. cq_ring[cqe].owner = 1
      BY <1>1, <1>2, <1>4, <2>1, <2>2 DEF IInv, ReceivedInv, Slots
    <2>5. QED  BY <1>1, <1>2, <1>4, <2>3, <2>4 DEF CqeReady
  <1>5. CASE taken = rxCount /\ taken >= Depth
    <2> DEFINE n == taken - Depth
    <2>1. n \in 0 .. rxCount - 1 /\ rxCount <= n + Depth /\ n + Depth = taken
      BY <1>1, <1>5, Constants
    <2> HIDE DEF n
    <2>2. cq_ring[n % Depth] = [owner |-> NicOwner(n), wqe_counter |-> n % CtrMod]
      BY <2>1 DEF IInv, ReceivedInv
    <2>3. n % Depth = cqe /\ NicOwner(taken) = 1 - NicOwner(n)
      BY <1>2, <2>1, Constants, ModPass, OwnerBit
    <2>4. NicOwner(n) \in Owners  BY <2>1, OwnerBit
    <2>5. QED  BY <1>1, <1>2, <1>5, <2>2, <2>3, <2>4 DEF CqeReady, Owners
  <1>6. QED  BY <1>1, <1>3, <1>4, <1>5, Constants

(* The poll that finds a CQE: it is one not yet stepped over.              *)
LEMMA PollIInv == IInv /\ Poll => IInv'
  <1> SUFFICES ASSUME IInv, Poll PROVE IInv'  OBVIOUS
  <1> USE DEF Poll, nicVars
  <1>t. TypeInv  BY DEF IInv
  <1>1. written' = written /\ posted' = posted /\ freed' = freed
    BY DEF written, posted, freed
  <1>2. taken < rxCount
    BY <1>t, PollTells DEF PollTruthful
  <1>3. TypeInv'  BY <1>t DEF TypeInv
  <1>4. CountersInv'  BY <1>1, <1>2 DEF IInv, CountersInv
  <1>5. ContextInv'  BY <1>1 DEF IInv, ContextInv, NicOwner
  <1>6. ReceivedInv'  BY DEF IInv, ReceivedInv, SwapDone, NicOwner
  <1>7. PostedInv'  BY <1>1 DEF IInv, PostedInv, DataSeg, SQ_IDX_MASK
  <1>8. QED  BY <1>3, <1>4, <1>5, <1>6, <1>7 DEF IInv

(* pp_queue reads the number of the RQ entry from the CQE.                 *)
LEMMA ReadCqeIInv == IInv /\ ReadCqe => IInv'
  <1> SUFFICES ASSUME IInv, ReadCqe PROVE IInv'  OBVIOUS
  <1> USE DEF ReadCqe, nicVars
  <1>t. TypeInv  BY DEF IInv
  <1>1. written' = written /\ posted' = posted /\ freed' = freed
    BY DEF written, posted, freed
  <1>2. rq_wqe_idx' = taken % CtrMod  BY InHand
  <1>3. TypeInv'
    <2>1. rq_wqe_idx' \in 0 .. CtrMod - 1  BY <1>2, <1>t, Wrapped DEF TypeInv
    <2>2. QED  BY <1>t, <2>1 DEF TypeInv
  <1>4. CountersInv'  BY <1>1 DEF IInv, CountersInv
  <1>5. ContextInv'  BY <1>1, <1>2 DEF IInv, ContextInv, NicOwner
  <1>6. ReceivedInv'  BY DEF IInv, ReceivedInv, SwapDone, NicOwner
  <1>7. PostedInv'  BY <1>1 DEF IInv, PostedInv, DataSeg, SQ_IDX_MASK
  <1>8. QED  BY <1>3, <1>4, <1>5, <1>6, <1>7 DEF IInv

(* pp_queue swaps the MAC addresses in the buffer of the packet in hand.   *)
LEMMA SwapMacIInv == IInv /\ SwapMac => IInv'
  <1> SUFFICES ASSUME IInv, SwapMac PROVE IInv'  OBVIOUS
  <1> USE DEF SwapMac, nicVars
  <1>t. TypeInv /\ taken \in Nat /\ rxCount \in Nat  BY DEF IInv, TypeInv
  <1>1. written' = written /\ posted' = posted /\ freed' = freed
    BY DEF written, posted, freed
  <1>2. RqData = taken % Depth /\ RqData \in Slots  BY InHand
  <1>3. TypeInv'
    <2>1. buffer[RqData] \in Content  BY <1>t, <1>2 DEF TypeInv
    <2>2. [pkt |-> buffer[RqData].pkt, swapped |-> ~buffer[RqData].swapped]
            \in Content
      BY <2>1 DEF Content
    <2>3. buffer' \in [Slots -> Content]  BY <1>t, <2>2 DEF TypeInv, Content
    <2>4. QED  BY <1>t, <2>3 DEF TypeInv
  <1>4. CountersInv'  BY <1>1 DEF IInv, CountersInv
  <1>5. ContextInv'  BY <1>1 DEF IInv, ContextInv, NicOwner
  <1>6. ReceivedInv'
    <2>1. ASSUME NEW n \in 0 .. rxCount - 1, rxCount <= n + Depth
          PROVE  buffer'[n % Depth] = [pkt |-> n, swapped |-> SwapDone(n)']
      <3>0. buffer[n % Depth] = [pkt |-> n, swapped |-> SwapDone(n)]
        BY <2>1 DEF IInv, ReceivedInv
      <3>1. CASE n = taken
        <4>1. SwapDone(n) = FALSE /\ SwapDone(n)' = TRUE
          BY <1>t, <3>1 DEF SwapDone
        <4>2. buffer[RqData] = [pkt |-> n, swapped |-> FALSE]
          BY <1>2, <3>0, <3>1, <4>1
        <4>3. buffer'[RqData] = [pkt |-> n, swapped |-> TRUE]
          <5>1. buffer'[RqData] = [pkt |-> buffer[RqData].pkt,
                                   swapped |-> ~buffer[RqData].swapped]
            BY <1>t, <1>2 DEF TypeInv
          <5>2. buffer[RqData].pkt = n /\ buffer[RqData].swapped = FALSE
            BY <4>2
          <5>3. (~buffer[RqData].swapped) = TRUE  BY <5>2
          <5>4. QED  BY <5>1, <5>2, <5>3
        <4>4. QED  BY <1>2, <3>1, <4>1, <4>3
      <3>2. CASE n # taken
        <4>1. n < taken + Depth /\ taken < n + Depth
          <5>1. taken < rxCount /\ rxCount <= taken + Depth
            BY <1>t DEF IInv, CountersInv, freed
          <5>2. QED  BY <1>t, <2>1, <5>1, Constants
        <4>2. n % Depth # taken % Depth /\ n % Depth \in Slots
          BY <1>t, <3>2, <4>1, SlotsApart, Wrapped
        <4>3. SwapDone(n)' = SwapDone(n)  BY <3>2 DEF SwapDone
        <4>4. buffer'[n % Depth] = buffer[n % Depth]
          BY <1>t, <1>2, <4>2 DEF TypeInv
        <4>5. QED  BY <3>0, <4>3, <4>4
      <3>3. QED  BY <3>1, <3>2
    <2>2. QED  BY <2>1 DEF IInv, ReceivedInv, NicOwner
  <1>7. PostedInv'  BY <1>1 DEF IInv, PostedInv, DataSeg, SQ_IDX_MASK
  <1>8. QED  BY <1>3, <1>4, <1>5, <1>6, <1>7 DEF IInv

(* pp_queue writes the next WQE, in the place of the one Depth before it.  *)
LEMMA PostSendIInv == IInv /\ PostSend => IInv'
  <1> SUFFICES ASSUME IInv, PostSend PROVE IInv'  OBVIOUS
  <1> USE DEF PostSend, nicVars
  <1>t. TypeInv /\ taken \in Nat  BY DEF IInv, TypeInv
  <1>1. written = taken /\ written' = taken + 1 /\ posted' = posted /\ freed' = freed
    BY DEF written, posted, freed
  <1>2. RqData = taken % Depth /\ RqData \in Slots  BY InHand
  <1>3. DataSeg(sq_wqe_seg_idx) = DataSeg(4 * taken) /\ DataSeg(4 * taken) \in SqSegs
    BY <1>t, <1>1, DataSegs DEF IInv, ContextInv
  <1>4. sq_wqe_seg_idx' = (4 * written') % IdxMod
    <2>1. 4 * taken \in Int /\ 4 * taken + 4 = 4 * (taken + 1)  BY <1>t
    <2>2. sq_wqe_seg_idx = (4 * taken) % IdxMod  BY <1>1 DEF IInv, ContextInv
    <2>3. sq_wqe_seg_idx' = (4 * taken + 4) % IdxMod  BY <2>1, <2>2, Wrapped
    <2>4. QED  BY <1>1, <2>1, <2>3
  <1>5. TypeInv'
    <2>1. sq_wqe_seg_idx' \in 0 .. IdxMod - 1
      BY <1>t, <1>1, <1>4, Wrapped
    <2>2. sq_ring' \in [SqSegs -> Slots \cup {Nothing}]
      BY <1>t, <1>2 DEF TypeInv
    <2>3. QED  BY <1>t, <2>1, <2>2 DEF TypeInv
  <1>6. CountersInv'  BY <1>1 DEF IInv, CountersInv
  <1>7. ContextInv'  BY <1>1, <1>4 DEF IInv, ContextInv, NicOwner
  <1>8. ReceivedInv'  BY DEF IInv, ReceivedInv, SwapDone, NicOwner
  <1>9. PostedInv'
    <2>1. ASSUME NEW k \in 0 .. written' - 1, written' <= k + Depth
          PROVE  sq_ring'[DataSeg(4 * k)] = k % Depth
      <3>1. CASE k = taken
        BY <1>t, <1>2, <1>3, <3>1 DEF TypeInv
      <3>2. CASE k # taken
        <4>1. k \in 0 .. written - 1 /\ k \in Int /\ k < taken /\ taken < k + Depth
              /\ written <= k + Depth
          BY <1>t, <1>1, <2>1, <3>2, Constants
        <4>2. DataSeg(4 * k) # DataSeg(4 * taken) /\ DataSeg(4 * k) \in SqSegs
          BY <1>t, <4>1, DataSegs
        <4>3. sq_ring'[DataSeg(4 * k)] = sq_ring[DataSeg(4 * k)]
          BY <1>t, <1>3, <4>2 DEF TypeInv
        <4>4. QED  BY <4>1, <4>3 DEF IInv, PostedInv
      <3>3. QED  BY <3>1, <3>2
    <2>2. QED  BY <2>1 DEF PostedInv, DataSeg, SQ_IDX_MASK
  <1>10. QED  BY <1>5, <1>6, <1>7, <1>8, <1>9 DEF IInv

(* pp_queue announces the WQE.                                             *)
LEMMA RingDoorbellIInv == IInv /\ RingDoorbell => IInv'
  <1> SUFFICES ASSUME IInv, RingDoorbell PROVE IInv'  OBVIOUS
  <1> USE DEF RingDoorbell, nicVars
  <1>t. TypeInv /\ taken \in Nat /\ sq_pi \in Int
    BY Constants DEF IInv, TypeInv
  <1>1. posted = taken /\ posted' = taken + 1 /\ written' = written /\ freed' = freed
    BY DEF written, posted, freed
  <1>2. sq_pi' = posted' % IdxMod
    <2>1. sq_pi = taken % IdxMod  BY <1>1 DEF IInv, ContextInv
    <2>2. QED  BY <1>t, <1>1, <2>1, Wrapped
  <1>3. TypeInv'
    <2>1. sq_pi' \in 0 .. IdxMod - 1  BY <1>t, <1>1, <1>2, Wrapped
    <2>2. lastOut' \in Packets  BY <1>t, WqeContentType DEF Content
    <2>3. QED  BY <1>t, <2>1, <2>2 DEF TypeInv
  <1>4. CountersInv'
    <2>1. txCount \in Nat  BY <1>t DEF TypeInv
    <2>2. QED  BY <1>t, <1>1, <2>1 DEF IInv, CountersInv
  <1>5. ContextInv'  BY <1>1, <1>2 DEF IInv, ContextInv, NicOwner
  <1>6. ReceivedInv'  BY DEF IInv, ReceivedInv, SwapDone, NicOwner
  <1>7. PostedInv'  BY <1>1 DEF IInv, PostedInv, DataSeg, SQ_IDX_MASK
  <1>8. QED  BY <1>3, <1>4, <1>5, <1>6, <1>7 DEF IInv

(* pp_queue gives the RQ entry back.                                       *)
LEMMA FreeRqWqeIInv == IInv /\ FreeRqWqe => IInv'
  <1> SUFFICES ASSUME IInv, FreeRqWqe PROVE IInv'  OBVIOUS
  <1> USE DEF FreeRqWqe, nicVars
  <1>t. TypeInv /\ taken \in Nat /\ rxCount \in Nat  BY DEF IInv, TypeInv
  <1>1. freed = taken /\ freed' = taken + 1 /\ written' = written /\ posted' = posted
    BY DEF written, posted, freed
  <1>2. rq_dbr' = (Depth + freed') % CtrMod /\ rq_dbr' \in 0 .. CtrMod - 1
    <2> DEFINE a == Depth + taken
    <2>1. a \in Int /\ rq_dbr = a % CtrMod /\ a + 1 = Depth + (taken + 1)
      BY <1>t, <1>1, Constants DEF IInv, ContextInv
    <2>2. ((a % CtrMod) + 1) % CtrMod = (a + 1) % CtrMod
          /\ (a + 1) % CtrMod \in 0 .. CtrMod - 1
      BY <2>1, Wrapped
    <2>3. QED  BY <1>1, <2>1, <2>2
  <1>3. TypeInv'  BY <1>t, <1>2 DEF TypeInv
  <1>4. CountersInv'  BY <1>t, <1>1, Constants DEF IInv, CountersInv
  <1>5. ContextInv'  BY <1>1, <1>2 DEF IInv, ContextInv, NicOwner
  <1>6. ReceivedInv'  BY DEF IInv, ReceivedInv, SwapDone, NicOwner
  <1>7. PostedInv'  BY <1>1 DEF IInv, PostedInv, DataSeg, SQ_IDX_MASK
  <1>8. QED  BY <1>3, <1>4, <1>5, <1>6, <1>7 DEF IInv

(* com_step_cq, with the flip of the owner bit where the ring starts over. *)
LEMMA StepCqIInv == IInv /\ StepCq => IInv'
  <1> SUFFICES ASSUME IInv, StepCq PROVE IInv'  OBVIOUS
  <1> USE DEF StepCq, nicVars
  <1>t. TypeInv /\ taken \in Nat /\ rxCount \in Nat  BY DEF IInv, TypeInv
  <1>1. /\ freed' = freed /\ written' = written /\ posted' = posted
        /\ freed = taken + 1
    BY DEF written, posted, freed
  <1>2. cq_idx' = taken' % IdxMod
    BY <1>t, Wrapped DEF IInv, ContextInv
  <1>3. taken' \in Int /\ CQ_IDX_MASK(cq_idx') = taken' % Depth
    BY <1>t, <1>2, Wrapped DEF CQ_IDX_MASK
  <1>4. cq_hw_owner_bit' = 1 - NicOwner(taken')
    <2>1. cq_hw_owner_bit = 1 - NicOwner(taken) /\ NicOwner(taken) \in {0, 1}
      BY <1>t, OwnerBit DEF IInv, ContextInv, Owners
    <2>2. NicOwner(taken') = IF taken' % Depth = 0 THEN 1 - NicOwner(taken)
                                                   ELSE NicOwner(taken)
      BY <1>t, OwnerBit
    <2>3. QED  BY <1>3, <2>1, <2>2
  <1>5. TypeInv'
    <2>1. cq_idx' \in 0 .. IdxMod - 1 /\ cqe' \in Slots
      BY <1>2, <1>3, Wrapped
    <2>2. cq_hw_owner_bit' \in Owners
      BY <1>3, <1>4, OwnerBit DEF Owners
    <2>3. QED  BY <1>t, <2>1, <2>2 DEF TypeInv
  <1>6. CountersInv'
    BY <1>t, <1>1 DEF IInv, CountersInv
  <1>7. ContextInv'
    <2>1. cqe' = taken' % Depth /\ cq_dbr' = taken' % IdxMod
      BY <1>2, <1>3
    <2>2. QED  BY <1>1, <1>2, <1>4, <2>1 DEF IInv, ContextInv
  <1>8. ReceivedInv'
    <2>1. \A n \in 0 .. rxCount - 1 : SwapDone(n)' = SwapDone(n)
      BY <1>t DEF SwapDone
    <2>2. QED  BY <2>1 DEF IInv, ReceivedInv, NicOwner
  <1>9. PostedInv'  BY <1>1 DEF IInv, PostedInv, DataSeg, SQ_IDX_MASK
  <1>10. QED  BY <1>5, <1>6, <1>7, <1>8, <1>9 DEF IInv

(* A step that changes nothing.                                            *)
LEMMA StutterIInv == IInv /\ UNCHANGED vars => IInv'
  <1> SUFFICES ASSUME IInv, UNCHANGED vars PROVE IInv'  OBVIOUS
  <1> USE DEF vars, nicVars, threadVars
  <1>1. written' = written /\ posted' = posted /\ freed' = freed
    BY DEF written, posted, freed
  <1>2. TypeInv'  BY DEF IInv, TypeInv
  <1>3. CountersInv'  BY <1>1 DEF IInv, CountersInv
  <1>4. ContextInv'  BY <1>1 DEF IInv, ContextInv, NicOwner
  <1>5. ReceivedInv'  BY DEF IInv, ReceivedInv, SwapDone, NicOwner
  <1>6. PostedInv'  BY <1>1 DEF IInv, PostedInv, DataSeg, SQ_IDX_MASK
  <1>7. QED  BY <1>2, <1>3, <1>4, <1>5, <1>6 DEF IInv

(* The inductive invariant of the forwarder holds in every reachable       *)
(* state, for every ring depth and counter width.                          *)
THEOREM Invariance == Spec => []IInv
  <1>1. Init => IInv  BY InitIInv
  <1>2. IInv /\ [Next]_vars => IInv'
    BY NicReceiveIInv, NicTransmitIInv, PollIInv, ReadCqeIInv, SwapMacIInv,
       PostSendIInv, RingDoorbellIInv, FreeRqWqeIInv, StepCqIInv, StutterIInv
       DEF Next, Thread
  <1>3. QED  BY <1>1, <1>2, PTL DEF Spec

-----------------------------------------------------------------------------
(* The safety invariants the runs check, for all constants.                *)

(* Type correctness of the rings, the contexts and the thread.             *)
THEOREM TypeCorrect == Spec => []TypeInv
  <1>1. IInv => TypeInv  BY DEF IInv
  <1>2. QED  BY <1>1, Invariance, PTL

(* A polling thread sees a CQE exactly when there is one to take, however  *)
(* often the ring and the consumer index have wrapped.                     *)
THEOREM PollSafe == Spec => []PollTruthful
  BY PollTells, Invariance, PTL

(* pp_queue works on the oldest packet not forwarded, and on no other, up  *)
(* to the step that gives its entry back.                                  *)
THEOREM PacketSafe == Spec => []PacketInHand
  <1>1. IInv => PacketInHand
    <2> SUFFICES ASSUME IInv PROVE PacketInHand  OBVIOUS
    <2>1. ASSUME pc = "read"
          PROVE  cq_ring[cqe].wqe_counter = taken % CtrMod
      BY <2>1, InHand
    <2>2. ASSUME pc \in {"swap", "post", "doorbell", "free"}
          PROVE  buffer[RqData] = [pkt |-> taken, swapped |-> pc # "swap"]
      <3>1. buffer[RqData] = [pkt |-> taken, swapped |-> SwapDone(taken)]
        BY <2>2, InHand
      <3>2. taken \in Nat  BY DEF IInv, TypeInv
      <3>3. CASE pc = "swap"
        <4>1. SwapDone(taken) = FALSE /\ (pc # "swap") = FALSE
          BY <3>2, <3>3 DEF SwapDone
        <4>2. QED  BY <3>1, <4>1
      <3>4. CASE pc # "swap"
        <4>1. SwapDone(taken) = TRUE /\ (pc # "swap") = TRUE
          BY <2>2, <3>2, <3>4 DEF SwapDone
        <4>2. QED  BY <3>1, <4>1
      <3>5. QED  BY <3>3, <3>4
    <2>3. QED  BY <2>1, <2>2 DEF PacketInHand
  <1>2. QED  BY <1>1, Invariance, PTL

(* The NIC overruns the CQ by at most one CQE, the one the thread is done  *)
(* with: freeing the RQ entry first is harmless.                           *)
THEOREM OverrunSafe == Spec => []CqOverrunBounded
  <1>1. IInv => CqOverrunBounded
    BY Constants DEF IInv, TypeInv, CountersInv, freed, CqOverrunBounded
  <1>2. QED  BY <1>1, Invariance, PTL

(* What was announced is what will be sent, as long as the NIC has neither *)
(* a whole ring of sends nor a whole ring of receptions behind it.         *)
THEOREM InFlightSafe == Spec => []InFlightIntact
  <1>1. IInv => InFlightIntact
    <2> SUFFICES ASSUME IInv, NEW k \in txCount .. posted - 1,
                        written <= k + Depth, rxCount <= k + Depth
                 PROVE  WqeContent(k) = [pkt |-> k, swapped |-> TRUE]
      BY DEF InFlightIntact
    <2>1. /\ TypeInv /\ taken \in Nat /\ rxCount \in Nat /\ txCount \in Nat
          /\ posted \in Nat /\ written \in Nat /\ posted <= written
      BY Counters DEF IInv, TypeInv
    <2>2. k \in Nat /\ k < posted  BY <2>1
    <2>3. posted <= rxCount
      BY <2>1 DEF IInv, CountersInv, posted
    <2>4. k \in 0 .. written - 1 /\ k \in 0 .. rxCount - 1
      BY <2>1, <2>2, <2>3
    <2>5. sq_ring[DataSeg(4 * k)] = k % Depth  BY <2>4 DEF IInv, PostedInv
    <2>6. buffer[k % Depth] = [pkt |-> k, swapped |-> SwapDone(k)]
      BY <2>4 DEF IInv, ReceivedInv
    <2>7. SwapDone(k) = TRUE  BY <2>1, <2>2 DEF SwapDone, posted
    <2>8. k % Depth # Nothing
      <3>1. k % Depth \in 0 .. Depth - 1  BY <2>2, Wrapped DEF Slots
      <3>2. QED  BY <3>1, Constants DEF Nothing
    <2>9. QED  BY <2>5, <2>6, <2>7, <2>8 DEF WqeContent
  <1>2. QED  BY <1>1, Invariance, PTL

-----------------------------------------------------------------------------
(* The forwarder implements the FIFO.  Under the invariant the mapping is  *)
(* simply the numbers from posted to rxCount - 1.                          *)
Waiting(from, upto) == [k \in 1 .. upto - from |-> from + k - 1]

PendingInv == PendingPackets = Waiting(posted, rxCount)
BacklogInv ==
    /\ posted \in Nat /\ rxCount \in Nat /\ posted <= rxCount
    /\ rxCount <= posted + Depth

(* Following the CQEs from the next one to forward gives those numbers.    *)
LEMMA PendingIsWaiting == IInv => PendingInv /\ BacklogInv
  <1> SUFFICES ASSUME IInv PROVE PendingInv /\ BacklogInv  OBVIOUS
  <1>1. /\ posted \in Nat /\ rxCount \in Nat /\ freed <= posted /\ freed \in Nat
        /\ taken \in Nat
    BY Counters DEF IInv, TypeInv
  <1>2. posted <= rxCount /\ rxCount <= freed + Depth
    BY <1>1 DEF IInv, TypeInv, CountersInv, posted
  <1>3. ASSUME NEW k \in 1 .. rxCount - posted
        PROVE  buffer[RqWqeAddr(RQ_IDX_MASK(
                   cq_ring[(posted + k - 1) % Depth].wqe_counter))].pkt
                 = posted + k - 1
    <2> DEFINE n == posted + k - 1
    <2>1. n \in 0 .. rxCount - 1 /\ n \in Int /\ rxCount <= n + Depth
      BY <1>1, <1>2, Constants
    <2> HIDE DEF n
    <2>2. /\ cq_ring[n % Depth] = [owner |-> NicOwner(n), wqe_counter |-> n % CtrMod]
          /\ buffer[n % Depth] = [pkt |-> n, swapped |-> SwapDone(n)]
      BY <2>1 DEF IInv, ReceivedInv
    <2>3. (n % CtrMod) % Depth = n % Depth  BY <2>1, Wrapped
    <2>4. buffer[RqWqeAddr(RQ_IDX_MASK(cq_ring[n % Depth].wqe_counter))].pkt = n
      BY <2>2, <2>3 DEF RqWqeAddr, RQ_IDX_MASK
    <2>5. QED  BY <2>4 DEF n
  <1>4. PendingPackets = Waiting(posted, rxCount)
    BY <1>3 DEF PendingPackets, Waiting
  <1>5. rxCount <= posted + Depth  BY <1>1, <1>2, Constants
  <1>6. QED  BY <1>1, <1>2, <1>4, <1>5 DEF PendingInv, BacklogInv

(* The waiting numbers as a queue: its head, its tail and how it grows.    *)
LEMMA WaitingSeq ==
    ASSUME NEW f \in Nat, NEW u \in Nat, f <= u
    PROVE  /\ Waiting(f, u) \in Seq(Nat) /\ Len(Waiting(f, u)) = u - f
           /\ Waiting(f, u + 1) = Append(Waiting(f, u), u)
           /\ f < u => /\ Head(Waiting(f, u)) = f
                       /\ Tail(Waiting(f, u)) = Waiting(f + 1, u)
                       /\ Waiting(f, u) # <<>>
  <1> USE DEF Waiting
  <1>1. Waiting(f, u) \in Seq(Nat) /\ Len(Waiting(f, u)) = u - f
    OBVIOUS
  <1>2. Waiting(f, u + 1) = Append(Waiting(f, u), u)
    BY <1>1
  <1>3. f < u => Head(Waiting(f, u)) = f /\ Waiting(f, u) # <<>>
    BY <1>1
  <1>4. f < u => Tail(Waiting(f, u)) = Waiting(f + 1, u)
    BY <1>1
  <1>5. QED  BY <1>1, <1>2, <1>3, <1>4

(* The WQE RingDoorbell announces is the one PostSend wrote: wrapping sq_pi *)
(* and wrapping sq_wqe_seg_idx reach the same segment.                      *)
LEMMA AnnouncedSeg ==
    ASSUME NEW k \in Int
    PROVE  DataSeg(4 * (k % IdxMod)) = DataSeg(4 * k)
  <1> DEFINE q == k \div IdxMod
             r == k % IdxMod
             D == 4 * Depth
  <1>1. q \in Int /\ r \in Int /\ k = IdxMod * q + r  BY Constants, DivMod
  <1>3. D \in Nat \ {0} /\ IdxMod % D = 0 /\ IdxMod \in Int  BY Constants
  <1> HIDE DEF D
  <1> DEFINE c == IdxMod \div D
  <1>2. c \in Int /\ IdxMod = D * c  BY <1>3, DivExact
  <1> HIDE DEF q, r, c, D
  <1>4. c * q \in Int /\ 4 * (c * q) \in Int  BY <1>1, <1>2
  <1>5. IdxMod * q = D * (c * q)  BY <1>1, <1>2, <1>3
  <1>6. 4 * k + 2 = (4 * r + 2) + D * (4 * (c * q))
    <2> DEFINE e == c * q
    <2>1. e \in Int /\ k = D * e + r  BY <1>1, <1>4, <1>5
    <2> HIDE DEF e
    <2>2. 4 * k + 2 = (4 * r + 2) + D * (4 * e)  BY <1>1, <1>3, <2>1
    <2>3. QED  BY <2>2 DEF e
  <1>7. 4 * r + 2 \in Int  BY <1>1
  <1>8. ((4 * r + 2) + D * (4 * (c * q))) % D = (4 * r + 2) % D
    BY <1>3, <1>4, <1>7, ModShift
  <1>9. (4 * k + 2) % D = (4 * r + 2) % D  BY <1>6, <1>8
  <1>10. QED  BY <1>9 DEF DataSeg, SQ_IDX_MASK, r, D

(* The ring with its owner bits implements the bounded FIFO, whatever the  *)
(* depth of the rings and the width of the counters: NicReceive is Arrive, *)
(* RingDoorbell is Forward, and every other step a stutter.                *)
THEOREM Refinement == Spec => ImplementsFifo
  <1> USE DEF nicVars, threadVars
  <1>1. Init => Fifo!Init
    <2> SUFFICES ASSUME Init PROVE Fifo!Init  OBVIOUS
    <2>1. posted = 0 /\ rxCount = 0 /\ lastOut = -1
      BY DEF Init, posted, Nothing
    <2>2. PendingInv  BY InitIInv, PendingIsWaiting
    <2>3. PendingPackets = Waiting(0, 0)  BY <2>1, <2>2 DEF PendingInv
    <2>4. Waiting(0, 0) = <<>>  BY DEF Waiting
    <2>5. QED  BY <2>1, <2>3, <2>4 DEF Fifo!Init
  <1>2. ASSUME IInv, PendingInv, BacklogInv, PendingInv', BacklogInv', [Next]_vars
        PROVE  [Fifo!Next]_<<PendingPackets, rxCount, lastOut>>
    <2>1. PendingPackets = Waiting(posted, rxCount)
      BY <1>2 DEF PendingInv
    <2>2. PendingPackets' = Waiting(posted', rxCount')
      BY <1>2 DEF PendingInv, Waiting
    <2>3. posted \in Nat /\ rxCount \in Nat /\ posted <= rxCount
      BY <1>2 DEF BacklogInv
    <2>4. CASE NicReceive
      <3>1. posted' = posted /\ rxCount' = rxCount + 1 /\ lastOut' = lastOut
        BY <2>4 DEF NicReceive, posted
      <3>2. rxCount - posted < Depth
        <4>1. rxCount' <= posted' + Depth  BY <1>2 DEF BacklogInv
        <4>2. QED  BY <2>3, <3>1, <4>1, Constants
      <3>3. Len(PendingPackets) < Depth  BY <2>1, <2>3, <3>2, WaitingSeq
      <3>4. PendingPackets' = Append(PendingPackets, rxCount)
        BY <2>1, <2>2, <2>3, <3>1, WaitingSeq
      <3>5. Fifo!Arrive  BY <3>1, <3>3, <3>4 DEF Fifo!Arrive
      <3>6. QED  BY <3>5 DEF Fifo!Next
    <2>5. CASE RingDoorbell
      <3>1. pc = "doorbell" /\ pc' = "free" /\ taken' = taken /\ rxCount' = rxCount
        BY <2>5 DEF RingDoorbell
      <3>2. taken \in Nat /\ taken < rxCount
        BY <1>2, <3>1 DEF IInv, TypeInv, CountersInv
      <3>3. posted = taken /\ posted' = taken + 1 /\ written = taken + 1
        BY <3>1 DEF posted, written
      <3>4. WqeContent(sq_pi) = WqeContent(taken)
        <4>1. sq_pi = taken % IdxMod  BY <1>2, <3>3 DEF IInv, ContextInv
        <4>2. DataSeg(4 * sq_pi) = DataSeg(4 * taken)
          BY <3>2, <4>1, AnnouncedSeg
        <4>3. QED  BY <4>2 DEF WqeContent
      <3>5. WqeContent(taken).pkt = taken
        <4>1. taken \in 0 .. written - 1 /\ written <= taken + Depth
          BY <3>2, <3>3, Constants
        <4>2. sq_ring[DataSeg(4 * taken)] = taken % Depth
          BY <1>2, <4>1 DEF IInv, PostedInv
        <4>3. taken % Depth # Nothing
          <5>1. taken % Depth \in 0 .. Depth - 1  BY <3>2, Wrapped DEF Slots
          <5>2. QED  BY <5>1, Constants DEF Nothing
        <4>4. buffer[taken % Depth] = [pkt |-> taken, swapped |-> SwapDone(taken)]
          BY <1>2, <3>1, InHand
        <4>5. QED  BY <4>2, <4>3, <4>4 DEF WqeContent
      <3>6. lastOut' = taken  BY <2>5, <3>4, <3>5 DEF RingDoorbell
      <3>7. /\ PendingPackets # <<>> /\ Head(PendingPackets) = taken
            /\ Tail(PendingPackets) = Waiting(taken + 1, rxCount)
        BY <2>1, <2>3, <3>2, <3>3, WaitingSeq
      <3>8. PendingPackets' = Waiting(taken + 1, rxCount)
        BY <2>2, <3>1, <3>3
      <3>9. Fifo!Forward
        BY <3>1, <3>6, <3>7, <3>8 DEF Fifo!Forward
      <3>10. QED  BY <3>9 DEF Fifo!Next
    <2>6. CASE NicTransmit \/ Poll \/ ReadCqe \/ SwapMac \/ PostSend
               \/ FreeRqWqe \/ StepCq \/ UNCHANGED vars
      <3>1. posted' = posted /\ rxCount' = rxCount /\ lastOut' = lastOut
        <4>1. ASSUME pc' = pc \/ (pc # "doorbell" /\ pc \notin {"free", "step"}
                                  /\ pc' \notin {"free", "step"}),
                     taken' = taken
              PROVE  posted' = posted
          BY <4>1 DEF posted
        <4>2. QED
          BY <2>6, <4>1 DEF NicTransmit, Poll, ReadCqe, SwapMac, PostSend,
             FreeRqWqe, StepCq, vars, posted
      <3>2. PendingPackets' = PendingPackets  BY <2>1, <2>2, <3>1
      <3>3. QED  BY <3>1, <3>2
    <2>7. QED  BY <1>2, <2>4, <2>5, <2>6 DEF Next, Thread
  <1>3. Spec => [](IInv /\ PendingInv /\ BacklogInv)
    BY PendingIsWaiting, Invariance, PTL
  <1>4. QED
    BY <1>1, <1>2, <1>3, PTL DEF Spec, ImplementsFifo, Fifo!Spec
=============================================================================
