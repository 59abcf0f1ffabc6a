------------------------------ MODULE Forwarding ------------------------------
(***************************************************************************)
(* The data path of one tenant queue: the NIC receives packets into the    *)
(* buffers of a receive queue (RQ) and reports each one in a completion    *)
(* queue (CQ); a DPA thread polls the CQ, swaps the MAC addresses of the   *)
(* packet in place, posts the very same buffer on its send queue (SQ),     *)
(* gives the RQ entry back and steps the CQ.  No buffer is ever copied and *)
(* no send completion is ever waited for.                                  *)
(*                                                                         *)
(* Thread: the polling loop of flexio_pp_dev_1/2 with pp_queue and         *)
(* com_step_cq, one action per access the NIC can observe.                 *)
(* NIC (external): NicReceive and NicTransmit.                             *)
(*                                                                         *)
(* A packet is its arrival number.  Counters of the program keep their     *)
(* width: IdxMod stands for 2^32 and CtrMod for 2^16.                      *)
(***************************************************************************)
EXTENDS Integers

CONSTANTS
    Depth,      \* entries of the RQ, the CQ and the SQ (Q_DEPTH)
    IdxMod,     \* 2^width of cq_idx, sq_wqe_seg_idx and sq_pi
    CtrMod,     \* 2^width of the RQ doorbell counter and of wqe_counter
    MaxPackets  \* bound on the packets the NIC receives

ASSUME DepthAssumption == Depth \in Nat \ {0}
ASSUME IdxModAssumption == IdxMod \in Nat \ {0} /\ IdxMod % (4 * Depth) = 0
ASSUME CtrModAssumption == CtrMod \in Nat /\ CtrMod % Depth = 0 /\ Depth < CtrMod
ASSUME MaxPacketsAssumption == MaxPackets \in Nat

VARIABLES
    cq_ring,          \* the CQEs: owner bit and wqe_counter of each slot
    buffer,           \* the packet each RQ data entry holds
    rq_dbr,           \* RQ doorbell record: entries given to the NIC
    sq_ring,          \* the SQ as segments, four to a WQE
    sq_db,            \* the SQ doorbell register: last sq_pi rung
    cq_dbr,           \* CQ doorbell record: consumer index the NIC sees
    rxCount,          \* packets the NIC has received
    txCount,          \* WQEs the NIC has transmitted
    lastTx,           \* what the last transmission sent
    cq_idx, cqe, cq_hw_owner_bit,  \* cq_ctx_t of the tenant queue
    sq_wqe_seg_idx, sq_pi,         \* sq_ctx_t of the thread
    pc, rq_wqe_idx,   \* the thread: next step, and its local variable
    taken,            \* history: CQEs stepped over so far
    lastOut           \* history: packet of the last WQE announced

nicVars    == <<rxCount, txCount, lastTx>>
threadVars == <<cq_idx, cqe, cq_hw_owner_bit, sq_wqe_seg_idx, sq_pi, pc, rq_wqe_idx>>
vars == <<cq_ring, buffer, rq_dbr, sq_ring, sq_db, cq_dbr, nicVars, threadVars,
          taken, lastOut>>

Slots   == 0 .. Depth - 1
SqSegs  == 0 .. 4 * Depth - 1
Owners  == {0, 1}
Nothing == -1                         \* an entry never written
Packets == Nat \cup {Nothing}
Content == [pkt : Packets, swapped : BOOLEAN]

CQ_IDX_MASK(i) == i % Depth           \* i & (L2V(LOG_Q_DEPTH) - 1)
RQ_IDX_MASK(i) == i % Depth
SQ_IDX_MASK(i) == i % (4 * Depth)

(* Segment 2 of a WQE is its data pointer.                                 *)
DataSeg(seg_idx) == SQ_IDX_MASK(seg_idx + 2)

(* The RQ ring is written once, by init_dpa_rq_ring: WQE i points at data  *)
(* entry i of the buffer.                                                  *)
RqWqeAddr(i) == i

(* What WQE number n of the SQ points at right now.                        *)
NoContent == [pkt |-> Nothing, swapped |-> FALSE]
WqeContent(n) ==
    LET data == sq_ring[DataSeg(4 * n)]
    IN  IF data = Nothing THEN NoContent ELSE buffer[data]

(* The owner bit the NIC writes: 0 on its first pass over the ring, and    *)
(* the other bit on every further pass.                                    *)
NicOwner(n) == (n \div Depth) % 2

-----------------------------------------------------------------------------
(* Memory as the host fills it (cq_mem_alloc sets every owner bit to 1,    *)
(* init_rq_dbr gives the NIC all Depth entries) and contexts as            *)
(* com_cq_ctx_init and com_sq_ctx_init leave them.                         *)
Init ==
    /\ cq_ring = [s \in Slots |-> [owner |-> 1, wqe_counter |-> 0]]
    /\ buffer = [s \in Slots |-> NoContent]
    /\ rq_dbr = Depth
    /\ sq_ring = [s \in SqSegs |-> Nothing]
    /\ sq_db = 0
    /\ cq_dbr = 0
    /\ rxCount = 0
    /\ txCount = 0
    /\ lastTx = NoContent
    /\ cq_idx = 0
    /\ cqe = 0
    /\ cq_hw_owner_bit = 1
    /\ sq_wqe_seg_idx = 0
    /\ sq_pi = 0
    /\ pc = "poll"
    /\ rq_wqe_idx = 0
    /\ taken = 0
    /\ lastOut = Nothing

-----------------------------------------------------------------------------
(* NIC, external.                                                          *)

(* A packet is received into the oldest RQ entry the NIC owns; its CQE     *)
(* goes to the next CQ slot whether or not the slot was given back.        *)
NicReceive ==
    /\ rxCount < MaxPackets
    /\ (rq_dbr - rxCount) % CtrMod # 0
    /\ buffer' = [buffer EXCEPT ![rxCount % Depth] =
                                  [pkt |-> rxCount, swapped |-> FALSE]]
    /\ cq_ring' = [cq_ring EXCEPT ![rxCount % Depth] =
                                  [owner |-> NicOwner(rxCount),
                                   wqe_counter |-> rxCount % CtrMod]]
    /\ rxCount' = rxCount + 1
    /\ UNCHANGED <<rq_dbr, sq_ring, sq_db, cq_dbr, txCount, lastTx, threadVars,
                   taken, lastOut>>

(* The oldest announced WQE is sent: the buffer is read only now.          *)
NicTransmit ==
    /\ (sq_db - txCount) % IdxMod # 0
    /\ lastTx' = WqeContent(txCount)
    /\ txCount' = txCount + 1
    /\ UNCHANGED <<cq_ring, buffer, rq_dbr, sq_ring, sq_db, cq_dbr, rxCount,
                   threadVars, taken, lastOut>>

-----------------------------------------------------------------------------
(* The DPA thread.                                                         *)

CqeReady == cq_ring[cqe].owner # cq_hw_owner_bit

(* while (flexio_dev_cqe_get_owner(cqe) != cq_hw_owner_bit)                *)
Poll ==
    /\ pc = "poll"
    /\ CqeReady
    /\ pc' = "read"
    /\ UNCHANGED <<cq_ring, buffer, rq_dbr, sq_ring, sq_db, cq_dbr, nicVars,
                   cq_idx, cqe, cq_hw_owner_bit, sq_wqe_seg_idx, sq_pi,
                   rq_wqe_idx, taken, lastOut>>

(* A bug ReadCqe must not have: the entry is given back when it is read.   *)
ReadCqeAndFree ==
    /\ pc = "read"
    /\ rq_wqe_idx' = cq_ring[cqe].wqe_counter
    /\ rq_dbr' = (rq_dbr + 1) % CtrMod
    /\ pc' = "swap"
    /\ UNCHANGED <<cq_ring, buffer, sq_ring, sq_db, cq_dbr, nicVars,
                   cq_idx, cqe, cq_hw_owner_bit, sq_wqe_seg_idx, sq_pi,
                   taken, lastOut>>

(* pp_queue: rq_wqe_idx = cqe->wqe_counter                                 *)
ReadCqe ==
    /\ pc = "read"
    /\ rq_wqe_idx' = cq_ring[cqe].wqe_counter
    /\ pc' = "swap"
    /\ UNCHANGED <<cq_ring, buffer, rq_dbr, sq_ring, sq_db, cq_dbr, nicVars,
                   cq_idx, cqe, cq_hw_owner_bit, sq_wqe_seg_idx, sq_pi,
                   taken, lastOut>>

RqData == RqWqeAddr(RQ_IDX_MASK(rq_wqe_idx))

(* pp_queue: swap_mac(rq_data), in the receive buffer itself               *)
SwapMac ==
    /\ pc = "swap"
    /\ buffer' = [buffer EXCEPT ![RqData] = [pkt |-> @.pkt, swapped |-> ~@.swapped]]
    /\ pc' = "post"
    /\ UNCHANGED <<cq_ring, rq_dbr, sq_ring, sq_db, cq_dbr, nicVars,
                   cq_idx, cqe, cq_hw_owner_bit, sq_wqe_seg_idx, sq_pi,
                   rq_wqe_idx, taken, lastOut>>

(* Two bugs PostSend must not have: seg_idx stays, or the entry is the next.*)
PostSendNoAdvance ==
    /\ pc = "post"
    /\ sq_ring' = [sq_ring EXCEPT ![DataSeg(sq_wqe_seg_idx)] = RqData]
    /\ pc' = "doorbell"
    /\ UNCHANGED <<cq_ring, buffer, rq_dbr, sq_db, cq_dbr, nicVars,
                   cq_idx, cqe, cq_hw_owner_bit, sq_wqe_seg_idx, sq_pi, rq_wqe_idx,
                   taken, lastOut>>

PostSendNextEntry ==
    /\ pc = "post"
    /\ sq_ring' = [sq_ring EXCEPT ![DataSeg(sq_wqe_seg_idx)] =
                                     RqWqeAddr(RQ_IDX_MASK(rq_wqe_idx + 1))]
    /\ sq_wqe_seg_idx' = (sq_wqe_seg_idx + 4) % IdxMod
    /\ pc' = "doorbell"
    /\ UNCHANGED <<cq_ring, buffer, rq_dbr, sq_db, cq_dbr, nicVars,
                   cq_idx, cqe, cq_hw_owner_bit, sq_pi, rq_wqe_idx, taken, lastOut>>

(* pp_queue: the data pointer of the next WQE, and seg_idx += 4            *)
PostSend ==
    /\ pc = "post"
    /\ sq_ring' = [sq_ring EXCEPT ![DataSeg(sq_wqe_seg_idx)] = RqData]
    /\ sq_wqe_seg_idx' = (sq_wqe_seg_idx + 4) % IdxMod
    /\ pc' = "doorbell"
    /\ UNCHANGED <<cq_ring, buffer, rq_dbr, sq_db, cq_dbr, nicVars,
                   cq_idx, cqe, cq_hw_owner_bit, sq_pi, rq_wqe_idx, taken, lastOut>>

(* A bug RingDoorbell must not have: sq_pi++ for ++sq_pi.                   *)
RingDoorbellPostIncrement ==
    /\ pc = "doorbell"
    /\ sq_pi' = (sq_pi + 1) % IdxMod
    /\ sq_db' = sq_pi
    /\ lastOut' = WqeContent(sq_pi).pkt
    /\ pc' = "free"
    /\ UNCHANGED <<cq_ring, buffer, rq_dbr, sq_ring, cq_dbr, nicVars,
                   cq_idx, cqe, cq_hw_owner_bit, sq_wqe_seg_idx, rq_wqe_idx, taken>>

(* pp_queue: flexio_dev_qp_sq_ring_db(++sq_pi)                             *)
RingDoorbell ==
    /\ pc = "doorbell"
    /\ sq_pi' = (sq_pi + 1) % IdxMod
    /\ sq_db' = sq_pi'
    /\ lastOut' = WqeContent(sq_pi).pkt
    /\ pc' = "free"
    /\ UNCHANGED <<cq_ring, buffer, rq_dbr, sq_ring, cq_dbr, nicVars,
                   cq_idx, cqe, cq_hw_owner_bit, sq_wqe_seg_idx, rq_wqe_idx, taken>>

(* A bug FreeRqWqe must not have: one entry too many is given back.        *)
FreeRqWqeTwo ==
    /\ pc = "free"
    /\ rq_dbr' = (rq_dbr + 2) % CtrMod
    /\ pc' = "step"
    /\ UNCHANGED <<cq_ring, buffer, sq_ring, sq_db, cq_dbr, nicVars,
                   cq_idx, cqe, cq_hw_owner_bit, sq_wqe_seg_idx, sq_pi,
                   rq_wqe_idx, taken, lastOut>>

(* pp_queue: flexio_dev_dbr_rq_inc_pi: the RQ entry is the NIC's again,    *)
(* before the CQE is given back and whether or not it was transmitted      *)
FreeRqWqe ==
    /\ pc = "free"
    /\ rq_dbr' = (rq_dbr + 1) % CtrMod
    /\ pc' = "step"
    /\ UNCHANGED <<cq_ring, buffer, sq_ring, sq_db, cq_dbr, nicVars,
                   cq_idx, cqe, cq_hw_owner_bit, sq_wqe_seg_idx, sq_pi,
                   rq_wqe_idx, taken, lastOut>>

(* Two bugs StepCq must not have: no mask, or no flip of the owner bit.    *)
StepCqUnmasked ==
    /\ pc = "step"
    /\ cq_idx' = (cq_idx + 1) % IdxMod
    /\ cqe' = cq_idx'
    /\ cq_hw_owner_bit' = IF CQ_IDX_MASK(cq_idx') = 0 THEN 1 - cq_hw_owner_bit
                                                      ELSE cq_hw_owner_bit
    /\ cq_dbr' = cq_idx'
    /\ taken' = taken + 1
    /\ pc' = "poll"
    /\ UNCHANGED <<cq_ring, buffer, rq_dbr, sq_ring, sq_db, nicVars,
                   sq_wqe_seg_idx, sq_pi, rq_wqe_idx, lastOut>>

StepCqNoFlip ==
    /\ pc = "step"
    /\ cq_idx' = (cq_idx + 1) % IdxMod
    /\ cqe' = CQ_IDX_MASK(cq_idx')
    /\ cq_dbr' = cq_idx'
    /\ taken' = taken + 1
    /\ pc' = "poll"
    /\ UNCHANGED <<cq_ring, buffer, rq_dbr, sq_ring, sq_db, nicVars, cq_hw_owner_bit,
                   sq_wqe_seg_idx, sq_pi, rq_wqe_idx, lastOut>>

(* com_step_cq(&tenant->rq_cq_ctx)                                         *)
StepCq ==
    /\ pc = "step"
    /\ cq_idx' = (cq_idx + 1) % IdxMod
    /\ cqe' = CQ_IDX_MASK(cq_idx')
    /\ cq_hw_owner_bit' = IF CQ_IDX_MASK(cq_idx') = 0 THEN 1 - cq_hw_owner_bit
                                                      ELSE cq_hw_owner_bit
    /\ cq_dbr' = cq_idx'
    /\ taken' = taken + 1
    /\ pc' = "poll"
    /\ UNCHANGED <<cq_ring, buffer, rq_dbr, sq_ring, sq_db, nicVars,
                   sq_wqe_seg_idx, sq_pi, rq_wqe_idx, lastOut>>

Thread == \/ Poll \/ ReadCqe \/ SwapMac \/ PostSend \/ RingDoorbell
          \/ FreeRqWqe \/ StepCq

Next == NicReceive \/ NicTransmit \/ Thread

Spec == Init /\ [][Next]_vars

(* The thread owns its execution unit and the NIC drains its send queue;   *)
(* nothing makes packets arrive.                                           *)
FairSpec == Spec /\ WF_vars(Thread) /\ WF_vars(NicTransmit)

-----------------------------------------------------------------------------
(* Progress of the thread, counted without wrapping: WQEs written,         *)
(* WQEs announced and RQ entries given back.                               *)
written == IF pc \in {"doorbell", "free", "step"} THEN taken + 1 ELSE taken
posted  == IF pc \in {"free", "step"} THEN taken + 1 ELSE taken
freed   == IF pc = "step" THEN taken + 1 ELSE taken

(* Type correctness of the memory, the contexts and the history.           *)
TypeInv ==
    /\ cq_ring \in [Slots -> [owner : Owners, wqe_counter : 0 .. CtrMod - 1]]
    /\ buffer \in [Slots -> Content]
    /\ rq_dbr \in 0 .. CtrMod - 1
    /\ sq_ring \in [SqSegs -> Slots \cup {Nothing}]
    /\ sq_db \in 0 .. IdxMod - 1
    /\ cq_dbr \in 0 .. IdxMod - 1
    /\ rxCount \in Nat /\ txCount \in Nat /\ taken \in Nat
    /\ lastTx \in Content /\ lastOut \in Packets
    /\ cq_idx \in 0 .. IdxMod - 1
    /\ cqe \in Slots
    /\ cq_hw_owner_bit \in Owners
    /\ sq_wqe_seg_idx \in 0 .. IdxMod - 1
    /\ sq_pi \in 0 .. IdxMod - 1
    /\ pc \in {"poll", "read", "swap", "post", "doorbell", "free", "step"}
    /\ rq_wqe_idx \in 0 .. CtrMod - 1

(* Why the properties below hold: the inductive invariant of the proofs.    *)
(* The counters never run away from each other.                            *)
CountersInv ==
    /\ taken <= rxCount /\ rxCount <= freed + Depth
    /\ pc # "poll" => taken < rxCount
    /\ txCount <= posted

(* Every wrapped index is the count it stands for.                         *)
ContextInv ==
    /\ cq_idx = taken % IdxMod /\ cq_dbr = taken % IdxMod
    /\ cqe = taken % Depth
    /\ cq_hw_owner_bit = 1 - NicOwner(taken)
    /\ rq_dbr = (Depth + freed) % CtrMod
    /\ sq_pi = posted % IdxMod /\ sq_db = posted % IdxMod
    /\ sq_wqe_seg_idx = (4 * written) % IdxMod
    /\ pc \notin {"poll", "read"} => rq_wqe_idx = taken % CtrMod

(* The last Depth receptions are where the rings say they are, and no      *)
(* other CQE was ever written.                                             *)
SwapDone(n) == \/ n < taken
               \/ n = taken /\ pc \in {"post", "doorbell", "free", "step"}
ReceivedInv ==
    /\ \A n \in 0 .. rxCount - 1 :
          rxCount <= n + Depth =>
             /\ cq_ring[n % Depth] = [owner |-> NicOwner(n),
                                      wqe_counter |-> n % CtrMod]
             /\ buffer[n % Depth] = [pkt |-> n, swapped |-> SwapDone(n)]
    /\ \A s \in Slots : s >= rxCount => cq_ring[s].owner = 1

(* The last Depth WQEs written point at the entries of their packets.      *)
PostedInv ==
    \A k \in 0 .. written - 1 :
        written <= k + Depth => sq_ring[DataSeg(4 * k)] = k % Depth

IInv == TypeInv /\ CountersInv /\ ContextInv /\ ReceivedInv /\ PostedInv

(* The owner bit tells the truth: the polling thread sees a CQE exactly    *)
(* when one it has not stepped over was received, on every pass over the   *)
(* ring, across the wrap of cq_idx, and with the NIC a whole ring ahead.   *)
PollTruthful == pc = "poll" => (CqeReady <=> rxCount > taken)

(* The packet pp_queue works on is the oldest one not yet forwarded, and   *)
(* the NIC does not replace it, nor its CQE, before the entry is freed.    *)
PacketInHand ==
    /\ pc = "read" => cq_ring[cqe].wqe_counter = taken % CtrMod
    /\ pc \in {"swap", "post", "doorbell", "free"} =>
          buffer[RqData] = [pkt |-> taken, swapped |-> pc # "swap"]

(* Because pp_queue frees the RQ entry before com_step_cq frees the CQE,   *)
(* the NIC can be one CQE ahead of the CQ's depth, but only while the      *)
(* thread is between the two, done with the CQE that gets overwritten.     *)
CqOverrunBounded ==
    /\ rxCount <= taken + Depth + 1
    /\ rxCount = taken + Depth + 1 => pc = "step"

(* A WQE announced but not transmitted still describes its own packet, MAC *)
(* addresses swapped, as long as fewer than Depth sends are behind it and  *)
(* the NIC has not received Depth packets after it: the code itself        *)
(* guards neither condition.                                               *)
InFlightIntact ==
    \A k \in txCount .. posted - 1 :
        (written <= k + Depth /\ rxCount <= k + Depth) =>
            WqeContent(k) = [pkt |-> k, swapped |-> TRUE]

(* README, "receives packets from the network, swaps MAC addresses [...]   *)
(* and sends it back": a transmission carries the packet it was posted     *)
(* for, swapped.                                                           *)
SendsBackWhatItReceived ==
    txCount > 0 => lastTx = [pkt |-> txCount - 1, swapped |-> TRUE]

(* The forwarder as a bounded FIFO: the packets reached by following the   *)
(* CQEs from the next one to forward are the pending ones, in order.       *)
PendingPackets ==
    [k \in 1 .. rxCount - posted |->
        buffer[RqWqeAddr(RQ_IDX_MASK(
                   cq_ring[(posted + k - 1) % Depth].wqe_counter))].pkt]

Fifo == INSTANCE PacketFifo WITH
            Capacity <- Depth, pending <- PendingPackets,
            arrived <- rxCount, out <- lastOut

(* The ring with its owner bits implements the FIFO: no packet is lost,    *)
(* repeated or overtaken on its way to the send queue.                     *)
ImplementsFifo == Fifo!Spec

(* The NIC compares counters modulo their width, so a send queue that it   *)
(* leaves a whole width behind looks empty to it.                          *)
NicKeepsUp == [](posted - txCount < IdxMod)

(* Every packet received is forwarded, if the thread keeps running, and    *)
(* transmitted, if the NIC does and never falls a whole counter behind.    *)
EverythingForwarded ==
    /\ \A n \in 1 .. MaxPackets : rxCount >= n ~> taken >= n
    /\ NicKeepsUp => \A n \in 1 .. MaxPackets : rxCount >= n ~> txCount >= n
=============================================================================
