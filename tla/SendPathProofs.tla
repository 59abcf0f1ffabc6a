---------------------------- MODULE SendPathProofs ----------------------------
(***************************************************************************)
(* What two programs may rely on that post on one send queue with plain    *)
(* loads and stores, for every ring depth, set of addresses and number of  *)
(* packets.                                                                *)
(***************************************************************************)
EXTENDS SendPath, ModArith, SequenceTheorems, TLAPS

(* What a poster sends is well formed.                                     *)
LEMMA SwapType ==
    ASSUME NEW p \in Packet
    PROVE  swap_mac(p) \in Packet
  BY DEF swap_mac, Packet

LEMMA HandlerSendType ==
    ASSUME NEW p \in Packet
    PROVE  [pkt |-> swap_mac(p), buf |-> "tenant.rqd", key |-> "tenant.rq_lkey",
            by |-> "handler"] \in Send
  BY SwapType DEF Send, Buffers, Keys, Posters

LEMMA RpcSendType ==
    ASSUME NEW dst_addr \in Macs
    PROVE  [pkt |-> [src |-> SRC_ADDR, dst |-> dst_addr], buf |-> "thread.sqd",
            key |-> "thread.rq_lkey", by |-> "rpc"] \in Send
  BY MacAssumption DEF Send, Buffers, Keys, Posters, Packet, SRC_ADDR

(* The slot of a WQE is one of the ring.                                   *)
LEMMA SlotType ==
    ASSUME NEW n \in Nat
    PROVE  n % Depth \in 0 .. Depth - 1
  BY SendDepthAssumption, DivMod

LEMMA SlotOfSegment ==
    ASSUME NEW n \in Nat
    PROVE  SqSlot(4 * n) = n % Depth
  <1>1. (4 * n) \div 4 = n  OBVIOUS
  <1>2. QED  BY <1>1 DEF SqSlot

(* A program that has chosen what to send sends a packet of its own.       *)
LEMMA SendTyped ==
    ASSUME TypeInv, SendsInv, NEW a \in Posters, pc[a] # "idle"
    PROVE  send[a] \in Send
  BY DEF SendsInv, TypeInv, Unset, Nobody, Posters

(* Types that every action of a poster needs.                              *)
LEMMA GotoType ==
    ASSUME TypeInv, NEW a \in Posters, Goto(a, "idle") \/ Goto(a, "loadSlot")
               \/ Goto(a, "loadSeg") \/ Goto(a, "storeSeg") \/ Goto(a, "writeWqe") \/ Goto(a, "loadPi")
               \/ Goto(a, "storePi") \/ Goto(a, "ring")
    PROVE  pc' \in [Posters -> {"idle", "loadSlot", "loadSeg", "storeSeg", "writeWqe",
                                "loadPi", "storePi", "ring"}]
  BY DEF TypeInv, Goto

LEMMA TypeStep ==
    ASSUME TypeInv, FreshInv, SendsInv, [Next]_vars
    PROVE  TypeInv'
  <1>1. CASE \E p \in Packet : Arrive(p)
    <2>1. PICK p \in Packet : Arrive(p)  BY <1>1
    <2>2. arrived' \in Seq(Packet) /\ Len(arrived') = Len(arrived) + 1
      BY <2>1, AppendProperties DEF Arrive, TypeInv
    <2>3. received' \in 0 .. Len(arrived')
      BY <2>1, <2>2 DEF Arrive, TypeInv
    <2>4. QED
      BY <2>1, <2>2, <2>3 DEF Arrive, ringVars, nicVars, regVars, histVars, TypeInv
  <1>2. CASE Transmit
    <2> DEFINE wqe == sq_ring[txCount % Depth]
    <2>1. txCount % Depth \in 0 .. Depth - 1  BY SlotType DEF TypeInv
    <2>2. wqe \in Send \cup {Unset}  BY <2>1 DEF TypeInv
    <2>3. wqe.by \in Posters \cup {Nobody}
      BY <2>2 DEF Send, Unset, Posters, Nobody
    <2>4. Covered(wqe) => wqe.pkt \in Packet
      BY <2>2 DEF Send, Unset, Covered
    <2>5. txCount' \in Nat
      BY <1>2 DEF Transmit, TypeInv
    <2>6. unsent' \subseteq Packet /\ culprit' \in Posters \cup {Nobody}
      BY <1>2, <2>3, <2>4 DEF Transmit, TypeInv
    <2>7. sq_error' \in BOOLEAN
      BY <1>2 DEF Transmit, TypeInv
    <2>8. QED
      BY <1>2, <2>5, <2>6, <2>7 DEF Transmit, inVars, ringVars, regVars, histVars, TypeInv
  <1>3. CASE PpQueue
    <2>1. arrived[received + 1] \in Packet /\ received' \in 0 .. Len(arrived)
      BY <1>3 DEF PpQueue, TypeInv
    <2>2. pc' \in [Posters -> {"idle", "loadSlot", "loadSeg", "storeSeg", "writeWqe",
                               "loadPi", "storePi", "ring"}]
      BY <1>3, GotoType DEF PpQueue, Posters
    <2>3. send' \in [Posters -> Send \cup {Unset}]
      BY <1>3, <2>1, HandlerSendType DEF PpQueue, TypeInv
    <2>4. QED
      BY <1>3, <2>1, <2>2, <2>3 DEF PpQueue, ringVars, nicVars, regVars, histVars, TypeInv
  <1>4. CASE \E dst_addr \in Macs : SendPacket(dst_addr)
    <2>1. PICK dst_addr \in Macs : SendPacket(dst_addr)  BY <1>4
    <2>2. pc' \in [Posters -> {"idle", "loadSlot", "loadSeg", "storeSeg", "writeWqe",
                               "loadPi", "storePi", "ring"}]
      BY <2>1, GotoType DEF SendPacket, Posters
    <2>3. send' \in [Posters -> Send \cup {Unset}]
      BY <2>1, RpcSendType DEF SendPacket, TypeInv
    <2>4. QED
      BY <2>1, <2>2, <2>3 DEF SendPacket, inVars, ringVars, nicVars, regVars, histVars,
         TypeInv
  <1>5. ASSUME NEW a \in Posters, Post(a) PROVE TypeInv'
    <2>1. pc' \in [Posters -> {"idle", "loadSlot", "loadSeg", "storeSeg", "writeWqe",
                               "loadPi", "storePi", "ring"}]
      BY <1>5, GotoType DEF Post, LoadSlot, LoadSegIdx, StoreSegIdx, WriteWqe, LoadPi,
         StorePi, RingDb
    <2>2. CASE LoadSlot(a)
      <3>1. send[a] \in Send  BY <2>2, SendTyped DEF LoadSlot
      <3>2. posts' \in Seq(Send)
        BY <2>2, <3>1 DEF LoadSlot, TypeInv
      <3>3. overlapped' \in [Posters -> BOOLEAN]
        BY <2>2, ZenonT(20) DEF LoadSlot, TypeInv, Posting
      <3>4. raced' \in BOOLEAN
        BY <2>2, <3>3 DEF LoadSlot, TypeInv
      <3>5. slot' \in [Posters -> 0 .. Depth - 1]
        <4>1. sq_wqe_seg_idx \div 4 \in Nat  BY DEF TypeInv
        <4>2. SqSlot(sq_wqe_seg_idx) \in 0 .. Depth - 1  BY <4>1, SlotType DEF SqSlot
        <4>3. QED  BY <2>2, <4>2 DEF LoadSlot, TypeInv
      <3>6. QED
        BY <2>1, <2>2, <3>2, <3>3, <3>4, <3>5 DEF LoadSlot, inVars, ringVars, nicVars,
           TypeInv
    <2>3. CASE LoadSegIdx(a)
      <3>1. reg' \in [Posters -> Nat]  BY <2>3 DEF LoadSegIdx, TypeInv
      <3>2. QED
        BY <2>1, <2>3, <3>1 DEF LoadSegIdx, inVars, ringVars, nicVars, histVars, TypeInv
    <2>4. CASE StoreSegIdx(a)
      <3>1. reg[a] \in Nat /\ reg[a] % 4 = 0
        BY <2>4 DEF StoreSegIdx, FreshInv, TypeInv
      <3>2. reg[a] + 4 \in Nat /\ (reg[a] + 4) % 4 = 0  BY <3>1
      <3>3. QED
        BY <2>1, <2>4, <3>2 DEF StoreSegIdx, inVars, nicVars, regVars, histVars, TypeInv
    <2>5. CASE WriteWqe(a)
      <3>1. sq_ring' \in [0 .. Depth - 1 -> Send \cup {Unset}]
        BY <2>5 DEF WriteWqe, TypeInv
      <3>2. QED
        BY <2>1, <2>5, <3>1 DEF WriteWqe, inVars, nicVars, regVars, histVars, TypeInv
    <2>6. CASE LoadPi(a)
      BY <2>1, <2>6 DEF LoadPi, inVars, ringVars, nicVars, histVars, TypeInv
    <2>7. CASE StorePi(a)
      BY <2>1, <2>7 DEF StorePi, inVars, nicVars, regVars, histVars, TypeInv
    <2>8. CASE RingDb(a)
      BY <2>1, <2>8 DEF RingDb, inVars, ringVars, regVars, histVars, TypeInv
    <2>9. QED  BY <1>5, <2>2, <2>3, <2>4, <2>5, <2>6, <2>7, <2>8 DEF Post
  <1>6. CASE UNCHANGED vars
    BY <1>6 DEF vars, inVars, ringVars, nicVars, regVars, histVars, TypeInv
  <1>7. QED  BY <1>1, <1>2, <1>3, <1>4, <1>5, <1>6 DEF Next

-----------------------------------------------------------------------------
(* Steps that touch neither program: of the NIC, or none at all.           *)
LEMMA NicFrame ==
    ASSUME \/ \E p \in Packet : Arrive(p)
           \/ Transmit
           \/ UNCHANGED vars
    PROVE  UNCHANGED <<ringVars, sq_db, pc, send, regVars, histVars>>
  BY DEF Arrive, Transmit, vars, nicVars, histVars

(* Steps that choose what to send: an idle program comes to loadSlot.      *)
LEMMA ChooseFrame ==
    ASSUME PpQueue \/ \E dst_addr \in Macs : SendPacket(dst_addr)
    PROVE  /\ UNCHANGED <<rules, ringVars, nicVars, regVars, histVars>>
           /\ \E a \in Posters :
                  /\ pc[a] = "idle" /\ pc' = [pc EXCEPT ![a] = "loadSlot"]
                  /\ \E s : send' = [send EXCEPT ![a] = s]
  BY DEF PpQueue, SendPacket, Goto, Posters

(* The steps of a post after its first.                                    *)
LaterStep(a) == LoadSegIdx(a) \/ StoreSegIdx(a) \/ WriteWqe(a) \/ LoadPi(a) \/ StorePi(a)
                    \/ RingDb(a)

(* They keep its history.                                                  *)
LEMMA PostFrame ==
    ASSUME TypeInv, NEW a \in Posters, LaterStep(a)
    PROVE  /\ UNCHANGED <<send, histVars>>
           /\ Posting(a)
           /\ \A b \in Posters : Posting(b)' => Posting(b)
  BY DEF LaterStep, LoadSegIdx, StoreSegIdx, WriteWqe, LoadPi, StorePi, RingDb, Goto,
     Posting, TypeInv

(* The posters keep track of who overlaps with whom.                       *)
LEMMA OverlapStep ==
    ASSUME TypeInv, OverlapInv, [Next]_vars
    PROVE  OverlapInv'
  <1>1. CASE (\E p \in Packet : Arrive(p)) \/ Transmit \/ UNCHANGED vars
    BY <1>1, NicFrame DEF histVars, OverlapInv, Posting
  <1>2. CASE PpQueue \/ \E dst_addr \in Macs : SendPacket(dst_addr)
    <2>1. \A b \in Posters : Posting(b)' => Posting(b)
      BY <1>2, ChooseFrame DEF Posting, TypeInv
    <2>2. QED  BY <1>2, <2>1, ChooseFrame DEF histVars, OverlapInv
  <1>3. ASSUME NEW a \in Posters, LoadSlot(a) PROVE OverlapInv'
    <2>1. ~Posting(a) /\ \A b \in Posters \ {a} : Posting(b)' = Posting(b)
      BY <1>3 DEF LoadSlot, Goto, Posting, TypeInv
    <2>2. \A b \in Posters : overlapped'[b] = IF b = a THEN \E c \in Posters : Posting(c)
                                                      ELSE overlapped[b] \/ Posting(b)
      BY <1>3 DEF LoadSlot
    <2>3. raced' = (raced \/ overlapped'[a])
      BY <1>3 DEF LoadSlot
    <2> HIDE DEF Posting
    <2>4. ASSUME NEW b \in Posters, Posting(b)'
          PROVE  /\ overlapped'[b] => raced'
                 /\ \A c \in Posters \ {b} : Posting(c)' => overlapped'[b]
      <3>1. CASE b = a  BY <2>1, <2>2, <2>3, <3>1
      <3>2. CASE b # a
        <4>1. Posting(b)  BY <2>1, <2>4, <3>2
        <4>2. overlapped'[b] /\ overlapped'[a]  BY <2>2, <3>2, <4>1
        <4>3. QED  BY <2>3, <4>2
      <3>3. QED  BY <3>1, <3>2
    <2>5. QED  BY <2>4 DEF OverlapInv
  <1>4. ASSUME NEW a \in Posters, LaterStep(a) PROVE  OverlapInv'
    BY <1>4, PostFrame DEF histVars, OverlapInv
  <1>5. QED  BY <1>1, <1>2, <1>3, <1>4 DEF Next, Post, LaterStep

(* A post without company keeps fresh registers.                           *)
LEMMA FreshStep ==
    ASSUME TypeInv, OverlapInv, FreshInv, [Next]_vars
    PROVE  FreshInv'
  <1>1. CASE (\E p \in Packet : Arrive(p)) \/ Transmit \/ UNCHANGED vars
    BY <1>1, NicFrame DEF histVars, ringVars, regVars, FreshInv
  <1>2. CASE PpQueue \/ \E dst_addr \in Macs : SendPacket(dst_addr)
    BY <1>2, ChooseFrame DEF histVars, ringVars, regVars, FreshInv, TypeInv
  <1>3. ASSUME NEW a \in Posters, LoadSlot(a) PROVE FreshInv'
    <2>1. ASSUME NEW b \in Posters, b # a
          PROVE  /\ pc'[b] = pc[b] /\ reg'[b] = reg[b]
                 /\ overlapped'[b] = (overlapped[b] \/ Posting(b))
      BY <1>3, <2>1 DEF LoadSlot, Goto, TypeInv
    <2>2. pc'[a] = "loadSeg"  BY <1>3 DEF LoadSlot, Goto, TypeInv
    <2>3. UNCHANGED <<sq_wqe_seg_idx, sq_pi>>  BY <1>3 DEF LoadSlot, ringVars
    <2>4. QED  BY <2>1, <2>2, <2>3 DEF FreshInv
  <1>4. ASSUME NEW a \in Posters, LaterStep(a) PROVE  FreshInv'
    <2>1. ASSUME NEW b \in Posters \ {a}
          PROVE  /\ pc'[b] = pc[b] /\ reg'[b] = reg[b]
                 /\ overlapped'[b] = overlapped[b]
                 /\ pc[b] \in {"storeSeg", "storePi"} => overlapped[b]
      <3>1. Posting(a) /\ overlapped' = overlapped  BY <1>4, PostFrame DEF histVars
      <3>2. pc[b] \in {"storeSeg", "storePi"} => Posting(b)  BY DEF Posting
      <3>3. Posting(b) => overlapped[b]  BY <3>1 DEF OverlapInv
      <3>4. pc'[b] = pc[b] /\ reg'[b] = reg[b]
        BY <1>4 DEF LaterStep, LoadSegIdx, StoreSegIdx, WriteWqe, LoadPi, StorePi, RingDb,
           Goto, regVars, TypeInv
      <3>5. QED  BY <3>1, <3>2, <3>3, <3>4
    <2>2. /\ pc'[a] = "storeSeg" => reg'[a] = sq_wqe_seg_idx' /\ reg'[a] % 4 = 0
          /\ pc'[a] = "storePi" => reg'[a] = sq_pi'
      BY <1>4 DEF LaterStep, LoadSegIdx, StoreSegIdx, WriteWqe, LoadPi, StorePi, RingDb,
         Goto, TypeInv, ringVars
    <2>3. QED  BY <2>1, <2>2 DEF FreshInv
  <1>5. QED  BY <1>1, <1>2, <1>3, <1>4 DEF Next, Post, LaterStep

-----------------------------------------------------------------------------
(* The counters never get ahead of the posts, in whatever order the two    *)
(* programs load and store them.                                           *)
LEMMA CountStep ==
    ASSUME TypeInv, SendsInv, CountInv, [Next]_vars
    PROVE  CountInv'
  <1>1. CASE (\E p \in Packet : Arrive(p)) \/ UNCHANGED vars
    <2>1. txCount' = txCount  BY <1>1 DEF Arrive, vars, nicVars
    <2>2. QED
      BY <1>1, <2>1, NicFrame DEF histVars, ringVars, regVars, CountInv, uncounted,
         Uncounted
  <1>2. CASE Transmit
    <2>1. txCount' <= Len(posts)  BY <1>2 DEF Transmit, CountInv, TypeInv
    <2>2. QED
      BY <1>2, <2>1, NicFrame DEF histVars, ringVars, regVars, CountInv, uncounted,
         Uncounted
  <1>3. CASE PpQueue \/ \E dst_addr \in Macs : SendPacket(dst_addr)
    <2> PICK a \in Posters : pc[a] = "idle" /\ pc' = [pc EXCEPT ![a] = "loadSlot"]
      BY <1>3, ChooseFrame
    <2>1. \A b \in Posters : \/ pc'[b] = pc[b]
                             \/ pc[b] = "idle" /\ pc'[b] = "loadSlot"
      BY DEF TypeInv
    <2>2. uncounted' = uncounted  BY <2>1 DEF uncounted, Uncounted, Posters
    <2>3. QED
      BY <1>3, <2>1, <2>2, ChooseFrame DEF histVars, ringVars, nicVars, regVars,
         CountInv
  <1>4. ASSUME NEW a \in Posters, Post(a) PROVE CountInv'
    <2>1. \A b \in Posters \ {a} : pc'[b] = pc[b] /\ reg'[b] = reg[b]
      BY <1>4 DEF Post, LoadSlot, LoadSegIdx, StoreSegIdx, WriteWqe, LoadPi, StorePi,
         RingDb, Goto, regVars, TypeInv
    <2>2. /\ uncounted \in Nat /\ Len(posts) \in Nat
          /\ sq_pi \in Nat /\ sq_db \in Nat /\ txCount \in Nat
          /\ \A b \in Posters : reg[b] \in Nat
      BY DEF uncounted, TypeInv
    <2>3. CASE LoadSlot(a)
      <3>1. Len(posts') = Len(posts) + 1
        BY <2>3, AppendProperties, SendTyped DEF LoadSlot, TypeInv
      <3>2. pc[a] = "loadSlot" /\ pc'[a] = "loadSeg" /\ reg' = reg
        BY <2>3 DEF LoadSlot, Goto, TypeInv
      <3>3. uncounted' = uncounted + 1
        BY <2>1, <3>2 DEF uncounted, Uncounted, Posters
      <3>4. UNCHANGED <<sq_pi, sq_db, txCount>>  BY <2>3 DEF LoadSlot, ringVars, nicVars
      <3>5. ASSUME NEW b \in Posters
            PROVE  /\ pc'[b] = "storePi" => reg'[b] + uncounted' <= Len(posts')
                   /\ pc'[b] = "ring" => reg'[b] + 1 + uncounted' <= Len(posts')
        <4>1. b # a => pc'[b] = pc[b] /\ reg'[b] = reg[b]  BY <2>1
        <4>2. QED  BY SMTT(20), <2>2, <3>1, <3>2, <3>3, <4>1 DEF CountInv
      <3>6. QED  BY <2>2, <3>1, <3>3, <3>4, <3>5 DEF CountInv
    <2>4. CASE LoadSegIdx(a) \/ StoreSegIdx(a) \/ WriteWqe(a)
      <3>1. /\ pc[a] \in {"loadSeg", "storeSeg", "writeWqe"}
            /\ pc'[a] \in {"storeSeg", "writeWqe", "loadPi"}
            /\ UNCHANGED <<sq_pi, sq_db, txCount, posts>>
        BY <2>4 DEF LoadSegIdx, StoreSegIdx, WriteWqe, Goto, TypeInv, ringVars, nicVars,
           histVars
      <3>2. uncounted' = uncounted
        BY <2>1, <3>1 DEF uncounted, Uncounted, Posters
      <3>3. QED  BY <2>1, <3>1, <3>2 DEF CountInv
    <2>5. CASE LoadPi(a)
      <3>1. /\ pc[a] = "loadPi" /\ pc'[a] = "storePi" /\ reg'[a] = sq_pi
            /\ UNCHANGED <<sq_pi, sq_db, txCount, posts>>
        BY <2>5 DEF LoadPi, Goto, TypeInv, ringVars, nicVars, histVars
      <3>2. uncounted' = uncounted
        BY <2>1, <3>1 DEF uncounted, Uncounted, Posters
      <3>3. QED  BY <2>1, <3>1, <3>2 DEF CountInv
    <2>6. CASE StorePi(a)
      <3>1. /\ pc[a] = "storePi" /\ pc'[a] = "ring" /\ reg'[a] = reg[a]
            /\ sq_pi' = reg[a] + 1
            /\ UNCHANGED <<sq_db, txCount, posts>>
        BY <2>6 DEF StorePi, Goto, TypeInv, nicVars, regVars, histVars
      <3>2. uncounted' = uncounted - 1
        BY <2>1, <3>1 DEF uncounted, Uncounted, Posters
      <3>3. ASSUME NEW b \in Posters
            PROVE  /\ pc'[b] = "storePi" => reg'[b] + uncounted' <= Len(posts')
                   /\ pc'[b] = "ring" => reg'[b] + 1 + uncounted' <= Len(posts')
        <4>1. reg[b] \in Nat /\ reg[a] \in Nat  BY <2>2
        <4>2. CASE b = a
          <5>1. reg[a] + uncounted <= Len(posts)  BY <3>1 DEF CountInv
          <5>2. QED  BY <2>2, <3>1, <3>2, <4>1, <4>2, <5>1
        <4>3. CASE b # a
          <5>1. pc'[b] = pc[b] /\ reg'[b] = reg[b]  BY <2>1, <4>3
          <5>2. QED  BY SMTT(20), <2>2, <3>1, <3>2, <4>1, <5>1 DEF CountInv
        <4>4. QED  BY <4>2, <4>3
      <3>4. QED
        <4>1. reg[a] + uncounted <= Len(posts) /\ reg[a] \in Nat  BY <2>2, <3>1 DEF CountInv
        <4>2. sq_pi' + uncounted' <= Len(posts')  BY <2>2, <3>1, <3>2, <4>1
        <4>3. QED  BY <3>1, <3>3, <4>2 DEF CountInv
    <2>7. CASE RingDb(a)
      <3>1. /\ pc[a] = "ring" /\ pc'[a] = "idle" /\ sq_db' = reg[a] + 1
            /\ UNCHANGED <<sq_pi, txCount, posts>>
        BY <2>7 DEF RingDb, Goto, TypeInv, ringVars, histVars
      <3>2. uncounted' = uncounted
        BY <2>1, <3>1 DEF uncounted, Uncounted, Posters
      <3>3. QED  BY SMTT(20), <2>1, <2>2, <3>1, <3>2 DEF CountInv
    <2>8. QED  BY <1>4, <2>3, <2>4, <2>5, <2>6, <2>7 DEF Post
  <1>5. QED  BY <1>1, <1>2, <1>3, <1>4 DEF Next

-----------------------------------------------------------------------------
(* As long as posts take turns, the counters are the number of posts begun, *)
(* up to the progress of the one under way.                                *)
LEMMA SoloStep ==
    ASSUME TypeInv, SendsInv, OverlapInv, SoloInv, [Next]_vars
    PROVE  SoloInv'
  <1> SUFFICES ASSUME ~raced' PROVE SoloInv'
    BY DEF SoloInv
  <1>1. CASE (\E p \in Packet : Arrive(p)) \/ Transmit \/ UNCHANGED vars
    BY <1>1, NicFrame DEF histVars, ringVars, regVars, SoloInv, Posting, Uncounted
  <1>2. CASE PpQueue \/ \E dst_addr \in Macs : SendPacket(dst_addr)
    <2> PICK a \in Posters : /\ pc[a] = "idle" /\ pc' = [pc EXCEPT ![a] = "loadSlot"]
                             /\ \E s : send' = [send EXCEPT ![a] = s]
      BY <1>2, ChooseFrame
    <2>1. \A b \in Posters : Posting(b)' = Posting(b)
      BY DEF Posting, TypeInv
    <2>2. \A b \in Posters : Posting(b) => pc'[b] = pc[b] /\ send'[b] = send[b]
      BY DEF Posting, TypeInv
    <2>3. \A b \in Posters : Posting(b) => Uncounted(b)' = Uncounted(b)
      BY <2>2 DEF Uncounted
    <2>4. UNCHANGED <<ringVars, sq_db, regVars, histVars>>
      BY <1>2, ChooseFrame DEF nicVars
    <2> HIDE DEF Posting, Uncounted
    <2>5. QED  BY <2>1, <2>2, <2>3, <2>4 DEF ringVars, regVars, histVars, SoloInv
  <1>3. ASSUME NEW a \in Posters, LoadSlot(a) PROVE SoloInv'
    <2>1. /\ \A b \in Posters : ~Posting(b)
          /\ ~raced
      BY <1>3 DEF LoadSlot
    <2>2. \A b \in Posters \ {a} : ~Posting(b)'
      BY <1>3, <2>1 DEF LoadSlot, Goto, Posting, TypeInv
    <2>3. /\ Len(posts') = Len(posts) + 1 /\ Len(posts) \in Nat
          /\ posts'[Len(posts')] = send[a]
      BY <1>3, AppendProperties, SendTyped DEF LoadSlot, TypeInv
    <2>4. /\ pc'[a] = "loadSeg" /\ slot'[a] = SqSlot(sq_wqe_seg_idx)
          /\ UNCHANGED <<sq_wqe_seg_idx, sq_pi, sq_db, send>>
      BY <1>3 DEF LoadSlot, Goto, ringVars, nicVars, TypeInv
    <2>5. /\ sq_wqe_seg_idx = 4 * Len(posts)
          /\ sq_pi = Len(posts) /\ sq_db = Len(posts)
      BY <2>1 DEF SoloInv
    <2>6. slot'[a] = (Len(posts') - 1) % Depth
      <3>1. slot'[a] = Len(posts) % Depth  BY <2>3, <2>4, <2>5, SlotOfSegment
      <3>2. Len(posts') - 1 = Len(posts)  BY <2>3
      <3>3. QED  BY <3>1, <3>2
    <2>7. QED  BY <2>2, <2>3, <2>4, <2>5, <2>6 DEF SoloInv, Posting, Uncounted, Writing
  <1>4. ASSUME NEW a \in Posters, LaterStep(a) PROVE  SoloInv'
    <2>1. ~raced /\ Posting(a) /\ UNCHANGED <<send, posts>>
      BY <1>4, PostFrame DEF histVars
    <2>2. \A b \in Posters \ {a} : ~Posting(b)'
      BY <1>4, <2>1, PostFrame DEF OverlapInv
    <2> DEFINE n == Len(posts)
    <2>3. /\ n \in Nat /\ n > 0 /\ posts[n] = send[a] /\ sq_db = n - 1
          /\ sq_wqe_seg_idx = IF pc[a] \in {"loadSeg", "storeSeg"} THEN 4 * (n - 1) ELSE 4 * n
          /\ sq_pi = IF Uncounted(a) THEN n - 1 ELSE n
          /\ pc[a] \in Writing => slot[a] = (n - 1) % Depth
          /\ pc[a] = "storeSeg" => reg[a] = 4 * (n - 1)
          /\ pc[a] \in {"storePi", "ring"} => reg[a] = n - 1
      BY <2>1 DEF SoloInv, TypeInv
    <2>4. n' = n  BY <2>1
    <2> DEFINE s == (n - 1) % Depth
    <2> HIDE DEF n, s
    <2>5. CASE RingDb(a)
      <3>1. /\ pc[a] = "ring" /\ pc'[a] = "idle" /\ sq_db' = reg[a] + 1
            /\ UNCHANGED <<sq_wqe_seg_idx, sq_pi>>
        BY <2>5 DEF RingDb, Goto, TypeInv, ringVars
      <3>2. \A b \in Posters : ~Posting(b)'
        BY <2>2, <3>1 DEF Posting
      <3>3. sq_wqe_seg_idx' = 4 * n /\ sq_pi' = n /\ sq_db' = n
        BY <2>3, <3>1 DEF Uncounted
      <3>4. QED  BY <2>1, <3>2, <3>3 DEF SoloInv, n
    <2>6. CASE ~RingDb(a)
      <3>1. /\ pc'[a] \in {"storeSeg", "writeWqe", "loadPi", "storePi", "ring"}
            /\ sq_db' = n - 1
            /\ sq_wqe_seg_idx' = IF pc'[a] = "storeSeg" THEN 4 * (n - 1) ELSE 4 * n
            /\ sq_pi' = IF Uncounted(a)' THEN n - 1 ELSE n
            /\ pc'[a] \in Writing => slot'[a] = s
            /\ pc'[a] = "storeSeg" => reg'[a] = 4 * (n - 1)
            /\ pc'[a] \in {"storePi", "ring"} => reg'[a] = n - 1
        <4>1. pc[a] \in Writing => slot[a] = s  BY <2>3 DEF s
        <4>2. CASE LoadSegIdx(a)
          BY <2>3, <4>1, <4>2 DEF LoadSegIdx, Goto, Uncounted, Writing, TypeInv, ringVars,
             nicVars
        <4>3. CASE StoreSegIdx(a)
          BY <2>3, <4>1, <4>3 DEF StoreSegIdx, Goto, Uncounted, Writing, TypeInv, nicVars,
             regVars
        <4>4. CASE WriteWqe(a)
          BY <2>3, <4>4 DEF WriteWqe, Goto, Uncounted, Writing, TypeInv, nicVars, regVars
        <4>5. CASE LoadPi(a)
          BY <2>3, <4>5 DEF LoadPi, Goto, Uncounted, Writing, TypeInv, ringVars, nicVars
        <4>6. CASE StorePi(a)
          BY <2>3, <4>6 DEF StorePi, Goto, Uncounted, Writing, TypeInv, nicVars, regVars
        <4>7. QED  BY <1>4, <2>6, <4>2, <4>3, <4>4, <4>5, <4>6 DEF LaterStep
      <3>2. pc'[a] \in Writing => slot'[a] = (n - 1) % Depth  BY <3>1 DEF s
      <3>3. QED  BY <2>1, <2>2, <2>3, <3>1, <3>2 DEF SoloInv, n, Posting
    <2>7. QED  BY <2>5, <2>6
  <1>5. QED  BY <1>1, <1>2, <1>3, <1>4 DEF Next, Post, LaterStep

(* The packet of a post that is being written is the last one posted.      *)
LEMMA RingStep ==
    ASSUME TypeInv, SendsInv, OverlapInv, SoloInv, RingInv, [Next]_vars
    PROVE  RingInv'
  <1> SUFFICES ASSUME ~raced' PROVE RingInv'
    BY DEF RingInv
  <1> DEFINE n == Len(posts)
             Holds(k) == /\ sq_ring[(k - 1) % Depth].by # Nobody
                         /\ n < k + Depth => sq_ring[(k - 1) % Depth] = posts[k]
  <1>n. n \in Nat  BY DEF TypeInv
  <1>1. CASE (\E p \in Packet : Arrive(p)) \/ Transmit \/ UNCHANGED vars
    BY <1>1, NicFrame DEF histVars, ringVars, RingInv, Written
  <1>2. CASE PpQueue \/ \E dst_addr \in Macs : SendPacket(dst_addr)
    <2> PICK a \in Posters : pc[a] = "idle" /\ pc' = [pc EXCEPT ![a] = "loadSlot"]
      BY <1>2, ChooseFrame
    <2>1. \A b \in Posters : pc'[b] \notin Writing
                                => pc[b] \notin Writing
      BY DEF TypeInv, Writing
    <2>2. UNCHANGED <<ringVars, histVars>>  BY <1>2, ChooseFrame
    <2>3. \A k : Written(k)' => Written(k)  BY <2>1, <2>2 DEF Written, histVars
    <2>4. QED  BY <2>2, <2>3 DEF ringVars, histVars, RingInv
  <1>3. ASSUME NEW a \in Posters, LoadSlot(a) PROVE RingInv'
    <2>1. (\A b \in Posters : ~Posting(b)) /\ ~raced
      BY <1>3 DEF LoadSlot
    <2>2. /\ Len(posts') = n + 1 /\ sq_ring' = sq_ring
          /\ \A k \in 1 .. n : posts'[k] = posts[k]
      BY <1>3, AppendProperties, SendTyped DEF LoadSlot, TypeInv, ringVars
    <2>3. pc'[a] \in Writing  BY <1>3 DEF LoadSlot, Goto, TypeInv, Writing
    <2>4. \A k \in 1 .. n : Holds(k)
      BY <2>1 DEF RingInv, Written, Writing, Posting
    <2> SUFFICES ASSUME NEW k \in 1 .. Len(posts'), Written(k)'
                 PROVE  /\ sq_ring'[(k - 1) % Depth].by # Nobody
                        /\ Len(posts') < k + Depth => sq_ring'[(k - 1) % Depth] = posts'[k]
      BY DEF RingInv
    <2>5. k \in 1 .. n  BY <1>n, <2>2, <2>3 DEF Written
    <2>6. n + 1 < k + Depth => n < k + Depth  BY <1>n, <2>5, SendDepthAssumption
    <2>7. QED  BY <2>2, <2>4, <2>5, <2>6
  <1>4. ASSUME NEW a \in Posters, LaterStep(a), ~WriteWqe(a) PROVE RingInv'
    <2>1. ~raced /\ UNCHANGED posts  BY <1>4, PostFrame DEF histVars
    <2>2. sq_ring' = sq_ring
      BY <1>4 DEF LaterStep, LoadSegIdx, StoreSegIdx, LoadPi, StorePi, RingDb, ringVars
    <2>3. \A b \in Posters : pc'[b] \notin Writing => pc[b] \notin Writing
      BY <1>4 DEF LaterStep, LoadSegIdx, StoreSegIdx, LoadPi, StorePi, RingDb, Goto, TypeInv,
         Writing
    <2>4. \A k : Written(k)' => Written(k)  BY <2>1, <2>3 DEF Written
    <2>5. QED  BY <2>1, <2>2, <2>4 DEF RingInv
  <1>5. ASSUME NEW a \in Posters, WriteWqe(a) PROVE RingInv'
    <2>1. ~raced /\ Posting(a) /\ UNCHANGED posts
      BY <1>5, PostFrame DEF histVars, LaterStep
    <2>2. n > 0 /\ posts[n] = send[a] /\ slot[a] = (n - 1) % Depth
      BY <1>5, <2>1 DEF SoloInv, WriteWqe, Writing
    <2>3. (n - 1) % Depth \in 0 .. Depth - 1
      <3>1. n - 1 \in Nat  BY <1>n, <2>2
      <3>2. QED  BY <3>1, SlotType
    <2>4. /\ sq_ring'[(n - 1) % Depth] = send[a]
          /\ \A s \in 0 .. Depth - 1 : s # (n - 1) % Depth => sq_ring'[s] = sq_ring[s]
      BY <1>5, <2>2, <2>3 DEF WriteWqe, TypeInv
    <2>5. send[a].by # Nobody
      BY <1>5 DEF WriteWqe, SendsInv, Posters, Nobody
    <2> SUFFICES ASSUME NEW k \in 1 .. n
                 PROVE  /\ sq_ring'[(k - 1) % Depth].by # Nobody
                        /\ n < k + Depth => sq_ring'[(k - 1) % Depth] = posts[k]
      BY <2>1 DEF RingInv
    <2>6. CASE k = n  BY <2>2, <2>4, <2>5, <2>6
    <2>7. CASE k < n
      <3>1. Holds(k)  BY <2>1, <2>7 DEF RingInv, Written
      <3>2. (k - 1) % Depth \in 0 .. Depth - 1  BY SMTT(20), SlotType
      <3>3. n < k + Depth => (k - 1) % Depth # (n - 1) % Depth
        <4> SUFFICES ASSUME n < k + Depth PROVE (k - 1) % Depth # (n - 1) % Depth
          OBVIOUS
        <4>1. k - 1 \in Int /\ n - 1 \in Int /\ k - 1 < n - 1 /\ n - 1 < (k - 1) + Depth
          BY <1>n, <2>7, SendDepthAssumption
        <4> HIDE DEF n
        <4>2. QED  BY <4>1, SendDepthAssumption, ModInjective
      <3>4. CASE (k - 1) % Depth = (n - 1) % Depth  BY <2>4, <2>5, <3>3, <3>4
      <3>5. CASE (k - 1) % Depth # (n - 1) % Depth  BY <2>4, <3>1, <3>2, <3>5
      <3>6. QED  BY <3>4, <3>5
    <2>8. QED  BY <1>n, <2>6, <2>7
  <1>6. QED  BY <1>1, <1>2, <1>3, <1>4, <1>5 DEF Next, Post, LaterStep

(* A packet that arrives takes nothing back of what was answered before.   *)
LEMMA SendsStay ==
    ASSUME TypeInv, NEW p \in Packet, Arrive(p), NEW s, RightSend(s)
    PROVE  RightSend(s)'
  <1>1. /\ Len(arrived') = Len(arrived) + 1
        /\ \A n \in 1 .. Len(arrived) : arrived'[n] = arrived[n]
    BY AppendProperties DEF Arrive, TypeInv
  <1>2. Len(arrived) \in Nat  BY DEF TypeInv
  <1>3. ASSUME NEW n \in 1 .. Len(arrived), Answers(s.pkt, arrived[n])
        PROVE  n \in 1 .. Len(arrived') /\ Answers(s.pkt, arrived'[n])
    BY <1>1, <1>2, <1>3
  <1>4. QED  BY <1>3 DEF RightSend

(* The RPC sends from the address of the rules; the handler sends answers, *)
(* with the key that opens its buffer.                                     *)
LEMMA SendsStep ==
    ASSUME TypeInv, SendsInv, [Next]_vars
    PROVE  SendsInv'
  <1>1. CASE \E p \in Packet : Arrive(p)
    <2> PICK p \in Packet : Arrive(p)  BY <1>1
    <2>1. UNCHANGED <<send, pc, sq_ring>>  BY <1>1, NicFrame DEF ringVars
    <2>2. \A a \in Posters : RightSend(send[a])'
      BY <2>1, SendsStay DEF SendsInv
    <2>3. \A s \in 0 .. Depth - 1 : RightSend(sq_ring[s])'
      BY <2>1, SendsStay DEF SendsInv
    <2>4. QED  BY <2>1, <2>2, <2>3 DEF SendsInv
  <1>2. CASE Transmit
    BY <1>2, NicFrame DEF Transmit, inVars, ringVars, SendsInv, RightSend
  <1>3. CASE PpQueue
    <2> DEFINE s == [pkt |-> swap_mac(arrived[received + 1]), buf |-> "tenant.rqd",
                     key |-> "tenant.rq_lkey", by |-> "handler"]
    <2>1. received + 1 \in 1 .. Len(arrived)  BY <1>3 DEF PpQueue, TypeInv
    <2>2. Answers(s.pkt, arrived[received + 1])  BY DEF swap_mac, Answers
    <2>3. s.by = "handler" /\ s.key = KeyOf[s.buf]  BY DEF KeyOf, Buffers
    <2>4. send'["handler"] = s /\ arrived' = arrived
      BY <1>3 DEF PpQueue, TypeInv, Posters
    <2> HIDE DEF s
    <2>5. RightSend(s)  BY <2>1, <2>2, <2>3 DEF RightSend
    <2>6. send'["rpc"] = send["rpc"] /\ pc'["rpc"] = pc["rpc"] /\ sq_ring' = sq_ring
      BY <1>3 DEF PpQueue, Goto, Posters, ringVars, TypeInv
    <2>7. QED  BY <2>3, <2>4, <2>5, <2>6 DEF SendsInv, RightSend, Posters
  <1>4. CASE \E dst_addr \in Macs : SendPacket(dst_addr)
    <2> PICK dst_addr \in Macs : SendPacket(dst_addr)  BY <1>4
    <2>1. send'["rpc"].by = "rpc" /\ RightSend(send'["rpc"])
      BY DEF SendPacket, RightSend, SRC_ADDR, Posters, TypeInv
    <2>2. send'["handler"] = send["handler"] /\ pc'["handler"] = pc["handler"]
      BY DEF SendPacket, Goto, Posters, TypeInv
    <2>3. sq_ring' = sq_ring /\ arrived' = arrived  BY DEF SendPacket, ringVars, inVars
    <2>4. QED  BY <2>1, <2>2, <2>3 DEF SendsInv, RightSend, Posters
  <1>5. ASSUME NEW a \in Posters, Post(a) PROVE SendsInv'
    <2>1. send' = send /\ arrived' = arrived
      BY <1>5 DEF Post, LoadSlot, LoadSegIdx, StoreSegIdx, WriteWqe, LoadPi, StorePi,
         RingDb, inVars
    <2>2. \A b \in Posters : pc'[b] # "idle" => pc[b] # "idle"
      BY <1>5 DEF Post, LoadSlot, LoadSegIdx, StoreSegIdx, WriteWqe, LoadPi, StorePi,
         RingDb, Goto, TypeInv
    <2>3. \A s \in 0 .. Depth - 1 : sq_ring'[s] \in {sq_ring[s], send[a]}
      BY <1>5 DEF Post, LoadSlot, LoadSegIdx, StoreSegIdx, WriteWqe, LoadPi, StorePi,
         RingDb, ringVars, TypeInv
    <2>4. QED  BY <2>1, <2>2, <2>3 DEF SendsInv, RightSend
  <1>6. CASE UNCHANGED vars
    BY <1>6 DEF vars, inVars, ringVars, SendsInv, RightSend
  <1>7. QED  BY <1>1, <1>2, <1>3, <1>4, <1>5, <1>6 DEF Next

-----------------------------------------------------------------------------
(* While posts take turns, what the doorbell has announced is written.     *)
LEMMA AnnouncedWritten ==
    ASSUME TypeInv, CountInv, SoloInv, ~raced, NEW k \in 1 .. sq_db
    PROVE  k \in 1 .. Len(posts) /\ Written(k)
  <1>1. Len(posts) \in Nat /\ sq_db \in Nat /\ sq_db <= Len(posts)
    BY DEF TypeInv, CountInv
  <1>2. CASE k < Len(posts)  BY <1>1, <1>2 DEF Written
  <1>3. CASE k = Len(posts)
    <2>1. sq_db # Len(posts) - 1  BY <1>1, <1>3
    <2>2. \A a \in Posters : ~Posting(a)  BY <2>1 DEF SoloInv
    <2>3. QED  BY <1>1, <1>3, <2>2 DEF Written, Writing, Posting
  <1>4. QED  BY <1>1, <1>2, <1>3

(* Only transmissions break the SQ, and none of a WQE the handler wrote.   *)
LEMMA ErrorsStep ==
    ASSUME TypeInv, CountInv, SoloInv, RingInv, SendsInv, ErrorsExplained, [Next]_vars
    PROVE  ErrorsExplained'
  <1>1. raced => raced'
    BY DEF Next, Arrive, Transmit, PpQueue, SendPacket, Post, LoadSlot, LoadSegIdx,
       StoreSegIdx, WriteWqe, LoadPi, StorePi, RingDb, vars, histVars
  <1>2. CASE Transmit
    <2> DEFINE wqe == sq_ring[txCount % Depth]
    <2> SUFFICES ASSUME sq_error', ~sq_error
                 PROVE  culprit' = "rpc" \/ (culprit' = Nobody /\ raced')
      BY <1>2 DEF Transmit, ErrorsExplained
    <2>1. ~Covered(wqe) /\ culprit' = wqe.by /\ txCount < sq_db
      BY <1>2 DEF Transmit
    <2>2. txCount % Depth \in 0 .. Depth - 1  BY SlotType DEF TypeInv
    <2>3. wqe.by \in {"handler", "rpc", Nobody}
      BY <2>2 DEF TypeInv, Send, Unset, Posters
    <2>4. wqe.by # "handler"
      BY <2>1, <2>2 DEF SendsInv, RightSend, Covered, Nobody
    <2>5. ASSUME ~raced PROVE wqe.by # Nobody
      <3>1. txCount + 1 \in 1 .. sq_db /\ (txCount + 1) - 1 = txCount
        BY <2>1 DEF TypeInv
      <3>2. txCount + 1 \in 1 .. Len(posts) /\ Written(txCount + 1)
        BY <2>5, <3>1, AnnouncedWritten
      <3>3. QED  BY <2>5, <3>1, <3>2 DEF RingInv
    <2>6. QED  BY <1>1, <2>1, <2>3, <2>4, <2>5
  <1>3. CASE ~Transmit
    <2>1. UNCHANGED <<sq_error, culprit>>
      BY <1>3 DEF Next, Arrive, PpQueue, SendPacket, Post, LoadSlot, LoadSegIdx,
         StoreSegIdx, WriteWqe, LoadPi, StorePi, RingDb, vars, nicVars
    <2>2. QED  BY <1>1, <2>1 DEF ErrorsExplained
  <1>4. QED  BY <1>2, <1>3

(* With both TX rules nothing stays behind but answers to packets that     *)
(* were addressed to somebody else.                                        *)
LEMMA MatchStep ==
    ASSUME TypeInv, SendsInv, SendsMatchRules, [Next]_vars
    PROVE  SendsMatchRules'
  <1> DEFINE Foreign(p) ==
          \E n \in 1 .. Len(arrived) : Answers(p, arrived[n]) /\ arrived[n].dst # Mac
  <1>1. rules' = rules
    BY DEF Next, Arrive, Transmit, PpQueue, SendPacket, Post, LoadSlot, LoadSegIdx,
       StoreSegIdx, WriteWqe, LoadPi, StorePi, RingDb, vars
  <1> SUFFICES ASSUME {"tx", "tx2"} \subseteq rules, NEW p \in unsent'
               PROVE  Foreign(p)'
    BY <1>1 DEF SendsMatchRules
  <1>2. p \in unsent => Foreign(p)  BY DEF SendsMatchRules
  <1>3. CASE Transmit
    <2> DEFINE wqe == sq_ring[txCount % Depth]
    <2>1. arrived' = arrived  BY <1>3 DEF Transmit, inVars
    <2>2. CASE p \in unsent  BY <1>2, <2>1, <2>2
    <2>3. CASE p \notin unsent
      <3>1. Covered(wqe) /\ p = wqe.pkt /\ p.src # Mac
        BY <1>3, <2>3 DEF Transmit, TxMatches
      <3>2. txCount % Depth \in 0 .. Depth - 1  BY SlotType DEF TypeInv
      <3>3. wqe.by \in {"handler", "rpc"}
        BY <3>1, <3>2 DEF TypeInv, Send, Unset, Posters, Covered
      <3>4. \E n \in 1 .. Len(arrived) : Answers(p, arrived[n])
        BY <3>1, <3>2, <3>3 DEF SendsInv, RightSend
      <3>5. QED  BY <2>1, <3>1, <3>4 DEF Answers
    <2>4. QED  BY <2>2, <2>3
  <1>4. CASE \E q \in Packet : Arrive(q)
    <2> PICK q \in Packet : Arrive(q)  BY <1>4
    <2>1. unsent' = unsent  BY DEF Arrive, nicVars
    <2>2. /\ Len(arrived') = Len(arrived) + 1
          /\ \A n \in 1 .. Len(arrived) : arrived'[n] = arrived[n]
      BY AppendProperties DEF Arrive, TypeInv
    <2>3. Len(arrived) \in Nat  BY DEF TypeInv
    <2>4. \A n \in 1 .. Len(arrived) : n \in 1 .. Len(arrived')  BY <2>2, <2>3
    <2>5. QED  BY <1>2, <2>1, <2>2, <2>4
  <1>5. CASE ~Transmit /\ ~\E q \in Packet : Arrive(q)
    <2>1. unsent' = unsent /\ arrived' = arrived
      BY <1>5 DEF Next, PpQueue, SendPacket, Post, LoadSlot, LoadSegIdx, StoreSegIdx,
         WriteWqe, LoadPi, StorePi, RingDb, vars, nicVars, inVars
    <2>2. QED  BY <1>2, <2>1
  <1>6. QED  BY <1>3, <1>4, <1>5

LEMMA InvInit ==
    ASSUME Init
    PROVE  IInv
  <1>1. TypeInv
    <2>1. arrived \in Seq(Packet) /\ posts \in Seq(Send)  BY DEF Init
    <2>2. sq_ring \in [0 .. Depth - 1 -> Send \cup {Unset}]  BY DEF Init
    <2>3. rules \subseteq {"tx", "tx2"}  BY DEF Init
    <2>4. sq_error \in BOOLEAN /\ raced \in BOOLEAN /\ overlapped \in [Posters -> BOOLEAN]
      BY DEF Init
    <2>5. received \in 0 .. Len(arrived)  BY DEF Init
    <2>6. slot \in [Posters -> 0 .. Depth - 1]  BY SendDepthAssumption DEF Init
    <2>7. QED  BY <2>1, <2>2, <2>3, <2>4, <2>5, <2>6 DEF Init, TypeInv
  <1>2. OverlapInv /\ FreshInv  BY DEF Init, OverlapInv, FreshInv, Posting
  <1>3. CountInv
    BY DEF Init, CountInv, uncounted, Uncounted, Posters
  <1>4. SoloInv /\ RingInv  BY DEF Init, SoloInv, RingInv, Posting
  <1>5. SendsInv  BY DEF Init, SendsInv, RightSend, Unset, Nobody
  <1>6. ErrorsExplained /\ SendsMatchRules  BY DEF Init, ErrorsExplained, SendsMatchRules
  <1>7. QED  BY <1>1, <1>2, <1>3, <1>4, <1>5, <1>6 DEF IInv

(* The inductive invariant: posts that overlap know it, counters never get *)
(* ahead, and until two posts overlap ring and counters are the posts.     *)
THEOREM SendInvariance == Spec => []IInv
  <1>1. Init => IInv  BY InvInit
  <1>2. IInv /\ [Next]_vars => IInv'
    BY TypeStep, OverlapStep, FreshStep, CountStep, SoloStep, RingStep, SendsStep,
       ErrorsStep, MatchStep DEF IInv
  <1>3. QED  BY <1>1, <1>2, PTL DEF Spec

(* Type correctness of the send queue, its NIC and both programs.          *)
THEOREM SendTypeCorrect == Spec => []TypeInv
  <1>1. IInv => TypeInv  BY DEF IInv
  <1>2. QED  BY <1>1, SendInvariance, PTL

(* Until two posts overlap, what the doorbell announced is what was posted. *)
THEOREM AnnouncedSafe == Spec => []AnnouncedIntact
  <1>1. ASSUME IInv PROVE AnnouncedIntact
    <2> SUFFICES ASSUME ~raced PROVE AnnouncedIntact
      BY DEF AnnouncedIntact
    <2>1. ASSUME NEW k \in txCount + 1 .. sq_db, k <= Len(posts), Len(posts) < k + Depth
          PROVE  sq_ring[(k - 1) % Depth] = posts[k]
      <3>1. k \in 1 .. sq_db  BY <1>1 DEF IInv, TypeInv
      <3>2. k \in 1 .. Len(posts) /\ Written(k)
        BY <1>1, <3>1, AnnouncedWritten DEF IInv
      <3>3. QED  BY <1>1, <2>1, <3>2 DEF IInv, RingInv
    <2>2. QED  BY <1>1, <2>1 DEF AnnouncedIntact, IInv, SoloInv
  <1>2. QED  BY <1>1, SendInvariance, PTL

(* The NIC is never told of more WQEs than were begun, whatever overlaps.  *)
THEOREM PostedSafe == Spec => []NothingUnposted
  <1>1. IInv => NothingUnposted  BY DEF IInv, CountInv, NothingUnposted
  <1>2. QED  BY <1>1, SendInvariance, PTL

(* The SQ breaks only by a first packet's key or by an overlapping post.   *)
THEOREM ErrorsSafe == Spec => []ErrorsExplained
  <1>1. IInv => ErrorsExplained  BY DEF IInv
  <1>2. QED  BY <1>1, SendInvariance, PTL

(* With both TX rules, the thread's sends leave the NIC, but for answers   *)
(* to packets addressed to somebody else.                                  *)
THEOREM MatchSafe == Spec => []SendsMatchRules
  <1>1. IInv => SendsMatchRules  BY DEF IInv
  <1>2. QED  BY <1>1, SendInvariance, PTL

-----------------------------------------------------------------------------
(* A post without company keeps slots and doorbell as far apart as before. *)
LEMMA SkewStep ==
    ASSUME TypeInv, FreshInv, Next, Skew' # Skew
    PROVE  \E a \in Posters : Posting(a) /\ overlapped[a]
  <1>1. CASE (\E p \in Packet : Arrive(p)) \/ Transmit
    BY <1>1, NicFrame DEF ringVars, Skew, between, Between
  <1>2. CASE PpQueue \/ \E dst_addr \in Macs : SendPacket(dst_addr)
    <2> PICK a \in Posters : pc[a] = "idle" /\ pc' = [pc EXCEPT ![a] = "loadSlot"]
      BY <1>2, ChooseFrame
    <2>1. \A b \in Posters : pc'[b] = pc[b] \/ (pc[b] = "idle" /\ pc'[b] = "loadSlot")
      BY DEF TypeInv
    <2>2. between' = between  BY <2>1 DEF between, Between, Posters
    <2>3. QED  BY <1>2, <2>2, ChooseFrame DEF ringVars, Skew
  <1>3. ASSUME NEW a \in Posters, Post(a) PROVE Posting(a) /\ overlapped[a]
    <2>1. \A b \in Posters \ {a} : pc'[b] = pc[b]
      BY <1>3 DEF Post, LoadSlot, LoadSegIdx, StoreSegIdx, WriteWqe, LoadPi, StorePi,
         RingDb, Goto, TypeInv
    <2>2. sq_wqe_seg_idx \in Nat /\ sq_pi \in Nat /\ between \in Nat /\ reg[a] \in Nat
      BY DEF TypeInv, between
    <2>3. CASE LoadSlot(a) \/ LoadSegIdx(a) \/ WriteWqe(a) \/ LoadPi(a) \/ RingDb(a)
      <3>1. UNCHANGED <<sq_wqe_seg_idx, sq_pi>>
        BY <2>3 DEF LoadSlot, LoadSegIdx, WriteWqe, LoadPi, RingDb, ringVars
      <3>2. pc[a] \in {"writeWqe", "loadPi", "storePi"}
                <=> pc'[a] \in {"writeWqe", "loadPi", "storePi"}
        <4>1. CASE LoadSlot(a)    BY <4>1 DEF LoadSlot, Goto, TypeInv
        <4>2. CASE LoadSegIdx(a)  BY <4>2 DEF LoadSegIdx, Goto, TypeInv
        <4>3. CASE WriteWqe(a)    BY <4>3 DEF WriteWqe, Goto, TypeInv
        <4>4. CASE LoadPi(a)      BY <4>4 DEF LoadPi, Goto, TypeInv
        <4>5. CASE RingDb(a)      BY <4>5 DEF RingDb, Goto, TypeInv
        <4>6. QED  BY <2>3, <4>1, <4>2, <4>3, <4>4, <4>5
      <3>3. between' = between
        BY <2>1, <3>2 DEF between, Between, Posters
      <3>4. QED  BY <3>1, <3>3 DEF Skew
    <2>4. CASE StoreSegIdx(a)
      <3>1. /\ pc[a] = "storeSeg" /\ pc'[a] = "writeWqe"
            /\ sq_wqe_seg_idx' = reg[a] + 4 /\ sq_pi' = sq_pi
        BY <2>4 DEF StoreSegIdx, Goto, TypeInv
      <3>2. between' = between + 1
        BY <2>1, <3>1 DEF between, Between, Posters
      <3>3. ASSUME reg[a] = sq_wqe_seg_idx PROVE FALSE
        <4>1. (sq_wqe_seg_idx + 4) \div 4 = (sq_wqe_seg_idx \div 4) + 1  BY <2>2
        <4>2. sq_wqe_seg_idx \div 4 \in Int  BY <2>2
        <4>3. QED  BY <2>2, <3>1, <3>2, <3>3, <4>1, <4>2 DEF Skew
      <3>4. QED  BY <3>1, <3>3 DEF FreshInv, Posting
    <2>5. CASE StorePi(a)
      <3>1. /\ pc[a] = "storePi" /\ pc'[a] = "ring"
            /\ sq_pi' = reg[a] + 1 /\ sq_wqe_seg_idx' = sq_wqe_seg_idx
        BY <2>5 DEF StorePi, Goto, TypeInv
      <3>2. between' = between - 1
        BY <2>1, <3>1 DEF between, Between, Posters
      <3>3. ASSUME reg[a] = sq_pi PROVE FALSE
        <4>1. sq_wqe_seg_idx \div 4 \in Int  BY <2>2
        <4>2. QED  BY <2>2, <3>1, <3>2, <3>3, <4>1 DEF Skew
      <3>4. QED  BY <3>1, <3>3 DEF FreshInv, Posting
    <2>6. QED  BY <1>3, <2>3, <2>4, <2>5 DEF Post
  <1>4. QED  BY <1>1, <1>2, <1>3 DEF Next

(* Slots and doorbell fall out of step only in a post that overlapped.     *)
THEOREM SkewSafe == Spec => SkewOnlyInOverlap
  <1>1. IInv /\ [Next]_vars =>
            [Skew' # Skew => \E a \in Posters : Posting(a) /\ overlapped[a]]_vars
    BY SkewStep DEF IInv
  <1>2. QED  BY <1>1, SendInvariance, PTL DEF Spec, SkewOnlyInOverlap
=============================================================================
