------------------------------- MODULE SendPath -------------------------------
(***************************************************************************)
(* The send queue (SQ) of one DPA thread and what surrounds it: the TX     *)
(* rules that decide which of its sends leave the NIC, and the two         *)
(* programs that post on the SQ: the thread's handler (pp_queue) and the   *)
(* RPC of the first packet (send_packet), which main calls while the       *)
(* handler runs.                                                           *)
(*                                                                         *)
(* The handler forwards the packets of a tenant queue.  main makes no rule *)
(* that steers to one (its RX rule leads to the thread's own RQ, which     *)
(* nobody forwards from), so whoever feeds it is outside the program and   *)
(* its packets may have any addresses.                                     *)
(*                                                                         *)
(* Both programs update sq_wqe_seg_idx and sq_pi with plain loads and      *)
(* stores, so each of these is an action of its own, also the two loads of *)
(* sq_wqe_seg_idx (for the slot and for the increment).  The indices do    *)
(* not wrap here and the receive rings are left out: both are the subject  *)
(* of module Forwarding.                                                   *)
(***************************************************************************)
EXTENDS Integers, Sequences

CONSTANTS
    Depth,         \* WQEs of the SQ, entries of its data buffer (Q_DEPTH)
    Macs,          \* MAC addresses in use
    Mac,           \* SMAC_int, the address of the TX rules
    FirstPackets,  \* calls of the RPC (one in main)
    MaxPackets     \* bound on the packets of the tenant queue

ASSUME SendDepthAssumption == Depth \in Nat \ {0}
ASSUME MacAssumption == Mac \in Macs
ASSUME SendBoundAssumption == FirstPackets \in Nat /\ MaxPackets \in Nat

VARIABLES
    rules,            \* the TX rules that exist: "tx", "tx2"
    arrived,          \* the packets of the tenant queue, in order
    received,         \* how many of them the handler has taken
    sq_wqe_seg_idx, sq_pi, sq_ring,      \* sq_ctx_t of the thread
    tx_buff_idx,      \* dt_ctx_t of the thread
    sq_db,            \* the SQ doorbell register: last sq_pi rung
    txCount,          \* WQEs the NIC has consumed
    sq_error,         \* is the SQ in the error state?
    calls,            \* first packets begun
    pc, send,         \* of each poster: next step, what it sends,
    slot, reg,        \* swqe (the slot of its WQE), a register
    posts,            \* history: packets in the order their posts began
    overlapped,       \* history: did a's last post overlap with another?
    raced,            \* history: have any two posts overlapped?
    unsent,           \* history: packets no TX rule matched
    culprit           \* history: who posted the WQE that broke the SQ

ringVars  == <<sq_wqe_seg_idx, sq_pi, sq_ring>>
nicVars   == <<sq_db, txCount, sq_error, unsent, culprit>>
inVars    == <<arrived, received>>
regVars   == <<slot, reg>>
histVars  == <<posts, overlapped, raced>>
vars == <<rules, inVars, ringVars, tx_buff_idx, nicVars, calls, pc, send, regVars,
          histVars>>

Posters == {"handler", "rpc"}
Packet  == [src : Macs, dst : Macs]

(* A send: the packet, the buffer it lies in and the memory key used.  The *)
(* buffers are the RQ data of the tenant queue and of the thread, and the  *)
(* thread's SQ data; a key opens the one it was created for.               *)
Buffers == {"tenant.rqd", "thread.rqd", "thread.sqd"}
KeyOf == [b \in Buffers |->
            CASE b = "tenant.rqd" -> "tenant.rq_lkey"
              [] b = "thread.rqd" -> "thread.rq_lkey"
              [] b = "thread.sqd" -> "thread.sq_lkey"]
Keys == {"tenant.rq_lkey", "thread.rq_lkey", "thread.sq_lkey"}
Send == [pkt : Packet, buf : Buffers, key : Keys, by : Posters]

(* thd_ctx_init fills every WQE with size 0 and address 0.                 *)
Nobody == "nobody"
Unset == [pkt |-> [src |-> Nobody, dst |-> Nobody], buf |-> "null",
          key |-> "thread.sq_lkey", by |-> Nobody]

SqSlot(seg_idx) == (seg_idx \div 4) % Depth

Init ==
    /\ rules \in SUBSET {"tx", "tx2"}    \* main ignores their failures
    /\ arrived = <<>> /\ received = 0
    /\ sq_wqe_seg_idx = 0 /\ sq_pi = 0
    /\ sq_ring = [s \in 0 .. Depth - 1 |-> Unset]
    /\ tx_buff_idx = 0
    /\ sq_db = 0 /\ txCount = 0 /\ sq_error = FALSE
    /\ calls = 0
    /\ pc = [a \in Posters |-> "idle"]
    /\ send = [a \in Posters |-> Unset]
    /\ slot = [a \in Posters |-> 0] /\ reg = [a \in Posters |-> 0]
    /\ posts = <<>> /\ raced = FALSE /\ overlapped = [a \in Posters |-> FALSE]
    /\ unsent = {} /\ culprit = Nobody

-----------------------------------------------------------------------------
(* NIC, external.                                                          *)

(* A packet for the tenant queue, by a rule that is none of main's.        *)
Arrive(p) ==
    /\ Len(arrived) < MaxPackets
    /\ arrived' = Append(arrived, p)
    /\ UNCHANGED <<rules, received, ringVars, tx_buff_idx, nicVars, calls, pc, send,
                   regVars, histVars>>

(* The rule in the root table leads to the software-steering table, whose  *)
(* rule leads to the port; both compare the source address.                *)
TxMatches(p) == {"tx", "tx2"} \subseteq rules /\ p.src = Mac

(* A WQE whose key does not open its buffer ends in an error CQE, which    *)
(* nobody polls, and the SQ transmits nothing more.                        *)
Covered(wqe) == wqe.by # Nobody /\ wqe.key = KeyOf[wqe.buf]

Transmit ==
    /\ txCount < sq_db /\ ~sq_error
    /\ LET wqe == sq_ring[txCount % Depth]
       IN  IF Covered(wqe)
              THEN /\ txCount' = txCount + 1
                   /\ unsent' = IF TxMatches(wqe.pkt) THEN unsent
                                                      ELSE unsent \cup {wqe.pkt}
                   /\ UNCHANGED <<sq_error, culprit>>
              ELSE /\ sq_error' = TRUE
                   /\ culprit' = wqe.by
                   /\ UNCHANGED <<txCount, unsent>>
    /\ UNCHANGED <<rules, inVars, ringVars, tx_buff_idx, sq_db, calls, pc, send, regVars,
                   histVars>>

-----------------------------------------------------------------------------
(* The two programs, up to the packet they send.                           *)
Goto(a, label) == pc' = [pc EXCEPT ![a] = label]

(* A bug swap_mac must not have: the destination address alone is written.  *)
SetDestination(p) == [src |-> p.src, dst |-> p.src]

swap_mac(p) == [src |-> p.dst, dst |-> p.src]

(* A bug PpQueue must not have: the key of the thread's own queue.          *)
PpQueueOwnKey ==
    /\ pc["handler"] = "idle" /\ received < Len(arrived)
    /\ send' = [send EXCEPT !["handler"] =
                  [pkt |-> swap_mac(arrived[received + 1]), buf |-> "tenant.rqd",
                   key |-> "thread.rq_lkey", by |-> "handler"]]
    /\ received' = received + 1
    /\ Goto("handler", "loadSlot")
    /\ UNCHANGED <<rules, arrived, ringVars, tx_buff_idx, nicVars, calls, regVars,
                   histVars>>

(* pp_queue: the packet lies in the RQ data of the tenant queue and is     *)
(* sent with that queue's key.                                             *)
PpQueue ==
    /\ pc["handler"] = "idle" /\ received < Len(arrived)
    /\ send' = [send EXCEPT !["handler"] =
                  [pkt |-> swap_mac(arrived[received + 1]), buf |-> "tenant.rqd",
                   key |-> "tenant.rq_lkey", by |-> "handler"]]
    /\ received' = received + 1
    /\ Goto("handler", "loadSlot")
    /\ UNCHANGED <<rules, arrived, ringVars, tx_buff_idx, nicVars, calls, regVars,
                   histVars>>

SRC_ADDR == Mac               \* the two constants hold the same address

(* send_packet: get_next_dte, prepare_packet and the key that              *)
(* prepare_send_packet uses, the RQ's for a buffer of the SQ.              *)
SendPacket(dst_addr) ==
    /\ pc["rpc"] = "idle" /\ calls < FirstPackets
    /\ calls' = calls + 1
    /\ tx_buff_idx' = tx_buff_idx + 1
    /\ send' = [send EXCEPT !["rpc"] =
                  [pkt |-> [src |-> SRC_ADDR, dst |-> dst_addr], buf |-> "thread.sqd",
                   key |-> "thread.rq_lkey", by |-> "rpc"]]
    /\ Goto("rpc", "loadSlot")
    /\ UNCHANGED <<rules, inVars, ringVars, nicVars, regVars, histVars>>

-----------------------------------------------------------------------------
(* The post, the same code in pp_queue and in prepare_send_packet with     *)
(* finish_send.                                                            *)
Posting(a) == pc[a] \notin {"idle", "loadSlot"}

(* swqe = &sq_ring[(sq_wqe_seg_idx + 2) & SQ_IDX_MASK]: the post begins.   *)
LoadSlot(a) ==
    /\ pc[a] = "loadSlot"
    /\ slot' = [slot EXCEPT ![a] = SqSlot(sq_wqe_seg_idx)]
    /\ posts' = Append(posts, send[a])
    /\ overlapped' = [b \in Posters |->
                        IF b = a THEN \E c \in Posters : Posting(c)
                                 ELSE overlapped[b] \/ Posting(b)]
    /\ raced' = (raced \/ overlapped'[a])
    /\ Goto(a, "loadSeg")
    /\ UNCHANGED <<rules, inVars, ringVars, tx_buff_idx, nicVars, calls, send, reg>>

(* sq_wqe_seg_idx += 4, its load and its store.                            *)
LoadSegIdx(a) ==
    /\ pc[a] = "loadSeg"
    /\ reg' = [reg EXCEPT ![a] = sq_wqe_seg_idx]
    /\ Goto(a, "storeSeg")
    /\ UNCHANGED <<rules, inVars, ringVars, tx_buff_idx, nicVars, calls, send, slot,
                   histVars>>

(* A bug StoreSegIdx must not have: the fourth segment, left unused, is not *)
(* counted.                                                                *)
StoreSegIdxThree(a) ==
    /\ pc[a] = "storeSeg"
    /\ sq_wqe_seg_idx' = reg[a] + 3
    /\ Goto(a, "writeWqe")
    /\ UNCHANGED <<rules, inVars, sq_pi, sq_ring, tx_buff_idx, nicVars, calls, send,
                   regVars, histVars>>

StoreSegIdx(a) ==
    /\ pc[a] = "storeSeg"
    /\ sq_wqe_seg_idx' = reg[a] + 4
    /\ Goto(a, "writeWqe")
    /\ UNCHANGED <<rules, inVars, sq_pi, sq_ring, tx_buff_idx, nicVars, calls, send,
                   regVars, histVars>>

(* A bug WriteWqe must not have: the slot after the increment.             *)
WriteWqeNext(a) ==
    /\ pc[a] = "writeWqe"
    /\ sq_ring' = [sq_ring EXCEPT ![(slot[a] + 1) % Depth] = send[a]]
    /\ Goto(a, "loadPi")
    /\ UNCHANGED <<rules, inVars, sq_wqe_seg_idx, sq_pi, tx_buff_idx, nicVars, calls, send,
                   regVars, histVars>>

(* flexio_dev_swqe_seg_mem_ptr_data_set on the slot found before           *)
WriteWqe(a) ==
    /\ pc[a] = "writeWqe"
    /\ sq_ring' = [sq_ring EXCEPT ![slot[a]] = send[a]]
    /\ Goto(a, "loadPi")
    /\ UNCHANGED <<rules, inVars, sq_wqe_seg_idx, sq_pi, tx_buff_idx, nicVars, calls, send,
                   regVars, histVars>>

(* flexio_dev_qp_sq_ring_db(++sq_pi)                                       *)
LoadPi(a) ==
    /\ pc[a] = "loadPi"
    /\ reg' = [reg EXCEPT ![a] = sq_pi]
    /\ Goto(a, "storePi")
    /\ UNCHANGED <<rules, inVars, ringVars, tx_buff_idx, nicVars, calls, send, slot,
                   histVars>>

(* A bug StorePi must not have: two steps.                                  *)
StorePiTwo(a) ==
    /\ pc[a] = "storePi"
    /\ sq_pi' = reg[a] + 2
    /\ Goto(a, "ring")
    /\ UNCHANGED <<rules, inVars, sq_wqe_seg_idx, sq_ring, tx_buff_idx, nicVars, calls,
                   send, regVars, histVars>>

StorePi(a) ==
    /\ pc[a] = "storePi"
    /\ sq_pi' = reg[a] + 1
    /\ Goto(a, "ring")
    /\ UNCHANGED <<rules, inVars, sq_wqe_seg_idx, sq_ring, tx_buff_idx, nicVars, calls,
                   send, regVars, histVars>>

(* A bug RingDb must not have: one more.                                   *)
RingDbOneMore(a) ==
    /\ pc[a] = "ring"
    /\ sq_db' = reg[a] + 2
    /\ Goto(a, "idle")
    /\ UNCHANGED <<rules, inVars, ringVars, tx_buff_idx, txCount, sq_error, unsent, culprit,
                   calls, send, regVars, histVars>>

RingDb(a) ==
    /\ pc[a] = "ring"
    /\ sq_db' = reg[a] + 1
    /\ Goto(a, "idle")
    /\ UNCHANGED <<rules, inVars, ringVars, tx_buff_idx, txCount, sq_error, unsent, culprit,
                   calls, send, regVars, histVars>>

Post(a) == LoadSlot(a) \/ LoadSegIdx(a) \/ StoreSegIdx(a) \/ WriteWqe(a) \/ LoadPi(a)
               \/ StorePi(a) \/ RingDb(a)

Next ==
    \/ \E p \in Packet : Arrive(p)
    \/ Transmit
    \/ PpQueue
    \/ \E dst_addr \in Macs : SendPacket(dst_addr)
    \/ \E a \in Posters : Post(a)

Spec == Init /\ [][Next]_vars

-----------------------------------------------------------------------------
(* Type correctness.                                                       *)
TypeInv ==
    /\ rules \subseteq {"tx", "tx2"}
    /\ arrived \in Seq(Packet) /\ received \in 0 .. Len(arrived)
    /\ sq_wqe_seg_idx \in Nat /\ sq_wqe_seg_idx % 4 = 0 /\ sq_pi \in Nat
    /\ sq_ring \in [0 .. Depth - 1 -> Send \cup {Unset}]
    /\ tx_buff_idx \in Nat
    /\ sq_db \in Nat /\ txCount \in Nat /\ sq_error \in BOOLEAN
    /\ calls \in Nat
    /\ pc \in [Posters -> {"idle", "loadSlot", "loadSeg", "storeSeg", "writeWqe", "loadPi",
                           "storePi", "ring"}]
    /\ send \in [Posters -> Send \cup {Unset}]
    /\ slot \in [Posters -> 0 .. Depth - 1] /\ reg \in [Posters -> Nat]
    /\ posts \in Seq(Send) /\ raced \in BOOLEAN
    /\ overlapped \in [Posters -> BOOLEAN]
    /\ unsent \subseteq Packet
    /\ culprit \in Posters \cup {Nobody}

(* As long as no two posts overlap, every WQE the doorbell has announced   *)
(* holds the packet posted in its turn, until a whole ring of further      *)
(* posts begins, and between posts the two counters and the doorbell agree.*)
AnnouncedIntact ==
    ~raced =>
        /\ \A k \in txCount + 1 .. sq_db :
               k <= Len(posts) /\ Len(posts) < k + Depth => sq_ring[(k - 1) % Depth] = posts[k]
        /\ (\A a \in Posters : ~Posting(a)) =>
               /\ sq_wqe_seg_idx = 4 * Len(posts)
               /\ sq_pi = Len(posts) /\ sq_db = Len(posts)

(* Overlapping posts lose WQEs but never add any: the NIC is not told of   *)
(* more than were begun.                                                   *)
NothingUnposted == sq_db <= Len(posts) /\ txCount <= Len(posts)

(* How far the slot of the next WQE is from the one the doorbell announces *)
(* next, the posts in between not counted.                                 *)
Between(a) == pc[a] \in {"writeWqe", "loadPi", "storePi"}
between == IF Between("handler") THEN IF Between("rpc") THEN 2 ELSE 1
                                 ELSE IF Between("rpc") THEN 1 ELSE 0
Skew == (sq_wqe_seg_idx \div 4) - sq_pi - between

(* Slots and doorbell fall out of step only in a post that overlapped with *)
(* another, and what is lost then is never made up for: no post by itself  *)
(* heals it.                                                               *)
SkewOnlyInOverlap ==
    [][Skew' # Skew => \E a \in Posters : Posting(a) /\ overlapped[a]]_vars

(* The SQ breaks for two reasons only: the key of a first packet, or a WQE *)
(* that overlapping posts announced and never wrote.                       *)
ErrorsExplained ==
    sq_error => culprit = "rpc" \/ (culprit = Nobody /\ raced)

(* If both TX rules exist, they hold back nothing but the handler's        *)
(* answers to packets that were addressed to somebody else: no first       *)
(* packet, and no answer to a packet for the address of the rules.         *)
Answers(p, q) == p.src = q.dst /\ p.dst = q.src
SendsMatchRules ==
    {"tx", "tx2"} \subseteq rules =>
        \A p \in unsent :
            \E n \in 1 .. Len(arrived) : Answers(p, arrived[n]) /\ arrived[n].dst # Mac

(* Why the properties above hold: the inductive invariant of the proofs.   *)
(* Two posts under way at once both know that they overlap.                *)
OverlapInv ==
    \A a \in Posters : Posting(a) =>
        /\ overlapped[a] => raced
        /\ \A b \in Posters \ {a} : Posting(b) => overlapped[a]

(* A post that overlaps with none finds the counters as it left them.      *)
FreshInv ==
    \A a \in Posters :
        /\ pc[a] = "storeSeg" => reg[a] % 4 = 0
        /\ ~overlapped[a] => /\ pc[a] = "storeSeg" => reg[a] = sq_wqe_seg_idx
                             /\ pc[a] = "storePi" => reg[a] = sq_pi

(* sq_pi, with the posts that have yet to count themselves, stays within   *)
(* the posts begun, even computed from a stale register.                   *)
Uncounted(a) == pc[a] \in {"loadSeg", "storeSeg", "writeWqe", "loadPi", "storePi"}
uncounted == IF Uncounted("handler") THEN IF Uncounted("rpc") THEN 2 ELSE 1
                                     ELSE IF Uncounted("rpc") THEN 1 ELSE 0
CountInv ==
    /\ sq_pi + uncounted <= Len(posts)
    /\ sq_db <= Len(posts) /\ txCount <= Len(posts)
    /\ \A a \in Posters :
           /\ pc[a] = "storePi" => reg[a] + uncounted <= Len(posts)
           /\ pc[a] = "ring" => reg[a] + 1 + uncounted <= Len(posts)

(* Until its WQE is written, a post works on the slot it found first.      *)
Writing == {"loadSeg", "storeSeg", "writeWqe"}

(* Before any two posts overlap the counters are exactly the posts begun.  *)
SoloInv ==
    ~raced =>
        /\ (\A a \in Posters : ~Posting(a)) =>
               sq_wqe_seg_idx = 4 * Len(posts) /\ sq_pi = Len(posts) /\ sq_db = Len(posts)
        /\ \A a \in Posters : Posting(a) =>
               LET n == Len(posts) IN
               /\ n > 0 /\ posts[n] = send[a] /\ sq_db = n - 1
               /\ sq_wqe_seg_idx =
                      IF pc[a] \in {"loadSeg", "storeSeg"} THEN 4 * (n - 1) ELSE 4 * n
               /\ sq_pi = IF Uncounted(a) THEN n - 1 ELSE n
               /\ pc[a] \in Writing => slot[a] = (n - 1) % Depth
               /\ pc[a] = "storeSeg" => reg[a] = 4 * (n - 1)
               /\ pc[a] \in {"storePi", "ring"} => reg[a] = n - 1

(* And the ring holds the last Depth of them, but for one being written.   *)
Written(k) == k < Len(posts) \/ \A a \in Posters : pc[a] \notin Writing
RingInv ==
    ~raced =>
        \A k \in 1 .. Len(posts) : Written(k) =>
            /\ sq_ring[(k - 1) % Depth].by # Nobody
            /\ Len(posts) < k + Depth => sq_ring[(k - 1) % Depth] = posts[k]

(* A first packet carries the address of the rules; the handler sends      *)
(* answers, with the key that opens their buffer.                          *)
RightSend(s) ==
    /\ s.by = "rpc" => s.pkt.src = Mac
    /\ s.by = "handler" => /\ s.key = KeyOf[s.buf]
                           /\ \E n \in 1 .. Len(arrived) : Answers(s.pkt, arrived[n])
SendsInv ==
    /\ \A a \in Posters : RightSend(send[a]) /\ (pc[a] # "idle" => send[a].by = a)
    /\ \A s \in 0 .. Depth - 1 : RightSend(sq_ring[s])

(* All of it together, with the two properties that need no more.          *)
IInv == /\ TypeInv /\ OverlapInv /\ FreshInv /\ CountInv /\ SoloInv /\ RingInv
        /\ SendsInv /\ ErrorsExplained /\ SendsMatchRules

(* "Create an MKey for SQ data buffer to send": a first packet, sent from  *)
(* that buffer, does not break the SQ.                                     *)
FirstPacketSendable == sq_error => culprit # "rpc"
=============================================================================
