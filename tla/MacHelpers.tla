------------------------------ MODULE MacHelpers ------------------------------
(***************************************************************************)
(* The MAC helpers of com_dev.c, which exchange the two addresses at the   *)
(* head of a packet.  A packet is a function from its offsets to bytes; the *)
(* DPA is little-endian, so byte i of a word at an address is the packet's *)
(* byte i after that address.  Two of the helpers work on words of eight   *)
(* bytes where an address has six: what they do to the bytes in between is *)
(* what the theorems are about.  They are what Forwarding and SendPath     *)
(* take swap_mac to be.                                                    *)
(***************************************************************************)
EXTENDS Integers, TLAPS

Byte == 0 .. 255
Packet(size) == [0 .. size - 1 -> Byte]

Load8(packet, at) == [i \in 0 .. 7 |-> packet[at + i]]
Store8(packet, at, word) ==
    [i \in DOMAIN packet |-> IF i \in at .. at + 7 THEN word[i - at] ELSE packet[i]]

(* (low & mask) | (high & ~mask), the mask having six bytes set.           *)
Masked(low, high) == [i \in 0 .. 7 |-> IF i < 6 THEN low[i] ELSE high[i]]

swap_mac(packet) ==
    LET src_mac == Load8(packet, 0)
        dst_mac == Load8(packet, 6)
    IN  Store8(Store8(packet, 0, dst_mac), 6, Masked(src_mac, dst_mac))

(* The destination comes back from where save_set_dstmac had put it.       *)
get_swap_mac(packet) ==
    LET dstmac_ori == Load8(packet, 64)
        srcmac_ori == Load8(packet, 6)
    IN  Store8(Store8(packet, 0, srcmac_ori), 6, Masked(dstmac_ori, srcmac_ori))

SWAP(packet, a, b) == [packet EXCEPT ![a] = packet[b], ![b] = packet[a]]

(* The loop over six bytes, unrolled.                                      *)
swap_macs(packet) ==
    LET p1 == SWAP(packet, 6, 0)
        p2 == SWAP(p1, 7, 1)
        p3 == SWAP(p2, 8, 2)
        p4 == SWAP(p3, 9, 3)
        p5 == SWAP(p4, 10, 4)
    IN  SWAP(p5, 11, 5)

(* What they are for: the addresses change places, nothing else changes.   *)
Exchanged(packet, dst) ==
    [i \in DOMAIN packet |->
        IF i \in 0 .. 5 THEN packet[i + 6]
        ELSE IF i \in 6 .. 11 THEN dst[i - 6] ELSE packet[i]]
Swapped(packet) == Exchanged(packet, packet)

-----------------------------------------------------------------------------
(* Two words stored at the head of a packet, the second over the end of    *)
(* the first.                                                              *)
LEMMA StorePair ==
    ASSUME NEW size \in Nat, size >= 14, NEW packet \in Packet(size),
           NEW first \in [0 .. 7 -> Byte], NEW second \in [0 .. 7 -> Byte]
    PROVE  Store8(Store8(packet, 0, first), 6, second) =
               [i \in 0 .. size - 1 |->
                   IF i \in 6 .. 13 THEN second[i - 6]
                   ELSE IF i \in 0 .. 5 THEN first[i] ELSE packet[i]]
  <1>1. DOMAIN packet = 0 .. size - 1  BY DEF Packet
  <1> DEFINE once == Store8(packet, 0, first)
  <1>2. /\ DOMAIN once = 0 .. size - 1
        /\ \A i \in 0 .. size - 1 : once[i] = IF i \in 0 .. 7 THEN first[i] ELSE packet[i]
    BY <1>1 DEF Store8
  <1> HIDE DEF once
  <1>3. Store8(once, 6, second) =
            [i \in 0 .. size - 1 |-> IF i \in 6 .. 13 THEN second[i - 6] ELSE once[i]]
    BY <1>2 DEF Store8
  <1>4. QED  BY <1>2, <1>3 DEF once

LEMMA LoadType ==
    ASSUME NEW size \in Nat, NEW packet \in Packet(size), NEW at \in Nat, at + 8 <= size
    PROVE  /\ Load8(packet, at) \in [0 .. 7 -> Byte]
           /\ \A i \in 0 .. 7 : Load8(packet, at)[i] = packet[at + i]
  BY DEF Load8, Packet

LEMMA MaskedType ==
    ASSUME NEW low \in [0 .. 7 -> Byte], NEW high \in [0 .. 7 -> Byte]
    PROVE  /\ Masked(low, high) \in [0 .. 7 -> Byte]
           /\ \A i \in 0 .. 5 : Masked(low, high)[i] = low[i]
           /\ \A i \in 6 .. 7 : Masked(low, high)[i] = high[i]
  BY DEF Masked

(* The source to the front, dst behind it, and the type kept.              *)
LEMMA PairExchanges ==
    ASSUME NEW size \in Nat, size >= 14, NEW packet \in Packet(size),
           NEW dst \in [0 .. 7 -> Byte]
    PROVE  Store8(Store8(packet, 0, Load8(packet, 6)), 6, Masked(dst, Load8(packet, 6)))
               = Exchanged(packet, dst)
  <1> DEFINE first == Load8(packet, 6)
             second == Masked(dst, first)
             both == Store8(Store8(packet, 0, first), 6, second)
  <1>1. DOMAIN packet = 0 .. size - 1  BY DEF Packet
  <1>2. first \in [0 .. 7 -> Byte] /\ \A i \in 0 .. 7 : first[i] = packet[6 + i]
    BY LoadType
  <1> HIDE DEF first
  <1>3. /\ second \in [0 .. 7 -> Byte]
        /\ \A i \in 0 .. 5 : second[i] = dst[i]
        /\ \A i \in 6 .. 7 : second[i] = first[i]
    BY <1>2, MaskedType
  <1> HIDE DEF second
  <1>4. both = [i \in 0 .. size - 1 |->
                   IF i \in 6 .. 13 THEN second[i - 6]
                   ELSE IF i \in 0 .. 5 THEN first[i] ELSE packet[i]]
    BY <1>2, <1>3, StorePair
  <1> HIDE DEF both
  <1>5. ASSUME NEW i \in 0 .. size - 1
        PROVE  both[i] = Exchanged(packet, dst)[i]
    <2>1. CASE i \in 0 .. 5
      <3>1. first[i] = packet[i + 6]  BY <1>2, <2>1
      <3>2. QED  BY <1>1, <1>4, <2>1, <3>1 DEF Exchanged
    <2>2. CASE i \in 6 .. 11
      <3>1. second[i - 6] = dst[i - 6]  BY <1>3, <2>2
      <3>2. QED  BY <1>1, <1>4, <2>2, <3>1 DEF Exchanged
    <2>3. CASE i \in 12 .. 13
      <3>1. second[i - 6] = first[i - 6]  BY <1>3, <2>3
      <3>2. first[i - 6] = packet[6 + (i - 6)] /\ 6 + (i - 6) = i  BY <1>2, <2>3
      <3>3. QED  BY <1>1, <1>4, <2>3, <3>1, <3>2 DEF Exchanged
    <2>4. CASE i > 13  BY <1>1, <1>4, <2>4 DEF Exchanged
    <2>5. QED  BY <2>1, <2>2, <2>3, <2>4
  <1>6. DOMAIN Exchanged(packet, dst) = 0 .. size - 1  BY <1>1 DEF Exchanged
  <1>7. both = Exchanged(packet, dst)  BY <1>4, <1>5, <1>6 DEF Exchanged
  <1>8. QED  BY <1>7 DEF both, second, first

(* swap_mac, whose first store overwrites two bytes of the source address  *)
(* and whose second one covers the type of the packet, exchanges the       *)
(* addresses and keeps every other byte.                                   *)
THEOREM SwapMacCorrect ==
    ASSUME NEW size \in Nat, size >= 14, NEW packet \in Packet(size)
    PROVE  swap_mac(packet) = Swapped(packet)
  <1>1. Load8(packet, 0) \in [0 .. 7 -> Byte]  BY LoadType
  <1>2. swap_mac(packet) = Exchanged(packet, Load8(packet, 0))
    BY <1>1, PairExchanges DEF swap_mac
  <1>3. Exchanged(packet, Load8(packet, 0)) = Swapped(packet)
    <2>1. \A i \in 6 .. 11 : Load8(packet, 0)[i - 6] = packet[i - 6]
      BY LoadType
    <2>2. QED  BY <2>1 DEF Exchanged, Swapped
  <1>4. QED  BY <1>2, <1>3

(* get_swap_mac answers the source with the destination saved in the       *)
(* payload, and keeps every other byte, the saved one included.            *)
THEOREM GetSwapMacCorrect ==
    ASSUME NEW size \in Nat, size >= 72, NEW packet \in Packet(size)
    PROVE  get_swap_mac(packet) = Exchanged(packet, Load8(packet, 64))
  <1>1. Load8(packet, 64) \in [0 .. 7 -> Byte]  BY LoadType
  <1>2. QED  BY <1>1, PairExchanges DEF get_swap_mac

(* The loop of swap_macs after k of its six turns.                         *)
After(packet, k) ==
    [i \in DOMAIN packet |->
        IF i \in 0 .. k - 1 THEN packet[i + 6]
        ELSE IF i \in 6 .. 5 + k THEN packet[i - 6] ELSE packet[i]]

LEMMA Turn ==
    ASSUME NEW size \in Nat, size >= 14, NEW packet \in Packet(size), NEW k \in 0 .. 5
    PROVE  SWAP(After(packet, k), 6 + k, k) = After(packet, k + 1)
  <1>1. DOMAIN packet = 0 .. size - 1  BY DEF Packet
  <1> DEFINE p == After(packet, k)
  <1>2. /\ DOMAIN p = 0 .. size - 1
        /\ p[k] = packet[k] /\ p[6 + k] = packet[6 + k]
        /\ \A i \in 0 .. size - 1 : i # k /\ i # 6 + k => p[i] = After(packet, k + 1)[i]
    BY <1>1 DEF After
  <1>3. /\ DOMAIN After(packet, k + 1) = 0 .. size - 1
        /\ After(packet, k + 1)[k] = packet[6 + k]
        /\ After(packet, k + 1)[6 + k] = packet[k]
    BY <1>1 DEF After
  <1> HIDE DEF p
  <1>4. SWAP(p, 6 + k, k) =
            [i \in 0 .. size - 1 |-> IF i = k THEN p[6 + k]
                                     ELSE IF i = 6 + k THEN p[k] ELSE p[i]]
    BY <1>2 DEF SWAP
  <1>5. \A i \in 0 .. size - 1 : SWAP(p, 6 + k, k)[i] = After(packet, k + 1)[i]
    BY <1>2, <1>3, <1>4
  <1>6. SWAP(p, 6 + k, k) = After(packet, k + 1)
    BY <1>3, <1>4, <1>5 DEF After
  <1>7. QED  BY <1>6 DEF p

(* swap_macs, byte by byte, does what swap_mac does.                       *)
THEOREM SwapMacsCorrect ==
    ASSUME NEW size \in Nat, size >= 14, NEW packet \in Packet(size)
    PROVE  swap_macs(packet) = Swapped(packet)
  <1>1. packet = After(packet, 0)  BY DEF After, Packet
  <1>2. SWAP(packet, 6, 0) = After(packet, 1)
    <2>1. SWAP(After(packet, 0), 6 + 0, 0) = After(packet, 0 + 1)  BY Turn
    <2>2. QED  BY <1>1, <2>1
  <1>3. SWAP(After(packet, 1), 7, 1) = After(packet, 2)
    <2>1. SWAP(After(packet, 1), 6 + 1, 1) = After(packet, 1 + 1)  BY Turn
    <2>2. QED  BY <2>1
  <1>4. SWAP(After(packet, 2), 8, 2) = After(packet, 3)
    <2>1. SWAP(After(packet, 2), 6 + 2, 2) = After(packet, 2 + 1)  BY Turn
    <2>2. QED  BY <2>1
  <1>5. SWAP(After(packet, 3), 9, 3) = After(packet, 4)
    <2>1. SWAP(After(packet, 3), 6 + 3, 3) = After(packet, 3 + 1)  BY Turn
    <2>2. QED  BY <2>1
  <1>6. SWAP(After(packet, 4), 10, 4) = After(packet, 5)
    <2>1. SWAP(After(packet, 4), 6 + 4, 4) = After(packet, 4 + 1)  BY Turn
    <2>2. QED  BY <2>1
  <1>7. SWAP(After(packet, 5), 11, 5) = After(packet, 6)
    <2>1. SWAP(After(packet, 5), 6 + 5, 5) = After(packet, 5 + 1)  BY Turn
    <2>2. QED  BY <2>1
  <1>8. swap_macs(packet) = After(packet, 6)
    BY <1>2, <1>3, <1>4, <1>5, <1>6, <1>7 DEF swap_macs
  <1>9. After(packet, 6) = Swapped(packet)  BY DEF After, Swapped, Exchanged
  <1>10. QED  BY <1>8, <1>9

(* A packet swapped twice is the packet again.                             *)
THEOREM SwappedTwice ==
    ASSUME NEW size \in Nat, size >= 14, NEW packet \in Packet(size)
    PROVE  Swapped(packet) \in Packet(size) /\ Swapped(Swapped(packet)) = packet
  <1>1. DOMAIN packet = 0 .. size - 1  BY DEF Packet
  <1> DEFINE q == Swapped(packet)
  <1>2. /\ q \in Packet(size) /\ DOMAIN q = 0 .. size - 1
        /\ \A i \in 0 .. 5 : q[i] = packet[i + 6] /\ q[i + 6] = packet[i]
        /\ \A i \in 12 .. size - 1 : q[i] = packet[i]
    BY <1>1 DEF Packet, Swapped, Exchanged
  <1> HIDE DEF q
  <1>3. ASSUME NEW i \in 0 .. size - 1 PROVE Swapped(q)[i] = packet[i]
    <2>1. CASE i \in 0 .. 5  BY <1>2, <2>1 DEF Swapped, Exchanged
    <2>2. CASE i \in 6 .. 11
      <3>1. i - 6 \in 0 .. 5 /\ (i - 6) + 6 = i  BY <2>2
      <3>2. q[i - 6] = packet[i]  BY <1>2, <3>1
      <3>3. QED  BY <1>2, <2>2, <3>2 DEF Swapped, Exchanged
    <2>3. CASE i \in 12 .. size - 1  BY <1>2, <2>3 DEF Swapped, Exchanged
    <2>4. QED  BY <2>1, <2>2, <2>3
  <1>4. Swapped(q) = packet  BY <1>1, <1>2, <1>3 DEF Swapped, Exchanged, Packet
  <1>5. QED  BY <1>2, <1>4 DEF q
=============================================================================
