-------------------------- MODULE HostReferenceProofs --------------------------
(***************************************************************************)
(* The order of main's set-up and clean-up, place by place, and what       *)
(* follows from it for every number of threads and any failures: main is a *)
(* well-behaved client of the reference system, and cleans up all it can.  *)
(***************************************************************************)
EXTENDS HostDeviceProofs

-----------------------------------------------------------------------------
(* The kinds a thread creates, in their order.                             *)
LEMMA QueueLists ==
    /\ create_app_rq[1] = "rq_cq_dbr" /\ create_app_rq[2] = "rq_cq_ring"
    /\ create_app_rq[3] = "rq_cq" /\ create_app_rq[4] = "rqd"
    /\ create_app_rq[5] = "rqd_mkey" /\ create_app_rq[6] = "rqd_mkey_id"
    /\ create_app_rq[7] = "rq_ring" /\ create_app_rq[8] = "rq_dbr"
    /\ create_app_rq[9] = "init_dpa_rq_ring" /\ create_app_rq[10] = "rq"
    /\ create_app_rq[11] = "init_rq_dbr"
    /\ create_app_sq[1] = "sq_cq_dbr" /\ create_app_sq[2] = "sq_cq_ring"
    /\ create_app_sq[3] = "sq_cq" /\ create_app_sq[4] = "sqd"
    /\ create_app_sq[5] = "sqd_mkey" /\ create_app_sq[6] = "sq_ring"
    /\ create_app_sq[7] = "sq"
  BY DEF create_app_rq, create_app_sq, cq_mem_alloc, rq_mem_alloc, sq_mem_alloc

LEMMA ThreadParts ==
    /\ thread_setup[1] = "handler" /\ thread_setup[2] = "mmap" /\ thread_setup[3] = "mr"
    /\ \A k \in 1 .. 11 : thread_setup[3 + k] = create_app_rq[k]
    /\ \A k \in 1 .. 7 : thread_setup[14 + k] = create_app_sq[k]
    /\ \A k \in 1 .. 7 : thread_setup[21 + k] = after[k]
  <1> DEFINE first == <<"handler", "mmap", "mr">>
             both  == first \o create_app_rq
  <1>1. /\ first \in Seq(Names) /\ Len(first) = 3 /\ first[1] = "handler"
        /\ first[2] = "mmap" /\ first[3] = "mr"
    BY DEF Names
  <1>2. thread_setup = (both \o create_app_sq) \o after
    BY DEF thread_setup, after
  <1> HIDE DEF first
  <1>3. /\ both \in Seq(Names) /\ Len(both) = 14
        /\ \A k \in 1 .. 3 : both[k] = first[k]
        /\ \A k \in 1 .. 11 : both[3 + k] = create_app_rq[k]
    <2>1. first \in Seq(Names) /\ create_app_rq \in Seq(Names)  BY <1>1, CreateQueues
    <2>2. /\ both \in Seq(Names) /\ Len(both) = Len(first) + Len(create_app_rq)
          /\ \A k \in 1 .. Len(first) : both[k] = first[k]
          /\ \A k \in 1 .. Len(create_app_rq) : both[Len(first) + k] = create_app_rq[k]
      BY <2>1, Concat
    <2> HIDE DEF both
    <2>3. Len(first) = 3 /\ Len(create_app_rq) = 11  BY <1>1, CreateQueues
    <2>4. QED  BY <2>2, <2>3
  <1> HIDE DEF both
  <1> DEFINE three == both \o create_app_sq
  <1>4. /\ three \in Seq(Names) /\ Len(three) = 21
        /\ \A k \in 1 .. 14 : three[k] = both[k]
        /\ \A k \in 1 .. 7 : three[14 + k] = create_app_sq[k]
    <2>1. both \in Seq(Names) /\ create_app_sq \in Seq(Names)  BY <1>3, CreateQueues
    <2>2. /\ three \in Seq(Names) /\ Len(three) = Len(both) + Len(create_app_sq)
          /\ \A k \in 1 .. Len(both) : three[k] = both[k]
          /\ \A k \in 1 .. Len(create_app_sq) : three[Len(both) + k] = create_app_sq[k]
      BY <2>1, Concat
    <2> HIDE DEF three
    <2>3. Len(both) = 14 /\ Len(create_app_sq) = 7  BY <1>3, CreateQueues
    <2>4. QED  BY <2>2, <2>3
  <1> HIDE DEF three
  <1>5. /\ \A k \in 1 .. 21 : thread_setup[k] = three[k]
        /\ \A k \in 1 .. 7 : thread_setup[21 + k] = after[k]
    <2>1. three \in Seq(Names) /\ after \in Seq(Names)  BY <1>4, AfterPart
    <2>2. thread_setup = three \o after  BY <1>2 DEF three
    <2>3. /\ \A k \in 1 .. Len(three) : thread_setup[k] = three[k]
          /\ \A k \in 1 .. Len(after) : thread_setup[Len(three) + k] = after[k]
      BY <2>1, <2>2, Concat
    <2>4. Len(three) = 21 /\ Len(after) = 7  BY <1>4, AfterPart
    <2>5. QED  BY <2>3, <2>4
  <1>6. \A k \in 1 .. 3 : thread_setup[k] = first[k]
    <2>1. \A k \in 1 .. 3 : k \in 1 .. 14 /\ k \in 1 .. 21  OBVIOUS
    <2>2. QED  BY <1>3, <1>4, <1>5, <2>1
  <1>7. ASSUME NEW k \in 1 .. 11 PROVE thread_setup[3 + k] = create_app_rq[k]
    <2>1. 3 + k \in 1 .. 14 /\ 3 + k \in 1 .. 21  OBVIOUS
    <2>2. thread_setup[3 + k] = three[3 + k]  BY <1>5, <2>1
    <2>3. three[3 + k] = both[3 + k]  BY <1>4, <2>1
    <2>4. both[3 + k] = create_app_rq[k]  BY <1>3
    <2>5. QED  BY <2>2, <2>3, <2>4
  <1>8. \A k \in 1 .. 7 : thread_setup[14 + k] = create_app_sq[k]
    <2>1. \A k \in 1 .. 7 : 14 + k \in 1 .. 21  OBVIOUS
    <2>2. QED  BY <1>4, <1>5, <2>1
  <1>9. QED  BY <1>1, <1>5, <1>6, <1>7, <1>8

(* The place of each kind in a thread's part of the set-up.                *)
spot ==
    [handler |-> 1, mmap |-> 2, mr |-> 3, rq_cq_dbr |-> 4, rq_cq_ring |-> 5, rq_cq
     |-> 6, rqd |-> 7, rqd_mkey |-> 8, rqd_mkey_id |-> 9, rq_ring |-> 10, rq_dbr
     |-> 11, init_dpa_rq_ring |-> 12, rq |-> 13, init_rq_dbr |-> 14, sq_cq_dbr |-> 15,
     sq_cq_ring |-> 16, sq_cq |-> 17, sqd |-> 18, sqd_mkey |-> 19, sq_ring |-> 20,
     sq |-> 21, rq_tir_obj |-> 22, rx_rule |-> 23, tx_rule |-> 24, tx_rule2 |-> 25,
     app_data |-> 26, thd_ctx_init |-> 27, run |-> 28]
ThreadKinds == DOMAIN spot

LEMMA SpotRange ==
    \A kind \in ThreadKinds : spot[kind] \in 1 .. 28
  BY DEF ThreadKinds, spot

LEMMA SpotOf ==
    ASSUME NEW m \in 1 .. 28
    PROVE  thread_setup[m] \in ThreadKinds /\ spot[thread_setup[m]] = m
  <1> USE DEF ThreadKinds, spot
  <1>1. CASE m \in 1 .. 3
    <2>1. m = 1 \/ m = 2 \/ m = 3  BY <1>1
    <2>2. QED  BY <2>1, ThreadParts
  <1>2. CASE m \in 4 .. 14
    <2>1. m - 3 \in 1 .. 11 /\ 3 + (m - 3) = m  BY <1>2
    <2>2. thread_setup[m] = create_app_rq[m - 3]  BY <2>1, ThreadParts
    <2>3. QED  BY <1>2, <2>2, QueueLists
  <1>3. CASE m \in 15 .. 21
    <2>1. m - 14 \in 1 .. 7 /\ 14 + (m - 14) = m  BY <1>3
    <2>2. thread_setup[m] = create_app_sq[m - 14]  BY <2>1, ThreadParts
    <2>3. QED  BY <1>3, <2>2, QueueLists
  <1>4. CASE m \in 22 .. 28
    <2>1. m - 21 \in 1 .. 7 /\ 21 + (m - 21) = m  BY <1>4
    <2>2. thread_setup[m] = after[m - 21]  BY <2>1, ThreadParts
    <2>3. QED  BY <1>4, <2>2 DEF after
  <1>5. QED  BY <1>1, <1>2, <1>3, <1>4

LEMMA SpotIs ==
    ASSUME NEW kind \in ThreadKinds
    PROVE  thread_setup[spot[kind]] = kind
  BY ThreadParts, QueueLists DEF ThreadKinds, spot, after

(* The places of main's own resources.                                     *)
app_spot == [malloc |-> 1, root |-> 2, ibv |-> 3, pd |-> 4, process |-> 5, window |-> 6,
             stream |-> 7, rx_matcher |-> 8, tx_matcher |-> 9]
AppKinds == DOMAIN app_spot

LEMMA AppSpotIs ==
    /\ \A kind \in AppKinds : app_spot[kind] \in 1 .. 9 /\ app_setup[app_spot[kind]] = kind
    /\ \A k \in 1 .. 9 : app_setup[k] \in AppKinds /\ app_spot[app_setup[k]] = k
  BY DEF AppKinds, app_spot, app_setup

-----------------------------------------------------------------------------
(* The entries of the set-up: by place, and by resource.                   *)
LEMMA EntryOf ==
    ASSUME NEW k \in 1 .. Len(Setup)
    PROVE  \/ k \in 1 .. 9 /\ Setup[k] = <<app_setup[k], App>>
           \/ \E t \in Threads, m \in 1 .. 28 :
                  k = 28 * t + 9 + m /\ Setup[k] = <<thread_setup[m], t>>
           \/ \E t \in Threads :
                  k = 9 + 28 * N + (t + 1) /\ Setup[k] = <<"first_pkt", t>>
  <1>1. k \in 1 .. 9 + 29 * N /\ N \in Nat  BY SetupPlaces, ThreadsAssumption
  <1>2. CASE k \in 1 .. 9  BY <1>2, SetupPlaces
  <1>3. CASE k \in 10 .. 9 + 28 * N
    <2> DEFINE i == k - 9
               t == (i - 1) \div 28
               m == ((i - 1) % 28) + 1
    <2>1. i \in 1 .. 28 * N /\ 9 + i = k  BY <1>1, <1>3
    <2>2. Setup[k] = <<thread_setup[m], t>>  BY <2>1, SetupPlaces
    <2> HIDE DEF i
    <2>3. /\ t \in 0 .. N - 1 /\ m \in 1 .. 28 /\ i - 1 = 28 * t + (m - 1)
      BY <1>1, <2>1
    <2> HIDE DEF t, m
    <2>4. k = 28 * t + 9 + m  BY <2>1, <2>3
    <2>5. QED  BY <2>2, <2>3, <2>4 DEF Threads
  <1>4. CASE k \in 10 + 28 * N .. 9 + 29 * N
    <2> DEFINE i == k - (9 + 28 * N)
    <2>1. i \in 1 .. N /\ 9 + 28 * N + i = k  BY <1>1, <1>4
    <2>2. Setup[k] = <<"first_pkt", i - 1>>  BY <2>1, SetupPlaces
    <2> HIDE DEF i
    <2>3. i - 1 \in Threads /\ (i - 1) + 1 = i  BY <1>1, <2>1 DEF Threads
    <2>4. k = 9 + 28 * N + ((i - 1) + 1)  BY <2>1, <2>3
    <2>5. QED  BY <2>2, <2>3, <2>4
  <1>5. k \in 1 .. 9 \/ k \in 10 .. 9 + 28 * N \/ k \in 10 + 28 * N .. 9 + 29 * N
    BY <1>1
  <1>6. QED  BY <1>2, <1>3, <1>4, <1>5

LEMMA AppAt ==
    ASSUME NEW kind \in AppKinds
    PROVE  /\ app_spot[kind] \in 1 .. Len(Setup) /\ app_spot[kind] <= 9
           /\ Setup[app_spot[kind]] = <<kind, App>>
  <1>1. app_spot[kind] \in 1 .. 9 /\ app_setup[app_spot[kind]] = kind  BY AppSpotIs
  <1>2. Setup[app_spot[kind]] = <<kind, App>>  BY <1>1, SetupPlaces
  <1>3. Len(Setup) = 9 + 29 * N /\ N \in Nat  BY SetupPlaces, ThreadsAssumption
  <1>4. QED  BY <1>1, <1>2, <1>3

LEMMA ThreadAt ==
    ASSUME NEW kind \in ThreadKinds, NEW t \in Threads
    PROVE  /\ 28 * t + 9 + spot[kind] \in 1 .. Len(Setup)
           /\ Setup[28 * t + 9 + spot[kind]] = <<kind, t>>
           /\ t \in Nat /\ spot[kind] \in 1 .. 28
  <1>1. spot[kind] \in 1 .. 28 /\ thread_setup[spot[kind]] = kind  BY SpotRange, SpotIs
  <1>2. /\ 28 * t + 9 + spot[kind] \in 1 .. 9 + 28 * N
        /\ Setup[28 * t + 9 + spot[kind]] = <<kind, t>>
    BY <1>1, ThreadPlace
  <1>3. Len(Setup) = 9 + 29 * N /\ N \in Nat /\ t \in Nat
    BY SetupPlaces, ThreadsAssumption DEF Threads
  <1>4. QED  BY <1>1, <1>2, <1>3

(* Every call is made once.                                                *)
LEMMA SetupOnce ==
    ASSUME NEW k \in 1 .. Len(Setup), NEW l \in 1 .. Len(Setup), Setup[k] = Setup[l]
    PROVE  k = l
  <1>1. App \notin Threads  BY ThreadsAssumption DEF App, Threads
  <1>2. Setup[k][1] = Setup[l][1] /\ Setup[k][2] = Setup[l][2]  OBVIOUS
  <1>3. CASE k \in 1 .. 9 /\ Setup[k] = <<app_setup[k], App>>
    <2>1. Setup[k][1] = app_setup[k] /\ Setup[k][2] = App  BY <1>3
    <2>2. Setup[l][2] \notin Threads  BY <1>1, <1>2, <2>1
    <2>3. l \in 1 .. 9 /\ Setup[l] = <<app_setup[l], App>>  BY <2>2, EntryOf
    <2>4. Setup[l][1] = app_setup[l]  BY <2>3
    <2>5. app_spot[app_setup[k]] = k /\ app_spot[app_setup[l]] = l
      BY <1>3, <2>3, AppSpotIs
    <2>6. QED  BY <1>2, <2>1, <2>4, <2>5
  <1>4. ASSUME NEW t \in Threads, NEW m \in 1 .. 28,
               k = 28 * t + 9 + m, Setup[k] = <<thread_setup[m], t>>
        PROVE  k = l
    <2>1. Setup[k][1] = thread_setup[m] /\ Setup[k][2] = t  BY <1>4
    <2>2. thread_setup[m] # "first_pkt"  BY ThreadSetup
    <2>3. Setup[l][1] # "first_pkt" /\ Setup[l][2] # App  BY <1>1, <1>2, <2>1, <2>2
    <2>4. PICK u \in Threads, n \in 1 .. 28 :
              l = 28 * u + 9 + n /\ Setup[l] = <<thread_setup[n], u>>
      <3>1. ~(Setup[l] = <<app_setup[l], App>>)  BY <2>3
      <3>2. \A u \in Threads : ~(Setup[l] = <<"first_pkt", u>>)  BY <2>3
      <3>3. QED  BY <3>1, <3>2, EntryOf
    <2>5. Setup[l][1] = thread_setup[n] /\ Setup[l][2] = u  BY <2>4
    <2>6. spot[thread_setup[m]] = m /\ spot[thread_setup[n]] = n  BY SpotOf
    <2>7. t = u /\ m = n  BY <1>2, <2>1, <2>5, <2>6
    <2>8. QED  BY <1>4, <2>4, <2>7
  <1>5. ASSUME NEW t \in Threads, k = 9 + 28 * N + (t + 1), Setup[k] = <<"first_pkt", t>>
        PROVE  k = l
    <2>1. Setup[k][1] = "first_pkt" /\ Setup[k][2] = t  BY <1>5
    <2>2. Setup[l][2] # App /\ Setup[l][1] = "first_pkt"  BY <1>1, <1>2, <2>1
    <2>3. ASSUME NEW u \in Threads, NEW n \in 1 .. 28, Setup[l] = <<thread_setup[n], u>>
          PROVE  FALSE
      <3>1. Setup[l][1] = thread_setup[n]  BY <2>3
      <3>2. thread_setup[n] # "first_pkt"  BY ThreadSetup
      <3>3. QED  BY <2>2, <3>1, <3>2
    <2>4. Setup[l] # <<app_setup[l], App>>  BY <2>2
    <2>5. PICK u \in Threads : l = 9 + 28 * N + (u + 1) /\ Setup[l] = <<"first_pkt", u>>
      BY <2>3, <2>4, EntryOf
    <2>6. t = u  BY <1>2, <2>1, <2>5
    <2>7. QED  BY <1>5, <2>5, <2>6
  <1>6. QED  BY <1>3, <1>4, <1>5, EntryOf

(* What is created.                                                        *)
AppMade    == AppKinds \ Checks
ThreadMade == ThreadKinds \ Checks

LEMMA CreatedIs ==
    ASSUME NEW r
    PROVE  r \in Created <=> \/ \E kind \in AppMade : r = <<kind, App>>
                            \/ \E kind \in ThreadMade, t \in Threads : r = <<kind, t>>
  <1>1. ASSUME r \in Created
        PROVE  \/ \E kind \in AppMade : r = <<kind, App>>
               \/ \E kind \in ThreadMade, t \in Threads : r = <<kind, t>>
    <2>1. PICK k \in 1 .. Len(Setup) : r = Setup[k] /\ r[1] \notin Checks
      BY <1>1 DEF Created
    <2>2. CASE k \in 1 .. 9 /\ Setup[k] = <<app_setup[k], App>>
      BY <2>1, <2>2, AppSpotIs DEF AppMade
    <2>3. ASSUME NEW t \in Threads, NEW m \in 1 .. 28, Setup[k] = <<thread_setup[m], t>>
          PROVE  \E kind \in ThreadMade, u \in Threads : r = <<kind, u>>
      <3>1. r[1] = thread_setup[m]  BY <2>1, <2>3
      <3>2. thread_setup[m] \notin Checks  BY <2>1, <3>1
      <3>3. thread_setup[m] \in ThreadKinds  BY SpotOf
      <3>4. thread_setup[m] \in ThreadMade  BY <3>2, <3>3 DEF ThreadMade
      <3>5. QED  BY <2>1, <2>3, <3>4
    <2>4. ASSUME NEW t \in Threads, Setup[k] = <<"first_pkt", t>> PROVE FALSE
      BY <2>1, <2>4 DEF Checks
    <2>5. QED  BY <2>2, <2>3, <2>4, EntryOf
  <1>2. ASSUME NEW kind \in AppMade, r = <<kind, App>> PROVE r \in Created
    BY <1>2, AppAt DEF AppMade, Created
  <1>3. ASSUME NEW kind \in ThreadMade, NEW t \in Threads, r = <<kind, t>>
        PROVE  r \in Created
    BY <1>3, ThreadAt DEF ThreadMade, Created
  <1>4. QED  BY <1>1, <1>2, <1>3

-----------------------------------------------------------------------------
(* A thread creates what it needs first, after what it needs of main.      *)
Remains == {"rx_partial", "tx_partial"}

LEMMA KindOrder ==
    ASSUME NEW a, NEW b, <<a, b>> \in Uses
    PROVE  \/ /\ a \in AppKinds \cup Remains
              /\ b \in AppMade /\ (a \in AppKinds => app_spot[b] < app_spot[a])
           \/ /\ a \in ThreadMade
              /\ b \in AppMade \/ (b \in ThreadMade /\ spot[b] < spot[a])
  <1> USE DEF AppMade, ThreadMade, AppKinds, ThreadKinds, app_spot, spot, Checks, Remains
  <1>1. CASE <<a, b>> \in References  BY <1>1 DEF References
  <1>2. CASE <<a, b>> \in {"rx_rule"} \X ReceiveMemory  BY <1>2 DEF ReceiveMemory
  <1>3. CASE <<a, b>> \in {"sq"} \X TransmitMemory  BY <1>3 DEF TransmitMemory
  <1>4. QED  BY <1>1, <1>2, <1>3 DEF Uses

(* The set-up creates what a resource needs ahead of it.                   *)
LEMMA SetupOrder ==
    ASSUME NEW k \in 1 .. Len(Setup), NEW s \in Resources, Needs(Setup[k], s)
    PROVE  s \in Created /\ \E j \in 1 .. k - 1 : Setup[j] = s
  <1> DEFINE a == Setup[k][1]
             b == s[1]
  <1>1. <<a, b>> \in Uses /\ s[2] \in {App, Setup[k][2]}  BY DEF Needs
  <1>2. App \notin Threads  BY ThreadsAssumption DEF App, Threads
  <1>3. b \in AppMade \cup ThreadMade  BY <1>1, KindOrder
  <1>4. AppMade \cap ThreadMade = {} /\ Remains \cap (AppMade \cup ThreadMade) = {}
        /\ Remains \cap (AppKinds \cup ThreadKinds) = {} /\ AppKinds \cap ThreadMade = {}
        /\ AppKinds \cap ThreadKinds = {}
    BY DEF AppMade, ThreadMade, AppKinds, ThreadKinds, app_spot, spot, Remains
  <1>5. s \in Created
    <2>1. s \in Created \/ \E kind \in Remains : s = <<kind, App>>
      BY DEF Resources, Partial, Matchers, Remains
    <2>2. QED  BY <1>3, <1>4, <2>1
  <1>6. CASE b \in AppMade
    <2>1. s = <<b, App>>  BY <1>4, <1>5, <1>6, CreatedIs
    <2>2. /\ app_spot[b] \in 1 .. Len(Setup) /\ app_spot[b] <= 9
          /\ Setup[app_spot[b]] = <<b, App>>
      BY <1>6, AppAt DEF AppMade
    <2>3. app_spot[b] < k
      <3>1. CASE k \in 1 .. 9 /\ Setup[k] = <<app_setup[k], App>>
        <4>1. a = app_setup[k]  BY <3>1
        <4>2. a \in AppKinds /\ app_spot[a] = k  BY <3>1, <4>1, AppSpotIs
        <4>3. app_spot[b] < app_spot[a]  BY <1>1, <1>4, <1>6, <4>2, KindOrder
        <4>4. QED  BY <4>2, <4>3
      <3>2. CASE k > 9  BY <2>2, <3>2
      <3>3. k \in 1 .. 9 => Setup[k] = <<app_setup[k], App>>  BY SetupPlaces
      <3>4. QED  BY <3>1, <3>2, <3>3
    <2>4. QED  BY <1>5, <2>1, <2>2, <2>3
  <1>7. CASE b \in ThreadMade
    <2>1. a \in ThreadMade /\ spot[b] < spot[a]  BY <1>1, <1>4, <1>7, KindOrder
    <2>2. PICK t \in Threads : s = <<b, t>>  BY <1>4, <1>5, <1>7, CreatedIs
    <2>3. Setup[k][2] = t  BY <1>1, <1>2, <2>2
    <2>4. a # "first_pkt"  BY <2>1 DEF ThreadMade, Checks
    <2>5. PICK m \in 1 .. 28 : k = 28 * t + 9 + m /\ Setup[k] = <<thread_setup[m], t>>
      <3>1. Setup[k] # <<app_setup[k], App>>  BY <1>2, <2>3
      <3>2. ASSUME NEW u \in Threads, Setup[k] = <<"first_pkt", u>> PROVE FALSE
        BY <2>4, <3>2
      <3>3. PICK u \in Threads, m \in 1 .. 28 :
                k = 28 * u + 9 + m /\ Setup[k] = <<thread_setup[m], u>>
        BY <3>1, <3>2, EntryOf
      <3>4. u = t  BY <2>3, <3>3
      <3>5. QED  BY <3>3, <3>4
    <2>6. spot[b] < m
      <3>1. a = thread_setup[m]  BY <2>5
      <3>2. spot[a] = m  BY <3>1, SpotOf
      <3>3. QED  BY <2>1, <3>2
    <2>7. /\ 28 * t + 9 + spot[b] \in 1 .. Len(Setup)
          /\ Setup[28 * t + 9 + spot[b]] = <<b, t>>
          /\ t \in Nat /\ spot[b] \in 1 .. 28
      BY <1>7, ThreadAt DEF ThreadMade
    <2>8. 28 * t + 9 + spot[b] \in 1 .. k - 1
      <3> DEFINE i == spot[b]
      <3>1. i \in 1 .. 28 /\ i < m /\ t \in Nat /\ k = 28 * t + 9 + m
        BY <2>5, <2>6, <2>7
      <3> HIDE DEF i
      <3>2. 28 * t + 9 + i \in 1 .. k - 1  BY <3>1
      <3>3. QED  BY <3>2 DEF i
    <2>9. QED  BY <1>5, <2>2, <2>7, <2>8
  <1>8. QED  BY <1>3, <1>6, <1>7

-----------------------------------------------------------------------------
(* The parts of the clean-up.                                              *)
LEMMA ThreadsList ==
    ASSUME NEW kinds \in Seq(Names), NEW n \in Nat \ {0}, Len(kinds) = n
    PROVE  /\ ForThreads(kinds) \in Seq(Names \X Int) /\ Len(ForThreads(kinds)) = n * N
           /\ \A k \in 1 .. n * N :
                  ForThreads(kinds)[k] = <<kinds[((k - 1) % n) + 1], (k - 1) \div n>>
  <1>1. ForThreads(kinds) \in Seq(Names \X Int) /\ Len(ForThreads(kinds)) = N * n
    BY ThreadPart
  <1>2. N * n = n * N  BY ThreadsAssumption
  <1>3. QED  BY <1>1, <1>2 DEF ForThreads

down_data    == ForThreads(<<"app_data">>)
down_rules   == ForThreads(clean_up_rules)
down_match   == ForApp(clean_up_matchers)
down_queues  == ForThreads(clean_up_queues)
down_app     == ForApp(clean_up_app)

LEMMA DataEntries ==
    /\ down_data \in Seq(Names \X Int) /\ Len(down_data) = N
    /\ \A k \in 1 .. N : down_data[k] = <<"app_data", k - 1>>
  <1> DEFINE kinds == <<"app_data">>
  <1>1. kinds \in Seq(Names) /\ Len(kinds) = 1 /\ kinds[1] = "app_data"  BY DEF Names
  <1>2. down_data = ForThreads(kinds)  BY DEF down_data
  <1> HIDE DEF kinds
  <1>3. 1 \in Nat \ {0}  OBVIOUS
  <1>4. /\ ForThreads(kinds) \in Seq(Names \X Int) /\ Len(ForThreads(kinds)) = 1 * N
        /\ \A k \in 1 .. 1 * N :
               ForThreads(kinds)[k] = <<kinds[((k - 1) % 1) + 1], (k - 1) \div 1>>
    BY <1>1, <1>3, ThreadsList
  <1>5. 1 * N = N  BY ThreadsAssumption
  <1>6. ASSUME NEW k \in 1 .. N PROVE ForThreads(kinds)[k] = <<"app_data", k - 1>>
    <2>1. ((k - 1) % 1) + 1 = 1 /\ (k - 1) \div 1 = k - 1  OBVIOUS
    <2>2. QED  BY <1>1, <1>4, <1>5, <2>1
  <1>7. QED  BY <1>2, <1>4, <1>5, <1>6

LEMMA RuleEntries ==
    /\ down_rules \in Seq(Names \X Int) /\ Len(down_rules) = 3 * N
    /\ \A k \in 1 .. 3 * N :
           down_rules[k] = <<clean_up_rules[((k - 1) % 3) + 1], (k - 1) \div 3>>
  <1>1. clean_up_rules \in Seq(Names) /\ Len(clean_up_rules) = 3
    BY DEF clean_up_rules, Names
  <1>2. 3 \in Nat \ {0}  OBVIOUS
  <1>3. QED  BY <1>1, <1>2, ThreadsList DEF down_rules

LEMMA MatcherEntries ==
    /\ down_match \in Seq(Names \X Int) /\ Len(down_match) = 2
    /\ \A k \in 1 .. 2 : down_match[k] = <<"rx_matcher", App>>
  <1>1. /\ clean_up_matchers \in Seq(Names) /\ Len(clean_up_matchers) = 2
        /\ \A k \in 1 .. 2 : clean_up_matchers[k] = "rx_matcher"
    BY DEF clean_up_matchers, Names
  <1>2. QED  BY <1>1, AppPart DEF down_match, ForApp

LEMMA EndEntries ==
    /\ down_app \in Seq(Names \X Int) /\ Len(down_app) = 4
    /\ \A k \in 1 .. 4 : down_app[k] = <<clean_up_app[k], App>>
  <1>1. clean_up_app \in Seq(Names) /\ Len(clean_up_app) = 4  BY DEF clean_up_app, Names
  <1>2. QED  BY <1>1, AppPart DEF down_app, ForApp

LEMMA QueueParts ==
    /\ clean_up_queues \in Seq(Names) /\ Len(clean_up_queues) = 16
    /\ \A m \in 1 .. 7 : clean_up_queues[m] = clean_up_app_sq[m]
    /\ \A m \in 1 .. 8 : clean_up_queues[7 + m] = clean_up_app_rq[m]
    /\ clean_up_queues[16] = "handler"
  <1> DEFINE last == <<"handler">>
             both == clean_up_app_sq \o clean_up_app_rq
  <1>1. /\ clean_up_app_sq \in Seq(Names) /\ Len(clean_up_app_sq) = 7
        /\ clean_up_app_rq \in Seq(Names) /\ Len(clean_up_app_rq) = 8
    BY DEF clean_up_app_sq, clean_up_app_rq, Names
  <1>2. last \in Seq(Names) /\ Len(last) = 1 /\ last[1] = "handler"  BY DEF Names
  <1>3. clean_up_queues = both \o last  BY DEF clean_up_queues
  <1> HIDE DEF last
  <1>4. /\ both \in Seq(Names) /\ Len(both) = 15
        /\ \A m \in 1 .. 7 : both[m] = clean_up_app_sq[m]
        /\ \A m \in 1 .. 8 : both[7 + m] = clean_up_app_rq[m]
    <2>1. clean_up_app_sq \in Seq(Names) /\ clean_up_app_rq \in Seq(Names)  BY <1>1
    <2>2. /\ both \in Seq(Names) /\ Len(both) = Len(clean_up_app_sq) + Len(clean_up_app_rq)
          /\ \A m \in 1 .. Len(clean_up_app_sq) : both[m] = clean_up_app_sq[m]
          /\ \A m \in 1 .. Len(clean_up_app_rq) :
                 both[Len(clean_up_app_sq) + m] = clean_up_app_rq[m]
      BY <2>1, Concat
    <2> HIDE DEF both
    <2>3. Len(clean_up_app_sq) = 7 /\ Len(clean_up_app_rq) = 8  BY <1>1
    <2>4. QED  BY <2>2, <2>3
  <1> HIDE DEF both
  <1>5. /\ clean_up_queues \in Seq(Names) /\ Len(clean_up_queues) = 16
        /\ \A m \in 1 .. 15 : clean_up_queues[m] = both[m]
        /\ clean_up_queues[16] = "handler"
    <2>1. both \in Seq(Names) /\ last \in Seq(Names)  BY <1>2, <1>4
    <2>2. /\ clean_up_queues \in Seq(Names) /\ Len(clean_up_queues) = Len(both) + Len(last)
          /\ \A m \in 1 .. Len(both) : clean_up_queues[m] = both[m]
          /\ \A m \in 1 .. Len(last) : clean_up_queues[Len(both) + m] = last[m]
      BY <1>3, <2>1, Concat
    <2>3. Len(both) = 15 /\ Len(last) = 1 /\ last[1] = "handler"  BY <1>2, <1>4
    <2>4. QED  BY <2>2, <2>3
  <1>6. \A m \in 1 .. 7 : m \in 1 .. 15  OBVIOUS
  <1>7. \A m \in 1 .. 8 : 7 + m \in 1 .. 15  OBVIOUS
  <1>8. QED  BY <1>4, <1>5, <1>6, <1>7

LEMMA QueueEntries ==
    /\ down_queues \in Seq(Names \X Int) /\ Len(down_queues) = 16 * N
    /\ \A k \in 1 .. 16 * N :
           down_queues[k] = <<clean_up_queues[((k - 1) % 16) + 1], (k - 1) \div 16>>
  <1>1. 16 \in Nat \ {0}  OBVIOUS
  <1>2. QED  BY <1>1, QueueParts, ThreadsList DEF down_queues

(* The clean-up, place by place.                                           *)
LEMMA TearDownPlaces ==
    /\ Len(TearDown) = 20 * N + 6
    /\ \A k \in 1 .. N : TearDown[k] = <<"app_data", k - 1>>
    /\ \A k \in 1 .. 3 * N :
           TearDown[N + k] = <<clean_up_rules[((k - 1) % 3) + 1], (k - 1) \div 3>>
    /\ \A k \in 1 .. 2 : TearDown[4 * N + k] = <<"rx_matcher", App>>
    /\ \A k \in 1 .. 16 * N :
           TearDown[4 * N + 2 + k]
               = <<clean_up_queues[((k - 1) % 16) + 1], (k - 1) \div 16>>
    /\ \A k \in 1 .. 4 : TearDown[20 * N + 2 + k] = <<clean_up_app[k], App>>
  <1> DEFINE two   == down_data \o down_rules
             three == two \o down_match
             four  == three \o down_queues
  <1>1. TearDown = four \o down_app
    BY DEF TearDown, down_data, down_rules, down_match, down_queues, down_app
  <1>2. N \in Nat /\ 3 * N \in Nat /\ 16 * N \in Nat /\ 4 * N \in Nat /\ 2 \in Nat /\ 4 \in Nat
        /\ 4 * N + 2 \in Nat /\ 20 * N + 2 \in Nat
        /\ N + 3 * N = 4 * N /\ (4 * N + 2) + 16 * N = 20 * N + 2
        /\ (20 * N + 2) + 4 = 20 * N + 6
    BY ThreadsAssumption
  <1>3. /\ two \in Seq(Names \X Int) /\ Len(two) = N + 3 * N
        /\ \A k \in 1 .. N : two[k] = down_data[k]
        /\ \A k \in 1 .. 3 * N : two[N + k] = down_rules[k]
    <2>1. down_data \in Seq(Names \X Int) /\ down_rules \in Seq(Names \X Int)
      BY DataEntries, RuleEntries
    <2>2. /\ two \in Seq(Names \X Int) /\ Len(two) = Len(down_data) + Len(down_rules)
          /\ \A k \in 1 .. Len(down_data) : two[k] = down_data[k]
          /\ \A k \in 1 .. Len(down_rules) : two[Len(down_data) + k] = down_rules[k]
      BY <2>1, Concat
    <2> HIDE DEF two
    <2>3. Len(down_data) = N /\ Len(down_rules) = 3 * N  BY DataEntries, RuleEntries
    <2>4. QED  BY <2>2, <2>3
  <1> HIDE DEF two
  <1>4. /\ three \in Seq(Names \X Int) /\ Len(three) = 4 * N + 2
        /\ \A k \in 1 .. 4 * N : three[k] = two[k]
        /\ \A k \in 1 .. 2 : three[4 * N + k] = down_match[k]
    <2>1. two \in Seq(Names \X Int) /\ down_match \in Seq(Names \X Int)
      BY <1>3, MatcherEntries
    <2>2. /\ three \in Seq(Names \X Int) /\ Len(three) = Len(two) + Len(down_match)
          /\ \A k \in 1 .. Len(two) : three[k] = two[k]
          /\ \A k \in 1 .. Len(down_match) : three[Len(two) + k] = down_match[k]
      BY <2>1, Concat
    <2> HIDE DEF three
    <2>3. Len(two) = 4 * N /\ Len(down_match) = 2  BY <1>2, <1>3, MatcherEntries
    <2>4. QED  BY <2>2, <2>3
  <1> HIDE DEF three
  <1>5. /\ four \in Seq(Names \X Int) /\ Len(four) = (4 * N + 2) + 16 * N
        /\ \A k \in 1 .. 4 * N + 2 : four[k] = three[k]
        /\ \A k \in 1 .. 16 * N : four[4 * N + 2 + k] = down_queues[k]
    <2>1. three \in Seq(Names \X Int) /\ down_queues \in Seq(Names \X Int)
      BY <1>4, QueueEntries
    <2>2. /\ four \in Seq(Names \X Int) /\ Len(four) = Len(three) + Len(down_queues)
          /\ \A k \in 1 .. Len(three) : four[k] = three[k]
          /\ \A k \in 1 .. Len(down_queues) : four[Len(three) + k] = down_queues[k]
      BY <2>1, Concat
    <2> HIDE DEF four
    <2>3. Len(three) = 4 * N + 2 /\ Len(down_queues) = 16 * N  BY <1>4, QueueEntries
    <2>4. QED  BY <2>2, <2>3
  <1> HIDE DEF four
  <1>6. /\ Len(TearDown) = (20 * N + 2) + 4
        /\ \A k \in 1 .. 20 * N + 2 : TearDown[k] = four[k]
        /\ \A k \in 1 .. 4 : TearDown[20 * N + 2 + k] = down_app[k]
    <2>1. four \in Seq(Names \X Int) /\ down_app \in Seq(Names \X Int)
      BY <1>5, EndEntries
    <2>2. /\ Len(TearDown) = Len(four) + Len(down_app)
          /\ \A k \in 1 .. Len(four) : TearDown[k] = four[k]
          /\ \A k \in 1 .. Len(down_app) : TearDown[Len(four) + k] = down_app[k]
      BY <1>1, <2>1, Concat
    <2>3. Len(four) = 20 * N + 2 /\ Len(down_app) = 4  BY <1>2, <1>5, EndEntries
    <2>4. QED  BY <2>2, <2>3
  <1>7. \A k \in 1 .. N : TearDown[k] = down_data[k]
    <2>1. \A k \in 1 .. N : k \in 1 .. 20 * N + 2 /\ k \in 1 .. 4 * N + 2 /\ k \in 1 .. 4 * N
      BY <1>2
    <2>2. QED  BY <1>3, <1>4, <1>5, <1>6, <2>1
  <1>8. ASSUME NEW k \in 1 .. 3 * N PROVE TearDown[N + k] = down_rules[k]
    <2>1. /\ N + k \in 1 .. 20 * N + 2
          /\ N + k \in 1 .. 4 * N + 2 /\ N + k \in 1 .. 4 * N
      BY <1>2
    <2>2. TearDown[N + k] = two[N + k]  BY <1>4, <1>5, <1>6, <2>1
    <2>3. QED  BY <1>3, <2>2
  <1>9. \A k \in 1 .. 2 : TearDown[4 * N + k] = down_match[k]
    <2>1. \A k \in 1 .. 2 : 4 * N + k \in 1 .. 20 * N + 2 /\ 4 * N + k \in 1 .. 4 * N + 2
      BY <1>2
    <2>2. QED  BY <1>4, <1>5, <1>6, <2>1
  <1>10. \A k \in 1 .. 16 * N : TearDown[4 * N + 2 + k] = down_queues[k]
    <2>1. \A k \in 1 .. 16 * N : 4 * N + 2 + k \in 1 .. 20 * N + 2  BY <1>2
    <2>2. QED  BY <1>5, <1>6, <2>1
  <1>11. Len(TearDown) = 20 * N + 6  BY <1>2, <1>6
  <1>12. \A k \in 1 .. N : TearDown[k] = <<"app_data", k - 1>>  BY <1>7, DataEntries
  <1>13. \A k \in 1 .. 3 * N :
            TearDown[N + k] = <<clean_up_rules[((k - 1) % 3) + 1], (k - 1) \div 3>>
    BY <1>8, RuleEntries
  <1>14. \A k \in 1 .. 2 : TearDown[4 * N + k] = <<"rx_matcher", App>>
    BY <1>9, MatcherEntries
  <1>15. \A k \in 1 .. 16 * N :
            TearDown[4 * N + 2 + k]
                = <<clean_up_queues[((k - 1) % 16) + 1], (k - 1) \div 16>>
    BY <1>10, QueueEntries
  <1>16. \A k \in 1 .. 4 : TearDown[20 * N + 2 + k] = <<clean_up_app[k], App>>
    BY <1>6, EndEntries
  <1>17. QED  BY ONLY <1>11, <1>12, <1>13, <1>14, <1>15, <1>16, Zenon

(* The place of each kind in its part of the clean-up.                     *)
rule_spot  == [rx_rule |-> 1, tx_rule |-> 2, tx_rule2 |-> 3]
queue_spot ==
    [sq |-> 1, sqd_mkey |-> 2, sq_ring |-> 3, sqd |-> 4, sq_cq |-> 5, sq_cq_ring |-> 6,
     sq_cq_dbr |-> 7, rq |-> 8, rqd_mkey |-> 9, rq_dbr |-> 10, rq_ring |-> 11, rqd |-> 12,
     rq_cq |-> 13, rq_cq_ring |-> 14, rq_cq_dbr |-> 15, handler |-> 16]
end_spot   == [stream |-> 1, window |-> 2, process |-> 3, ibv |-> 4]
RuleKinds  == DOMAIN rule_spot
QueueKinds == DOMAIN queue_spot
EndKinds   == DOMAIN end_spot

LEMMA RuleSpots ==
    /\ \A kind \in RuleKinds : /\ rule_spot[kind] \in 1 .. 3
                               /\ clean_up_rules[rule_spot[kind]] = kind
    /\ \A m \in 1 .. 3 : clean_up_rules[m] \in RuleKinds /\ rule_spot[clean_up_rules[m]] = m
  BY DEF RuleKinds, rule_spot, clean_up_rules

LEMMA EndSpots ==
    /\ \A kind \in EndKinds : /\ end_spot[kind] \in 1 .. 4
                              /\ clean_up_app[end_spot[kind]] = kind
    /\ \A m \in 1 .. 4 : clean_up_app[m] \in EndKinds /\ end_spot[clean_up_app[m]] = m
  BY DEF EndKinds, end_spot, clean_up_app

LEMMA QueueLine ==
    /\ clean_up_queues[1] = "sq" /\ clean_up_queues[2] = "sqd_mkey"
    /\ clean_up_queues[3] = "sq_ring" /\ clean_up_queues[4] = "sqd"
    /\ clean_up_queues[5] = "sq_cq" /\ clean_up_queues[6] = "sq_cq_ring"
    /\ clean_up_queues[7] = "sq_cq_dbr" /\ clean_up_queues[8] = "rq"
    /\ clean_up_queues[9] = "rqd_mkey" /\ clean_up_queues[10] = "rq_dbr"
    /\ clean_up_queues[11] = "rq_ring" /\ clean_up_queues[12] = "rqd"
    /\ clean_up_queues[13] = "rq_cq" /\ clean_up_queues[14] = "rq_cq_ring"
    /\ clean_up_queues[15] = "rq_cq_dbr" /\ clean_up_queues[16] = "handler"
  <1>1. /\ clean_up_app_sq[1] = "sq" /\ clean_up_app_sq[2] = "sqd_mkey"
        /\ clean_up_app_sq[3] = "sq_ring" /\ clean_up_app_sq[4] = "sqd"
        /\ clean_up_app_sq[5] = "sq_cq" /\ clean_up_app_sq[6] = "sq_cq_ring"
        /\ clean_up_app_sq[7] = "sq_cq_dbr"
    BY DEF clean_up_app_sq
  <1>2. /\ clean_up_app_rq[1] = "rq" /\ clean_up_app_rq[2] = "rqd_mkey"
        /\ clean_up_app_rq[3] = "rq_dbr" /\ clean_up_app_rq[4] = "rq_ring"
        /\ clean_up_app_rq[5] = "rqd" /\ clean_up_app_rq[6] = "rq_cq"
        /\ clean_up_app_rq[7] = "rq_cq_ring" /\ clean_up_app_rq[8] = "rq_cq_dbr"
    BY DEF clean_up_app_rq
  <1>3. \A m \in 1 .. 7 : clean_up_queues[m] = clean_up_app_sq[m]  BY QueueParts
  <1>4. \A m \in 1 .. 8 : clean_up_queues[7 + m] = clean_up_app_rq[m]  BY QueueParts
  <1>5. /\ clean_up_queues[8] = clean_up_app_rq[1] /\ clean_up_queues[9] = clean_up_app_rq[2]
        /\ clean_up_queues[10] = clean_up_app_rq[3] /\ clean_up_queues[11] = clean_up_app_rq[4]
        /\ clean_up_queues[12] = clean_up_app_rq[5] /\ clean_up_queues[13] = clean_up_app_rq[6]
        /\ clean_up_queues[14] = clean_up_app_rq[7] /\ clean_up_queues[15] = clean_up_app_rq[8]
    <2>1. /\ clean_up_queues[7 + 1] = clean_up_app_rq[1]
          /\ clean_up_queues[7 + 2] = clean_up_app_rq[2]
          /\ clean_up_queues[7 + 3] = clean_up_app_rq[3]
          /\ clean_up_queues[7 + 4] = clean_up_app_rq[4]
          /\ clean_up_queues[7 + 5] = clean_up_app_rq[5]
          /\ clean_up_queues[7 + 6] = clean_up_app_rq[6]
          /\ clean_up_queues[7 + 7] = clean_up_app_rq[7]
          /\ clean_up_queues[7 + 8] = clean_up_app_rq[8]
      BY <1>4
    <2>2. QED  BY <2>1
  <1>6. QED  BY <1>1, <1>2, <1>3, <1>5, QueueParts

LEMMA QueueSpots ==
    /\ \A kind \in QueueKinds : /\ queue_spot[kind] \in 1 .. 16
                                /\ clean_up_queues[queue_spot[kind]] = kind
    /\ \A m \in 1 .. 16 : /\ clean_up_queues[m] \in QueueKinds
                          /\ queue_spot[clean_up_queues[m]] = m
  <1> USE QueueLine DEF QueueKinds, queue_spot
  <1>1. ASSUME NEW kind \in QueueKinds
        PROVE  queue_spot[kind] \in 1 .. 16 /\ clean_up_queues[queue_spot[kind]] = kind
    OBVIOUS
  <1>2. ASSUME NEW m \in 1 .. 16
        PROVE  clean_up_queues[m] \in QueueKinds /\ queue_spot[clean_up_queues[m]] = m
    <2>1. \/ m = 1 \/ m = 2 \/ m = 3 \/ m = 4 \/ m = 5 \/ m = 6 \/ m = 7 \/ m = 8
          \/ m = 9 \/ m = 10 \/ m = 11 \/ m = 12 \/ m = 13 \/ m = 14 \/ m = 15 \/ m = 16
      OBVIOUS
    <2>2. QED  BY <2>1
  <1>3. QED  BY <1>1, <1>2

(* The entries of the clean-up: by resource, and by place.                 *)
LEMMA DataAt ==
    ASSUME NEW t \in Threads
    PROVE  /\ t + 1 \in 1 .. N /\ t + 1 \in 1 .. Len(TearDown)
           /\ TearDown[t + 1] = <<"app_data", t>>
  <1>1. t \in 0 .. N - 1 /\ N \in Nat  BY ThreadsAssumption DEF Threads
  <1>2. t + 1 \in 1 .. N /\ (t + 1) - 1 = t  BY <1>1
  <1>3. TearDown[t + 1] = <<"app_data", (t + 1) - 1>>  BY <1>2, TearDownPlaces
  <1>4. Len(TearDown) = 20 * N + 6  BY TearDownPlaces
  <1>5. QED  BY <1>1, <1>2, <1>3, <1>4

LEMMA RuleAt ==
    ASSUME NEW t \in Threads, NEW kind \in RuleKinds
    PROVE  /\ N + 3 * t + rule_spot[kind] \in N + 1 .. 4 * N
           /\ N + 3 * t + rule_spot[kind] \in 1 .. Len(TearDown)
           /\ TearDown[N + 3 * t + rule_spot[kind]] = <<kind, t>>
  <1> DEFINE m == rule_spot[kind]
             k == 3 * t + m
  <1>1. t \in 0 .. N - 1 /\ N \in Nat  BY ThreadsAssumption DEF Threads
  <1>2. m \in 1 .. 3 /\ clean_up_rules[m] = kind  BY RuleSpots
  <1> HIDE DEF m
  <1>3. k \in 1 .. 3 * N /\ k - 1 = 3 * t + (m - 1) /\ m - 1 \in 0 .. 2  BY <1>1, <1>2
  <1>4. (k - 1) % 3 = m - 1 /\ (k - 1) \div 3 = t  BY <1>1, <1>3
  <1>5. N + k = N + 3 * t + m /\ (m - 1) + 1 = m  BY <1>1, <1>2
  <1> HIDE DEF k
  <1>6. TearDown[N + k] = <<clean_up_rules[((k - 1) % 3) + 1], (k - 1) \div 3>>
    BY <1>3, TearDownPlaces
  <1>7. TearDown[N + k] = <<kind, t>>  BY <1>2, <1>4, <1>5, <1>6
  <1>8. Len(TearDown) = 20 * N + 6  BY TearDownPlaces
  <1>9. N + k \in N + 1 .. 4 * N /\ N + k \in 1 .. Len(TearDown)  BY <1>1, <1>3, <1>8
  <1>10. QED  BY <1>5, <1>7, <1>9 DEF m

LEMMA QueueAt ==
    ASSUME NEW t \in Threads, NEW kind \in QueueKinds
    PROVE  /\ 4 * N + 2 + 16 * t + queue_spot[kind] \in 4 * N + 3 .. 20 * N + 2
           /\ 4 * N + 2 + 16 * t + queue_spot[kind] \in 1 .. Len(TearDown)
           /\ TearDown[4 * N + 2 + 16 * t + queue_spot[kind]] = <<kind, t>>
  <1> DEFINE m == queue_spot[kind]
             k == 16 * t + m
  <1>1. t \in 0 .. N - 1 /\ N \in Nat  BY ThreadsAssumption DEF Threads
  <1>2. m \in 1 .. 16 /\ clean_up_queues[m] = kind  BY QueueSpots
  <1> HIDE DEF m
  <1>3. k \in 1 .. 16 * N /\ k - 1 = 16 * t + (m - 1) /\ m - 1 \in 0 .. 15  BY <1>1, <1>2
  <1>4. (k - 1) % 16 = m - 1 /\ (k - 1) \div 16 = t  BY <1>1, <1>3
  <1>5. 4 * N + 2 + k = 4 * N + 2 + 16 * t + m /\ (m - 1) + 1 = m  BY <1>1, <1>2
  <1> HIDE DEF k
  <1>6. TearDown[4 * N + 2 + k]
            = <<clean_up_queues[((k - 1) % 16) + 1], (k - 1) \div 16>>
    BY <1>3, TearDownPlaces
  <1>7. TearDown[4 * N + 2 + k] = <<kind, t>>  BY <1>2, <1>4, <1>5, <1>6
  <1>8. Len(TearDown) = 20 * N + 6  BY TearDownPlaces
  <1>9. 4 * N + 2 + k \in 4 * N + 3 .. 20 * N + 2 /\ 4 * N + 2 + k \in 1 .. Len(TearDown)
    BY <1>1, <1>3, <1>8
  <1>10. QED  BY <1>5, <1>7, <1>9 DEF m

LEMMA EndAt ==
    ASSUME NEW kind \in EndKinds
    PROVE  /\ 20 * N + 2 + end_spot[kind] \in 1 .. Len(TearDown)
           /\ TearDown[20 * N + 2 + end_spot[kind]] = <<kind, App>>
  <1> DEFINE m == end_spot[kind]
  <1>1. m \in 1 .. 4 /\ clean_up_app[m] = kind  BY EndSpots
  <1> HIDE DEF m
  <1>2. TearDown[20 * N + 2 + m] = <<clean_up_app[m], App>>  BY <1>1, TearDownPlaces
  <1>3. Len(TearDown) = 20 * N + 6 /\ N \in Nat  BY TearDownPlaces, ThreadsAssumption
  <1>4. 20 * N + 2 + m \in 1 .. Len(TearDown)  BY <1>1, <1>3
  <1>5. QED  BY <1>1, <1>2, <1>4 DEF m

LEMMA DownEntryOf ==
    ASSUME NEW k \in 1 .. Len(TearDown)
    PROVE  \/ \E t \in Threads : k = t + 1 /\ TearDown[k] = <<"app_data", t>>
           \/ \E t \in Threads, kind \in RuleKinds :
                  k = N + 3 * t + rule_spot[kind] /\ TearDown[k] = <<kind, t>>
           \/ k \in 4 * N + 1 .. 4 * N + 2 /\ TearDown[k] = <<"rx_matcher", App>>
           \/ \E t \in Threads, kind \in QueueKinds :
                  k = 4 * N + 2 + 16 * t + queue_spot[kind] /\ TearDown[k] = <<kind, t>>
           \/ \E kind \in EndKinds :
                  k = 20 * N + 2 + end_spot[kind] /\ TearDown[k] = <<kind, App>>
  <1>1. k \in 1 .. 20 * N + 6 /\ N \in Nat  BY TearDownPlaces, ThreadsAssumption
  <1>2. CASE k \in 1 .. N
    <2>1. TearDown[k] = <<"app_data", k - 1>>  BY <1>2, TearDownPlaces
    <2>2. k - 1 \in Threads /\ k = (k - 1) + 1  BY <1>1, <1>2 DEF Threads
    <2>3. QED  BY <2>1, <2>2
  <1>3. CASE k \in N + 1 .. 4 * N
    <2> DEFINE i == k - N
               t == (i - 1) \div 3
               m == ((i - 1) % 3) + 1
    <2>1. i \in 1 .. 3 * N /\ N + i = k  BY <1>1, <1>3
    <2>2. TearDown[k] = <<clean_up_rules[m], t>>  BY <2>1, TearDownPlaces
    <2> HIDE DEF i
    <2>3. t \in 0 .. N - 1 /\ m \in 1 .. 3 /\ i - 1 = 3 * t + (m - 1)  BY <1>1, <2>1
    <2> HIDE DEF t, m
    <2>4. k = N + 3 * t + m  BY <1>1, <2>1, <2>3
    <2>5. clean_up_rules[m] \in RuleKinds /\ rule_spot[clean_up_rules[m]] = m
      BY <2>3, RuleSpots
    <2>6. QED  BY <2>2, <2>3, <2>4, <2>5 DEF Threads
  <1>4. CASE k \in 4 * N + 1 .. 4 * N + 2
    <2>1. k - 4 * N \in 1 .. 2 /\ 4 * N + (k - 4 * N) = k  BY <1>1, <1>4
    <2>2. QED  BY <1>4, <2>1, TearDownPlaces
  <1>5. CASE k \in 4 * N + 3 .. 20 * N + 2
    <2> DEFINE i == k - (4 * N + 2)
               t == (i - 1) \div 16
               m == ((i - 1) % 16) + 1
    <2>1. i \in 1 .. 16 * N /\ 4 * N + 2 + i = k  BY <1>1, <1>5
    <2>2. TearDown[k] = <<clean_up_queues[m], t>>  BY <2>1, TearDownPlaces
    <2> HIDE DEF i
    <2>3. t \in 0 .. N - 1 /\ m \in 1 .. 16 /\ i - 1 = 16 * t + (m - 1)  BY <1>1, <2>1
    <2> HIDE DEF t, m
    <2>4. k = 4 * N + 2 + 16 * t + m  BY <1>1, <2>1, <2>3
    <2>5. clean_up_queues[m] \in QueueKinds /\ queue_spot[clean_up_queues[m]] = m
      BY <2>3, QueueSpots
    <2>6. QED  BY <2>2, <2>3, <2>4, <2>5 DEF Threads
  <1>6. CASE k \in 20 * N + 3 .. 20 * N + 6
    <2> DEFINE m == k - (20 * N + 2)
    <2>1. m \in 1 .. 4 /\ k = 20 * N + 2 + m  BY <1>1, <1>6
    <2> HIDE DEF m
    <2>2. TearDown[k] = <<clean_up_app[m], App>>  BY <2>1, TearDownPlaces
    <2>3. clean_up_app[m] \in EndKinds /\ end_spot[clean_up_app[m]] = m  BY <2>1, EndSpots
    <2>4. QED  BY <2>1, <2>2, <2>3
  <1>7. \/ k \in 1 .. N \/ k \in N + 1 .. 4 * N \/ k \in 4 * N + 1 .. 4 * N + 2
        \/ k \in 4 * N + 3 .. 20 * N + 2 \/ k \in 20 * N + 3 .. 20 * N + 6
    BY <1>1
  <1>8. QED  BY <1>2, <1>3, <1>4, <1>5, <1>6, <1>7

(* Only what main never destroys is missing from the clean-up.             *)
LEMMA TearDownCovers ==
    ASSUME NEW r \in Resources
    PROVE  r \in LeftBehind \/ \E k \in 1 .. Len(TearDown) : TearDown[k] = r
  <1>1. CASE r \in {Partial(kind) : kind \in Matchers}
    BY <1>1 DEF Matchers, Partial, LeftBehind
  <1>2. ASSUME NEW kind \in AppMade, r = <<kind, App>>
        PROVE  r \in LeftBehind \/ \E k \in 1 .. Len(TearDown) : TearDown[k] = r
    <2>1. kind \in {"ibv", "pd", "tx_matcher"} \/ kind = "rx_matcher" \/ kind \in EndKinds
      BY DEF AppMade, AppKinds, app_spot, Checks, EndKinds, end_spot
    <2>2. CASE kind \in {"ibv", "pd", "tx_matcher"}  BY <1>2, <2>2 DEF LeftBehind
    <2>3. CASE kind = "rx_matcher"
      <3>1. TearDown[4 * N + 1] = <<"rx_matcher", App>>
            /\ Len(TearDown) = 20 * N + 6
        BY TearDownPlaces
      <3>2. 4 * N + 1 \in 1 .. Len(TearDown)  BY <3>1, ThreadsAssumption
      <3>3. QED  BY <1>2, <2>3, <3>1, <3>2
    <2>4. CASE kind \in EndKinds  BY <1>2, <2>4, EndAt
    <2>5. QED  BY <2>1, <2>2, <2>3, <2>4
  <1>3. ASSUME NEW kind \in ThreadMade, NEW t \in Threads, r = <<kind, t>>
        PROVE  r \in LeftBehind \/ \E k \in 1 .. Len(TearDown) : TearDown[k] = r
    <2>1. kind = "mr" \/ kind = "app_data" \/ kind \in RuleKinds \/ kind \in QueueKinds
      BY DEF ThreadMade, ThreadKinds, spot, Checks, RuleKinds, rule_spot, QueueKinds,
             queue_spot
    <2>2. CASE kind = "mr"  BY <1>3, <2>2 DEF LeftBehind
    <2>3. CASE kind = "app_data"  BY <1>3, <2>3, DataAt
    <2>4. CASE kind \in RuleKinds  BY <1>3, <2>4, RuleAt
    <2>5. CASE kind \in QueueKinds  BY <1>3, <2>5, QueueAt
    <2>6. QED  BY <2>1, <2>2, <2>3, <2>4, <2>5
  <1>4. r \in Created \/ r \in {Partial(kind) : kind \in Matchers}  BY DEF Resources
  <1>5. QED  BY <1>1, <1>2, <1>3, <1>4, CreatedIs

(* What needs something is destroyed before it.                            *)
Destroyed == {"app_data", "rx_matcher"} \cup RuleKinds \cup QueueKinds \cup EndKinds

LEMMA KindDownOrder ==
    ASSUME NEW a, NEW c, <<a, c>> \in Uses, c \in Destroyed, c # "ibv"
    PROVE  \/ c = "rx_matcher" /\ a = "rx_rule"
           \/ /\ c = "process"
              /\ a \in {"app_data", "window", "stream"} \cup QueueKinds
           \/ /\ c \in QueueKinds
              /\ a = "rx_rule" \/ (a \in QueueKinds /\ queue_spot[a] < queue_spot[c])
  <1> USE DEF QueueKinds, queue_spot, Destroyed, RuleKinds, rule_spot, EndKinds, end_spot
  <1>1. CASE <<a, c>> \in References  BY <1>1 DEF References
  <1>2. CASE <<a, c>> \in {"rx_rule"} \X ReceiveMemory  BY <1>2 DEF ReceiveMemory
  <1>3. CASE <<a, c>> \in {"sq"} \X TransmitMemory  BY <1>3 DEF TransmitMemory
  <1>4. QED  BY <1>1, <1>2, <1>3 DEF Uses

(* What a thread owns, and what main does.                                 *)
LEMMA OwnerIs ==
    ASSUME NEW r \in Resources
    PROVE  /\ r[1] \in ThreadKinds => \E t \in Threads : r = <<r[1], t>>
           /\ r[1] \notin ThreadKinds => r = <<r[1], App>>
  <1>1. CASE r \in {Partial(kind) : kind \in Matchers}
    <2>1. r = <<"rx_partial", App>> \/ r = <<"tx_partial", App>>
      BY <1>1 DEF Matchers, Partial
    <2>2. QED  BY <2>1 DEF ThreadKinds, spot
  <1>2. ASSUME NEW kind \in AppMade, r = <<kind, App>>
        PROVE  r[1] \notin ThreadKinds /\ r = <<r[1], App>>
    BY <1>2 DEF AppMade, AppKinds, app_spot, ThreadKinds, spot
  <1>3. ASSUME NEW kind \in ThreadMade, NEW t \in Threads, r = <<kind, t>>
        PROVE  r[1] \in ThreadKinds /\ r = <<r[1], t>>
    BY <1>3 DEF ThreadMade
  <1>4. r \in Created \/ r \in {Partial(kind) : kind \in Matchers}  BY DEF Resources
  <1>5. QED  BY <1>1, <1>2, <1>3, <1>4, CreatedIs

LEMMA DownOrder ==
    ASSUME NEW k \in 1 .. Len(TearDown), NEW r \in Resources, Needs(r, TearDown[k]),
           TearDown[k] # <<"ibv", App>>
    PROVE  \E j \in 1 .. k - 1 : TearDown[j] = r
  <1> DEFINE a == r[1]
             c == TearDown[k][1]
  <1>1. <<a, c>> \in Uses /\ TearDown[k][2] \in {App, r[2]}  BY DEF Needs
  <1>2. App \notin Threads /\ N \in Nat  BY ThreadsAssumption DEF App, Threads
  <1>3. c \in Destroyed
    <2>1. \A t, kind : TearDown[k] = <<kind, t>> => c = kind  OBVIOUS
    <2>2. QED  BY <2>1, DownEntryOf DEF Destroyed
  <1>4. c # "ibv"
    <2>1. ASSUME c = "ibv" PROVE FALSE
      <3>1. \A t, kind : TearDown[k] = <<kind, t>> => kind = "ibv"  BY <2>1
      <3>2. "ibv" \notin RuleKinds \cup QueueKinds
        BY DEF RuleKinds, rule_spot, QueueKinds, queue_spot
      <3>3. \E kind \in EndKinds : TearDown[k] = <<kind, App>>  BY <3>1, <3>2, DownEntryOf
      <3>4. QED  BY <3>1, <3>3
    <2>2. QED  BY <2>1
  <1>5. CASE c = "rx_matcher" /\ a = "rx_rule"
    <2>1. k >= 4 * N + 1
      <3>1. \A t, kind : TearDown[k] = <<kind, t>> => kind = "rx_matcher"  BY <1>5
      <3>2. "rx_matcher" \notin RuleKinds \cup QueueKinds \cup EndKinds
        BY DEF RuleKinds, rule_spot, QueueKinds, queue_spot, EndKinds, end_spot
      <3>3. k \in 4 * N + 1 .. 4 * N + 2  BY <3>1, <3>2, DownEntryOf
      <3>4. QED  BY <1>2, <3>3
    <2>2. PICK t \in Threads : r = <<"rx_rule", t>>
      BY <1>5, OwnerIs DEF ThreadKinds, spot
    <2>3. "rx_rule" \in RuleKinds  BY DEF RuleKinds, rule_spot
    <2>4. PICK j \in N + 1 .. 4 * N : TearDown[j] = r  BY <2>2, <2>3, RuleAt
    <2>5. j \in 1 .. k - 1  BY <1>2, <2>1
    <2>6. QED  BY <2>4, <2>5
  <1>6. CASE c = "process" /\ a \in {"app_data", "window", "stream"} \cup QueueKinds
    <2>1. k = 20 * N + 5
      <3>1. \A t, kind : TearDown[k] = <<kind, t>> => kind = "process"  BY <1>6
      <3>2. "process" \notin RuleKinds \cup QueueKinds /\ end_spot["process"] = 3
        BY DEF RuleKinds, rule_spot, QueueKinds, queue_spot, end_spot
      <3>3. \E kind \in EndKinds :
                k = 20 * N + 2 + end_spot[kind] /\ TearDown[k] = <<kind, App>>
        BY <3>1, <3>2, DownEntryOf
      <3>4. k = 20 * N + 2 + end_spot["process"]  BY <3>1, <3>3
      <3>5. QED  BY <1>2, <3>2, <3>4
    <2>2. CASE a = "app_data"
      <3>1. PICK t \in Threads : r = <<"app_data", t>>
        BY <2>2, OwnerIs DEF ThreadKinds, spot
      <3>2. t + 1 \in 1 .. N /\ TearDown[t + 1] = r  BY <3>1, DataAt
      <3>3. t + 1 \in 1 .. k - 1  BY <1>2, <2>1, <3>2
      <3>4. QED  BY <3>2, <3>3
    <2>3. CASE a \in {"window", "stream"}
      <3>1. a \in EndKinds /\ a \notin ThreadKinds /\ end_spot[a] \in 1 .. 2
        BY <2>3 DEF EndKinds, end_spot, ThreadKinds, spot
      <3>2. r = <<a, App>>  BY <3>1, OwnerIs
      <3>3. TearDown[20 * N + 2 + end_spot[a]] = r  BY <3>1, <3>2, EndAt
      <3>4. 20 * N + 2 + end_spot[a] \in 1 .. k - 1  BY <1>2, <2>1, <3>1
      <3>5. QED  BY <3>3, <3>4
    <2>4. CASE a \in QueueKinds
      <3>1. a \in ThreadKinds  BY <2>4 DEF QueueKinds, queue_spot, ThreadKinds, spot
      <3>2. PICK t \in Threads : r = <<a, t>>  BY <3>1, OwnerIs
      <3>3. PICK j \in 4 * N + 3 .. 20 * N + 2 : TearDown[j] = r  BY <2>4, <3>2, QueueAt
      <3>4. j \in 1 .. k - 1  BY <1>2, <2>1, <3>3
      <3>5. QED  BY <3>3, <3>4
    <2>5. QED  BY <1>6, <2>2, <2>3, <2>4
  <1>7. CASE /\ c \in QueueKinds
             /\ a = "rx_rule" \/ (a \in QueueKinds /\ queue_spot[a] < queue_spot[c])
    <2>1. PICK t \in Threads :
              k = 4 * N + 2 + 16 * t + queue_spot[c] /\ TearDown[k] = <<c, t>>
      <3>1. \A t, kind : TearDown[k] = <<kind, t>> => kind = c  OBVIOUS
      <3>2. QueueKinds \cap (RuleKinds \cup EndKinds \cup {"app_data", "rx_matcher"}) = {}
        BY DEF RuleKinds, rule_spot, QueueKinds, queue_spot, EndKinds, end_spot
      <3>3. \E t \in Threads, kind \in QueueKinds :
                k = 4 * N + 2 + 16 * t + queue_spot[kind] /\ TearDown[k] = <<kind, t>>
        BY <1>7, <3>1, <3>2, DownEntryOf
      <3>4. QED  BY <3>1, <3>3
    <2>2. r[2] = t  BY <1>1, <1>2, <2>1
    <2>3. a \in ThreadKinds
      BY <1>7 DEF QueueKinds, queue_spot, ThreadKinds, spot
    <2>4. r = <<a, t>>  BY <2>2, <2>3, OwnerIs
    <2>5. t \in Nat /\ queue_spot[c] \in 1 .. 16
      BY <1>2, <1>7, QueueSpots DEF Threads
    <2>6. CASE a = "rx_rule"
      <3>1. "rx_rule" \in RuleKinds  BY DEF RuleKinds, rule_spot
      <3>2. PICK j \in N + 1 .. 4 * N : TearDown[j] = r  BY <2>4, <2>6, <3>1, RuleAt
      <3>3. j \in 1 .. k - 1
        <4> DEFINE i == queue_spot[c]
        <4>1. i \in 1 .. 16 /\ t \in Nat /\ N \in Nat /\ k = 4 * N + 2 + 16 * t + i
          BY <1>2, <2>1, <2>5
        <4> HIDE DEF i
        <4>2. QED  BY <4>1
      <3>4. QED  BY <3>2, <3>3
    <2>7. CASE a \in QueueKinds /\ queue_spot[a] < queue_spot[c]
      <3> DEFINE i == queue_spot[c]
                 m == queue_spot[a]
                 j == 4 * N + 2 + 16 * t + m
      <3>1. m \in 1 .. 16 /\ m < i /\ i \in 1 .. 16 /\ t \in Nat /\ N \in Nat
            /\ k = 4 * N + 2 + 16 * t + i
        BY <1>2, <2>1, <2>5, <2>7, QueueSpots
      <3>2. TearDown[j] = r  BY <2>4, <2>7, QueueAt
      <3> HIDE DEF i, m
      <3>3. j \in 1 .. k - 1  BY <3>1
      <3>4. QED  BY <3>2, <3>3
    <2>8. QED  BY <1>7, <2>6, <2>7
  <1>8. QED  BY <1>1, <1>3, <1>4, <1>5, <1>6, <1>7, KindDownOrder

LEMMA DownCreated ==
    ASSUME NEW k \in 1 .. Len(TearDown)
    PROVE  TearDown[k] \in Created
  <1>1. "app_data" \in ThreadMade /\ "rx_matcher" \in AppMade
        /\ RuleKinds \cup QueueKinds \subseteq ThreadMade /\ EndKinds \subseteq AppMade
    BY DEF ThreadMade, ThreadKinds, spot, AppMade, AppKinds, app_spot, Checks, RuleKinds,
           rule_spot, QueueKinds, queue_spot, EndKinds, end_spot
  <1>2. /\ \A kind \in ThreadMade, t \in Threads : <<kind, t>> \in Created
        /\ \A kind \in AppMade : <<kind, App>> \in Created
    BY CreatedIs
  <1>3. QED  BY <1>1, <1>2, DownEntryOf

-----------------------------------------------------------------------------
(* The invariant, action by action.                                        *)
LEMMA UsesIbv ==
    /\ \A a, c : <<a, c>> \in References => <<a, c>> \in Uses /\ a # "ibv"
    /\ \A a, c : <<a, c>> \in Uses => a # "ibv"
    /\ \A a : <<a, "ibv">> \in Uses => <<a, "ibv">> \in References
  BY DEF Uses, References, ReceiveMemory, TransmitMemory

(* What set-up creates finds what it needs.                                *)
LEMMA DueMeets ==
    ASSUME OrderIInv, phase = "setup", NEW s \in Resources, Needs(Due, s)
    PROVE  s \in Created /\ s \in live \cup failed
  <1>1. TypeInv /\ MadeInv  BY DEF OrderIInv, RefIInv
  <1>2. step \in 1 .. Len(Setup)  BY <1>1, DuePlace
  <1>3. s \in Created /\ \E j \in 1 .. step - 1 : Setup[j] = s
    BY <1>2, SetupOrder DEF Due
  <1>4. QED  BY <1>1, <1>3 DEF MadeInv

(* What is due is not there, and neither is anything after it.             *)
LEMMA DueNew ==
    ASSUME OrderIInv, phase = "setup"
    PROVE  /\ Due \notin live \cup failed
           /\ \A k \in step + 1 .. Len(Setup) : Setup[k] # Due
  <1>1. TypeInv /\ MadeInv  BY DEF OrderIInv, RefIInv
  <1>2. step \in 1 .. Len(Setup) /\ Len(Setup) \in Nat  BY <1>1, DuePlace
  <1>3. step \in step .. Len(Setup)  BY <1>2
  <1>4. \A k \in step + 1 .. Len(Setup) : k \in 1 .. Len(Setup) /\ k # step  BY <1>2
  <1>5. QED  BY <1>1, <1>2, <1>3, <1>4, SetupOnce DEF MadeInv, Due

(* What a half-created matcher refers to.                                  *)
LEMMA PartialMeets ==
    ASSUME OrderIInv, phase = "setup", Kind \in Matchers, NEW s \in Resources,
           Needs(Partial(Kind), s)
    PROVE  s \in Created /\ s \in live \cup failed
  <1>1. <<Partial(Kind)[1], s[1]>> \in Uses /\ s[2] = App /\ Partial(Kind)[1] \in Remains
    BY DEF Needs, Partial, Remains
  <1>2. s[1] = "ibv"
    BY <1>1 DEF Uses, References, ReceiveMemory, TransmitMemory, Remains
  <1>3. <<Kind, "ibv">> \in Uses  BY DEF Uses, References, Matchers
  <1>4. Needs(Due, s)  BY <1>1, <1>2, <1>3 DEF Needs, Kind
  <1>5. QED  BY <1>4, DueMeets

(* A half-created matcher is not among the entries of the set-up.          *)
LEMMA PartialNew ==
    ASSUME NEW kind \in Matchers
    PROVE  /\ \A k \in 1 .. Len(Setup) : Setup[k] # Partial(kind)
           /\ Partial(kind) \notin Created
  <1>1. Partial(kind)[1] \notin Names  BY DEF Matchers, Partial, Names
  <1>2. \A k \in 1 .. Len(Setup) : Setup[k][1] \in Names
    <2>1. \A k \in 1 .. Len(Setup) : Setup[k] \in Names \X Int  BY SetupPlaces, ElementOfSeq
    <2>2. QED  BY <2>1
  <1>3. QED  BY <1>1, <1>2 DEF Created

LEMMA OrderInit == Init => OrderIInv
  <1> SUFFICES ASSUME Init PROVE OrderIInv  OBVIOUS
  <1>1. TypeInv  BY InitType
  <1>2. MadeInv /\ ValidInv /\ GoneInv /\ ReferencesRespected /\ CleanUpComplete
    BY DEF Init, MadeInv, ValidInv, GoneInv, ReferencesRespected, CleanUpComplete
  <1>3. NeedsInv  BY DEF Init, NeedsInv
  <1>4. QED  BY <1>1, <1>2, <1>3 DEF OrderIInv, RefIInv

LEMMA OrderCreate == OrderIInv /\ Create => OrderIInv'
  <1> SUFFICES ASSUME OrderIInv, Create PROVE OrderIInv'  OBVIOUS
  <1>1. /\ TypeInv /\ MadeInv /\ ValidInv /\ GoneInv /\ ReferencesRespected /\ NeedsInv
        /\ phase = "setup"
    BY DEF OrderIInv, RefIInv, Create
  <1>2. step \in 1 .. Len(Setup) /\ Len(Setup) \in Nat  BY <1>1, DuePlace
  <1>3. /\ live \subseteq live' /\ live' \subseteq live \cup {Due} /\ failed' = failed
        /\ Kind \notin Checks => Due \in live' /\ Due \in Created
        /\ refused' = refused
        /\ \/ phase' = "setup" /\ step' = step + 1
           \/ phase' = "running" /\ step' = 1
    BY <1>1, DuePlace DEF Create, Advance
  <1>4. TypeInv'  BY <1>1, CreateType
  <1>5. MadeInv'
    <2> SUFFICES ASSUME phase' = "setup"
                 PROVE  /\ \A k \in 1 .. step' - 1 :
                               Setup[k] \in Created => Setup[k] \in live' \cup failed'
                        /\ \A k \in step' .. Len(Setup) : Setup[k] \notin live' \cup failed'
      BY DEF MadeInv, Created
    <2>1. step' = step + 1 /\ step' - 1 = step  BY <1>2, <1>3
    <2>2. ASSUME NEW k \in 1 .. step, Setup[k] \in Created
          PROVE  Setup[k] \in live' \cup failed'
      <3>1. CASE k = step  BY <1>3, <2>2, <3>1 DEF Created, Due, Kind
      <3>2. CASE k # step
        <4>1. k \in 1 .. step - 1  BY <1>2, <3>2
        <4>2. QED  BY <1>1, <1>3, <2>2, <4>1 DEF MadeInv
      <3>3. QED  BY <3>1, <3>2
    <2>3. ASSUME NEW k \in step + 1 .. Len(Setup) PROVE Setup[k] \notin live' \cup failed'
      <3>1. k \in step .. Len(Setup)  BY <1>2
      <3>2. Setup[k] \notin live \cup failed  BY <1>1, <3>1 DEF MadeInv
      <3>3. Setup[k] # Due  BY <1>1, DueNew
      <3>4. QED  BY <1>3, <3>2, <3>3
    <2>4. QED  BY <2>1, <2>2, <2>3
  <1>6. ValidInv'
    <2>1. ptr' = IF Kind \in Checks THEN ptr ELSE [ptr EXCEPT ![Due] = "valid"]
      BY DEF Create
    <2>2. Kind \in Checks => live' = live  BY DEF Create
    <2>3. QED  BY <1>1, <1>3, <2>1, <2>2 DEF ValidInv, TypeInv, Created
  <1>7. GoneInv' /\ ReferencesRespected' /\ CleanUpComplete'
    BY <1>1, <1>3 DEF GoneInv, ReferencesRespected, CleanUpComplete
  <1>8. NeedsInv'
    <2> SUFFICES ASSUME NEW r \in live', NEW s \in Resources, Needs(r, s)
                 PROVE  s \in live' \cup failed'
      BY DEF NeedsInv, Needs
    <2>1. CASE r \in live  BY <1>1, <1>3, <2>1 DEF NeedsInv
    <2>2. CASE r = Due  BY <1>1, <1>3, <2>2, DueMeets
    <2>3. QED  BY <1>3, <2>1, <2>2
  <1>9. QED  BY <1>4, <1>5, <1>6, <1>7, <1>8 DEF OrderIInv, RefIInv

LEMMA OrderFail == OrderIInv /\ Fail => OrderIInv'
  <1> SUFFICES ASSUME OrderIInv, Fail PROVE OrderIInv'  OBVIOUS
  <1>1. /\ TypeInv /\ MadeInv /\ ValidInv /\ GoneInv /\ ReferencesRespected /\ NeedsInv
        /\ phase = "setup"
    BY DEF OrderIInv, RefIInv, Fail
  <1>2. step \in 1 .. Len(Setup) /\ Len(Setup) \in Nat  BY <1>1, DuePlace
  <1>3. failed' = failed \cup {Due} /\ refused' = refused  BY DEF Fail
  <1>4. PICK rest \in IF Kind \in Matchers THEN {{}, {Partial(Kind)}} ELSE {{}} :
            live' = live \cup rest
    BY DEF Fail
  <1>5. \/ phase' = "setup" /\ step' = step + 1
        \/ phase' = "running" /\ step' = 1
        \/ phase' = "cleanup" /\ step' = 1
        \/ phase' = "exited" /\ Kind \in Returning
        \/ phase' = "crashed"
    BY <1>1 DEF Fail, Advance
  <1>6. TypeInv'  BY <1>1, FailType
  <1>7. /\ \A r \in rest : Kind \in Matchers /\ r = Partial(Kind) /\ r \notin Created
        /\ \A k \in 1 .. Len(Setup) : Setup[k] \notin rest
    BY <1>4, PartialNew
  <1>8. MadeInv'
    <2> SUFFICES ASSUME phase' = "setup"
                 PROVE  /\ \A k \in 1 .. step' - 1 :
                               Setup[k] \in Created => Setup[k] \in live' \cup failed'
                        /\ \A k \in step' .. Len(Setup) : Setup[k] \notin live' \cup failed'
      BY DEF MadeInv, Created
    <2>1. step' = step + 1 /\ step' - 1 = step  BY <1>2, <1>5
    <2>2. ASSUME NEW k \in 1 .. step, Setup[k] \in Created
          PROVE  Setup[k] \in live' \cup failed'
      <3>1. CASE k = step  BY <1>3, <3>1 DEF Due
      <3>2. CASE k # step
        <4>1. k \in 1 .. step - 1  BY <1>2, <3>2
        <4>2. QED  BY <1>1, <1>3, <1>4, <2>2, <4>1 DEF MadeInv
      <3>3. QED  BY <3>1, <3>2
    <2>3. ASSUME NEW k \in step + 1 .. Len(Setup) PROVE Setup[k] \notin live' \cup failed'
      <3>1. k \in step .. Len(Setup) /\ k \in 1 .. Len(Setup)  BY <1>2
      <3>2. Setup[k] \notin live \cup failed  BY <1>1, <3>1 DEF MadeInv
      <3>3. Setup[k] # Due /\ Setup[k] \notin rest  BY <1>1, <1>7, <3>1, DueNew
      <3>4. QED  BY <1>3, <1>4, <3>2, <3>3
    <2>4. QED  BY <2>1, <2>2, <2>3
  <1>9. ValidInv'
    <2>1. Due \notin live  BY <1>1, DueNew
    <2>2. ptr' = ptr \/ \E left : ptr' = [ptr EXCEPT ![Due] = left]  BY DEF Fail
    <2>3. ASSUME NEW r \in Created, r \in live' PROVE ptr'[r] = "valid"
      <3>1. r \in live  BY <1>4, <1>7, <2>3
      <3>2. r # Due /\ ptr[r] = "valid"  BY <1>1, <2>1, <3>1 DEF ValidInv
      <3>3. QED  BY <1>1, <2>2, <3>2 DEF TypeInv
    <2>4. QED  BY <2>3 DEF ValidInv, Created
  <1>10. GoneInv' /\ ReferencesRespected'
    <2>1. phase' = "cleanup" => \A k \in 1 .. step' - 1 : FALSE  BY <1>5
    <2>2. QED  BY <1>1, <1>3, <1>5, <2>1 DEF GoneInv, ReferencesRespected
  <1>11. CleanUpComplete'
    <2>1. phase' = "exited" => Kind \in FailedKinds' \cap Returning
      BY <1>3, <1>5 DEF FailedKinds, Kind
    <2>2. QED  BY <2>1 DEF CleanUpComplete
  <1>12. NeedsInv'
    <2> SUFFICES ASSUME NEW r \in live', NEW s \in Resources, Needs(r, s)
                 PROVE  s \in live' \cup failed'
      BY DEF NeedsInv, Needs
    <2>1. CASE r \in live  BY <1>1, <1>3, <1>4, <2>1 DEF NeedsInv
    <2>2. CASE r \in rest  BY <1>1, <1>3, <1>4, <1>7, <2>2, PartialMeets
    <2>3. QED  BY <1>4, <2>1, <2>2
  <1>13. QED  BY <1>6, <1>8, <1>9, <1>10, <1>11, <1>12 DEF OrderIInv, RefIInv

(* What is destroyed, or passed over, is not needed by what exists.        *)
LEMMA VictimFree ==
    ASSUME OrderIInv, phase = "cleanup", NEW r \in live, Needs(r, Victim)
    PROVE  Victim = <<"ibv", App>> /\ Refers(r, Victim)
  <1>1. TypeInv /\ GoneInv  BY DEF OrderIInv, RefIInv
  <1>2. step \in 1 .. Len(TearDown) /\ r \in Resources  BY <1>1 DEF TypeInv
  <1>3. <<r[1], Victim[1]>> \in Uses  BY DEF Needs
  <1>4. Victim = <<"ibv", App>>
    <2>1. SUFFICES ASSUME Victim # <<"ibv", App>> PROVE FALSE  OBVIOUS
    <2>2. PICK j \in 1 .. step - 1 : TearDown[j] = r  BY <1>2, <2>1, DownOrder DEF Victim
    <2>3. r = <<"ibv", App>>  BY <1>1, <2>2 DEF GoneInv
    <2>4. QED  BY <1>3, <2>3, UsesIbv
  <1>5. Victim[1] = "ibv"  BY <1>4
  <1>6. QED  BY <1>3, <1>4, <1>5, UsesIbv DEF Needs, Refers

(* An entry of the clean-up is passed.                                     *)
LEMMA CleanUpOn ==
    ASSUME OrderIInv, phase = "cleanup", AdvanceCleanup, live' \subseteq live,
           failed' = failed, Victim \in live' => Victim = <<"ibv", App>>
    PROVE  MadeInv' /\ GoneInv' /\ CleanUpComplete'
  <1>1. TypeInv /\ GoneInv  BY DEF OrderIInv, RefIInv
  <1>2. step \in 1 .. Len(TearDown) /\ Len(TearDown) \in Nat
    BY <1>1, TearDownLength DEF TypeInv
  <1>3. \/ phase' = "cleanup" /\ step' = step + 1
        \/ phase' = "exited" /\ step = Len(TearDown)
    BY DEF AdvanceCleanup
  <1>4. ASSUME NEW k \in 1 .. step, TearDown[k] \in live' PROVE TearDown[k] = <<"ibv", App>>
    <2>1. CASE k = step  BY <1>4, <2>1 DEF Victim
    <2>2. CASE k # step
      <3>1. k \in 1 .. step - 1  BY <1>2, <2>2
      <3>2. QED  BY <1>1, <1>4, <3>1 DEF GoneInv
    <2>3. QED  BY <2>1, <2>2
  <1>5. MadeInv'  BY <1>3 DEF MadeInv
  <1>6. GoneInv'
    <2>1. phase' = "cleanup" => step' - 1 = step  BY <1>2, <1>3
    <2>2. QED  BY <1>3, <1>4, <2>1 DEF GoneInv
  <1>7. CleanUpComplete'
    <2> SUFFICES ASSUME phase' = "exited", NEW r \in live' PROVE r \in LeftBehind
      BY DEF CleanUpComplete, LeftBehind
    <2>1. r \in Resources /\ step = Len(TearDown)  BY <1>1, <1>3 DEF TypeInv
    <2>2. CASE \E k \in 1 .. Len(TearDown) : TearDown[k] = r
      BY <1>4, <2>1, <2>2 DEF LeftBehind
    <2>3. QED  BY <2>1, <2>2, TearDownCovers
  <1>8. QED  BY <1>5, <1>6, <1>7

LEMMA OrderCleanUp ==
    OrderIInv /\ (Crash \/ Enter \/ Skip \/ Destroy \/ DestroyInvalid) => OrderIInv'
  <1> SUFFICES ASSUME OrderIInv, Crash \/ Enter \/ Skip \/ Destroy \/ DestroyInvalid
               PROVE  OrderIInv'
    OBVIOUS
  <1>1. TypeInv /\ MadeInv /\ ValidInv /\ GoneInv /\ ReferencesRespected /\ NeedsInv
    BY DEF OrderIInv, RefIInv
  <1>2. TypeInv'  BY <1>1, CleanUpType
  <1>3. phase = "cleanup" => Victim \in Created
    <2>1. phase = "cleanup" => step \in 1 .. Len(TearDown)  BY <1>1 DEF TypeInv
    <2>2. QED  BY <2>1, DownCreated DEF Victim
  <1>4. CASE Crash \/ Enter
    <2>1. /\ live' = live /\ ptr' = ptr /\ failed' = failed /\ refused' = refused
          /\ \/ phase' = "crashed"
             \/ phase = "running" /\ phase' = "cleanup" /\ step' = step
      BY <1>4 DEF Crash, Enter
    <2>2. ValidInv' /\ NeedsInv' /\ ReferencesRespected'
      BY <1>1, <2>1 DEF ValidInv, NeedsInv, ReferencesRespected
    <2>3. MadeInv' /\ CleanUpComplete'  BY <2>1 DEF MadeInv, CleanUpComplete
    <2>4. GoneInv'
      <3>1. phase' = "cleanup" => step' = 1  BY <1>1, <2>1 DEF GoneInv
      <3>2. phase' = "cleanup" => \A k \in 1 .. step' - 1 : FALSE  BY <3>1
      <3>3. QED  BY <2>1, <3>2 DEF GoneInv
    <2>5. QED  BY <1>2, <2>2, <2>3, <2>4 DEF OrderIInv, RefIInv
  <1>5. CASE Skip \/ DestroyInvalid
    <2>1. /\ live' = live /\ ptr' = ptr /\ failed' = failed /\ refused' = refused
          /\ phase = "cleanup" /\ ptr[Victim] # "valid"
          /\ AdvanceCleanup \/ phase' = "crashed"
      BY <1>5 DEF Skip, DestroyInvalid
    <2>2. ValidInv' /\ NeedsInv' /\ ReferencesRespected'
      BY <1>1, <2>1 DEF ValidInv, NeedsInv, ReferencesRespected
    <2>3. Victim \notin live  BY <1>1, <1>3, <2>1 DEF ValidInv
    <2>4. MadeInv' /\ GoneInv' /\ CleanUpComplete'
      <3>1. CASE AdvanceCleanup  BY <2>1, <2>3, <3>1, CleanUpOn
      <3>2. CASE phase' = "crashed"  BY <3>2 DEF MadeInv, GoneInv, CleanUpComplete
      <3>3. QED  BY <2>1, <3>1, <3>2
    <2>5. QED  BY <1>2, <2>2, <2>4 DEF OrderIInv, RefIInv
  <1>6. CASE Destroy
    <2>1. /\ phase = "cleanup" /\ AdvanceCleanup /\ failed' = failed
          /\ refused' = IF Referenced THEN refused \cup {Victim} ELSE refused
          /\ \/ Referenced /\ Victim[1] \notin Memory /\ UNCHANGED <<live, ptr>>
             \/ /\ ~(Referenced /\ Victim[1] \notin Memory) /\ live' = live \ {Victim}
                /\ ptr' = [ptr EXCEPT ![Victim] = "stale"]
      BY <1>6 DEF Destroy
    <2>2. Referenced => Victim = <<"ibv", App>>
      <3>1. \A r \in live : Refers(r, Victim) => Needs(r, Victim)
        BY UsesIbv DEF Refers, Needs
      <3>2. QED  BY <2>1, <3>1, VictimFree DEF Referenced
    <2>3. ReferencesRespected'  BY <1>1, <2>1, <2>2 DEF ReferencesRespected
    <2>4. MadeInv' /\ GoneInv' /\ CleanUpComplete'
      <3>1. live' \subseteq live /\ (Victim \in live' => Victim = <<"ibv", App>>)
        BY <2>1, <2>2
      <3>2. QED  BY <2>1, <3>1, CleanUpOn
    <2>5. ValidInv'
      <3>1. \A r \in Created \cap live' : ptr'[r] = "valid"
        BY <1>1, <2>1 DEF ValidInv, TypeInv
      <3>2. QED  BY <3>1 DEF ValidInv, Created
    <2>6. NeedsInv'
      <3> SUFFICES ASSUME NEW r \in live', NEW s \in Resources, Needs(r, s)
                   PROVE  s \in live' \cup failed'
        BY DEF NeedsInv, Needs
      <3>1. r \in live /\ s \in live \cup failed  BY <1>1, <2>1 DEF NeedsInv
      <3>2. CASE s \in live /\ s = Victim
        <4>1. Victim = <<"ibv", App>> /\ Refers(r, Victim)  BY <2>1, <3>1, <3>2, VictimFree
        <4>2. Referenced /\ Victim[1] \notin Memory  BY <3>1, <4>1 DEF Referenced, Memory
        <4>3. QED  BY <2>1, <3>2, <4>2
      <3>3. CASE s \in failed \/ s # Victim  BY <2>1, <3>1, <3>3
      <3>4. QED  BY <3>1, <3>2, <3>3
    <2>7. QED  BY <1>2, <2>3, <2>4, <2>5, <2>6 DEF OrderIInv, RefIInv
  <1>7. QED  BY <1>4, <1>5, <1>6

LEMMA OrderStep == OrderIInv /\ [Next]_vars => OrderIInv'
  <1> SUFFICES ASSUME OrderIInv, [Next]_vars PROVE OrderIInv'  OBVIOUS
  <1>1. CASE Create  BY <1>1, OrderCreate
  <1>2. CASE Fail  BY <1>2, OrderFail
  <1>3. CASE Crash \/ Enter \/ Skip \/ Destroy \/ DestroyInvalid  BY <1>3, OrderCleanUp
  <1>4. CASE UNCHANGED vars
    <2>1. UNCHANGED <<phase, step, err, ptr, live, arg, failed, refused, wild>>
      BY <1>4 DEF vars
    <2>2. TypeInv /\ MadeInv /\ ValidInv /\ GoneInv /\ ReferencesRespected
          /\ CleanUpComplete /\ NeedsInv
      BY DEF OrderIInv, RefIInv
    <2>3. TypeInv'  BY <2>1, <2>2 DEF TypeInv
    <2>4. MadeInv' /\ ValidInv' /\ GoneInv'  BY <2>1, <2>2 DEF MadeInv, ValidInv, GoneInv
    <2>5. ReferencesRespected' /\ NeedsInv'  BY <2>1, <2>2 DEF ReferencesRespected, NeedsInv
    <2>6. CleanUpComplete'  BY <2>1, <2>2 DEF CleanUpComplete, FailedKinds
    <2>7. QED  BY <2>3, <2>4, <2>5, <2>6 DEF OrderIInv, RefIInv
  <1>5. QED  BY <1>1, <1>2, <1>3, <1>4 DEF Next

(* The order of main's set-up and clean-up, whichever of its calls fail:   *)
(* what set-up has passed exists or was lost, what exists is pointed to    *)
(* and has what it needs, and what clean-up has passed is gone.            *)
THEOREM OrderInvariance == Spec => []OrderIInv
  BY OrderInit, OrderStep, PTL DEF Spec

(* Main destroys nothing that is still referred to, but the device context. *)
THEOREM ReferencesSafe == Spec => []ReferencesRespected
  <1>1. OrderIInv => ReferencesRespected  BY DEF OrderIInv, RefIInv
  <1>2. QED  BY <1>1, OrderInvariance, PTL

(* A clean-up leaves only what main never destroys.                        *)
THEOREM CleanUpSafe == Spec => []CleanUpComplete
  <1>1. OrderIInv => CleanUpComplete  BY DEF OrderIInv, RefIInv
  <1>2. QED  BY <1>1, OrderInvariance, PTL

(* The host program next to the device is the host program.                *)
LEMMA HostOfDevice == DeviceSpec => Spec
  <1>1. DeviceInit => Init  BY DEF DeviceInit
  <1>2. [DeviceNext]_allVars => [Next]_vars
    <2> SUFFICES ASSUME [DeviceNext]_allVars PROVE [Next]_vars  OBVIOUS
    <2>1. CASE HostCreates  BY <2>1 DEF HostCreates, Next
    <2>2. CASE HostGoesOn  BY <2>2 DEF HostGoesOn, Next
    <2>3. ASSUME NEW t \in Threads,
                 NicReceive(t) \/ HandlerStarts(t) \/ HandlerStepsCq(t)
          PROVE  UNCHANGED vars
      BY <2>3 DEF NicReceive, HandlerStarts, HandlerStepsCq, HandlerStep
    <2>4. CASE UNCHANGED allVars  BY <2>4 DEF allVars
    <2>5. QED  BY <2>1, <2>2, <2>3, <2>4 DEF DeviceNext
  <1>3. QED  BY <1>1, <1>2, PTL DEF DeviceSpec, Spec

(* As long as the NIC may receive into a queue or transmit from it, all of *)
(* its memory exists, but for an allocation that failed unnoticed.         *)
THEOREM NicSafe == DeviceSpec => []NicTouchesLiveMemory
  <1>1. OrderIInv => NicTouchesLiveMemory
    <2> SUFFICES ASSUME OrderIInv, NEW t \in Threads
                 PROVE  /\ CanReceive(t)  => ReceiveMemory \X {t} \subseteq live \cup failed
                        /\ CanTransmit(t) => TransmitMemory \X {t} \subseteq live \cup failed
      BY DEF NicTouchesLiveMemory
    <2>1. NeedsInv  BY DEF OrderIInv
    <2>2. \A kind \in ReceiveMemory \cup TransmitMemory : <<kind, t>> \in Resources
      <3>1. ReceiveMemory \cup TransmitMemory \subseteq ThreadMade
        BY DEF ReceiveMemory, TransmitMemory, ThreadMade, ThreadKinds, spot, Checks
      <3>2. QED  BY <3>1, CreatedIs DEF Resources
    <2>3. ASSUME CanReceive(t), NEW kind \in ReceiveMemory
          PROVE  <<kind, t>> \in live \cup failed
      <3>1. Needs(<<"rx_rule", t>>, <<kind, t>>)  BY DEF Needs, Uses
      <3>2. QED  BY <2>1, <2>2, <2>3, <3>1 DEF NeedsInv, CanReceive
    <2>4. ASSUME CanTransmit(t), NEW kind \in TransmitMemory
          PROVE  <<kind, t>> \in live \cup failed
      <3>1. Needs(<<"sq", t>>, <<kind, t>>)  BY DEF Needs, Uses
      <3>2. QED  BY <2>1, <2>2, <2>4, <3>1 DEF NeedsInv, CanTransmit
    <2>5. QED  BY <2>3, <2>4
  <1>2. QED  BY <1>1, HostOfDevice, OrderInvariance, PTL

-----------------------------------------------------------------------------
(* Once set-up has passed a thread's RPC, and until clean-up begins, what  *)
(* the thread created before it exists, but for failures nobody notices.   *)
BeyondInit(t) ==
    phase = "running" \/ (phase = "setup" /\ 28 * t + 36 \in 1 .. step - 1)

LEMMA BeyondInitLive ==
    ASSUME TypeInv, PassedInv, NEW t \in Threads, BeyondInit(t),
           NEW kind \in ThreadMade \ (Ignored \cup Unchecked), spot[kind] < 27
    PROVE  <<kind, t>> \in live
  <1> DEFINE k == 28 * t + 9 + spot[kind]
  <1>1. /\ k \in 1 .. Len(Setup) /\ Setup[k] = <<kind, t>>
        /\ t \in Nat /\ spot[kind] \in 1 .. 28
    BY ThreadAt DEF ThreadMade
  <1>2. k < 28 * t + 36
    <2> DEFINE i == spot[kind]
    <2>1. i \in 1 .. 28 /\ i < 27 /\ t \in Nat  BY <1>1
    <2> HIDE DEF i
    <2>2. 28 * t + 9 + i < 28 * t + 36  BY <2>1
    <2>3. QED  BY <2>2 DEF i
  <1>3. Setup[k] \in Noticed
    <2>1. <<kind, t>> \in Created  BY CreatedIs
    <2>2. QED  BY <1>1, <2>1 DEF Noticed
  <1> HIDE DEF k
  <1>4. CASE phase = "running"  BY <1>1, <1>3, <1>4 DEF PassedInv
  <1>5. CASE phase = "setup" /\ 28 * t + 36 \in 1 .. step - 1
    <2>1. step \in 1 .. Len(Setup) /\ Len(Setup) \in Nat  BY <1>5, DuePlace
    <2>2. k \in 1 .. step - 1  BY <1>1, <1>2, <1>5, <2>1
    <2>3. QED  BY <1>1, <1>3, <1>5, <2>2 DEF PassedInv
  <1>6. QED  BY <1>4, <1>5 DEF BeyondInit

LEMMA UseBeyondInit ==
    ASSUME DeviceIInv, NEW t \in Threads, InUse(t)
    PROVE  BeyondInit(t) /\ Filled(t)
  <1>1. TypeInv /\ CtxInv /\ RanInv  BY DEF DeviceIInv, DeviceTypeInv
  <1>2. /\ 28 * t + 36 \in 1 .. 9 + 28 * N /\ Setup[28 * t + 36] = <<"thd_ctx_init", t>>
        /\ t \in Nat /\ N \in Nat
    BY InitPlace, ThreadsAssumption DEF Threads
  <1>3. CASE phase \in {"setup", "running"} /\ hpc[t] \in {"step", "spin", "fault"}
    <2>1. Filled(t) /\ arg[t] # "none"  BY <1>1, <1>3 DEF CtxInv, RanInv
    <2>2. ASSUME phase = "setup" PROVE 28 * t + 36 \in 1 .. step - 1
      <3>1. PICK k \in 1 .. step - 1 : Setup[k] = <<"run", t>>
        BY <1>1, <2>1, <2>2 DEF RanInv
      <3>2. step \in 1 .. Len(Setup) /\ Len(Setup) \in Nat  BY <1>1, <2>2, DuePlace
      <3>3. k \in 1 .. Len(Setup)  BY <3>2
      <3>4. k = 28 * t + 37  BY <3>1, <3>3, RunPlace
      <3>5. QED  BY <1>2, <3>2, <3>4
    <2>3. QED  BY <1>3, <2>1, <2>2 DEF BeyondInit
  <1>4. CASE phase = "setup" /\ Due = <<"first_pkt", t>>
    <2>1. step \in 1 .. Len(Setup) /\ Len(Setup) \in Nat  BY <1>1, <1>4, DuePlace
    <2>2. step > 9 + 28 * N  BY <1>4, <2>1, PacketPlace DEF Due
    <2>3. 28 * t + 36 \in 1 .. step - 1  BY <1>2, <2>1, <2>2
    <2>4. QED  BY <1>1, <1>2, <1>4, <2>3 DEF BeyondInit, CtxInv
  <1>5. QED  BY <1>3, <1>4 DEF InUse

(* Whatever the handler of a thread or its first packet uses of the        *)
(* thread's own was created before, and its context filled, but for what   *)
(* main does not check.                                                    *)
THEOREM PreparedSafe == DeviceSpec => []PreparedBeforeUse
  <1>1. DeviceIInv => PreparedBeforeUse
    <2> SUFFICES ASSUME DeviceIInv, NEW t \in Threads, InUse(t), NEW kind \in Prepared
                 PROVE  <<kind, t>> \in live /\ Filled(t)
      BY UseBeyondInit DEF PreparedBeforeUse
    <2>1. TypeInv /\ PassedInv  BY DEF DeviceIInv, DeviceTypeInv
    <2>2. kind \in ThreadMade \ (Ignored \cup Unchecked) /\ spot[kind] < 27
      BY DEF Prepared, ReceiveMemory, TransmitMemory, ThreadMade, ThreadKinds, spot,
             Checks, Ignored, Unchecked, Matchers
    <2>3. QED  BY <2>1, <2>2, UseBeyondInit, BeyondInitLive
  <1>2. QED  BY <1>1, DeviceInvariance, PTL

(* Before the clean-up a handler that steps the CQ of a filled context,    *)
(* whichever thread's it is, finds its doorbell record.                    *)
THEOREM StepsLiveSafe == DeviceSpec => []StepsLiveCq
  <1>1. DeviceIInv => StepsLiveCq
    <2> SUFFICES ASSUME DeviceIInv, NEW t \in Threads,
                        Active(t), phase # "cleanup", hpc[t] = "step", idx[t] \in ctx
                 PROVE  <<"rq_cq_dbr", idx[t]>> \in live
      BY DEF StepsLiveCq
    <2>1. TypeInv /\ PassedInv /\ RanInv /\ DeviceTypeInv  BY DEF DeviceIInv, DeviceTypeInv
    <2> DEFINE u == idx[t]
    <2>2. u \in Threads /\ u \in ctx  BY <2>1 DEF DeviceTypeInv
    <2> HIDE DEF u
    <2>3. phase \in {"setup", "running"}  BY DEF Active, Running
    <2>4. ASSUME phase = "setup" PROVE 28 * u + 36 \in 1 .. step - 1
      <3>1. PICK k \in 1 .. step - 1 : Setup[k] = <<"thd_ctx_init", u>>
        BY <2>1, <2>2, <2>4 DEF RanInv
      <3>2. step \in 1 .. Len(Setup) /\ Len(Setup) \in Nat  BY <2>1, <2>4, DuePlace
      <3>3. k \in 1 .. Len(Setup)  BY <3>2
      <3>4. /\ 28 * u + 36 \in 1 .. 9 + 28 * N /\ N \in Nat
            /\ Setup[28 * u + 36] = <<"thd_ctx_init", u>>
        BY <2>2, InitPlace, ThreadsAssumption
      <3>5. 28 * u + 36 \in 1 .. Len(Setup)  BY <3>4, SetupPlaces
      <3>6. k = 28 * u + 36  BY <3>1, <3>3, <3>4, <3>5, SetupOnce
      <3>7. QED  BY <3>1, <3>6
    <2>5. BeyondInit(u)  BY <2>3, <2>4 DEF BeyondInit
    <2>6. "rq_cq_dbr" \in ThreadMade \ (Ignored \cup Unchecked) /\ spot["rq_cq_dbr"] < 27
      BY DEF ThreadMade, ThreadKinds, spot, Checks, Ignored, Unchecked, Matchers
    <2>7. <<"rq_cq_dbr", u>> \in live  BY <2>1, <2>2, <2>5, <2>6, BeyondInitLive
    <2>8. QED  BY <2>7 DEF u
  <1>2. QED  BY <1>1, DeviceInvariance, PTL

-----------------------------------------------------------------------------
(* Each call of main acquires or releases one resource as the reference    *)
(* system allows, loses one, or is not seen by it.                         *)
LEMMA StepRefines == OrderIInv /\ [Next]_vars => [RefSystem!Next]_<<live, failed \cap Created>>
  <1> DEFINE lost == failed \cap Created
  <1> SUFFICES ASSUME OrderIInv, [Next]_vars
               PROVE  RefSystem!Next \/ (live' = live /\ lost' = lost)
    BY DEF Created
  <1>1. TypeInv /\ live \subseteq Resources /\ Created' = Created
    BY DEF OrderIInv, TypeInv, Created
  <1>2. \A r \in Resources : \A s : Refers(r, s) => Needs(r, s)
    BY UsesIbv DEF Refers, Needs
  <1>3. phase = "setup" /\ Kind \notin Checks =>
            /\ Due \in Resources /\ Due \in Created /\ Due \notin live \cup lost
            /\ RefersTo[Due] \subseteq live \cup lost
    <2> SUFFICES ASSUME phase = "setup", Kind \notin Checks
                 PROVE  /\ Due \in Resources /\ Due \in Created /\ Due \notin live \cup lost
                        /\ RefersTo[Due] \subseteq live \cup lost
      OBVIOUS
    <2>1. Due \in Created /\ Due \in Resources  BY <1>1, DuePlace DEF Resources
    <2>2. \A s \in RefersTo[Due] : s \in Resources /\ Refers(Due, s)  BY <2>1 DEF RefersTo
    <2>3. QED  BY <1>2, <2>1, <2>2, DueMeets, DueNew
  <1>4. CASE Create
    <2>1. phase = "setup" /\ lost' = lost  BY <1>1, <1>4 DEF Create
    <2>2. CASE Kind \in Checks  BY <1>4, <2>1, <2>2 DEF Create
    <2>3. CASE Kind \notin Checks
      <3>1. live' = live \cup {Due}  BY <1>4, <2>3 DEF Create
      <3>2. RefSystem!Acquire(Due)
        BY <1>3, <2>1, <2>3, <3>1 DEF RefSystem!Acquire, RefSystem!Met
      <3>3. QED  BY <1>3, <2>1, <2>3, <3>2 DEF RefSystem!Next
    <2>4. QED  BY <2>2, <2>3
  <1>5. CASE Fail
    <2>1. phase = "setup" /\ failed' = failed \cup {Due}  BY <1>5 DEF Fail
    <2>2. PICK rest \in IF Kind \in Matchers THEN {{}, {Partial(Kind)}} ELSE {{}} :
              live' = live \cup rest
      BY <1>5 DEF Fail
    <2>3. CASE Kind \in Checks
      <3>1. Due \notin Created  BY <2>3 DEF Created, Kind
      <3>2. rest = {}  BY <2>2, <2>3 DEF Matchers, Checks
      <3>3. QED  BY <1>1, <2>1, <2>2, <3>1, <3>2
    <2>4. CASE Kind \notin Checks
      <3>1. lost' = lost \cup {Due}  BY <1>1, <1>3, <2>1, <2>4
      <3>2. CASE rest = {}
        <4>1. RefSystem!FallShort(Due)
          BY <1>3, <2>1, <2>2, <2>4, <3>1, <3>2 DEF RefSystem!FallShort
        <4>2. QED  BY <1>3, <2>1, <2>4, <4>1 DEF RefSystem!Next
      <3>3. CASE Kind \in Matchers /\ rest = {Partial(Kind)}
        <4>1. Partial(Kind) \in Resources  BY <3>3 DEF Resources
        <4>2. \A s \in RefersTo[Partial(Kind)] : s \in Resources /\ Refers(Partial(Kind), s)
          BY <4>1 DEF RefersTo
        <4>3. RefersTo[Partial(Kind)] \subseteq live \cup lost
          BY <1>2, <2>1, <3>3, <4>1, <4>2, PartialMeets
        <4>4. RefSystem!FallShort(Due)
          BY <1>3, <2>1, <2>2, <2>4, <3>1, <3>3, <4>1, <4>3
             DEF RefSystem!FallShort, RefSystem!Met
        <4>5. QED  BY <1>3, <2>1, <2>4, <4>4 DEF RefSystem!Next
      <3>4. QED  BY <2>2, <3>2, <3>3
    <2>5. QED  BY <2>3, <2>4
  <1>6. CASE Crash \/ Enter \/ Skip \/ DestroyInvalid \/ UNCHANGED vars
    BY <1>1, <1>6 DEF Crash, Enter, Skip, DestroyInvalid, vars
  <1>7. CASE Destroy
    <2>1. phase = "cleanup" /\ lost' = lost  BY <1>1, <1>7 DEF Destroy
    <2>2. CASE live' = live  BY <2>1, <2>2
    <2>3. CASE live' # live
      <3>1. /\ ~(Referenced /\ Victim[1] \notin Memory)
            /\ live' = live \ {Victim} /\ Victim \in live
        BY <1>7, <2>3 DEF Destroy
      <3>2. ASSUME NEW r \in live PROVE Victim \notin RefersTo[r]
        <4>1. SUFFICES ASSUME Victim \in RefersTo[r] PROVE FALSE  OBVIOUS
        <4>2. Refers(r, Victim) /\ Needs(r, Victim)  BY <1>1, <1>2, <4>1 DEF RefersTo
        <4>3. Victim = <<"ibv", App>>  BY <2>1, <4>2, VictimFree
        <4>4. Referenced /\ Victim[1] \notin Memory  BY <4>2, <4>3 DEF Referenced, Memory
        <4>5. QED  BY <3>1, <4>4
      <3>3. RefSystem!Release(Victim)
        BY <2>1, <3>1, <3>2 DEF RefSystem!Release, RefSystem!Free
      <3>4. QED  BY <1>1, <3>1, <3>3 DEF RefSystem!Next
    <2>4. QED  BY <2>2, <2>3
  <1>8. QED  BY <1>4, <1>5, <1>6, <1>7 DEF Next

(* For any number of threads and whichever calls fail, main is a           *)
(* well-behaved client of the reference system.                            *)
THEOREM RefinesReferences == Spec => ImplementsReferences
  <1>1. Init => RefSystem!Init  BY DEF Init, RefSystem!Init
  <1>2. QED
    BY <1>1, StepRefines, OrderInvariance, PTL DEF Spec, ImplementsReferences, RefSystem!Spec
=============================================================================
