--------------------------- MODULE HostDeviceProofs ---------------------------
(***************************************************************************)
(* What holds of the host program and of the device next to it for every   *)
(* number of threads and any failures.                                     *)
(***************************************************************************)
EXTENDS HostDevice, SequenceTheorems, TLAPS

(* The program as a sequence: every list in it is one of these names.      *)
Names == {"malloc", "root", "ibv", "pd", "process", "window", "stream", "rx_matcher",
          "tx_matcher", "rq_cq_dbr", "rq_cq_ring", "rq_cq", "sq_cq_dbr", "sq_cq_ring",
          "sq_cq", "rqd", "rqd_mkey", "rqd_mkey_id", "rq_ring", "rq_dbr", "sqd", "sqd_mkey", "sq_ring",
          "init_dpa_rq_ring", "rq", "init_rq_dbr", "sq", "handler", "mmap", "mr",
          "rq_tir_obj", "rx_rule", "tx_rule", "tx_rule2", "app_data", "thd_ctx_init",
          "run", "first_pkt"}

LEMMA AppPart ==
    ASSUME NEW kinds \in Seq(Names)
    PROVE  ForApp(kinds) \in Seq(Names \X Int) /\ Len(ForApp(kinds)) = Len(kinds)
  BY DEF ForApp, App

LEMMA ThreadPart ==
    ASSUME NEW kinds \in Seq(Names), Len(kinds) > 0
    PROVE  /\ ForThreads(kinds) \in Seq(Names \X Int)
           /\ Len(ForThreads(kinds)) = N * Len(kinds)
  <1> DEFINE n == Len(kinds)
  <1>1. n \in Nat \ {0} /\ N * n \in Nat  BY ThreadsAssumption
  <1>2. \A k \in 1 .. N * n : ((k - 1) % n) + 1 \in 1 .. n /\ (k - 1) \div n \in Int
    BY <1>1
  <1>3. \A k \in 1 .. N * n : kinds[((k - 1) % n) + 1] \in Names
    BY <1>2
  <1>4. QED  BY <1>1, <1>2, <1>3 DEF ForThreads

(* One list after the other.                                               *)
LEMMA Concat ==
    ASSUME NEW S, NEW s \in Seq(S), NEW u \in Seq(S)
    PROVE  /\ s \o u \in Seq(S) /\ Len(s \o u) = Len(s) + Len(u)
           /\ \A k \in 1 .. Len(s) : (s \o u)[k] = s[k] /\ s[k] \in S
           /\ \A k \in 1 .. Len(u) : (s \o u)[Len(s) + k] = u[k]
  OBVIOUS

LEMMA CreateQueues ==
    /\ create_app_rq \in Seq(Names) /\ Len(create_app_rq) = 11
    /\ create_app_sq \in Seq(Names) /\ Len(create_app_sq) = 7
  <1>1. /\ cq_mem_alloc("rq_cq_dbr", "rq_cq_ring") \in Seq(Names)
        /\ cq_mem_alloc("sq_cq_dbr", "sq_cq_ring") \in Seq(Names)
        /\ rq_mem_alloc \in Seq(Names) /\ sq_mem_alloc \in Seq(Names)
        /\ <<"rq_cq">> \in Seq(Names) /\ <<"sq_cq">> \in Seq(Names)
        /\ <<"init_dpa_rq_ring", "rq", "init_rq_dbr">> \in Seq(Names)
        /\ <<"sq">> \in Seq(Names)
    BY DEF cq_mem_alloc, rq_mem_alloc, sq_mem_alloc, Names
  <1>2. QED  BY <1>1 DEF create_app_rq, create_app_sq, cq_mem_alloc, rq_mem_alloc, sq_mem_alloc

(* A thread's part of the set-up ends with thd_ctx_init and run, and has   *)
(* no other of them.                                                       *)
Others == Names \ {"run", "first_pkt"}
front  == <<"handler", "mmap", "mr">> \o create_app_rq \o create_app_sq
after  == <<"rq_tir_obj", "rx_rule", "tx_rule", "tx_rule2", "app_data", "thd_ctx_init",
            "run">>

LEMMA FrontPart ==
    front \in Seq(Others) /\ Len(front) = 21
  <1>1. <<"handler", "mmap", "mr">> \in Seq(Others)
    BY DEF Names, Others
  <1>2. create_app_rq \in Seq(Others) /\ create_app_sq \in Seq(Others)
    <2>1. /\ cq_mem_alloc("rq_cq_dbr", "rq_cq_ring") \in Seq(Others)
          /\ cq_mem_alloc("sq_cq_dbr", "sq_cq_ring") \in Seq(Others)
          /\ rq_mem_alloc \in Seq(Others) /\ sq_mem_alloc \in Seq(Others)
          /\ <<"rq_cq">> \in Seq(Others) /\ <<"sq_cq">> \in Seq(Others)
          /\ <<"init_dpa_rq_ring", "rq", "init_rq_dbr">> \in Seq(Others)
          /\ <<"sq">> \in Seq(Others)
      BY DEF cq_mem_alloc, rq_mem_alloc, sq_mem_alloc, Names, Others
    <2>2. QED  BY <2>1 DEF create_app_rq, create_app_sq
  <1>3. Len(<<"handler", "mmap", "mr">>) = 3  OBVIOUS
  <1>4. /\ <<"handler", "mmap", "mr">> \o create_app_rq \in Seq(Others)
        /\ Len(<<"handler", "mmap", "mr">> \o create_app_rq) = 3 + Len(create_app_rq)
    BY <1>1, <1>2, <1>3, Concat
  <1>5. front \in Seq(Others) /\ Len(front) = 3 + Len(create_app_rq) + Len(create_app_sq)
    BY <1>2, <1>4, Concat DEF front
  <1>6. QED  BY <1>5, CreateQueues

LEMMA AfterPart ==
    /\ after \in Seq(Names) /\ Len(after) = 7 /\ after[6] = "thd_ctx_init"
    /\ \A m \in 1 .. 7 : (after[m] = "run" => m = 7) /\ after[m] # "first_pkt"
  BY DEF after, Names

LEMMA ThreadSetup ==
    /\ thread_setup \in Seq(Names) /\ Len(thread_setup) = 28
    /\ thread_setup[27] = "thd_ctx_init"
    /\ \A m \in 1 .. 28 : /\ thread_setup[m] = "run" => m = 28
                          /\ thread_setup[m] # "first_pkt"
  <1>1. thread_setup = front \o after  BY DEF thread_setup, front, after
  <1>2. front \in Seq(Names)
    <2>1. Others \subseteq Names  BY DEF Others
    <2>2. QED  BY <2>1, FrontPart
  <1>3. /\ Len(thread_setup) = 28 /\ thread_setup \in Seq(Names)
        /\ \A m \in 1 .. 21 : thread_setup[m] = front[m]
        /\ \A m \in 1 .. 7 : thread_setup[21 + m] = after[m]
    <2>1. /\ thread_setup \in Seq(Names) /\ Len(thread_setup) = Len(front) + Len(after)
          /\ \A m \in 1 .. Len(front) : thread_setup[m] = front[m]
          /\ \A m \in 1 .. Len(after) : thread_setup[Len(front) + m] = after[m]
      <3>1. after \in Seq(Names)  BY AfterPart
      <3>2. QED  BY <1>1, <1>2, <3>1, Concat
    <2>2. Len(front) = 21 /\ Len(after) = 7  BY FrontPart, AfterPart
    <2>3. QED  BY <2>1, <2>2
  <1>4. \A m \in 1 .. 21 : front[m] \in Others  BY FrontPart, ElementOfSeq
  <1>5. thread_setup[27] = "thd_ctx_init"
    <2>1. thread_setup[21 + 6] = after[6]  BY <1>3
    <2>2. QED  BY <2>1, AfterPart
  <1>6. ASSUME NEW m \in 1 .. 28
        PROVE  (thread_setup[m] = "run" => m = 28) /\ thread_setup[m] # "first_pkt"
    <2>1. CASE m \in 1 .. 21  BY <1>3, <1>4, <2>1 DEF Others
    <2>2. CASE m \in 22 .. 28
      <3>1. m - 21 \in 1 .. 7 /\ 21 + (m - 21) = m  BY <2>2
      <3>2. thread_setup[m] = after[m - 21]  BY <1>3, <3>1
      <3>3. QED  BY <3>1, <3>2, AfterPart
    <2>3. QED  BY <2>1, <2>2
  <1>7. QED  BY <1>3, <1>5, <1>6

(* The three parts of the set-up.                                          *)
of_app     == ForApp(app_setup)
of_threads == ForThreads(thread_setup)
of_packets == ForThreads(<<"first_pkt">>)

LEMMA AppEntries ==
    /\ of_app \in Seq(Names \X Int) /\ Len(of_app) = 9
    /\ \A k \in 1 .. 9 : of_app[k] = <<app_setup[k], App>>
  <1>1. app_setup \in Seq(Names) /\ Len(app_setup) = 9  BY DEF app_setup, Names
  <1>2. QED  BY <1>1, AppPart DEF ForApp, of_app

LEMMA ThreadEntries ==
    /\ of_threads \in Seq(Names \X Int) /\ Len(of_threads) = 28 * N
    /\ \A k \in 1 .. 28 * N :
           of_threads[k] = <<thread_setup[((k - 1) % 28) + 1], (k - 1) \div 28>>
  <1>1. thread_setup \in Seq(Names) /\ Len(thread_setup) > 0  BY ThreadSetup
  <1>2. of_threads \in Seq(Names \X Int) /\ Len(of_threads) = N * Len(thread_setup)
    BY <1>1, ThreadPart DEF of_threads
  <1>3. Len(thread_setup) = 28  BY ThreadSetup
  <1>4. N * 28 = 28 * N  BY ThreadsAssumption
  <1>5. QED  BY <1>2, <1>3, <1>4 DEF ForThreads, of_threads

LEMMA PacketEntries ==
    /\ of_packets \in Seq(Names \X Int) /\ Len(of_packets) = N
    /\ \A k \in 1 .. N : of_packets[k] = <<"first_pkt", k - 1>>
  <1>1. <<"first_pkt">> \in Seq(Names) /\ Len(<<"first_pkt">>) = 1  BY DEF Names
  <1>2. /\ of_packets \in Seq(Names \X Int)
        /\ Len(of_packets) = N * Len(<<"first_pkt">>)
    <2>1. Len(<<"first_pkt">>) > 0  BY <1>1
    <2> DEFINE kinds == <<"first_pkt">>
    <2>2. kinds \in Seq(Names) /\ Len(kinds) > 0 /\ of_packets = ForThreads(kinds)
      BY <1>1, <2>1 DEF of_packets
    <2> HIDE DEF kinds
    <2>3. /\ of_packets \in Seq(Names \X Int)
          /\ Len(of_packets) = N * Len(kinds)
      BY <2>2, ThreadPart
    <2>4. QED  BY <2>3 DEF kinds
  <1>3. N * 1 = N  BY ThreadsAssumption
  <1>4. ASSUME NEW k \in 1 .. N PROVE of_packets[k] = <<"first_pkt", k - 1>>
    <2>1. (k - 1) % 1 = 0 /\ (k - 1) \div 1 = k - 1  OBVIOUS
    <2>2. QED  BY <1>1, <1>3, <2>1 DEF ForThreads, of_packets
  <1>5. QED  BY <1>1, <1>2, <1>3, <1>4

(* The set-up, place by place.                                             *)
LEMMA SetupPlaces ==
    /\ Setup \in Seq(Names \X Int) /\ Len(Setup) = 9 + 29 * N
    /\ \A k \in 1 .. 9 : Setup[k] = <<app_setup[k], App>>
    /\ \A k \in 1 .. 28 * N :
           Setup[9 + k] = <<thread_setup[((k - 1) % 28) + 1], (k - 1) \div 28>>
    /\ \A k \in 1 .. N : Setup[9 + 28 * N + k] = <<"first_pkt", k - 1>>
  <1>1. /\ of_app \o of_threads \in Seq(Names \X Int)
        /\ Len(of_app \o of_threads) = 9 + 28 * N
        /\ \A k \in 1 .. 9 : (of_app \o of_threads)[k] = of_app[k]
        /\ \A k \in 1 .. 28 * N : (of_app \o of_threads)[9 + k] = of_threads[k]
    <2>1. of_app \in Seq(Names \X Int) /\ of_threads \in Seq(Names \X Int)
      BY AppEntries, ThreadEntries
    <2>2. /\ of_app \o of_threads \in Seq(Names \X Int)
          /\ Len(of_app \o of_threads) = Len(of_app) + Len(of_threads)
          /\ \A k \in 1 .. Len(of_app) : (of_app \o of_threads)[k] = of_app[k]
          /\ \A k \in 1 .. Len(of_threads) :
                 (of_app \o of_threads)[Len(of_app) + k] = of_threads[k]
      BY <2>1, Concat
    <2>3. Len(of_app) = 9 /\ Len(of_threads) = 28 * N  BY AppEntries, ThreadEntries
    <2>4. QED  BY <2>2, <2>3
  <1>2. Setup = (of_app \o of_threads) \o of_packets
    BY DEF Setup, of_app, of_threads, of_packets
  <1>3. /\ Setup \in Seq(Names \X Int) /\ Len(Setup) = 9 + 28 * N + N
        /\ \A k \in 1 .. 9 + 28 * N : Setup[k] = (of_app \o of_threads)[k]
        /\ \A k \in 1 .. N : Setup[9 + 28 * N + k] = of_packets[k]
    <2> DEFINE both == of_app \o of_threads
    <2>1. both \in Seq(Names \X Int) /\ of_packets \in Seq(Names \X Int)
      BY <1>1, PacketEntries
    <2>2. /\ both \o of_packets \in Seq(Names \X Int)
          /\ Len(both \o of_packets) = Len(both) + Len(of_packets)
          /\ \A k \in 1 .. Len(both) : (both \o of_packets)[k] = both[k]
          /\ \A k \in 1 .. Len(of_packets) :
                 (both \o of_packets)[Len(both) + k] = of_packets[k]
      <3> HIDE DEF both
      <3>1. QED  BY <2>1, Concat
    <2>3. Len(both) = 9 + 28 * N /\ Len(of_packets) = N /\ Setup = both \o of_packets
      BY <1>1, <1>2, PacketEntries
    <2> HIDE DEF both
    <2>4. /\ Setup \in Seq(Names \X Int) /\ Len(Setup) = 9 + 28 * N + N
          /\ \A k \in 1 .. 9 + 28 * N : Setup[k] = both[k]
          /\ \A k \in 1 .. N : Setup[9 + 28 * N + k] = of_packets[k]
      BY <2>2, <2>3
    <2>5. QED  BY <2>4 DEF both
  <1>4. \A k \in 1 .. 28 * N : 9 + k \in 1 .. 9 + 28 * N  BY ThreadsAssumption
  <1>5. \A k \in 1 .. 9 : k \in 1 .. 9 + 28 * N  BY ThreadsAssumption
  <1>6. 9 + 28 * N + N = 9 + 29 * N  BY ThreadsAssumption
  <1>7. \A k \in 1 .. 9 : Setup[k] = <<app_setup[k], App>>
    BY <1>1, <1>3, <1>5, AppEntries
  <1>8. ASSUME NEW k \in 1 .. 28 * N
        PROVE  Setup[9 + k] = <<thread_setup[((k - 1) % 28) + 1], (k - 1) \div 28>>
    <2>1. Setup[9 + k] = (of_app \o of_threads)[9 + k]  BY <1>3, <1>4
    <2>2. (of_app \o of_threads)[9 + k] = of_threads[k]  BY <1>1
    <2>3. QED  BY <2>1, <2>2, ThreadEntries
  <1>9. \A k \in 1 .. N : Setup[9 + 28 * N + k] = <<"first_pkt", k - 1>>
    BY <1>3, PacketEntries
  <1>10. QED  BY <1>3, <1>6, <1>7, <1>8, <1>9

(* The clean-up is a sequence, and not an empty one.                       *)
LEMMA CleanUpLists ==
    /\ <<"app_data">> \in Seq(Names) /\ Len(<<"app_data">>) > 0
    /\ clean_up_rules \in Seq(Names) /\ Len(clean_up_rules) > 0
    /\ clean_up_matchers \in Seq(Names)
    /\ clean_up_queues \in Seq(Names) /\ Len(clean_up_queues) > 0
    /\ clean_up_app \in Seq(Names) /\ Len(clean_up_app) > 0
  <1>1. /\ <<"app_data">> \in Seq(Names) /\ Len(<<"app_data">>) > 0
        /\ clean_up_rules \in Seq(Names) /\ Len(clean_up_rules) > 0
        /\ clean_up_matchers \in Seq(Names)
        /\ clean_up_app \in Seq(Names) /\ Len(clean_up_app) > 0
    BY DEF clean_up_rules, clean_up_matchers, clean_up_app, Names
  <1>2. /\ clean_up_app_sq \in Seq(Names) /\ Len(clean_up_app_sq) > 0
        /\ clean_up_app_rq \in Seq(Names) /\ Len(clean_up_app_rq) > 0
        /\ <<"handler">> \in Seq(Names) /\ Len(<<"handler">>) > 0
    BY DEF clean_up_app_sq, clean_up_app_rq, Names
  <1>3. clean_up_queues \in Seq(Names) /\ Len(clean_up_queues) > 0
    <2> DEFINE last == <<"handler">>
    <2>1. last \in Seq(Names) /\ Len(last) > 0  BY <1>2
    <2>2. clean_up_queues = (clean_up_app_sq \o clean_up_app_rq) \o last
      BY DEF clean_up_queues
    <2> HIDE DEF last
    <2>3. /\ clean_up_app_sq \o clean_up_app_rq \in Seq(Names)
          /\ Len(clean_up_app_sq \o clean_up_app_rq) > 0
      BY <1>2, Concat
    <2>4. QED  BY <2>1, <2>2, <2>3, Concat
  <1>4. QED  BY <1>1, <1>3

LEMMA TearDownLength == Len(TearDown) \in Nat \ {0}
  <1> DEFINE data   == ForThreads(<<"app_data">>)
             rest   == ForThreads(clean_up_rules)
             match  == ForApp(clean_up_matchers)
             queues == ForThreads(clean_up_queues)
             app    == ForApp(clean_up_app)
  <1>1. data \in Seq(Names \X Int)
    <2> DEFINE kinds == <<"app_data">>
    <2>1. kinds \in Seq(Names) /\ Len(kinds) > 0  BY CleanUpLists
    <2> HIDE DEF kinds
    <2>2. ForThreads(kinds) \in Seq(Names \X Int)  BY <2>1, ThreadPart
    <2>3. QED  BY <2>2 DEF kinds
  <1>2. rest \in Seq(Names \X Int) /\ queues \in Seq(Names \X Int)
    BY CleanUpLists, ThreadPart
  <1>3. match \in Seq(Names \X Int) /\ app \in Seq(Names \X Int) /\ Len(app) > 0
    BY CleanUpLists, AppPart
  <1>4. TearDown = (((data \o rest) \o match) \o queues) \o app
    BY DEF TearDown
  <1> HIDE DEF data, rest, match, queues, app
  <1>5. data \o rest \in Seq(Names \X Int)  BY <1>1, <1>2, Concat
  <1>6. (data \o rest) \o match \in Seq(Names \X Int)  BY <1>3, <1>5, Concat
  <1>7. ((data \o rest) \o match) \o queues \in Seq(Names \X Int)  BY <1>2, <1>6, Concat
  <1>8. Len(TearDown) = Len(((data \o rest) \o match) \o queues) + Len(app)
    BY <1>3, <1>4, <1>7, Concat
  <1>9. Len(((data \o rest) \o match) \o queues) \in Nat /\ Len(app) \in Nat
    BY <1>3, <1>7, LenProperties
  <1>10. QED  BY <1>3, <1>8, <1>9

(* Where the parts of a thread's set-up are: thd_ctx_init comes right       *)
(* before run and before any first packet.                                 *)
LEMMA ThreadPlace ==
    ASSUME NEW t \in Threads, NEW m \in 1 .. 28
    PROVE  /\ 28 * t + 9 + m \in 1 .. 9 + 28 * N
           /\ Setup[28 * t + 9 + m] = <<thread_setup[m], t>>
  <1>1. t \in Nat /\ t + 1 <= N /\ N \in Nat  BY ThreadsAssumption DEF Threads
  <1> DEFINE k == 28 * t + m
  <1>2. k \in 1 .. 28 * N /\ 9 + k = 28 * t + 9 + m  BY <1>1
  <1>3. k - 1 = 28 * t + (m - 1) /\ m - 1 \in 0 .. 27  BY <1>1
  <1>4. (k - 1) % 28 = m - 1 /\ (k - 1) \div 28 = t  BY <1>1, <1>3
  <1> HIDE DEF k
  <1>5. Setup[9 + k] = <<thread_setup[((k - 1) % 28) + 1], (k - 1) \div 28>>
    BY <1>2, SetupPlaces
  <1>6. (m - 1) + 1 = m  OBVIOUS
  <1>7. Setup[9 + k] = <<thread_setup[m], t>>  BY <1>4, <1>5, <1>6
  <1>8. 28 * t + 9 + m \in 1 .. 9 + 28 * N  BY <1>1
  <1>9. QED  BY <1>2, <1>7, <1>8

LEMMA InitPlace ==
    ASSUME NEW t \in Threads
    PROVE  /\ 28 * t + 36 \in 1 .. 9 + 28 * N
           /\ Setup[28 * t + 36] = <<"thd_ctx_init", t>>
  <1>1. t \in Nat  BY ThreadsAssumption DEF Threads
  <1>2. 28 * t + 9 + 27 = 28 * t + 36  BY <1>1
  <1>3. 27 \in 1 .. 28  OBVIOUS
  <1>4. /\ 28 * t + 9 + 27 \in 1 .. 9 + 28 * N
        /\ Setup[28 * t + 9 + 27] = <<thread_setup[27], t>>
    BY <1>3, ThreadPlace
  <1>5. QED  BY <1>2, <1>4, ThreadSetup

LEMMA RunPlace ==
    ASSUME NEW k \in 1 .. Len(Setup), NEW t \in Threads, Setup[k] = <<"run", t>>
    PROVE  k = 28 * t + 37
  <1>1. k \in 1 .. 9 + 29 * N /\ N \in Nat  BY SetupPlaces, ThreadsAssumption
  <1>2. CASE k \in 1 .. 9
    <2>1. Setup[k] = <<app_setup[k], App>>  BY <1>2, SetupPlaces
    <2>2. t # App  BY ThreadsAssumption DEF Threads, App
    <2>3. QED  BY <2>1, <2>2
  <1>3. CASE k \in 10 .. 9 + 28 * N
    <2> DEFINE m == k - 9
    <2>1. m \in 1 .. 28 * N /\ 9 + m = k  BY <1>1, <1>3
    <2>2. Setup[k] = <<thread_setup[((m - 1) % 28) + 1], (m - 1) \div 28>>
      BY <2>1, SetupPlaces
    <2>3. thread_setup[((m - 1) % 28) + 1] = "run" /\ (m - 1) \div 28 = t
      BY <2>2
    <2>4. ((m - 1) % 28) + 1 \in 1 .. 28  BY <2>1
    <2>5. ((m - 1) % 28) + 1 = 28  BY <2>3, <2>4, ThreadSetup
    <2> HIDE DEF m
    <2>6. m - 1 = 28 * t + 27  BY <2>1, <2>3, <2>5
    <2>7. QED  BY <2>1, <2>6 DEF Threads
  <1>4. CASE k \in 10 + 28 * N .. 9 + 29 * N
    <2> DEFINE m == k - (9 + 28 * N)
    <2>1. m \in 1 .. N /\ 9 + 28 * N + m = k  BY <1>1, <1>4
    <2>2. Setup[k] = <<"first_pkt", m - 1>>  BY <2>1, SetupPlaces
    <2>3. QED  BY <2>2
  <1>5. QED  BY <1>1, <1>2, <1>3, <1>4

LEMMA PacketPlace ==
    ASSUME NEW k \in 1 .. Len(Setup), NEW t \in Threads, Setup[k] = <<"first_pkt", t>>
    PROVE  k > 9 + 28 * N
  <1>1. k \in 1 .. 9 + 29 * N /\ N \in Nat  BY SetupPlaces, ThreadsAssumption
  <1>2. CASE k \in 1 .. 9
    <2>1. Setup[k] = <<app_setup[k], App>>  BY <1>2, SetupPlaces
    <2>2. t # App  BY ThreadsAssumption DEF Threads, App
    <2>3. QED  BY <2>1, <2>2
  <1>3. CASE k \in 10 .. 9 + 28 * N
    <2> DEFINE m == k - 9
    <2>1. m \in 1 .. 28 * N /\ 9 + m = k  BY <1>1, <1>3
    <2>2. Setup[k] = <<thread_setup[((m - 1) % 28) + 1], (m - 1) \div 28>>
      BY <2>1, SetupPlaces
    <2>3. thread_setup[((m - 1) % 28) + 1] = "first_pkt"  BY <2>2
    <2>4. ((m - 1) % 28) + 1 \in 1 .. 28  BY <2>1
    <2>5. QED  BY <2>3, <2>4, ThreadSetup
  <1>4. QED  BY <1>1, <1>2, <1>3

(* Every resource is of a thread or of the program.                        *)
LEMMA ThreadOwner ==
    ASSUME NEW k \in 10 .. 9 + 29 * N
    PROVE  Setup[k][2] \in Threads /\ Setup[k][2] # App
  <1>1. N \in Nat  BY ThreadsAssumption
  <1>2. CASE k \in 10 .. 9 + 28 * N
    <2> DEFINE m == k - 9
    <2>1. m \in 1 .. 28 * N /\ 9 + m = k  BY <1>1, <1>2
    <2>2. Setup[k] = <<thread_setup[((m - 1) % 28) + 1], (m - 1) \div 28>>
      BY <2>1, SetupPlaces
    <2> HIDE DEF m
    <2>3. (m - 1) \div 28 \in 0 .. N - 1  BY <1>1, <2>1
    <2>4. QED  BY <1>1, <2>2, <2>3 DEF Threads, App
  <1>3. CASE k \in 10 + 28 * N .. 9 + 29 * N
    <2> DEFINE m == k - (9 + 28 * N)
    <2>1. m \in 1 .. N /\ 9 + 28 * N + m = k  BY <1>1, <1>3
    <2>2. Setup[k] = <<"first_pkt", m - 1>>  BY <2>1, SetupPlaces
    <2>3. m - 1 \in 0 .. N - 1  BY <1>1, <2>1
    <2>4. QED  BY <1>1, <2>2, <2>3 DEF Threads, App
  <1>4. QED  BY <1>1, <1>2, <1>3

LEMMA SetupOwner ==
    ASSUME NEW k \in 1 .. Len(Setup)
    PROVE  Setup[k][2] \in Threads \cup {App}
  <1>1. k \in 1 .. 9 + 29 * N /\ N \in Nat  BY SetupPlaces, ThreadsAssumption
  <1>2. CASE k \in 1 .. 9
    <2>1. Setup[k] = <<app_setup[k], App>>  BY <1>2, SetupPlaces
    <2>2. QED  BY <2>1
  <1>3. CASE k \in 10 .. 9 + 29 * N  BY <1>3, ThreadOwner
  <1>4. QED  BY <1>1, <1>2, <1>3

(* The RPC is made for threads.                                            *)
LEMMA InitOwner ==
    ASSUME NEW k \in 1 .. Len(Setup), Setup[k][1] = "thd_ctx_init"
    PROVE  Setup[k][2] \in Threads
  <1>1. CASE k \in 1 .. 9
    <2>1. Setup[k] = <<app_setup[k], App>>  BY <1>1, SetupPlaces
    <2>2. app_setup[k] # "thd_ctx_init"  BY <1>1 DEF app_setup
    <2>3. QED  BY <2>1, <2>2
  <1>2. CASE k \notin 1 .. 9
    <2>1. Setup[k][2] # App
      <3>1. k \in 1 .. 9 + 29 * N /\ N \in Nat  BY SetupPlaces, ThreadsAssumption
      <3>2. k \in 10 .. 9 + 29 * N  BY SMTT(20), <1>2, <3>1
      <3>3. QED  BY <3>2, ThreadOwner
    <2>2. QED  BY <2>1, SetupOwner
  <1>3. QED  BY <1>1, <1>2

-----------------------------------------------------------------------------
(* The places a step can be at, and what stands there.                     *)
LEMMA DuePlace ==
    ASSUME TypeInv, phase = "setup"
    PROVE  /\ step \in 1 .. Len(Setup) /\ Len(Setup) \in Nat /\ Len(TearDown) \in Nat \ {0}
           /\ Due \in {Setup[k] : k \in 1 .. Len(Setup)}
           /\ Kind \notin Checks => Due \in Created
  <1>1. Len(Setup) \in Nat  BY SetupPlaces, ThreadsAssumption
  <1>2. step \in 1 .. Len(Setup)  BY DEF TypeInv
  <1>3. QED  BY <1>1, <1>2, TearDownLength DEF Kind, Due, Created

LEMMA AdvanceType ==
    ASSUME TypeInv, phase = "setup", Advance
    PROVE  /\ phase' \in {"setup", "running"}
           /\ step' \in 1 .. (IF phase' = "setup" THEN Len(Setup) ELSE Len(TearDown))
  BY DuePlace DEF Advance

LEMMA AdvanceCleanupType ==
    ASSUME TypeInv, phase = "cleanup", AdvanceCleanup
    PROVE  /\ phase' \in {"cleanup", "exited"} /\ step' \in 1 .. Len(TearDown)
           /\ step \in 1 .. Len(TearDown)
  BY TearDownLength DEF AdvanceCleanup, TypeInv

(* Main keeps its types.                                                   *)
LEMMA InitType == Init => TypeInv
  <1>1. Len(Setup) \in Nat /\ Len(Setup) >= 1  BY SetupPlaces, ThreadsAssumption
  <1> SUFFICES ASSUME Init PROVE TypeInv  OBVIOUS
  <1>2. phase = "setup" /\ step \in 1 .. (IF phase = "setup" THEN Len(Setup) ELSE Len(TearDown))
    BY <1>1 DEF Init
  <1>3. ptr \in [Created -> {"null", "garbage", "valid", "stale"}]
    BY DEF Init
  <1>4. arg \in [Threads -> {"none", "app_data", "app_data.thd_id"}]
    BY DEF Init
  <1>5. /\ err \in {0, -1} /\ live \subseteq Resources
        /\ failed \subseteq {Setup[k] : k \in 1 .. Len(Setup)}
        /\ refused \subseteq {TearDown[k] : k \in 1 .. Len(TearDown)} /\ wild \in BOOLEAN
    BY DEF Init
  <1>6. QED  BY <1>2, <1>3, <1>4, <1>5 DEF TypeInv

LEMMA CreateType == TypeInv /\ Create => TypeInv'
  <1> SUFFICES ASSUME TypeInv, Create PROVE TypeInv'  OBVIOUS
  <1> USE DEF Create
  <1>1. /\ phase' \in {"setup", "running"}
        /\ step' \in 1 .. (IF phase' = "setup" THEN Len(Setup) ELSE Len(TearDown))
    BY AdvanceType
  <1>2. ptr' \in [Created -> {"null", "garbage", "valid", "stale"}] /\ live' \subseteq Resources
    BY DuePlace DEF TypeInv, Resources
  <1>3. arg' \in [Threads -> {"none", "app_data", "app_data.thd_id"}]
    BY DEF TypeInv
  <1>4. QED  BY <1>1, <1>2, <1>3 DEF TypeInv

LEMMA FailType == TypeInv /\ Fail => TypeInv'
  <1> SUFFICES ASSUME TypeInv, Fail PROVE TypeInv'  OBVIOUS
  <1> USE DEF Fail
  <1>1. /\ phase' \in {"setup", "running", "cleanup", "exited", "crashed"}
        /\ step' \in 1 .. (IF phase' = "setup" THEN Len(Setup) ELSE Len(TearDown))
        /\ err' \in {0, -1}
    <2>1. CASE Kind \in Returning /\ phase' = "exited" /\ step' = 1 /\ err' = -1
      BY <2>1, DuePlace
    <2>2. CASE Advance /\ err' = err
      BY <2>2, AdvanceType DEF TypeInv
    <2>3. CASE phase' = "crashed" /\ step' = 1 /\ err' = err
      BY <2>3, DuePlace DEF TypeInv
    <2>4. CASE phase' = "cleanup" /\ step' = 1 /\ err' = IF Kind \in Silent THEN err ELSE -1
      BY <2>4, DuePlace DEF TypeInv
    <2>5. QED  BY <2>1, <2>2, <2>3, <2>4
  <1>2. ptr' \in [Created -> {"null", "garbage", "valid", "stale"}]
    <2>1. CASE Kind \in Checks  BY <2>1 DEF TypeInv
    <2>2. CASE Kind \notin Checks
      <3>1. Due \in Created  BY <2>2, DuePlace
      <3>2. PICK left \in {"null", ptr[Due]} : ptr' = [ptr EXCEPT ![Due] = left]
        BY <2>2
      <3>3. left \in {"null", "garbage", "valid", "stale"}
        BY <3>1, <3>2 DEF TypeInv
      <3>4. QED  BY <3>2, <3>3 DEF TypeInv
    <2>3. QED  BY <2>1, <2>2
  <1>3. live' \subseteq Resources
    <2>1. PICK rest \in IF Kind \in Matchers THEN {{}, {Partial(Kind)}} ELSE {{}} :
              live' = live \cup rest
      OBVIOUS
    <2>2. rest \subseteq Resources  BY <2>1 DEF Resources
    <2>3. QED  BY <2>1, <2>2 DEF TypeInv
  <1>4. failed' \subseteq {Setup[k] : k \in 1 .. Len(Setup)}
    BY DuePlace DEF TypeInv
  <1>5. QED  BY <1>1, <1>2, <1>3, <1>4 DEF TypeInv

LEMMA CleanUpType ==
    TypeInv /\ (Crash \/ Enter \/ Skip \/ Destroy \/ DestroyInvalid) => TypeInv'
  <1> SUFFICES ASSUME TypeInv, Crash \/ Enter \/ Skip \/ Destroy \/ DestroyInvalid
               PROVE  TypeInv'
    OBVIOUS
  <1>1. CASE Crash  BY <1>1, DuePlace DEF Crash, TypeInv
  <1>2. CASE Enter  BY <1>2 DEF Enter, TypeInv
  <1>3. CASE Skip
    <2>1. /\ phase' \in {"cleanup", "exited"} /\ step' \in 1 .. Len(TearDown)
      BY <1>3, AdvanceCleanupType DEF Skip
    <2>2. QED  BY <1>3, <2>1 DEF Skip, TypeInv
  <1>4. CASE Destroy
    <2>1. /\ phase' \in {"cleanup", "exited"} /\ step' \in 1 .. Len(TearDown)
          /\ step \in 1 .. Len(TearDown)
      BY <1>4, AdvanceCleanupType DEF Destroy
    <2>2. Victim \in {TearDown[k] : k \in 1 .. Len(TearDown)}  BY <2>1 DEF Victim
    <2>3. refused' \subseteq {TearDown[k] : k \in 1 .. Len(TearDown)}
      BY <1>4, <2>2 DEF Destroy, TypeInv
    <2>4. /\ ptr' \in [Created -> {"null", "garbage", "valid", "stale"}]
          /\ live' \subseteq Resources
      BY <1>4 DEF Destroy, TypeInv
    <2>5. QED  BY <1>4, <2>1, <2>3, <2>4 DEF Destroy, TypeInv
  <1>5. CASE DestroyInvalid
    <2>1. /\ phase' \in {"cleanup", "exited", "crashed"} /\ step' \in 1 .. Len(TearDown)
      BY <1>5, AdvanceCleanupType, TearDownLength DEF DestroyInvalid
    <2>2. QED  BY <1>5, <2>1 DEF DestroyInvalid, TypeInv
  <1>6. QED  BY <1>1, <1>2, <1>3, <1>4, <1>5

-----------------------------------------------------------------------------
(* The parts of the invariant, action by action.                           *)
LEMMA DeviceInitInv == DeviceInit => DeviceIInv
  <1> SUFFICES ASSUME DeviceInit PROVE DeviceIInv  OBVIOUS
  <1>1. DeviceTypeInv  BY InitType DEF DeviceInit, DeviceTypeInv
  <1>2. FailInv  BY DEF DeviceInit, Init, FailInv, FailedKinds
  <1>3. CtxInv  BY DEF DeviceInit, Init, CtxInv, Filled
  <1>4. PassedInv  BY DEF DeviceInit, Init, PassedInv
  <1>5. RanInv  BY DEF DeviceInit, Init, RanInv
  <1>6. QED  BY <1>1, <1>2, <1>3, <1>4, <1>5 DEF DeviceIInv

LEMMA CreatesInv == DeviceIInv /\ HostCreates => DeviceIInv'
  <1> SUFFICES ASSUME DeviceIInv, HostCreates PROVE DeviceIInv'  OBVIOUS
  <1>1. DeviceTypeInv /\ TypeInv /\ FailInv /\ CtxInv /\ PassedInv /\ RanInv /\ Create
    BY DEF DeviceIInv, DeviceTypeInv, HostCreates
  <1>2. phase = "setup"  BY <1>1 DEF Create
  <1>3. step \in 1 .. Len(Setup) /\ Len(Setup) \in Nat  BY <1>1, <1>2, DuePlace
  <1>4. DeviceTypeInv'
    <2>1. TypeInv'  BY <1>1, CreateType
    <2>2. Kind = "thd_ctx_init" => Due[2] \in Threads  BY <1>3, InitOwner DEF Kind, Due
    <2>3. ctx' \subseteq Threads  BY <1>1, <2>2 DEF HostCreates, DeviceTypeInv
    <2>4. QED  BY <1>1, <2>1, <2>3 DEF HostCreates, DeviceTypeInv
  <1>5. FailInv'  BY <1>1 DEF FailInv, FailedKinds, Create, Advance
  <1>6. CtxInv'
    <2>1. /\ failed' = failed /\ ctx \subseteq ctx' /\ hpc' = hpc
          /\ \A t \in Threads : Filled(t) => Filled(t)'
      BY <1>1 DEF HostCreates, Create, Filled
    <2>2. \A k \in 1 .. step - 1, t \in Threads :
              Setup[k] = <<"thd_ctx_init", t>> => Filled(t)
      BY <1>1, <1>2 DEF CtxInv
    <2>3. ASSUME phase' = "setup", NEW k \in 1 .. step' - 1, NEW t \in Threads,
                 Setup[k] = <<"thd_ctx_init", t>>
          PROVE  Filled(t)'
      <3>1. step' = step + 1  BY <1>1, <1>2, <2>3 DEF Create, Advance
      <3>2. CASE k = step
        <4>1. Kind = "thd_ctx_init" /\ Due[2] = t  BY <2>3, <3>2 DEF Kind, Due
        <4>2. t \in ctx'  BY <4>1 DEF HostCreates
        <4>3. QED  BY <4>2 DEF Filled
      <3>3. CASE k # step
        <4>1. k \in 1 .. step - 1  BY <1>3, <3>1, <3>3
        <4>2. QED  BY <2>1, <2>2, <2>3, <4>1
      <3>4. QED  BY <3>2, <3>3
    <2>4. ASSUME NEW t \in Threads, arg'[t] # "none" \/ hpc'[t] \in {"step", "spin", "fault"}
          PROVE  Filled(t)'
      <3>1. CASE arg[t] # "none" \/ hpc[t] \in {"step", "spin", "fault"}
        BY <1>1, <2>1, <3>1 DEF CtxInv
      <3>2. CASE arg[t] = "none" /\ arg'[t] # "none"
        <4>1. Kind = "run" /\ Due[2] = t
          BY <1>1, <3>2 DEF Create, DeviceTypeInv, TypeInv
        <4>2. Setup[step] = <<"run", t>>
          <5>1. Setup[step] \in Names \X Int  BY <1>3, SetupPlaces, ElementOfSeq
          <5>2. QED  BY <4>1, <5>1 DEF Kind, Due
        <4>3. step = 28 * t + 37  BY <1>3, <4>2, RunPlace
        <4>4. t \in Nat  BY ThreadsAssumption DEF Threads
        <4>5. 28 * t + 36 \in 1 .. step - 1  BY <4>3, <4>4
        <4>6. Setup[28 * t + 36] = <<"thd_ctx_init", t>>  BY InitPlace
        <4>7. QED  BY <2>1, <2>2, <4>5, <4>6
      <3>3. QED  BY <2>1, <2>4, <3>1, <3>2
    <2>5. QED  BY <2>3, <2>4 DEF CtxInv
  <1>7. PassedInv'
    <2>1. /\ \/ phase' = "setup" /\ step' = step + 1
             \/ phase' = "running" /\ step = Len(Setup)
          /\ live \subseteq live'
      BY <1>1, <1>2 DEF Create, Advance
    <2>2. Setup[step] \in Noticed => Setup[step] \in live'
      BY <1>1 DEF Create, Noticed, Created, Kind, Due
    <2>3. \A k \in 1 .. step : Setup[k] \in Noticed => Setup[k] \in live'
      <3>1. ASSUME NEW k \in 1 .. step, Setup[k] \in Noticed PROVE Setup[k] \in live'
        <4>1. CASE k = step  BY <2>2, <3>1, <4>1
        <4>2. CASE k # step
          <5>1. k \in 1 .. step - 1  BY <1>3, <4>2
          <5>2. QED  BY <1>1, <1>2, <2>1, <3>1, <5>1 DEF PassedInv
        <4>3. QED  BY <4>1, <4>2
      <3>2. QED  BY <3>1
    <2>4. CASE phase' = "setup" /\ step' = step + 1
      <3>1. step' - 1 = step  BY <1>3, <2>4
      <3>2. QED  BY <2>3, <2>4, <3>1 DEF PassedInv, Noticed
    <2>5. CASE phase' = "running" /\ step = Len(Setup)
      BY <2>3, <2>5 DEF PassedInv, Noticed
    <2>6. QED  BY <2>1, <2>4, <2>5
  <1>8. RanInv'
    <2> SUFFICES ASSUME NEW t \in Threads
                 PROVE  /\ hpc'[t] \in {"step", "spin", "fault"} => arg'[t] # "none"
                        /\ t \in ctx' /\ phase' = "setup" =>
                              \E k \in 1 .. step' - 1 : Setup[k] = <<"thd_ctx_init", t>>
                        /\ arg'[t] # "none" /\ phase' = "setup" =>
                              \E k \in 1 .. step' - 1 : Setup[k] = <<"run", t>>
      BY DEF RanInv
    <2>1. hpc' = hpc /\ (arg[t] # "none" => arg'[t] # "none")
      BY <1>1 DEF HostCreates, Create, DeviceTypeInv, TypeInv
    <2>2. hpc'[t] \in {"step", "spin", "fault"} => arg'[t] # "none"
      BY <1>1, <2>1 DEF RanInv
    <2>3. ASSUME arg'[t] # "none", phase' = "setup"
          PROVE  \E k \in 1 .. step' - 1 : Setup[k] = <<"run", t>>
      <3>1. step' = step + 1  BY <1>1, <1>2, <2>3 DEF Create, Advance
      <3>2. CASE arg[t] # "none"
        <4>1. PICK k \in 1 .. step - 1 : Setup[k] = <<"run", t>>
          BY <1>1, <1>2, <3>2 DEF RanInv
        <4>2. k \in 1 .. step' - 1  BY <1>3, <3>1
        <4>3. QED  BY <4>1, <4>2
      <3>3. CASE arg[t] = "none"
        <4>1. Kind = "run" /\ Due[2] = t
          BY <1>1, <2>3, <3>3 DEF Create, DeviceTypeInv, TypeInv
        <4>2. Setup[step] \in Names \X Int  BY <1>3, SetupPlaces, ElementOfSeq
        <4>3. Setup[step] = <<"run", t>>  BY <4>1, <4>2 DEF Kind, Due
        <4>4. step \in 1 .. step' - 1  BY <1>3, <3>1
        <4>5. QED  BY <4>3, <4>4
      <3>4. QED  BY <3>2, <3>3
    <2>4. ASSUME t \in ctx', phase' = "setup"
          PROVE  \E k \in 1 .. step' - 1 : Setup[k] = <<"thd_ctx_init", t>>
      <3>1. step' = step + 1  BY <1>1, <1>2, <2>4 DEF Create, Advance
      <3>2. CASE t \in ctx
        <4>1. PICK k \in 1 .. step - 1 : Setup[k] = <<"thd_ctx_init", t>>
          BY <1>1, <1>2, <3>2 DEF RanInv
        <4>2. k \in 1 .. step' - 1  BY <1>3, <3>1
        <4>3. QED  BY <4>1, <4>2
      <3>3. CASE t \notin ctx
        <4>1. Kind = "thd_ctx_init" /\ Due[2] = t  BY <2>4, <3>3 DEF HostCreates
        <4>2. Setup[step] \in Names \X Int  BY <1>3, SetupPlaces, ElementOfSeq
        <4>3. Setup[step] = <<"thd_ctx_init", t>>  BY <4>1, <4>2 DEF Kind, Due
        <4>4. step \in 1 .. step' - 1  BY <1>3, <3>1
        <4>5. QED  BY <4>3, <4>4
      <3>4. QED  BY <3>2, <3>3
    <2>5. QED  BY <2>2, <2>3, <2>4
  <1>9. QED  BY <1>4, <1>5, <1>6, <1>7, <1>8 DEF DeviceIInv

LEMMA GoesOnInv == DeviceIInv /\ HostGoesOn => DeviceIInv'
  <1> SUFFICES ASSUME DeviceIInv, HostGoesOn PROVE DeviceIInv'  OBVIOUS
  <1>1. /\ DeviceTypeInv /\ TypeInv /\ FailInv /\ CtxInv /\ PassedInv /\ RanInv
        /\ hpc' = hpc /\ idx' = idx /\ ctx' = ctx
    BY DEF DeviceIInv, DeviceTypeInv, HostGoesOn, devVars
  <1>2. TypeInv'  BY <1>1, FailType, CleanUpType DEF HostGoesOn
  <1>3. DeviceTypeInv'  BY <1>1, <1>2 DEF DeviceTypeInv
  <1>4. CASE Fail
    <2>1. FailInv'
      <3>1. CASE Kind \in Returning /\ err' = -1  BY <3>1 DEF FailInv
      <3>2. CASE Kind \in Ignored \cup Unchecked /\ Advance /\ err' = err
        <4>1. /\ err = 0 /\ phase' # "crashed" => FailedKinds \subseteq Ignored \cup Unchecked \cup Silent
              /\ FailedKinds' = FailedKinds \cup {Kind} /\ err' = err
          BY <1>1, <1>4, <3>2 DEF FailInv, Fail, FailedKinds, Kind
        <4>2. QED  BY <3>2, <4>1 DEF FailInv
      <3>3. CASE phase' = "crashed"  BY <3>3 DEF FailInv
      <3>4. CASE phase' = "cleanup" /\ err' = IF Kind \in Silent THEN err ELSE -1
        <4>1. /\ err = 0 => FailedKinds \subseteq Ignored \cup Unchecked \cup Silent
              /\ FailedKinds' = FailedKinds \cup {Kind}
          BY <1>1, <1>4 DEF FailInv, Fail, FailedKinds, Kind
        <4>2. QED  BY <3>4, <4>1 DEF FailInv
      <3>5. QED  BY <1>4, <3>1, <3>2, <3>3, <3>4 DEF Fail
    <2>2. CtxInv'
      <3>1. /\ phase = "setup" /\ arg' = arg /\ failed' = failed \cup {Due}
            /\ \A t \in Threads : Filled(t) => Filled(t)'
        BY <1>1, <1>4 DEF Fail, Filled
      <3>2. step \in 1 .. Len(Setup)  BY <1>1, <3>1, DuePlace
      <3>3. ASSUME phase' = "setup", NEW k \in 1 .. step' - 1, NEW t \in Threads,
                   Setup[k] = <<"thd_ctx_init", t>>
            PROVE  Filled(t)'
        <4>1. step' = step + 1  BY <1>4, <3>3 DEF Fail, Advance
        <4>2. CASE k = step  BY <3>1, <3>3, <4>2 DEF Filled, Due
        <4>3. CASE k # step
          <5>1. k \in 1 .. step - 1  BY <3>2, <4>1, <4>3
          <5>2. QED  BY <1>1, <3>1, <3>3, <5>1 DEF CtxInv
        <4>4. QED  BY <4>2, <4>3
      <3>4. \A t \in Threads :
                arg'[t] # "none" \/ hpc'[t] \in {"step", "spin", "fault"} => Filled(t)'
        BY <1>1, <3>1 DEF CtxInv
      <3>5. QED  BY <3>3, <3>4 DEF CtxInv
    <2>3. /\ arg' = arg /\ phase = "setup" /\ live \subseteq live'
          /\ step \in 1 .. Len(Setup) /\ Len(Setup) \in Nat
      BY <1>1, <1>4, DuePlace DEF Fail
    <2>4. phase' \in {"setup", "running"} =>
              /\ Kind \in Ignored \cup Unchecked
              /\ \/ phase' = "setup" /\ step' = step + 1
                 \/ phase' = "running" /\ step = Len(Setup)
      BY <1>4, <2>3 DEF Fail, Advance
    <2>5. PassedInv'
      <3>1. CASE phase' \in {"setup", "running"}
        <4>1. \A k \in 1 .. step : Setup[k] \in Noticed => Setup[k] \in live'
          <5>1. ASSUME NEW k \in 1 .. step, Setup[k] \in Noticed PROVE Setup[k] \in live'
            <6>1. Setup[step] \notin Noticed
              <7>1. Setup[step] \in Names \X Int  BY <2>3, SetupPlaces, ElementOfSeq
              <7>2. Setup[step] \in Created => Setup[step][2] \in Threads \cup {App}
                BY <2>3, SetupOwner
              <7>3. QED  BY <2>4, <3>1, <7>1, <7>2 DEF Noticed, Kind, Due
            <6>2. k \in 1 .. step - 1  BY <2>3, <5>1, <6>1
            <6>3. QED  BY <1>1, <2>3, <5>1, <6>2 DEF PassedInv
          <5>2. QED  BY <5>1
        <4>2. phase' = "setup" => step' - 1 = step  BY <2>3, <2>4
        <4>3. QED  BY <2>4, <3>1, <4>1, <4>2 DEF PassedInv, Noticed
      <3>2. CASE phase' \notin {"setup", "running"}  BY <3>2 DEF PassedInv
      <3>3. QED  BY <3>1, <3>2
    <2>6. RanInv'
      <3>1. ASSUME NEW t \in Threads, arg[t] # "none", phase' = "setup"
            PROVE  \E k \in 1 .. step' - 1 : Setup[k] = <<"run", t>>
        <4>1. PICK k \in 1 .. step - 1 : Setup[k] = <<"run", t>>
          BY <1>1, <2>3, <3>1 DEF RanInv
        <4>2. k \in 1 .. step' - 1  BY <2>3, <2>4, <3>1
        <4>3. QED  BY <4>1, <4>2
      <3>2. ASSUME NEW t \in ctx, t \in Threads, phase' = "setup"
            PROVE  \E k \in 1 .. step' - 1 : Setup[k] = <<"thd_ctx_init", t>>
        <4>1. PICK k \in 1 .. step - 1 : Setup[k] = <<"thd_ctx_init", t>>
          BY <1>1, <2>3, <3>2 DEF RanInv
        <4>2. k \in 1 .. step' - 1  BY <2>3, <2>4, <3>2
        <4>3. QED  BY <4>1, <4>2
      <3>3. QED  BY <1>1, <2>3, <3>1, <3>2 DEF RanInv
    <2>7. QED  BY <1>3, <2>1, <2>2, <2>5, <2>6 DEF DeviceIInv
  <1>5. CASE Crash \/ Enter \/ Skip \/ Destroy \/ DestroyInvalid
    <2>1. phase' # "setup" /\ failed' = failed /\ arg' = arg /\ err' = err
      BY <1>5, AdvanceCleanupType, <1>1
         DEF Crash, Enter, Skip, Destroy, DestroyInvalid, AdvanceCleanup
    <2>2. phase # "crashed"
      BY <1>5 DEF Crash, Enter, Skip, Destroy, DestroyInvalid
    <2>3. FailInv'  BY <1>1, <2>1, <2>2 DEF FailInv, FailedKinds
    <2>4. CtxInv'  BY <1>1, <2>1 DEF CtxInv, Filled
    <2>5. phase' # "running"
      BY <1>5, <1>1 DEF Crash, Enter, Skip, Destroy, DestroyInvalid, AdvanceCleanup
    <2>6. PassedInv'  BY <2>1, <2>5 DEF PassedInv
    <2>7. RanInv'  BY <1>1, <2>1 DEF RanInv
    <2>8. QED  BY <1>3, <2>3, <2>4, <2>6, <2>7 DEF DeviceIInv
  <1>6. QED  BY <1>4, <1>5 DEF HostGoesOn

LEMMA DeviceStepInv ==
    ASSUME NEW t \in Threads, DeviceIInv,
           NicReceive(t) \/ HandlerStarts(t) \/ HandlerStepsCq(t)
    PROVE  DeviceIInv'
  <1>1. DeviceTypeInv /\ TypeInv /\ FailInv /\ CtxInv /\ PassedInv /\ RanInv
    BY DEF DeviceIInv, DeviceTypeInv
  <1>2. UNCHANGED <<phase, step, err, ptr, live, arg, failed, refused, wild, ctx>>
    BY DEF NicReceive, HandlerStarts, HandlerStepsCq, HandlerStep, vars
  <1>3. /\ hpc' \in [Threads -> {"idle", "latched", "step", "spin", "fault"}]
        /\ \A u \in Threads : hpc'[u] \in {"step", "spin", "fault"} =>
               hpc[u] \in {"step", "spin", "fault"} \/ arg[u] # "none"
    <2>1. CASE NicReceive(t)  BY <1>1, <2>1 DEF NicReceive, DeviceTypeInv
    <2>2. CASE HandlerStarts(t)
      BY <1>1, <2>2 DEF HandlerStarts, HandlerStep, DeviceTypeInv
    <2>3. CASE HandlerStepsCq(t)
      BY <1>1, <2>3 DEF HandlerStepsCq, HandlerStep, DeviceTypeInv
    <2>4. QED  BY <2>1, <2>2, <2>3
  <1>4. idx' \in [Threads -> Threads \cup {Elsewhere}]
    <2>1. CASE NicReceive(t)  BY <1>1, <2>1 DEF NicReceive, DeviceTypeInv
    <2>2. CASE HandlerStarts(t)
      BY <1>1, <2>2 DEF HandlerStarts, DeviceTypeInv
    <2>3. CASE HandlerStepsCq(t)
      BY <1>1, <2>3 DEF HandlerStepsCq, DeviceTypeInv
    <2>4. QED  BY <2>1, <2>2, <2>3
  <1>5. TypeInv'  BY <1>1, <1>2 DEF TypeInv
  <1>6. DeviceTypeInv'  BY <1>1, <1>2, <1>3, <1>5, <1>4 DEF DeviceTypeInv
  <1>7. FailInv'  BY <1>1, <1>2 DEF FailInv, FailedKinds
  <1>8. CtxInv'
    <2>1. \A u \in Threads : Filled(u)' = Filled(u)  BY <1>2 DEF Filled
    <2>2. QED  BY <1>1, <1>2, <1>3, <2>1 DEF CtxInv, RanInv
  <1>9. PassedInv'  BY <1>1, <1>2 DEF PassedInv, Noticed
  <1>10. RanInv'  BY <1>1, <1>2, <1>3 DEF RanInv
  <1>11. QED  BY <1>6, <1>7, <1>8, <1>9, <1>10 DEF DeviceIInv

(* The invariant of the host program and the device, for every number of   *)
(* threads, whichever calls of main fail.                                  *)
THEOREM DeviceInvariance == DeviceSpec => []DeviceIInv
  <1>1. DeviceInit => DeviceIInv  BY DeviceInitInv
  <1>2. DeviceIInv /\ [DeviceNext]_allVars => DeviceIInv'
    <2> SUFFICES ASSUME DeviceIInv, [DeviceNext]_allVars PROVE DeviceIInv'  OBVIOUS
    <2>1. CASE HostCreates  BY <2>1, CreatesInv
    <2>2. CASE HostGoesOn  BY <2>2, GoesOnInv
    <2>3. ASSUME NEW t \in Threads,
                 NicReceive(t) \/ HandlerStarts(t) \/ HandlerStepsCq(t)
          PROVE  DeviceIInv'
      BY <2>3, DeviceStepInv
    <2>4. CASE UNCHANGED allVars
      <3>1. TypeInv /\ DeviceTypeInv /\ FailInv /\ CtxInv /\ PassedInv /\ RanInv
        BY DEF DeviceIInv, DeviceTypeInv
      <3>2. UNCHANGED <<phase, step, err, ptr, live, arg, failed, refused, wild, hpc, idx, ctx>>
        BY <2>4 DEF allVars, vars, devVars
      <3>3. TypeInv' /\ DeviceTypeInv'  BY <3>1, <3>2 DEF TypeInv, DeviceTypeInv
      <3>4. FailInv' /\ CtxInv'  BY <3>1, <3>2 DEF FailInv, FailedKinds, CtxInv, Filled
      <3>5. PassedInv' /\ RanInv'  BY <3>1, <3>2 DEF PassedInv, Noticed, RanInv
      <3>6. QED  BY <3>3, <3>4, <3>5 DEF DeviceIInv
    <2>5. QED  BY <2>1, <2>2, <2>3, <2>4 DEF DeviceNext
  <1>3. QED  BY <1>1, <1>2, PTL DEF DeviceSpec

(* The program counter of main stays within its lists, and every pointer,  *)
(* resource and handler keeps its type.                                    *)
THEOREM DeviceTypeCorrect == DeviceSpec => []DeviceTypeInv
  <1>1. DeviceIInv => DeviceTypeInv  BY DEF DeviceIInv
  <1>2. QED  BY <1>1, DeviceInvariance, PTL

(* An exit code of 0 hides only the failures main does not report.         *)
THEOREM FailureSafe == DeviceSpec => []FailureReported
  <1>1. DeviceIInv => FailureReported
    BY DEF DeviceIInv, FailInv, FailureReported, FailedKinds, Silent
  <1>2. QED  BY <1>1, DeviceInvariance, PTL
=============================================================================
