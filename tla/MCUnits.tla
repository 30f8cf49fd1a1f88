------------------------------ MODULE MCUnits ------------------------------
(***************************************************************************)
(* Instances for TLC of the modules that share nothing with each other:    *)
(* the memory, packets, protocols and tables of a host, its timeouts and   *)
(* sockets, and the protocols between hosts. unit says which one a         *)
(* behaviour is of, and v1, v2, ... are its variables. There is one        *)
(* specification for each of the two runs.                                 *)
(***************************************************************************)
EXTENDS Integers, Sequences

CONSTANTS net1, net2, host1, host2, ANY, BROADCAST, ip1, any0, if1, if2, if0, adr1, adr2, adr0, nb1, nb2, nb3, pk1,
  pk2, pk3, nothing, nobody

VARIABLES unit, v1, v2, v3, v4, v5, v6, v7, v8, v9, v10, v11, v12, v13, v14, v15, v16, v17

vars == <<unit, v1, v2, v3, v4, v5, v6, v7, v8, v9, v10, v11, v12, v13, v14, v15, v16, v17>>

-----------------------------------------------------------------------------
(* Memory, packets, protocols and tables of one host *)

Bytes(n) == UNION {[1..k -> {1, 2}] : k \in 0..n}
Cut == {<<x>> : x \in Bytes(2)} \union {<<x, y>> : x \in Bytes(2), y \in Bytes(1)}
       \union {<<<<1>>, <<1>>, <<2>>>>, <<<<1>>, <<>>, <<2>>>>}
Data(n) == UNION {[1..k -> {0, 1, 255}] : k \in 0..n}
Piece(n) == [data : Data(n), odd : BOOLEAN]
Pieces == {<<x>> : x \in Piece(3)} \union {<<x, y>> : x \in Piece(2), y \in Piece(2)}
          \union {<<x, y, z>> : x \in Piece(1), y \in Piece(1), z \in Piece(1)}
HeaderSums == {256 * x + y : x \in {0, 1, 6, 17, 254, 255}, y \in {1, 7, 8, 246, 247, 248, 253, 254, 255}}
              \union {70000, 131070, 200000}
Pd == INSTANCE PbufData WITH
  Packets <- Cut, Patterns <- Bytes(2), NotFound <- 65535, SumPackets <- Pieces, Pseudo <- {0, 65535, 70000},
  Sums <- HeaderSums, Ttls <- {0, 1, 2, 255}, p <- v1, q <- v2, mem <- v3, packet <- v4, pseudo <- v5, header <- v6,
  out <- v7

FragLength(x) == IF x = 1 THEN 8 ELSE 4
FragMtu(x) == 3
Fr == INSTANCE IpFrag WITH
  Datagrams <- 1..3, LengthOf <- FragLength, Unit <- 2, MtuOf <- FragMtu, RouterMtu <- 3, Ids <- 4, IP_REASS_MAX_PBUFS <- 3,
  MEMP_NUM_REASSDATA <- 2, IP_REASS_MAXAGE <- 1, tx <- v1, unsent <- v2, net <- v3, reassdatagrams <- v4,
  ip_reass_pbufcount <- v5, got <- v6, panic <- v7

Ud == INSTANCE Udp WITH
  Pcbs <- 1..3, Netifs <- {net1}, Remotes <- {host1, host2}, Peers <- {host1}, Ports <- {2}, RemotePorts <- {9},
  UDP_LOCAL_PORT_RANGE_START <- 2, UDP_LOCAL_PORT_RANGE_END <- 3, used <- v1, pcb <- v2, udp_pcbs <- v3, udp_port <- v4,
  spoilt <- v5

U2 == INSTANCE Udp WITH
  Pcbs <- 1..3, Netifs <- {net1, net2}, Remotes <- {host1, host2}, Peers <- {host1}, Ports <- {2}, RemotePorts <- {9},
  UDP_LOCAL_PORT_RANGE_START <- 2, UDP_LOCAL_PORT_RANGE_END <- 2, used <- v1, pcb <- v2, udp_pcbs <- v3, udp_port <- v4,
  spoilt <- v5

Tr == INSTANCE TcpRecv WITH
  N <- 6, ISN <- 28, M <- 32, TCP_WND <- 4, MSS <- 2, TCP_WND_UPDATE_THRESHOLD <- 1, pcb <- v1, refused <- v2, delivered <- v3,
  closed <- v4, unread <- v5, panic <- v6, grown <- v7

Ts == INSTANCE TcpSend WITH
  N <- 3, ISS <- 30, M <- 32, MSS <- 2, U16 <- 16, TCP_SND_BUF <- 3, TCP_SND_QUEUELEN <- 3, Window <- 3, WndMax <- 6,
  MaxAcks <- 1, pcb <- v1, sent <- v2, peer <- v3, acks <- v4, told <- v5, resent <- v6

Pm == INSTANCE Pmap WITH
  VMs <- {6, 7}, Fan <- 4, Low <- 2, Pools <- {4..27, 14..40, 24..50, 8..21}, INFO <- 3, Program <- 16, StackPages <- 1,
  MaxChannels <- 1, free <- v1, tbl <- v2, vm_page_tables <- v3, vm_ept <- v4, segs <- v5, channels <- v6, state <- v7,
  memory <- v8, has_1GB_page <- v9

ImageOf(code, data, rodata, bss) ==
  [s \in {"code", "data", "rodata", "bss", "stack"} |->
     CASE s = "code" -> code [] s = "data" -> data [] s = "rodata" -> rodata [] s = "bss" -> bss [] s = "stack" -> 2]
Vm == INSTANCE VmMemory WITH
  CPUs <- {2, 3, 6, 7}, InitCpu <- 2, Drivers <- {3}, Pages <- 26, Images <- {ImageOf(1, 1, 1, 1), ImageOf(1, 0, 0, 0)},
  MaxChannels <- 1, MaxCalls <- 6, block <- v1, vm <- v2, map <- v3, chans <- v4, state <- v5, stale <- v6, oom <- v7,
  nobss <- v8, calls <- v9

Tp == INSTANCE TcpPcbs WITH
  MEMP_NUM_TCP_PCB <- 3, Prios <- {1}, Started <- 10, Ended <- 12, WellKnown <- 5, Wrap <- 2, MSL2 <- 1, Accepted <- {1, 2},
  MaxCalls <- 2, MaxInputs <- 1, MaxTicks <- 2, block <- v1, bound <- v2, active <- v3, tw <- v4, listen <- v5, tcp_port <- v6,
  ticks <- v7, ctr <- v8, changed <- v9, tm <- v10, calls <- v11, inputs <- v12, rounds <- v13, odd <- v14

Ar == INSTANCE Etharp WITH
  ARP_TABLE_SIZE <- 2, ARP_MAXAGE <- 3, ARP_MAXPENDING <- 1, ARP_AGE_REREQUEST_USED <- 1, Ips <- {1, 2, 3}, Macs <- {11, 12},
  NoIp <- 0, NoMac <- 0, HeapSize <- 2, MaxSends <- 3, arp_table <- v1, etharp_cached_entry <- v2, heap <- v3, sent <- v4,
  count <- v5, learnt <- v6

Dh == INSTANCE Dhcp WITH
  Pool <- {ip1}, NoAddr <- any0, AckOptions <- {{"LEASE"}}, Lease <- 4, Wrap <- 6, MaxTries <- 1, MaxCalls <- 1, dhcp <- v1,
  netif <- v2, wire <- v3, half <- v4, age <- v5, calls <- v6, odd <- v7

Ig == INSTANCE Igmp WITH
  Netifs <- <<1, 2>>, PoolSize <- 3, MaxResps <- {2, 3}, JOIN_TMR <- 3, MaxUse <- 2, MaxCalls <- 3, list <- v1, joins <- v2,
  asked <- v3, other <- v4, calls <- v5, odd <- v6

Ni == INSTANCE Netif WITH
  Netifs <- {if1, if2}, Addrs <- {adr1, adr2}, NoAddr <- adr0, NoNetif <- if0, NumWrap <- 2, MaxPbufs <- 3, CntWrap <- 8,
  MaxLoop <- 0, MaxCalls <- 6, list <- v1, default <- v2, netif_num <- v3, num <- v4, addr <- v5, up <- v6, conns <- v7,
  queue <- v8, cnt <- v9, got <- v10, sent <- v11, calls <- v12, odd <- v13

Lo == INSTANCE Netif WITH
  Netifs <- {if1, if2}, Addrs <- {adr1, adr2}, NoAddr <- adr0, NoNetif <- if0, NumWrap <- 2, MaxPbufs <- 3, CntWrap <- 8,
  MaxLoop <- 4, MaxCalls <- 1, list <- v1, default <- v2, netif_num <- v3, num <- v4, addr <- v5, up <- v6, conns <- v7,
  queue <- v8, cnt <- v9, got <- v10, sent <- v11, calls <- v12, odd <- v13

Nb == INSTANCE Netbuf WITH
  Netbufs <- {nb1, nb2, nb3}, Pbufs <- {pk1, pk2, pk3}, Null <- nothing, BoxSize <- 2, MaxDatagrams <- 3, MaxCalls <- 5,
  pool <- v1, free <- v2, p <- v3, ptr <- v4, app <- v5, recvmbox <- v6, valid <- v7, lastdata <- v8, local <- v9, no <- v10,
  got <- v11, arrived <- v12, calls <- v13, odd <- v14

Octet(name) == [b |-> name, t |-> FALSE, of |-> <<>>]
Frames == <<[proto |-> "lcp", data |-> <<Octet("esc")>>], [proto |-> "ip", data |-> <<Octet("ctl"), Octet("flag")>>]>>
Pf == INSTANCE PppFrame WITH
  Packets <- Frames, Map <- {Octet("ctl")}, PBUF_POOL_BUFSIZE <- 3, MaxFails <- 1, outACCM <- v1, accomp <- v2,
  pcomp <- v3, inACCM <- v4, sent <- v5, line <- v6, inState <- v7, inEscaped <- v8, inFCS <- v9, inProtocol <- v10,
  chain <- v11, from <- v12, got <- v13, done <- v14, hurt <- v15, noise <- v16, fails <- v17

Unchanged == [kind |-> 0, seq |-> 0, ack |-> 0, wnd |-> 0, id |-> 1, urg |-> FALSE, urgp |-> 0, psh |-> FALSE, data |-> 0]
Differences ==
  {Unchanged, [Unchanged EXCEPT !.seq = 2, !.data = 2], [Unchanged EXCEPT !.seq = 2, !.ack = 2, !.id = 0, !.psh = TRUE],
   [Unchanged EXCEPT !.seq = 5, !.wnd = 15, !.urg = TRUE, !.urgp = 0], [Unchanged EXCEPT !.ack = 15, !.id = 4],
   [Unchanged EXCEPT !.ack = 16], [Unchanged EXCEPT !.seq = 63, !.data = 3], [Unchanged EXCEPT !.kind = 1, !.wnd = 4],
   [Unchanged EXCEPT !.seq = 1, !.ack = 1, !.wnd = 1, !.urg = TRUE, !.urgp = 3, !.data = 1],
   [Unchanged EXCEPT !.urg = TRUE, !.urgp = 6, !.data = 2, !.psh = TRUE]}
Text == [ports |-> 1, seq |-> 1, ack |-> 0, wnd |-> 0, urgp |-> 0, urg |-> FALSE, psh |-> FALSE, more |-> 0]
Vj == INSTANCE VjComp WITH
  Conns <- {1}, MAX_SLOTS <- 3, BYTE <- 4, LONG <- 64, LONG_WORDS <- 1, Bodies <- {Text}, Changes <- Differences,
  compressSlot <- TRUE, MaxPackets <- 4, MaxLost <- 1, hdr <- v1, ring <- v2, tstate <- v3, tbody <- v13,
  last_xmit <- v4, rstate <- v5, last_recv <- v6, toss <- v7, stale <- v8, wrong <- v9, packets <- v10, lost <- v11,
  odd <- v12

Vs == INSTANCE VjComp WITH
  Conns <- {1, 2, 3}, MAX_SLOTS <- 2, BYTE <- 4, LONG <- 64, LONG_WORDS <- 1, Bodies <- {Text},
  Changes <- {[Unchanged EXCEPT !.seq = 2, !.data = 2], [Unchanged EXCEPT !.ack = 1]}, compressSlot <- TRUE,
  MaxPackets <- 5, MaxLost <- 1, hdr <- v1, ring <- v2, tstate <- v3, tbody <- v13, last_xmit <- v4, rstate <- v5,
  last_recv <- v6, toss <- v7, stale <- v8, wrong <- v9, packets <- v10, lost <- v11, odd <- v12

\* The same on x86-64.
Vl == INSTANCE VjComp WITH
  Conns <- {1, 2}, MAX_SLOTS <- 2, BYTE <- 4, LONG <- 64, LONG_WORDS <- 2,
  Bodies <- {Text, [Text EXCEPT !.more = 1], [Text EXCEPT !.more = 1, !.ack = 1, !.psh = TRUE]},
  Changes <- {[Unchanged EXCEPT !.seq = 2, !.data = 2], [Unchanged EXCEPT !.ack = 1]}, compressSlot <- FALSE, MaxPackets <- 4,
  MaxLost <- 1, hdr <- v1, ring <- v2, tstate <- v3, tbody <- v13, last_xmit <- v4, rstate <- v5, last_recv <- v6, toss <- v7,
  stale <- v8, wrong <- v9, packets <- v10, lost <- v11, odd <- v12

\* Octets of numbers, and sub-identifiers, at the edges of their encodings.
Quads == {<<w, x, y, z>> : w \in {0, 127, 128, 255}, x \in {0, 128, 255}, y \in {0, 127, 128, 255}, z \in {0, 1, 127, 128, 255}}
SubIds == {0, 127, 128, 16384, 2097152, 268435455, 268435456, 2147483647, -1}
ObjectIds == {<<>>, <<1>>, <<1, 3>>, <<0, 0>>, <<2, 175>>, <<2, 176>>, <<2, 5, 1, 2, 3>>}
             \union {<<1, 3, x>> : x \in SubIds} \union {<<0, 39, x, y>> : x \in SubIds, y \in SubIds}
As == INSTANCE Asn1 WITH
  Cuts <- {<<6>>, <<1, 5>>, <<2, 3>>, <<1, 1, 1, 4>>}, Offsets <- {0, 1}, Numbers <- Quads, Oids <- ObjectIds,
  Raws <- UNION {[1..n -> {0, 1}] : n \in 0..4}, Lengths <- {0, 127, 128, 255, 256, 65535}, LWIP_SNMP_OBJ_ID_LEN <- 4,
  msg <- v1, ofs <- v2, kind <- v3, value <- v4, len <- v5, err <- v6, out <- v7, at <- v8

-----------------------------------------------------------------------------
(* Timeouts, mailboxes and sockets of a host, and protocols between hosts *)

\* Shorter than the wrap of the clock, one of them the shortest of all.
IntervalOf(h) == CASE h = "tcp" -> 1 [] h = "app" -> 3 [] h = "arp" -> 4 [] h = "reass" -> 2
Ti == INSTANCE Timers WITH
  Periodic <- {"arp", "reass"}, TCP <- "tcp", APP <- "app", Interval <- IntervalOf, MEMP_NUM_SYS_TIMEOUT <- 5, Wrap <- 6,
  MaxPcbs <- 1, next_timeout <- v1, timeouts_last_time <- v2, now <- v3, diff <- v4, tcpip_tcp_timer_active <- v5, pcbs <- v6,
  rem <- v7

Mb == INSTANCE SysMbox WITH
  Senders <- {"s1", "s2"}, Readers <- {"r1", "r2"}, SYS_MBOX_SIZE <- 2, NoThread <- "0xDEAD", Timed <- TRUE, MaxMsgs <- 3,
  MaxNest <- 2, msgs <- v1, wait_send <- v2, not_empty <- v3, not_full <- v4, at <- v5, msg <- v6, posted <- v7, fetched <- v8,
  lwprot_thread <- v9, lwprot_count <- v10, depth <- v11

Ms == INSTANCE SysMbox WITH
  Senders <- {"s1", "s2"}, Readers <- {"r1"}, SYS_MBOX_SIZE <- 3, NoThread <- "0xDEAD", Timed <- TRUE, MaxMsgs <- 4,
  MaxNest <- 1, msgs <- v1, wait_send <- v2, not_empty <- v3, not_full <- v4, at <- v5, msg <- v6, posted <- v7, fetched <- v8,
  lwprot_thread <- v9, lwprot_count <- v10, depth <- v11

Nc == INSTANCE Netconn WITH
  Threads <- {"t1"}, MaxCalls <- 4, None <- nobody, NonBlocking <- FALSE, RecvSize <- 2, SndBuf <- 1, Wnd <- 2, Lens <- {1, 3},
  Shuts <- {"RD", "WR", "RDWR"}, MaxFails <- 1, conn <- v1, th <- v2, mbox <- v3, rest <- v4, bad <- v5, odd <- v6, told <- v7,
  sent <- v8, fin <- v9, calls <- v10, fails <- v11

Ns == INSTANCE Netconn WITH
  Threads <- {"t1", "t2"}, MaxCalls <- 3, None <- nobody, NonBlocking <- FALSE, RecvSize <- 2, SndBuf <- 1, Wnd <- 2,
  Lens <- {1, 3}, Shuts <- {"RD", "WR", "RDWR"}, MaxFails <- 1, conn <- v1, th <- v2, mbox <- v3, rest <- v4, bad <- v5,
  odd <- v6, told <- v7, sent <- v8, fin <- v9, calls <- v10, fails <- v11

Se == INSTANCE Select WITH
  Threads <- {"A"}, None <- nobody, NUM_SOCKETS <- 2, Waited <- [t \in {"A"} |-> {1, 2}], Closes <- TRUE, Timeouts <- TRUE,
  MaxEvents <- 2, MaxSelects <- 2, sock <- v1, select_cb_list <- v2, select_cb_ctr <- v3, th <- v4, walk <- v5, events <- v6,
  selects <- v7, bad <- v8, odd <- v9

S2 == INSTANCE Select WITH
  Threads <- {"A", "B"}, None <- nobody, NUM_SOCKETS <- 2, Waited <- [t \in {"A", "B"} |-> IF t = "A" THEN {1, 2} ELSE {1}],
  Closes <- FALSE, Timeouts <- FALSE, MaxEvents <- 2, MaxSelects <- 1, sock <- v1, select_cb_list <- v2, select_cb_ctr <- v3,
  th <- v4, walk <- v5, events <- v6, selects <- v7, bad <- v8, odd <- v9

\* Three routers in a circle, each with the next as its default.
Link(net, host, gw) == [net |-> net, host |-> host, gw |-> gw, mtu |-> IF net = 3 THEN 1 ELSE 2]
Ring == <<<<Link(1, 1, 3), Link(2, 1, 2)>>, <<Link(2, 2, 1), Link(3, 2, 3)>>, <<Link(3, 3, 2), Link(1, 3, 1)>>>>
NoAnswer == [proto |-> "none", dst |-> <<0, 0>>, df |-> FALSE, size |-> 1, via |-> 0]
Request(src, dst, proto, ttl) ==
  [src |-> src, dst |-> dst, proto |-> proto, ttl |-> ttl, about |-> NoAnswer, df |-> FALSE, size |-> 1]
Long(p, df) == [p EXCEPT !.size = 2, !.df = df]
Traffic == {Request(<<1, 3>>, <<3, 2>>, "echo", 3), Request(<<9, 9>>, <<9, 8>>, "udp", 0), Request(<<1, 3>>, <<9, 8>>, "other", 3),
            Request(<<1, 3>>, <<2, 7>>, "other", 3), Request(<<1, 3>>, <<2, 7>>, "echo", 2), Request(<<9, 9>>, <<3, 2>>, "udp", 3),
            Long(Request(<<1, 3>>, <<3, 2>>, "echo", 3), TRUE), Long(Request(<<1, 1>>, <<3, 2>>, "icmp error", 3), TRUE),
            Long(Request(<<1, 1>>, <<3, 2>>, "echo", 3), FALSE)}
Ip == INSTANCE Ip WITH
  Nodes <- {1, 2, 3}, Config <- Ring, Default <- <<2, 2, 2>>, BC <- 7, MaxTtl <- 3, Requests <- Traffic, up <- v1, net <- v2,
  loop <- v3, budget <- v4

Tc == INSTANCE TcpConn WITH
  TCP_WND <- 4, TCP_SYNMAXRTX <- 1, TCP_MAXRTX <- 2, U8 <- 4, Windows <- {1, 2}, Writes <- {2}, Gaps <- {9},
  MaxCalls <- 3, MaxAccepts <- 1, NetSize <- 2, Rude <- FALSE, pcb <- v1, net <- v2, iss <- v3, calls <- v4,
  accepts <- v5, wrote <- v6, closed <- v7, top <- v8, reached <- v9, eof <- v10, finacked <- v11

Tg == INSTANCE TcpConn WITH
  TCP_WND <- 4, TCP_SYNMAXRTX <- 1, TCP_MAXRTX <- 2, U8 <- 4, Windows <- {1}, Writes <- {2}, Gaps <- {1},
  MaxCalls <- 4, MaxAccepts <- 2, NetSize <- 1, Rude <- TRUE, pcb <- v1, net <- v2, iss <- v3, calls <- v4,
  accepts <- v5, wrote <- v6, closed <- v7, top <- v8, reached <- v9, eof <- v10, finacked <- v11

Dn == INSTANCE Dns WITH
  Names <- {<<"x">>, <<"x", "y">>, <<"z">>}, DNS_TABLE_SIZE <- 2, DNS_MAX_RETRIES <- 2, Servers <- 1, SeqWrap <- 2, Ttls <- {1},
  TtlWrap <- 4, MaxRequests <- 3, dns_table <- v1, dns_seqno <- v2, connected <- v3, wire <- v4, reqs <- v5, odd <- v6

Fs == INSTANCE PppFsm WITH
  Wants <- [e \in {"A", "B"} |-> IF e = "A" THEN 1 ELSE 2], Allows <- [e \in {"A", "B"} |-> {2}], Silent <- {},
  maxconfreqtransmits <- 2, maxtermtransmits <- 2, maxnakloops <- 1, IdWrap <- 16, NetSize <- 4, MaxLost <- 1, MaxEarly <- 0,
  MaxCalls <- 5, f <- v1, net <- v2, line <- v3, lost <- v4, early <- v5, calls <- v6, odd <- v7

Cp == INSTANCE PppAuth WITH
  Asks <- [e \in {"A", "B"} |-> IF e = "A" THEN "CHAP" ELSE "no"], Knows <- {"B"}, Interval <- {"A"}, maxconnect <- {"A"},
  auth_required <- {"A"}, idle_time_limit <- {"B"},
  max_transmits <- 2, us_maxtransmits <- 2, MaxLinks <- 2, MaxLost <- 1, MaxEarly <- 1, MaxAgain <- 1, u <- v1, timers <- v2,
  net <- v3, link <- v4, lost <- v5, early <- v6, again <- v7, odd <- v8

Pp == INSTANCE PppAuth WITH
  Asks <- [e \in {"A", "B"} |-> IF e = "A" THEN "PAP" ELSE "no"], Knows <- {"B"}, Interval <- {"A"}, maxconnect <- {"A"},
  auth_required <- {"A"}, idle_time_limit <- {"B"},
  max_transmits <- 2, us_maxtransmits <- 2, MaxLinks <- 2, MaxLost <- 1, MaxEarly <- 1, MaxAgain <- 1, u <- v1, timers <- v2,
  net <- v3, link <- v4, lost <- v5, early <- v6, again <- v7, odd <- v8

Rf == INSTANCE PppAuth WITH
  Asks <- [e \in {"A", "B"} |-> "no"], Knows <- {}, Interval <- {}, maxconnect <- {"B"}, auth_required <- {"A"},
  idle_time_limit <- {"B"}, max_transmits <- 2, us_maxtransmits <- 2, MaxLinks <- 2, MaxLost <- 1, MaxEarly <- 1, MaxAgain <- 1,
  u <- v1, timers <- v2, net <- v3, link <- v4, lost <- v5, early <- v6, again <- v7, odd <- v8

LcpBase == [mru |-> 4, ao_mru |-> 7, map |-> {}, xmit_accm |-> {}, auth |-> {}, proves |-> {"CHAP", "PAP"},
            comp |-> {"PCOMP", "ACCOMP"}, neg |-> {"MRU", "ASYNCMAP", "MAGIC"},
            allow |-> {"MRU", "ASYNCMAP", "MAGIC", "PCOMP", "ACCOMP"}]
LcpConfigs == {LcpBase, [LcpBase EXCEPT !.mru = 1, !.xmit_accm = {2}, !.auth = {"CHAP", "PAP"}],
               [LcpBase EXCEPT !.mru = 7, !.map = {1}, !.proves = {"PAP"}, !.comp = {"PCOMP"}],
               [LcpBase EXCEPT !.auth = {"PAP"}, !.proves = {"CHAP"}, !.map = {1, 2}, !.allow = {"MRU", "PCOMP", "ASYNCMAP"}],
               [LcpBase EXCEPT !.proves = {}, !.allow = {}, !.neg = {"MRU", "ASYNCMAP"}, !.mru = 3]}
Lc == INSTANCE LcpOptions WITH
  Configs <- LcpConfigs, PPP_MINMRU <- 2, PPP_DEFMRU <- 4, PPP_MRU <- 7, Chars <- {1, 2}, Magics <- {1, 2}, maxnakloops <- 2,
  lcp_loopbackfail <- 3, MaxLost <- 1, cfg <- v1, looped <- v2, go <- v3, ho <- v4, acked <- v5, nakloops <- v6, result <- v7,
  conf <- v8, lost <- v9

IpcpHost == [our |-> 0, his |-> 0, dns |-> 0, vj |-> TRUE, slots |-> 3, cflag |-> FALSE, ao_slots |-> 3, ao_cflag |-> TRUE]
IpcpConfigs == {IpcpHost, [IpcpHost EXCEPT !.our = 1, !.his = 2, !.dns = 9], [IpcpHost EXCEPT !.our = 2, !.slots = 5, !.ao_slots = 1],
                [IpcpHost EXCEPT !.our = 3, !.cflag = TRUE, !.slots = 1], [IpcpHost EXCEPT !.his = 2, !.ao_cflag = FALSE, !.dns = 9],
                [IpcpHost EXCEPT !.vj = FALSE]}
Ic == INSTANCE IpcpOptions WITH
  Configs <- IpcpConfigs, maxnakloops <- 2, MaxLost <- 1, MaxRestarts <- 1, wo <- v1, go <- v2, ho <- v3, cis_received <- v4,
  acked <- v5, nakloops <- v6, result <- v7, iface <- v8, lost <- v9, restarts <- v10

Oe == INSTANCE PppOe WITH
  ACs <- {1, 2}, NoAc <- 0, Sessions <- {1}, PPPOE_DISC_MAXPADI <- 2, PPPOE_DISC_MAXPADR <- 2, NetSize <- 2, MaxConnects <- 2,
  MaxOffers <- 2, MaxFails <- 1, sc <- v1, timers <- v2, net <- v3, open <- v4, link <- v5, connects <- v6, offers <- v7,
  fails <- v8, odd <- v9

-----------------------------------------------------------------------------
\* A unit leaves the variables it does not have alone.
rest14 == <<v15, v16, v17>>
rest13 == <<v14, rest14>>
rest12 == <<v13, rest13>>
rest11 == <<v12, rest12>>
rest10 == <<v11, rest11>>
rest9 == <<v10, rest10>>
rest8 == <<v9, rest9>>
rest7 == <<v8, rest8>>
rest6 == <<v7, rest7>>
rest5 == <<v6, rest6>>
rest4 == <<v5, rest5>>
Unused14 == v15 = 0 /\ v16 = 0 /\ v17 = 0
Unused13 == v14 = 0 /\ Unused14
Unused12 == v13 = 0 /\ Unused13
Unused11 == v12 = 0 /\ Unused12
Unused10 == v11 = 0 /\ Unused11
Unused9 == v10 = 0 /\ Unused10
Unused8 == v9 = 0 /\ Unused9
Unused7 == v8 = 0 /\ Unused8
Unused6 == v7 = 0 /\ Unused7
Unused5 == v6 = 0 /\ Unused6
Unused4 == v5 = 0 /\ Unused5

-----------------------------------------------------------------------------
(* Memory, packets, protocols and tables of one host *)

NetInit ==
  \/ unit = "pbufdata" /\ Pd!Init /\ Unused7
  \/ unit = "ipfrag" /\ Fr!Init /\ Unused7
  \/ unit = "udp" /\ Ud!Init /\ Unused5
  \/ unit = "udp_two" /\ U2!Init /\ Unused5
  \/ unit = "tcprecv" /\ Tr!Init /\ Unused7
  \/ unit = "tcpsend" /\ Ts!Init /\ Unused6
  \/ unit = "pmap" /\ Pm!Init /\ Unused9
  \/ unit = "vmmemory" /\ Vm!Init /\ Unused9
  \/ unit = "tcppcbs" /\ Tp!Init /\ Unused14
  \/ unit = "dhcp" /\ Dh!Init /\ Unused7
  \/ unit = "igmp" /\ Ig!Init /\ Unused6
  \/ unit = "netif" /\ Ni!Init /\ Unused13
  \/ unit = "loopback" /\ Lo!Init /\ Unused13
  \/ unit = "netbuf" /\ Nb!Init /\ Unused14
  \/ unit = "pppframe" /\ Pf!Init
  \/ unit = "vj" /\ Vj!Init /\ Unused13
  \/ unit = "vj_slots" /\ Vs!Init /\ Unused13
  \/ unit = "vj_long" /\ Vl!Init /\ Unused13
  \/ unit = "asn1" /\ As!Init /\ Unused8
  \/ unit = "etharp" /\ Ar!Init /\ Unused6

NetNext ==
  \/ unit = "pbufdata" /\ Pd!Next /\ UNCHANGED <<unit, rest7>>
  \/ unit = "ipfrag" /\ Fr!Next /\ UNCHANGED <<unit, rest7>>
  \/ unit = "udp" /\ Ud!Next /\ UNCHANGED <<unit, rest5>>
  \/ unit = "udp_two" /\ U2!Next /\ UNCHANGED <<unit, rest5>>
  \/ unit = "tcprecv" /\ Tr!Next /\ UNCHANGED <<unit, rest7>>
  \/ unit = "tcpsend" /\ Ts!Next /\ UNCHANGED <<unit, rest6>>
  \/ unit = "pmap" /\ Pm!Next /\ UNCHANGED <<unit, rest9>>
  \/ unit = "vmmemory" /\ Vm!Next /\ UNCHANGED <<unit, rest9>>
  \/ unit = "tcppcbs" /\ Tp!Next /\ UNCHANGED <<unit, rest14>>
  \/ unit = "dhcp" /\ Dh!Next /\ UNCHANGED <<unit, rest7>>
  \/ unit = "igmp" /\ Ig!Next /\ UNCHANGED <<unit, rest6>>
  \/ unit = "netif" /\ Ni!Next /\ UNCHANGED <<unit, rest13>>
  \/ unit = "loopback" /\ Lo!Next /\ UNCHANGED <<unit, rest13>>
  \/ unit = "netbuf" /\ Nb!Next /\ UNCHANGED <<unit, rest14>>
  \/ unit = "pppframe" /\ Pf!Next /\ UNCHANGED unit
  \/ unit = "vj" /\ Vj!Next /\ UNCHANGED <<unit, rest13>>
  \/ unit = "vj_slots" /\ Vs!Next /\ UNCHANGED <<unit, rest13>>
  \/ unit = "vj_long" /\ Vl!Next /\ UNCHANGED <<unit, rest13>>
  \/ unit = "asn1" /\ As!Next /\ UNCHANGED <<unit, rest8>>
  \/ unit = "etharp" /\ Ar!Next /\ UNCHANGED <<unit, rest6>>

NetSpec == NetInit /\ [][NetNext]_vars

\* What is copied, searched, summed, encoded, framed or compressed comes out as it went in:
\* copies, searches and checksums depend on the bytes of a packet only, not on how they are
\* cut into pbufs and aligned; an ASN.1 value is read back as it was written; a PPP frame
\* is delivered as it was sent unless the line disturbed it; a header compressed by Van
\* Jacobson is restored, unless a frame was lost.
CodingsOK ==
  /\ unit = "pbufdata" =>
      /\ Pd!CopyRight
      /\ Pd!PartialRight
      /\ Pd!TakeRight
      /\ Pd!FindRightUnlessPartly
      /\ Pd!CutsDoNotMatter
      /\ Pd!PartialCoversPrefix
      /\ Pd!PatchedVerifies
  /\ unit = "asn1" =>
      /\ As!RoundTripUnlessOdd
      /\ As!CountIsWritten
      /\ As!RefusesOnlyWithoutRoomUnless
      /\ As!EndlessEndsAtZeros
  /\ unit = "pppframe" => Pf!TypeOK /\ Pf!NullTailOnlyIfMadeUp /\ Pf!DeliversWhatWasSent /\ Pf!UndisturbedArrives
  /\ unit = "vj" => Vj!TypeOK /\ Vj!RightUnlessLost /\ Vj!SlotsAgree /\ Vj!OneSlotEachUnlessLong
  /\ unit = "vj_slots" =>
      /\ Vs!TypeOK
      /\ Vs!RightUnlessLost
      /\ Vs!SlotsAgree
      /\ Vs!OneSlotEachUnlessLong
  /\ unit = "vj_long" => Vl!TypeOK /\ Vl!RightUnlessLost /\ Vl!SlotsAgree

\* Memory of the VMs: a page has one use and the tables of a VM map what it may see, unless
\* its memory is high or covers a table; pages are counted by the VMs that use them, two
\* VMs share only what they may, and PM stops only without memory, but for the named cases.
VmSpaceOK ==
  /\ unit = "pmap" =>
      /\ Pm!OneUseUnlessHigh
      /\ Pm!SeesItsMemoryUnlessCovered
      /\ Pm!StopsOnlyWithoutMemoryUnless1GB
  /\ unit = "vmmemory" =>
      /\ Vm!CountsExactUnlessNoBss
      /\ Vm!IsolatedUnless
      /\ Vm!PanicsOnlyUnless


\* Fragments: the count of queued pbufs is right and within its limit, a datagram that is
\* returned is whole except for a hole right before the fragment that completed it, and
\* room for a fragment is never made by dropping its own datagram.
FragmentsOK ==
  /\ [](unit = "ipfrag" => Fr!CountRight /\ Fr!CompleteUnlessHoleBefore)
  /\ [][unit = "ipfrag" => Fr!KeepsOwnDatagramStep]_vars

\* UDP: the list holds exactly the bound pcbs, no two own the same address and port except
\* after a bind that failed half way, a free port is found if there is one, and a datagram
\* goes to the socket that fits it best.
UdpOK ==
  /\ unit = "udp" =>
      /\ Ud!ListIsBound
      /\ Ud!OneOwnerUnlessSpoilt
      /\ Ud!FailsOnlyWhenFull
      /\ Ud!DeliveredRight
  /\ unit = "udp_two" =>
      /\ U2!ListIsBound
      /\ U2!OneOwnerUnlessSpoilt
      /\ U2!FailsOnlyWhenFull
      /\ U2!DeliveredRight

\* TCP, receiving: every byte is delivered once and in order unless a queued segment was
\* given a length beyond its data; segments that came early are queued in order and without
\* overlap; no assertion fails but for a FIN behind the window; the missing byte is taken
\* when it comes; the announced edge only grows.
StreamReceived ==
  /\ [](unit = "tcprecv" =>
      /\ Tr!DeliveredInOrderUnlessGrown
      /\ Tr!QueueSorted
      /\ Tr!NoPanicUnlessFinBehindWindow
      /\ Tr!NeverWedged)
  /\ [][unit = "tcprecv" => Tr!EdgeNeverShrinksStep]_vars

\* TCP, sending: unacked and unsent hold the stream without gap or overlap and the counts
\* agree; the sent callback hears of every byte once; the room behind the last segment is
\* what tcp_write believes unless segments were sent again; while something is
\* unacknowledged a timer runs or somebody will act, unless the first segment does not fit
\* an open window.
StreamSent ==
  unit = "tcpsend" =>
      /\ Ts!QueuesHoldStream
      /\ Ts!ReportsAddUp
      /\ Ts!OversizeAgreesUnlessResent
      /\ Ts!SomethingPendingUnlessTooSmall

-----------------------------------------------------------------------------
(* Timeouts, mailboxes and sockets of a host, and protocols between hosts *)

HostsInit ==
  \/ unit = "timers" /\ Ti!Init /\ Unused7
  \/ unit = "mbox" /\ Mb!Init /\ Unused11
  \/ unit = "mbox_single" /\ Ms!Init /\ Unused11
  \/ unit = "netconn" /\ Nc!Init /\ Unused11
  \/ unit = "netconn_shared" /\ Ns!Init /\ Unused11
  \/ unit = "select" /\ Se!Init /\ Unused9
  \/ unit = "select_two" /\ S2!Init /\ Unused9
  \/ unit = "ip" /\ Ip!Init /\ Unused4
  \/ unit = "tcp" /\ Tc!Init /\ Unused11
  \/ unit = "tcp_again" /\ Tg!Init /\ Unused11
  \/ unit = "dns" /\ Dn!Init /\ Unused6
  \/ unit = "fsm" /\ Fs!Init /\ Unused7
  \/ unit = "chap" /\ Cp!Init /\ Unused8
  \/ unit = "pap" /\ Pp!Init /\ Unused8
  \/ unit = "refused" /\ Rf!Init /\ Unused8
  \/ unit = "lcp" /\ Lc!Init /\ Unused9
  \/ unit = "ipcp" /\ Ic!Init /\ Unused10
  \/ unit = "pppoe" /\ Oe!Init /\ Unused9

HostsNext ==
  \/ unit = "timers" /\ Ti!Next /\ UNCHANGED <<unit, rest7>>
  \/ unit = "mbox" /\ Mb!Next /\ UNCHANGED <<unit, rest11>>
  \/ unit = "mbox_single" /\ Ms!Next /\ UNCHANGED <<unit, rest11>>
  \/ unit = "netconn" /\ Nc!Next /\ UNCHANGED <<unit, rest11>>
  \/ unit = "netconn_shared" /\ Ns!Next /\ UNCHANGED <<unit, rest11>>
  \/ unit = "select" /\ Se!Next /\ UNCHANGED <<unit, rest9>>
  \/ unit = "select_two" /\ S2!Next /\ UNCHANGED <<unit, rest9>>
  \/ unit = "ip" /\ Ip!Next /\ UNCHANGED <<unit, rest4>>
  \/ unit = "tcp" /\ Tc!Next /\ UNCHANGED <<unit, rest11>>
  \/ unit = "tcp_again" /\ Tg!Next /\ UNCHANGED <<unit, rest11>>
  \/ unit = "dns" /\ Dn!Next /\ UNCHANGED <<unit, rest6>>
  \/ unit = "fsm" /\ Fs!Next /\ UNCHANGED <<unit, rest7>>
  \/ unit = "chap" /\ Cp!Next /\ UNCHANGED <<unit, rest8>>
  \/ unit = "pap" /\ Pp!Next /\ UNCHANGED <<unit, rest8>>
  \/ unit = "refused" /\ Rf!Next /\ UNCHANGED <<unit, rest8>>
  \/ unit = "lcp" /\ Lc!Next /\ UNCHANGED <<unit, rest9>>
  \/ unit = "ipcp" /\ Ic!Next /\ UNCHANGED <<unit, rest10>>
  \/ unit = "pppoe" /\ Oe!Next /\ UNCHANGED <<unit, rest9>>

\* The fairness of each module, for the behaviours of its unit.
MbStep == unit = "mbox" /\ UNCHANGED <<unit, rest11>>
MsStep == unit = "mbox_single" /\ UNCHANGED <<unit, rest11>>
NcStep == unit = "netconn" /\ UNCHANGED <<unit, rest11>>
NsStep == unit = "netconn_shared" /\ UNCHANGED <<unit, rest11>>
SeStep == unit = "select" /\ UNCHANGED <<unit, rest9>>
S2Step == unit = "select_two" /\ UNCHANGED <<unit, rest9>>
IpStep == unit = "ip" /\ UNCHANGED <<unit, rest4>>

\* A behaviour is of one unit, so conditions of several units can be stated as one.
HostsWeak1 ==
  \/ MbStep /\ (Mb!sys_arch_unprotect("s1") \/ Mb!sys_arch_unprotect("s2") \/ Mb!sys_arch_unprotect("r1") \/ Mb!sys_arch_unprotect("r2"))
  \/ MsStep /\ (Ms!sys_arch_unprotect("s1") \/ Ms!sys_arch_unprotect("s2") \/ Ms!sys_arch_unprotect("r1"))
  \/ NcStep /\ Nc!Sane /\ (Nc!tcpip_thread \/ Nc!Rest)
  \/ NsStep /\ Ns!Sane /\ (Ns!tcpip_thread \/ Ns!Rest)
  \/ SeStep /\ v8 = {} /\ Se!again
  \/ S2Step /\ v8 = {} /\ S2!again
  \/ IpStep /\ Ip!Deliver
HostsWeak2 ==
  \/ MbStep /\ (Mb!NotFull("s1") \/ Mb!RetryPost("s1"))
  \/ MsStep /\ (Ms!NotFull("s1") \/ Ms!RetryPost("s1"))
  \/ NcStep /\ Nc!Sane /\ Nc!Return("t1")
  \/ NsStep /\ Ns!Sane /\ Ns!Return("t1")
  \/ SeStep /\ v8 = {} /\ (Se!Selecting("A") \/ Se!Wait("A"))
  \/ S2Step /\ v8 = {} /\ (S2!Selecting("A") \/ S2!Wait("A"))
HostsWeak3 ==
  \/ MbStep /\ (Mb!NotFull("s2") \/ Mb!RetryPost("s2"))
  \/ MsStep /\ (Ms!NotFull("s2") \/ Ms!RetryPost("s2"))
  \/ NsStep /\ Ns!Sane /\ Ns!Return("t2")
  \/ S2Step /\ v8 = {} /\ (S2!Selecting("B") \/ S2!Wait("B"))
HostsWeak4 ==
  \/ MbStep /\ (Mb!NotEmpty("r1") \/ Mb!RetryFetch("r1"))
  \/ MsStep /\ (Ms!NotEmpty("r1") \/ Ms!RetryFetch("r1"))
HostsWeak5 ==
  MbStep /\ (Mb!NotEmpty("r2") \/ Mb!RetryFetch("r2"))
HostsStrong1 ==
  \/ MbStep /\ v11["r1"] = 0 /\ Mb!sys_arch_mbox_fetch("r1", FALSE)
  \/ MsStep /\ v11["r1"] = 0 /\ Ms!sys_arch_mbox_fetch("r1", FALSE)
HostsStrong2 ==
  MbStep /\ v11["r2"] = 0 /\ Mb!sys_arch_mbox_fetch("r2", FALSE)

HostsFairness ==
  /\ WF_vars(HostsWeak1)
  /\ WF_vars(HostsWeak2)
  /\ WF_vars(HostsWeak3)
  /\ WF_vars(HostsWeak4)
  /\ WF_vars(HostsWeak5)
  /\ SF_vars(HostsStrong1)
  /\ SF_vars(HostsStrong2)

HostsSpec == HostsInit /\ [][HostsNext]_vars /\ HostsFairness

\* Timeouts of lwIP: the list agrees with the time left of every timeout in whatever order
\* they are set, fire and are cancelled, and tcp_tmr is scheduled exactly once while there
\* are connections.
TimeoutsOK ==
  unit = "timers" => Ti!DeltasAddUp /\ Ti!TcpTimerOnce

\* Mailboxes, netconns and sockets: messages are fetched in order and each once, only one
\* thread is in the critical region; a thread is signalled only for its own call and what
\* it writes is taken once, unless two threads share a netconn; select misses no event
\* unless the socket is closed under it.
SocketsOK ==
  /\ unit = "mbox" => Mb!TypeOK /\ Mb!InOrder /\ Mb!WaitersCounted /\ Mb!OneInRegion
  /\ unit = "mbox_single" =>
      /\ Ms!InOrder
      /\ Ms!NoSleepBesideMessage
      /\ Ms!WaitersCounted
      /\ Ms!OneInRegion
  /\ unit = "netconn" =>
      /\ Nc!NoSignalStolenUnlessShared
      /\ Nc!SignalIsForACall
      /\ Nc!SoundUnless
      /\ Nc!WrittenOnce
      /\ Nc!WindowReturned
      /\ Nc!UsableUnlessSpoilt
  /\ unit = "netconn_shared" =>
      /\ Ns!NoSignalStolenUnlessShared
      /\ Ns!SignalIsForACall
      /\ Ns!SoundUnless
      /\ Ns!WrittenOnce
      /\ Ns!WindowReturned
      /\ Ns!UsableUnlessSpoilt
  /\ unit = "select" =>
      /\ Se!NoMissedEventUnlessClosed
      /\ Se!CountedUnlessClosed
      /\ Se!WalksTheList
  /\ unit = "select_two" =>
      /\ S2!NoMissedEventUnlessClosed
      /\ S2!CountedUnlessClosed
      /\ S2!WalksTheList



\* PPP: the two ends of a link open with options both agreed to, wait only while a timer
\* runs, begin the network phase only once every asked or required proof was given, leave
\* no timer of a link to the next one, and agree on addresses and compression.
LinksOK ==
  /\ unit = "fsm" =>
      /\ Fs!TypeOK
      /\ Fs!TimerWhileWaitingUnlessTermAck
      /\ Fs!UpWhileOpenedUnlessTermAck
      /\ Fs!Agreed
      /\ Fs!AllowedOnly
  /\ unit = "chap" =>
      /\ Cp!TypeOK
      /\ Cp!NetworkOnlyWhenProvenUnlessLate
      /\ Cp!CountsRightUnlessTwice
      /\ Cp!TimersStoppedUnless
      /\ Cp!WaitsWithTimerUnlessLate
  /\ unit = "pap" =>
      /\ Pp!NetworkOnlyWhenProvenUnlessLate
      /\ Pp!CountsRightUnlessTwice
      /\ Pp!TimersStoppedUnless
      /\ Pp!WaitsWithTimerUnlessLate
  /\ unit = "refused" =>
      /\ Rf!NetworkOnlyWhenProvenUnlessLate
      /\ Rf!CountsRightUnlessTwice
      /\ Rf!TimersStoppedUnless
  /\ unit = "lcp" =>
      /\ Lc!TypeOK
      /\ Lc!EndsFitUnlessUnsaid
      /\ Lc!AcksOnlyAllowed
      /\ Lc!LoopSeenUnlessNoMagic
  /\ unit = "ipcp" =>
      /\ Ic!TypeOK
      /\ Ic!AddressesAgreeUnlessConflict
      /\ Ic!CompressorsFit
      /\ Ic!UpIsUsable
  /\ unit = "pppoe" =>
      /\ Oe!TypeOK
      /\ Oe!SessionOpenUnless
      /\ Oe!WaitsWithTimerUnlessTwice
      /\ Oe!LinkIsSession

\* What was begun comes to an end, in threads and loops that run whatever the timers
\* do: a thread that waits to post, or in select, goes on unless nothing can wake it; a
\* call on a netconn returns once the network is not waited for; packets on their way
\* between hosts come to rest.
ComesToAnEnd ==
  (\/ unit = "mbox" /\ Mb!PostWaits
   \/ unit = "mbox_single" /\ Ms!PostWaits
   \/ unit = "netconn" /\ Nc!InCall
   \/ unit = "netconn_shared" /\ Ns!InCall
   \/ unit = "select" /\ Se!Sleeps
   \/ unit = "select_two" /\ S2!Sleeps
   \/ unit = "ip" /\ Ip!Moving)
  ~> (\/ unit = "mbox" /\ Mb!NoPostWaits
      \/ unit = "mbox_single" /\ Ms!NoPostWaits
      \/ unit = "netconn" /\ Nc!CallsOver
      \/ unit = "netconn_shared" /\ Ns!CallsOver
      \/ unit = "select" /\ Se!Woken
      \/ unit = "select_two" /\ S2!Woken
      \/ unit = "ip" /\ Ip!AtRest)
=============================================================================
