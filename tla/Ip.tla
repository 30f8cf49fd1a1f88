--------------------------------- MODULE Ip ---------------------------------
(***************************************************************************)
(* Hosts that run the IP layer of lwIP (core/ipv4/ip.c, icmp.c, ip_addr.c, *)
(* core/netif.c) with IP_FORWARD, joined by links: what a host accepts,    *)
(* forwards, answers with ICMP, or queues for itself.  A packet belongs to *)
(* whoever has it; ip_input always consumes what it is given.              *)
(*                                                                         *)
(* An address is <<net, host>>.  Address resolution is that of module      *)
(* Etharp and always succeeds here; the fragments of a packet, cut and put *)
(* together in IpFrag, travel as one packet that fits the link; UDP        *)
(* sockets are in Udp.  Memory for a new packet may be short at any time.  *)
(***************************************************************************)
EXTENDS Integers, Sequences, FiniteSets

CONSTANTS
  Nodes,
  Config,      \* node -> its netif_list: a sequence of [net, host, gw, mtu]; gw 0 is none
  Default,     \* node -> index of netif_default
  BC,          \* the host part of broadcast addresses
  MaxTtl,      \* 255: the largest TTL, and that of packets sent here
  Requests     \* packets that programs and foreign hosts send

VARIABLES
  up,          \* node, index -> NETIF_FLAG_UP
  net,         \* frames on the links: [n, i, bc, pkt], one for each host they reach
  loop,        \* node, index -> the loop_first queue
  budget       \* bounds the packets that come from outside, and the changes of up

vars == <<up, net, loop, budget>>

Ifs(n) == DOMAIN Config[n]
Addr(n, i) == <<Config[n][i].net, Config[n][i].host>>
\* The limited broadcast address.
ALL == <<0, BC>>
ip_addr_isbroadcast(a, n, i) == a = ALL \/ a = <<Config[n][i].net, BC>>

Init ==
  /\ up = [n \in Nodes |-> [i \in Ifs(n) |-> TRUE]]
  /\ net = {} /\ loop = [n \in Nodes |-> [i \in Ifs(n) |-> <<>>]]
  /\ budget \in 1..2
-----------------------------------------------------------------------------
\* ip_route: an interface of that net, or the default one; 0 if it is down.
ip_route(n, dest) ==
  LET fits == {i \in Ifs(n) : up[n][i] /\ Config[n][i].net = dest[1]}
  IN IF fits # {} THEN CHOOSE i \in fits : \A j \in fits : i <= j
     ELSE IF up[n][Default[n]] THEN Default[n] ELSE 0

Nothing == [frames |-> {}, queued |-> <<>>, on |-> 0]

\* What node n sends by interface i to a host of the link, or to all the others.
Frame(n, i, to, p) ==
  {[n |-> m, i |-> j, bc |-> to = BC, pkt |-> p] :
     <<m, j>> \in {<<m, j>> \in (Nodes \ {n}) \X {1, 2} :
       j \in Ifs(m) /\ Config[m][j].net = Config[n][i].net /\ to \in {BC, Config[m][j].host}}}

\* netif->output: etharp_output finds the next hop.
etharp_output(n, i, p) ==
  LET c == Config[n][i]
  IN IF ip_addr_isbroadcast(p.dst, n, i) THEN [Nothing EXCEPT !.frames = Frame(n, i, BC, p)]
     ELSE IF p.dst[1] = c.net THEN [Nothing EXCEPT !.frames = Frame(n, i, p.dst[2], p)]
     ELSE IF c.gw # 0 THEN [Nothing EXCEPT !.frames = Frame(n, i, c.gw, p)]
     ELSE Nothing

\* ip_frag: what leaves fits the link, and no longer says "don't fragment".
ip_frag(n, i, p) ==
  etharp_output(n, i, IF p.size > Config[n][i].mtu THEN [p EXCEPT !.size = Config[n][i].mtu, !.df = FALSE] ELSE p)

\* ip_output_if: a packet for the interface's own address goes to its loop queue; any
\* other is cut to the MTU, whether it may be or not.
ip_output_if(n, i, p) ==
  IF p.dst = Addr(n, i) THEN [Nothing EXCEPT !.queued = <<p>>, !.on = i]
  ELSE ip_frag(n, i, p)

ip_output(n, p) ==
  LET i == ip_route(n, p.dst)
      q == IF p.src = ALL THEN [p EXCEPT !.src = Addr(n, i)] ELSE p
  IN IF i = 0 THEN Nothing ELSE ip_output_if(n, i, q)

\* ghost: what an answer is about, and the net it came in from
About(n, i, p) == [proto |-> p.proto, dst |-> p.dst, df |-> p.df, size |-> p.size, via |-> Config[n][i].net]

\* icmp_send_response to the sender of p, about p; ip_output fills in the source (ALL).
icmp_send_response(n, i, p) ==
  ip_output(n, [src |-> ALL, dst |-> p.src, proto |-> "icmp error", ttl |-> MaxTtl, size |-> 1, df |-> FALSE,
                about |-> About(n, i, p)])
-----------------------------------------------------------------------------

ICMP == {"echo", "reply", "icmp error"}

TimeExceeded(n, i, p) ==
  IF p.proto \in ICMP THEN Nothing ELSE icmp_send_response(n, i, p)

\* Mutant: the TTL of a forwarded packet stays.
ForwardKeepsTtl(n, i, p, llbcast) ==
  LET o == ip_route(n, p.dst)
  IN IF llbcast \/ o \in {0, i} THEN Nothing ELSE ip_frag(n, o, p)


\* ip_forward, ip_canforward.  The TTL is a byte: 0 becomes the largest.  A packet that is
\* too long for the link and must not be cut is answered, of whatever protocol it is.
ip_forward(n, i, p, llbcast) ==
  LET o == ip_route(n, p.dst)
      ttl == (p.ttl - 1) % (MaxTtl + 1)
  IN IF llbcast \/ o \in {0, i} THEN Nothing
     ELSE IF ttl = 0 THEN TimeExceeded(n, i, p)
     ELSE IF p.df /\ p.size > Config[n][o].mtu THEN icmp_send_response(n, i, [p EXCEPT !.ttl = ttl])
     ELSE ip_frag(n, o, [p EXCEPT !.ttl = ttl])

\* icmp_input: an echo request is turned round, with its header, and leaves where it
\* came in.
icmp_input(n, i, p) ==
  IF p.proto # "echo" \/ ip_addr_isbroadcast(p.dst, n, i) THEN Nothing
  ELSE ip_output_if(n, i, [p EXCEPT !.src = p.dst, !.dst = p.src, !.proto = "reply", !.ttl = MaxTtl,
                                    !.about = About(n, i, p)])

\* udp_input for a port without a socket.
udp_input(n, i, p) == IF p.dst = Addr(n, i) THEN icmp_send_response(n, i, p) ELSE Nothing

UnknownProtocol(n, i, p) ==
  IF ip_addr_isbroadcast(p.dst, n, i) THEN Nothing ELSE icmp_send_response(n, i, p)

\* The interface ip_input finds for a packet: inp, or the first of the list; 0 if none.
Accepting(n, i, p) ==
  LET mine == {j \in Ifs(n) : up[n][j] /\ (p.dst = Addr(n, j) \/ ip_addr_isbroadcast(p.dst, n, j))}
  IN IF i \in mine THEN i
     ELSE IF mine = {} THEN 0 ELSE CHOOSE j \in mine : \A k \in mine : j <= k

ip_input(n, i, p, llbcast) ==
  IF ip_addr_isbroadcast(p.src, n, i) THEN Nothing
  ELSE IF Accepting(n, i, p) = 0
  THEN IF ip_addr_isbroadcast(p.dst, n, i) THEN Nothing ELSE ip_forward(n, i, p, llbcast)
  ELSE IF p.proto = "udp" THEN udp_input(n, i, p)
  ELSE IF p.proto = "other" THEN UnknownProtocol(n, i, p)
  ELSE icmp_input(n, i, p)
-----------------------------------------------------------------------------
\* The packets of a call go out; pbuf_alloc may have failed, then nothing does.
Emit(n, r, frames, queues) ==
  \E e \in {r, Nothing} :
    /\ net' = frames \union e.frames
    /\ loop' = IF e.on = 0 THEN queues ELSE [queues EXCEPT ![n][e.on] = @ \o e.queued]

\* A program sends, or a packet comes from a host outside.
Send(n, p) ==
  /\ budget > 0 /\ budget' = budget - 1
  /\ Emit(n, ip_output(n, p), net, loop)
  /\ UNCHANGED up

Arrive(n, i, p) ==
  /\ budget > 0 /\ budget' = budget - 1
  /\ Emit(n, ip_input(n, i, p, FALSE), net, loop)
  /\ UNCHANGED up

\* ethernet_input
Receive(f) ==
  /\ f \in net
  /\ Emit(f.n, ip_input(f.n, f.i, f.pkt, f.bc), net \ {f}, loop)
  /\ UNCHANGED <<up, budget>>

\* netif_poll
netif_poll(n, i) ==
  /\ loop[n][i] # <<>>
  /\ Emit(n, ip_input(n, i, Head(loop[n][i]), FALSE), net, [loop EXCEPT ![n][i] = Tail(@)])
  /\ UNCHANGED <<up, budget>>

netif_set_up_down(n, i) ==
  /\ budget > 0 /\ budget' = budget - 1
  /\ up' = [up EXCEPT ![n][i] = ~@]
  /\ UNCHANGED <<net, loop>>

Deliver == \E f \in net : Receive(f)

Next ==
  \/ \E n \in Nodes, p \in Requests : Send(n, p)
  \/ \E n \in Nodes, i \in {1, 2}, p \in Requests : i \in Ifs(n) /\ Arrive(n, i, p)
  \/ \E n \in Nodes, i \in {1, 2} : i \in Ifs(n) /\ netif_set_up_down(n, i)
  \/ \E n \in Nodes, i \in {1, 2} : i \in Ifs(n) /\ netif_poll(n, i)
  \/ Deliver

\* The driver polls its card for ever (rx_packet) and hands every frame to ip_input.
\* Nothing in this system calls netif_poll, so a loop queue may stay as it is.
Spec == Init /\ [][Next]_vars /\ WF_vars(Deliver)
-----------------------------------------------------------------------------
Flying ==
  {f.pkt : f \in net}
    \union UNION {UNION {{loop[n][i][k] : k \in DOMAIN loop[n][i]} : i \in Ifs(n)} : n \in Nodes}

\* No ICMP error is sent because of an ICMP packet ("Don't send ICMP messages in response
\* to ICMP messages", ip_forward), unless that had to be cut and must not be.  As the
\* errors lwIP makes may be cut, an error about an error is never followed by a third.
NoErrorAboutIcmpUnlessTooLong ==
  \A p \in Flying : p.proto = "icmp error" /\ p.about.proto \in ICMP =>
    /\ p.about.df /\ ~p.df
    /\ \E n \in Nodes : \E i \in Ifs(n) : p.about.size > Config[n][i].mtu

\* A broadcast is never answered ("default is unicast only", opt.h), except that to a net
\* which a host with an interface there got from another net: icmp_input and ip_input
\* compare the address with the interface the packet came in by.
NoAnswerToLocalBroadcast ==
  \A p \in Flying : p.about.dst[2] = BC => p.about.dst # ALL /\ p.about.dst[1] # p.about.via

\* What was sent comes to rest: a packet that is forwarded in a circle dies, and the
\* answers to packets do not go on for ever.
Moving == net # {}
AtRest == ~Moving
=============================================================================
