------------------------------ MODULE PppFrame ------------------------------
(***************************************************************************)
(* PPP frames over a serial line, ppp.c: pppifOutput and pppWrite at one   *)
(* end, pppInProc, one byte at a time, at the other, with a line in        *)
(* between that may lose, add or change a byte.                            *)
(*                                                                         *)
(* A byte is a name with a mark for the bit that PPP_TRANS flips.  The     *)
(* check sequence is ideal: its two bytes name what they were computed     *)
(* from, and the sum is good when the bytes since PPP_INITFCS are some     *)
(* content followed by its own two bytes.  Those of no content are zeros,  *)
(* the complement of PPP_INITFCS.                                          *)
(***************************************************************************)
EXTENDS Integers, Sequences

CONSTANTS Packets,          \* what is sent, in order: the protocol and its data
          Map,              \* the control characters the receiver asked to have escaped
          PBUF_POOL_BUFSIZE,
          MaxFails

VARIABLES outACCM, accomp, pcomp,       \* the sender's configuration
          inACCM,                       \* the receiver's
          sent,                         \* how many packets were given to the sender
          line,                         \* the bytes on the line, with the frame they are of
          inState, inEscaped, inFCS, inProtocol, chain,
          from,                         \* the frame of the last byte that was not a flag
          got,                          \* what pppInput was given
          done,                         \* the frames whose closing flag was read
          hurt,                         \* the frames that were disturbed
          noise,                        \* how many bytes the line has disturbed
          fails

sender == <<outACCM, accomp, pcomp, sent>>
receiver == <<inState, inEscaped, inFCS, inProtocol, chain, from, got>>
vars == <<sender, inACCM, line, receiver, done, hurt, noise, fails>>

Byte(name) == [b |-> name, t |-> FALSE, of |-> <<>>]
Trans(c) == [c EXCEPT !.t = ~@]
Fcs(content) ==
  IF content = <<>> THEN <<Byte("zero"), Byte("zero")>>
  ELSE <<[b |-> "f1", t |-> FALSE, of |-> content], [b |-> "f2", t |-> FALSE, of |-> content]>>

FLAG == Byte("flag")
ESC == Byte("esc")
ALL == Byte("all")      \* PPP_ALLSTATIONS, 0xff
UI == Byte("ui")        \* 0x03, itself a control character
HDR == Byte("hdr")      \* the pppInputHeader at the front of the first buffer

Controls == {UI, Byte("zero"), Byte("ctl")}
Odd(c) == c.b \in {"all", "ui", "ip", "lcp"}
Front(s) == SubSeq(s, 1, Len(s) - 1)

Init ==
  /\ outACCM = Controls /\ accomp = FALSE /\ pcomp = FALSE
  /\ inACCM = {}
  /\ sent = 0 /\ line = <<>>
  /\ inState = "START" /\ inEscaped = FALSE /\ inFCS = <<>> /\ inProtocol = <<>> /\ chain = <<>>
  /\ from = 0 /\ got = <<>> /\ done = {} /\ hurt = {} /\ noise = 0 /\ fails = 0

----------------------------------------------------------------------------
(* Sending *)

ESCAPE_P(map, c) == c \in map \union {FLAG, ESC}

pppAppend(c, map) == IF ESCAPE_P(map, c) THEN <<ESC, Trans(c)>> ELSE <<c>>

\* the protocol of an IP packet is 0x0021, that of LCP 0xc021
Header(pk) ==
  LET hi == IF pk.proto = "ip" THEN Byte("zero") ELSE Byte("c0")
  IN IF pk.proto = "ip"
     THEN (IF accomp THEN <<>> ELSE <<ALL, UI>>) \o (IF pcomp THEN <<>> ELSE <<hi>>) \o <<Byte("ip")>>
     ELSE <<ALL, UI, hi, Byte("lcp")>>

Stuffed(content) ==
  LET whole == content \o Fcs(content)
      f[i \in 0..Len(whole)] == IF i = 0 THEN <<>> ELSE f[i - 1] \o pppAppend(whole[i], outACCM)
  IN f[Len(whole)]

\* lead: the line has been idle, or the last write was cut short
Framed(pk, lead) ==
  (IF lead THEN <<FLAG>> ELSE <<>>) \o Stuffed(Header(pk) \o pk.data) \o <<FLAG>>

Tagged(bytes, i) == [k \in 1..Len(bytes) |-> [c |-> bytes[k], own |-> i, last |-> k = Len(bytes)]]

\* pppifOutput and pppWrite; the line is idle at first
Send ==
  /\ sent < Len(Packets)
  /\ \E lead \in IF sent = 0 THEN {TRUE} ELSE BOOLEAN :
       line' = line \o Tagged(Framed(Packets[sent + 1], lead), sent + 1)
  /\ sent' = sent + 1
  /\ UNCHANGED <<outACCM, accomp, pcomp, inACCM, receiver, done, hurt, noise, fails>>

\* nPut: only part of the frame is written; lastXMit = 0 makes the next frame lead
\* with a flag
SendCut ==
  /\ sent + 1 < Len(Packets) /\ fails < MaxFails
  /\ \E n \in {2, 4} : \E lead \in {sent = 0} :
       line' = line \o SubSeq(Tagged(Framed(Packets[sent + 1], lead), sent + 1), 1, n)
                    \o Tagged(Framed(Packets[sent + 2], TRUE), sent + 2)
  /\ sent' = sent + 2
  /\ fails' = fails + 1
  /\ hurt' = hurt \union {sent + 1}
  /\ UNCHANGED <<outACCM, accomp, pcomp, inACCM, receiver, done, noise>>

\* lcp_up and lcp_down at either end
ppp_send_config(up) ==
  /\ outACCM' = IF up THEN Map ELSE Controls
  /\ accomp' = up /\ pcomp' = up
  /\ UNCHANGED <<sent, inACCM, line, receiver, done, hurt, noise, fails>>

ppp_recv_config(up) ==
  /\ inACCM' = IF up THEN Map ELSE {}
  /\ UNCHANGED <<sender, line, receiver, done, hurt, noise, fails>>

----------------------------------------------------------------------------
(* The line *)

Disturbed(x) == {x.own} \union (IF x.last THEN {x.own + 1} ELSE {})

Added(cs) == [k \in 1..Len(cs) |-> [c |-> cs[k], own |-> Head(line).own, last |-> FALSE]] \o line

\* once: a byte is lost, added or changed, or two are added
Noise ==
  /\ noise = 0 /\ line # <<>>
  /\ \/ line' = Tail(line) /\ noise' = 1
     \/ \E c \in {Byte("x"), FLAG, ESC, Byte("ctl")} :
          /\ line' \in {Added(<<c>>), <<[Head(line) EXCEPT !.c = c]>> \o Tail(line)}
          /\ noise' = 1
     \/ line' = Added(<<Byte("zero"), Byte("zero")>>) /\ noise' = 2
  /\ hurt' = hurt \union Disturbed(Head(line))
  /\ UNCHANGED <<sender, inACCM, receiver, done, fails>>

----------------------------------------------------------------------------
(* Receiving: what pppInProc does with one byte, and what it passes on *)

Rx == [state |-> inState, escaped |-> inEscaped, fcs |-> inFCS, proto |-> inProtocol,
       chain |-> chain, out |-> <<>>]

GoodFCS(s) == Len(s) >= 2 /\ LET content == SubSeq(s, 1, Len(s) - 2) IN s = content \o Fcs(content)

RECURSIVE Joined(_)
Joined(bufs) == IF bufs = <<>> THEN <<>> ELSE Head(bufs) \o Joined(Tail(bufs))

\* the two bytes of the check sequence taken off, from the last buffer if it has
\* both, else from the end of the chain; then the header taken off the front
Trimmed(bufs) ==
  LET tail == bufs[Len(bufs)]
      all == IF Len(tail) >= 2
             THEN Joined(Front(bufs)) \o SubSeq(tail, 1, Len(tail) - 2)
             ELSE LET j == Joined(bufs) IN SubSeq(j, 1, Len(j) - 2)
  IN Tail(all)

\* a good sum and no byte of data: inTail is NULL, and its len is read
NoTail(r) == r.state = "DATA" /\ GoodFCS(r.fcs) /\ r.chain = <<>>

pppDrop(r) == [r EXCEPT !.chain = <<>>]

EndOfFrame(r) ==
  LET q == CASE r.state \in {"IDLE", "START", "ADDRESS"} -> r
             [] r.state \in {"CONTROL", "PROTOCOL1", "PROTOCOL2"} -> pppDrop(r)
             [] r.state = "DATA" /\ ~GoodFCS(r.fcs) -> pppDrop(r)
             [] OTHER -> [r EXCEPT !.chain = <<>>, !.out = <<[proto |-> r.proto, data |-> Trimmed(r.chain)]>>]
  IN [q EXCEPT !.fcs = <<>>, !.state = "ADDRESS", !.escaped = FALSE]

Data(r, c) ==
  IF r.chain = <<>> THEN [r EXCEPT !.chain = <<<<HDR, c>>>>]
  ELSE IF Len(r.chain[Len(r.chain)]) = PBUF_POOL_BUFSIZE THEN [r EXCEPT !.chain = Append(@, <<c>>)]
  ELSE [r EXCEPT !.chain[Len(r.chain)] = Append(@, c)]
NeedsBuffer(r) == r.chain = <<>> \/ Len(r.chain[Len(r.chain)]) = PBUF_POOL_BUFSIZE

Protocol1(r, c) ==
  IF Odd(c) THEN [r EXCEPT !.proto = <<c>>, !.state = "DATA"]
  ELSE [r EXCEPT !.proto = <<c>>, !.state = "PROTOCOL2"]
Control(r, c) == IF c = UI THEN [r EXCEPT !.state = "PROTOCOL1"] ELSE Protocol1(r, c)
Address(r, c) == IF c = ALL THEN [r EXCEPT !.state = "CONTROL"] ELSE Control(r, c)

\* the switch on inState; a byte that finds no buffer drops the packet
InFrame(r, c, nomem) ==
  CASE r.state = "IDLE" -> IF c = ALL THEN Address([r EXCEPT !.fcs = <<>>], c) ELSE r
    [] r.state = "START" -> Address([r EXCEPT !.fcs = <<>>], c)
    [] r.state = "ADDRESS" -> Address(r, c)
    [] r.state = "CONTROL" -> Control(r, c)
    [] r.state = "PROTOCOL1" -> Protocol1(r, c)
    [] r.state = "PROTOCOL2" -> [r EXCEPT !.proto = Append(@, c), !.state = "DATA"]
    [] r.state = "DATA" -> IF nomem THEN [pppDrop(r) EXCEPT !.state = "START"] ELSE Data(r, c)

OneByte(r, c, nomem) ==
  IF ESCAPE_P(inACCM, c)
  THEN CASE c = ESC -> [r EXCEPT !.escaped = TRUE]
         [] c = FLAG -> IF NoTail(r) THEN [r EXCEPT !.state = "NULL"] ELSE EndOfFrame(r)
         [] OTHER -> r      \* a control character the line has added
  ELSE LET x == IF r.escaped THEN Trans(c) ELSE c
           q == InFrame([r EXCEPT !.escaped = FALSE], x, nomem)
       IN [q EXCEPT !.fcs = Append(@, x)]

\* pbuf_alloc fails
MayFail == fails < MaxFails /\ inState = "DATA" /\ NeedsBuffer(Rx) /\ ~ESCAPE_P(inACCM, Head(line).c)

\* what the program does after the NULL pointer was used is not said
pppInProc ==
  /\ line # <<>> /\ inState # "NULL"
  /\ \E nomem \in {x \in BOOLEAN : x => MayFail} :
       /\ \E r \in {OneByte(Rx, Head(line).c, nomem)} :
            /\ inState' = r.state /\ inEscaped' = r.escaped /\ inFCS' = r.fcs
            /\ inProtocol' = r.proto /\ chain' = r.chain
            /\ got' = got \o [k \in 1..Len(r.out) |-> [of |-> from, pk |-> r.out[k]]]
       /\ fails' = IF nomem THEN fails + 1 ELSE fails
       /\ hurt' = IF nomem THEN hurt \union {Head(line).own} ELSE hurt
  /\ from' = IF Head(line).c = FLAG THEN from ELSE Head(line).own
  /\ done' = IF Head(line).last THEN done \union {Head(line).own} ELSE done
  /\ line' = Tail(line)
  /\ UNCHANGED <<sender, inACCM, noise>>

Next ==
  \/ Send \/ SendCut \/ Noise \/ pppInProc
  \/ \E up \in BOOLEAN : ppp_send_config(up) \/ ppp_recv_config(up)

Spec == Init /\ [][Next]_vars

----------------------------------------------------------------------------

TypeOK ==
  /\ inState \in {"IDLE", "START", "ADDRESS", "CONTROL", "PROTOCOL1", "PROTOCOL2", "DATA", "NULL"}
  /\ \A k \in 1..Len(chain) : Len(chain[k]) \in 1..PBUF_POOL_BUFSIZE
  /\ hurt \subseteq 0..(Len(Packets) + 1)

\* What pppInput is given are packets that were sent, each as it was sent, in
\* order and none twice, whatever the line does and wherever a buffer is missing.
LowByte(proto) == proto[Len(proto)]
DeliversWhatWasSent ==
  /\ \A k \in 1..Len(got) :
       /\ got[k].of \in 1..sent
       /\ got[k].pk.data = Packets[got[k].of].data
       /\ LowByte(got[k].pk.proto) = Byte(Packets[got[k].of].proto)
  /\ \A k \in 2..Len(got) : got[k - 1].of < got[k].of

\* pppInProc ends a packet without a buffer only after the line has made up a frame of
\* nothing but a header and its check sequence, which takes two bytes or more: no frame
\* that was sent, cut short, or has lost a byte or had one added or changed leads
\* there, for a flag that ends a frame early leaves a bad sum.
NullTailOnlyIfMadeUp == inState = "NULL" => noise = 2

\* A frame that was not disturbed, after a flag that was not, is delivered: no
\* byte of it is taken for a flag, for an escape or for noise, whichever of the two
\* ends has taken over the negotiated map first (ppp_send_config, ppp_recv_config),
\* and the receiver is in step again after every flag.
UndisturbedArrives == \A i \in done \ hurt : \E k \in 1..Len(got) : got[k].of = i
=============================================================================
