------------------------------- MODULE VjComp -------------------------------
(***************************************************************************)
(* The compression of TCP/IP headers on a PPP link, vj.c: vj_compress_tcp  *)
(* at one end, vj_uncompress_tcp and vj_uncompress_uncomp at the other,    *)
(* with frames lost in between, noticed (pppDrop calls vj_uncompress_err)  *)
(* or not.                                                                 *)
(*                                                                         *)
(* A header has the fields the code looks at; kind stands for what has to  *)
(* be the same in two packets of a connection: version, type of service,   *)
(* fragment offset, time to live, header lengths and options.  The numbers *)
(* are as wide as a byte of BYTE values allows: two bytes for what is a    *)
(* u16 in the code, LONG values for what is a u32.                         *)
(*                                                                         *)
(* The compressor finds the TCP header by indexing the packet as an array  *)
(* of long.  Where a long is two words, as on x86-64, that is 40 bytes in: *)
(* it takes the first bytes of the data, Body, for the TCP header, and     *)
(* eight of them for the ports.  The decompressor counts in bytes.         *)
(***************************************************************************)
EXTENDS Integers, Sequences

CONSTANTS Conns, MAX_SLOTS, BYTE, LONG,
          LONG_WORDS,       \* sizeof(long) in words: 1, or 2 on x86-64
          Bodies,           \* what may follow the headers, read as a TCP header
          Changes,          \* how a header may differ from the last of its connection
          compressSlot,     \* the slot number may be left out
          MaxPackets, MaxLost

VARIABLES hdr,              \* of each connection: its last header
          ring, tstate, tbody, last_xmit,
          rstate, last_recv, toss,
          stale,            \* slots that since their last full header missed a frame or the end
                            \* of urgent mode, or had a frame that was coded from the data
          wrong,            \* a packet was handed on that is not the one sent
          packets, lost, odd

vars == <<hdr, ring, tstate, tbody, last_xmit, rstate, last_recv, toss, stale, wrong, packets, lost, odd>>

SHORT == BYTE * BYTE
Slots == 0..(MAX_SLOTS - 1)
HLen == 1                   \* the length of the headers, in the units of len

Zero == [conn |-> 0, kind |-> 0, seq |-> 0, ack |-> 0, wnd |-> 0, id |-> 0, urgp |-> 0,
         urg |-> FALSE, psh |-> FALSE, len |-> 0]
NoBody == [ports |-> 0, seq |-> 0, ack |-> 0, wnd |-> 0, urgp |-> 0, urg |-> FALSE, psh |-> FALSE, more |-> 0]
First(c) == [Zero EXCEPT !.conn = c, !.len = HLen]

\* the most recently used slot first; last_cs is the last of them
vj_compress_init == [i \in 1..MAX_SLOTS |-> MAX_SLOTS - i]

Init ==
  /\ hdr = [c \in Conns |-> First(c)]
  /\ ring = vj_compress_init
  /\ tstate = [i \in Slots |-> Zero] /\ tbody = [i \in Slots |-> NoBody] /\ rstate = [i \in Slots |-> Zero]
  /\ last_xmit = 255 /\ last_recv = 255 /\ toss = TRUE
  /\ stale = [i \in Slots |-> TRUE]
  /\ wrong = FALSE /\ packets = 0 /\ lost = 0 /\ odd = {}

----------------------------------------------------------------------------
(* Numbers on the wire: one byte, or a zero and two bytes *)

ENCODE(n) == IF n >= BYTE THEN <<0, n \div BYTE, n % BYTE>> ELSE <<n>>
ENCODEZ(n) == IF n >= BYTE \/ n = 0 THEN <<0, n \div BYTE, n % BYTE>> ELSE <<n>>

\* the number at the front, and what is left
DECODE(s) ==
  IF s[1] = 0 THEN [n |-> s[2] * BYTE + s[3], rest |-> SubSeq(s, 4, Len(s))]
  ELSE [n |-> s[1], rest |-> Tail(s)]

----------------------------------------------------------------------------
(* The compressor *)

SPECIAL_I == {"S", "W", "U"}
SPECIAL_D == {"S", "A", "W", "U"}

\* the TCP header as the compressor sees it, and the length of the headers by that
Th(h, b) == IF LONG_WORDS = 1 THEN h ELSE b
HdrLen(b) == IF LONG_WORDS = 1 THEN HLen ELSE HLen + b.more

Matches(slot, h, b) ==
  /\ tstate[slot].conn = h.conn
  /\ LONG_WORDS > 1 => tbody[slot].ports = b.ports /\ tbody[slot].seq = b.seq
Position(h, b) == IF \E i \in 1..MAX_SLOTS : Matches(ring[i], h, b)
                  THEN CHOOSE i \in 1..MAX_SLOTS :
                         Matches(ring[i], h, b) /\ \A j \in 1..(i - 1) : ~Matches(ring[j], h, b)
                  ELSE MAX_SLOTS
Known(h, b) == Matches(ring[Position(h, b)], h, b)

\* the slot used goes to the front, a new connection takes the slot unused longest
MovedToFront(k) == <<ring[k]>> \o SubSeq(ring, 1, k - 1) \o SubSeq(ring, k + 1, MAX_SLOTS)

\* what has changed, in the order of the wire, or that it cannot be told
Deltas(h, o) ==
  LET dw == (h.wnd - o.wnd) % SHORT
      da == (h.ack - o.ack) % LONG
      ds == (h.seq - o.seq) % LONG
      If(cond, v) == IF cond THEN v ELSE <<>>
  IN [ok |-> (h.urg \/ h.urgp = o.urgp) /\ da < SHORT /\ ds < SHORT,
      ds |-> ds, da |-> da,
      bits |-> {x \in {"U"} : h.urg} \union {x \in {"W"} : dw # 0}
                 \union {x \in {"A"} : da # 0} \union {x \in {"S"} : ds # 0},
      bytes |-> If(h.urg, ENCODEZ(h.urgp)) \o If(dw # 0, ENCODE(dw)) \o If(da # 0, ENCODE(da))
                  \o If(ds # 0, ENCODE(ds))]

\* the two common cases have a code of their own; a change that would look like one
\* of them is not compressed, nor is a packet that looks like a retransmission
Coded_no_length(d, h, o, hlen) ==
  LET none == [ok |-> FALSE, bits |-> {}, bytes |-> <<>>]
  IN CASE d.bits = {} -> none
       [] d.bits \in {SPECIAL_I, SPECIAL_D} -> none
       [] d.bits = {"S", "A"} /\ d.ds = d.da -> [ok |-> d.ok, bits |-> SPECIAL_I, bytes |-> <<>>]
       [] OTHER -> [ok |-> d.ok, bits |-> d.bits, bytes |-> d.bytes]
Coded(d, h, o, hlen) ==
  LET data == o.len - hlen
  IN CASE d.bits = {} -> [ok |-> d.ok /\ h.len # o.len /\ data = 0, bits |-> {}, bytes |-> <<>>]
       [] d.bits \in {SPECIAL_I, SPECIAL_D} -> [ok |-> FALSE, bits |-> {}, bytes |-> <<>>]
       [] d.bits = {"S", "A"} /\ d.ds = d.da /\ d.ds = data -> [ok |-> d.ok, bits |-> SPECIAL_I, bytes |-> <<>>]
       [] d.bits = {"S"} /\ d.ds = data -> [ok |-> d.ok, bits |-> SPECIAL_D, bytes |-> <<>>]
       [] OTHER -> [ok |-> d.ok, bits |-> d.bits, bytes |-> d.bytes]

Compressed(h, b, slot) ==
  LET o == tstate[slot]
      same == h.kind = o.kind /\ HdrLen(b) = HdrLen(tbody[slot])
      c == Coded(Deltas(Th(h, b), Th(o, tbody[slot])), h, o, HdrLen(b))
      di == (h.id - o.id) % SHORT
      named == ~compressSlot \/ last_xmit # slot
  IN [type |-> "COMPRESSED", ok |-> same /\ c.ok, slot |-> IF named THEN slot ELSE -1,
      bits |-> c.bits \union {x \in {"I"} : di # 1},
      bytes |-> c.bytes \o (IF di # 1 THEN ENCODEZ(di) ELSE <<>>),
      psh |-> Th(h, b).psh, rest |-> h.len - HdrLen(b)]

\* the headers are copied into the slot, the data only as far as they seem to reach
vj_compress_tcp(h, b) ==
  LET k == Position(h, b)
      slot == ring[k]
      z == Compressed(h, b, slot)
  IN [slot |-> slot, ring |-> MovedToFront(k),
      body |-> IF HdrLen(b) > HLen THEN b ELSE tbody[slot],
      frame |-> IF Known(h, b) /\ z.ok THEN z ELSE [type |-> "UNCOMPRESSED", slot |-> slot, hdr |-> h]]

----------------------------------------------------------------------------
(* The decompressor *)

vj_uncompress_uncomp(f) ==
  [ok |-> TRUE, slot |-> f.slot, hdr |-> f.hdr]

\* urgent pointer, window, acknowledgement and sequence number, in that order
Decoded(o, f) ==
  LET Step(x, bit) == IF bit \notin f.bits THEN [n |-> 0, rest |-> x] ELSE DECODE(x)
      u == Step(f.bytes, "U")
      w == Step(u.rest, "W")
      g == Step(w.rest, "A")
      s == Step(g.rest, "S")
  IN [hdr |-> [o EXCEPT !.urg = "U" \in f.bits, !.urgp = IF "U" \in f.bits THEN u.n ELSE @,
                        !.wnd = (@ + w.n) % SHORT, !.ack = (@ + g.n) % LONG, !.seq = (@ + s.n) % LONG],
      rest |-> s.rest]

Special(o, f) ==
  LET data == o.len - HLen
  IN IF SPECIAL_D \subseteq f.bits THEN [hdr |-> [o EXCEPT !.seq = (@ + data) % LONG], rest |-> f.bytes]
     ELSE [hdr |-> [o EXCEPT !.ack = (@ + data) % LONG, !.seq = (@ + data) % LONG], rest |-> f.bytes]

vj_uncompress_tcp(f) ==
  LET slot == IF f.slot >= 0 THEN f.slot ELSE last_recv
      o == rstate[slot]
      x == IF f.bits \ {"I"} \in {SPECIAL_I, SPECIAL_D} THEN Special(o, f) ELSE Decoded(o, f)
      id == IF "I" \in f.bits THEN (o.id + DECODE(x.rest).n) % SHORT ELSE (o.id + 1) % SHORT
  IN IF f.slot < 0 /\ toss THEN [ok |-> FALSE]
     ELSE [ok |-> TRUE, slot |-> slot, hdr |-> [x.hdr EXCEPT !.id = id, !.psh = f.psh, !.len = f.rest + HLen]]

----------------------------------------------------------------------------

Received(f) == IF f.type = "UNCOMPRESSED" THEN vj_uncompress_uncomp(f) ELSE vj_uncompress_tcp(f)

\* the codes of the special cases say nothing of urgent mode, which stays as it was
KeepsUrg(r, f) == f.type # "UNCOMPRESSED" /\ f.bits \ {"I"} \in {SPECIAL_I, SPECIAL_D} /\ rstate[r.slot].urg

\* the packet h is sent in slot t as f, and arrives
Arrives(h, t, f) ==
  /\ \E r \in {Received(f)} :
       \/ /\ r.ok
          /\ rstate' = [rstate EXCEPT ![r.slot] = r.hdr]
          /\ last_recv' = r.slot
          /\ LET miss == r.slot # t \/ KeepsUrg(r, f) \/ LONG_WORDS > 1
             IN stale' = [stale EXCEPT ![r.slot] = f.type # "UNCOMPRESSED" /\ (@ \/ miss),
                                       ![t] = f.type # "UNCOMPRESSED" /\ (@ \/ miss)]
          /\ \/ wrong' = (r.hdr # h) /\ toss' = FALSE /\ UNCHANGED lost
             \/ /\ f.type = "COMPRESSED"       \* no buffer for the header: bad
                /\ lost < MaxLost /\ lost' = lost + 1
                /\ toss' = TRUE /\ wrong' = FALSE
       \/ /\ ~r.ok
          /\ stale' = [stale EXCEPT ![t] = TRUE]
          /\ wrong' = FALSE
          /\ UNCHANGED <<rstate, last_recv, toss, lost>>
  /\ UNCHANGED odd

\* it does not; the receiver may see that (vj_uncompress_err) or not
Lost(t) ==
  /\ lost < MaxLost /\ lost' = lost + 1
  /\ stale' = [stale EXCEPT ![t] = TRUE]
  /\ wrong' = FALSE
  /\ \/ toss' = TRUE /\ UNCHANGED odd
     \/ odd' = odd \union {"unnoticed"} /\ UNCHANGED toss
  /\ UNCHANGED <<rstate, last_recv>>

Changed(o, ch) ==
  [o EXCEPT !.kind = (@ + ch.kind) % 2, !.seq = (@ + ch.seq) % LONG, !.ack = (@ + ch.ack) % LONG,
            !.wnd = (@ + ch.wnd) % SHORT, !.id = (@ + ch.id) % SHORT,
            !.urg = ch.urg, !.urgp = IF ch.urg THEN ch.urgp ELSE @, !.psh = ch.psh, !.len = HLen + ch.data]

Send(c, ch, b) ==
  /\ packets < MaxPackets /\ packets' = packets + 1
  /\ \E h \in {Changed(hdr[c], ch)} :
       /\ HdrLen(b) <= h.len
       /\ \E z \in {vj_compress_tcp(h, b)} :
            /\ hdr' = [hdr EXCEPT ![c] = h]
            /\ ring' = z.ring
            /\ tstate' = [tstate EXCEPT ![z.slot] = h]
            /\ tbody' = [tbody EXCEPT ![z.slot] = z.body]
            /\ last_xmit' = z.slot
            /\ Arrives(h, z.slot, z.frame) \/ Lost(z.slot)

\* a packet whose first buffer ends inside what seem to be the headers is found its
\* slot, and then sent as it is
SendPlain(c, b) ==
  /\ packets < MaxPackets /\ packets' = packets + 1
  /\ ring' = MovedToFront(Position(hdr[c], b))
  /\ wrong' = FALSE
  /\ UNCHANGED <<hdr, tstate, tbody, last_xmit, rstate, last_recv, toss, stale, lost, odd>>

Next == \E c \in Conns, b \in Bodies : SendPlain(c, b) \/ \E ch \in Changes : Send(c, ch, b)

Spec == Init /\ [][Next]_vars

----------------------------------------------------------------------------

TypeOK ==
  /\ last_xmit \in Slots \union {255} /\ last_recv \in Slots \union {255}
  /\ toss \in BOOLEAN /\ wrong \in BOOLEAN

\* A header that comes out of the decompressor is the one that went into the
\* compressor, field by field, unless its slot has since its last full header missed
\* a frame, was left in urgent mode by a special code, or had a frame that a
\* compressor with a long of two words coded from the data; when slot numbers are
\* left out, an unnoticed loss also sends the next frames into the wrong slot.
RightUnlessLost ==
  wrong => (stale[last_recv] \/ stale[last_xmit] \/ (compressSlot /\ "unnoticed" \in odd))

\* While nothing is lost or misread the two ends have the same header in every slot
\* in use.
SlotsAgree == \A i \in Slots : (~stale[i] /\ ~(compressSlot /\ "unnoticed" \in odd)) => tstate[i] = rstate[i]

\* Where a long is one word, a connection has at most one slot, however often it was
\* pushed out and came back, so that no older header of it is compared with.
OneSlotEachUnlessLong ==
  LONG_WORDS = 1 =>
    \A i, j \in Slots : (tstate[i].conn = tstate[j].conn /\ tstate[i].conn # 0) => i = j
=============================================================================
