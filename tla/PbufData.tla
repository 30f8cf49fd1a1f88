------------------------------ MODULE PbufData ------------------------------
(***************************************************************************)
(* What is computed over the data of a packet: the calls of core/pbuf.c    *)
(* that look through it, and the Internet checksum of                      *)
(* core/ipv4/inet_chksum.c.  A packet is the sequence of the payloads of   *)
(* its pbufs, and each call is the loop of the code over them; the         *)
(* properties compare the calls with what they should do to the data as a  *)
(* whole.  For the checksum a pbuf also has the alignment of its payload,  *)
(* words are read in the byte order of the machine (little endian), and    *)
(* two places patch a checksum instead of computing it again (ip_forward,  *)
(* icmp_input).                                                            *)
(***************************************************************************)
EXTENDS Integers, Sequences

CONSTANTS
  Packets,     \* packets that are tried
  Patterns,    \* byte strings that are tried
  NotFound,    \* 0xFFFF
  SumPackets,  \* packets to sum up: sequences of [data, odd], odd is the alignment
  Pseudo,      \* sums of the pseudo header
  Sums,        \* sums of the words of a header that stay
  Ttls

VARIABLES
  p, q, mem,               \* two packets and a byte string
  packet, pseudo, header,  \* a packet with its pseudo header, or an IP header
  out                      \* a result

vars == <<p, q, mem, packet, pseudo, header, out>>

Range16 == 65536
RECURSIVE Flat(_)
Flat(c) == IF c = <<>> THEN <<>> ELSE Head(c) \o Flat(Tail(c))
tot_len(c) == Len(Flat(c))
Least(a, b) == IF a < b THEN a ELSE b
Drop(s, n) == SubSeq(s, n + 1, Len(s))
-----------------------------------------------------------------------------
\* pbuf_copy: the loop with its two offsets.  A pbuf that holds all that is left
\* but has a successor is taken for the end of a packet in a queue.
Queued(c) == c # <<>> /\ Len(Head(c)) = tot_len(c) /\ Len(c) > 1

RECURSIVE CopyLoop(_, _, _, _, _)
CopyLoop(done, to, from, ot, of) ==
  LET n == Least(Len(Head(to)) - ot, Len(Head(from)) - of)
      data == SubSeq(Head(to), 1, ot) \o SubSeq(Head(from), of + 1, of + n)
                \o Drop(Head(to), ot + n)
      nextFrom == of + n >= Len(Head(from))
      nextTo == ot + n = Len(Head(to))
      from2 == IF nextFrom THEN Tail(from) ELSE from
      to2 == IF nextTo THEN Tail(to) ELSE <<data>> \o Tail(to)
      done2 == IF nextTo THEN Append(done, data) ELSE done
  IN IF nextTo /\ to2 = <<>> /\ from2 # <<>> THEN [err |-> "ERR_ARG", to |-> done2]
     ELSE IF Queued(from2) \/ Queued(to2) THEN [err |-> "ERR_VAL", to |-> done2 \o to2]
     ELSE IF from2 = <<>> THEN [err |-> "ERR_OK", to |-> done2 \o to2]
     ELSE CopyLoop(done2, to2, from2, IF nextTo THEN 0 ELSE ot + n,
                                      IF nextFrom THEN 0 ELSE of + n)

pbuf_copy(to, from) ==
  IF tot_len(to) < tot_len(from) THEN [err |-> "ERR_ARG", to |-> to]
  ELSE CopyLoop(<<>>, to, from, 0, 0)

\* pbuf_copy_partial
RECURSIVE PartialLoop(_, _, _)
PartialLoop(c, len, offset) ==
  IF len = 0 \/ c = <<>> THEN <<>>
  ELSE IF offset # 0 /\ offset >= Len(Head(c)) THEN PartialLoop(Tail(c), len, offset - Len(Head(c)))
  ELSE LET n == Least(Len(Head(c)) - offset, len)
       IN SubSeq(Head(c), offset + 1, offset + n) \o PartialLoop(Tail(c), len - n, 0)

pbuf_copy_partial(c, len, offset) == PartialLoop(c, len, offset)

\* pbuf_take
RECURSIVE TakeLoop(_, _)
TakeLoop(c, data) ==
  IF data = <<>> THEN c
  ELSE LET n == Least(Len(data), Len(Head(c)))
       IN <<SubSeq(data, 1, n) \o Drop(Head(c), n)>> \o TakeLoop(Tail(c), Drop(data, n))

pbuf_take(c, data) ==
  IF tot_len(c) < Len(data) THEN [err |-> "ERR_ARG", to |-> c]
  ELSE [err |-> "ERR_OK", to |-> TakeLoop(c, data)]
-----------------------------------------------------------------------------
\* The pbuf an offset lies in, and the offset there.
RECURSIVE At(_, _)
At(c, offset) ==
  IF c # <<>> /\ Len(Head(c)) <= offset THEN At(Tail(c), offset - Len(Head(c)))
  ELSE [c |-> c, offset |-> offset]

\* 0 behind the end.
pbuf_get_at(c, offset) ==
  LET a == At(c, offset) IN IF a.c = <<>> THEN 0 ELSE Head(a.c)[a.offset + 1]

\* 0 if equal, the number of the first byte that differs, or 0xffff.
pbuf_memcmp(c, offset, s2) ==
  LET a == At(c, offset)
      differ == {i \in 1 .. Len(s2) : pbuf_get_at(a.c, a.offset + i - 1) # s2[i]}
  IN IF a.c = <<>> THEN NotFound
     ELSE IF differ = {} THEN 0 ELSE CHOOSE i \in differ : \A j \in differ : i <= j

\* The search goes on behind the byte that differed.
RECURSIVE FindFrom(_, _, _)
FindFrom(c, i, s2) ==
  IF i > (tot_len(c) - Len(s2)) % Range16 THEN NotFound
  ELSE LET plus == pbuf_memcmp(c, i, s2)
       IN IF plus = 0 THEN i ELSE FindFrom(c, (i + plus) % Range16, s2)

pbuf_memfind(c, s2, start) ==
  IF tot_len(c) >= Len(s2) + start THEN FindFrom(c, start, s2) ELSE NotFound

pbuf_strstr(c, s2) ==
  IF s2 = <<>> \/ tot_len(c) = NotFound THEN NotFound ELSE pbuf_memfind(c, s2, 0)
-----------------------------------------------------------------------------
(* The Internet checksum *)

U16 == 65536
FOLD_U32T(u) == (u \div U16) + (u % U16)
SWAP_BYTES_IN_WORD(w) == (w % 256) * 256 + ((w % U16) \div 256)
Not16(w) == U16 - 1 - w
Word(b, i) == b[i] + 256 * b[i + 1]
RECURSIVE SumWords(_, _)
SumWords(b, i) == IF i >= Len(b) THEN 0 ELSE Word(b, i) + SumWords(b, i + 2)

\* lwip_standard_chksum: a leading byte at an odd address goes into the high half of
\* t, a last byte into its low half; an odd start is made good by a swap.
lwip_standard_chksum(b, odd) ==
  LET lead == odd /\ b # <<>>
      rest == IF lead THEN Tail(b) ELSE b
      t == (IF lead THEN 256 * b[1] ELSE 0) + (IF Len(rest) % 2 = 1 THEN rest[Len(rest)] ELSE 0)
      sum == FOLD_U32T(FOLD_U32T(SumWords(rest, 1) + t))
  IN (IF odd THEN SWAP_BYTES_IN_WORD(sum) ELSE sum) % U16

\* Mutant: the swap after a pbuf of odd length is forgotten.
ChainUnswapped(chain, acc, swapped) ==
  LET RECURSIVE Add(_, _)
      Add(c, a) == IF c = <<>> THEN a
                   ELSE Add(Tail(c), FOLD_U32T(a + lwip_standard_chksum(Head(c).data, Head(c).odd)))
  IN Add(chain, acc)

\* The loop over the pbufs that inet_chksum_pbuf and inet_chksum_pseudo share.
RECURSIVE Chain(_, _, _)
Chain(chain, acc, swapped) ==
  IF chain = <<>> THEN IF swapped THEN SWAP_BYTES_IN_WORD(acc) ELSE acc
  ELSE LET a == FOLD_U32T(acc + lwip_standard_chksum(Head(chain).data, Head(chain).odd))
       IN IF Len(Head(chain).data) % 2 # 0
          THEN Chain(Tail(chain), SWAP_BYTES_IN_WORD(a), ~swapped)
          ELSE Chain(Tail(chain), a, swapped)

inet_chksum_pbuf(chain) == Not16(Chain(chain, 0, FALSE) % U16)

inet_chksum_pseudo(chain, s) == Not16(FOLD_U32T(FOLD_U32T(Chain(chain, 0, FALSE) + s)) % U16)

\* inet_chksum_pseudo_partial: the same over the first n bytes.
RECURSIVE PartialChain(_, _, _, _)
PartialChain(chain, n, acc, swapped) ==
  IF chain = <<>> \/ n = 0 THEN IF swapped THEN SWAP_BYTES_IN_WORD(acc) ELSE acc
  ELSE LET d == Head(chain).data
           chklen == IF Len(d) > n THEN n ELSE Len(d)
           a == FOLD_U32T(acc + lwip_standard_chksum(SubSeq(d, 1, chklen), Head(chain).odd))
       IN IF Len(d) % 2 # 0
          THEN PartialChain(Tail(chain), n - chklen, SWAP_BYTES_IN_WORD(a), ~swapped)
          ELSE PartialChain(Tail(chain), n - chklen, a, swapped)

inet_chksum_pseudo_partial(chain, s, n) ==
  Not16(FOLD_U32T(FOLD_U32T(PartialChain(chain, n, 0, FALSE) + s)) % U16)
-----------------------------------------------------------------------------
\* ip_output_if computes the sum of a new header while it fills it in.
ip_output_chksum(words) ==
  LET s == (words \div U16) + (words % U16) IN Not16(((s \div U16) + s) % U16)

\* ip_forward after the decrement of the TTL (step 1), icmp_input after turning an
\* echo request into a reply (step 8): PP_HTONS(0x100) and PP_HTONS(0x800).
Patch(c, step) == (c + step + (IF c >= U16 - 1 - step THEN 1 ELSE 0)) % U16
-----------------------------------------------------------------------------
None == [call |-> "none"]
NoHeader == [rest |-> 0, ttl |-> 0]

\* The input is two packets and a string, a packet to sum up, or an IP header.
Init ==
  /\ out = None
  /\ \/ /\ p \in Packets /\ q \in Packets /\ mem \in Patterns
        /\ packet = <<>> /\ pseudo = -1 /\ header = NoHeader
     \/ /\ p = <<>> /\ q = <<>> /\ mem = <<>>
        /\ \/ packet \in SumPackets /\ pseudo \in Pseudo /\ header = NoHeader
           \/ packet = <<>> /\ pseudo = -1 /\ header \in [rest : Sums, ttl : Ttls]

Data == pseudo = -1 /\ header = NoHeader
Copy == Data /\ out' = [call |-> "copy", r |-> pbuf_copy(p, q)]
CopyPartial ==
  /\ Data
  /\ \E len \in 0 .. 2, offset \in 0 .. 3 :
       out' = [call |-> "partial", len |-> len, offset |-> offset,
               r |-> pbuf_copy_partial(p, len, offset)]
Take == Data /\ out' = [call |-> "take", r |-> pbuf_take(p, mem)]
Find == Data /\ out' = [call |-> "find", r |-> pbuf_strstr(p, mem)]

Result(call, value, n) == out' = [call |-> call, value |-> value, n |-> n]
HeaderSum(h) == h.rest + h.ttl

Sum == pseudo # -1 /\ Result("pbuf", inet_chksum_pbuf(packet), 0)
SumPseudo == pseudo # -1 /\ Result("pseudo", inet_chksum_pseudo(packet, pseudo), 0)
SumPartial ==
  /\ pseudo # -1
  /\ \E n \in 0 .. 3 : Result("prefix", inet_chksum_pseudo_partial(packet, pseudo, n), n)
Forward == header.ttl > 0 /\ Result("forward", Patch(ip_output_chksum(HeaderSum(header)), 1), 0)
Echo == header # NoHeader /\ Result("echo", Patch(ip_output_chksum(header.rest + 8), 8), 0)

Next ==
  /\ out = None
  /\ \/ Copy \/ CopyPartial \/ Take \/ Find
     \/ Sum \/ SumPseudo \/ SumPartial \/ Forward \/ Echo
  /\ UNCHANGED <<p, q, mem, packet, pseudo, header>>

Spec == Init /\ [][Next]_vars
-----------------------------------------------------------------------------
EmptyTail(c) == Len(c) > 1 /\ c[Len(c)] = <<>>

\* pbuf_copy copies everything, across any two ways of cutting a packet into pbufs;
\* it gives up only if the target is too small or a packet ends in empty pbufs.
CopyRight ==
  out.call = "copy" =>
    /\ out.r.err = "ERR_OK" => Flat(out.r.to) = Flat(q) \o Drop(Flat(p), tot_len(q))
    /\ out.r.err # "ERR_OK" => tot_len(p) < tot_len(q) \/ EmptyTail(p) \/ EmptyTail(q)
    /\ tot_len(p) < tot_len(q) => out.r.err = "ERR_ARG"

\* pbuf_copy_partial returns the bytes asked for, as many as there are.
PartialRight ==
  out.call = "partial" =>
    out.r = SubSeq(Flat(p), out.offset + 1, Least(out.offset + out.len, tot_len(p)))

\* pbuf_take fills the packet from its start and keeps the rest and the cuts.
TakeRight ==
  out.call = "take" =>
    /\ out.r.err = "ERR_OK" <=> Len(mem) <= tot_len(p)
    /\ out.r.err = "ERR_OK" =>
         /\ Flat(out.r.to) = mem \o Drop(Flat(p), Len(mem))
         /\ \A i \in 1 .. Len(p) : Len(out.r.to[i]) = Len(p[i])

Occurs(i) == i + Len(mem) <= tot_len(p) /\ SubSeq(Flat(p), i + 1, i + Len(mem)) = mem
Partly(i) == Flat(p)[i + 1] = mem[1]

\* pbuf_strstr finds only what is there, and finds the first occurrence if no byte
\* before it looks like its start.  (After a partial match it jumps too far.)
FindRightUnlessPartly ==
  out.call = "find" /\ mem # <<>> =>
    /\ out.r # NotFound => Occurs(out.r)
    /\ \A i \in 0 .. tot_len(p) - 1 :
         Occurs(i) /\ (\A j \in 0 .. i - 1 : ~Partly(j)) => out.r = i

RECURSIVE FlatData(_)
FlatData(chain) == IF chain = <<>> THEN <<>> ELSE Head(chain).data \o FlatData(Tail(chain))
Padded(b) == IF Len(b) % 2 = 1 THEN Append(b, 0) ELSE b

\* The one's complement sum of some bytes, as arithmetic modulo 2^16 - 1.
Reference(b) == SumWords(Padded(b), 1)
SameSum(c, s) == (Not16(c) - s) % (U16 - 1) = 0
FirstBytes(chain, n) == SubSeq(FlatData(chain), 1, IF n < Len(FlatData(chain)) THEN n ELSE Len(FlatData(chain)))

\* The checksum of a packet depends on its bytes only, not on how they are cut into
\* pbufs or on where these lie: it is that of the bytes in a row.
CutsDoNotMatter ==
  /\ out.call = "pbuf" => SameSum(out.value, Reference(FlatData(packet)))
  /\ out.call = "pseudo" => SameSum(out.value, Reference(FlatData(packet)) + pseudo)

\* The partial checksum (UDP-Lite) covers the first n bytes, wherever that cuts a pbuf.
PartialCoversPrefix ==
  out.call = "prefix" => SameSum(out.value, Reference(FirstBytes(packet, out.n)) + pseudo)

\* A header whose checksum was patched passes the check of the next receiver, which
\* sums up all of its words and compares with 0xffff.
PatchedVerifies ==
  /\ out.call = "forward" => FOLD_U32T(FOLD_U32T(HeaderSum(header) - 1 + out.value)) = U16 - 1
  /\ out.call = "echo" => FOLD_U32T(FOLD_U32T(header.rest + out.value)) = U16 - 1
=============================================================================
