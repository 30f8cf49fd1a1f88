-------------------------------- MODULE Asn1 --------------------------------
(***************************************************************************)
(* The encoding of SNMP values by lwIP (core/snmp/asn1_enc.c, asn1_dec.c), *)
(* which this build leaves out.  A message is a chain of pbufs, none of    *)
(* them empty, and every function walks to an offset and goes on from      *)
(* there, across the ends of pbufs.  A value is encoded and then decoded   *)
(* with the length that was announced for it.                              *)
(*                                                                         *)
(* A 32 bit number is its four octets, the highest first: all its shifts   *)
(* are by 8.  A sub-identifier is an s32_t and shifted by 7.               *)
(***************************************************************************)
EXTENDS Integers, Sequences

CONSTANTS
  Cuts,      \* lengths of the pbufs of a message
  Offsets,   \* where the value begins
  Numbers,   \* u32_t and s32_t that are encoded
  Oids,      \* object identifiers that are encoded
  Raws,      \* octet strings that are encoded
  Lengths,   \* lengths that are encoded
  LWIP_SNMP_OBJ_ID_LEN

VARIABLES
  msg,       \* the message, a sequence of pbufs
  ofs, kind, value,
  len,       \* what the ..._cnt function announced
  err,       \* of the last call
  out,       \* what was decoded
  at         \* "begin", "encoded", "decoded"

vars == <<msg, ofs, kind, value, len, err, out, at>>

Blank == 238         \* what a message holds at first
-----------------------------------------------------------------------------
(* The walk along a chain *)

RECURSIVE Total(_)
Total(p) == IF p = <<>> THEN 0 ELSE Len(Head(p)) + Total(Tail(p))

RECURSIVE Octet(_, _)
Octet(p, k) == IF k < Len(Head(p)) THEN Head(p)[k + 1] ELSE Octet(Tail(p), k - Len(Head(p)))

RECURSIVE Put(_, _, _)
Put(p, k, b) ==
  IF k < Len(Head(p)) THEN <<[Head(p) EXCEPT ![k + 1] = b]>> \o Tail(p)
  ELSE <<Head(p)>> \o Put(Tail(p), k - Len(Head(p)), b)

\* The octets are written as far as there is room for them; the walk ends room
\* octets behind the offset.
RECURSIVE WriteAll(_, _, _)
WriteAll(p, k, octets) ==
  IF octets = <<>> \/ k >= Total(p) THEN p ELSE WriteAll(Put(p, k, Head(octets)), k + 1, Tail(octets))

Write(p, k, octets, room) ==
  [p |-> WriteAll(p, k, octets), err |-> IF k + room > Total(p) THEN "ERR_ARG" ELSE "ERR_OK"]

Reads(p, k, n) == [i \in 1 .. n |-> Octet(p, k + i - 1)]
-----------------------------------------------------------------------------
(* Encoding *)

Sign(b) == b \div 128

\* the number fits into its last n octets, with a clear sign bit
Fits(v, n) == Sign(v[5 - n]) = 0 /\ \A i \in 1 .. 4 - n : v[i] = 0
LeastFit(v) == CHOOSE n \in 1 .. 5 : (n = 5 \/ Fits(v, n)) /\ \A k \in 1 .. n - 1 : ~Fits(v, k)

snmp_asn1_enc_length_cnt(n) == IF n < 128 THEN 1 ELSE IF n < 256 THEN 2 ELSE 3
snmp_asn1_enc_u32t_cnt(v) == LeastFit(v)
snmp_asn1_enc_s32t_cnt(v) ==
  LeastFit(IF Sign(v[1]) = 1 THEN [i \in 1 .. 4 |-> 255 - v[i]] ELSE v)

RECURSIVE Shifts(_)
Shifts(sub_id) == IF sub_id > 0 THEN 1 + Shifts(sub_id \div 128) ELSE 0

RECURSIVE SubIds(_)
SubIds(ident) == IF ident = <<>> THEN 0 ELSE 1 + Shifts(Head(ident) \div 128) + SubIds(Tail(ident))

snmp_asn1_enc_oid_cnt(ident) ==
  (IF Len(ident) > 1 THEN 1 + SubIds(SubSeq(ident, 3, Len(ident))) ELSE SubIds(ident)) % 256

snmp_asn1_enc_type(p, k, type) == Write(p, k, <<type>>, 1)

snmp_asn1_enc_length(p, k, n) ==
  LET octets == IF n < 128 THEN <<n>> ELSE IF n < 256 THEN <<129, n>> ELSE <<130, n \div 256, n % 256>>
  IN Write(p, k, octets, Len(octets))

LastOctets(v, n) == SubSeq(v, 5 - n, 4)

snmp_asn1_enc_u32t(p, k, n, v) == Write(p, k, IF n = 5 THEN <<0>> \o v ELSE LastOctets(v, n), n)

snmp_asn1_enc_s32t(p, k, n, v) == Write(p, k, LastOctets(v, n), n)

Codes(sub_id) == <<sub_id \div 268435456, sub_id \div 2097152, sub_id \div 16384, sub_id \div 128>>

\* an encoder that leaves every group of seven zeros out
SubIdOctets_sparse(sub_id) ==
  LET code == [i \in 1 .. 4 |-> Codes(sub_id)[i] % 256]
      Nonzero(b) == b # 0
      kept == SelectSeq(code, Nonzero)
  IN [i \in 1 .. Len(kept) |-> 128 + (kept[i] % 128)] \o <<sub_id % 128>>

\* seven bits at a time, from the first group that is not zero
SubIdOctets(sub_id) ==
  LET code == [i \in 1 .. 4 |-> Codes(sub_id)[i] % 256]
      first == CHOOSE i \in 1 .. 5 : (i = 5 \/ code[i] # 0) /\ \A j \in 1 .. i - 1 : code[j] = 0
  IN [i \in 1 .. 5 - first |-> 128 + (code[first + i - 1] % 128)] \o <<sub_id % 128>>

RECURSIVE IdentOctets(_)
IdentOctets(ident) == IF ident = <<>> THEN <<>> ELSE SubIdOctets(Head(ident)) \o IdentOctets(Tail(ident))

\* The octet behind the prefix must be there even if nothing follows.
snmp_asn1_enc_oid(p, k, ident) ==
  LET octets == <<(ident[1] * 40 + ident[2]) % 256>> \o IdentOctets(SubSeq(ident, 3, Len(ident)))
  IN IF Len(ident) <= 1 THEN [p |-> p, err |-> "ERR_ARG"]
     ELSE Write(p, k, octets, IF Len(ident) = 2 THEN 2 ELSE Len(octets))

\* without data there must still be an octet at the offset
snmp_asn1_enc_raw(p, k, raw) == Write(p, k, raw, IF raw = <<>> THEN 1 ELSE Len(raw))
-----------------------------------------------------------------------------
(* Decoding: [err, value], and used for a length *)

Failed == [err |-> "ERR_ARG", value |-> <<>>]
Got(v) == [err |-> "ERR_OK", value |-> v]

snmp_asn1_dec_type(p, k) == IF k < Total(p) THEN Got(<<Octet(p, k)>>) ELSE Failed

\* a length without end: up to and including two zeros in a row
ZeroEnds(p, k) == {n \in 2 .. Total(p) - 1 - k : Octet(p, k + n) = 0 /\ Octet(p, k + n - 1) = 0}

snmp_asn1_dec_length(p, k) ==
  LET b == Octet(p, k)
      Is(n, used) == [err |-> "ERR_OK", value |-> <<n>>, used |-> used]
      Bad == [err |-> "ERR_ARG", value |-> <<>>, used |-> 0]
  IN IF k >= Total(p) THEN Bad
     ELSE IF b < 128 THEN Is(b, 1)
     ELSE IF b = 128 THEN IF ZeroEnds(p, k) = {} THEN Bad
                          ELSE Is(CHOOSE n \in ZeroEnds(p, k) : \A j \in ZeroEnds(p, k) : n <= j, 1)
     ELSE IF b = 129 /\ k + 1 < Total(p) THEN Is(Octet(p, k + 1), 2)
     ELSE IF b = 130 /\ k + 2 < Total(p) THEN Is(256 * Octet(p, k + 1) + Octet(p, k + 2), 3)
     ELSE Bad

\* octets pushed into a register of four from the right
RECURSIVE Pushed(_, _)
Pushed(v, octets) == IF octets = <<>> THEN v ELSE Pushed(Tail(v) \o <<Head(octets)>>, Tail(octets))

snmp_asn1_dec_u32t(p, k, n) ==
  LET octets == Reads(p, k, n)
  IN IF n \notin 1 .. 5 \/ k + n > Total(p) \/ Sign(octets[1]) = 1 THEN Failed
     ELSE Got(Pushed(<<0, 0, 0, 0>>, octets))

snmp_asn1_dec_s32t(p, k, n) ==
  LET octets == Reads(p, k, n)
      fill == IF Sign(octets[1]) = 1 THEN 255 ELSE 0
  IN IF n \notin 1 .. 4 \/ k + n > Total(p) THEN Failed
     ELSE Got(Pushed(<<fill, fill, fill, fill>>, octets))

\* sub_id << 7 in an s32_t
Shifted(sub_id) == (((sub_id + 16777216) % 33554432) - 16777216) * 128

RECURSIVE SubId(_, _)
SubId(octets, sub_id) ==
  IF octets = <<>> THEN sub_id ELSE SubId(Tail(octets), Shifted(sub_id) + (Head(octets) % 128))

\* The sub-identifiers from offset k on, n octets being left.  One that does not end
\* within them is not stored, and the search for its end goes on behind them.
Unset == -77
RECURSIVE DecodeIds(_, _, _, _)
DecodeIds(p, k, n, ids) ==
  LET Ends(j) == j = n - 1 \/ Sign(Octet(p, k + j)) = 0
      j == CHOOSE x \in 0 .. n - 1 : Ends(x) /\ \A y \in 0 .. x - 1 : ~Ends(y)
  IN IF n = 0 THEN Got(ids)
     ELSE IF k + n > Total(p) \/ Len(ids) = LWIP_SNMP_OBJ_ID_LEN THEN Failed
     ELSE IF Sign(Octet(p, k + j)) = 0
     THEN DecodeIds(p, k + j + 1, n - j - 1, Append(ids, SubId(Reads(p, k, j + 1), 0)))
     ELSE DecodeIds(p, k + j + 1, 1, Append(ids, Unset))

Prefix(b) == IF b = 43 THEN <<1, 3>> ELSE IF b < 40 THEN <<0, b>> ELSE IF b < 80 THEN <<1, b - 40>> ELSE <<2, b - 80>>

snmp_asn1_dec_oid(p, k, n) ==
  IF k >= Total(p) THEN Failed
  ELSE IF n = 0 THEN Got(<<>>) ELSE DecodeIds(p, k + 1, n - 1, Prefix(Octet(p, k)))

snmp_asn1_dec_raw(p, k, n, raw_len) ==
  IF n = 0 THEN Got(<<>>)
  ELSE IF k + n > Total(p) \/ raw_len < n THEN Failed ELSE Got(Reads(p, k, n))
-----------------------------------------------------------------------------
Chain(cut) == [i \in 1 .. Len(cut) |-> [j \in 1 .. cut[i] |-> Blank]]

Init ==
  /\ \E cut \in Cuts : msg = Chain(cut)
  /\ ofs \in Offsets
  /\ \/ kind \in {"u32", "s32"} /\ value \in Numbers
     \/ kind = "oid" /\ value \in Oids
     \/ kind = "raw" /\ value \in Raws
     \/ kind \in {"length", "type"} /\ value \in {<<n>> : n \in Lengths}
     \/ kind = "endless" /\ value \in Raws
  /\ len = 0 /\ err = "ERR_OK" /\ out = <<>> /\ at = "begin"

Count ==
  CASE kind = "u32" -> snmp_asn1_enc_u32t_cnt(value)
    [] kind = "s32" -> snmp_asn1_enc_s32t_cnt(value)
    [] kind = "oid" -> snmp_asn1_enc_oid_cnt(value)
    [] kind = "length" -> snmp_asn1_enc_length_cnt(value[1])
    [] kind = "type" -> 1
    [] OTHER -> Len(value)

\* A length without end is never encoded here: another host wrote it.
Encoded ==
  CASE kind = "u32" -> snmp_asn1_enc_u32t(msg, ofs, Count, value)
    [] kind = "s32" -> snmp_asn1_enc_s32t(msg, ofs, Count, value)
    [] kind = "oid" -> snmp_asn1_enc_oid(msg, ofs, value)
    [] kind = "length" -> snmp_asn1_enc_length(msg, ofs, value[1])
    [] kind = "type" -> snmp_asn1_enc_type(msg, ofs, value[1] % 256)
    [] kind = "raw" -> snmp_asn1_enc_raw(msg, ofs, value)
    [] OTHER -> Write(msg, ofs, <<128>> \o value, 1)

Encode ==
  /\ at = "begin" /\ at' = "encoded"
  /\ len' = Count
  /\ \E e \in {Encoded} : msg' = e.p /\ err' = e.err
  /\ UNCHANGED <<ofs, kind, value, out>>

Decoded ==
  CASE kind = "u32" -> snmp_asn1_dec_u32t(msg, ofs, len)
    [] kind = "s32" -> snmp_asn1_dec_s32t(msg, ofs, len)
    [] kind = "oid" -> snmp_asn1_dec_oid(msg, ofs, len)
    [] kind = "type" -> snmp_asn1_dec_type(msg, ofs)
    [] kind = "raw" -> snmp_asn1_dec_raw(msg, ofs, len, len)
    [] OTHER -> snmp_asn1_dec_length(msg, ofs)

Decode ==
  /\ at = "encoded" /\ err = "ERR_OK" /\ at' = "decoded"
  /\ \E d \in {Decoded} : out' = d.value /\ err' = d.err
  /\ UNCHANGED <<msg, ofs, kind, value, len>>

Next == Encode \/ Decode
Spec == Init /\ [][Next]_vars
-----------------------------------------------------------------------------
\* identifiers the encoding is made for: at least two arcs, the first two in one
\* octet, none above 2^31 - 1
PlainOid(ident) ==
  /\ Len(ident) \in 2 .. LWIP_SNMP_OBJ_ID_LEN
  /\ ident[1] \in 0 .. 2 /\ ident[2] \in 0 .. (IF ident[1] = 2 THEN 175 ELSE 39)
  /\ \A i \in 1 .. Len(ident) : ident[i] >= 0

Plain == (kind = "oid" => PlainOid(value)) /\ (kind = "type" => value[1] < 256)

\* What is encoded is decoded as the same value, wherever the cuts between the
\* pbufs fall and however close to its limits the value is (the sign octet of
\* numbers, the groups of seven bits of identifiers, the forms of a length).
RoundTripUnlessOdd ==
  at = "decoded" /\ kind # "endless" /\ Plain => err = "ERR_OK" /\ out = value

\* The octets announced are the octets written, and no others are touched: lengths
\* are written in front of values before the values are.
CountIsWritten ==
  at = "encoded" /\ err = "ERR_OK" /\ kind # "endless" /\ Plain =>
    \A k \in 0 .. Total(msg) - 1 :
      (k < ofs \/ k >= ofs + len) => Octet(msg, k) = Blank

\* An encoder refuses only what there is no room for, except an identifier of two
\* arcs, or nothing at all, that should end the message (asn1_enc.c:465-471, 572).
RefusesOnlyWithoutRoomUnless ==
  at = "encoded" /\ err = "ERR_ARG" /\ Plain =>
    \/ ofs + len > Total(msg)
    \/ kind = "oid" /\ Len(value) = 2
    \/ kind = "raw" /\ value = <<>>

\* A length without end is where two zeros in a row come first.
EndlessEndsAtZeros ==
  at = "decoded" /\ kind = "endless" /\ err = "ERR_OK" =>
    /\ out[1] <= Len(value) => value[out[1]] = 0 /\ value[out[1] - 1] = 0
    /\ \A i \in 2 .. Len(value) : value[i] = 0 /\ value[i - 1] = 0 => out[1] <= i
=============================================================================
