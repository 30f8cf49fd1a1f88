------------------------------- MODULE TcpSend -------------------------------
(***************************************************************************)
(* The sending side of a TCP connection of lwIP (core/tcp_out.c and the    *)
(* acknowledgement part of tcp_receive): tcp_write cuts the stream into    *)
(* segments, tcp_output moves them from unsent to unacked, acknowledgement *)
(* frees them, timeouts and duplicate acknowledgements move them back.     *)
(* The peer takes any part of what was sent that is next and fits its      *)
(* window; its acknowledgements are repeated, reordered and lost.          *)
(* Flags that are about acknowledging are in TcpRecv.                      *)
(***************************************************************************)
EXTENDS Integers, Sequences, FiniteSets, SequencesExt

CONSTANTS
  N,                    \* bytes the application writes
  ISS, M,               \* first sequence number; 2^32
  U16,                  \* 2^16, where the congestion window would wrap
  MSS, TCP_SND_BUF, TCP_SND_QUEUELEN,
  Window, WndMax,       \* the peer's buffer; the largest window it announced so far
  MaxAcks               \* bound: acknowledgements on their way

VARIABLES
  pcb,          \* the fields of struct tcp_pcb that sending uses
  sent,         \* ghost: one past the last sequence number that was transmitted
  peer,         \* [nxt, held]: what it has received, and has not read
  acks,         \* acknowledgements on their way
  told,         \* ghost: bytes reported to the sent callback
  resent        \* ghost: segments went back to unsent, or an allocation failed

vars == <<pcb, sent, peer, acks, told, resent>>

Seq32(n) == n % M
Lt(a, b) == Seq32(a - b) >= M \div 2
Leq(a, b) == Seq32(a) = Seq32(b) \/ Lt(a, b)
Between(a, b, c) == Leq(b, a) /\ Leq(a, c)
Lesser(a, b) == IF a < b THEN a ELSE b
Greater(a, b) == IF a > b THEN a ELSE b
Later(a, b) == IF Lt(a, b) THEN b ELSE a

\* The congestion window grows unless it would wrap.
Grow(cwnd, by) == IF (cwnd + by) % U16 > cwnd THEN (cwnd + by) % U16 ELSE cwnd

Tcplen(s) == s.len + (IF s.fin THEN 1 ELSE 0)
RECURSIVE Clen(_)
Clen(q) == IF q = <<>> THEN 0 ELSE q[1].clen + Clen(Tail(q))

\* A connection that was just established, mss and windows known.
Init ==
  /\ pcb = [snd_nxt |-> Seq32(ISS), lastack |-> Seq32(ISS), snd_lbb |-> Seq32(ISS), snd_wnd |-> Window,
            snd_wnd_max |-> WndMax, snd_wl2 |-> Seq32(ISS), cwnd |-> 2 * MSS, ssthresh |-> Lesser(10 * MSS, U16 - 1),
            unsent |-> <<>>, unacked |-> <<>>, unsent_oversize |-> 0,
            snd_buf |-> TCP_SND_BUF, snd_queuelen |-> 0, memerr |-> FALSE, fin |-> FALSE, merged |-> FALSE,
            infr |-> FALSE, dupacks |-> 0, timer |-> FALSE, persist |-> FALSE]
  /\ sent = Seq32(ISS)
  /\ peer = [nxt |-> Seq32(ISS), held |-> 0]
  /\ acks = {} /\ told = 0 /\ resent = FALSE
-----------------------------------------------------------------------------
\* tcp_do_output_nagle
Nagle(p) ==
  \/ p.unacked = <<>> \/ p.infr
  \/ Len(p.unsent) > 1 \/ p.unsent[1].len >= MSS
  \/ p.snd_buf = 0 \/ p.snd_queuelen >= TCP_SND_QUEUELEN

\* A segment that was sent takes its place in unacked.
IntoUnacked(q, s) ==
  LET before == {i \in 1..Len(q) : \A j \in 1..i : Lt(q[j].seq, s.seq)}
      k == Cardinality(before)
  IN IF Tcplen(s) = 0 THEN q
     ELSE IF q # <<>> /\ Lt(s.seq, q[Len(q)].seq)
          THEN SubSeq(q, 1, k) \o <<s>> \o SubSeq(q, k + 1, Len(q))
          ELSE Append(q, s)

Fits(p, s) == Seq32(s.seq - p.lastack + s.len) <= Lesser(p.snd_wnd, p.cwnd)

\* tcp_output, with tcp_output_segment.
RECURSIVE OutputLoop(_)
OutputLoop(p) ==
  LET s == p.unsent[1]
      goes == p.unsent # <<>> /\ Fits(p, s) /\ (Nagle(p) \/ p.memerr \/ p.fin)
  IN IF ~goes THEN [p EXCEPT !.unsent_oversize = IF p.unsent = <<>> THEN 0 ELSE @, !.memerr = FALSE]
     ELSE OutputLoop([p EXCEPT !.unsent = Tail(@), !.unacked = IntoUnacked(@, s), !.timer = TRUE,
                               !.snd_nxt = Later(@, Seq32(s.seq + Tcplen(s)))])
tcp_output(p) == OutputLoop(p)
-----------------------------------------------------------------------------
\* tcp_pbuf_prealloc: the room left behind length bytes; TCP_OVERSIZE is a whole segment.
Oversize(p, length, max, first) ==
  IF length < max /\ (~first \/ p.unsent # <<>> \/ p.unacked # <<>>) THEN max - length ELSE 0

mss_local(p) == Lesser(MSS, p.snd_wnd_max \div 2)

\* tcp_write, first the room in the last unsent segment, then a pbuf at its end.
Used(p, len) == IF p.unsent = <<>> THEN 0 ELSE Lesser(p.unsent_oversize, len)
Space(p, len) == mss_local(p) - p.unsent[Len(p.unsent)].len - Used(p, len)
Concat(p, len) ==
  IF p.unsent # <<>> /\ Used(p, len) < len /\ Space(p, len) > 0 /\ p.unsent[Len(p.unsent)].len > 0
  THEN Lesser(Space(p, len), len - Used(p, len)) ELSE 0

\* The room behind it afterwards, and the segment.
RoomAfter(p, len, copy) ==
  IF Concat(p, len) = 0 THEN p.unsent_oversize - Used(p, len)
  ELSE IF copy THEN Oversize(p, Concat(p, len), Space(p, len), TRUE) ELSE 0
Grown(p, len, copy) ==
  LET s == p.unsent[Len(p.unsent)]
      concat == Concat(p, len)
  IN [s EXCEPT !.len = @ + Used(p, len) + concat, !.clen = @ + (IF concat > 0 THEN 1 ELSE 0),
               !.left = @ + (IF copy /\ concat > 0 THEN RoomAfter(p, len, copy) ELSE 0) - Used(p, len)]

\* Then new segments for what is left from pos on; with copy in one pbuf, without in two.
NewSegments(p, pos, len, copy) ==
  LET n == (len - pos + mss_local(p) - 1) \div mss_local(p)
  IN [i \in 1..n |->
        LET l == Lesser(mss_local(p), len - pos - (i - 1) * mss_local(p))
        IN [seq |-> Seq32(p.snd_lbb + pos + (i - 1) * mss_local(p)), len |-> l, fin |-> FALSE,
            clen |-> IF copy THEN 1 ELSE 2, left |-> IF copy THEN Oversize(p, l, mss_local(p), i = 1) ELSE 0]]

tcp_write_checks(p, len) == len <= p.snd_buf /\ p.snd_queuelen < TCP_SND_QUEUELEN

\* fail: no allocation fails, the first one does, or one after that for the concatenation,
\* which has then already been noted in the last segment (oversize_left).
tcp_write(p, len, copy, fail) ==
  LET concat == Concat(p, len)
      pos == Used(p, len) + concat
      over == RoomAfter(p, len, copy)
      q == NewSegments(p, pos, len, copy)
      queuelen == p.snd_queuelen + (IF concat > 0 THEN 1 ELSE 0) + Clen(q)
      memerr == fail # "none" \/ queuelen > TCP_SND_QUEUELEN
      noted == IF copy /\ concat > 0 /\ fail # "first"
               THEN [p EXCEPT !.unsent[Len(p.unsent)].left = @ + over] ELSE p
  IN IF ~tcp_write_checks(p, len) THEN [p EXCEPT !.memerr = TRUE]
     ELSE IF memerr THEN [noted EXCEPT !.memerr = TRUE]
     ELSE [p EXCEPT !.unsent = (IF p.unsent = <<>> THEN <<>> ELSE [p.unsent EXCEPT ![Len(p.unsent)] = Grown(p, len, copy)]) \o q,
                    !.unsent_oversize = IF q = <<>> THEN over ELSE q[Len(q)].left,
                    !.snd_lbb = Seq32(@ + len), !.snd_buf = @ - len, !.snd_queuelen = queuelen]

\* tcp_enqueue_flags for a FIN.
tcp_enqueue_flags(p) ==
  IF p.snd_queuelen >= TCP_SND_QUEUELEN THEN [p EXCEPT !.memerr = TRUE]
  ELSE IF p.snd_buf = 0 THEN p
  ELSE [p EXCEPT !.unsent = Append(@, [seq |-> p.snd_lbb, len |-> 0, fin |-> TRUE, clen |-> 1, left |-> 0]),
                 !.unsent_oversize = 0, !.snd_lbb = Seq32(@ + 1), !.snd_buf = @ - 1,
                 !.fin = TRUE, !.snd_queuelen = @ + 1]

\* tcp_send_fin: a FIN on the last unsent segment is not counted in snd_lbb and snd_buf.
tcp_send_fin(p) ==
  IF p.unsent # <<>> /\ ~p.unsent[Len(p.unsent)].fin
  THEN [p EXCEPT !.unsent[Len(p.unsent)].fin = TRUE, !.fin = TRUE, !.merged = TRUE]
  ELSE tcp_enqueue_flags(p)
-----------------------------------------------------------------------------
\* tcp_rexmit: the first unacked segment goes back to its place in unsent.
tcp_rexmit(p) ==
  LET s == p.unacked[1]
      k == Cardinality({i \in 1..Len(p.unsent) : \A j \in 1..i : Lt(p.unsent[j].seq, s.seq)})
  IN [p EXCEPT !.unacked = Tail(@),
               !.unsent = SubSeq(@, 1, k) \o <<s>> \o SubSeq(@, k + 1, Len(@)),
               !.unsent_oversize = IF k = Len(p.unsent) THEN 0 ELSE @]

tcp_rexmit_fast(p) ==
  LET half == Lesser(p.cwnd, p.snd_wnd) \div 2
      ss == Greater(half, 2 * MSS)
  IN IF p.unacked = <<>> \/ p.infr THEN p
     ELSE [tcp_rexmit(p) EXCEPT !.ssthresh = ss, !.cwnd = (ss + 3 * MSS) % U16, !.infr = TRUE]

\* tcp_rexmit_rto with the congestion window as tcp_slowtmr sets it.
tcp_rexmit_rto(p) ==
  tcp_output([p EXCEPT !.ssthresh = Greater(Lesser(p.cwnd, p.snd_wnd) \div 2, 2 * MSS), !.cwnd = MSS,
                       !.unsent = p.unacked \o p.unsent, !.unacked = <<>>])
-----------------------------------------------------------------------------
\* tcp_receive: the window of an acknowledgement that is not an old one.
UpdateWindow(p, ackno, wnd) ==
  IF Lt(p.snd_wl2, ackno) \/ (p.snd_wl2 = ackno /\ wnd > p.snd_wnd)
  THEN [p EXCEPT !.snd_wnd = wnd, !.snd_wnd_max = Greater(@, wnd), !.snd_wl2 = ackno, !.persist = (wnd = 0)]
  ELSE p

\* A duplicate acknowledgement; edge: where the window ended before it.
Duplicate(p, ackno, edge) ==
  LET dup == Seq32(p.snd_wl2 + p.snd_wnd) = edge /\ p.timer /\ p.lastack = ackno
      q == [p EXCEPT !.dupacks = IF dup THEN Lesser(@ + 1, 4) ELSE 0]
  IN IF ~dup \/ q.dupacks < 3 THEN q
     ELSE IF q.dupacks = 3 THEN tcp_rexmit_fast(q)
     ELSE [q EXCEPT !.cwnd = Grow(@, MSS)]

\* The segments of a queue that are acknowledged completely.
Acked(q, ackno) == Cardinality({i \in 1..Len(q) : \A j \in 1..i : Leq(q[j].seq + Tcplen(q[j]), ackno)})
WithoutFirst(q, k) == SubSeq(q, k + 1, Len(q))

\* Mutant: segments that were to be sent again stay although they are acknowledged.
AckedUnsentNone(p, ackno) == 0
AckedUnsent(p, ackno) == IF Leq(ackno, p.snd_nxt) THEN Acked(p.unsent, ackno) ELSE 0

\* An acknowledgement of new data, and in any case of segments waiting to be sent again.
Acknowledge(p, ackno) ==
  LET acked == Seq32(ackno - p.lastack)
      cw == IF p.infr THEN p.ssthresh ELSE p.cwnd
      k == Acked(p.unacked, ackno)
      rest == WithoutFirst(p.unacked, k)
  IN [p EXCEPT !.infr = FALSE, !.dupacks = 0, !.lastack = ackno, !.snd_buf = @ + acked,
               !.cwnd = Grow(cw, IF cw < p.ssthresh THEN MSS ELSE (MSS * MSS) \div cw),
               !.unacked = rest, !.timer = (rest # <<>>),
               !.snd_queuelen = @ - Clen(SubSeq(p.unacked, 1, k))]

\* pcb->acked without the FINs of the segments that are freed.
Reported(acked, gone) == Greater(acked - Cardinality({i \in 1..Len(gone) : gone[i].fin}), 0)

\* tcp_receive for a segment with this acknowledgement and no data, then the end of
\* tcp_input; the callback hears of the bytes, without the FIN.
AckInput(p, ackno, wnd) ==
  LET edge == Seq32(p.snd_wl2 + p.snd_wnd)
      p1 == UpdateWindow(p, ackno, wnd)
      new == Between(ackno, p1.lastack + 1, p1.snd_nxt)
      p2 == IF Leq(ackno, p1.lastack) THEN Duplicate(p1, ackno, edge)
            ELSE IF new THEN Acknowledge(p1, ackno) ELSE p1
      k == AckedUnsent(p2, ackno)
      p3 == [p2 EXCEPT !.unsent = WithoutFirst(@, k), !.snd_queuelen = @ - Clen(SubSeq(p2.unsent, 1, k)),
                       !.unsent_oversize = IF k = Len(p2.unsent) THEN 0 ELSE @]
      gone == SubSeq(p1.unacked, 1, IF new THEN Acked(p1.unacked, ackno) ELSE 0) \o SubSeq(p2.unsent, 1, k)
      acked == IF new THEN Seq32(ackno - p1.lastack) ELSE 0
  IN [pcb |-> tcp_output(p3), acked |-> Reported(acked, gone)]

Input(m) ==
  /\ m \in acks
  /\ LET r == AckInput(pcb, m.ackno, m.wnd)
     IN /\ pcb' = r.pcb /\ told' = told + r.acked
        /\ sent' = Later(sent, r.pcb.snd_nxt)
        /\ resent' = (resent \/ r.pcb.infr)
  /\ acks' = acks \ {m}
  /\ UNCHANGED <<peer>>

Lose(m) ==
  /\ m \in acks
  /\ acks' = acks \ {m}
  /\ UNCHANGED <<pcb, sent, peer, told, resent>>
-----------------------------------------------------------------------------
Written == Seq32(pcb.snd_lbb - ISS) - (IF pcb.fin /\ ~pcb.merged THEN 1 ELSE 0)

Write(len, copy, fail) ==
  /\ ~pcb.fin /\ len <= N - Written
  /\ fail = "later" => Used(pcb, len) + Concat(pcb, len) < len
  /\ LET p == tcp_output(tcp_write(pcb, len, copy, fail))
     IN /\ pcb' = p
        /\ sent' = Later(sent, p.snd_nxt)
  /\ resent' = (resent \/ fail # "none")
  /\ UNCHANGED <<peer, acks, told>>

\* tcp_close_shutdown of an established connection, when all has been written.
Shutdown ==
  /\ ~pcb.fin /\ Written = N
  /\ LET p == tcp_send_fin(pcb)
         q == IF p.fin THEN tcp_output(p) ELSE p
     IN pcb' = q /\ sent' = Later(sent, q.snd_nxt)
  /\ UNCHANGED <<peer, acks, told, resent>>

\* tcp_slowtmr, the retransmission timer.
RetransmitTimeout ==
  /\ pcb.unacked # <<>> /\ pcb.timer /\ ~pcb.persist
  /\ LET p == tcp_rexmit_rto(pcb) IN pcb' = p /\ sent' = Later(sent, p.snd_nxt)
  /\ resent' = TRUE
  /\ UNCHANGED <<peer, acks, told>>

\* The persist timer: tcp_zero_window_probe sends the first byte, or the FIN alone.
Probe == IF pcb.unacked # <<>> THEN pcb.unacked[1] ELSE pcb.unsent[1]
PersistTimeout ==
  /\ pcb.persist /\ pcb.unacked \o pcb.unsent # <<>> /\ Cardinality(acks) < MaxAcks
  /\ sent' = Later(sent, Seq32(Probe.seq + 1))
  \* the peer answers also if it has no room
  /\ acks' = acks \union {[ackno |-> peer.nxt, wnd |-> Window - peer.held]}
  /\ UNCHANGED <<pcb, peer, told, resent>>

\* The peer (external).
PeerTakes(n) ==
  /\ Cardinality(acks) < MaxAcks
  /\ n <= Seq32(sent - peer.nxt)
  /\ LET data == Lesser(n, N - Seq32(peer.nxt - ISS))
     IN /\ peer.held + data <= Window
        /\ peer' = [nxt |-> Seq32(peer.nxt + n), held |-> peer.held + data]
  /\ acks' = acks \union {[ackno |-> peer'.nxt, wnd |-> Window - peer'.held]}
  /\ UNCHANGED <<pcb, sent, told, resent>>

\* What it reads gives window back; it announces that when the buffer is empty again.
PeerReads ==
  /\ peer.held > 0 /\ Cardinality(acks) < MaxAcks
  /\ peer' = [peer EXCEPT !.held = 0]
  /\ acks' = acks \union {[ackno |-> peer.nxt, wnd |-> Window]}
  /\ UNCHANGED <<pcb, sent, told, resent>>

\* A segment that comes again, or after a hole, is acknowledged again.
PeerRepeats ==
  /\ Lt(pcb.lastack, sent) /\ Cardinality(acks) < MaxAcks
  /\ acks' = acks \union {[ackno |-> peer.nxt, wnd |-> Window - peer.held]}
  /\ UNCHANGED <<pcb, sent, peer, told, resent>>

Next ==
  \/ \E len \in 1..N, copy \in BOOLEAN, fail \in {"none", "first", "later"} : Write(len, copy, fail)
  \/ Shutdown \/ RetransmitTimeout \/ PersistTimeout
  \/ \E m \in acks : Input(m)
  \/ \E m \in acks : Lose(m)
  \/ \E n \in 1..(N + 1) : PeerTakes(n)
  \/ PeerReads \/ PeerRepeats
Spec == Init /\ [][Next]_vars
-----------------------------------------------------------------------------
\* The two queues hold the stream: in unacked and unsent together lies, in order and
\* without gap or overlap, everything from the first segment not wholly acknowledged to
\* what was written last, whatever was acknowledged, sent again or refused for
\* want of memory; and the counts of pbufs and of free space agree with them (a FIN on
\* the last segment is not counted as written, and leaves the space one too large).
QueuesHoldStream ==
  LET q == pcb.unacked \o pcb.unsent
      s == SortSeq(q, LAMBDA a, b : Lt(a.seq, b.seq))
      finExtra == IF pcb.merged THEN 1 ELSE 0
  IN /\ \A i \in 1..(Len(s) - 1) : Seq32(s[i].seq + Tcplen(s[i])) = s[i + 1].seq
     /\ s # <<>> => /\ Leq(s[1].seq, pcb.lastack) /\ Lt(pcb.lastack, s[1].seq + Tcplen(s[1]))
                    /\ Seq32(s[Len(s)].seq + Tcplen(s[Len(s)])) = Seq32(pcb.snd_lbb + finExtra)
     /\ s = <<>> => pcb.lastack = Seq32(pcb.snd_lbb + finExtra)
     /\ pcb.snd_queuelen = Clen(q)
     /\ pcb.snd_buf + Seq32(pcb.snd_lbb + finExtra - pcb.lastack) = TCP_SND_BUF + finExtra

\* The sent callback hears of every byte once: the reports add up to what has been
\* acknowledged, with the FIN left out, in whichever queue the segments were.
ReportsAddUp ==
  told = Lesser(Seq32(pcb.lastack - ISS), Written)

\* The room behind the last unsent segment is what tcp_write believes, unless a segment
\* came back from unacked or an allocation failed after the room was noted (the two
\* counts are compared by an assertion at tcp_out.c:444).
OversizeAgreesUnlessResent ==
  ~resent /\ pcb.unsent # <<>> => pcb.unsent[Len(pcb.unsent)].left = pcb.unsent_oversize

\* Someone will act: whatever is not acknowledged, an acknowledgement is on its way, a
\* timer runs, or the peer has something to take or to read; unless the first segment
\* does not fit into a window that is open, for which there is no timer.
SomethingPendingUnlessTooSmall ==
  pcb.unacked \o pcb.unsent # <<>> =>
    \/ acks # {} \/ peer.held > 0
    \/ (pcb.persist \/ (pcb.unacked # <<>> /\ pcb.timer))
    \/ (pcb.unacked = <<>> /\ pcb.snd_wnd > 0 /\ ~Fits(pcb, pcb.unsent[1]))
=============================================================================
