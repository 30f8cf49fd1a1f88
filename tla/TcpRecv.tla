------------------------------- MODULE TcpRecv -------------------------------
(***************************************************************************)
(* The receiving side of a TCP connection of lwIP (core/tcp_in.c and       *)
(* tcp.c): tcp_receive with its queue of segments that came too early, the *)
(* window that is announced, data the application refuses, and the end of  *)
(* the stream.  The peer sends any part of a stream of N bytes any number  *)
(* of times and in any order, cut in any way, inside the announced window; *)
(* as tcp_output of lwIP does, it leaves the FIN out of account there, and *)
(* it may probe one byte further.  A byte is its position in the stream.   *)
(***************************************************************************)
EXTENDS Integers, Sequences, FiniteSets, SequencesExt

CONSTANTS
  N,                    \* length of the stream
  ISN,                  \* sequence number of its first byte
  M,                    \* 2^32
  TCP_WND, MSS, TCP_WND_UPDATE_THRESHOLD

VARIABLES
  pcb,          \* the fields of struct tcp_pcb that receiving uses
  refused,      \* refused_data: [data, fin], or None
  delivered,    \* ghost: what the application has accepted
  closed,       \* the application has been told the end
  unread,       \* bytes it has not yet given to tcp_recved
  panic,        \* a LWIP_ASSERT has failed
  grown         \* ghost: a queued segment was given a length beyond its data

vars == <<pcb, refused, delivered, closed, unread, panic, grown>>

None == [data |-> <<>>, fin |-> FALSE]
Seq32(n) == n % M
Lt(a, b) == Seq32(a - b) >= M \div 2
Leq(a, b) == Seq32(a) = Seq32(b) \/ Lt(a, b)
Gt(a, b) == Lt(b, a)
Between(a, b, c) == Leq(b, a) /\ Leq(a, c)
Lesser(a, b) == IF a < b THEN a ELSE b
Least(S) == CHOOSE i \in S : \A j \in S : i <= j

Tcplen(s) == s.len + (IF s.fin THEN 1 ELSE 0)
\* A new length, with pbuf_realloc, which never lengthens.
Cut(s, n) == [s EXCEPT !.len = n, !.data = SubSeq(@, 1, Lesser(n, Len(@)))]

Init ==
  /\ pcb = [state |-> "ESTABLISHED", rcv_nxt |-> Seq32(ISN), rcv_wnd |-> TCP_WND, rcv_ann_wnd |-> TCP_WND,
            edge |-> Seq32(ISN + TCP_WND), ooseq |-> <<>>, delay |-> FALSE, now |-> FALSE]
  /\ refused = None /\ delivered = <<>> /\ closed = FALSE /\ unread = 0
  /\ panic = FALSE /\ grown = FALSE
-----------------------------------------------------------------------------

\* tcp_update_rcv_ann_wnd: a larger window is announced only when it has grown enough.
tcp_update_rcv_ann_wnd(p) ==
  [p EXCEPT !.rcv_ann_wnd =
     IF Leq(p.edge + Lesser(TCP_WND \div 2, MSS), p.rcv_nxt + p.rcv_wnd) THEN p.rcv_wnd
     ELSE IF Gt(p.rcv_nxt, p.edge) THEN 0 ELSE Seq32(p.edge - p.rcv_nxt)]

Inflation(p) ==
  IF Leq(p.edge + Lesser(TCP_WND \div 2, MSS), p.rcv_nxt + p.rcv_wnd)
  THEN Seq32(p.rcv_nxt + p.rcv_wnd - p.edge) ELSE 0

\* tcp_send_empty_ack: every segment sent announces the window.
tcp_send_empty_ack(p) ==
  [p EXCEPT !.edge = Seq32(p.rcv_nxt + p.rcv_ann_wnd), !.delay = FALSE, !.now = FALSE]

\* tcp_output of a connection with nothing to send.
tcp_output(p) == IF p.now THEN tcp_send_empty_ack(p) ELSE p

tcp_ack_now(p) == [p EXCEPT !.now = TRUE]
tcp_ack(p) == IF p.delay THEN [p EXCEPT !.delay = FALSE, !.now = TRUE] ELSE [p EXCEPT !.delay = TRUE]
-----------------------------------------------------------------------------
\* How many segments from the front of a queue end within a stretch of the stream.
Covered(o, end) ==
  Cardinality({i \in 1..Len(o) : \A j \in 1..i : Leq(o[j].seq + o[j].len, end)})

\* tcp_oos_insert_segment: the new segment swallows the queued ones it covers, with
\* the FIN of the last, and ends where the next one begins.
tcp_oos_insert_segment(c, next) ==
  LET k == Covered(next, c.seq + c.len)
      rest == SubSeq(next, k + 1, Len(next))
      c1 == [c EXCEPT !.fin = \E i \in 1..k : next[i].fin]
  IN IF c.fin THEN <<c>>
     ELSE IF rest # <<>> /\ Gt(c.seq + c1.len, rest[1].seq)
          THEN <<Cut(c1, Seq32(rest[1].seq - c.seq))>> \o rest
          ELSE <<c1>> \o rest

\* The segment s goes behind the queue o.  Whether it reaches beyond the window is asked
\* of numbers that may have wrapped around; tcplen is that of the segment as it came.
AppendLast(p, s, tcplen) ==
  LET o == p.ooseq
      last == o[Len(o)]
      cut == IF Gt(last.seq + last.len, s.seq) THEN Cut(last, Seq32(s.seq - last.seq)) ELSE last
      end == Seq32(p.rcv_nxt + p.rcv_wnd)
      new == IF Seq32(tcplen + s.seq) > end
             THEN Cut([s EXCEPT !.fin = FALSE], Seq32(end - s.seq)) ELSE s
  IN IF last.fin THEN o ELSE Append([o EXCEPT ![Len(o)] = cut], new)

\* Mutant: a segment is put between two others without shortening the one before.
EnqueueOverlaps(p, s, tcplen) ==
  LET o == p.ooseq
      at(i) == \/ s.seq = o[i].seq
               \/ i = 1 /\ Lt(s.seq, o[i].seq)
               \/ i > 1 /\ Between(s.seq, o[i - 1].seq + 1, o[i].seq - 1)
               \/ i = Len(o) /\ Gt(s.seq, o[i].seq)
      stops == {i \in 1..Len(o) : at(i)}
      i == Least(stops)
      before == SubSeq(o, 1, i - 1)
      from == SubSeq(o, i, Len(o))
  IN IF o = <<>> THEN <<s>>
     ELSE IF stops = {} THEN o
     ELSE IF s.seq = o[i].seq
          THEN IF s.len > o[i].len THEN before \o tcp_oos_insert_segment(s, from) ELSE o
     ELSE IF Gt(s.seq, o[i].seq) THEN AppendLast(p, s, tcplen)
     ELSE before \o tcp_oos_insert_segment(s, from)

\* tcp_receive, the walk that finds the place of a segment in the queue.
Enqueue(p, s, tcplen) ==
  LET o == p.ooseq
      at(i) == \/ s.seq = o[i].seq
               \/ i = 1 /\ Lt(s.seq, o[i].seq)
               \/ i > 1 /\ Between(s.seq, o[i - 1].seq + 1, o[i].seq - 1)
               \/ i = Len(o) /\ Gt(s.seq, o[i].seq)
      stops == {i \in 1..Len(o) : at(i)}
      i == Least(stops)
      before == SubSeq(o, 1, i - 1)
      from == SubSeq(o, i, Len(o))
      prev == o[i - 1]
      shorter == IF Gt(prev.seq + prev.len, s.seq) THEN Cut(prev, Seq32(s.seq - prev.seq)) ELSE prev
  IN IF o = <<>> THEN <<s>>
     ELSE IF stops = {} THEN o
     ELSE IF s.seq = o[i].seq
          THEN IF s.len > o[i].len THEN before \o tcp_oos_insert_segment(s, from) ELSE o
     ELSE IF Gt(s.seq, o[i].seq) THEN AppendLast(p, s, tcplen)
     ELSE IF i = 1 THEN tcp_oos_insert_segment(s, from)
     ELSE [before EXCEPT ![i - 1] = shorter] \o tcp_oos_insert_segment(s, from)
-----------------------------------------------------------------------------
\* What tcp_receive leaves in its static variables: the pcb, recv_data, TF_GOT_FIN,
\* and whether an assertion failed.
Result(p, data, fin, ok) == [pcb |-> p, data |-> data, fin |-> fin, ok |-> ok]

\* The queued segments that are next.
RECURSIVE Dequeue(_)
Dequeue(r) ==
  LET p == r.pcb
      c == p.ooseq[1]
      q == [p EXCEPT !.rcv_nxt = Seq32(@ + Tcplen(c)), !.rcv_wnd = @ - Tcplen(c), !.ooseq = Tail(@),
                     !.state = IF c.fin /\ @ = "ESTABLISHED" THEN "CLOSE_WAIT" ELSE @]
  IN IF p.ooseq = <<>> \/ c.seq # p.rcv_nxt THEN r
     ELSE IF Tcplen(c) > p.rcv_wnd THEN Result(p, r.data, r.fin, FALSE)
     ELSE Dequeue(Result(tcp_update_rcv_ann_wnd(q), r.data \o c.data, r.fin \/ c.fin, r.ok))

\* A segment longer than the window loses its end, and its FIN.
CutToWindow(p, s) == IF Tcplen(s) > p.rcv_wnd THEN Cut([s EXCEPT !.fin = FALSE], p.rcv_wnd) ELSE s

\* The segment that is next: cut to the window and to the queue.
InOrder(p, s) ==
  LET s1 == CutToWindow(p, s)
      k == Covered(p.ooseq, s1.seq + Tcplen(s1))
      rest == IF s1.fin THEN <<>> ELSE SubSeq(p.ooseq, k + 1, Len(p.ooseq))
      s2 == [s1 EXCEPT !.fin = s1.fin \/ \E i \in 1..k : p.ooseq[i].fin]
      s3 == IF rest # <<>> /\ Gt(s2.seq + Tcplen(s2), rest[1].seq)
            THEN Cut(s2, Seq32(rest[1].seq - s2.seq)) ELSE s2
      ok == /\ rest # <<>> => Leq(s3.seq + Tcplen(s3), rest[1].seq)
            /\ p.rcv_wnd >= Tcplen(s3)
      q == [p EXCEPT !.ooseq = rest, !.rcv_nxt = Seq32(s3.seq + Tcplen(s3)), !.rcv_wnd = @ - Tcplen(s3)]
      r == IF ok THEN Dequeue(Result(tcp_update_rcv_ann_wnd(q), s3.data, s3.fin, TRUE))
           ELSE Result(p, <<>>, FALSE, FALSE)
  IN [r EXCEPT !.pcb = tcp_ack(@)]

\* Bytes that have been received before are taken off the front.
TrimFront(p, s) ==
  LET off == Seq32(p.rcv_nxt - s.seq)
  IN IF Between(p.rcv_nxt, s.seq + 1, s.seq + Tcplen(s) - 1)
     THEN [s EXCEPT !.seq = p.rcv_nxt, !.len = @ - off, !.data = SubSeq(@, off + 1, Len(@))]
     ELSE s

\* tcp_receive, without what it does with the acknowledgement; mem: a MEMP_TCP_SEG is free.
tcp_receive(p, seg, mem) ==
  LET s == TrimFront(p, seg)
      q == IF s = seg /\ Lt(seg.seq, p.rcv_nxt) THEN tcp_ack_now(p) ELSE p
      a == tcp_send_empty_ack(q)
  IN IF p.state \in {"CLOSE_WAIT", "CLOSING", "LAST_ACK"}
     THEN Result(IF Between(seg.seq, p.rcv_nxt, p.rcv_nxt + p.rcv_wnd - 1) THEN p ELSE tcp_ack_now(p), <<>>, FALSE, TRUE)
     ELSE IF ~Between(s.seq, q.rcv_nxt, q.rcv_nxt + q.rcv_wnd - 1) THEN Result(a, <<>>, FALSE, TRUE)
     ELSE IF s.seq = q.rcv_nxt THEN InOrder(q, s)
     ELSE Result(IF mem THEN [a EXCEPT !.ooseq = Enqueue(a, s, Tcplen(seg))] ELSE a, <<>>, FALSE, TRUE)
-----------------------------------------------------------------------------
\* The peer's segments.
Segment(a, b, fin) == [seq |-> Seq32(ISN + a), len |-> b - a, fin |-> fin, data |-> [i \in 1..(b - a) |-> a + i - 1]]
Allowed(a, b) ==
  \/ Leq(ISN + b, pcb.edge)
  \/ b = a + 1 /\ Seq32(ISN + a) = pcb.edge

\* The end of the stream: tcp_input gives the window one more and calls back.
Close(p) == [p EXCEPT !.rcv_wnd = IF @ # TCP_WND THEN @ + 1 ELSE @]

\* TF_GOT_FIN is kept with the data if the application refused it.
FinNow(r, take) == r.fin /\ (r.data = <<>> \/ take)

\* tcp_input for a segment of this connection, when no refused data waits; the
\* application takes the data or refuses it.  A segment without data or FIN is left out.
Input(a, b, fin, mem, take) ==
  /\ ~panic /\ refused = None /\ Allowed(a, b)
  /\ LET r == tcp_receive(pcb, Segment(a, b, fin), mem)
         got == r.data # <<>>
         p == IF r.fin THEN [tcp_ack_now(r.pcb) EXCEPT !.state = "CLOSE_WAIT"] ELSE r.pcb
     IN /\ panic' = ~r.ok
        /\ refused' = IF got /\ ~take THEN [data |-> r.data, fin |-> r.fin] ELSE None
        /\ delivered' = IF take THEN delivered \o r.data ELSE delivered
        /\ unread' = IF take THEN unread + Len(r.data) ELSE unread
        /\ closed' = (closed \/ FinNow(r, take))
        /\ pcb' = tcp_output(IF FinNow(r, take) THEN Close(p) ELSE p)
        /\ grown' = (grown \/ \E i \in 1..Len(pcb'.ooseq) : pcb'.ooseq[i].len > Len(pcb'.ooseq[i].data))

\* tcp_fasttmr: a delayed acknowledgement.  tcp_input ignores data while some is refused.
FastTimer ==
  /\ ~panic /\ pcb.delay
  /\ pcb' = tcp_send_empty_ack(pcb)
  /\ UNCHANGED <<refused, delivered, closed, unread, panic, grown>>

\* tcp_process_refused_data, from the timer or from tcp_input, accepted this time.
tcp_process_refused_data ==
  /\ ~panic /\ refused # None
  /\ delivered' = delivered \o refused.data
  /\ unread' = unread + Len(refused.data)
  /\ closed' = (closed \/ refused.fin)
  /\ pcb' = IF refused.fin THEN Close(pcb) ELSE pcb
  /\ refused' = None
  /\ UNCHANGED <<panic, grown>>

\* The application has read some bytes.
tcp_recved(len) ==
  /\ ~panic /\ len \in 1..unread
  /\ LET p == [pcb EXCEPT !.rcv_wnd = Lesser(@ + len, TCP_WND)]
         q == tcp_update_rcv_ann_wnd(p)
     IN pcb' = IF Inflation(p) >= TCP_WND_UPDATE_THRESHOLD THEN tcp_send_empty_ack(q) ELSE q
  /\ unread' = unread - len
  /\ UNCHANGED <<refused, delivered, closed, panic, grown>>

\* tcp_slowtmr: segments that waited too long are dropped.
OoseqTimeout ==
  /\ ~panic /\ pcb.ooseq # <<>>
  /\ pcb' = [pcb EXCEPT !.ooseq = <<>>]
  /\ UNCHANGED <<refused, delivered, closed, unread, panic, grown>>

Arrives(a, b, fin) == \E mem, take \in BOOLEAN : Input(a, b, fin, mem, take)
Next ==
  \/ \E a \in 0..N : \E b \in a..N : \E fin \in BOOLEAN :
       (a < b \/ fin) /\ (fin => b = N) /\ Arrives(a, b, fin)
  \/ FastTimer \/ tcp_process_refused_data
  \/ \E len \in 1..TCP_WND : tcp_recved(len)
  \/ OoseqTimeout

Spec == Init /\ [][Next]_vars
-----------------------------------------------------------------------------
\* The application gets the stream, each byte once and in order, however it was cut,
\* repeated and overtaken, and hears of its end after the last byte; unless the end of
\* a queued segment was compared with a window that wraps around (tcp_in.c:1467).
DeliveredInOrderUnlessGrown ==
  ~grown => /\ \A i \in 1..Len(delivered) : delivered[i] = i - 1
            /\ closed => Len(delivered) = N

\* The queue is sorted, without overlaps, beyond what has been received, and only its
\* last segment has a FIN: that is what the walk and the cuts rely on.
QueueSorted ==
  LET o == pcb.ooseq
  IN ~panic =>
     /\ \A i \in 1..Len(o) : Lt(pcb.rcv_nxt, o[i].seq)
     /\ \A i \in 1..(Len(o) - 1) : Leq(o[i].seq + o[i].len, o[i + 1].seq) /\ ~o[i].fin

\* The window is never taken back: its announced right edge only grows.
EdgeNeverShrinksStep == Leq(pcb.edge, pcb'.edge)

\* No assertion of tcp_receive fails, unless a FIN just behind the window came early:
\* a segment that starts an empty queue is not cut to the window.
NoPanicUnlessFinBehindWindow ==
  panic => \E i \in 1..Len(pcb.ooseq) :
             pcb.ooseq[i].fin /\ Gt(pcb.ooseq[i].seq + Tcplen(pcb.ooseq[i]), pcb.rcv_nxt + pcb.rcv_wnd)

\* The receiver never wedges: no byte of the window is lost to what was refused,
\* repeated or queued, and the byte that is missing is taken when it comes.
NeverWedged ==
  LET at == Len(delivered) + Len(refused.data)
      fin == IF (refused.fin \/ closed) THEN 1 ELSE 0
  IN ~panic /\ ~grown =>
       /\ pcb.rcv_wnd + unread + Len(refused.data) + (IF refused.fin THEN 1 ELSE 0) = TCP_WND
       /\ pcb.rcv_nxt = Seq32(ISN + at + fin)
       /\ at < N /\ pcb.rcv_wnd > 0 =>
            Len(tcp_receive(pcb, Segment(at, at + 1, FALSE), TRUE).data) > 0
=============================================================================
