------------------------------- MODULE PppFsm -------------------------------
(***************************************************************************)
(* The automaton that every control protocol of PPP runs on, netif/ppp/    *)
(* fsm.c, at the two ends of a line.                                       *)
(*                                                                         *)
(* What is negotiated is one option with a value; 0 is its absence.  An    *)
(* end asks for go, and acknowledges, naks (with a value of its own) or    *)
(* rejects what the other end asks for; ho is what it last acknowledged    *)
(* (resetci, reqci, nakci and rejci of lcp.c and ipcp.c).  The line keeps  *)
(* the order of the packets and may lose some; a timer may fire while an   *)
(* answer is still on its way.                                             *)
(***************************************************************************)
EXTENDS Integers, Sequences

CONSTANTS Wants, Allows,    \* of each end: the value it wants, those it accepts
          Silent,           \* the ends with OPT_SILENT
          maxconfreqtransmits, maxtermtransmits, maxnakloops,
          IdWrap,           \* 256 in the code
          NetSize,          \* packets on the line in one direction
          MaxLost, MaxEarly, MaxCalls

VARIABLES f,      \* the struct fsm of each end
          net,    \* the packets on their way to each end
          line,   \* the lower layer of each end is up
          lost, early, calls, odd

vars == <<f, net, line, lost, early, calls, odd>>

Ends == {"A", "B"}
Other(e) == IF e = "A" THEN "B" ELSE "A"

Negotiating == {"REQSENT", "ACKRCVD", "ACKSENT"}
Ending == {"CLOSING", "STOPPING"}

\* fsm_init
fsm_init(e) ==
  [state |-> "INITIAL", id |-> 0, reqid |-> 0, seen_ack |-> FALSE, retransmits |-> 0,
   nakloops |-> 0, timers |-> 0, up |-> FALSE, go |-> Wants[e], ho |-> 0]

Init ==
  /\ f = [e \in Ends |-> fsm_init(e)]
  /\ net = [e \in Ends |-> <<>>]
  /\ line = [e \in Ends |-> FALSE]
  /\ lost = 0 /\ early = 0 /\ calls = 0 /\ odd = {}

----------------------------------------------------------------------------
(* Pieces of the handlers.  s is the automaton with the packets it sends.   *)

Start(e) == [m |-> f[e], out |-> <<>>]
To(s, st) == [s EXCEPT !.m.state = st]
sdata(s, code, id, ci) == [s EXCEPT !.out = Append(@, [code |-> code, id |-> id, ci |-> ci])]
TIMEOUT(s) == [s EXCEPT !.m.timers = @ + 1]
UNTIMEOUT(s) == [s EXCEPT !.m.timers = IF @ > 0 THEN @ - 1 ELSE 0]
up(s) == [s EXCEPT !.m.up = TRUE]
down(s) == [s EXCEPT !.m.up = FALSE]

fsm_sconfreq(e, s, retransmit) ==
  LET a == IF s.m.state \in Negotiating THEN s
           ELSE [s EXCEPT !.m.go = Wants[e], !.m.nakloops = 0]
      b == IF retransmit THEN a
           ELSE [a EXCEPT !.m.retransmits = maxconfreqtransmits,
                          !.m.id = (@ + 1) % IdWrap, !.m.reqid = (s.m.id + 1) % IdWrap]
      c == [b EXCEPT !.m.seen_ack = FALSE, !.m.retransmits = @ - 1]
  IN TIMEOUT(sdata(c, "CONFREQ", c.m.reqid, c.m.go))

Terminate(s) ==
  LET a == [s EXCEPT !.m.id = (@ + 1) % IdWrap, !.m.reqid = (s.m.id + 1) % IdWrap,
                     !.m.retransmits = @ - 1]
  IN TIMEOUT(sdata(a, "TERMREQ", a.m.reqid, 0))

----------------------------------------------------------------------------
(* Events from the layers below and above *)

fsm_lowerup(e, s) ==
  CASE s.m.state = "INITIAL" -> To(s, "CLOSED")
    [] s.m.state = "STARTING" -> IF e \in Silent THEN To(s, "STOPPED")
                                 ELSE To(fsm_sconfreq(e, s, FALSE), "REQSENT")
    [] OTHER -> s

fsm_lowerdown(e, s) ==
  CASE s.m.state = "CLOSED" -> To(s, "INITIAL")
    [] s.m.state = "STOPPED" -> To(s, "STARTING")
    [] s.m.state = "CLOSING" -> UNTIMEOUT(To(s, "INITIAL"))
    [] s.m.state \in Negotiating \union {"STOPPING"} -> UNTIMEOUT(To(s, "STARTING"))
    [] s.m.state = "OPENED" -> To(down(s), "STARTING")
    [] OTHER -> s

\* OPT_RESTART is never set
fsm_open(e, s) ==
  CASE s.m.state = "INITIAL" -> To(s, "STARTING")
    [] s.m.state = "CLOSED" -> IF e \in Silent THEN To(s, "STOPPED")
                               ELSE To(fsm_sconfreq(e, s, FALSE), "REQSENT")
    [] s.m.state = "CLOSING" -> To(s, "STOPPING")
    [] OTHER -> s

fsm_close(s) ==
  CASE s.m.state = "STARTING" -> To(s, "INITIAL")
    [] s.m.state = "STOPPED" -> To(s, "CLOSED")
    [] s.m.state = "STOPPING" -> To(s, "CLOSING")
    [] s.m.state \in Negotiating \union {"OPENED"} ->
         LET a == IF s.m.state # "OPENED" THEN UNTIMEOUT(s) ELSE down(s)
         IN To(Terminate([a EXCEPT !.m.retransmits = maxtermtransmits]), "CLOSING")
    [] OTHER -> s

fsm_protreject(s) ==
  CASE s.m.state \in {"CLOSING", "CLOSED"} ->
         To(IF s.m.state = "CLOSING" THEN UNTIMEOUT(s) ELSE s, "CLOSED")
    [] s.m.state \in Negotiating \union {"STOPPING", "STOPPED"} ->
         To(IF s.m.state # "STOPPED" THEN UNTIMEOUT(s) ELSE s, "STOPPED")
    [] s.m.state = "OPENED" ->
         To(Terminate([down(s) EXCEPT !.m.retransmits = maxtermtransmits]), "STOPPING")
    [] OTHER -> s

fsm_timeout(e, s) ==
  CASE s.m.state \in Ending ->
         IF s.m.retransmits <= 0 THEN To(s, IF s.m.state = "CLOSING" THEN "CLOSED" ELSE "STOPPED")
         ELSE Terminate(s)
    [] s.m.state \in Negotiating ->
         IF s.m.retransmits <= 0 THEN To(s, "STOPPED")
         ELSE LET a == fsm_sconfreq(e, s, TRUE)
              IN IF s.m.state = "ACKRCVD" THEN To(a, "REQSENT") ELSE a
    [] OTHER -> s

----------------------------------------------------------------------------
(* Packets *)

\* the answer to a wish v of the peer: its code and value
reqci(e, v, reject_if_disagree) ==
  IF v = 0 \/ v \in Allows[e] THEN <<"CONFACK", v>>
  ELSE IF reject_if_disagree \/ Allows[e] = {} THEN <<"CONFREJ", v>>
  ELSE <<"CONFNAK", CHOOSE w \in Allows[e] : TRUE>>

fsm_rconfreq(e, s, p) ==
  IF s.m.state = "CLOSED" THEN sdata(s, "TERMACK", p.id, 0)
  ELSE IF s.m.state \in Ending THEN s
  ELSE
  LET a == CASE s.m.state = "OPENED" -> fsm_sconfreq(e, down(s), FALSE)
             [] s.m.state = "STOPPED" -> To(fsm_sconfreq(e, s, FALSE), "REQSENT")
             [] OTHER -> s
      ans == reqci(e, p.ci, a.m.nakloops >= maxnakloops)
      b == sdata(a, ans[1], p.id, ans[2])
  IN IF ans[1] = "CONFACK"
     THEN LET c == [b EXCEPT !.m.nakloops = 0, !.m.ho = p.ci]
          IN IF b.m.state = "ACKRCVD" THEN up(To(UNTIMEOUT(c), "OPENED")) ELSE To(c, "ACKSENT")
     ELSE LET c == IF ans[1] = "CONFNAK" THEN [b EXCEPT !.m.nakloops = @ + 1] ELSE b
          IN IF b.m.state # "ACKRCVD" THEN To(c, "REQSENT") ELSE c

\* an acknowledgement of any request
fsm_rconfack_any_id(e, s, p) ==
  IF s.m.seen_ack THEN s
  ELSE LET a == [s EXCEPT !.m.seen_ack = TRUE]
           full == [a EXCEPT !.m.retransmits = maxconfreqtransmits]
       IN CASE s.m.state = "REQSENT" -> To(full, "ACKRCVD")
            [] s.m.state = "ACKSENT" -> up(To(UNTIMEOUT(full), "OPENED"))
            [] OTHER -> a

fsm_rconfack(e, s, p) ==
  IF p.id # s.m.reqid \/ s.m.seen_ack \/ p.ci # s.m.go THEN s
  ELSE LET a == [s EXCEPT !.m.seen_ack = TRUE]
           full == [a EXCEPT !.m.retransmits = maxconfreqtransmits]
       IN CASE s.m.state \in {"CLOSED", "STOPPED"} -> sdata(a, "TERMACK", p.id, 0)
            [] s.m.state = "REQSENT" -> To(full, "ACKRCVD")
            [] s.m.state = "ACKRCVD" -> To(fsm_sconfreq(e, UNTIMEOUT(a), FALSE), "REQSENT")
            [] s.m.state = "ACKSENT" -> up(To(UNTIMEOUT(full), "OPENED"))
            [] s.m.state = "OPENED" -> To(fsm_sconfreq(e, down(a), FALSE), "REQSENT")
            [] OTHER -> a

\* nakci takes the value over, rejci gives the option up; neither when opened
fsm_rconfnakrej(e, s, p) ==
  IF p.id # s.m.reqid \/ s.m.seen_ack \/ s.m.go = 0 THEN s
  ELSE LET a == [s EXCEPT !.m.seen_ack = TRUE,
                          !.m.go = IF s.m.state = "OPENED" THEN @
                                   ELSE IF p.code = "CONFNAK" THEN p.ci ELSE 0]
       IN CASE s.m.state \in {"CLOSED", "STOPPED"} -> sdata(a, "TERMACK", p.id, 0)
            [] s.m.state \in {"REQSENT", "ACKSENT"} -> fsm_sconfreq(e, UNTIMEOUT(a), FALSE)
            [] s.m.state = "ACKRCVD" -> To(fsm_sconfreq(e, UNTIMEOUT(a), FALSE), "REQSENT")
            [] s.m.state = "OPENED" -> To(fsm_sconfreq(e, down(a), FALSE), "REQSENT")
            [] OTHER -> a

fsm_rtermreq(s, p) ==
  sdata(CASE s.m.state \in {"ACKRCVD", "ACKSENT"} -> To(s, "REQSENT")
          [] s.m.state = "OPENED" ->
               TIMEOUT(To([down(s) EXCEPT !.m.retransmits = 0], "STOPPING"))
          [] OTHER -> s,
        "TERMACK", p.id, 0)

\* opened, it asks again and stays opened
fsm_rtermack(e, s) ==
  CASE s.m.state = "CLOSING" -> To(UNTIMEOUT(s), "CLOSED")
    [] s.m.state = "STOPPING" -> To(UNTIMEOUT(s), "STOPPED")
    [] s.m.state = "ACKRCVD" -> To(s, "REQSENT")
    [] s.m.state = "OPENED" -> fsm_sconfreq(e, down(s), FALSE)
    [] OTHER -> s

fsm_input(e, s, p) ==
  IF s.m.state \in {"INITIAL", "STARTING"} THEN s
  ELSE CASE p.code = "CONFREQ" -> fsm_rconfreq(e, s, p)
         [] p.code = "CONFACK" -> fsm_rconfack(e, s, p)
         [] p.code \in {"CONFNAK", "CONFREJ"} -> fsm_rconfnakrej(e, s, p)
         [] p.code = "TERMREQ" -> fsm_rtermreq(s, p)
         [] p.code = "TERMACK" -> fsm_rtermack(e, s)

----------------------------------------------------------------------------

\* the packets an end sends reach the line if its lower layer is up; what the
\* line has no room for is lost
Fit(q) == IF Len(q) > NetSize THEN SubSeq(q, 1, NetSize) ELSE q
Become(e, s, waiting, isup) ==
  /\ f' = [f EXCEPT ![e] = s.m]
  /\ net' = [waiting EXCEPT ![Other(e)] = IF isup THEN Fit(@ \o s.out) ELSE @]

Packet(e) ==
  /\ net[e] # <<>>
  /\ LET p == Head(net[e])
     IN /\ Become(e, IF line[e] THEN fsm_input(e, Start(e), p) ELSE Start(e),
                  [net EXCEPT ![e] = Tail(@)], line[e])
        /\ odd' = IF line[e] /\ p.code = "TERMACK" /\ f[e].state = "OPENED"
                  THEN odd \union {"termack"} ELSE odd
  /\ UNCHANGED <<line, lost, early, calls>>

Lose(e) ==
  /\ net[e] # <<>> /\ lost < MaxLost
  /\ lost' = lost + 1 /\ net' = [net EXCEPT ![e] = Tail(@)]
  /\ UNCHANGED <<f, line, early, calls, odd>>

\* a timer runs for longer than a round trip, a few times it does not
Quiet == \A e \in Ends : net[e] = <<>>
Timer(e) ==
  /\ f[e].timers > 0
  /\ Quiet \/ early < MaxEarly
  /\ early' = IF Quiet THEN early ELSE early + 1
  /\ Become(e, fsm_timeout(e, [Start(e) EXCEPT !.m.timers = @ - 1]), net, line[e])
  /\ UNCHANGED <<line, lost, calls, odd>>

Call(e) ==
  /\ calls < MaxCalls /\ calls' = calls + 1
  /\ \/ Become(e, fsm_open(e, Start(e)), net, line[e]) /\ UNCHANGED line
     \/ Become(e, fsm_close(Start(e)), net, line[e]) /\ UNCHANGED line
     \/ /\ ~line[e] /\ line' = [line EXCEPT ![e] = TRUE]
        /\ Become(e, fsm_lowerup(e, Start(e)), net, TRUE)
     \/ /\ line[e] /\ line' = [line EXCEPT ![e] = FALSE]
        /\ Become(e, fsm_lowerdown(e, Start(e)), net, FALSE)
     \/ Become(e, fsm_protreject(Start(e)), net, line[e]) /\ UNCHANGED line
  /\ UNCHANGED <<lost, early, odd>>

\* After a TERMACK to an opened automaton the model stops: a closed peer answers
\* every new request with another TERMACK, and each round adds a timer.
Sound == odd = {}
Next == Sound /\ \E e \in Ends : Packet(e) \/ Lose(e) \/ Timer(e) \/ Call(e)

\* packets arrive, and the timer of an end that runs fires, however often a packet comes first
Spec == Init /\ [][Next]_vars

----------------------------------------------------------------------------

States == {"INITIAL", "STARTING", "CLOSED", "STOPPED", "OPENED"} \union Negotiating \union Ending
TypeOK == \A e \in Ends : f[e].state \in States /\ f[e].timers \in 0..1 /\ f[e].nakloops \in 0..maxnakloops

\* Exactly the states that wait for an answer have a timer, and one: an end is
\* never stuck waiting, and never retransmits twice as fast, unless a TERMACK has
\* come to an opened automaton, which then starts a timer (fsm.c:716-721).
TimerWhileWaitingUnlessTermAck ==
  "termack" \in odd
    \/ \A e \in Ends : f[e].timers = IF f[e].state \in Negotiating \union Ending THEN 1 ELSE 0

\* The upper layer is up exactly while the automaton is opened, with the same
\* exception: there the automaton stays opened with the upper layer down.
UpWhileOpenedUnlessTermAck ==
  "termack" \in odd \/ \A e \in Ends : f[e].up <=> f[e].state = "OPENED"

\* When both ends are opened, each uses for the other what the other asks for,
\* whatever was lost, retransmitted, nakked or restarted before.
Settled == "termack" \notin odd /\ \A e \in Ends : f[e].state = "OPENED"
Agreed == Settled => \A e \in Ends : f[e].go = f[Other(e)].ho

\* An end opens only with a peer's wish it allows.
AllowedOnly == \A e \in Ends : f[e].state = "OPENED" => f[e].ho \in Allows[e] \union {0}
=============================================================================
