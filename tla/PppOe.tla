------------------------------- MODULE PppOe --------------------------------
(***************************************************************************)
(* PPP over Ethernet, ppp_oe.c: a host that looks for an access            *)
(* concentrator, opens a session, passes data and closes, on a network     *)
(* that loses, delays and reorders.                                        *)
(*                                                                         *)
(* The access concentrators are external: they answer the host's packets,  *)
(* may end a session, and forget it when told.  The host-unique tag is the *)
(* address of the host's control block, the same for every attempt, so an  *)
(* answer to an earlier attempt finds the block too.                       *)
(***************************************************************************)
EXTENDS Integers, FiniteSets

CONSTANTS ACs,                  \* the access concentrators
          NoAc,                 \* the broadcast address
          Sessions,             \* session numbers an AC may give out
          PPPOE_DISC_MAXPADI, PPPOE_DISC_MAXPADR,
          NetSize,              \* packets on the way at one time
          MaxConnects, MaxOffers, MaxFails

VARIABLES sc,           \* the control block, or what is left of it
          timers,       \* how many times pppoe_timeout is due for it
          net,
          open,         \* the sessions each AC has
          link,         \* what sc_linkStatusCB was last told
          connects, offers, fails,
          odd           \* what has happened, for the properties

vars == <<sc, timers, net, open, link, connects, offers, fails, odd>>

States == {"INITIAL", "PADI_SENT", "PADR_SENT", "SESSION", "CLOSING"}

pppoe_create ==
  [alive |-> TRUE, state |-> "INITIAL", session |-> 0, dest |-> NoAc, cookie |-> NoAc,
   padi_retried |-> 0, padr_retried |-> 0]

Init ==
  /\ sc = pppoe_create /\ timers = 0 /\ net = {} /\ link = FALSE
  /\ open = [a \in ACs |-> {}]
  /\ connects = 0 /\ offers = 0 /\ fails = 0 /\ odd = {}

----------------------------------------------------------------------------
(* Sending *)

Msg(code, ac, session, cookie) == [code |-> code, ac |-> ac, session |-> session, cookie |-> cookie]

\* the type of an Ethernet frame follows the state the block is in
pppoe_output(s, m) ==
  IF m.code = "DATA" /\ s.state # "SESSION" THEN [m EXCEPT !.code = "DATA as discovery"] ELSE m

pppoe_send_padi(s) == pppoe_output(s, Msg("PADI", s.dest, 0, NoAc))
pppoe_send_padr(s) == pppoe_output(s, Msg("PADR", s.dest, 0, s.cookie))
pppoe_send_padt(s) == Msg("PADT", s.dest, s.session, NoAc)

\* a packet goes out, is lost, or is not sent for want of memory
Sent(m) ==
  /\ net' \in {net} \union {x \in {net \union {m}} : Cardinality(x) <= NetSize}
  /\ UNCHANGED fails
NotSent == fails < MaxFails /\ fails' = fails + 1 /\ UNCHANGED net

----------------------------------------------------------------------------
(* The program *)

pppoe_connect ==
  /\ sc.alive /\ sc.state = "INITIAL" /\ connects < MaxConnects
  /\ connects' = connects + 1
  /\ \E s \in {[sc EXCEPT !.state = "PADI_SENT", !.padr_retried = 0]} :
       sc' = s /\ (Sent(pppoe_send_padi(s)) \/ NotSent)
  /\ timers' = timers + 1
  /\ UNCHANGED <<open, link, offers, odd>>

\* does nothing before there is a session; a second call arms a second timer
pppoe_disconnect ==
  /\ sc.alive /\ sc.state \in {"SESSION", "CLOSING"} /\ timers < 2
  /\ sc' = [sc EXCEPT !.state = "CLOSING"]
  /\ timers' = timers + 1
  /\ odd' = odd \union {x \in {"twice"} : sc.state = "CLOSING"}
  /\ UNCHANGED <<net, open, link, connects, offers, fails>>

\* sys_untimeout takes one entry off the list of timers
pppoe_destroy ==
  /\ sc.alive /\ connects > 0
  /\ sc' = [sc EXCEPT !.alive = FALSE]
  /\ timers' = IF timers > 0 THEN timers - 1 ELSE 0
  /\ UNCHANGED <<net, open, link, connects, offers, fails, odd>>

pppoe_xmit ==
  /\ sc.alive /\ sc.state \in {"SESSION", "CLOSING"}
  /\ Sent(pppoe_output(sc, Msg("DATA", sc.dest, sc.session, NoAc)))
  /\ UNCHANGED <<sc, timers, open, link, connects, offers, odd>>

----------------------------------------------------------------------------
(* The timer *)

pppoe_abort_connect(s) == [s EXCEPT !.dest = NoAc, !.state = "INITIAL"]

pppoe_do_disconnect(s) ==
  [s EXCEPT !.state = "INITIAL", !.dest = NoAc, !.cookie = NoAc, !.session = 0]

NoAnswerToPadi ==
  LET s == [sc EXCEPT !.padi_retried = @ + 1]
      give_up == s.padi_retried >= PPPOE_DISC_MAXPADI
  IN /\ sc.state = "PADI_SENT"
     /\ \/ /\ give_up
           /\ sc' = pppoe_abort_connect(s) /\ link' = FALSE
           /\ timers' = timers - 1
           /\ UNCHANGED <<net, fails>>
        \/ /\ ~give_up
           /\ \/ sc' = s /\ Sent(pppoe_send_padi(s))
              \/ sc' = sc /\ NotSent
           /\ UNCHANGED <<timers, link>>

NoAnswerToPadr ==
  LET s == [sc EXCEPT !.padr_retried = @ + 1]
      again == [s EXCEPT !.dest = NoAc, !.state = "PADI_SENT", !.padr_retried = 0]
  IN /\ sc.state = "PADR_SENT"
     /\ \/ /\ s.padr_retried >= PPPOE_DISC_MAXPADR
           /\ sc' = again /\ (Sent(pppoe_send_padi(again)) \/ NotSent)
        \/ /\ s.padr_retried < PPPOE_DISC_MAXPADR
           /\ \/ sc' = s /\ Sent(pppoe_send_padr(s))
              \/ sc' = sc /\ NotSent
     /\ UNCHANGED <<timers, link>>

pppoe_timeout ==
  /\ sc.alive /\ timers > 0
  /\ \/ NoAnswerToPadi
     \/ NoAnswerToPadr
     \/ /\ sc.state = "CLOSING"
        /\ Sent(pppoe_send_padt(sc)) \/ NotSent
        /\ sc' = pppoe_do_disconnect(sc) /\ link' = FALSE
        /\ timers' = timers - 1
     \/ /\ sc.state \in {"INITIAL", "SESSION"}
        /\ timers' = timers - 1
        /\ UNCHANGED <<sc, net, link, fails>>
  /\ UNCHANGED <<open, connects, offers, odd>>

----------------------------------------------------------------------------
(* The host's input *)

\* a packet whose host-unique tag names a block in discovery
pppoe_find_softc_by_hunique == sc.alive /\ sc.state \in {"PADI_SENT", "PADR_SENT"}
pppoe_find_softc_by_session(session) == sc.alive /\ sc.state = "SESSION" /\ session # 0 /\ sc.session = session

Pado(m) ==
  /\ sc.state = "PADI_SENT"
  /\ \E s \in {[sc EXCEPT !.cookie = m.cookie, !.dest = m.ac, !.padr_retried = 0, !.state = "PADR_SENT"]} :
       /\ sc' = s
       /\ \/ /\ net' \in {net \ {m}, (net \ {m}) \union {pppoe_send_padr(s)}} /\ UNCHANGED fails
          \/ fails < MaxFails /\ fails' = fails + 1 /\ net' = net \ {m}
  /\ UNCHANGED <<timers, link, odd>>

\* taken from anybody, and in answer to a PADI too
Pads(m) ==
  /\ sc' = [sc EXCEPT !.session = m.session, !.state = "SESSION"]
  /\ timers' = timers - 1 /\ link' = TRUE
  /\ odd' = odd \union {x \in {"stray"} : sc.state # "PADR_SENT" \/ sc.dest # m.ac}
                \union {x \in {"late"} : m.session \notin open[m.ac]}
  /\ net' = net \ {m}
  /\ UNCHANGED fails

pppoe_clear_softc(m) ==
  /\ sc' = pppoe_do_disconnect(sc)
  /\ timers' = timers - 1 /\ link' = FALSE
  /\ net' = net \ {m}
  /\ UNCHANGED <<fails, odd>>

Ignored(m) == net' = net \ {m} /\ UNCHANGED <<sc, timers, link, fails, odd>>

pppoe_disc_input(m) ==
  /\ m \in net /\ m.code \in {"PADO", "PADS", "END"}
  /\ \/ m.code = "PADO" /\ pppoe_find_softc_by_hunique /\ Pado(m)
     \/ m.code = "PADS" /\ pppoe_find_softc_by_hunique /\ Pads(m)
     \/ /\ m.code = "PADO" /\ (~pppoe_find_softc_by_hunique \/ sc.state # "PADI_SENT") /\ Ignored(m)
     \/ m.code = "PADS" /\ ~pppoe_find_softc_by_hunique /\ Ignored(m)
     \/ m.code = "END" /\ m.cookie # NoAc /\ pppoe_find_softc_by_hunique /\ pppoe_clear_softc(m)
     \/ m.code = "END" /\ (m.cookie = NoAc \/ ~pppoe_find_softc_by_hunique) /\ Ignored(m)
  /\ UNCHANGED <<open, connects, offers>>

\* passed on by its session number alone, whoever sent it; PPP takes it from there
pppoe_data_input(m) ==
  /\ m \in net /\ m.code = "PPP"
  /\ net' = net \ {m}
  /\ odd' = odd \union {x \in {"data"} : pppoe_find_softc_by_session(m.session)}
  /\ UNCHANGED <<sc, timers, link, open, connects, offers, fails>>

----------------------------------------------------------------------------
(* The access concentrators: END is a PADT of theirs, with or without the   *)
(* host-unique tag, PPP a data packet                                       *)

Replies(a, m) ==
  CASE m.code = "PADI" -> {Msg("PADO", a, 0, a)}
    [] m.code = "PADR" -> {Msg("PADS", a, n, NoAc) : n \in Sessions}
    [] OTHER -> {}

\* grants, forgets, ends a session or sends data on it
Concentrator(a) ==
  /\ \/ \E m \in net : \E r \in Replies(a, m) :
          /\ offers < MaxOffers /\ m.ac \in {a, NoAc}
          /\ net' = (net \ {m}) \union {r}
          /\ open' = IF r.code = "PADS" THEN [open EXCEPT ![a] = @ \union {r.session}] ELSE open
          /\ offers' = offers + 1
          /\ UNCHANGED odd
     \/ \E m \in net :
          /\ m.code \in {"PADT", "DATA", "DATA as discovery"} /\ m.ac \in {a, NoAc}
          /\ net' = net \ {m}
          /\ open' = IF m.code = "PADT" THEN [open EXCEPT ![a] = @ \ {m.session}] ELSE open
          /\ odd' = odd \union {x \in {"old PADT"} : m.code = "PADT" /\ sc.state # "INITIAL"}
          /\ UNCHANGED offers
     \/ \E n \in open[a] :
          /\ offers < MaxOffers /\ Cardinality(net) < NetSize
          /\ offers' = offers + 1
          /\ \/ /\ open' = [open EXCEPT ![a] = @ \ {n}]
                /\ \E tag \in {a, NoAc} : net' = net \union {Msg("END", a, n, tag)}
                /\ odd' = odd \union {"ended"}
             \/ net' = net \union {Msg("PPP", a, n, NoAc)} /\ UNCHANGED <<open, odd>>
  /\ UNCHANGED <<sc, timers, link, connects, fails>>

Lose == \E m \in net : net' = net \ {m} /\ UNCHANGED <<sc, timers, open, link, connects, offers, fails, odd>>

Next ==
  \/ pppoe_connect \/ pppoe_disconnect \/ pppoe_destroy \/ pppoe_xmit \/ pppoe_timeout
  \/ \E m \in net : pppoe_disc_input(m) \/ pppoe_data_input(m)
  \/ \E a \in ACs : Concentrator(a)
  \/ Lose

Spec == Init /\ [][Next]_vars

----------------------------------------------------------------------------

TypeOK ==
  /\ sc.state \in States /\ sc.dest \in ACs \union {NoAc}
  /\ timers \in 0..3 /\ link \in BOOLEAN

\* The session the host is in is one that its AC has open, unless the AC ended it
\* (a PADT finds no block that is in a session), a PADS came out of turn (its
\* sender is not compared with the AC that was asked) or late, or the host's own
\* goodbye for an earlier session of the same number arrived after it.
SessionOpenUnless ==
  (sc.alive /\ sc.state = "SESSION" /\ odd \intersect {"ended", "stray", "late", "old PADT"} = {}) =>
    (sc.dest # NoAc /\ sc.session \in open[sc.dest])

\* While the host waits for an answer, or is to say goodbye, exactly one timer is
\* due; and none is left for a block that is gone; unless pppoe_disconnect was
\* called twice.
WaitsWithTimerUnlessTwice ==
  "twice" \notin odd =>
    /\ (sc.alive /\ sc.state \in {"PADI_SENT", "PADR_SENT", "CLOSING"}) => timers = 1
    /\ ~sc.alive => timers = 0

\* PPP is told that the link is up exactly while there is a session, and is given
\* data only once some AC has opened one.
LinkIsSession ==
  /\ sc.alive => (link = (sc.state \in {"SESSION", "CLOSING"}))
  /\ "data" \in odd => offers > 2
=============================================================================
