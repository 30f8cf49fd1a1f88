------------------------------- MODULE PppAuth -------------------------------
(***************************************************************************)
(* From an open link to the network protocols: netif/ppp/auth.c with the   *)
(* two authentication protocols, chap.c and pap.c, at the two ends of a    *)
(* line.                                                                   *)
(*                                                                         *)
(* LCP and IPCP are seen from auth.c: LCP reports the link up or down and  *)
(* is told to close it, IPCP is opened, comes up, goes down and finishes.  *)
(* An end that asks the other to prove itself stands for a peer that has   *)
(* secrets: auth_reset lets no end of this build ask (have_pap_secret and  *)
(* have_chap_secret return 0).  A digest is its arguments, so it is right  *)
(* when challenge, id and secret are.  The line keeps the order and loses  *)
(* some packets; a timer may fire while an answer is on its way.           *)
(***************************************************************************)
EXTENDS Integers, Sequences, SequencesExt

CONSTANTS Asks,          \* what an end asks of the other: "CHAP", "PAP" or "no"
          Knows,         \* the ends that have the right secret
          Interval,      \* the ends that challenge again (chal_interval # 0)
          auth_required, \* the ends that take no link without a proof
          maxconnect,    \* the ends with a limit on the time of a connection
          idle_time_limit, \* the ends with a limit on the time without traffic
          max_transmits, us_maxtransmits,
          MaxLinks,      \* times the link comes up
          MaxLost, MaxEarly, MaxAgain

VARIABLES u,       \* the state of each end
          timers,  \* of each end: the functions TIMEOUT was called with, and for which link
          net,     \* the packets on their way to each end
          link,    \* how often the link came up
          lost, early, again,
          odd

vars == <<u, timers, net, link, lost, early, again, odd>>

Ends == {"A", "B"}
Other(e) == IF e = "A" THEN "B" ELSE "A"

Init ==
  /\ u = [e \in Ends |->
           [lcp |-> "opening", phase |-> "ESTABLISH", pending |-> {}, ipcp |-> "INITIAL",
            num_np_open |-> 0, num_np_up |-> 0,
            cs |-> "INITIAL", ss |-> "INITIAL", chal_id |-> 0, chal_transmits |-> 0,
            resp |-> <<0, FALSE>>,
            pcs |-> "INITIAL", pss |-> "INITIAL", us_transmits |-> 0]]
  /\ timers = [e \in Ends |-> <<>>]
  /\ net = [e \in Ends |-> <<>>]
  /\ link = 0 /\ lost = 0 /\ early = 0 /\ again = 0
  /\ odd = {}

----------------------------------------------------------------------------
(* s is an end with its timers, the packets it sends and what it met *)

Start(e) == [e |-> e, m |-> u[e], tm |-> timers[e], link |-> link, out |-> <<>>, odd |-> {}]

TIMEOUT(s, f) == [s EXCEPT !.tm = Append(@, <<f, s.link>>)]
UNTIMEOUT(s, f) ==
  LET at == SelectInSeq(s.tm, LAMBDA x : x[1] = f)
  IN IF at = 0 THEN s ELSE [s EXCEPT !.tm = RemoveAt(@, at)]
Send(s, code, id, what) == [s EXCEPT !.out = Append(@, [code |-> code, id |-> id, what |-> what])]

----------------------------------------------------------------------------
(* chap.c *)

ChapGenChallenge(s) == [s EXCEPT !.m.chal_id = @ + 1, !.m.chal_transmits = 0]

ChapSendChallenge(s) ==
  [TIMEOUT(Send(s, "CHALLENGE", s.m.chal_id, FALSE), "ChapChallengeTimeout")
     EXCEPT !.m.chal_transmits = @ + 1]

Challenge(s, state) == [ChapSendChallenge(ChapGenChallenge(s)) EXCEPT !.m.ss = state]

ChapAuthWithPeer(s) ==
  [s EXCEPT !.m.cs = IF @ \in {"INITIAL", "PENDING"} THEN "PENDING" ELSE "LISTEN"]

ChapAuthPeer(s) ==
  IF s.m.ss \in {"INITIAL", "PENDING"} THEN [s EXCEPT !.m.ss = "PENDING"]
  ELSE Challenge(s, "INITIAL_CHAL")

ChapLowerUp(s) ==
  LET a == [s EXCEPT !.m.cs = CASE @ = "INITIAL" -> "CLOSED" [] @ = "PENDING" -> "LISTEN"
                                [] OTHER -> @]
  IN CASE a.m.ss = "INITIAL" -> [a EXCEPT !.m.ss = "CLOSED"]
       [] a.m.ss = "PENDING" -> Challenge(a, "INITIAL_CHAL")
       [] OTHER -> a

ChapLowerDown(s) ==
  LET a == CASE s.m.ss \in {"INITIAL_CHAL", "RECHALLENGE"} -> UNTIMEOUT(s, "ChapChallengeTimeout")
             [] s.m.ss = "OPEN" /\ s.e \in Interval -> UNTIMEOUT(s, "ChapRechallenge")
             [] OTHER -> s
      b == IF a.m.cs = "RESPONSE" THEN UNTIMEOUT(a, "ChapResponseTimeout") ELSE a
  IN [b EXCEPT !.m.cs = "INITIAL", !.m.ss = "INITIAL"]

ChapSendResponse(s) ==
  [TIMEOUT(Send(s, "RESPONSE", s.m.resp[1], s.m.resp[2]), "ChapResponseTimeout")
     EXCEPT !.m.cs = "RESPONSE"]

\* With the lower layer down (INITIAL) a challenge is answered all the same.
ChapReceiveChallenge(s, p) ==
  IF s.m.cs \in {"CLOSED", "PENDING"} THEN s
  ELSE LET a == IF s.m.cs = "RESPONSE" THEN UNTIMEOUT(s, "ChapResponseTimeout") ELSE s
           b == [a EXCEPT !.odd = @ \union (IF s.m.cs = "INITIAL" THEN {"late"} ELSE {}),
                          !.m.resp = <<p.id, s.e \in Knows>>]
       IN ChapSendResponse(b)

----------------------------------------------------------------------------
(* pap.c *)

upap_sauthreq(s) ==
  [TIMEOUT(Send(s, "AUTHREQ", 0, s.e \in Knows), "upap_timeout")
     EXCEPT !.m.us_transmits = @ + 1, !.m.pcs = "AUTHREQ"]

upap_authwithpeer(s) ==
  LET a == [s EXCEPT !.m.us_transmits = 0]
  IN IF s.m.pcs \in {"INITIAL", "PENDING"} THEN [a EXCEPT !.m.pcs = "PENDING"]
     ELSE upap_sauthreq(a)

Listen(s) == TIMEOUT([s EXCEPT !.m.pss = "LISTEN"], "upap_reqtimeout")

upap_authpeer(s) ==
  IF s.m.pss \in {"INITIAL", "PENDING"} THEN [s EXCEPT !.m.pss = "PENDING"] ELSE Listen(s)

upap_lowerup(s) ==
  LET a == CASE s.m.pcs = "INITIAL" -> [s EXCEPT !.m.pcs = "CLOSED"]
             [] s.m.pcs = "PENDING" -> upap_sauthreq(s)
             [] OTHER -> s
  IN CASE a.m.pss = "INITIAL" -> [a EXCEPT !.m.pss = "CLOSED"]
       [] a.m.pss = "PENDING" -> Listen(a)
       [] OTHER -> a

upap_lowerdown(s) ==
  LET a == IF s.m.pcs = "AUTHREQ" THEN UNTIMEOUT(s, "upap_timeout") ELSE s
      b == IF a.m.pss = "LISTEN" THEN UNTIMEOUT(a, "upap_reqtimeout") ELSE a
  IN [b EXCEPT !.m.pcs = "INITIAL", !.m.pss = "INITIAL"]

----------------------------------------------------------------------------
(* auth.c: IPCP as auth.c sees it, the link going down, the phases *)

np_up(s) ==
  LET first == s.m.num_np_up = 0
      a == IF first /\ s.e \in idle_time_limit THEN TIMEOUT(s, "check_idle") ELSE s
      b == IF first /\ s.e \in maxconnect THEN TIMEOUT(a, "connect_time_expired") ELSE a
  IN [b EXCEPT !.m.num_np_up = @ + 1]
np_down(s) ==
  LET a == [s EXCEPT !.m.num_np_up = @ - 1]
  IN IF a.m.num_np_up = 0 /\ s.e \in idle_time_limit THEN UNTIMEOUT(a, "check_idle") ELSE a

ipcp_lowerup(s) ==
  [s EXCEPT !.m.ipcp = CASE @ = "INITIAL" -> "CLOSED" [] @ = "STARTING" -> "REQSENT" [] OTHER -> @]
ipcp_lowerdown(s) ==
  LET a == IF s.m.ipcp = "OPENED" THEN np_down(s) ELSE s
  IN [a EXCEPT !.m.ipcp = CASE @ \in {"REQSENT", "OPENED", "STOPPED"} -> "STARTING"
                            [] @ = "CLOSED" -> "INITIAL" [] OTHER -> @]
ipcp_close(s) ==
  [s EXCEPT !.m.ipcp = CASE @ = "STARTING" -> "INITIAL" [] @ = "STOPPED" -> "CLOSED" [] OTHER -> @]
ipcp_open(s) ==
  [s EXCEPT !.m.ipcp = CASE @ = "INITIAL" -> "STARTING" [] @ = "CLOSED" -> "REQSENT" [] OTHER -> @]

link_down(s) ==
  LET a == ipcp_close(ipcp_lowerdown(ChapLowerDown(upap_lowerdown(s))))
  IN [a EXCEPT !.m.num_np_open = 0, !.m.num_np_up = 0,
               !.m.phase = IF @ = "DEAD" THEN @ ELSE "TERMINATE"]

\* with fsm_close and lcp_down: a Terminate-Request also ends a negotiation
lcp_close(s) ==
  LET a == [s EXCEPT !.m.phase = IF @ = "DEAD" THEN @ ELSE "TERMINATE"]
      b == IF a.m.lcp = "opened" THEN link_down(a) ELSE a
  IN IF a.m.lcp = "down" THEN a ELSE [Send(b, "TERMREQ", 0, FALSE) EXCEPT !.m.lcp = "down"]

\* no protocol is counted when none is enabled; IPCP is
network_phase(s) ==
  LET a == ipcp_open([s EXCEPT !.m.phase = "NETWORK"])
  IN [a EXCEPT !.m.num_np_open = @ + 1,
               !.odd = @ \union (IF s.m.phase = "NETWORK" THEN {"twice"} ELSE {})]

auth_fail(s) == lcp_close(s)
auth_success(s, bit) ==
  LET a == [s EXCEPT !.m.pending = @ \ {bit}]
  IN IF a.m.pending = {} THEN network_phase(a) ELSE a

np_finished(s) ==
  LET a == [s EXCEPT !.m.num_np_open = @ - 1]
  IN IF a.m.num_np_open <= 0 THEN lcp_close(a) ELSE a

\* go is what this end asked for and the other granted, ho what the other asked
\* for.  An end that requires a proof and got no promise of one closes the link
\* (null_login grants nothing).
link_established(s) ==
  LET go == Asks[s.e]
      ho == Asks[Other(s.e)]
      up == ipcp_lowerup(ChapLowerUp(upap_lowerup(s)))
      a == [up EXCEPT !.m.phase = "AUTHENTICATE"]
      b == CASE go = "CHAP" -> ChapAuthPeer(a) [] go = "PAP" -> upap_authpeer(a) [] OTHER -> a
      c == CASE ho = "CHAP" -> ChapAuthWithPeer(b) [] ho = "PAP" -> upap_authwithpeer(b) [] OTHER -> b
      d == [c EXCEPT !.m.pending = (IF go = "no" THEN {} ELSE {<<go, "PEER">>})
                                     \union (IF ho = "no" THEN {} ELSE {<<ho, "WITHPEER">>})]
  IN IF s.e \in auth_required /\ go = "no" THEN lcp_close(up)
     ELSE IF d.m.pending = {} THEN network_phase(d) ELSE d

----------------------------------------------------------------------------
(* Packets.  Those of CHAP and PAP are dropped before the phase AUTHENTICATE, *)
(* and only then (pppInput).                                                  *)

ChapReceiveResponse(s, p) ==
  CASE s.m.ss \in {"CLOSED", "PENDING"} \/ p.id # s.m.chal_id -> s
    [] s.m.ss = "OPEN" -> Send(s, "SUCCESS", s.m.chal_id, TRUE)
    [] s.m.ss = "BADAUTH" -> Send(s, "FAILURE", s.m.chal_id, FALSE)
    [] OTHER ->
         LET a == Send(UNTIMEOUT(s, "ChapChallengeTimeout"),
                       IF p.what THEN "SUCCESS" ELSE "FAILURE", s.m.chal_id, p.what)
             b == [a EXCEPT !.m.ss = "OPEN",
                            !.odd = @ \union (IF s.m.ss = "INITIAL" THEN {"late"} ELSE {})]
             c == IF s.m.ss = "INITIAL_CHAL" THEN auth_success(b, <<"CHAP", "PEER">>) ELSE b
         IN IF ~p.what THEN auth_fail([a EXCEPT !.m.ss = "BADAUTH"])
            ELSE IF s.e \in Interval THEN TIMEOUT(c, "ChapRechallenge") ELSE c

ChapReceiveSuccess(s, p) ==
  IF s.m.cs # "RESPONSE" THEN s
  ELSE auth_success([UNTIMEOUT(s, "ChapResponseTimeout") EXCEPT !.m.cs = "OPEN"],
                    <<"CHAP", "WITHPEER">>)

ChapReceiveFailure(s, p) ==
  IF s.m.cs # "RESPONSE" THEN s ELSE auth_fail(UNTIMEOUT(s, "ChapResponseTimeout"))

\* check_passwd takes every password
upap_rauthreq(s, p) ==
  CASE s.m.pss \in {"INITIAL", "CLOSED", "PENDING"} -> s
    [] s.m.pss = "OPEN" -> Send(s, "AUTHACK", p.id, TRUE)
    [] s.m.pss = "BADAUTH" -> Send(s, "AUTHNAK", p.id, FALSE)
    [] OTHER -> UNTIMEOUT(auth_success([Send(s, "AUTHACK", p.id, TRUE) EXCEPT !.m.pss = "OPEN"],
                                       <<"PAP", "PEER">>), "upap_reqtimeout")

upap_rauthack(s, p) ==
  IF s.m.pcs # "AUTHREQ" THEN s
  ELSE auth_success([UNTIMEOUT(s, "upap_timeout") EXCEPT !.m.pcs = "OPEN"], <<"PAP", "WITHPEER">>)

\* the timer of the request goes on: upap_lowerdown stops it only in AUTHREQ
upap_rauthnak(s, p) ==
  IF s.m.pcs # "AUTHREQ" THEN s
  ELSE auth_fail([s EXCEPT !.m.pcs = "BADAUTH", !.odd = @ \union {"nak"}])

\* fsm.c in LCP: the end goes down and acknowledges, or negotiates anew
rtermreq(s) == IF s.m.lcp = "opened" THEN [link_down(s) EXCEPT !.m.lcp = "down"] ELSE s
rconfreq(s) == IF s.m.lcp = "opened" THEN [link_down(s) EXCEPT !.m.lcp = "opening"] ELSE s

\* the peer does not know the protocol (lcp_rprotrej)
ChapProtocolReject(s) ==
  LET a == IF s.m.ss \notin {"INITIAL", "CLOSED"} THEN auth_fail(s) ELSE s
      b == IF a.m.cs \notin {"INITIAL", "CLOSED"} THEN auth_fail(a) ELSE a
  IN ChapLowerDown(b)

upap_protrej(s) ==
  LET a == IF s.m.pcs = "AUTHREQ" THEN auth_fail(s) ELSE s
      b == IF a.m.pss = "LISTEN" THEN auth_fail(a) ELSE a
  IN upap_lowerdown(b)

AuthInput(s, p) ==
  CASE p.code = "CHALLENGE" -> ChapReceiveChallenge(s, p)
    [] p.code = "RESPONSE" -> ChapReceiveResponse(s, p)
    [] p.code = "SUCCESS" -> ChapReceiveSuccess(s, p)
    [] p.code = "FAILURE" -> ChapReceiveFailure(s, p)
    [] p.code = "AUTHREQ" -> upap_rauthreq(s, p)
    [] p.code = "AUTHACK" -> upap_rauthack(s, p)
    [] p.code = "AUTHNAK" -> upap_rauthnak(s, p)

pppInput(s, p) ==
  CASE p.code = "TERMREQ" -> rtermreq(s)
    [] p.code = "CONFREQ" -> rconfreq(s)
    [] OTHER -> IF s.m.phase \in {"DEAD", "ESTABLISH"} THEN s ELSE AuthInput(s, p)

----------------------------------------------------------------------------
(* Timers *)

ChapChallengeTimeout(s) ==
  CASE s.m.ss \notin {"INITIAL_CHAL", "RECHALLENGE"} -> s
    [] s.m.chal_transmits >= max_transmits -> auth_fail([s EXCEPT !.m.ss = "BADAUTH"])
    [] OTHER -> ChapSendChallenge(s)

ChapResponseTimeout(s) == IF s.m.cs # "RESPONSE" THEN s ELSE ChapSendResponse(s)

ChapRechallenge(s) == IF s.m.ss # "OPEN" THEN s ELSE Challenge(s, "RECHALLENGE")

upap_timeout(s) ==
  CASE s.m.pcs # "AUTHREQ" -> s
    [] s.m.us_transmits >= us_maxtransmits -> auth_fail([s EXCEPT !.m.pcs = "BADAUTH"])
    [] OTHER -> upap_sauthreq(s)

\* the state is set after the link was closed
upap_reqtimeout(s) ==
  IF s.m.pss # "LISTEN" THEN s ELSE [auth_fail(s) EXCEPT !.m.pss = "BADAUTH"]

connect_time_expired(s) == lcp_close(s)

\* get_idle_time knows no time, so the check is over and is not made again
check_idle(s) == s

Fires(s, f) ==
  CASE f = "ChapChallengeTimeout" -> ChapChallengeTimeout(s)
    [] f = "ChapResponseTimeout" -> ChapResponseTimeout(s)
    [] f = "ChapRechallenge" -> ChapRechallenge(s)
    [] f = "upap_timeout" -> upap_timeout(s)
    [] f = "upap_reqtimeout" -> upap_reqtimeout(s)
    [] f = "connect_time_expired" -> connect_time_expired(s)
    [] f = "check_idle" -> check_idle(s)

----------------------------------------------------------------------------

Become(s) ==
  /\ u' = [u EXCEPT ![s.e] = s.m]
  /\ timers' = [timers EXCEPT ![s.e] = s.tm]
  /\ odd' = odd \union s.odd

\* the outcome r with nothing else changed but the packets it sends
Does(r) == \E s \in {r} : Become(s) /\ net' = [net EXCEPT ![Other(s.e)] = @ \o s.out]

Packet(e) ==
  /\ net[e] # <<>>
  /\ \E s \in {pppInput(Start(e), Head(net[e]))} :
       Become(s) /\ net' = [net EXCEPT ![e] = Tail(@), ![Other(e)] = @ \o s.out]
  /\ UNCHANGED <<link, lost, early, again>>

Lcp == {"TERMREQ", "CONFREQ"}

\* LCP's own packets are sent again until they arrive
Lose(e) ==
  /\ lost < MaxLost
  /\ net[e] # <<>> /\ Head(net[e]).code \notin Lcp
  /\ net' = [net EXCEPT ![e] = Tail(@)]
  /\ lost' = lost + 1
  /\ UNCHANGED <<u, timers, link, early, again, odd>>

Quiet == net["A"] = <<>> /\ net["B"] = <<>>

\* The timers of an end that waits are short; the time to the next challenge, the
\* time of a connection and the time without traffic are long
Long == {"ChapRechallenge", "connect_time_expired", "check_idle"}

Timer(e) ==
  \E i \in DOMAIN timers[e] :
    LET f == timers[e][i][1]
        s == Start(e)
        t == [s EXCEPT !.tm = RemoveAt(@, i),
                       !.odd = IF f = "connect_time_expired" /\ timers[e][i][2] # link /\ s.m.lcp = "opened"
                               THEN {"other_link"} ELSE {}]
    IN /\ \/ Quiet /\ UNCHANGED early
          \/ ~Quiet /\ early < MaxEarly /\ early' = early + 1
       /\ IF f \in Long THEN again < MaxAgain /\ again' = again + 1 ELSE UNCHANGED again
       /\ Does(Fires(t, f))
       /\ UNCHANGED <<link, lost>>

LcpQuiet == \A e \in Ends : \A i \in DOMAIN net[e] : net[e][i].code \notin Lcp

\* LCP opens at both ends, one after the other (lcp_up)
LcpUp(e) ==
  LET first == u[Other(e)].lcp = "opening"
      s == [Start(e) EXCEPT !.m.lcp = "opened", !.link = IF first THEN link + 1 ELSE link]
  IN /\ u[e].lcp = "opening" /\ u[Other(e)].lcp # "down"
     /\ LcpQuiet
     /\ Does(link_established(s))
     /\ link' = s.link
     /\ UNCHANGED <<lost, early, again>>

\* the peer is gone, and the Configure-Requests were in vain; or the closing is done
link_terminated(e) ==
  /\ LcpQuiet
  /\ \/ u[e].lcp = "opening" /\ u[Other(e)].lcp = "down"
     \/ u[e].lcp = "down" /\ u[e].phase # "DEAD"
  /\ u' = [u EXCEPT ![e].lcp = "down", ![e].phase = "DEAD"]
  /\ UNCHANGED <<timers, net, link, lost, early, again, odd>>

\* both programs dial again
lcp_open ==
  /\ link < MaxLinks
  /\ \A e \in Ends : u[e].phase = "DEAD"
  /\ u' = [e \in Ends |-> [u[e] EXCEPT !.lcp = "opening", !.phase = "ESTABLISH"]]
  /\ UNCHANGED <<timers, net, link, lost, early, again, odd>>

\* the line of one end goes down and comes back: LCP negotiates anew
lcp_lowerdown(e) ==
  /\ u[e].lcp = "opened" /\ link < MaxLinks
  /\ Does(Send([link_down(Start(e)) EXCEPT !.m.lcp = "opening"], "CONFREQ", 0, FALSE))
  /\ UNCHANGED <<link, lost, early, again>>

\* IPCP: both ends have opened it, or one of them gives up or ends it
IpcpUp(e) ==
  /\ u[e].ipcp = "REQSENT" /\ u[Other(e)].ipcp \in {"REQSENT", "OPENED"}
  /\ Does(np_up([Start(e) EXCEPT !.m.ipcp = "OPENED"]))
  /\ UNCHANGED <<link, lost, early, again>>

IpcpEnds(e) ==
  /\ u[e].ipcp \in {"REQSENT", "OPENED"} /\ again < MaxAgain
  /\ LET s == Start(e)
         a == IF s.m.ipcp = "OPENED" THEN np_down(s) ELSE s
     IN Does(np_finished([a EXCEPT !.m.ipcp = "STOPPED"]))
  /\ again' = again + 1
  /\ UNCHANGED <<link, lost, early>>

protrej(e) ==
  /\ u[e].lcp = "opened" /\ again < MaxAgain
  /\ Does(ChapProtocolReject(Start(e))) \/ Does(upap_protrej(Start(e)))
  /\ again' = again + 1
  /\ UNCHANGED <<link, lost, early>>

\* What the model does not follow any further: a challenge or a response taken
\* while the link is down, a second beginning of the network phase
Sound == odd \intersect {"late", "twice"} = {}

Steps ==
  \/ \E e \in Ends : \/ Packet(e) \/ Lose(e) \/ Timer(e) \/ IpcpUp(e) \/ IpcpEnds(e)
                      \/ LcpUp(e) \/ link_terminated(e) \/ lcp_lowerdown(e) \/ protrej(e)
  \/ lcp_open

Next == Sound /\ Steps

Spec == Init /\ [][Next]_vars

----------------------------------------------------------------------------

TypeOK ==
  \A e \in Ends :
    /\ u[e].lcp \in {"down", "opening", "opened"}
    /\ u[e].cs \in {"INITIAL", "CLOSED", "PENDING", "LISTEN", "RESPONSE", "OPEN"}
    /\ u[e].ss \in {"INITIAL", "CLOSED", "PENDING", "INITIAL_CHAL", "OPEN", "RECHALLENGE", "BADAUTH"}
    /\ u[e].pcs \in {"INITIAL", "CLOSED", "PENDING", "AUTHREQ", "OPEN", "BADAUTH"}
    /\ u[e].pss \in {"INITIAL", "CLOSED", "PENDING", "LISTEN", "OPEN", "BADAUTH"}

\* The network protocols run only on a link that is up, after every proof the
\* two ends had asked of each other, at an end that requires a proof only if it
\* was promised one, and a digest was right only from an end that has the secret
\* (auth_required, auth_pending, network_phase); unless a challenge was answered
\* while LCP negotiated anew (chap.c:434 leaves out CHAPCS_INITIAL).
Proven(e) ==
  /\ u[e].lcp = "opened" /\ u[e].pending = {}
  /\ e \in auth_required => Asks[e] # "no"
  /\ Asks[e] = "CHAP" => (Other(e) \in Knows /\ u[e].ss \in {"OPEN", "RECHALLENGE"})
  /\ Asks[Other(e)] = "CHAP" => e \in Knows
NetworkOnlyWhenProvenUnlessLate ==
  Sound => \A e \in Ends : (u[e].num_np_open > 0 \/ u[e].ipcp \in {"REQSENT", "OPENED"}) => Proven(e)

\* num_np_open and num_np_up count the network protocols that are open and up,
\* unless a second success began the network phase again: a client that has
\* answered the same challenge twice, or a second one, hears two (auth.c:675,
\* chap.c:434-513); or a late challenge was answered.
CountsRightUnlessTwice ==
  Sound =>
    \A e \in Ends :
      /\ u[e].num_np_open = (IF u[e].ipcp \in {"REQSENT", "OPENED"} THEN 1 ELSE 0)
      /\ u[e].num_np_up = (IF u[e].ipcp = "OPENED" THEN 1 ELSE 0)

\* A timer of an earlier link is not running on a later one, but for
\* connect_time_expired, which nothing stops (auth.c:706); and unless a PAP nak
\* left the timer of its request behind (pap.c:539) or a late challenge or
\* response was taken after the link had gone down (chap.c:434, 533).
TimersStoppedUnless ==
  (Sound /\ "nak" \notin odd) =>
    \A e \in Ends : \A i \in DOMAIN timers[e] :
      timers[e][i][1] # "connect_time_expired" =>
        (timers[e][i][2] = link /\ u[e].lcp = "opened")

\* An end that waits for the other has a timer that makes it ask again or give up,
\* with the same exceptions.
WaitsWithTimerUnlessLate ==
  Sound => \A e \in Ends :
    LET Runs(f) == \E i \in DOMAIN timers[e] : timers[e][i][1] = f
    IN /\ u[e].ss \in {"INITIAL_CHAL", "RECHALLENGE"} => Runs("ChapChallengeTimeout")
       /\ u[e].cs = "RESPONSE" => Runs("ChapResponseTimeout")
       /\ u[e].pcs = "AUTHREQ" => Runs("upap_timeout")
       /\ u[e].pss = "LISTEN" => Runs("upap_reqtimeout")
=============================================================================
