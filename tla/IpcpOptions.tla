---------------------------- MODULE IpcpOptions -----------------------------
(***************************************************************************)
(* The addresses and the header compression of a PPP link: the options of  *)
(* IPCP, ipcp.c, and what ipcp_up and ipcp_down do to the interface,       *)
(* ppp.c.                                                                  *)
(*                                                                         *)
(* As in LcpOptions a packet is a set of options and a step is a request   *)
(* with its answer, which may be lost.  The option with both addresses     *)
(* (CI_ADDRS), which reqci does not know, is asked for once CI_ADDR has    *)
(* been rejected.  The old form of the compression option, which this code *)
(* never sends first, and the second name server, treated like the first,  *)
(* are left out.                                                           *)
(***************************************************************************)
EXTENDS Integers, FiniteSets

CONSTANTS Configs,      \* what an end may be set up with
          maxnakloops, MaxLost, MaxRestarts

VARIABLES wo, go, ho, cis_received, acked, nakloops, result, iface, lost, restarts

vars == <<wo, go, ho, cis_received, acked, nakloops, result, iface, lost, restarts>>

Ends == {"A", "B"}
Peer(e) == IF e = "A" THEN "B" ELSE "A"

Nothing == [neg_addr |-> FALSE, his |-> 0, neg_vj |-> FALSE, slots |-> 0, cflag |-> FALSE]
NoIface == [up |-> FALSE, our |-> 0, his |-> 0, slots |-> -1, cflag |-> FALSE, dns |-> 0, route |-> FALSE]

\* the configuration of an end: ouraddr, hisaddr, the name server it has for its
\* peer, the slots and cflag it wants for what it receives and allows for what it sends
Want(c) == [c |-> c, req_addr |-> TRUE, accept_local |-> FALSE, accept_remote |-> FALSE]

ipcp_resetci(w) ==
  [w EXCEPT !.req_addr = TRUE,
            !.accept_local = @ \/ w.c.our = 0,
            !.accept_remote = @ \/ w.c.his = 0]
Got(w) == [neg_addr |-> TRUE, old_addrs |-> FALSE, our |-> w.c.our, his |-> w.c.his,
           neg_vj |-> w.c.vj, slots |-> w.c.slots, cflag |-> w.c.cflag,
           req_dns |-> TRUE, dns |-> 0]

Init ==
  /\ \E c \in [Ends -> Configs] : wo = [e \in Ends |-> ipcp_resetci(Want(c[e]))]
  /\ go = [e \in Ends |-> Got(wo[e])]
  /\ ho = [e \in Ends |-> Nothing]
  /\ cis_received = [e \in Ends |-> FALSE]
  /\ acked = [e \in Ends |-> FALSE]
  /\ nakloops = [e \in Ends |-> 0]
  /\ result = [e \in Ends |-> "negotiates"]
  /\ iface = [e \in Ends |-> NoIface]
  /\ lost = 0 /\ restarts = 0

----------------------------------------------------------------------------
(* Asking *)

Ci(opt, v) == <<opt, v>>
OptOf(ci) == ci[1]
ValueOf(ci) == ci[2]
If(cond, ci) == {x \in {ci} : cond}

\* a rejected address is tried again in the old form, a rejected compression as
\* long as nothing has been heard from the peer
ipcp_cilen(e) ==
  LET g == go[e]
      old == ~g.neg_addr /\ ~g.old_addrs
  IN [g EXCEPT !.neg_addr = @ \/ old,
               !.old_addrs = @ \/ old,
               !.neg_vj = @ \/ (wo[e].c.vj /\ ~cis_received[e])]

ipcp_addci(g) ==
     If(g.neg_addr /\ ~g.old_addrs, Ci("ADDR", <<g.our>>))
  \union If(g.neg_addr /\ g.old_addrs, Ci("ADDRS", <<g.our, g.his>>))
  \union If(g.neg_vj, Ci("COMPRESSTYPE", <<g.slots, g.cflag>>))
  \union If(g.req_dns, Ci("DNS", <<g.dns>>))

----------------------------------------------------------------------------
(* Judging what the peer asks for *)

Verdict(rc, nak) == [rc |-> rc, nak |-> nak]

ReqAddr(w, v) ==
  IF v[1] # w.c.his /\ (v[1] = 0 \/ ~w.accept_remote) THEN Verdict("NAK", <<w.c.his>>)
  ELSE IF v[1] = 0 /\ w.c.his = 0 THEN Verdict("REJ", v)
  ELSE Verdict("ACK", v)

ReqDns(w, v) ==
  IF w.c.dns = 0 THEN Verdict("REJ", v)
  ELSE IF v[1] # w.c.dns THEN Verdict("NAK", <<w.c.dns>>)
  ELSE Verdict("ACK", v)

ReqVj(w, v) ==
  LET many == v[1] > w.c.ao_slots
      flag == v[2] /\ ~w.c.ao_cflag
  IN IF ~w.c.vj THEN Verdict("REJ", v)
     ELSE IF many \/ flag
          THEN Verdict("NAK", <<IF many THEN w.c.ao_slots ELSE v[1],
                                IF flag THEN w.c.cflag ELSE v[2]>>)
     ELSE Verdict("ACK", v)

Judge(w, ci) ==
  CASE OptOf(ci) = "ADDR" -> ReqAddr(w, ValueOf(ci))
    [] OptOf(ci) = "ADDRS" -> Verdict("REJ", ValueOf(ci))
    [] OptOf(ci) = "COMPRESSTYPE" -> ReqVj(w, ValueOf(ci))
    [] OptOf(ci) = "DNS" -> ReqDns(w, ValueOf(ci))

\* noted in hisoptions even when it is answered with a nak
Noted(w, req) ==
  LET addr == {ci \in req : OptOf(ci) = "ADDR" /\ Judge(w, ci).rc # "REJ"}
      vj == {ci \in req : OptOf(ci) = "COMPRESSTYPE" /\ Judge(w, ci).rc # "REJ"}
      Of(cis, i, none) == IF cis = {} THEN none ELSE ValueOf(CHOOSE ci \in cis : TRUE)[i]
  IN [neg_addr |-> addr # {}, his |-> Of(addr, 1, 0),
      neg_vj |-> vj # {}, slots |-> Of(vj, 1, 0), cflag |-> Of(vj, 2, FALSE)]

\* a request without an address is answered once with the address for the peer
ipcp_reqci(w, req, reject) ==
  LET Rc(ci) == IF Judge(w, ci).rc = "NAK" /\ reject THEN "REJ" ELSE Judge(w, ci).rc
      rej == {ci \in req : Rc(ci) = "REJ"}
      nak == {ci \in req : Rc(ci) = "NAK"}
      h == Noted(w, req)
      hint == rej = {} /\ ~h.neg_addr /\ w.req_addr /\ ~reject
      refused == \E ci \in req : OptOf(ci) = "ADDR" /\ Judge(w, ci).rc = "REJ"
  IN [rc |-> IF rej # {} THEN "REJ" ELSE IF nak # {} \/ hint THEN "NAK" ELSE "ACK",
      cis |-> IF rej # {} THEN rej
              ELSE IF nak # {} \/ hint
                   THEN {Ci(OptOf(ci), Judge(w, ci).nak) : ci \in nak} \union If(hint, Ci("ADDR", <<w.c.his>>))
              ELSE req,
      ho |-> h,
      wo |-> [w EXCEPT !.req_addr = @ /\ ~refused /\ ~(hint /\ nak = {})]]

----------------------------------------------------------------------------
(* Hearing the answer *)

Named(cis, opt) == \E ci \in cis : OptOf(ci) = opt
Value(cis, opt) == ValueOf(CHOOSE ci \in cis : OptOf(ci) = opt)

ipcp_ackci(g, cis) == cis = ipcp_addci(g)

NakAddr(w, g, cis) ==
  IF g.neg_addr /\ Named(cis, "ADDR") /\ w.accept_local /\ Value(cis, "ADDR")[1] # 0
  THEN [g EXCEPT !.our = Value(cis, "ADDR")[1]] ELSE g

NakVj(g, cis) ==
  IF ~Named(cis, "COMPRESSTYPE") THEN g
  ELSE LET v == Value(cis, "COMPRESSTYPE")
       IN [g EXCEPT !.slots = IF v[1] < @ THEN v[1] ELSE @, !.cflag = @ /\ v[2]]

NakDns(g, cis) == IF Named(cis, "DNS") THEN [g EXCEPT !.dns = Value(cis, "DNS")[1]] ELSE g

\* an address in the answer to a request without one
NakHint(w, g, cis) ==
  IF g.neg_addr \/ ~Named(cis, "ADDR") THEN g
  ELSE LET v == Value(cis, "ADDR")[1]
           our == IF v # 0 /\ w.accept_local THEN v ELSE g.our
       IN [g EXCEPT !.old_addrs = FALSE, !.our = our, !.neg_addr = our # 0]

ipcp_nakci(w, g, cis) ==
  NakDns(NakVj(IF g.neg_addr THEN NakAddr(w, g, cis) ELSE NakHint(w, g, cis), cis), cis)

ipcp_rejci(g, cis) ==
  [g EXCEPT !.neg_addr = @ /\ ~Named(cis, "ADDR") /\ ~Named(cis, "ADDRS"),
            !.neg_vj = @ /\ ~Named(cis, "COMPRESSTYPE"),
            !.req_dns = @ /\ ~Named(cis, "DNS")]

----------------------------------------------------------------------------

\* fsm_sconfreq, fsm_rconfreq and the answer
Answered(e, g, r) ==
  LET p == Peer(e)
      Has(x) == go' = [go EXCEPT ![e] = x]
  IN /\ wo' = [wo EXCEPT ![p] = r.wo]
     /\ ho' = [ho EXCEPT ![p] = r.ho]
     /\ cis_received' = [cis_received EXCEPT ![p] = TRUE]
     /\ nakloops' = [nakloops EXCEPT ![p] = CASE r.rc = "ACK" -> 0 [] r.rc = "NAK" -> @ + 1 [] OTHER -> @]
     /\ \/ lost < MaxLost /\ lost' = lost + 1 /\ Has(g) /\ UNCHANGED acked
        \/ /\ r.rc = "ACK" /\ ipcp_ackci(g, r.cis) /\ Has(g)
           /\ acked' = [acked EXCEPT ![e] = TRUE]
           /\ UNCHANGED lost
        \/ r.rc = "NAK" /\ Has(ipcp_nakci(wo[e], g, r.cis)) /\ UNCHANGED <<acked, lost>>
        \/ r.rc = "REJ" /\ Has(ipcp_rejci(g, r.cis)) /\ UNCHANGED <<acked, lost>>
     /\ UNCHANGED <<result, iface, restarts>>

Negotiate(e) ==
  /\ result[e] = "negotiates" /\ result[Peer(e)] = "negotiates" /\ ~acked[e]
  /\ \E g \in {ipcp_cilen(e)} :
       \E r \in {ipcp_reqci(wo[Peer(e)], ipcp_addci(g), nakloops[Peer(e)] >= maxnakloops)} :
         Answered(e, g, r)

\* what sifvjcomp, sifaddr, sifup and sifdefaultroute set
Configured(e, h) ==
  [up |-> TRUE, our |-> go[e].our, his |-> h.his,
   slots |-> IF h.neg_vj THEN h.slots ELSE -1, cflag |-> h.neg_vj /\ h.cflag,
   dns |-> go[e].dns, route |-> TRUE]

ipcp_up(e) ==
  LET h == IF ho[e].neg_addr THEN ho[e] ELSE [ho[e] EXCEPT !.his = wo[e].c.his]
      known == h.his # 0 /\ go[e].our # 0
  IN /\ result[e] = "negotiates" /\ acked[e] /\ acked[Peer(e)]
     /\ ho' = [ho EXCEPT ![e] = h]
     /\ result' = [result EXCEPT ![e] = IF known THEN "up" ELSE "closed"]
     /\ iface' = [iface EXCEPT ![e] = IF known THEN Configured(e, h) ELSE NoIface]
     /\ UNCHANGED <<wo, go, cis_received, acked, nakloops, lost, restarts>>

\* the peer has closed: its Terminate-Request brings this end down
ipcp_down(e) ==
  /\ result[e] # "closed" /\ result[Peer(e)] = "closed"
  /\ result' = [result EXCEPT ![e] = "closed"]
  /\ iface' = [iface EXCEPT ![e] = NoIface]
  /\ UNCHANGED <<wo, go, ho, cis_received, acked, nakloops, lost, restarts>>

\* the link goes down and comes up again: both ends begin anew
Restart ==
  /\ restarts < MaxRestarts
  /\ \E e \in Ends : acked[e]
  /\ wo' = [e \in Ends |-> ipcp_resetci(wo[e])]
  /\ go' = [e \in Ends |-> Got(wo[e])]
  /\ cis_received' = [e \in Ends |-> FALSE]
  /\ acked' = [e \in Ends |-> FALSE]
  /\ nakloops' = [e \in Ends |-> 0]
  /\ result' = [e \in Ends |-> "negotiates"]
  /\ iface' = [e \in Ends |-> NoIface]
  /\ restarts' = restarts + 1
  /\ UNCHANGED <<ho, lost>>

Goes(e) == Negotiate(e) \/ ipcp_up(e) \/ ipcp_down(e)

Next == Restart \/ \E e \in Ends : Goes(e)

\* a request unanswered is repeated (fsm_timeout)
Spec == Init /\ [][Next]_vars

----------------------------------------------------------------------------

TypeOK ==
  /\ \A e \in Ends : go[e].neg_addr \in BOOLEAN /\ ho[e].cflag \in BOOLEAN
  /\ result \in [Ends -> {"negotiates", "up", "closed"}]

Up == \A e \in Ends : result[e] = "up"

\* Two ends that are up agree on both addresses, unless one is set up with an
\* address for itself and the other with a different one for it: after
\* maxnakloops naks the option is rejected, the request without it acknowledged,
\* and each keeps its own view (ipcp_reqci, ipcp_up).
Conflict(e, p) == wo[e].c.our # 0 /\ wo[p].c.his # 0 /\ wo[e].c.our # wo[p].c.his
AddressesAgreeUnlessConflict ==
  Up => \A e \in Ends : iface[e].our = iface[Peer(e)].his \/ Conflict(e, Peer(e))

\* An end compresses with no more slots than its peer asked for, leaves the slot
\* number out only if the peer asked for that too, and has no more slots itself.
CompressorsFit ==
  Up => \A e \in Ends :
    LET p == Peer(e)
    IN /\ iface[e].slots >= 0 => (go[p].neg_vj /\ iface[e].slots <= go[p].slots /\ iface[e].slots <= wo[e].c.ao_slots)
       /\ iface[e].cflag => (go[p].cflag /\ wo[e].c.ao_cflag)

\* An interface is up only with two addresses and with the peer's name server,
\* if it has one.
UpIsUsable ==
  \A e \in Ends : iface[e].up =>
    iface[e].our # 0 /\ iface[e].his # 0 /\ iface[e].dns \in {0, wo[Peer(e)].c.dns}
=============================================================================
