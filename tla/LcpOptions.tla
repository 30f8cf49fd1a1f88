----------------------------- MODULE LcpOptions -----------------------------
(***************************************************************************)
(* What the two ends of a PPP link agree on: the options of LCP, lcp.c,    *)
(* negotiated by the automaton of fsm.c.                                   *)
(*                                                                         *)
(* A packet is a set of options with their values; their order and their   *)
(* encoding are left out.  A step sends the present request of an end and  *)
(* handles the answer, which may be lost.  On a line that is looped back   *)
(* end A meets its own requests.  Quality reports and callbacks, which     *)
(* this port never asks for, are left out.                                 *)
(***************************************************************************)
EXTENDS Integers, FiniteSets

CONSTANTS Configs,      \* what an end may be set up to want and to allow
          PPP_MINMRU,
          PPP_DEFMRU,   \* what lcp_init asks for, and takes for what need not be said
          PPP_MRU,      \* what an end assumes of a peer that says nothing
          Chars,        \* the control characters: the whole of an asyncmap
          Magics,
          maxnakloops, lcp_loopbackfail, MaxLost

VARIABLES cfg,          \* of each end: wo and ao
          looped, go, ho, acked, nakloops, result, conf, lost

vars == <<cfg, looped, go, ho, acked, nakloops, result, conf, lost>>

Ends == {"A", "B"}
Peer(e) == IF looped THEN e ELSE IF e = "A" THEN "B" ELSE "A"
Playing == IF looped THEN {"A"} ELSE Ends

Nothing == [mru |-> 0, map |-> {}, auth |-> {}, magic |-> 0, comp |-> {}, neg |-> {}, numloops |-> 0]

\* the options an end asks for are those in neg, but for mru and asyncmap at
\* their default; of the two authentications CHAP is asked for first
lcp_resetci(c, m) ==
  [mru |-> c.mru, map |-> c.map, auth |-> c.auth, magic |-> m, comp |-> c.comp,
   neg |-> c.neg, numloops |-> 0]

Down == [mtu |-> 0, mru |-> 0, out |-> {}, in |-> {}, send_comp |-> {}, recv_comp |-> {}]

Init ==
  /\ cfg \in [Ends -> Configs]
  /\ looped \in BOOLEAN
  /\ \E m, n \in Magics : go = [e \in Ends |-> lcp_resetci(cfg[e], IF e = "A" THEN m ELSE n)]
  /\ ho = [e \in Ends |-> Nothing]
  /\ acked = [e \in Ends |-> FALSE]
  /\ nakloops = [e \in Ends |-> 0]
  /\ result = [e \in Ends |-> "negotiates"]
  /\ conf = [e \in Ends |-> Down]
  /\ lost = 0

----------------------------------------------------------------------------
(* Asking *)

Ci(opt, v) == <<opt, v>>
OptOf(ci) == ci[1]
ValueOf(ci) == ci[2]
Proof(auth) == IF "CHAP" \in auth THEN {"CHAP"} ELSE auth

If(cond, ci) == {x \in {ci} : cond}

lcp_addci(g) ==
     If("MRU" \in g.neg /\ g.mru # PPP_DEFMRU, Ci("MRU", {g.mru}))
  \union If("ASYNCMAP" \in g.neg /\ g.map # Chars, Ci("ASYNCMAP", g.map))
  \union If(g.auth # {}, Ci("AUTHTYPE", Proof(g.auth)))
  \union If("MAGIC" \in g.neg, Ci("MAGIC", {g.magic}))
  \union {Ci("COMP", {x}) : x \in g.comp}

----------------------------------------------------------------------------
(* Judging what the other end asks for: the verdict, the value to nak with, *)
(* and what to note of it                                                   *)

Verdict(rc, nak, note) == [rc |-> rc, nak |-> nak, note |-> note]

ReqMru(a, v) ==
  LET mru == CHOOSE x \in v : TRUE
  IN IF "MRU" \notin a.allow THEN Verdict("REJ", v, {})
     ELSE IF mru < PPP_MINMRU THEN Verdict("NAK", {PPP_MINMRU}, {})
     ELSE Verdict("ACK", v, {"MRU"})

ReqMap(a, v) ==
  IF "ASYNCMAP" \notin a.allow THEN Verdict("REJ", v, {})
  ELSE IF ~(a.xmit_accm \subseteq v) THEN Verdict("NAK", a.xmit_accm \union v, {})
  ELSE Verdict("ACK", v, {"ASYNCMAP"})

ReqAuth(a, v) ==
  IF a.proves = {} THEN Verdict("REJ", v, {})
  ELSE IF v \subseteq a.proves THEN Verdict("ACK", v, {"AUTHTYPE"})
  ELSE Verdict("NAK", a.proves \ v, {})

\* the other end may nak with any other number
ReqMagic(a, g, v) ==
  IF "MAGIC" \notin a.allow \union g.neg THEN Verdict("REJ", v, {})
  ELSE IF "MAGIC" \in g.neg /\ g.magic \in v THEN Verdict("NAK", Magics, {})
  ELSE Verdict("ACK", v, {"MAGIC"})

ReqComp(a, v) ==
  IF ~(v \subseteq a.allow) THEN Verdict("REJ", v, {}) ELSE Verdict("ACK", v, {"COMP"})

Judge(a, g, ci) ==
  CASE OptOf(ci) = "MRU" -> ReqMru(a, ValueOf(ci))
    [] OptOf(ci) = "ASYNCMAP" -> ReqMap(a, ValueOf(ci))
    [] OptOf(ci) = "AUTHTYPE" -> ReqAuth(a, ValueOf(ci))
    [] OptOf(ci) = "MAGIC" -> ReqMagic(a, g, ValueOf(ci))
    [] OptOf(ci) = "COMP" -> ReqComp(a, ValueOf(ci))

\* a reject outweighs a nak; after too many naks all but a magic number is rejected
lcp_reqci(e, req, reject) ==
  LET Of(ci) == Judge(cfg[e], go[e], ci)
      Rc(ci) == IF Of(ci).rc = "NAK" /\ reject /\ OptOf(ci) # "MAGIC" THEN "REJ" ELSE Of(ci).rc
      rej == {ci \in req : Rc(ci) = "REJ"}
      nak == {ci \in req : Rc(ci) = "NAK"}
      Noted(opt) == {ci \in req : OptOf(ci) = opt /\ Of(ci).note # {}}
      Val(opt) == UNION {ValueOf(ci) : ci \in Noted(opt)}
      Num(opt) == IF Noted(opt) = {} THEN 0 ELSE CHOOSE x \in Val(opt) : TRUE
  IN [rc |-> IF rej # {} THEN "REJ" ELSE IF nak # {} THEN "NAK" ELSE "ACK",
      cis |-> IF rej # {} THEN rej
              ELSE IF nak # {} THEN {Ci(OptOf(ci), Of(ci).nak) : ci \in nak}
              ELSE req,
      ho |-> [mru |-> Num("MRU"), map |-> Val("ASYNCMAP"), auth |-> Val("AUTHTYPE"),
              magic |-> Num("MAGIC"), comp |-> Val("COMP"),
              neg |-> {OptOf(ci) : ci \in {x \in req : Of(x).note # {}}}, numloops |-> 0]]

----------------------------------------------------------------------------
(* Hearing the answer *)

Named(cis, opt) == \E ci \in cis : OptOf(ci) = opt
Value(cis, opt) == ValueOf(CHOOSE ci \in cis : OptOf(ci) = opt)

lcp_ackci(g, cis) == cis = lcp_addci(g)

NakMru(g, wo, cis) ==
  IF ~Named(cis, "MRU") THEN g
  ELSE LET mru == CHOOSE x \in Value(cis, "MRU") : TRUE
       IN IF mru <= wo.mru \/ mru < PPP_DEFMRU THEN [g EXCEPT !.mru = mru] ELSE g

NakMap(g, cis) ==
  IF ~Named(cis, "ASYNCMAP") THEN g ELSE [g EXCEPT !.map = @ \union Value(cis, "ASYNCMAP")]

\* offered something else: CHAP is given up for PAP, PAP for nothing
NakAuth(g, cis) ==
  CASE ~Named(cis, "AUTHTYPE") -> g
    [] Named(cis, "AUTHTYPE") /\ "CHAP" \in g.auth ->
         IF "CHAP" \in Value(cis, "AUTHTYPE") THEN g ELSE [g EXCEPT !.auth = @ \ {"CHAP"}]
    [] OTHER -> [g EXCEPT !.auth = @ \ {"PAP"}]

NakComp(g, cis) == [g EXCEPT !.comp = @ \ UNION {ValueOf(ci) : ci \in {x \in cis : OptOf(x) = "COMP"}}]

\* with the new magic number m
NakMagic(g, cis, m) ==
  IF Named(cis, "MAGIC") THEN [g EXCEPT !.magic = m, !.numloops = @ + 1]
  ELSE [g EXCEPT !.numloops = 0]

lcp_nakci(e, cis, m) ==
  NakMagic(NakComp(NakAuth(NakMap(NakMru(go[e], cfg[e], cis), cis), cis), cis), cis, m)

lcp_rejci(g, cis) ==
  [g EXCEPT !.neg = @ \ {OptOf(ci) : ci \in cis},
            !.comp = @ \ UNION {ValueOf(ci) : ci \in {x \in cis : OptOf(x) = "COMP"}},
            !.auth = IF Named(cis, "AUTHTYPE") /\ "CHAP" \in @ THEN {}
                     ELSE IF Named(cis, "AUTHTYPE") THEN @ \ {"PAP"} ELSE @]

----------------------------------------------------------------------------

\* fsm_sconfreq, fsm_rconfreq and the answer
Answered(e, r) ==
  LET p == Peer(e)
  IN /\ ho' = [ho EXCEPT ![p] = r.ho]
     /\ nakloops' = [nakloops EXCEPT ![p] = CASE r.rc = "ACK" -> 0 [] r.rc = "NAK" -> @ + 1 [] OTHER -> @]
     /\ \/ lost < MaxLost /\ lost' = lost + 1 /\ UNCHANGED <<go, acked, result>>
        \/ /\ r.rc = "ACK" /\ lcp_ackci(go[e], r.cis)
           /\ acked' = [acked EXCEPT ![e] = TRUE]
           /\ UNCHANGED <<go, result, lost>>
        \/ /\ r.rc = "NAK"
           /\ \E m \in IF Named(r.cis, "MAGIC") THEN Magics ELSE {go[e].magic} :
                LET g == lcp_nakci(e, r.cis, m)
                IN /\ go' = [go EXCEPT ![e] = g]
                   /\ result' = [result EXCEPT ![e] = IF g.numloops >= lcp_loopbackfail THEN "closed" ELSE @]
           /\ UNCHANGED <<acked, lost>>
        \/ /\ r.rc = "REJ"
           /\ go' = [go EXCEPT ![e] = lcp_rejci(go[e], r.cis)]
           /\ UNCHANGED <<acked, result, lost>>
     /\ UNCHANGED <<cfg, looped, conf>>

Negotiate(e) ==
  /\ result[e] = "negotiates" /\ result[Peer(e)] # "closed" /\ ~acked[e]
  /\ \E r \in {lcp_reqci(Peer(e), lcp_addci(go[e]), nakloops[Peer(e)] >= maxnakloops)} :
       Answered(e, r)

Smaller(x, y) == IF x < y THEN x ELSE y
Larger(x, y) == IF x > y THEN x ELSE y

\* an end is up when its request and that of its peer are acknowledged
lcp_up(e) ==
  LET g == go[e]
      h == ho[e]
      c == cfg[e]
  IN /\ result[e] = "negotiates" /\ acked[e] /\ acked[Peer(e)]
     /\ result' = [result EXCEPT ![e] = "up"]
     /\ conf' = [conf EXCEPT ![e] =
                  [mtu |-> Smaller(c.ao_mru, IF "MRU" \in h.neg THEN h.mru ELSE PPP_MRU),
                   out |-> IF "ASYNCMAP" \in h.neg THEN h.map ELSE Chars,
                   send_comp |-> h.comp,
                   mru |-> IF "MRU" \in g.neg THEN Larger(c.mru, g.mru) ELSE PPP_MRU,
                   in |-> IF "ASYNCMAP" \in g.neg THEN g.map ELSE {},
                   recv_comp |-> g.comp]]
     /\ UNCHANGED <<cfg, looped, go, ho, acked, nakloops, lost>>

\* the peer has closed: its Terminate-Request ends this side too
Terminated(e) ==
  /\ result[e] = "negotiates" /\ result[Peer(e)] = "closed"
  /\ result' = [result EXCEPT ![e] = "closed"]
  /\ UNCHANGED <<cfg, looped, go, ho, acked, nakloops, conf, lost>>

Goes(e) == e \in Playing /\ (Negotiate(e) \/ lcp_up(e) \/ Terminated(e))

Next == \E e \in Ends : Goes(e)

\* a request unanswered is repeated (fsm_timeout)
Spec == Init /\ [][Next]_vars

----------------------------------------------------------------------------

TypeOK ==
  /\ \A e \in Ends : go[e].map \subseteq Chars /\ go[e].auth \subseteq {"CHAP", "PAP"}
  /\ result \in [Ends -> {"negotiates", "up", "closed"}]

Up == \A e \in Ends : result[e] = "up"

\* lcp_addci says nothing of an MRU of PPP_DEFMRU, for which the peer takes PPP_MRU.
Unsaid(p) == "MRU" \in go[p].neg /\ go[p].mru = PPP_DEFMRU

\* Two ends that are up fit together, in both directions: neither leaves a character
\* unescaped that the other throws away or that it was told to escape itself, or
\* compresses what the other did not ask to be compressed; each proves itself the way
\* the other expects; and neither sends what is longer than the other wants, unless what
\* that wants was PPP_DEFMRU and went unsaid (lcp_addci, lcp_up, link_established).
Fits(e, p) ==
  /\ conf[e].mtu <= conf[p].mru \/ Unsaid(p)
  /\ conf[p].in \subseteq conf[e].out /\ cfg[e].xmit_accm \subseteq conf[e].out
  /\ conf[e].send_comp \subseteq conf[p].recv_comp
  /\ ho[e].auth = Proof(go[p].auth)
EndsFitUnlessUnsaid == (Up /\ ~looped) => (Fits("A", "B") /\ Fits("B", "A"))

\* An end that is up does what it allows, and nothing it has not been asked for.
AcksOnlyAllowed ==
  \A e \in Ends : result[e] = "up" =>
    /\ ho[e].auth \subseteq cfg[e].proves /\ ho[e].comp \subseteq cfg[e].allow
    /\ "MRU" \in ho[e].neg => ho[e].mru >= PPP_MINMRU

\* A looped-back line is not taken for a link, unless this end does not ask for a
\* magic number (lcp_nakci: numloops).
LoopSeenUnlessNoMagic == (looped /\ "MAGIC" \in cfg["A"].neg) => result["A"] # "up"
=============================================================================
