-------------------------------- MODULE Dhcp --------------------------------
(***************************************************************************)
(* The DHCP client of lwIP (core/dhcp.c, an option that this build leaves  *)
(* out) against a server and a network that loses, delays and repeats.     *)
(*                                                                         *)
(* Time is counted in half periods of the coarse timer.  The fine timer is *)
(* a request that is armed or not: it may fire at any moment.  A message   *)
(* has its transaction number, its type, an address and its options, of    *)
(* which it is given only whether they are there.                          *)
(***************************************************************************)
EXTENDS Integers, Sequences, FiniteSets

CONSTANTS
    Pool,       \* the addresses of the server
    NoAddr,     \* IP_ADDR_ANY
    AckOptions, \* sets of options an acknowledgement may have
    Lease,      \* the lease the server grants, in half periods
    Wrap,       \* t1_timeout and t2_timeout count modulo this (2^16)
    MaxTries,   \* stands for the limits of retries, 5 and 8
    MaxCalls    \* bound: calls of the program

VARIABLES
    dhcp,       \* struct dhcp
    netif,      \* address of the interface and whether it is up
    wire,       \* a reply under way to the present transaction; others never match
    half,       \* whether half a period has passed
    age,        \* ghost: half periods since the address was bound, up to MaxAge
    calls,
    odd         \* ghost: what the properties except

vars == <<dhcp, netif, wire, half, age, calls, odd>>

\* one more than the properties allow
MaxAge == Lease + 5

States == {"OFF", "SELECTING", "REQUESTING", "CHECKING", "BOUND", "RENEWING", "REBINDING",
           "REBOOTING", "BACKING_OFF"}

Off == [state |-> "OFF", tries |-> 0, timer |-> FALSE, xid |-> 0, offered |-> NoAddr,
        t1 |-> 0, t2 |-> 0, lease |-> 0, renew |-> 0, rebind |-> 0]

\* dhcp_set_state: a new state starts with no tries and no timer
dhcp_set_state(d, s) ==
    IF s = d.state THEN d ELSE [d EXCEPT !.state = s, !.tries = 0, !.timer = FALSE]

\* dhcp_create_msg, the transaction number (of which only matters that the next
\* one differs): a new one for a first try.  Without
\* memory (ok = FALSE) nothing is sent and the number stays
dhcp_create_msg(d, ok) ==
    IF ok /\ d.tries = 0 THEN [d EXCEPT !.xid = 1 - @] ELSE d

\* the end of every sending function
Armed(d) == [d EXCEPT !.tries = IF @ > MaxTries THEN @ ELSE @ + 1, !.timer = TRUE]

Send(d, s, ok) == Armed(dhcp_create_msg(dhcp_set_state(d, s), ok))

dhcp_discover(d, ok) == Send([d EXCEPT !.offered = NoAddr], "SELECTING", ok)
dhcp_select(d, ok) == Send(d, "REQUESTING", ok)
dhcp_renew(d, ok) == Send(d, "RENEWING", ok)
dhcp_rebind(d, ok) == Send(d, "REBINDING", ok)
dhcp_reboot(d, ok) == Send(d, "REBOOTING", ok)
dhcp_decline(d, ok) == Send(d, "BACKING_OFF", ok)

\* dhcp_check: an ARP query, no message
dhcp_check(d) == Armed(dhcp_set_state(d, "CHECKING"))

\* dhcp_release, the client's part
dhcp_release(d, ok) ==
    Send([d EXCEPT !.offered = NoAddr, !.lease = 0, !.renew = 0, !.rebind = 0], "OFF", ok)

\* dhcp_handle_ack: the lease, and its two times if they are not given
dhcp_handle_ack(d, m) ==
    LET l == IF "LEASE" \in m.options THEN m.lease ELSE d.lease
    IN  [d EXCEPT !.lease = l, !.offered = m.addr,
                  !.renew  = IF "T1" \in m.options THEN m.lease \div 2 ELSE l \div 2,
                  !.rebind = IF "T2" \in m.options THEN (m.lease * 7) \div 8 ELSE l]

\* dhcp_bind: periods of the coarse timer, rounded, at least one
Periods(t) == IF (t + 1) \div 2 = 0 THEN 1 ELSE (t + 1) \div 2

dhcp_bind(d) ==
    LET t1 == Periods(d.renew)
        t2 == Periods(d.rebind)
    IN  dhcp_set_state([d EXCEPT !.t1 = IF t1 >= t2 /\ t2 > 0 THEN 0 ELSE t1, !.t2 = t2], "BOUND")

\* the end of dhcp_bind: the interface gets the offered address
Bind(d) ==
    /\ dhcp' = dhcp_bind(d)
    /\ netif' = [addr |-> d.offered, up |-> TRUE]
    /\ age' = 0
    /\ odd' = IF d.lease = 0 THEN (odd \ {"stopped"}) \cup {"noterms"} ELSE odd \ {"stopped"}
    /\ UNCHANGED wire

Down == netif' = [addr |-> NoAddr, up |-> FALSE]

\* the server hears what the client sends and may answer, now or never:
\* an offer, or an acknowledgement or a refusal
Offers(d) ==
    {[type |-> "OFFER", xid |-> d.xid, addr |-> a, options |-> o, lease |-> Lease] :
        a \in Pool, o \in {{"SERVER_ID"}, {}}}
Answers(d, a) ==
    {[type |-> "ACK", xid |-> d.xid, addr |-> a, options |-> o, lease |-> Lease] :
        o \in AckOptions}
    \cup {[type |-> "NAK", xid |-> d.xid, addr |-> a, options |-> {}, lease |-> 0]}

\* the message of type "DISCOVER" or "REQUEST" for address a goes out
Out(d, type, a, ok) ==
    LET old == IF d.xid = dhcp.xid THEN wire ELSE {}
        new == CASE type = "DISCOVER" -> Offers(d)
                 [] type = "REQUEST" /\ a # NoAddr -> Answers(d, a)
                 [] OTHER -> {}
    IN  wire' = old \/ (ok /\ \E m \in new : wire' = {m})

Discover(d, ok) ==
    LET n == dhcp_discover(d, ok)
    IN  dhcp' = n /\ Out(n, "DISCOVER", NoAddr, ok)

Request(n, a, ok) == dhcp' = n /\ Out(n, "REQUEST", a, ok)

(***************************************************************************)
(* The calls of the program.                                               *)
(***************************************************************************)
\* dhcp_start: from nothing, also if a client runs; the interface stays as it
\* is.  Without memory the client is stopped again
dhcp_start(ok) ==
    /\ IF ok THEN Discover([Off EXCEPT !.xid = dhcp.xid], ok)
       ELSE dhcp' = [Off EXCEPT !.xid = dhcp.xid] /\ UNCHANGED wire
    /\ odd' = odd \cup {"stopped"}
    /\ UNCHANGED <<netif, half, age>>

\* dhcp_stop: the client ends, the interface keeps its address
dhcp_stop ==
    /\ dhcp.state # "OFF"
    /\ dhcp' = dhcp_set_state(dhcp, "OFF")
    /\ odd' = odd \cup {"stopped"}
    /\ UNCHANGED <<netif, wire, half, age>>

\* dhcp_release, called by the program
Release(ok) ==
    /\ dhcp.state # "OFF"
    /\ dhcp' = dhcp_release(dhcp, ok) /\ Out(dhcp', "RELEASE", NoAddr, ok)
    /\ Down
    /\ UNCHANGED <<half, age, odd>>

\* dhcp_network_changed: the link came back
dhcp_network_changed(ok) ==
    /\ dhcp.state # "OFF"
    /\ IF dhcp.state \in {"REBINDING", "RENEWING", "BOUND", "REBOOTING"}
       THEN /\ Request(dhcp_reboot([dhcp EXCEPT !.tries = 0], ok), dhcp.offered, ok)
            /\ netif' = [netif EXCEPT !.up = FALSE]
       ELSE Discover([dhcp EXCEPT !.tries = 0], ok) /\ UNCHANGED netif
    /\ UNCHANGED <<half, age, odd>>

(***************************************************************************)
(* dhcp_recv.                                                              *)
(***************************************************************************)
dhcp_recv(m, ok) ==
    /\ dhcp.state # "OFF" /\ m \in wire /\ m.xid = dhcp.xid
    /\ CASE m.type = "ACK" /\ dhcp.state = "REQUESTING" ->
              /\ dhcp' = dhcp_check(dhcp_handle_ack(dhcp, m))
              /\ UNCHANGED <<netif, wire, age, odd>>
         [] m.type = "ACK" /\ dhcp.state \in {"REBOOTING", "REBINDING", "RENEWING"} -> Bind(dhcp)
         [] m.type = "NAK" /\ dhcp.state \in {"REBOOTING", "REQUESTING", "REBINDING", "RENEWING"} ->
              /\ Discover(dhcp_set_state(dhcp, "BACKING_OFF"), ok) /\ Down
              /\ UNCHANGED <<age, odd>>
         [] m.type = "OFFER" /\ dhcp.state = "SELECTING" ->
              IF "SERVER_ID" \in m.options
              THEN /\ Request(dhcp_select([dhcp EXCEPT !.timer = FALSE, !.offered = m.addr], ok),
                              m.addr, ok)
                   /\ UNCHANGED <<netif, age, odd>>
              ELSE /\ dhcp' = [dhcp EXCEPT !.timer = FALSE]
                   /\ odd' = odd \cup {"noserver"}
                   /\ UNCHANGED <<netif, wire, age>>
         [] OTHER -> FALSE
    /\ UNCHANGED half

(***************************************************************************)
(* The timers.                                                             *)
(***************************************************************************)
\* dhcp_timeout.  A release, then a discovery: both try to send.
dhcp_timeout(ok) ==
    LET s == dhcp.state
        d == [dhcp EXCEPT !.timer = FALSE]
        again == dhcp.tries <= MaxTries
        Same == UNCHANGED <<netif, age, odd>>
        Renewed(n) == Request(n, dhcp.offered, ok) /\ Same
        Anew == Discover(dhcp_release(d, ok), ok) /\ Down /\ UNCHANGED <<age, odd>>
    IN  /\ dhcp.timer
        /\ CASE s \in {"BACKING_OFF", "SELECTING"} -> Discover(d, ok) /\ Same
             [] s = "REQUESTING" -> IF again THEN Renewed(dhcp_select(d, ok)) ELSE Anew
             [] s = "CHECKING" -> IF dhcp.tries <= 1 THEN dhcp' = dhcp_check(d) /\ Same /\ UNCHANGED wire
                                  ELSE Bind(d)
             [] s = "RENEWING"  -> Renewed(dhcp_renew(d, ok))
             [] s = "REBINDING" -> IF again THEN Renewed(dhcp_rebind(d, ok)) ELSE Anew
             [] s = "REBOOTING" -> IF dhcp.tries < 2 THEN Renewed(dhcp_reboot(d, ok))
                                   ELSE Discover(d, ok) /\ Same
             [] OTHER -> dhcp' = d /\ Same /\ UNCHANGED wire
        /\ UNCHANGED half

\* dhcp_coarse_tmr, with dhcp_t1_timeout and dhcp_t2_timeout, at every full
\* period: t2 counts down, and t1 unless t2 fired; both wrap below zero
Leased == {"REQUESTING", "BOUND", "RENEWING"}
dhcp_coarse_tmr(ok) ==
    LET d2 == [dhcp EXCEPT !.t2 = (@ - 1) % Wrap]
        d1 == [d2 EXCEPT !.t1 = (@ - 1) % Wrap]
        fires == IF dhcp.t2 = 1 THEN "t2" ELSE IF dhcp.t1 = 1 THEN "t1" ELSE "none"
        d == IF fires = "t2" THEN d2 ELSE d1
    IN  IF fires # "none" /\ dhcp.state \in Leased
        THEN Request(IF fires = "t2" THEN dhcp_rebind(d, ok) ELSE dhcp_renew(d, ok),
                     dhcp.offered, ok)
             /\ odd' = IF dhcp.state = "REQUESTING" THEN odd \cup {"oldtimer"} ELSE odd
        ELSE dhcp' = d /\ UNCHANGED <<wire, odd>>

Tick(ok) ==
    /\ half' = ~half
    /\ age' = CASE ~netif.up -> 0
              [] netif.up /\ age = MaxAge -> age
              [] OTHER -> age + 1
    /\ IF half THEN dhcp_coarse_tmr(ok)
       ELSE UNCHANGED <<dhcp, wire, odd>>
    /\ UNCHANGED netif

\* dhcp_arp_reply: another host answers for the offered address
dhcp_arp_reply(ok) ==
    /\ dhcp.state = "CHECKING"
    /\ dhcp' = dhcp_decline(dhcp, ok) /\ Out(dhcp', "DECLINE", NoAddr, ok)
    /\ UNCHANGED <<netif, half, age, odd>>

Init ==
    /\ dhcp = Off /\ netif = [addr |-> NoAddr, up |-> FALSE]
    /\ wire = {} /\ half = FALSE /\ age = 0 /\ calls = 0
    /\ odd = {}

Call(ok) == dhcp_start(ok) \/ dhcp_stop \/ Release(ok) \/ dhcp_network_changed(ok)

Event(ok) ==
    \/ dhcp_timeout(ok) \/ Tick(ok) \/ dhcp_arp_reply(ok)
    \/ \E m \in wire : dhcp_recv(m, ok)

Next ==
    \E ok \in BOOLEAN :
        \/ calls < MaxCalls /\ Call(ok) /\ calls' = calls + 1
        \/ Event(ok) /\ UNCHANGED calls

Spec == Init /\ [][Next]_vars

----------------------------------------------------------------------------
(***************************************************************************)
(* dhcp_bind, dhcp_coarse_tmr: a client that is BOUND or RENEWING got its  *)
(* address no longer ago than the lease and two periods of the timer (the  *)
(* times are rounded).  The rest is excepted: a client that rebinds uses   *)
(* the address on, past the lease if T2 was not given; one that was        *)
(* stopped keeps it; and an acknowledgement may bind an address without    *)
(* terms, when a timer of an older lease made a request a renewal.         *)
(***************************************************************************)
WithinLeaseUnless ==
    dhcp.state \in {"BOUND", "RENEWING"} /\ netif.up =>
        age <= Lease + 4 \/ odd # {}

(***************************************************************************)
(* dhcp_bind, dhcp_release, dhcp_handle_nak: an address in use is the one  *)
(* that was offered last, whatever was discovered or refused in between,   *)
(* and an interface that is up has an address.                             *)
(***************************************************************************)
UsesOfferedUnlessStopped ==
    netif.up /\ "stopped" \notin odd => netif.addr = dhcp.offered /\ netif.addr # NoAddr

(***************************************************************************)
(* dhcp_timeout, dhcp_recv: a client that has no lease has a request timer *)
(* running, unless it got an offer that does not name its server: then it  *)
(* waits for ever.                                                         *)
(***************************************************************************)
AlwaysTriesUnlessNoServer ==
    dhcp.state \notin {"OFF", "BOUND"} => dhcp.timer \/ "noserver" \in odd
============================================================================
