-------------------------------- MODULE Dns ---------------------------------
(***************************************************************************)
(* The resolver of lwIP (core/dns.c, an option that this build leaves      *)
(* out): a table of names, each asked of the servers in turn, and a cache  *)
(* of the answers.  A query stays on the wire for good: its answer may     *)
(* come at once, late, several times or never.                             *)
(*                                                                         *)
(* A name is a sequence of labels.  The callback of a request that failed  *)
(* may ask again, as programs do: the handlers below are then re-entered.  *)
(***************************************************************************)
EXTENDS Integers, Sequences, SequencesExt, FiniteSets

CONSTANTS
    Names,            \* what is asked for
    DNS_TABLE_SIZE, DNS_MAX_RETRIES,
    Servers,          \* the number of servers that are set
    SeqWrap,          \* dns_seqno counts modulo this (2^8)
    Ttls,             \* the times to live in the answers
    TtlWrap,          \* ttl counts modulo this (2^32)
    MaxRequests       \* bound: requests of the program

VARIABLES
    dns_table, dns_seqno,
    connected,        \* the server dns_pcb is connected to
    wire,             \* queries the servers got: id, name, server
    reqs,             \* the requests: name, state and the address they got
    odd               \* ghost: what the properties except

vars == <<dns_table, dns_seqno, connected, wire, reqs, odd>>

Ids == 0 .. DNS_TABLE_SIZE - 1

\* every name has its address: the name itself stands for it
NoIp == <<>>

Unused == [state |-> "UNUSED", numdns |-> 0, tmr |-> 0, retries |-> 0, seqno |-> 0, ttl |-> 0,
           name |-> NoIp, ip |-> NoIp, req |-> 0]

\* the variables as one value that the functions of the code pass on
Now == [t |-> dns_table, q |-> dns_seqno, c |-> connected, w |-> wire, r |-> reqs, o |-> odd]

Becomes(s) ==
    /\ dns_table' = s.t /\ dns_seqno' = s.q /\ connected' = s.c /\ wire' = s.w
    /\ reqs' = s.r /\ odd' = s.o

\* dns_send: connects the socket to the server, and the query goes out
dns_send(s, i) ==
    [s EXCEPT !.c = s.t[i].numdns,
              !.w = @ \cup {[id |-> i, name |-> s.t[i].name, server |-> s.t[i].numdns]}]

\* dns_compare_name: the labels of the answer begin the name
dns_compare_name(name, answer) == IsPrefix(answer, name)

\* dns_lookup
Cached(s, n) == {i \in Ids : s.t[i].state = "DONE" /\ s.t[i].name = n}
dns_lookup(s, n) == s.t[CHOOSE i \in Cached(s, n) : \A k \in Cached(s, n) : i <= k].ip

\* dns_enqueue: the first unused entry, or the one whose number is furthest
\* behind.  The difference is of two u8 as ints: it may be negative
Behind(s, i) == s.q - s.t[i].seqno
Done(s) == {i \in Ids : s.t[i].state = "DONE"}
lseqi(s) ==
    LET old == {i \in Done(s) : Behind(s, i) > 0}
    IN  IF old = {} THEN 0
        ELSE CHOOSE i \in old : \A k \in old : Behind(s, i) > Behind(s, k)
                                               \/ (Behind(s, i) = Behind(s, k) /\ i <= k)

Place(s) ==
    LET free == {i \in Ids : s.t[i].state = "UNUSED"}
    IN  IF free # {} THEN CHOOSE i \in free : \A k \in free : i <= k ELSE lseqi(s)

\* with dns_check_entry for the NEW entry
dns_enqueue(s, n, r) ==
    LET i == Place(s)
    IN  IF s.t[i].state \notin {"UNUSED", "DONE"}
        THEN [s EXCEPT !.r[r] = [name |-> n, state |-> "mem", ip |-> NoIp],
                       !.o = IF Done(s) # {} THEN @ \cup {"refused"} ELSE @]
        ELSE dns_send([s EXCEPT
               !.t[i] = [@ EXCEPT !.state = "ASKING", !.numdns = 0, !.tmr = 1, !.retries = 0,
                                  !.seqno = s.q, !.name = n, !.req = r],
               !.q = (@ + 1) % SeqWrap,
               !.o = IF s.q + 1 = SeqWrap THEN @ \cup {"wrapped"} ELSE @,
               !.r[r] = [name |-> n, state |-> "pending", ip |-> NoIp]], i)

\* dns_gethostbyname
dns_gethostbyname(s, n, r) ==
    IF Cached(s, n) # {}
    THEN [s EXCEPT !.r[r] = [name |-> n, state |-> "given", ip |-> dns_lookup(s, n)]]
    ELSE dns_enqueue(s, n, r)

NewReqs(s) == {r \in DOMAIN s.r : s.r[r].state = "none"}
NewReq(s) == CHOOSE r \in NewReqs(s) : \A k \in NewReqs(s) : r <= k

\* the call of entry i's callback without an address: the program may ask again
FailedCalls(s, i) ==
    LET told == [s EXCEPT !.r[s.t[i].req].state = "failed"]
    IN  {told} \cup (IF NewReqs(told) = {} THEN {}
                     ELSE {dns_gethostbyname(told, n, NewReq(told)) : n \in Names})

\* the entry is given up after the callback, whatever the callback did with it
GivenUp(s, i) == [s EXCEPT !.t[i] = Unused]

(***************************************************************************)
(* Actions.                                                                *)
(***************************************************************************)
Request(n) == NewReqs(Now) # {} /\ Becomes(dns_gethostbyname(Now, n, NewReq(Now)))

\* dns_check_entry
dns_check_entry(s, i) ==
    LET e == s.t[i]
        retry == e.retries + 1
    IN  CASE e.state = "ASKING" /\ e.tmr > 1 -> {[s EXCEPT !.t[i].tmr = @ - 1]}
          [] e.state = "ASKING" /\ e.tmr = 1 /\ retry < DNS_MAX_RETRIES ->
               {dns_send([s EXCEPT !.t[i].retries = retry, !.t[i].tmr = retry], i)}
          [] e.state = "ASKING" /\ e.tmr = 1 /\ retry = DNS_MAX_RETRIES /\ e.numdns + 1 < Servers ->
               {[s EXCEPT !.t[i] = [@ EXCEPT !.numdns = @ + 1, !.tmr = 1, !.retries = 0]]}
          [] e.state = "ASKING" /\ e.tmr = 1 /\ retry = DNS_MAX_RETRIES /\ e.numdns + 1 >= Servers ->
               {GivenUp(x, i) : x \in FailedCalls(s, i)}
          [] e.state = "DONE" ->
               {IF e.ttl = 1 THEN [s EXCEPT !.t[i] = Unused]
                ELSE [s EXCEPT !.t[i].ttl = (@ - 1) % TtlWrap]}
          [] OTHER -> {s}

\* dns_tmr, dns_check_entries: every entry in turn
dns_tmr ==
    \E s \in FoldLeft(LAMBDA S, i : UNION {dns_check_entry(s, i - 1) : s \in S}, {Now},
                      [i \in 1 .. DNS_TABLE_SIZE |-> i]) : Becomes(s)

\* dns_recv, mutated: the name in the answer is not compared
dns_recv_any_name(m, good, ttl) ==
    LET i == m.id
        s == [Now EXCEPT !.t[i].state = "DONE"]
    IN  /\ m.server = connected
        /\ dns_table[i].state = "ASKING"
        /\ IF good
           THEN Becomes([s EXCEPT !.t[i].ttl = ttl, !.t[i].ip = m.name,
                                  !.r[s.t[i].req] = [@ EXCEPT !.state = "given", !.ip = m.name]])
           ELSE \E x \in FailedCalls(s, i) : Becomes(GivenUp(x, i))

\* dns_recv: the answer to query m, good or an error.  The entry counts as DONE
\* already while the callback of a failure runs
dns_recv(m, good, ttl) ==
    LET i == m.id
        s == [Now EXCEPT !.t[i].state = "DONE"]
        match == good /\ dns_compare_name(s.t[i].name, m.name)
        \* what the callback did to this entry, or got from it
        Noted(x) == IF x.t[i] # s.t[i] THEN [x EXCEPT !.o = @ \cup {"dropped"}]
                    ELSE IF x.r # s.r /\ \E r \in DOMAIN x.r :
                              x.r[r].state = "given" /\ s.r[r].state = "none"
                              /\ x.r[r].name = s.t[i].name
                         THEN [x EXCEPT !.o = @ \cup {"stale"}]
                         ELSE x
    IN  /\ m.server = connected
        /\ dns_table[i].state = "ASKING"
        /\ IF match
           THEN Becomes([s EXCEPT !.t[i].ttl = ttl, !.t[i].ip = m.name,
                                  !.r[s.t[i].req] = [@ EXCEPT !.state = "given", !.ip = m.name]])
           ELSE \E x \in FailedCalls(s, i) : Becomes(GivenUp(Noted(x), i))

Init ==
    /\ dns_table = [i \in Ids |-> Unused]
    /\ dns_seqno = 0 /\ connected = 0 /\ wire = {}
    /\ reqs = [r \in 1 .. MaxRequests |-> [name |-> NoIp, state |-> "none", ip |-> NoIp]]
    /\ odd = {}

Next ==
    \/ \E n \in Names : Request(n)
    \/ dns_tmr
    \/ \E m \in wire, good \in BOOLEAN, ttl \in Ttls : dns_recv(m, good, ttl)

Spec == Init /\ [][Next]_vars

----------------------------------------------------------------------------
(***************************************************************************)
(* dns_recv: what a request is given, at once from the table or later, is  *)
(* the address of the name it asked for, or of one that begins it: the     *)
(* number of a query is the index of its entry, so that the answer to an   *)
(* older query of this entry comes here too, and dns_compare_name stops at *)
(* the end of the name in the answer.  The exception is a request made     *)
(* from the callback of the failure, which finds the failed entry DONE.    *)
(***************************************************************************)
GivenRightUnlessStale ==
    \A r \in DOMAIN reqs : reqs[r].state = "given" =>
        (reqs[r].ip # NoIp /\ IsPrefix(reqs[r].ip, reqs[r].name)) \/ "stale" \in odd

(***************************************************************************)
(* dns_enqueue, dns_recv: a request that waits has exactly one entry that  *)
(* asks for it, unless its entry was taken in the callback of the failure  *)
(* of the one before and then given up.                                    *)
(***************************************************************************)
PendingAskedUnlessDropped ==
    \/ "dropped" \in odd
    \/ \A r \in DOMAIN reqs : reqs[r].state = "pending" =>
         Cardinality({i \in Ids : dns_table[i].state = "ASKING" /\ dns_table[i].req = r}) = 1

(***************************************************************************)
(* dns_enqueue: a request is refused only if every entry is still asking,  *)
(* unless dns_seqno has passed its limit, after which an answered entry    *)
(* may look as if it were in the future.                                   *)
(***************************************************************************)
RefusesOnlyFullUnlessWrapped == "refused" \in odd => "wrapped" \in odd
============================================================================
