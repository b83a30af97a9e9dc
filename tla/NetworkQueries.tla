-------------------------- MODULE NetworkQueries ---------------------------
(* The datagram operations of the network worker (ports/services/network:    *)
(* resolve_neighbor, udp_exchange, dns_lookup, ping, dhcp) and the kernel's  *)
(* calls that run it and take its answer (network.rs).  Answers may be lost, *)
(* late, overtaken or come twice, and outlive the call that asked for them.  *)
EXTENDS Integers, FiniteSets

CONSTANTS Hosts,        \* addresses; Local are on the interface's subnet
          Local, Gateway, DnsServer,
          DhcpServers,  \* each leases the address of its own number
          RETRIES_Q,    \* RETRIES of the worker
          MaxCalls, MaxInAir, MaxCount

VARIABLES query,   \* the running call, and what it waits for
          air,     \* the answers on their way
          config,  \* Ipv4Configuration: its server and its address
          granted, \* ghost: what the DHCP servers acknowledged
          last     \* ghost: the call answered last and what answered it

queryVars == <<query, air, config, granted, last>>

Fallback == [server |-> 0, address |-> 0]
Rest == [op |-> "none"]
NothingYet == [op |-> "none"]

QueriesInit ==
    /\ query = [call |-> 0, now |-> Rest]
    /\ air = {}
    /\ config = Fallback
    /\ granted = {}
    /\ last = NothingYet

Waits(now) == query' = [query EXCEPT !.now = now]
CallFails == Waits(Rest) /\ UNCHANGED <<air, config, granted, last>>

\* What is sent may bring an answer, unless it or the answer is lost.
Asks(answers) ==
    \/ air' = air
    \/ \E answer \in answers : Cardinality(air) < MaxInAir /\ air' = air \cup {answer}

Takes(answer) == \E again \in BOOLEAN : air' = IF again THEN air ELSE air \ {answer}

----------------------------------------------------------------------------
(* The calls.  The source port of a datagram comes from the time stamp, that *)
(* of a lookup is fixed; a ping numbers its requests from one.               *)
Lookup == 0
SourcePort(op, call) == IF op = "dns" THEN Lookup ELSE call

Begin(op, target, count) ==
    /\ query.now = Rest /\ query.call < MaxCalls
    /\ query' = [call |-> query.call + 1,
                 now |-> [op |-> op, step |-> "arp", tries |-> 0, target |-> target, index |-> 1,
                          count |-> count, port |-> SourcePort(op, query.call + 1)]]
    /\ UNCHANGED <<air, config, granted, last>>

udp_exchange_isolated == \E target \in Hosts : Begin("udp", target, 1)
dns_lookup_isolated == Begin("dns", DnsServer, 1)
ping_text == \E target \in Hosts, count \in 1..MaxCount : Begin("ping", target, count)

----------------------------------------------------------------------------
(* resolve_neighbor: the destination itself, or the gateway.                 *)
Neighbor(target) == IF target \in Local THEN target ELSE Gateway

resolve_neighbor ==
    /\ query.now # Rest /\ query.now.step = "arp"
    /\ IF query.now.tries = RETRIES_Q THEN CallFails
       ELSE /\ Asks({[kind |-> "arp", from |-> Neighbor(query.now.target)]})
            /\ Waits([query.now EXCEPT !.tries = @ + 1, !.step = "neighbor"])
            /\ UNCHANGED <<config, granted, last>>

NeighborKnown(answer) ==
    /\ query.now # Rest /\ query.now.step = "neighbor" /\ answer \in air
    /\ Takes(answer)
    /\ IF answer.kind = "arp" /\ answer.from = Neighbor(query.now.target)
       THEN Waits([query.now EXCEPT !.step = "ask", !.tries = 0])
       ELSE UNCHANGED query
    /\ UNCHANGED <<config, granted, last>>

\* A poll loop that runs out: the next try of what is asked.
PollsOut ==
    /\ query.now # Rest
    /\ \E back \in {<<"neighbor", "arp">>, <<"answer", "ask">>, <<"offer", "discover">>,
                    <<"ack", "request">>} :
         query.now.step = back[1] /\ Waits([query.now EXCEPT !.step = back[2]])
    /\ UNCHANGED <<air, config, granted, last>>

----------------------------------------------------------------------------
(* udp_exchange and ping: the request, up to RETRIES times, and its answer.  *)
DatagramTo(now) == [kind |-> "udp", from |-> now.target, port |-> now.port, call |-> query.call]
EchoTo(now) == [kind |-> "echo", from |-> now.target, index |-> now.index, call |-> query.call]

Ask ==
    /\ query.now # Rest /\ query.now.step = "ask"
    /\ IF query.now.tries = RETRIES_Q THEN CallFails
       ELSE /\ Asks({IF query.now.op = "ping" THEN EchoTo(query.now) ELSE DatagramTo(query.now)})
            /\ Waits([query.now EXCEPT !.tries = @ + 1, !.step = "answer"])
            /\ UNCHANGED <<config, granted, last>>

\* parse_udp_reply: from the address and port asked, to the port used.
parse_udp_reply(answer) ==
    /\ answer.kind = "udp" /\ answer.from = query.now.target
    /\ answer.port = query.now.port

\* Mutant: the number of a reply is not compared.
MutantEcho(answer) == answer.kind = "echo" /\ answer.from = query.now.target

\* parse_echo_reply: from the address asked, with the number of the request.
parse_echo_reply(answer) ==
    /\ answer.kind = "echo" /\ answer.from = query.now.target
    /\ answer.index = query.now.index

Accepts(answer) ==
    IF query.now.op = "ping" THEN parse_echo_reply(answer) ELSE parse_udp_reply(answer)

\* The next request of a ping starts from the neighbor again.
Answered(answer) ==
    /\ query.now # Rest /\ query.now.step = "answer" /\ answer \in air
    /\ Takes(answer)
    /\ IF ~Accepts(answer) THEN UNCHANGED <<query, last>>
       ELSE /\ last' = [op |-> query.now.op, call |-> query.call, index |-> query.now.index,
                        answer |-> answer]
            /\ Waits(IF query.now.index < query.now.count
                     THEN [query.now EXCEPT !.index = @ + 1, !.step = "arp", !.tries = 0]
                     ELSE Rest)
    /\ UNCHANGED <<config, granted>>

----------------------------------------------------------------------------
(* dhcp: discover, offer, request, acknowledgement.                          *)
renew_dhcp ==
    /\ query.now = Rest /\ query.call < MaxCalls
    /\ query' = [call |-> query.call + 1,
                 now |-> [op |-> "dhcp", step |-> "discover", tries |-> 0, offer |-> Fallback]]
    /\ UNCHANGED <<air, config, granted, last>>

Discover ==
    /\ query.now # Rest /\ query.now.step = "discover"
    /\ IF query.now.tries = RETRIES_Q THEN CallFails
       ELSE /\ Asks({[kind |-> "offer", server |-> s, address |-> s] : s \in DhcpServers})
            /\ Waits([query.now EXCEPT !.tries = @ + 1, !.step = "offer"])
            /\ UNCHANGED <<config, granted, last>>

\* exchange_dhcp: a refusal ends it, the kind expected answers it, any other
\* message is passed over.
Offered(answer) ==
    /\ query.now # Rest /\ query.now.step = "offer" /\ answer \in air
    /\ Takes(answer)
    /\ Waits(CASE answer.kind = "nak" -> Rest
               [] answer.kind = "offer" ->
                    [query.now EXCEPT !.step = "request", !.tries = 0,
                                      !.offer = [server |-> answer.server, address |-> answer.address]]
               [] OTHER -> query.now)
    /\ UNCHANGED <<config, granted, last>>

\* The server the offer came from grants the address or refuses it.
Request ==
    /\ query.now # Rest /\ query.now.step = "request"
    /\ IF query.now.tries = RETRIES_Q THEN CallFails
       ELSE /\ \/ air' = air /\ UNCHANGED granted
               \/ \E kind \in {"ack", "nak"} :
                    /\ Cardinality(air) < MaxInAir
                    /\ air' = air \cup {[kind |-> kind, server |-> query.now.offer.server,
                                         address |-> query.now.offer.address]}
                    /\ granted' = IF kind = "ack" THEN granted \cup {query.now.offer} ELSE granted
            /\ Waits([query.now EXCEPT !.tries = @ + 1, !.step = "ack"])
            /\ UNCHANGED <<config, last>>

Lease(offer, answer) == [server |-> answer.server, address |-> answer.address]

\* The record is checked by the kernel and replaces the configuration whole.
Acknowledged(answer) ==
    /\ query.now # Rest /\ query.now.step = "ack" /\ answer \in air
    /\ Takes(answer)
    /\ CASE answer.kind = "nak" -> Waits(Rest) /\ UNCHANGED config
         [] answer.kind = "ack" -> Waits(Rest) /\ config' = Lease(query.now.offer, answer)
         [] OTHER -> UNCHANGED <<query, config>>
    /\ UNCHANGED <<granted, last>>

QueriesNext ==
    \/ udp_exchange_isolated \/ dns_lookup_isolated \/ ping_text \/ renew_dhcp
    \/ resolve_neighbor \/ PollsOut \/ Ask \/ Discover \/ Request
    \/ \E answer \in air :
         NeighborKnown(answer) \/ Answered(answer) \/ Offered(answer) \/ Acknowledged(answer)

QueriesSpec == QueriesInit /\ [][QueriesNext]_queryVars

----------------------------------------------------------------------------
(* "Send one UDP datagram and wait for a reply from the same address and     *)
(* port." (network.rs:2453): a late answer to an earlier datagram is not     *)
(* taken for this one's, and inside one ping an answer is that of its own    *)
(* request.                                                                  *)
AnswersItsRequest ==
    /\ last.op = "udp" => last.answer.call = last.call
    /\ last.op = "ping" /\ last.answer.call = last.call => last.answer.index = last.index

(* Whatever was lost, refused or left over from an earlier renewal, the      *)
(* interface has an address that the server it names has acknowledged.       *)
ConfigIsALease == config = Fallback \/ config \in granted

\* An answer belongs to its question, and an address to a lease.
QueriesAnswered == AnswersItsRequest /\ ConfigIsALease
=============================================================================
