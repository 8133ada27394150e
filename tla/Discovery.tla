----------------------------- MODULE Discovery -----------------------------
(***************************************************************************)
(* Discovery of agents over UDP (agent/tcf/services/discovery_udp.c) and   *)
(* the table of peers it fills (agent/tcf/framework/peer.c).               *)
(*                                                                         *)
(* The agents of one host find each other on its loopback interface, where *)
(* an address is a port.  The agent that owns the default port is the      *)
(* master; the others are slaves on ports of their own.  Slaves learn of   *)
(* other slaves from lists that age while they are handed on.  Packets get *)
(* lost or doubled, agents stop, crash and come back, and a slave becomes  *)
(* master when it has not heard of one for a while.                        *)
(*                                                                         *)
(* Time passes in steps of PEER_DATA_REFRESH_PERIOD, the period of all the *)
(* timers.  Packets are delivered within a step.                           *)
(***************************************************************************)
EXTENDS Integers, Sequences, FiniteSets, SequencesExt, FiniteSetsExt, Functions

CONSTANTS
  AgentSeq,    \* the agents; also the IDs of their peers
  Default,     \* DISCOVERY_TCF_PORT
  None,        \* no port
  RETENTION,   \* PEER_DATA_RETENTION_PERIOD, in refresh periods (4)
  MaxStarts,   \* bound: starts of agents
  MaxFaults    \* bound: agents that stop or crash, packets lost, delayed or doubled

Agents == Range(AgentSeq)

\* The system gives an agent that asks for any port its two ports in turn.
Ports == {Default} \cup (Agents \X {0, 1})

ASSUME DiscoveryAssumption ==
  /\ AgentSeq \in Seq(Agents)
  /\ RETENTION \in Nat \ {0} /\ MaxStarts \in Nat /\ MaxFaults \in Nat
  /\ None \notin Ports

VARIABLES
  ag,      \* agent -> its state
  net,     \* packets on their way, in the order in which they arrive
  ver,     \* agent -> the attributes of its peer, 0 before it starts
  left,    \* what is left of the bounds
  quiet,   \* port -> time since a packet was sent from it
  gone     \* agent -> time since it stopped to run

disc_vars == <<ag, net, ver, left, quiet, gone>>

\* The table f with the entry e at x.
Put(f, x, e) == [y \in DOMAIN f \cup {x} |-> IF y = x THEN e ELSE f[y]]

\* Times are kept as ages; from Old on all of them are treated alike.
Old == RETENTION + 1
Older(n) == IF n < Old THEN n + 1 ELSE Old

\* When nobody can remember an agent any more: the master keeps its data for
\* RETENTION, and hands it on until then to slaves that keep it as long.  Each
\* slave that takes over from a master meanwhile may hand it on once more.
Forgotten == 2 * RETENTION + 1

\* slaves: known slaves with the age of their last packet and of their last
\* request for slaves; peers: the table of peers with the time until they expire;
\* silence, asked: the ages of last_master_packet_time and last_req_slaves_time;
\* due: the timers are about to fire.
Fresh(id, port, v) ==
  [id |-> id, port |-> port, slaves |-> <<>>, silence |-> Old, asked |-> Old,
   peers |-> Put(<<>>, id, [left |-> RETENTION, ver |-> v]), due |-> FALSE]

Down(id) == [id |-> id, port |-> None, slaves |-> <<>>, silence |-> 0, asked |-> 0,
             peers |-> <<>>, due |-> FALSE]

DiscInit ==
  /\ ag = [a \in Agents |-> Down(a)] /\ net = <<>>
  /\ ver = [a \in Agents |-> 0] /\ left = [starts |-> MaxStarts, faults |-> MaxFaults]
  /\ quiet = [p \in Ports |-> Old] /\ gone = [a \in Agents |-> Forgotten]

Up == {a \in Agents : ag[a].port # None}
-----------------------------------------------------------------------------
(* Sending.  A handler is an operator on h, the state of the agent and the *)
(* packets it has sent so far.                                             *)

\* Strict(op, x) is op(x); TLC evaluates x once.
Strict(op(_), x) == CHOOSE y \in {op(z) : z \in {x}} : TRUE

\* send_packet never sends to the agent itself.
send_packet(h, to, type, body) ==
  [h EXCEPT !.out = Append(@, [to |-> to \ {h.s.port},
                               msg |-> [type |-> type, from |-> h.s.port, to |-> None,
                                       body |-> body]])]

\* The addresses of a broadcast: the slaves, one by one, and the masters.
Everyone(s) == DOMAIN s.slaves \cup {Default}

\* Fault: slaves hand on what they know of others, too.
udp_send_peer_info_Slaves(h, id, to) ==
  send_packet(h, to, "ACK_INFO", [id |-> id, ver |-> h.s.peers[id].ver])

\* Only the master sends what it knows of others.
udp_send_peer_info(h, id, to) ==
  IF id # h.s.id /\ h.s.port # Default THEN h
  ELSE send_packet(h, to, "ACK_INFO", [id |-> id, ver |-> h.s.peers[id].ver])

udp_send_ack_info(h, to) ==
  FoldLeft(LAMBDA x, id : Strict(LAMBDA y : IF id \in DOMAIN y.s.peers
                                            THEN udp_send_peer_info(y, id, to) ELSE y, x),
           h, AgentSeq)

\* The time to live of a slave, as it is sent.
TTL(e) == RETENTION - e.age
Requests(s) == {p \in DOMAIN s.slaves : s.slaves[p].req <= RETENTION}

udp_send_ack_slaves_all(h, p) ==
  LET known == {q \in DOMAIN h.s.slaves \ {p} : TTL(h.s.slaves[q]) > 0}
  IN IF known = {} THEN h
     ELSE send_packet(h, {p}, "ACK_SLAVES", [q \in known |-> TTL(h.s.slaves[q])])

udp_send_ack_slaves_one(h, p) ==
  IF TTL(h.s.slaves[p]) <= 0 THEN h
  ELSE send_packet(h, Requests(h.s), "ACK_SLAVES", Put(<<>>, p, TTL(h.s.slaves[p])))

\* udp_send_all to a slave; the local peer is always sent, so that the empty
\* packet of udp_send_empty_packet is not needed.
udp_send_all(h, p) ==
  Strict(LAMBDA x : IF p \in Requests(h.s) THEN udp_send_ack_slaves_all(x, p) ELSE x,
         udp_send_ack_info(h, {p}))

\* A slave that is new is asked and told about peers, and told to the others.
Greet(h, p) ==
  Strict(LAMBDA x : udp_send_ack_slaves_one(x, p),
         Strict(LAMBDA x : udp_send_all(x, p), send_packet(h, {p}, "REQ_INFO", <<>>)))

\* Fault: what others say of a slave counts as a packet of it.
add_slave_Now(h, p, age) ==
  IF p \in DOMAIN h.s.slaves THEN [h EXCEPT !.s.slaves[p].age = 0]
  ELSE Greet([h EXCEPT !.s.slaves = Put(@, p, [age |-> 0, req |-> Old])], p)

add_slave(h, p, age) ==
  IF p \in DOMAIN h.s.slaves THEN [h EXCEPT !.s.slaves[p].age = IF age < @ THEN age ELSE @]
  ELSE Greet([h EXCEPT !.s.slaves = Put(@, p, [age |-> age, req |-> Old])], p)
-----------------------------------------------------------------------------
(* Receiving.                                                              *)


\* peer_server_add, and local_peer_changed for a peer that is new or has changed.
peer_server_add(h, id, v) ==
  LET s == h.s
      same == id \in DOMAIN s.peers /\ (id = s.id \/ s.peers[id].ver = v)
  IN IF same THEN [h EXCEPT !.s.peers[id].left = RETENTION]
     ELSE Strict(LAMBDA x : udp_send_peer_info(x, id, Everyone(x.s)),
                 [h EXCEPT !.s.peers = Put(@, id, [left |-> RETENTION, ver |-> v])])

\* A request for slaves is sent when the last one is old enough.
RequestDelay(from) == IF from = Default THEN (RETENTION + 2) \div 3 ELSE (2 * RETENTION + 2) \div 3

\* Fault: any packet counts as one of the master.
RequestSlaves_Any(h, from) ==
  LET x == IF h.s.asked < RequestDelay(from) THEN h
           ELSE send_packet([h EXCEPT !.s.asked = 0], {from}, "REQ_SLAVES", <<>>)
  IN [x EXCEPT !.s.silence = 0]

RequestSlaves(h, from) ==
  LET x == IF h.s.asked < RequestDelay(from) THEN h
           ELSE send_packet([h EXCEPT !.s.asked = 0], {from}, "REQ_SLAVES", <<>>)
  IN IF from = Default THEN [x EXCEPT !.s.silence = 0] ELSE x

\* The body of a list of slaves is read in the order of PortSeq.
PortSeq == [i \in 1..2 * Len(AgentSeq) |-> <<AgentSeq[(i + 1) \div 2], i % 2>>]

LearnSlaves(h, body) ==
  FoldLeft(LAMBDA x, p : Strict(LAMBDA y : IF p \in DOMAIN body
                                           THEN add_slave(y, p, RETENTION - body[p]) ELSE y, x),
           h, PortSeq)

Handle(h, m) ==
  CASE m.type = "REQ_INFO"   -> udp_send_all(h, m.from)
    [] m.type = "ACK_INFO"   -> peer_server_add(h, m.body.id, m.body.ver)
    [] m.type = "REQ_SLAVES" ->
         udp_send_ack_slaves_all(IF m.from = Default THEN h
                                 ELSE [h EXCEPT !.s.slaves[m.from].req = 0], m.from)
    [] m.type = "ACK_SLAVES" -> LearnSlaves(h, m.body)

udp_server_recv(h, m) ==
  IF m.from = h.s.port THEN h
  ELSE IF m.type = "PEERS_REMOVED"
  THEN [h EXCEPT !.s.peers = Restrict(@, DOMAIN @ \ ({m.body} \ {h.s.id}))]
  ELSE Strict(LAMBDA x : RequestSlaves(x, m.from),
              Strict(LAMBDA x : Handle(x, m),
                     IF m.from = Default THEN h ELSE add_slave(h, m.from, 0)))
-----------------------------------------------------------------------------
(* Actions.                                                                *)

\* A packet gets to each open socket that it is sent to; open: agent -> its socket.
Copies(open, q, o) ==
  FoldLeft(LAMBDA n, b : IF b \in DOMAIN open /\ open[b] \in o.to
                         THEN Append(n, [o.msg EXCEPT !.to = open[b]]) ELSE n,
           q, AgentSeq)
WithCopies(open, q, out) == FoldLeft(LAMBDA n, o : Copies(open, n, o), q, out)

\* What is on its way but for packets to a closed socket.
Without(closed, q) ==
  FoldLeft(LAMBDA n, m : IF m.to \in closed THEN n ELSE Append(n, m), <<>>, q)

\* The handler of a is done, and q is what was on its way before.
Done(a, h, q) ==
  /\ ag' = [ag EXCEPT ![a] = h.s]
  /\ net' = WithCopies([b \in Agents \ {a} |-> ag[b].port],
                       Without({ag[a].port} \ {h.s.port}, q), h.out)
  /\ quiet' = [p \in Ports |-> IF \E i \in DOMAIN h.out : h.out[i].msg.from = p
                               THEN 0 ELSE quiet[p]]

Begin(s) == [s |-> s, out |-> <<>>]

\* bind: the default port if it is free, any other one if not.
Bind(a) == IF \A b \in Agents : ag[b].port # Default THEN Default
           ELSE IF ag[a].port = <<a, 0>> THEN <<a, 1>> ELSE <<a, 0>>

Broadcast(h) == udp_send_ack_info(h, Everyone(h.s))

\* Agents are alike: the order in which they start for the first time is fixed.
InOrder(a) == \A j \in DOMAIN AgentSeq : AgentSeq[j] = a =>
                \A i \in 1..(j - 1) : ver[AgentSeq[i]] # 0
NextVersion(a) == IF ver[a] = 1 THEN 2 ELSE 1

\* discovery_start_udp, after the servers were started; an agent that comes back
\* has other attributes.
StartAgent(a) ==
  /\ a \notin Up /\ InOrder(a) /\ left.starts > 0
  /\ left' = [left EXCEPT !.starts = @ - 1]
  /\ ver' = [ver EXCEPT ![a] = NextVersion(a)]
  /\ gone' = [gone EXCEPT ![a] = 0]
  /\ \E h \in {Begin(Fresh(a, Bind(a), NextVersion(a)))} :
       Done(a, Broadcast(send_packet(h, {Default}, "REQ_INFO", <<>>)), net)

\* create_server_socket by a slave that has not heard of a master.
create_server_socket(h, p) ==
  IF h.s.port # Default /\ h.s.silence >= RETENTION \div 2 THEN [h EXCEPT !.s.port = p] ELSE h

KeptSlaves(slaves) == RestrictValues(slaves, LAMBDA e : e.age <= RETENTION)

udp_refresh_timer(s, p) ==
  Strict(LAMBDA x : Broadcast(IF x.s.port = Default THEN x ELSE add_slave(x, x.s.port, 0)),
         create_server_socket(Begin([s EXCEPT !.slaves = KeptSlaves(@)]), p))

clear_stale_peers(s) == [s EXCEPT !.peers = RestrictValues(@, LAMBDA e : e.left > 0)]

\* The two timers have the same period; that of the table of peers is armed first,
\* when the servers are started, and stays ahead.
Timers(a) ==
  /\ ag[a].due
  /\ \E h \in {udp_refresh_timer(clear_stale_peers([ag[a] EXCEPT !.due = FALSE]), Bind(a))} :
       Done(a, h, net)
  /\ UNCHANGED <<ver, left, gone>>

Receive(a) ==
  /\ net # <<>> /\ Head(net).to = ag[a].port
  /\ \E h \in {udp_server_recv(Begin(ag[a]), Head(net))} : Done(a, h, Tail(net))
  /\ UNCHANGED <<ver, left, gone>>

Fault == left.faults > 0 /\ left' = [left EXCEPT !.faults = @ - 1]

\* udp_send_peer_removed at the end of main, then the process exits.
Stop(a) ==
  /\ a \in Up /\ Fault
  /\ \E h \in {send_packet(Begin(ag[a]), Everyone(ag[a]), "PEERS_REMOVED", a)} :
       Done(a, [h EXCEPT !.s = Down(a)], net)
  /\ UNCHANGED <<ver, gone>>

Crash(a) == a \in Up /\ Fault /\ Done(a, Begin(Down(a)), net) /\ UNCHANGED <<ver, gone>>

Lose == net # <<>> /\ Fault /\ net' = Tail(net) /\ UNCHANGED <<ag, ver, quiet, gone>>

\* A packet is overtaken by the others, or comes once more.
Delay == /\ Len(net) > 1 /\ Fault
         /\ net' = Append(Tail(net), Head(net)) /\ UNCHANGED <<ag, ver, quiet, gone>>

Duplicate == /\ net # <<>> /\ Fault
             /\ net' = Append(net, Head(net)) /\ UNCHANGED <<ag, ver, quiet, gone>>

\* Time goes on when the timers have fired and the packets have arrived.  The
\* entry of the local peer is renewed in every period (refresh_all_peer_servers).
Aged(s) ==
  [s EXCEPT !.slaves = [p \in DOMAIN @ |-> [age |-> Older(@[p].age), req |-> Older(@[p].req)]],
            !.peers = [id \in DOMAIN s.peers |-> IF id = s.id THEN s.peers[id]
                                                 ELSE [s.peers[id] EXCEPT !.left = @ - 1]],
            !.silence = Older(@), !.asked = Older(@), !.due = TRUE]

Tick ==
  /\ Up # {} /\ net = <<>> /\ \A a \in Up : ~ag[a].due
  /\ ag' = [a \in Agents |-> IF a \in Up THEN Aged(ag[a]) ELSE ag[a]]
  /\ quiet' = [p \in Ports |-> Older(quiet[p])]
  /\ gone' = [a \in Agents |-> IF a \in Up \/ gone[a] = Forgotten THEN gone[a] ELSE gone[a] + 1]
  /\ UNCHANGED <<net, ver, left>>

Works(a) == Timers(a) \/ Receive(a)

DiscNext == Tick \/ Lose \/ Delay \/ Duplicate \/ \E a \in Agents : Works(a) \/ StartAgent(a) \/ Stop(a) \/ Crash(a)

\* Weak fairness of Tick and Works: one of them is possible while an agent runs, and
\* they are the steps that take nothing of the bounds.  Agents that run handle their
\* events, and time passes.
DiscFairness == []<>(Up = {}) \/ []<><<UNCHANGED left>>_disc_vars

DiscSpec == DiscInit /\ [][DiscNext]_disc_vars
DiscFairSpec == DiscSpec /\ DiscFairness
-----------------------------------------------------------------------------
\* What agents say of a slave never makes it look younger than it is: a slave
\* that is gone is not kept alive by agents telling each other about it.
SlavesHonest ==
  \A a \in Up : \A p \in DOMAIN ag[a].slaves : ag[a].slaves[p].age >= quiet[p]

\* Agents forget one that has gone, although the master hands on what it knows:
\* nobody lists it when twice the retention period is over, unless there is a
\* fault besides that one.
GoneIsForgotten ==
  \A a \in Up, b \in Agents \ Up :
    gone[b] >= Forgotten /\ ~ag[a].due => b \notin DOMAIN ag[a].peers

Converged == \A a \in Up : /\ DOMAIN ag[a].peers = Up
                           /\ \A b \in Up : ag[a].peers[b].ver = ver[b]


\* There is a master again, whatever happens to the last one.
MasterReturns == Up # {} ~> Up = {} \/ \E a \in Up : ag[a].port = Default
=============================================================================
