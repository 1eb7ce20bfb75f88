------------------------------ MODULE Upstream ------------------------------
(***************************************************************************)
(* Asking the servers of a zone (src/recursor/upstream.rs): one call of    *)
(* query_servers_with_fallback.  The servers, IPv4 before IPv6, are asked  *)
(* in chunks; the servers of a chunk race, each in a task that sends its   *)
(* query over UDP and may go on over TCP (query_socket).  The first usable *)
(* answer ends the call and aborts the other tasks.                        *)
(*                                                                         *)
(* Time is in seconds.  The runtime is prompt: time passes only when every *)
(* task waits for the network, and a timer that is due fires.              *)
(***************************************************************************)
EXTENDS Integers, Sequences, FiniteSets, Functions

CONSTANTS
  V4, V6,        \* the servers, by family
  Safe,          \* those is_safe_upstream_ip lets through
  ChunkSize,     \* 3
  QueryTimeout,  \* QUERY_TIMEOUT
  TcpTimeout,    \* TCP_TIMEOUT
  MaxStall,      \* bound on the time spent in reads without a timer
  NoAnswer

Servers == V4 \cup V6

\* What can arrive: a matching response (usable: NoError or NXDomain), whole
\* or truncated, an error code, FORMERR, one that does not match the query,
\* and bytes that do not decode.
Replies == {"usable", "truncated", "error", "formerr", "mismatch", "garbage"}

ASSUME ServersAssumption ==
  V4 \cap V6 = {} /\ IsFiniteSet(Servers) /\ Safe \subseteq Servers
ASSUME BoundsAssumption ==
  /\ ChunkSize \in Nat \ {0} /\ MaxStall \in Nat
  /\ QueryTimeout \in Nat \ {0} /\ TcpTimeout \in Nat \ {0}
ASSUME NoAnswerAssumption == NoAnswer \notin Replies \cup {"None", "failed"}

VARIABLES
  now,
  order,     \* prioritized_servers, those not yet in a chunk
  set,       \* the JoinSet: servers of the chunk not yet joined
  task,      \* task[s]: where query_socket for s is
  deadline,  \* deadline[s]: when the timeout of s fires
  got,       \* got[s]: what query_socket returned for s
  stalled,   \* time during which some task was in such a read (history)
  result     \* what the call returned: a reply, "None", or NoAnswer yet

vars == <<now, order, set, task, deadline, got, stalled, result>>

\* udp: awaiting a datagram.  connecting, reading: the retry over TCP, whose
\* connect alone is timed.  exchange: the timed exchange after truncation.
Waits == {"udp", "connecting", "reading", "exchange"}
Timed == Waits \ {"reading"}

TypeOK ==
  /\ now \in Nat
  /\ order \in Seq(Servers)
  /\ set \in SUBSET Servers
  /\ task \in [Servers -> Waits \cup {"unasked", "spawned", "ended", "aborted"}]
  /\ deadline \in [Servers -> Nat]
  /\ got \in [Servers -> Replies \cup {"failed", NoAnswer}]
  /\ stalled \in 0..MaxStall
  /\ result \in Replies \cup {"None", NoAnswer}

Shuffles(S) == Bijection(1..Cardinality(S), S)

Init ==
  /\ now = 0
  /\ \E a \in Shuffles(V4), b \in Shuffles(V6) : order = a \o b
  /\ set = {}
  /\ task = [s \in Servers |-> "unasked"]
  /\ deadline = [s \in Servers |-> 0]
  /\ got = [s \in Servers |-> NoAnswer]
  /\ stalled = 0
  /\ result = NoAnswer

(***************************************************************************)
(* query_servers_with_fallback                                             *)
(***************************************************************************)
ChunkLen == IF Len(order) < ChunkSize THEN Len(order) ELSE ChunkSize

\* The next chunk, once every task of the last one has been joined.
Chunk ==
  /\ result = NoAnswer /\ set = {} /\ order # <<>>
  /\ LET chunk == {order[i] : i \in 1..ChunkLen} IN
     /\ set' = chunk
     /\ task' = [s \in Servers |-> IF s \in chunk THEN "spawned" ELSE task[s]]
  /\ order' = SubSeq(order, ChunkLen + 1, Len(order))
  /\ UNCHANGED <<now, stalled, deadline, got, result>>

\* Variant of NoneLeft: the last chunk is not awaited.
NoneLeftEarly ==
  /\ result = NoAnswer /\ order = <<>>
  /\ result' = "None"
  /\ UNCHANGED <<now, stalled, order, set, task, deadline, got>>

NoneLeft ==
  /\ result = NoAnswer /\ set = {} /\ order = <<>>
  /\ result' = "None"
  /\ UNCHANGED <<now, stalled, order, set, task, deadline, got>>

\* join_next: a usable answer is returned, and dropping the set aborts the
\* tasks that are left in it.
Join(s) ==
  /\ result = NoAnswer
  /\ s \in set /\ task[s] = "ended"
  /\ \/ /\ got[s] \in {"usable", "truncated"}
        /\ result' = got[s]
        /\ set' = {}
        /\ task' = [u \in Servers |-> IF u \in set /\ task[u] # "ended" THEN "aborted"
                                      ELSE task[u]]
     \/ /\ got[s] \notin {"usable", "truncated"}
        /\ set' = set \ {s}
        /\ UNCHANGED <<task, result>>
  /\ UNCHANGED <<now, stalled, order, deadline, got>>

(***************************************************************************)
(* query_socket                                                            *)
(***************************************************************************)
End(s, r) ==
  /\ task' = [task EXCEPT ![s] = "ended"]
  /\ got' = [got EXCEPT ![s] = r]
  /\ deadline' = [deadline EXCEPT ![s] = 0]

Await(s, w, d) ==
  /\ task' = [task EXCEPT ![s] = w]
  /\ deadline' = [deadline EXCEPT ![s] = d]
  /\ UNCHANGED got

\* An unsafe address is not asked; no socket, or no route, is a failure.
Send(s) ==
  /\ task[s] = "spawned"
  /\ \/ End(s, "failed")
     \/ s \in Safe /\ Await(s, "udp", now + QueryTimeout)
  /\ UNCHANGED <<now, stalled, order, set, result>>

\* What follows from a response, by whichever transport it came.
Accept(s, r) ==
  \/ r = "mismatch" /\ End(s, "failed")
  \/ r = "truncated" /\ Await(s, "exchange", now + TcpTimeout)
  \/ r \notin {"mismatch", "truncated"} /\ End(s, r)

\* The one datagram that is waited for.  FORMERR and what does not decode are
\* tried again over TCP, before the response is matched with the query.
Receive(s, r) ==
  /\ task[s] = "udp"
  /\ \/ r \in {"formerr", "garbage"} /\ Await(s, "connecting", now + TcpTimeout)
     \/ r \notin {"formerr", "garbage"} /\ Accept(s, r)
  /\ UNCHANGED <<now, stalled, order, set, result>>

Connect(s) ==
  /\ task[s] = "connecting"
  /\ End(s, "failed") \/ Await(s, "reading", 0)
  /\ UNCHANGED <<now, stalled, order, set, result>>

\* The retry's answer; no timer runs while it is waited for.
Read(s, r) ==
  /\ task[s] = "reading"
  /\ \/ r = "garbage" /\ End(s, "failed")
     \/ r # "garbage" /\ Accept(s, r)
  /\ UNCHANGED <<now, stalled, order, set, result>>

\* Variant of Exchange: truncated again, tried again.
ExchangeAgain(s, r) ==
  /\ task[s] = "exchange"
  /\ \/ r = "garbage" /\ End(s, "failed")
     \/ r # "garbage" /\ Accept(s, r)
  /\ UNCHANGED <<now, stalled, order, set, result>>

\* The exchange after truncation: its answer is not looked at for TC again.
Exchange(s, r) ==
  /\ task[s] = "exchange"
  /\ \/ r \in {"garbage", "mismatch"} /\ End(s, "failed")
     \/ r \notin {"garbage", "mismatch"} /\ End(s, r)
  /\ UNCHANGED <<now, stalled, order, set, result>>

\* Variant of Timeout: TCP connections have no timer.
TimeoutUdp(s) ==
  /\ task[s] = "udp" /\ now = deadline[s]
  /\ End(s, "failed")
  /\ UNCHANGED <<now, stalled, order, set, result>>

Timeout(s) ==
  /\ task[s] \in Timed /\ now = deadline[s]
  /\ End(s, "failed")
  /\ UNCHANGED <<now, stalled, order, set, result>>

\* Nothing can run: every task of the set waits, none past its deadline.
Quiescent ==
  /\ set # {}
  /\ \A s \in set : task[s] \in Waits
  /\ \A s \in set : task[s] \in Timed => now < deadline[s]

Reading == {s \in set : task[s] = "reading"}

Tick ==
  /\ Quiescent
  /\ Reading # {} => stalled < MaxStall
  /\ stalled' = IF Reading = {} THEN stalled ELSE stalled + 1
  /\ now' = now + 1
  /\ UNCHANGED <<order, set, task, deadline, got, result>>

Next ==
  \/ Chunk \/ NoneLeft \/ Tick
  \/ \E s \in Servers : Join(s) \/ Send(s) \/ Connect(s) \/ Timeout(s)
  \/ \E s \in Servers, r \in Replies : Receive(s, r) \/ Read(s, r) \/ Exchange(s, r)

Spec == Init /\ [][Next]_vars

\* The runtime runs what can run, and time passes; the network owes nothing.
FairSpec ==
  /\ Spec
  /\ WF_vars(Chunk \/ NoneLeft) /\ WF_vars(Tick)
  /\ \A s \in Servers : WF_vars(Join(s)) /\ WF_vars(Send(s)) /\ WF_vars(Timeout(s))

(***************************************************************************)
(* Properties                                                              *)
(***************************************************************************)
Asked == {s \in Servers : task[s] # "unasked"}

\* The call gives up only when every server was asked, joined, and had no
\* usable answer, and what it returns is a usable answer of one of them: no
\* answer is lost in the race, to the order of the joins or between chunks.
NoAnswerLost ==
  /\ result = "None" =>
       \A s \in Servers : task[s] = "ended" /\ got[s] \notin {"usable", "truncated"}
  /\ result \in Replies =>
       result \in {"usable", "truncated"} /\ \E s \in Asked : got[s] = result

ChunksStarted == (Cardinality(Asked) + ChunkSize - 1) \div ChunkSize

\* A chunk takes at most a query timeout and two TCP timeouts, however its
\* servers behave, apart from the time spent reading a retry over TCP.
RoundBounded ==
  now - stalled <= ChunksStarted * (QueryTimeout + 2 * TcpTimeout)

\* The call returns, unless a server that was retried over TCP accepts the
\* connection and then never answers.
RoundEnds == result = NoAnswer ~> (result # NoAnswer \/ Reading # {})
=============================================================================
