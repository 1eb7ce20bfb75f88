--------------------------- MODULE UpstreamProofs ---------------------------
(***************************************************************************)
(* Proofs about what is fetched from others: the answers of upstream       *)
(* servers (Upstream), and the root zone (RootZone).                       *)
(***************************************************************************)
EXTENDS Upstream, RootZone, TLAPS

(***************************************************************************)
(* Upstream: the invariant, for any number of servers                      *)
(***************************************************************************)
Good == {"usable", "truncated"}

Queued(s) == \E i \in 1..Len(order) : order[i] = s
Joined(s) == task[s] = "ended" /\ got[s] \notin Good

\* Until the call returns an answer every server is yet to be asked, in the
\* set, or was joined without a usable answer; what is returned is an answer
\* of a task that ended.
Accounted ==
  /\ result \notin Replies => \A s \in Servers : Queued(s) \/ s \in set \/ Joined(s)
  /\ result = "None" => order = <<>> /\ set = {}
  /\ result \in Replies =>
       result \in Good /\ \E s \in Servers : task[s] = "ended" /\ got[s] = result

IInv == TypeOK /\ Accounted

\* The outcomes of the call are told apart.
LEMMA Results ==
  /\ "None" \notin Replies /\ NoAnswer \notin Replies /\ Good \subseteq Replies
  /\ NoAnswer \notin Good /\ NoAnswer # "None"
BY NoAnswerAssumption, Zenon DEF Replies, Good

\* What is left of the order after a chunk, and the chunk, hold what it held.
LEMMA Chunked ==
  ASSUME NEW q \in Seq(Servers), NEW n \in 0..Len(q)
  PROVE  /\ SubSeq(q, n + 1, Len(q)) \in Seq(Servers)
         /\ {q[i] : i \in 1..n} \in SUBSET Servers
         /\ \A i \in 1..Len(q) :
              \/ q[i] \in {q[j] : j \in 1..n}
              \/ \E j \in 1..Len(SubSeq(q, n + 1, Len(q))) :
                   SubSeq(q, n + 1, Len(q))[j] = q[i]
<1> DEFINE rest == SubSeq(q, n + 1, Len(q))
<1>1. Len(q) \in Nat /\ n \in Int /\ \A i \in 1..Len(q) : q[i] \in Servers
  OBVIOUS
<1> USE <1>1
<1>2. \A i \in (n + 1)..Len(q) : q[i] \in Servers
  OBVIOUS
<1>3. /\ rest \in Seq(Servers)
      /\ Len(rest) = IF n + 1 <= Len(q) THEN Len(q) - (n + 1) + 1 ELSE 0
      /\ \A i \in 1..(Len(q) - (n + 1) + 1) : rest[i] = q[n + 1 + i - 1]
  BY <1>2
<1> HIDE DEF rest
<1> USE <1>3
<1>4. ASSUME NEW i \in 1..Len(q), ~(i <= n)
      PROVE  \E j \in 1..Len(rest) : rest[j] = q[i]
  <2>1. i - n \in 1..Len(rest) /\ i - n \in 1..(Len(q) - (n + 1) + 1)
        /\ n + 1 + (i - n) - 1 = i
    BY <1>4
  <2> QED BY <2>1, ZenonT(60)
<1>5. \A i \in 1..Len(q) : i <= n => q[i] \in {q[j] : j \in 1..n}
  OBVIOUS
<1>6. {q[i] : i \in 1..n} \in SUBSET Servers
  OBVIOUS
<1>7. \A i \in 1..Len(q) : q[i] \in {q[j] : j \in 1..n} \/ \E j \in 1..Len(rest) : rest[j] = q[i]
  BY <1>4, <1>5, Zenon
<1> QED BY <1>6, <1>7, ZenonT(60) DEF rest

\* A chunk moves servers from the order to the set.
LEMMA ChunkKeeps == IInv /\ Chunk => IInv'
<1> SUFFICES ASSUME IInv, Chunk PROVE IInv'
  BY Zenon
<1> DEFINE chunk == {order[i] : i \in 1..ChunkLen}
<1>1. TypeOK /\ Accounted
  BY Zenon DEF IInv
<1>2. Len(order) \in Nat /\ ChunkLen \in 0..Len(order)
  BY <1>1, BoundsAssumption, SMTT(60), Zenon DEF TypeOK, ChunkLen
<1>3. /\ SubSeq(order, ChunkLen + 1, Len(order)) \in Seq(Servers)
      /\ chunk \in SUBSET Servers
      /\ \A i \in 1..Len(order) :
           \/ order[i] \in chunk
           \/ \E j \in 1..Len(SubSeq(order, ChunkLen + 1, Len(order))) :
                SubSeq(order, ChunkLen + 1, Len(order))[j] = order[i]
  BY <1>1, <1>2, Chunked, ZenonT(60) DEF TypeOK
<1>4. /\ set' = chunk /\ order' = SubSeq(order, ChunkLen + 1, Len(order))
      /\ task' = [s \in Servers |-> IF s \in chunk THEN "spawned" ELSE task[s]]
      /\ result = NoAnswer /\ set = {}
      /\ now' = now /\ stalled' = stalled /\ deadline' = deadline
      /\ got' = got /\ result' = result
  BY Zenon DEF Chunk
<1> HIDE DEF chunk
<1> USE <1>4
<1>5. TypeOK'
  BY <1>1, <1>3, Zenon DEF TypeOK, Waits
<1>6. ASSUME NEW s \in Servers PROVE (Queued(s) \/ s \in set \/ Joined(s))'
  <2>1. CASE Queued(s)
    BY <1>3, <2>1, ZenonT(60) DEF Queued
  <2>2. CASE s \in chunk
    BY <2>2, Zenon
  <2>3. CASE Joined(s) /\ s \notin chunk
    BY <2>3, SMTT(60), Zenon DEF Joined
  <2>4. Queued(s) \/ Joined(s)
    BY <1>1, Results, SMTT(60), Zenon DEF Accounted
  <2> QED BY <2>1, <2>2, <2>3, <2>4, Zenon
<1>7. Accounted'
  BY <1>6, Results, SMTT(60), Zenon DEF Accounted
<1> QED BY <1>5, <1>7, Zenon DEF IInv

\* The call gives up when order and set are empty.
LEMMA NoneLeftKeeps == IInv /\ NoneLeft => IInv'
<1> SUFFICES ASSUME IInv, NoneLeft PROVE IInv'
  BY Zenon
<1>1. TypeOK'
  BY Zenon DEF IInv, TypeOK, NoneLeft
<1>2. \A s \in Servers : (Queued(s) <=> Queued(s)') /\ (Joined(s) <=> Joined(s)')
  BY Zenon DEF NoneLeft, Queued, Joined
<1>3. Accounted'
  BY <1>2, Results, SMTT(60), Zenon DEF IInv, Accounted, NoneLeft
<1> QED BY <1>1, <1>3, Zenon DEF IInv

\* A join returns a usable answer, or takes out a server without one.
LEMMA JoinKeeps == ASSUME IInv, NEW s \in Servers, Join(s) PROVE IInv'
<1>1. TypeOK /\ Accounted /\ result = NoAnswer /\ s \in set /\ task[s] = "ended"
  BY Zenon DEF IInv, Join
<1>2. /\ now' = now /\ stalled' = stalled /\ order' = order /\ deadline' = deadline
      /\ got' = got
  BY Zenon DEF Join
<1>3. CASE /\ got[s] \in Good /\ result' = got[s] /\ set' = {}
           /\ task' = [u \in Servers |-> IF u \in set /\ task[u] # "ended" THEN "aborted"
                                         ELSE task[u]]
  <2> USE <1>3
  <2>1. TypeOK'
    BY <1>1, <1>2, Results, SMTT(60), Zenon DEF TypeOK
  <2>2. task'[s] = "ended" /\ got'[s] = result'
    BY <1>1, <1>2, SMTT(60), Zenon
  <2>3. result' \in Good /\ result' \in Replies /\ result' # "None"
    BY Results, SMTT(60), Zenon
  <2>4. Accounted'
    BY <2>2, <2>3, SMTT(60), Zenon DEF Accounted
  <2> QED BY <2>1, <2>4, SMTT(60), Zenon DEF IInv
<1>4. CASE got[s] \notin Good /\ set' = set \ {s} /\ task' = task /\ result' = result
  <2> USE <1>1, <1>4
  <2>1. TypeOK'
    BY <1>2, SMTT(60), Zenon DEF TypeOK
  <2>2. \A u \in Servers : (Queued(u) <=> Queued(u)') /\ (Joined(u) <=> Joined(u)')
    BY <1>2, SMTT(60), Zenon DEF Queued, Joined
  <2>3. Joined(s)
    BY Zenon DEF Joined
  <2>4. Accounted'
    BY <2>2, <2>3, Results, ZenonT(60) DEF Accounted
  <2> QED BY <2>1, <2>4, Zenon DEF IInv
<1> QED BY <1>3, <1>4, Zenon DEF Join, Good

\* A step of a task that has not ended touches that task alone, and takes it
\* out of neither the set nor the order.
LEMMA TaskKeeps ==
  ASSUME IInv, NEW s \in Servers, task[s] \in Waits \cup {"spawned"},
         UNCHANGED <<stalled, order, set, result>>, now' = now,
         NEW p \in Waits \cup {"ended"}, task' = [task EXCEPT ![s] = p],
         deadline' \in [Servers -> Nat],
         got' \in [Servers -> Replies \cup {"failed", NoAnswer}],
         \A u \in Servers : u # s => got'[u] = got[u]
  PROVE  IInv'
<1>1. TypeOK /\ Accounted
  BY Zenon DEF IInv
<1>2. TypeOK'
  BY <1>1, Zenon DEF TypeOK, Waits
<1>3. task[s] # "ended"
  BY Zenon DEF Waits
<1>4. \A u \in Servers : u # s => task'[u] = task[u]
  BY <1>1, Zenon DEF TypeOK
<1>5. \A u \in Servers : /\ Queued(u) <=> Queued(u)'
                         /\ Joined(u) => Joined(u)'
                         /\ task[u] = "ended" => task'[u] = "ended" /\ got'[u] = got[u]
  BY <1>3, <1>4, SMTT(60), Zenon DEF Queued, Joined
<1>6. Accounted'
  BY <1>1, <1>5, SMTT(60), Zenon DEF Accounted
<1> QED BY <1>2, <1>6, SMTT(60), Zenon DEF IInv

\* The steps of query_socket are steps of a task.
LEMMA SocketKeeps ==
  ASSUME IInv, NEW s \in Servers, NEW r \in Replies,
         Send(s) \/ Connect(s) \/ Timeout(s) \/ Receive(s, r) \/ Read(s, r) \/ Exchange(s, r)
  PROVE  IInv'
<1>1. TypeOK
  BY Zenon DEF IInv
<1>2. task[s] \in Waits \cup {"spawned"} /\ UNCHANGED <<stalled, order, set, result>> /\ now' = now
  BY Zenon DEF Send, Connect, Timeout, Receive, Read, Exchange, Waits, Timed
<1>3. ASSUME NEW q \in Replies \cup {"failed"}, End(s, q) PROVE IInv'
  <2>1. /\ task' = [task EXCEPT ![s] = "ended"]
        /\ got' \in [Servers -> Replies \cup {"failed", NoAnswer}]
        /\ deadline' \in [Servers -> Nat]
        /\ \A u \in Servers : u # s => got'[u] = got[u]
    BY <1>1, <1>3, Zenon DEF End, TypeOK
  <2> QED BY <1>2, <2>1, TaskKeeps, ZenonT(60)
<1>4. ASSUME NEW w \in Waits, NEW d \in Nat, Await(s, w, d) PROVE IInv'
  <2>1. /\ task' = [task EXCEPT ![s] = w] /\ got' = got
        /\ deadline' \in [Servers -> Nat]
        /\ got' \in [Servers -> Replies \cup {"failed", NoAnswer}]
    BY <1>1, <1>4, Zenon DEF Await, TypeOK
  <2> QED BY <1>2, <2>1, TaskKeeps, ZenonT(60)
<1>5. /\ now + QueryTimeout \in Nat /\ now + TcpTimeout \in Nat /\ 0 \in Nat
      /\ {"udp", "connecting", "reading", "exchange"} \subseteq Waits
  BY <1>1, BoundsAssumption DEF TypeOK, Waits
<1>6. \/ \E q \in Replies \cup {"failed"} : End(s, q)
      \/ \E w \in {"udp", "connecting", "reading", "exchange"},
            d \in {0, now + QueryTimeout, now + TcpTimeout} : Await(s, w, d)
  BY Zenon DEF Send, Connect, Timeout, Receive, Read, Exchange, Accept
<1> QED BY <1>3, <1>4, <1>5, <1>6, SMTT(60), Zenon

\* Time passes, and nothing else.
LEMMA TickKeeps == IInv /\ Tick => IInv'
<1> SUFFICES ASSUME IInv, Tick PROVE IInv'
  BY Zenon
<1>1. TypeOK'
  BY BoundsAssumption DEF IInv, TypeOK, Tick
<1>2. Accounted'
  BY Zenon DEF IInv, Accounted, Queued, Joined, Tick
<1> QED BY <1>1, <1>2, Zenon DEF IInv

(***************************************************************************)
(* How long the call takes                                                 *)
(*                                                                         *)
(* RoundBounded is not inductive: how much of a chunk's time a task has    *)
(* left depends on where in query_socket it is, and that one more chunk    *)
(* counts one more rests on chunks being full as long as servers are left. *)
(***************************************************************************)
Budget == QueryTimeout + 2 * TcpTimeout
Limit == ChunksStarted * Budget
Spent == now - stalled

\* Task s of the set was asked, and what it may still take fits in the time of its chunk.
Punctual(s) ==
  /\ task[s] # "unasked"
  /\ task[s] = "spawned" => Spent <= Limit - Budget
  /\ task[s] = "udp" => now <= deadline[s] /\ deadline[s] - stalled <= Limit - 2 * TcpTimeout
  /\ task[s] = "connecting" => now <= deadline[s] /\ deadline[s] - stalled <= Limit - TcpTimeout
  /\ task[s] = "reading" => Spent <= Limit - TcpTimeout
  /\ task[s] = "exchange" => now <= deadline[s] /\ deadline[s] - stalled <= Limit

\* The order holds every server that was not asked, once.
Ordered ==
  /\ \A i, j \in 1..Len(order) : i # j => order[i] # order[j]
  /\ \A s \in Servers : Queued(s) <=> task[s] = "unasked"

FullChunks == order # <<>> => \E c \in Nat : Cardinality(Asked) = c * ChunkSize

Paced ==
  /\ Ordered
  /\ FullChunks
  /\ \A s \in set : Punctual(s)
  /\ Spent <= Limit

(***************************************************************************)
(* Counting chunks                                                         *)
(***************************************************************************)
LEMMA ProductMonotone ==
  ASSUME NEW b \in Nat, NEW i \in Int, NEW j \in Int, i <= j
  PROVE  i * b <= j * b
<1>1. (j - i) * b \in Nat
  OBVIOUS
<1>2. (j - i) * b = j * b - i * b
  OBVIOUS
<1> QED
  BY <1>1, <1>2

LEMMA Quotient ==
  ASSUME NEW b \in Nat \ {0}, NEW a \in Nat, NEW q \in Nat, q * b <= a, a < q * b + b
  PROVE  a \div b = q
<1> DEFINE d == a \div b
<1>1. d \in Int /\ d * b <= a /\ a < d * b + b
  OBVIOUS
<1> HIDE DEF d
<1> USE <1>1
<1>2. ~(d + 1 <= q)
  <2> SUFFICES ASSUME d + 1 <= q PROVE FALSE
    BY Zenon
  <2>1. (d + 1) * b <= q * b
    BY ProductMonotone
  <2>2. (d + 1) * b = d * b + b
    OBVIOUS
  <2> QED
    BY <2>1, <2>2
<1>3. ~(q + 1 <= d)
  <2> SUFFICES ASSUME q + 1 <= d PROVE FALSE
    BY Zenon
  <2>1. (q + 1) * b <= d * b
    BY ProductMonotone
  <2>2. (q + 1) * b = q * b + b
    OBVIOUS
  <2> QED
    BY <2>1, <2>2
<1>4. d = q
  BY <1>2, <1>3
<1> QED
  BY <1>4, Zenon DEF d

\* The chunks that so many servers make.
ChunksFor(n) == (n + ChunkSize - 1) \div ChunkSize

LEMMA ChunkCount ==
  ASSUME NEW c \in Nat, NEW r \in 1..ChunkSize
  PROVE  /\ c * ChunkSize \in Nat
         /\ ChunksFor(c * ChunkSize) = c
         /\ ChunksFor(c * ChunkSize + r) = c + 1
<1> DEFINE p == c * ChunkSize
<1>1. ChunkSize \in Nat \ {0} /\ p \in Nat /\ (c + 1) * ChunkSize = p + ChunkSize
  BY BoundsAssumption
<1> HIDE DEF p
<1> USE <1>1
<1>2. /\ p + ChunkSize - 1 \in Nat
      /\ p <= p + ChunkSize - 1 /\ p + ChunkSize - 1 < p + ChunkSize
  OBVIOUS
<1>3. ChunksFor(p) = c
  BY <1>2, Quotient, Zenon DEF ChunksFor, p
<1>4. /\ p + r + ChunkSize - 1 \in Nat /\ c + 1 \in Nat
      /\ p + ChunkSize <= p + r + ChunkSize - 1
      /\ p + r + ChunkSize - 1 < p + ChunkSize + ChunkSize
  OBVIOUS
<1>5. ChunksFor(p + r) = c + 1
  BY <1>4, Quotient, Zenon DEF ChunksFor
<1> QED
  BY <1>3, <1>5, Zenon DEF p

\* Nothing changes in the count of chunks while no server is newly asked.
LEMMA SameChunks ==
  ASSUME TypeOK, Paced, order' = order,
         \A s \in Servers : task'[s] = "unasked" <=> task[s] = "unasked"
  PROVE  Ordered' /\ FullChunks' /\ Limit' = Limit
<1>1. Asked' = Asked
  BY Zenon DEF Asked
<1>2. Ordered'
  BY Zenon DEF Paced, Ordered, Queued
<1>3. FullChunks'
  BY <1>1, Zenon DEF Paced, FullChunks
<1> QED BY <1>1, <1>2, <1>3, Zenon DEF Limit, ChunksStarted, Budget

\* The end of the call, and joins, take no time.
LEMMA JoinPaced ==
  ASSUME TypeOK, Paced, NoneLeft \/ (\E s \in Servers : Join(s)) \/ UNCHANGED vars
  PROVE  Paced'
<1>1. /\ now' = now /\ stalled' = stalled /\ order' = order /\ deadline' = deadline
      /\ set' \subseteq set /\ set \subseteq Servers
  BY Zenon DEF NoneLeft, Join, vars, TypeOK
<1>2. \A s \in Servers : /\ task'[s] = "unasked" <=> task[s] = "unasked"
                         /\ s \in set' => task'[s] = task[s]
  <2>1. \A s \in set : task[s] # "unasked"
    BY Zenon DEF Paced, Punctual
  <2> QED BY <2>1, Zenon DEF NoneLeft, Join, vars
<1> USE <1>1
<1>3. Ordered' /\ FullChunks' /\ Limit' = Limit
  BY <1>2, SameChunks, Zenon
<1>4. Spent' = Spent /\ Budget' = Budget
  BY Zenon DEF Spent, Budget
<1>5. ASSUME NEW s \in set' PROVE Punctual(s)'
  <2>1. Punctual(s) /\ task'[s] = task[s]
    BY <1>2, Zenon DEF Paced
  <2> QED BY <1>3, <1>4, <2>1, Zenon DEF Punctual
<1> QED BY <1>3, <1>4, <1>5, Zenon DEF Paced

\* A task that goes on, or ends, stays within the time of its chunk.
LEMMA SocketPaced ==
  ASSUME TypeOK, Paced, Limit \in Int, NEW s \in Servers, NEW r \in Replies,
         Send(s) \/ Connect(s) \/ Timeout(s) \/ Receive(s, r) \/ Read(s, r) \/ Exchange(s, r)
  PROVE  Paced'
<1>1. /\ task[s] \in Waits \cup {"spawned"}
      /\ now' = now /\ stalled' = stalled /\ order' = order /\ set' = set
  BY Zenon DEF Send, Connect, Timeout, Receive, Read, Exchange, Waits, Timed
<1>2. \/ \E q \in Replies \cup {"failed"} : End(s, q)
      \/ task[s] = "spawned" /\ Await(s, "udp", now + QueryTimeout)
      \/ task[s] = "udp" /\ Await(s, "connecting", now + TcpTimeout)
      \/ task[s] = "connecting" /\ Await(s, "reading", 0)
      \/ task[s] \in {"udp", "reading"} /\ Await(s, "exchange", now + TcpTimeout)
  BY Zenon DEF Send, Connect, Timeout, Receive, Read, Exchange, Accept
<1>3. /\ \A u \in Servers : u # s => task'[u] = task[u] /\ deadline'[u] = deadline[u]
      /\ task'[s] \in Waits \cup {"ended"}
  BY <1>2, Zenon DEF End, Await, TypeOK, Waits
<1>4. \A u \in Servers : task'[u] = "unasked" <=> task[u] = "unasked"
  BY <1>1, <1>3, Zenon DEF Waits
<1>5. Ordered' /\ FullChunks' /\ Limit' = Limit
  BY <1>1, <1>4, SameChunks, Zenon
<1>6. /\ Spent \in Int /\ Limit \in Int /\ Budget \in Nat /\ Spent <= Limit /\ Spent' = Spent
      /\ now \in Nat /\ stalled \in Nat /\ deadline[s] \in Nat /\ Spent = now - stalled
      /\ TcpTimeout \in Nat /\ QueryTimeout \in Nat /\ Budget = QueryTimeout + 2 * TcpTimeout
  BY <1>1, BoundsAssumption DEF TypeOK, Paced, Spent, Budget
<1>7. ASSUME s \in set PROVE Punctual(s)'
  <2>1. Punctual(s)
    BY <1>7, Zenon DEF Paced
  <2>2. CASE task'[s] = "ended"
    BY <2>2, Zenon DEF Punctual
  <2>3. CASE task[s] = "spawned" /\ Await(s, "udp", now + QueryTimeout)
    <3>1. task'[s] = "udp" /\ deadline'[s] = now + QueryTimeout /\ Spent <= Limit - Budget
      BY <2>1, <2>3, Zenon DEF Await, TypeOK, Punctual
    <3>2. now <= now + QueryTimeout /\ (now + QueryTimeout) - stalled <= Limit - 2 * TcpTimeout
      BY <1>6, <3>1
    <3>3. now' <= deadline'[s] /\ deadline'[s] - stalled' <= Limit' - 2 * TcpTimeout
      BY <1>1, <1>5, <3>1, <3>2, Zenon
    <3> QED BY <3>1, <3>3, Zenon DEF Punctual
  <2>4. CASE task[s] = "udp" /\ Await(s, "connecting", now + TcpTimeout)
    <3>1. /\ task'[s] = "connecting" /\ deadline'[s] = now + TcpTimeout
          /\ now <= deadline[s] /\ deadline[s] - stalled <= Limit - 2 * TcpTimeout
      BY <2>1, <2>4, Zenon DEF Await, TypeOK, Punctual
    <3>2. now <= now + TcpTimeout /\ (now + TcpTimeout) - stalled <= Limit - TcpTimeout
      BY <1>6, <3>1
    <3>3. now' <= deadline'[s] /\ deadline'[s] - stalled' <= Limit' - TcpTimeout
      BY <1>1, <1>5, <3>1, <3>2, Zenon
    <3> QED BY <3>1, <3>3, Zenon DEF Punctual
  <2>5. CASE task[s] = "connecting" /\ Await(s, "reading", 0)
    <3>1. /\ task'[s] = "reading"
          /\ now <= deadline[s] /\ deadline[s] - stalled <= Limit - TcpTimeout
      BY <2>1, <2>5, Zenon DEF Await, TypeOK, Punctual
    <3>2. Spent' <= Limit - TcpTimeout
      BY <1>6, <3>1
    <3>3. Spent' <= Limit' - TcpTimeout
      BY <1>5, <3>2, Zenon
    <3> QED BY <3>1, <3>3, Zenon DEF Punctual
  <2>6. CASE task[s] \in {"udp", "reading"} /\ Await(s, "exchange", now + TcpTimeout)
    <3>1. task'[s] = "exchange" /\ deadline'[s] = now + TcpTimeout
      BY <2>6, Zenon DEF Await, TypeOK
    <3>2. Spent <= Limit - TcpTimeout
      BY <1>6, <2>1, <2>6 DEF Punctual
    <3>3. now <= now + TcpTimeout /\ (now + TcpTimeout) - stalled <= Limit
      BY <1>6, <3>2
    <3>4. now' <= deadline'[s] /\ deadline'[s] - stalled' <= Limit'
      BY <1>1, <1>5, <3>1, <3>3, Zenon
    <3> QED BY <3>1, <3>4, Zenon DEF Punctual
  <2> QED BY <1>2, <2>2, <2>3, <2>4, <2>5, <2>6, Zenon DEF End, TypeOK
<1>8. ASSUME NEW u \in set, u # s PROVE Punctual(u)'
  <2>1. u \in Servers /\ Punctual(u) /\ task'[u] = task[u] /\ deadline'[u] = deadline[u]
    BY <1>3, <1>8, Zenon DEF TypeOK, Paced
  <2> QED BY <1>1, <1>5, <1>6, <2>1, Zenon DEF Punctual, Budget
<1> QED BY <1>1, <1>5, <1>6, <1>7, <1>8, Zenon DEF Paced

\* Time passes while some timer runs that is within the limit, or counts as
\* spent reading.
LEMMA TickPaced ==
  ASSUME TypeOK, Paced, Limit \in Int, Tick
  PROVE  Paced'
<1>1. order' = order /\ set' = set /\ task' = task /\ deadline' = deadline /\ now' = now + 1
  BY Zenon DEF Tick
<1>2. Ordered' /\ FullChunks' /\ Limit' = Limit
  BY <1>1, SameChunks, Zenon
<1>3. /\ Limit \in Int /\ now \in Nat /\ stalled \in Nat /\ Spent = now - stalled
      /\ TcpTimeout \in Nat /\ Spent <= Limit /\ Spent' = now' - stalled'
      /\ set # {} /\ set \subseteq Servers /\ Budget' = Budget /\ Budget \in Nat
  BY BoundsAssumption DEF TypeOK, Paced, Spent, Tick, Quiescent, Budget
<1>4. \A s \in set : Punctual(s) /\ task[s] \in Waits /\ (task[s] \in Timed => now < deadline[s])
  BY Zenon DEF Paced, Tick, Quiescent
<1>5. \A s \in set : deadline[s] \in Nat
  BY <1>3, Zenon DEF TypeOK
<1>6. CASE Reading # {}
  <2>1. stalled' = stalled + 1 /\ Spent' = Spent
    BY <1>1, <1>3, <1>6 DEF Tick
  <2>2. \A s \in set : Punctual(s)'
    BY <1>1, <1>2, <1>3, <1>4, <1>5, <2>1 DEF Punctual, Timed, Waits
  <2> QED BY <1>1, <1>2, <1>3, <2>1, <2>2, Zenon DEF Paced
<1>7. CASE Reading = {}
  <2>1. stalled' = stalled /\ Spent' = Spent + 1
    BY <1>1, <1>3, <1>7 DEF Tick
  <2>2. \A s \in set : task[s] \in Timed
    BY <1>4, <1>7, Zenon DEF Reading, Timed
  <2>3. \A s \in set : Punctual(s)'
    BY <1>1, <1>2, <1>4, <1>5, <1>3, <2>1, <2>2 DEF Punctual, Timed, Waits
  <2>4. Spent' <= Limit'
    <3>1. PICK s \in set : TRUE
      BY <1>3, Zenon
    <3>2. now < deadline[s] /\ deadline[s] - stalled <= Limit
      BY <1>3, <1>4, <1>5, <2>2 DEF Punctual, Timed, Waits
    <3> QED BY <1>2, <1>3, <1>5, <2>1, <3>2
  <2> QED BY <1>1, <1>2, <2>3, <2>4, Zenon DEF Paced
<1> QED BY <1>6, <1>7, Zenon

(***************************************************************************)
(* RootZone: the root zone in the delegation cache and on disk, for any    *)
(* published zones, any bounds and any resolutions that learn and purge    *)
(* meanwhile.                                                              *)
(***************************************************************************)
(***************************************************************************)
(* The inductive invariant follows an install through its phases: until    *)
(* retain is done the entries are those of the status, all of them still   *)
(* to be dropped once it has begun; from then on they are those of the     *)
(* data in hand, of which all but todo are in.                             *)
(***************************************************************************)
Between == {"down", "first", "idle", "refresh"}
Retaining == {"retain", "load_retain"}
Inserting == {"insert", "load_insert"}
Writing == {"cut", "json", "status"}

OfStatus(z) == FromRootZone(z) => tld_cache[z].serial = status.serial /\ z \in status.tlds
OfData(z) == FromRootZone(z) => tld_cache[z].serial = data.serial /\ z \in data.delegations
Present(z) == tld_cache[z] # NoDelegation \/ z \in purged

Phases ==
  /\ phase \in Between \cup Retaining => \A z \in Tlds : OfStatus(z)
  /\ phase \in Retaining => \A z \in Tlds : FromRootZone(z) => z \in todo
  /\ phase \in Inserting \cup Writing => \A z \in Tlds : OfData(z)
  /\ phase \in Inserting =>
       todo \subseteq data.delegations /\ \A z \in data.delegations \ todo : Present(z)
  /\ phase \in Writing => \A z \in data.delegations : Present(z)
  /\ phase \in {"down", "first"} => status.tlds = {}

Downloaded ==
  phase \in {"retain", "insert"} \cup Writing =>
    /\ data.serial \in Serials
    /\ data.delegations = parse_root_zone(Published[data.serial])
    /\ Cardinality(data.delegations) >= MinDelegations

RootInv == RootTypeOK /\ Phases /\ Downloaded /\ InstallComplete /\ JsonWhole

\* The delegations of a zone file, or of its beginning, are top-level domains.
LEMMA ParseTyped ==
  ASSUME NEW n \in Serials, NEW i \in 0..Len(Published[n])
  PROVE  /\ parse_root_zone(Published[n]) \subseteq Tlds
         /\ parse_root_zone(SubSeq(Published[n], 1, i)) \subseteq Tlds
<1> DEFINE L == [rtype : {"NS"}, owner : Tlds, ns : STRING] \cup [rtype : {"A"}, owner : STRING]
<1>1. Published[n] \in Seq(L)
  BY PublishedAssumption DEF Serials
<1>2. SubSeq(Published[n], 1, i) \in Seq(L)
  BY <1>1
<1>3. ASSUME NEW lines \in Seq(L) PROVE parse_root_zone(lines) \subseteq Tlds
  <2>1. \A k \in Range(lines) : k \in L
    BY <1>3 DEF Range
  <2>2. \A k \in Range(lines) : k.rtype = "NS" => k.owner \in Tlds
    BY <2>1, Zenon
  <2> QED
    BY <2>2, Zenon DEF parse_root_zone
<1> QED
  BY <1>1, <1>2, <1>3, ZenonT(60)

\* What a start may load is data.
LEMMA LocalTyped ==
  ASSUME RootTypeOK
  PROVE  try_load_json \cup try_load_text \subseteq RootZoneData
<1>1. try_load_json \subseteq RootZoneData
  BY Zenon DEF try_load_json, RootTypeOK
<1>2. ASSUME text # NoFile
      PROVE  [serial |-> text.serial, delegations |-> parse_root_zone(text.lines),
              loaded_at |-> today] \in RootZoneData
  <2>1. PICK i \in 0..Len(Published[text.serial]) :
           text.lines = SubSeq(Published[text.serial], 1, i)
    BY <1>2, Zenon DEF RootTypeOK
  <2>2. text.serial \in Serials /\ today \in 0..MaxDays
    BY <1>2, Zenon DEF RootTypeOK
  <2>3. parse_root_zone(text.lines) \subseteq Tlds
    BY <2>1, <2>2, ParseTyped, Zenon
  <2> QED
    BY <2>2, <2>3, Zenon DEF RootZoneData
<1> QED
  BY <1>1, <1>2, Zenon DEF try_load_text

\* Every step of the loader, its files and the resolutions keeps the types.
LEMMA TypeKept == RootTypeOK /\ Downloaded /\ [RootNext]_rootVars => RootTypeOK'
<1> SUFFICES ASSUME RootTypeOK, Downloaded, [RootNext]_rootVars PROVE RootTypeOK'
  BY Zenon
<1> USE RootBoundsAssumption
<1>1. CASE Start
  <2>1. data' \in RootZoneData
    BY <1>1, LocalTyped, Zenon DEF Start, RootTypeOK
  <2> QED
    BY <1>1, <2>1 DEF Start, RootTypeOK
<1>2. CASE Loaded
  <2>1. status' \in [state : States, serial : {0} \cup Serials, tlds : SUBSET Tlds,
                     failures : 0..MaxRefreshFailures]
    BY <1>2, Zenon DEF Loaded, RootTypeOK, classify_age, States, RootZoneData
  <2> QED
    BY <1>2, <2>1 DEF Loaded, RootTypeOK, NoData, RootZoneData
<1>3. CASE Refresh
  BY <1>3 DEF Refresh, RootTypeOK
<1>4. CASE DownloadFails
  <2>1. status' \in [state : States, serial : {0} \cup Serials, tlds : SUBSET Tlds,
                     failures : 0..MaxRefreshFailures]
    BY <1>4, SMTT(60), Zenon DEF DownloadFails, RootTypeOK, MinOf
  <2> QED
    BY <1>4, <2>1, ZenonT(60) DEF DownloadFails, RootTypeOK
<1>5. ASSUME NEW n \in Serials, Download(n) PROVE RootTypeOK'
  <2>1. 0 \in 0..Len(Published[n])
    BY PublishedAssumption DEF Serials
  <2>2. data' \in RootZoneData
    BY <1>5, <2>1, ParseTyped, Zenon DEF Download, RootTypeOK, RootZoneData
  <2> QED
    BY <1>5, <2>2, Zenon DEF Download, RootTypeOK
<1>6. ASSUME NEW z \in Tlds, Retain(z) PROVE RootTypeOK'
  <2> USE <1>6
  <2>1. /\ tld_cache' \in [Tlds -> DelegationEntry \cup {NoDelegation}]
        /\ todo' \in SUBSET Tlds
    BY Zenon DEF Retain, RootTypeOK, RootZoneData
  <2>2. phase' \in {phase, "insert", "load_insert"}
    BY Zenon DEF Retain
  <2>3. UNCHANGED <<today, status, data, due, text, json, purged, crashes>>
    BY Zenon DEF Retain
  <2> QED
    BY <2>1, <2>2, <2>3, Zenon DEF RootTypeOK
<1>7. ASSUME NEW z \in Tlds, Insert(z) PROVE RootTypeOK'
  BY <1>7, Zenon DEF Insert, Installing, RootTypeOK, RootZoneData, DelegationEntry
<1>8. ASSUME NEW z \in Tlds, Learn(z) \/ Purge(z) PROVE RootTypeOK'
  <2>1. tld_cache' \in [Tlds -> DelegationEntry \cup {NoDelegation}] /\ purged' \in SUBSET Tlds
    BY <1>8 DEF Learn, Purge, RootTypeOK, DelegationEntry
  <2>2. UNCHANGED <<today, status, phase, data, todo, due, text, json, crashes>>
    BY <1>8, Zenon DEF Learn, Purge
  <2> QED
    BY <2>1, <2>2, Zenon DEF RootTypeOK
<1>9. CASE CutText
  <2> USE <1>9
  <2>1. PICK i \in 0..Len(Published[data.serial]) :
          text' = [serial |-> data.serial, lines |-> SubSeq(Published[data.serial], 1, i)]
    BY Zenon DEF CutText
  <2>2. data.serial \in Serials
    BY Zenon DEF CutText, Downloaded
  <2>3. text'.serial = data.serial /\ text'.lines = SubSeq(Published[data.serial], 1, i)
    BY <2>1, Zenon
  <2> QED
    BY <2>2, <2>3, Zenon DEF CutText, RootTypeOK
<1>10. CASE WriteText
  <2> USE <1>10
  <2>1. CASE UNCHANGED text
    BY <2>1, Zenon DEF WriteText, RootTypeOK
  <2>2. CASE text' = [serial |-> data.serial, lines |-> Published[data.serial]]
    <3>1. data.serial \in Serials
      BY Zenon DEF WriteText, Downloaded, Writing
    <3>2. /\ text'.serial = data.serial /\ text'.lines = Published[data.serial]
      BY <2>2, Zenon
    <3>3. /\ Len(Published[data.serial]) \in 0..Len(Published[data.serial])
          /\ Published[data.serial] =
               SubSeq(Published[data.serial], 1, Len(Published[data.serial]))
      <4>1. Published[data.serial] \in Seq(
              [rtype : {"NS"}, owner : Tlds, ns : STRING] \cup [rtype : {"A"}, owner : STRING])
        BY <3>1, PublishedAssumption DEF Serials
      <4> QED
        BY <4>1
    <3> QED
      BY <3>1, <3>2, <3>3, ZenonT(60) DEF WriteText, RootTypeOK
  <2> QED
    BY <2>1, <2>2, Zenon DEF WriteText
<1>11. CASE SaveJson
  BY <1>11, Zenon DEF SaveJson, RootTypeOK
<1>12. CASE SetStatus
  BY <1>12 DEF SetStatus, RootTypeOK, NoData, RootZoneData, States
<1>13. CASE Crash
  BY <1>13 DEF Crash, RootTypeOK, NoData, NoStatus, RootZoneData, States
<1>14. CASE NextDay
  BY <1>14 DEF NextDay, RootTypeOK
<1>15. CASE UNCHANGED rootVars
  BY <1>15, Zenon DEF rootVars, RootTypeOK
<1> QED
  BY <1>1, <1>2, <1>3, <1>4, <1>5, <1>6, <1>7, <1>8, <1>9, <1>10, <1>11, <1>12, <1>13,
     <1>14, <1>15, ZenonT(60) DEF RootNext

\* The entries, the status and the data in hand, from phase to phase.
LEMMA PhasesKept == RootTypeOK /\ Phases /\ InstallComplete /\ [RootNext]_rootVars => Phases' /\ InstallComplete'
<1> SUFFICES ASSUME RootTypeOK, Phases, InstallComplete, [RootNext]_rootVars
             PROVE  Phases' /\ InstallComplete'
  BY Zenon
<1> USE NoDelegationAssumption
    DEF Phases, InstallComplete, Between, Retaining, Inserting, Writing, OfStatus, OfData,
        Present, FromRootZone
<1>1. CASE Start
  BY <1>1, Zenon DEF Start
<1>2. CASE Loaded
  BY <1>2, Zenon DEF Loaded
<1>3. CASE Refresh
  BY <1>3, Zenon DEF Refresh
<1>4. CASE DownloadFails
  BY <1>4, Zenon DEF DownloadFails, RootTypeOK
<1>5. ASSUME NEW n \in Serials, Download(n) PROVE Phases' /\ InstallComplete'
  BY <1>5, Zenon DEF Download
<1>6. ASSUME NEW z \in Tlds, Retain(z) PROVE Phases' /\ InstallComplete'
  <2> USE <1>6
  <2>1. CASE todo # {z} /\ todo' = todo \ {z} /\ phase' = phase
    BY <2>1, Zenon DEF Retain, Installing, RootTypeOK
  <2>2. CASE todo = {z} /\ todo' = data.delegations
    BY <2>2, Zenon DEF Retain, Installing, RootTypeOK
  <2> QED
    BY <2>1, <2>2, SMTT(60), Zenon DEF Retain
<1>7. ASSUME NEW z \in Tlds, Insert(z) PROVE Phases' /\ InstallComplete'
  <2>1. /\ phase \in Inserting /\ phase' = phase /\ z \in data.delegations
        /\ UNCHANGED <<data, status>>
        /\ tld_cache'[z] = [source |-> "RootZone", serial |-> data.serial]
        /\ \A y \in Tlds \ {z} : tld_cache'[y] = tld_cache[y]
        /\ todo' = todo \ {z} /\ purged' = purged \ {z}
    BY <1>7, Zenon DEF Insert, Installing, RootTypeOK
  <2> USE <2>1
  <2>2. tld_cache'[z] \in DelegationEntry /\ data.delegations \subseteq Tlds
    BY SMTT(60) DEF DelegationEntry, RootTypeOK, RootZoneData
  <2>3. tld_cache'[z] # NoDelegation /\ tld_cache'[z].serial = data.serial
    BY <2>2, SMTT(60), Zenon
  <2> QED
    BY <2>2, <2>3, Zenon
<1>8. ASSUME NEW z \in Tlds, Learn(z) PROVE Phases' /\ InstallComplete'
  <2>1. /\ UNCHANGED <<phase, todo, data, status>> /\ purged' = purged \ {z}
        /\ tld_cache'[z] = [source |-> "Dynamic", serial |-> 0]
        /\ \A y \in Tlds \ {z} : tld_cache'[y] = tld_cache[y]
    BY <1>8, Zenon DEF Learn, RootTypeOK
  <2>2. tld_cache'[z] # NoDelegation /\ tld_cache'[z].source # "RootZone"
    BY <2>1, SMTT(60), Zenon DEF DelegationEntry
  <2>3. data.delegations \subseteq Tlds /\ status.tlds \subseteq Tlds
    BY Zenon DEF RootTypeOK, RootZoneData
  <2> QED
    BY <2>1, <2>2, <2>3, Zenon
<1>9. ASSUME NEW z \in Tlds, Purge(z) PROVE Phases' /\ InstallComplete'
  <2>1. /\ UNCHANGED <<phase, todo, data, status>> /\ purged' = purged \cup {z}
        /\ tld_cache'[z] = NoDelegation /\ \A y \in Tlds \ {z} : tld_cache'[y] = tld_cache[y]
    BY <1>9, SMTT(60), Zenon DEF Purge, RootTypeOK
  <2>2. data.delegations \subseteq Tlds /\ status.tlds \subseteq Tlds
    BY Zenon DEF RootTypeOK, RootZoneData
  <2> QED
    BY <2>1, <2>2, Zenon
<1>10. CASE CutText
  BY <1>10 DEF CutText
<1>11. CASE WriteText \/ SaveJson
  BY <1>11, Zenon DEF WriteText, SaveJson
<1>12. CASE SetStatus
  BY <1>12, Zenon DEF SetStatus
<1>13. CASE Crash
  BY <1>13, Zenon DEF Crash, NoStatus
<1>14. CASE NextDay
  BY <1>14, Zenon DEF NextDay
<1>15. CASE UNCHANGED rootVars
  BY <1>15, SMTT(60), Zenon DEF rootVars
<1> QED
  BY <1>1, <1>2, <1>3, <1>4, <1>5, <1>6, <1>7, <1>8, <1>9, <1>10, <1>11, <1>12, <1>13,
     <1>14, <1>15, ZenonT(60) DEF RootNext

\* The data of a download is a whole zone, and so is the JSON file made of it.
LEMMA WholeKept == Downloaded /\ JsonWhole /\ [RootNext]_rootVars => Downloaded' /\ JsonWhole'
<1> SUFFICES ASSUME Downloaded, JsonWhole, [RootNext]_rootVars PROVE Downloaded' /\ JsonWhole'
  BY Zenon
<1> USE DEF Downloaded, JsonWhole, Writing
<1>1. CASE UNCHANGED <<phase, data, json>>
  BY <1>1, Zenon
<1>2. CASE UNCHANGED json /\ phase' \notin {"retain", "insert"} \cup Writing
  BY <1>2, Zenon
<1>3. ASSUME NEW n \in Serials, Download(n) PROVE Downloaded' /\ JsonWhole'
  BY <1>3, Zenon DEF Download, Acceptable
<1>4. ASSUME NEW z \in Tlds, Retain(z) PROVE Downloaded' /\ JsonWhole'
  BY <1>4, Zenon DEF Retain, Installing
<1>5. CASE CutText \/ WriteText
  BY <1>5, Zenon DEF CutText, WriteText
<1>6. CASE SaveJson
  BY <1>6, Zenon DEF SaveJson
<1>7. Start \/ Loaded \/ Refresh \/ DownloadFails \/ SetStatus \/ Crash =>
        UNCHANGED json /\ phase' \notin {"retain", "insert"} \cup Writing
  BY Zenon DEF Start, Loaded, Refresh, DownloadFails, SetStatus, Crash
<1>8. (\E z \in Tlds : Insert(z) \/ Learn(z) \/ Purge(z)) \/ NextDay \/ UNCHANGED rootVars =>
        UNCHANGED <<phase, data, json>>
  BY Zenon DEF Insert, Learn, Purge, NextDay, rootVars
<1> QED
  BY <1>1, <1>2, <1>3, <1>4, <1>5, <1>6, <1>7, <1>8, Zenon DEF RootNext

\* At the start there is nothing.
LEMMA InitRootInv == RootInit => RootInv
<1> SUFFICES ASSUME RootInit PROVE RootInv
  BY Zenon
<1>1. RootTypeOK
  BY RootBoundsAssumption, SMTT(60), Zenon DEF RootInit, RootTypeOK, NoStatus, NoData, RootZoneData, States
<1>2. Phases
  BY Zenon DEF RootInit, Phases, Between, Retaining, Inserting, Writing, OfStatus, FromRootZone, NoStatus
<1>3. Downloaded /\ InstallComplete /\ JsonWhole
  BY Zenon DEF RootInit, Downloaded, Writing, InstallComplete, JsonWhole
<1> QED
  BY <1>1, <1>2, <1>3, Zenon DEF RootInv

\* What the loader has done agrees with where it is, at every step of a refresh.
THEOREM RootInductive == RootSpec => []RootInv
<1>1. RootInv /\ [RootNext]_rootVars => RootInv'
  BY TypeKept, PhasesKept, WholeKept, Zenon DEF RootInv
<1> QED
  BY <1>1, InitRootInv, PTL DEF RootSpec

\* The manager, the cache and the files keep their types.
THEOREM RootTypeCorrect == RootSpec => []RootTypeOK
<1>1. RootInv => RootTypeOK
  BY Zenon DEF RootInv
<1> QED
  BY <1>1, RootInductive, PTL

\* install_to_cache never leaves two versions of the zone in the cache.
THEOREM OneVersionAtATime == RootSpec => []OneVersion
<1>1. RootInv => OneVersion
  <2> SUFFICES ASSUME RootInv PROVE OneVersion
    BY Zenon
  <2>1. phase \in Between \cup Retaining \/ phase \in Inserting \cup Writing
    BY Zenon DEF RootInv, RootTypeOK, Between, Retaining, Inserting, Writing
  <2> QED
    BY <2>1 DEF RootInv, Phases, OfStatus, OfData, OneVersion
<1> QED
  BY <1>1, RootInductive, PTL

\* Between installs the status is that of the entries in use.
THEOREM StatusIsTrue == RootSpec => []StatusMatchesCache
<1>1. RootInv => StatusMatchesCache
  BY Zenon DEF RootInv, Phases, StatusMatchesCache, OfStatus, Between
<1> QED
  BY <1>1, RootInductive, PTL

\* install_to_cache installs all the delegations it is given.
THEOREM InstallsAreComplete == RootSpec => []InstallComplete
<1>1. RootInv => InstallComplete
  BY Zenon DEF RootInv
<1> QED
  BY <1>1, RootInductive, PTL

\* save_json only ever leaves a whole zone of the required size.
THEOREM JsonIsWhole == RootSpec => []JsonWhole
<1>1. RootInv => JsonWhole
  BY Zenon DEF RootInv
<1> QED
  BY <1>1, RootInductive, PTL

(***************************************************************************)
(* Upstream: the sizes of finite sets. The facts of FiniteSetTheorems      *)
(* about IsFiniteSet and Cardinality, for the operators of the models.     *)
(***************************************************************************)
F == INSTANCE FiniteSetTheorems

LEMMA FiniteSame ==
  \A S : F!IsFiniteSet(S) <=> IsFiniteSet(S)
BY Zenon DEF F!IsFiniteSet, IsFiniteSet

LEMMA SizeSame ==
  \A S : F!Cardinality(S) = Cardinality(S)
BY Zenon DEF F!Cardinality, Cardinality

LEMMA SizeIsNumber ==
  ASSUME NEW S, IsFiniteSet(S)
  PROVE  Cardinality(S) \in Nat
BY FiniteSame, SizeSame, F!FS_CardinalityType, Zenon

LEMMA SizeOfEmpty ==
  /\ IsFiniteSet({}) /\ Cardinality({}) = 0
  /\ \A S : IsFiniteSet(S) => (Cardinality(S) = 0 <=> S = {})
BY FiniteSame, SizeSame, F!FS_EmptySet, Zenon

LEMMA SizeOfSubset ==
  ASSUME NEW S, IsFiniteSet(S), NEW T \in SUBSET S
  PROVE  /\ IsFiniteSet(T)
         /\ Cardinality(T) <= Cardinality(S)
         /\ Cardinality(S) = Cardinality(T) => S = T
BY FiniteSame, SizeSame, F!FS_Subset, Zenon

LEMMA SizeOfUnion ==
  ASSUME NEW S, IsFiniteSet(S), NEW T, IsFiniteSet(T)
  PROVE  /\ IsFiniteSet(S \cup T)
         /\ Cardinality(S \cup T) = Cardinality(S) + Cardinality(T) - Cardinality(S \cap T)
BY FiniteSame, SizeSame, F!FS_Union, Zenon

LEMMA SizeOfInterval ==
  ASSUME NEW a \in Int, NEW b \in Int
  PROVE  /\ IsFiniteSet(a..b)
         /\ Cardinality(a..b) = IF a > b THEN 0 ELSE b - a + 1
BY FiniteSame, SizeSame, F!FS_Interval, Zenon

LEMMA SizeOfBijection ==
  ASSUME NEW S, IsFiniteSet(S), NEW T, NEW f \in [S -> T],
         \A s, u \in S : f[s] = f[u] => s = u,
         \A t \in T : \E s \in S : f[s] = t
  PROVE  IsFiniteSet(T) /\ Cardinality(T) = Cardinality(S)
BY FiniteSame, SizeSame, F!FS_Bijection
   DEF F!ExistsBijection, F!Bijection, F!Injection, F!IsInjective, F!Surjection

(***************************************************************************)
(* Upstream: the order of the servers                                      *)
(***************************************************************************)
\* A shuffled family holds each of its servers, once.
LEMMA Shuffled ==
  ASSUME NEW S, IsFiniteSet(S), NEW a \in Shuffles(S)
  PROVE  /\ a \in Seq(S)
         /\ \A s \in S : \E i \in 1..Len(a) : a[i] = s
         /\ \A i, j \in 1..Len(a) : i # j => a[i] # a[j]
<1> DEFINE n == Cardinality(S)
<1>1. n \in Nat
  BY SizeIsNumber, Zenon
<1>2. /\ a \in [1..n -> S]
      /\ \A s \in S : \E i \in 1..n : a[i] = s
      /\ \A i, j \in 1..n : i # j => a[i] # a[j]
  BY Zenon DEF Shuffles, Bijection, Injection, Surjection, IsInjective
<1>3. a \in Seq(S) /\ Len(a) = n
  BY <1>1, <1>2
<1> QED BY <1>2, <1>3, Zenon

(***************************************************************************)
(* Upstream: the invariant is inductive                                    *)
(***************************************************************************)
\* Before the first chunk every server is in the order.
LEMMA InitQueued ==
  ASSUME Init
  PROVE  order \in Seq(Servers) /\ \A s \in Servers : Queued(s)
<1>1. PICK a \in Shuffles(V4), b \in Shuffles(V6) : order = a \o b
  BY Zenon DEF Init
<1>2. IsFiniteSet(V4) /\ IsFiniteSet(V6)
  <2>1. V4 \in SUBSET Servers /\ V6 \in SUBSET Servers
    BY Zenon DEF Servers
  <2> QED BY <2>1, ServersAssumption, SizeOfSubset, Zenon
<1>3. /\ a \in Seq(V4) /\ \A s \in V4 : \E i \in 1..Len(a) : a[i] = s
      /\ b \in Seq(V6) /\ \A s \in V6 : \E i \in 1..Len(b) : b[i] = s
  BY <1>1, <1>2, Shuffled, SMTT(60), Zenon
<1>4. a \in Seq(Servers) /\ b \in Seq(Servers)
  BY <1>3 DEF Servers
<1>5. /\ order \in Seq(Servers) /\ Len(order) = Len(a) + Len(b)
      /\ \A i \in 1..(Len(a) + Len(b)) :
           order[i] = IF i <= Len(a) THEN a[i] ELSE b[i - Len(a)]
  BY <1>1, <1>4, SMTT(60), Zenon
<1>6. Len(a) \in Nat /\ Len(b) \in Nat
  BY <1>4
<1>7. ASSUME NEW s \in Servers PROVE Queued(s)
  <2>1. CASE s \in V4
    <3>1. PICK i \in 1..Len(a) : a[i] = s
      BY <1>3, <2>1, Zenon
    <3>2. i \in 1..Len(order) /\ order[i] = s
      BY <1>5, <1>6, <3>1, SMTT(60), Zenon
    <3> QED BY <3>2, Zenon DEF Queued
  <2>2. CASE s \in V6
    <3>1. PICK i \in 1..Len(b) : b[i] = s
      BY <1>3, <2>2, Zenon
    <3>2. /\ Len(a) + i \in 1..(Len(a) + Len(b)) /\ ~(Len(a) + i <= Len(a))
          /\ (Len(a) + i) - Len(a) = i
      BY <1>6
    <3>3. order[Len(a) + i] = s
      BY <1>5, <3>1, <3>2, SMTT(60), Zenon
    <3> QED BY <1>5, <3>2, <3>3, SMTT(60), Zenon DEF Queued
  <2> QED BY <2>1, <2>2, Zenon DEF Servers
<1> QED BY <1>5, <1>7, Zenon

\* Then every server is accounted for.
LEMMA InitInvariant == Init => IInv
<1> SUFFICES ASSUME Init PROVE IInv
  BY Zenon
<1>1. order \in Seq(Servers) /\ \A s \in Servers : Queued(s)
  BY InitQueued, Zenon
<1>2. TypeOK
  BY <1>1, BoundsAssumption DEF Init, TypeOK
<1>3. Accounted
  BY <1>1, Results, Zenon DEF Init, Accounted
<1> QED BY <1>2, <1>3, Zenon DEF IInv

(***************************************************************************)
(* Upstream: theorems                                                      *)
(***************************************************************************)
\* Every server of the call stays accounted for.
THEOREM InductiveInvariant == Spec => []IInv
<1>1. IInv /\ [Next]_vars => IInv'
  <2> SUFFICES ASSUME IInv, [Next]_vars PROVE IInv'
    BY Zenon
  <2>1. ASSUME NEW s \in Servers, Send(s) \/ Connect(s) \/ Timeout(s) PROVE IInv'
    <3>1. "usable" \in Replies
      BY Zenon DEF Replies
    <3> QED BY <2>1, <3>1, SocketKeeps, SMTT(60), Zenon
  <2>2. ASSUME NEW s \in Servers, NEW r \in Replies,
               Receive(s, r) \/ Read(s, r) \/ Exchange(s, r)
        PROVE  IInv'
    BY <2>2, SocketKeeps, SMTT(60), Zenon
  <2>3. CASE UNCHANGED vars
    BY <2>3, Zenon DEF IInv, TypeOK, Accounted, Queued, Joined, vars
  <2> QED BY <2>1, <2>2, <2>3, ChunkKeeps, NoneLeftKeeps, TickKeeps, JoinKeeps, ZenonT(60) DEF Next
<1> QED BY <1>1, InitInvariant, PTL DEF Spec

\* The variables of a call of query_servers_with_fallback have their types.
THEOREM TypeCorrect == Spec => []TypeOK
<1>1. IInv => TypeOK
  BY Zenon DEF IInv
<1> QED BY <1>1, InductiveInvariant, PTL

\* For every set of servers and every chunk size: the call gives up only when
\* no server has a usable answer, and otherwise returns one of theirs.
THEOREM AnswersAreNotLost == Spec => []NoAnswerLost
<1>1. IInv => NoAnswerLost
  <2> SUFFICES ASSUME IInv PROVE NoAnswerLost
    BY Zenon
  <2>1. Accounted
    BY Zenon DEF IInv
  <2>2. ASSUME result = "None", NEW s \in Servers
        PROVE  task[s] = "ended" /\ got[s] \notin {"usable", "truncated"}
    <3>1. order = <<>> /\ set = {} /\ (Queued(s) \/ s \in set \/ Joined(s))
      BY <2>1, <2>2, Results, SMTT(60), Zenon DEF Accounted
    <3>2. ~Queued(s)
      BY <3>1 DEF Queued
    <3> QED BY <3>1, <3>2, SMTT(60), Zenon DEF Joined, Good
  <2>3. result \in Replies => result \in Good /\ \E s \in Asked : got[s] = result
    BY <2>1, Zenon DEF Accounted, Asked
  <2> QED BY <2>2, <2>3, Zenon DEF NoAnswerLost, Good
<1> QED BY <1>1, InductiveInvariant, PTL

\* The limit is a number, and the number of servers asked is one.
LEMMA LimitIsNumber ==
  /\ IsFiniteSet(Asked) /\ Cardinality(Asked) \in Nat
  /\ Budget \in Nat /\ Limit \in Int
<1>1. Asked \subseteq Servers
  BY Zenon DEF Asked
<1>2. IsFiniteSet(Asked)
  BY <1>1, ServersAssumption, SizeOfSubset, Zenon
<1>3. Cardinality(Asked) \in Nat
  BY <1>2, SizeIsNumber, Zenon
<1>4. ChunksStarted \in Int
  BY <1>3, BoundsAssumption DEF ChunksStarted
<1>5. Budget \in Nat
  BY BoundsAssumption DEF Budget
<1> QED
  BY <1>2, <1>3, <1>4, <1>5 DEF Limit

\* The first n servers of an order without repetitions are n, and none of
\* them is left in the rest.
LEMMA FirstOnes ==
  ASSUME NEW q \in Seq(Servers), NEW n \in 0..Len(q),
         \A i, j \in 1..Len(q) : i # j => q[i] # q[j]
  PROVE  LET chunk == {q[i] : i \in 1..n}
             rest == SubSeq(q, n + 1, Len(q))
         IN  /\ IsFiniteSet(chunk) /\ Cardinality(chunk) = n
             /\ \A i, j \in 1..Len(rest) : i # j => rest[i] # rest[j]
             /\ \A i \in 1..Len(rest) : rest[i] \notin chunk /\ \E j \in 1..Len(q) : q[j] = rest[i]
             /\ Len(rest) = Len(q) - n
<1> DEFINE chunk == {q[i] : i \in 1..n}
           rest == SubSeq(q, n + 1, Len(q))
           f == [i \in 1..n |-> q[i]]
<1>1. Len(q) \in Nat /\ n \in Nat /\ n <= Len(q) /\ \A i \in 1..Len(q) : q[i] \in Servers
  OBVIOUS
<1>2. \A i \in 1..n : i \in 1..Len(q)
  BY <1>1
<1>3. /\ f \in [1..n -> chunk] /\ \A s \in chunk : \E i \in 1..n : f[i] = s
      /\ \A i, j \in 1..n : f[i] = f[j] => i = j
  BY <1>2, Zenon
<1> HIDE DEF f
<1>4. IsFiniteSet(1..n) /\ Cardinality(1..n) = n
  BY <1>1, SizeOfInterval
<1>5. IsFiniteSet(chunk) /\ Cardinality(chunk) = n
  <2> HIDE DEF chunk
  <2> QED BY <1>3, <1>4, SizeOfBijection, Zenon
<1>6. /\ Len(rest) = IF n + 1 <= Len(q) THEN Len(q) - (n + 1) + 1 ELSE 0
      /\ \A i \in 1..(Len(q) - (n + 1) + 1) : rest[i] = q[n + 1 + i - 1]
  <2>1. \A i \in (n + 1)..Len(q) : q[i] \in Servers
    BY <1>1
  <2> QED
    BY <1>1, <2>1
<1> HIDE DEF rest
<1>7. Len(rest) = Len(q) - n
  BY <1>1, <1>6
<1>8. ASSUME NEW i \in 1..Len(rest) PROVE n + i \in 1..Len(q) /\ rest[i] = q[n + i]
  <2>1. n + i \in 1..Len(q) /\ i \in 1..(Len(q) - (n + 1) + 1) /\ n + 1 + i - 1 = n + i
    BY <1>1, <1>7
  <2> QED
    BY <1>6, <2>1, Zenon
<1>9. \A i, j \in 1..Len(rest) : i # j => rest[i] # rest[j]
  <2> SUFFICES ASSUME NEW i \in 1..Len(rest), NEW j \in 1..Len(rest), i # j
               PROVE  rest[i] # rest[j]
    BY Zenon
  <2>1. n + i # n + j
    BY <1>1
  <2> QED
    BY <1>8, <2>1, Zenon
<1>10. ASSUME NEW i \in 1..Len(rest)
       PROVE  rest[i] \notin chunk /\ \E j \in 1..Len(q) : q[j] = rest[i]
  <2>1. \A j \in 1..n : j # n + i
    BY <1>1
  <2> QED
    BY <1>2, <1>8, <2>1, Zenon
<1> QED
  BY <1>5, <1>7, <1>9, <1>10, Zenon DEF rest

\* Before the first chunk no server was asked, and no time has passed.
LEMMA InitPaced == Init => Paced
<1> SUFFICES ASSUME Init PROVE Paced
  BY Zenon
<1>1. PICK a \in Shuffles(V4), b \in Shuffles(V6) : order = a \o b
  BY Zenon DEF Init
<1>2. V4 \subseteq Servers /\ V6 \subseteq Servers
  BY Zenon DEF Servers
<1>3. IsFiniteSet(V4) /\ IsFiniteSet(V6)
  BY <1>2, ServersAssumption, SizeOfSubset, Zenon
<1>4. a \in Seq(V4) /\ \A i, j \in 1..Len(a) : i # j => a[i] # a[j]
  BY <1>1, <1>3, Shuffled, Zenon
<1>5. b \in Seq(V6) /\ \A i, j \in 1..Len(b) : i # j => b[i] # b[j]
  BY <1>1, <1>3, Shuffled, Zenon
<1>6. /\ Len(a) \in Nat /\ Len(b) \in Nat
      /\ \A i \in 1..Len(a) : a[i] \in V4
      /\ \A i \in 1..Len(b) : b[i] \in V6
  BY <1>4, <1>5
<1>7. a \in Seq(Servers) /\ b \in Seq(Servers)
  BY <1>2, <1>4, <1>5
<1>8. /\ Len(order) = Len(a) + Len(b)
      /\ \A i \in 1..(Len(a) + Len(b)) :
           order[i] = IF i <= Len(a) THEN a[i] ELSE b[i - Len(a)]
  BY <1>1, <1>7
<1>9. ASSUME NEW i \in 1..Len(order), NEW j \in 1..Len(order), i # j
      PROVE  order[i] # order[j]
  <2>1. CASE i <= Len(a) /\ j <= Len(a)
    <3>1. i \in 1..Len(a) /\ j \in 1..Len(a)
      BY <1>6, <2>1
    <3> QED BY <1>4, <1>8, <1>9, <2>1, <3>1, Zenon
  <2>2. CASE ~(i <= Len(a)) /\ ~(j <= Len(a))
    <3>1. i - Len(a) \in 1..Len(b) /\ j - Len(a) \in 1..Len(b) /\ i - Len(a) # j - Len(a)
      BY <1>6, <1>8, <1>9, <2>2
    <3>2. order[i] = b[i - Len(a)] /\ order[j] = b[j - Len(a)]
      BY <1>8, <2>2, Zenon
    <3> QED BY <1>5, <3>1, <3>2, Zenon
  <2>3. \A m \in 1..Len(order) : order[m] \in IF m <= Len(a) THEN V4 ELSE V6
    <3> SUFFICES ASSUME NEW m \in 1..Len(order)
                 PROVE  order[m] \in IF m <= Len(a) THEN V4 ELSE V6
      BY Zenon
    <3>1. IF m <= Len(a) THEN m \in 1..Len(a) ELSE m - Len(a) \in 1..Len(b)
      BY <1>6, <1>8
    <3>2. order[m] = IF m <= Len(a) THEN a[m] ELSE b[m - Len(a)]
      BY <1>8, Zenon
    <3> QED BY <1>6, <3>1, <3>2, Zenon
  <2>4. CASE ~(i <= Len(a) <=> j <= Len(a))
    BY <2>3, <2>4, ServersAssumption, Zenon
  <2> QED BY <2>1, <2>2, <2>4, Zenon
<1>10. \A s \in Servers : Queued(s)
  BY InitQueued, Zenon
<1>11. Asked = {} /\ set = {} /\ now = 0 /\ stalled = 0 /\ \A s \in Servers : task[s] = "unasked"
  BY Zenon DEF Init, Asked
<1>12. Cardinality(Asked) = 0 * ChunkSize /\ ChunksStarted = 0
  <2>1. Cardinality(Asked) = 0 /\ 1 \in 1..ChunkSize
    BY <1>11, SizeOfEmpty, BoundsAssumption
  <2>2. 0 * ChunkSize = 0
    BY BoundsAssumption
  <2>3. ChunksFor(0 * ChunkSize) = 0
    BY <2>1, ChunkCount
  <2> QED BY <2>1, <2>2, <2>3, Zenon DEF ChunksStarted, ChunksFor
<1>13. Limit = 0
  BY <1>12, LimitIsNumber DEF Limit
<1> QED BY <1>9, <1>10, <1>11, <1>12, <1>13 DEF Paced, Ordered, FullChunks, Spent

\* One more chunk adds its servers to those asked, and its time to the limit.
LEMMA ChunkAdds ==
  ASSUME TypeOK, Paced, Chunk
  PROVE  /\ Limit' = Limit + Budget
         /\ FullChunks'
         /\ Ordered'
<1> DEFINE chunk == {order[i] : i \in 1..ChunkLen}
           rest == SubSeq(order, ChunkLen + 1, Len(order))
<1>1. order \in Seq(Servers) /\ order # <<>> /\ Len(order) \in Nat
  BY DEF TypeOK, Chunk
<1>2. Len(order) # 0
  BY <1>1
<1>3. /\ ChunkLen \in 1..ChunkSize /\ ChunkLen \in 0..Len(order)
      /\ ChunkLen = Len(order) \/ ChunkLen = ChunkSize
  BY <1>1, <1>2, BoundsAssumption DEF ChunkLen
<1>4. \A i, j \in 1..Len(order) : i # j => order[i] # order[j]
  BY Zenon DEF Paced, Ordered
<1>5. /\ IsFiniteSet(chunk) /\ Cardinality(chunk) = ChunkLen
      /\ \A i, j \in 1..Len(rest) : i # j => rest[i] # rest[j]
      /\ \A i \in 1..Len(rest) : rest[i] \notin chunk /\ \E j \in 1..Len(order) : order[j] = rest[i]
      /\ Len(rest) = Len(order) - ChunkLen
  BY <1>1, <1>3, <1>4, FirstOnes, Zenon
<1>6. /\ rest \in Seq(Servers) /\ chunk \in SUBSET Servers
      /\ \A i \in 1..Len(order) :
           order[i] \in chunk \/ \E j \in 1..Len(rest) : rest[j] = order[i]
  BY <1>1, <1>3, Chunked, Zenon
<1>7. \A s \in chunk : \E i \in 1..Len(order) : order[i] = s
  BY <1>1, <1>3
<1>8. order' = rest /\ task' = [s \in Servers |-> IF s \in chunk THEN "spawned" ELSE task[s]]
  BY Zenon DEF Chunk
<1> HIDE DEF chunk, rest
<1>9. \A s \in Servers : Queued(s) <=> task[s] = "unasked"
  BY Zenon DEF Paced, Ordered
<1>10. Asked' = Asked \cup chunk /\ Asked \cap chunk = {}
  <2>1. \A s \in chunk : task[s] = "unasked"
    BY <1>6, <1>7, <1>9, Zenon DEF Queued
  <2> QED BY <1>6, <1>8, <2>1, Zenon DEF Asked
<1>11. PICK c \in Nat : Cardinality(Asked) = c * ChunkSize
  BY <1>1, Zenon DEF Paced, FullChunks
<1>12. Cardinality(Asked') = c * ChunkSize + ChunkLen
  <2>1. Cardinality(Asked \cup chunk) =
          Cardinality(Asked) + Cardinality(chunk) - Cardinality(Asked \cap chunk)
    BY <1>5, LimitIsNumber, SizeOfUnion, Zenon
  <2>2. Cardinality(Asked \cap chunk) = 0
    BY <1>10, SizeOfEmpty, Zenon
  <2> QED BY <1>3, <1>5, <1>10, <1>11, <2>1, <2>2, LimitIsNumber
<1>13. Limit' = Limit + Budget
  <2>1. ChunksStarted = ChunksFor(c * ChunkSize)
    BY <1>11, Zenon DEF ChunksStarted, ChunksFor
  <2>2. ChunksStarted' = ChunksFor(c * ChunkSize + ChunkLen)
    BY <1>12, Zenon DEF ChunksStarted, ChunksFor
  <2>3. ChunksStarted = c /\ ChunksStarted' = c + 1
    BY <1>3, <2>1, <2>2, ChunkCount, Zenon
  <2>4. Limit = c * Budget /\ Limit' = (c + 1) * Budget
    BY <2>3, Zenon DEF Limit, Budget
  <2>5. (c + 1) * Budget = c * Budget + Budget
    BY LimitIsNumber
  <2> QED BY <2>4, <2>5, Zenon
<1>14. FullChunks'
  <2> SUFFICES ASSUME order' # <<>> PROVE \E d \in Nat : Cardinality(Asked') = d * ChunkSize
    BY Zenon DEF FullChunks
  <2>1. Len(rest) # 0
    BY <1>6, <1>8
  <2>2. ChunkLen = ChunkSize
    BY <1>1, <1>3, <1>5, <2>1
  <2>3. Cardinality(Asked') = (c + 1) * ChunkSize
    BY <1>12, <2>2, BoundsAssumption
  <2> QED BY <2>3
<1>15. Ordered'
  <2> USE <1>8
  <2>1. \A i, j \in 1..Len(order') : i # j => order'[i] # order'[j]
    BY <1>5, Zenon
  <2>2. ASSUME NEW s \in Servers PROVE Queued(s)' <=> task'[s] = "unasked"
    <3>1. Queued(s)' <=> \E j \in 1..Len(rest) : rest[j] = s
      BY Zenon DEF Queued
    <3>2. Queued(s) <=> \E j \in 1..Len(order) : order[j] = s
      BY Zenon DEF Queued
    <3>3. CASE s \in chunk
      BY <1>5, <3>1, <3>3, Zenon
    <3>4. CASE s \notin chunk
      BY <1>5, <1>6, <1>9, <3>1, <3>2, <3>4
    <3> QED BY <3>3, <3>4, Zenon
  <2> QED BY <2>1, <2>2, Zenon DEF Ordered
<1> QED BY <1>13, <1>14, <1>15, Zenon

\* A chunk begins with all of its time.
LEMMA ChunkPaced ==
  ASSUME TypeOK, Paced, Chunk
  PROVE  Paced'
<1>1. Limit' = Limit + Budget /\ FullChunks' /\ Ordered'
  BY ChunkAdds, Zenon
<1>2. now' = now /\ stalled' = stalled /\ \A s \in set' : s \in Servers => task'[s] = "spawned"
  BY Zenon DEF Chunk
<1>3. Spent \in Int /\ Limit \in Int /\ Budget \in Nat /\ Spent <= Limit
  BY LimitIsNumber, BoundsAssumption DEF TypeOK, Paced, Spent
<1>4. Spent' = Spent
  BY <1>2, Zenon DEF Spent
<1>5. set' \subseteq Servers
  <2>1. Len(order) \in Nat /\ \A i \in 1..Len(order) : order[i] \in Servers
    BY DEF TypeOK
  <2>2. \A i \in 1..ChunkLen : i \in 1..Len(order)
    BY <2>1, BoundsAssumption DEF ChunkLen
  <2>3. set' = {order[i] : i \in 1..ChunkLen}
    BY Zenon DEF Chunk
  <2> QED BY <2>1, <2>2, <2>3, Zenon
<1> USE <1>1
<1>6. \A s \in set' : Punctual(s)'
  <2> SUFFICES ASSUME NEW s \in set' PROVE Punctual(s)'
    BY Zenon
  <2>1. task'[s] = "spawned"
    BY <1>2, <1>5, Zenon
  <2>2. Spent' <= Limit' - Budget'
    BY <1>3, <1>4 DEF Budget
  <2> QED BY <2>1, <2>2, Zenon DEF Punctual
<1>7. Spent' <= Limit'
  BY <1>3, <1>4
<1> QED BY <1>6, <1>7, Zenon DEF Paced

\* A call takes at most the time of its chunks, for any number of servers and
\* any chunk size: query_socket's timers leave nothing unbounded but the read
\* of a retry over TCP.
THEOREM RoundIsBounded == Spec => []RoundBounded
<1>1. TypeOK /\ Paced /\ [Next]_vars => Paced'
  <2> SUFFICES ASSUME TypeOK, Paced, [Next]_vars PROVE Paced'
    BY Zenon
  <2>1. ASSUME NEW s \in Servers, Send(s) \/ Connect(s) \/ Timeout(s) PROVE Paced'
    <3>1. "usable" \in Replies
      BY Zenon DEF Replies
    <3> QED BY <2>1, <3>1, LimitIsNumber, SocketPaced, Zenon
  <2>2. ASSUME NEW s \in Servers, NEW r \in Replies,
               Receive(s, r) \/ Read(s, r) \/ Exchange(s, r)
        PROVE  Paced'
    BY <2>2, LimitIsNumber, SocketPaced, Zenon
  <2> QED BY <2>1, <2>2, ChunkPaced, JoinPaced, LimitIsNumber, TickPaced, Zenon DEF Next
<1>2. Paced => RoundBounded
  BY Zenon DEF Paced, RoundBounded, Spent, Limit, Budget
<1> QED BY <1>1, <1>2, InitPaced, TypeCorrect, PTL DEF Spec
=============================================================================
