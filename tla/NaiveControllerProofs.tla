------------------------ MODULE NaiveControllerProofs ------------------------
(***************************************************************************)
(* Proofs about NaiveController for any services, any finite set of        *)
(* addresses and any numbers of changes and failures.                      *)
(***************************************************************************)
EXTENDS NaiveController, FiniteSetTheorems, TLAPS

-----------------------------------------------------------------------------
(* Requests in a sequence.                                                 *)

\* Whether q asks anything of ip, and whether the last it asks is op.
Asks(q, ip) == \E k \in DOMAIN q : q[k].ip = ip
AsksLast(q, ip, op) ==
  \E k \in DOMAIN q : q[k].ip = ip /\ q[k].op = op /\ \A j \in k+1..Len(q) : q[j].ip # ip

\* The later part of a queue decides, where it asks anything.
LEMMA LaterDecides ==
  ASSUME NEW s \in Seq(Request), NEW t \in Seq(Request), NEW ip, NEW op
  PROVE  /\ Asks(s \o t, ip) <=> Asks(s, ip) \/ Asks(t, ip)
         /\ Asks(t, ip) => (AsksLast(s \o t, ip, op) <=> AsksLast(t, ip, op))
         /\ ~Asks(t, ip) => (AsksLast(s \o t, ip, op) <=> AsksLast(s, ip, op))
<1> DEFINE u == s \o t
<1>1. /\ Len(s) \in Nat /\ Len(t) \in Nat /\ Len(u) = Len(s) + Len(t)
      /\ DOMAIN s = 1..Len(s) /\ DOMAIN t = 1..Len(t) /\ DOMAIN u = 1..Len(s) + Len(t)
      /\ \A k \in 1..Len(s) : u[k] = s[k]
      /\ \A k \in 1..Len(t) : u[k + Len(s)] = t[k]
  OBVIOUS
<1> HIDE DEF u
<1>2. \A k \in DOMAIN u : k \in 1..Len(s) \/ \E j \in 1..Len(t) : k = j + Len(s)
  <2> SUFFICES ASSUME NEW k \in DOMAIN u, k \notin 1..Len(s)
               PROVE  \E j \in 1..Len(t) : k = j + Len(s)
    OBVIOUS
  <2>1. k - Len(s) \in 1..Len(t) /\ k = (k - Len(s)) + Len(s)
    BY <1>1
  <2> QED BY <2>1
<1>3. Asks(u, ip) <=> Asks(s, ip) \/ Asks(t, ip)
  <2>1. Asks(u, ip) => Asks(s, ip) \/ Asks(t, ip)
    BY <1>1, <1>2 DEF Asks
  <2>2. ASSUME NEW k \in 1..Len(t), t[k].ip = ip PROVE Asks(u, ip)
    <3>1. k + Len(s) \in DOMAIN u /\ u[k + Len(s)].ip = ip
      BY <1>1, <2>2
    <3> QED BY <3>1 DEF Asks
  <2>3. ASSUME NEW k \in 1..Len(s), s[k].ip = ip PROVE Asks(u, ip)
    <3>1. k \in DOMAIN u /\ u[k].ip = ip
      BY <1>1, <2>3
    <3> QED BY <3>1 DEF Asks
  <2> QED BY <1>1, <2>1, <2>2, <2>3 DEF Asks
<1>4. ASSUME NEW k \in 1..Len(t)
      PROVE  (\A j \in k+1..Len(t) : t[j].ip # ip)
               <=> (\A j \in k + Len(s) + 1..Len(u) : u[j].ip # ip)
  <2>1. ASSUME NEW j \in k+1..Len(t)
        PROVE  j + Len(s) \in k + Len(s) + 1..Len(u) /\ u[j + Len(s)] = t[j]
    BY <1>1, <2>1
  <2>2. ASSUME NEW j \in k + Len(s) + 1..Len(u)
        PROVE  j - Len(s) \in k+1..Len(t) /\ u[j] = t[j - Len(s)]
    <3>1. j - Len(s) \in k+1..Len(t) /\ j - Len(s) \in 1..Len(t) /\ (j - Len(s)) + Len(s) = j
      BY <1>1, <2>2
    <3> QED BY <1>1, <3>1
  <2> QED BY <2>1, <2>2
<1>5. CASE Asks(t, ip)
  <2>1. ASSUME NEW k \in 1..Len(s), \A j \in k+1..Len(u) : u[j].ip # ip PROVE FALSE
    <3>1. PICK j \in 1..Len(t) : t[j].ip = ip
      BY <1>1, <1>5 DEF Asks
    <3>2. j + Len(s) \in k+1..Len(u) /\ u[j + Len(s)].ip = ip
      BY <1>1, <3>1
    <3> QED BY <2>1, <3>2
  <2>2. AsksLast(u, ip, op) => AsksLast(t, ip, op)
    <3> SUFFICES ASSUME NEW k \in DOMAIN u, u[k].ip = ip, u[k].op = op,
                        \A j \in k+1..Len(u) : u[j].ip # ip
                 PROVE  AsksLast(t, ip, op)
      BY DEF AsksLast
    <3>1. PICK j \in 1..Len(t) : k = j + Len(s)
      BY <1>2, <2>1
    <3>2. t[j].ip = ip /\ t[j].op = op /\ \A i \in j+1..Len(t) : t[i].ip # ip
      BY <1>1, <1>4, <3>1
    <3> QED BY <1>1, <3>2 DEF AsksLast
  <2>3. ASSUME NEW k \in 1..Len(t), t[k].ip = ip, t[k].op = op,
               \A j \in k+1..Len(t) : t[j].ip # ip
        PROVE  AsksLast(u, ip, op)
    <3>1. k + Len(s) \in DOMAIN u /\ u[k + Len(s)] = t[k]
      BY <1>1
    <3>2. \A j \in k + Len(s) + 1..Len(u) : u[j].ip # ip
      BY <1>4, <2>3
    <3> QED BY <2>3, <3>1, <3>2 DEF AsksLast
  <2> QED BY <1>1, <1>3, <1>5, <2>2, <2>3 DEF AsksLast, u
<1>6. CASE ~Asks(t, ip)
  <2>1. \A k \in 1..Len(t) : u[k + Len(s)].ip # ip
    BY <1>1, <1>6 DEF Asks
  <2>2. AsksLast(u, ip, op) => AsksLast(s, ip, op)
    <3> SUFFICES ASSUME NEW k \in DOMAIN u, u[k].ip = ip, u[k].op = op,
                        \A j \in k+1..Len(u) : u[j].ip # ip
                 PROVE  AsksLast(s, ip, op)
      BY DEF AsksLast
    <3>1. k \in 1..Len(s)
      BY <1>2, <2>1
    <3>2. \A j \in k+1..Len(s) : j \in k+1..Len(u) /\ u[j] = s[j]
      BY <1>1, <3>1
    <3> QED BY <1>1, <3>1, <3>2 DEF AsksLast
  <2>3. ASSUME NEW k \in 1..Len(s), s[k].ip = ip, s[k].op = op,
               \A j \in k+1..Len(s) : s[j].ip # ip
        PROVE  AsksLast(u, ip, op)
    <3>1. k \in DOMAIN u /\ u[k] = s[k]
      BY <1>1
    <3>2. ASSUME NEW j \in k+1..Len(u) PROVE u[j].ip # ip
      <4>1. CASE j \in 1..Len(s)
        BY <1>1, <2>3, <4>1
      <4>2. CASE j \notin 1..Len(s)
        BY <1>1, <1>2, <2>1, <4>2
      <4> QED BY <4>1, <4>2
    <3> QED BY <2>3, <3>1, <3>2 DEF AsksLast
  <2> QED BY <1>1, <1>3, <1>6, <2>2, <2>3 DEF AsksLast, u
<1> QED BY <1>5, <1>6, <1>3 DEF u

\* Taking the first request leaves what the others ask.
LEMMA TailDecides ==
  ASSUME NEW s \in Seq(Request), s # <<>>, NEW ip, NEW op
  PROVE  /\ Head(s) \in Request /\ Tail(s) \in Seq(Request)
         /\ Asks(s, ip) <=> Head(s).ip = ip \/ Asks(Tail(s), ip)
         /\ Asks(Tail(s), ip) => (AsksLast(s, ip, op) <=> AsksLast(Tail(s), ip, op))
         /\ ~Asks(Tail(s), ip) =>
              (AsksLast(s, ip, op) <=> Head(s).ip = ip /\ Head(s).op = op)
<1> DEFINE h == <<Head(s)>>
           t == Tail(s)
<1>1. Head(s) \in Request /\ t \in Seq(Request) /\ h \in Seq(Request) /\ s = h \o t
  OBVIOUS
<1>2. DOMAIN h = {1} /\ h[1] = Head(s) /\ Len(h) = 1
  OBVIOUS
<1> HIDE DEF h, t
<1>3. (Asks(h, ip) <=> Head(s).ip = ip)
      /\ (AsksLast(h, ip, op) <=> Head(s).ip = ip /\ Head(s).op = op)
  BY <1>2 DEF Asks, AsksLast
<1>4. /\ Asks(h \o t, ip) <=> Asks(h, ip) \/ Asks(t, ip)
      /\ Asks(t, ip) => (AsksLast(h \o t, ip, op) <=> AsksLast(t, ip, op))
      /\ ~Asks(t, ip) => (AsksLast(h \o t, ip, op) <=> AsksLast(h, ip, op))
  BY <1>1, LaterDecides, Zenon
<1> QED BY <1>1, <1>3, <1>4, Zenon DEF t

\* Each order in which a map gives its elements has each of them.
LEMMA SetToSeqsHasAll ==
  ASSUME NEW S, IsFiniteSet(S), NEW f \in SetToSeqs(S)
  PROVE  /\ DOMAIN f = 1..Len(f) /\ Len(f) \in Nat /\ f \in Seq(S)
         /\ \A x \in S : \E k \in DOMAIN f : f[k] = x
         /\ \A j, k \in DOMAIN f : j # k => f[j] # f[k]
<1> DEFINE D == 1..Cardinality(S)
<1>1. Cardinality(S) \in Nat
  BY FS_CardinalityType
<1>2. f \in [D -> S] /\ \A j, k \in D : j # k => f[j] # f[k]
  BY DEF SetToSeqs
<1>3. f \in Injection(D, S)
  BY <1>2 DEF Injection, IsInjective
<1>4. Cardinality(D) = Cardinality(S)
  BY <1>1, FS_Interval
<1>5. f \in Surjection(D, S)
  BY <1>3, <1>4, FS_Injection
<1>6. \A x \in S : \E k \in D : f[k] = x
  BY <1>5 DEF Surjection
<1>7. f \in Seq(S) /\ Len(f) = Cardinality(S)
  BY <1>1, <1>2
<1> QED BY <1>1, <1>2, <1>6, <1>7

\* What the handler appends asks for each address of the set, once.
LEMMA RequestsAsk ==
  ASSUME NEW ips \in SUBSET IPs, NEW o \in {"add", "del"}, NEW f \in SetToSeqs(Requests(o, ips))
  PROVE  /\ f \in Seq(Request)
         /\ \A ip : Asks(f, ip) <=> ip \in ips
         /\ \A ip, op : AsksLast(f, ip, op) <=> ip \in ips /\ op = o
<1> DEFINE S == Requests(o, ips)
           g == [ip \in ips |-> [op |-> o, ip |-> ip]]
<1>1. IsFiniteSet(S)
  <2>1. IsFiniteSet(ips)
    BY RequestAssumption, FS_Subset
  <2>2. g \in Surjection(ips, S)
    BY DEF Surjection, Requests
  <2> QED BY <2>1, <2>2, FS_Surjection
<1>2. /\ DOMAIN f = 1..Len(f) /\ Len(f) \in Nat /\ f \in Seq(S)
      /\ \A x \in S : \E k \in DOMAIN f : f[k] = x
      /\ \A j, k \in DOMAIN f : j # k => f[j] # f[k]
  BY <1>1, SetToSeqsHasAll
<1>3. S \subseteq Request /\ \A ip \in ips : [op |-> o, ip |-> ip] \in S
  BY DEF Requests, Request
<1>4. \A x \in S : x.ip \in ips /\ x.op = o /\ x = [op |-> o, ip |-> x.ip]
  BY DEF Requests
<1> HIDE DEF S, g
<1>5. f \in Seq(Request) /\ \A k \in DOMAIN f : f[k] \in S
  BY <1>2, <1>3
<1>6. ASSUME NEW j \in DOMAIN f, NEW k \in DOMAIN f, f[j].ip = f[k].ip PROVE j = k
  BY <1>2, <1>4, <1>5, <1>6
<1>7. ASSUME NEW ip \in ips PROVE \E k \in DOMAIN f : f[k].ip = ip
  <2>1. PICK k \in DOMAIN f : f[k] = [op |-> o, ip |-> ip]
    BY <1>2, <1>3
  <2> QED BY <2>1
<1>8. \A ip : Asks(f, ip) <=> ip \in ips
  BY <1>4, <1>5, <1>7 DEF Asks
<1>9. ASSUME NEW ip, NEW op, AsksLast(f, ip, op) PROVE ip \in ips /\ op = o
  BY <1>4, <1>5, <1>9 DEF AsksLast
<1>10. ASSUME NEW ip \in ips PROVE AsksLast(f, ip, o)
  <2>1. PICK k \in DOMAIN f : f[k].ip = ip
    BY <1>7
  <2>2. \A j \in k+1..Len(f) : j \in DOMAIN f /\ j # k
    BY <1>2
  <2> QED BY <1>4, <1>5, <1>6, <2>1, <2>2 DEF AsksLast
<1> QED BY <1>5, <1>8, <1>9, <1>10

-----------------------------------------------------------------------------
(* Types.                                                                  *)

\* What processServiceExternalIPs requests is addresses.
LEMMA DiffsAreAddresses ==
  ASSUME NEW s, NEW old \in Service, NEW cur \in Service, NEW stored
  PROVE  ToAdd(s, old, cur, stored) \subseteq IPs /\ ToRemove(s, old, cur, stored) \subseteq IPs
BY DEF ToAdd, ToRemove, IPsOf, Service

\* What a delivery appends: the additions, then the removals.
LEMMA DeliverEffect ==
  ASSUME TypeOK, NEW s \in Services, Deliver(s)
  PROVE  \E cur \in Service, add \in SUBSET IPs, remove \in SUBSET IPs :
           /\ feed[s] # <<>> /\ cur = Head(feed[s])
           /\ store' = [store EXCEPT ![s] = cur] /\ feed' = [feed EXCEPT ![s] = Tail(feed[s])]
           /\ add = ToAdd(s, store[s], cur, store')
           /\ remove = ToRemove(s, store[s], cur, store')
           /\ removed' = removed \cup remove
           /\ \E first \in SetToSeqs(Requests("add", add)),
                 then \in SetToSeqs(Requests("del", remove)) : queue' = queue \o first \o then
           /\ UNCHANGED <<services, worker, addrs, changes, failures>>
<1> DEFINE cur == Head(feed[s])
           add == ToAdd(s, store[s], cur, store')
           remove == ToRemove(s, store[s], cur, store')
<1>1. feed[s] \in Seq(Service) /\ feed[s] # <<>> /\ store[s] \in Service
  BY DEF TypeOK, Deliver
<1>2. cur \in Service
  BY <1>1
<1>3. add \in SUBSET IPs /\ remove \in SUBSET IPs
  <2> HIDE DEF cur
  <2> QED BY <1>1, <1>2, DiffsAreAddresses
<1>4. /\ store' = [store EXCEPT ![s] = cur] /\ feed' = [feed EXCEPT ![s] = Tail(feed[s])]
      /\ removed' = removed \cup remove
      /\ \E first \in SetToSeqs(Requests("add", add)),
            then \in SetToSeqs(Requests("del", remove)) : queue' = queue \o first \o then
      /\ UNCHANGED <<services, worker, addrs, changes, failures>>
  BY DEF Deliver, StoreAfter
<1> HIDE DEF cur, add, remove
<1> QED BY <1>1, <1>2, <1>3, <1>4 DEF cur, add, remove

\* The last element of a feed that grows at its end and is read at its head.
LEMMA LastOfFeed ==
  ASSUME NEW S, NEW f \in Seq(S), NEW x \in S
  PROVE  /\ Append(f, x) \in Seq(S) /\ Append(f, x) # <<>> /\ Last(Append(f, x)) = x
         /\ f # <<>> => /\ Head(f) \in S /\ Tail(f) \in Seq(S)
                        /\ Last(f) = IF Tail(f) = <<>> THEN Head(f) ELSE Last(Tail(f))
<1>1. Append(f, x) \in Seq(S) /\ Len(Append(f, x)) = Len(f) + 1 /\ Len(f) \in Nat
      /\ Append(f, x)[Len(f) + 1] = x
  OBVIOUS
<1>2. ASSUME f # <<>>
      PROVE  /\ Head(f) = f[1] /\ Head(f) \in S /\ Tail(f) \in Seq(S)
             /\ Len(Tail(f)) = Len(f) - 1
             /\ \A k \in 1..Len(f) - 1 : Tail(f)[k] = f[k + 1]
  BY <1>2
<1>3. ASSUME f # <<>>, Tail(f) = <<>> PROVE Last(f) = Head(f)
  <2>1. Len(f) = 1
    <3>1. Len(Tail(f)) = 0
      <4>1. Len(<<>>) = 0
        OBVIOUS
      <4> QED BY <1>3, <4>1, Zenon
    <3>2. Len(Tail(f)) = Len(f) - 1
      BY <1>2, <1>3
    <3> QED BY <1>1, <3>1, <3>2
  <2> QED BY <1>2, <1>3, <2>1 DEF Last
<1>4. ASSUME f # <<>>, Tail(f) # <<>> PROVE Last(f) = Last(Tail(f))
  <2>1. Len(f) - 1 \in 1..Len(f) - 1 /\ Len(Tail(f)) = Len(f) - 1
    BY <1>1, <1>2, <1>4
  <2>2. Tail(f)[Len(f) - 1] = f[(Len(f) - 1) + 1]
    BY <1>2, <1>4, <2>1
  <2> QED BY <1>1, <2>1, <2>2 DEF Last
<1>5. Append(f, x) # <<>> /\ Last(Append(f, x)) = x
  BY <1>1 DEF Last
<1> QED BY <1>1, <1>2, <1>3, <1>4, <1>5

\* Each step keeps TypeOK.
LEMMA UserChangeKeepsTypes ==
  ASSUME TypeOK, NEW s \in Services, UserChange(s)
  PROVE  TypeOK'
<1>1. PICK new \in Service :
        /\ services' = [services EXCEPT ![s] = new]
        /\ feed' = [feed EXCEPT ![s] = Append(feed[s], new)]
  BY DEF UserChange
<1>2. /\ feed \in [Services -> Seq(Service)] /\ services \in [Services -> Service]
      /\ changes \in 0..MaxChanges /\ MaxChanges \in Nat
      /\ changes < MaxChanges /\ changes' = changes + 1
      /\ UNCHANGED <<store, queue, worker, addrs, removed, failures>>
  BY NaiveAssumption DEF TypeOK, UserChange
<1>3. /\ Append(feed[s], new) \in Seq(Service) /\ Append(feed[s], new) # <<>>
      /\ Last(Append(feed[s], new)) = new
  BY <1>2, LastOfFeed
<1>4. /\ feed' \in [Services -> Seq(Service)] /\ services' \in [Services -> Service]
      /\ changes' \in 0..MaxChanges
  BY <1>1, <1>2, <1>3
<1>5. \A t \in Services : services'[t] = IF feed'[t] = <<>> THEN store[t] ELSE Last(feed'[t])
  BY <1>1, <1>2, <1>3 DEF TypeOK
<1> QED BY <1>2, <1>4, <1>5 DEF TypeOK

LEMMA DeliverKeepsTypes ==
  ASSUME TypeOK, NEW s \in Services, Deliver(s)
  PROVE  TypeOK'
<1>1. PICK cur \in Service, add \in SUBSET IPs, remove \in SUBSET IPs :
        /\ feed[s] # <<>> /\ cur = Head(feed[s])
        /\ store' = [store EXCEPT ![s] = cur] /\ feed' = [feed EXCEPT ![s] = Tail(feed[s])]
        /\ add = ToAdd(s, store[s], cur, store')
        /\ remove = ToRemove(s, store[s], cur, store')
        /\ removed' = removed \cup remove
        /\ \E first \in SetToSeqs(Requests("add", add)),
              then \in SetToSeqs(Requests("del", remove)) : queue' = queue \o first \o then
        /\ UNCHANGED <<services, worker, addrs, changes, failures>>
  BY DeliverEffect, Zenon
<1>2. /\ feed \in [Services -> Seq(Service)] /\ store \in [Services -> Service]
      /\ queue \in Seq(Request) /\ removed \subseteq IPs
  BY DEF TypeOK
<1>3. /\ Tail(feed[s]) \in Seq(Service)
      /\ Last(feed[s]) = IF Tail(feed[s]) = <<>> THEN cur ELSE Last(Tail(feed[s]))
  BY <1>1, <1>2, LastOfFeed
<1>4. feed' \in [Services -> Seq(Service)] /\ store' \in [Services -> Service]
  BY <1>1, <1>2, <1>3
<1>5. \A t \in Services : services[t] = IF feed'[t] = <<>> THEN store'[t] ELSE Last(feed'[t])
  BY <1>1, <1>2, <1>3 DEF TypeOK
<1>6. queue' \in Seq(Request)
  <2>1. PICK first \in SetToSeqs(Requests("add", add)),
             then \in SetToSeqs(Requests("del", remove)) : queue' = queue \o first \o then
    BY <1>1
  <2>2. first \in Seq(Request) /\ then \in Seq(Request)
    BY RequestsAsk
  <2> QED BY <1>2, <2>1, <2>2
<1>7. removed' \subseteq IPs
  BY <1>1, <1>2
<1> QED BY <1>1, <1>4, <1>5, <1>6, <1>7 DEF TypeOK

LEMMA TakeKeepsTypes ==
  ASSUME TypeOK, Take
  PROVE  TypeOK'
<1>1. Head(queue) \in Request /\ Tail(queue) \in Seq(Request)
  BY DEF TypeOK, Take
<1> QED BY <1>1 DEF TypeOK, Take

\* What a call to the kernel does, and what becomes of the request.
LEMMA ApplyEffect ==
  ASSUME TypeOK, NEW failing \in BOOLEAN, Apply(failing)
  PROVE  /\ worker \in Request /\ worker' = None /\ addrs' \subseteq IPs
         /\ ~failing => queue' = queue /\ addrs' = IF worker.op = "add"
                                                     THEN addrs \cup {worker.ip}
                                                     ELSE addrs \ {worker.ip}
         /\ failing => queue' = Append(queue, worker)
         /\ UNCHANGED <<services, feed, store, changes, removed>>
<1>1. worker \in Request /\ worker.ip \in IPs /\ addrs \subseteq IPs
  BY DEF TypeOK, Apply, Request
<1>2. PICK r \in Ensure(failing) :
        addrs' = r.addrs /\ queue' = IF r.ok THEN queue ELSE Append(queue, worker)
  BY DEF Apply, Retried
<1>3. CASE worker.op = "add"
  <2>1. r \in EnsureIPAssigned(addrs, worker.ip, failing)
    BY <1>2, <1>3 DEF Ensure
  <2>2. /\ failing => r.addrs \in {addrs, addrs \cup {worker.ip}} /\ ~r.ok
        /\ ~failing => r.addrs = addrs \cup {worker.ip} /\ r.ok
    BY <2>1 DEF EnsureIPAssigned, Outcome
  <2> QED BY <1>1, <1>2, <1>3, <2>2 DEF Apply
<1>4. CASE worker.op # "add"
  <2>1. r \in EnsureIPUnassigned(addrs, worker.ip, failing)
    BY <1>2, <1>4 DEF Ensure
  <2>2. /\ failing => r.addrs = addrs /\ ~r.ok
        /\ ~failing => r.addrs = addrs \ {worker.ip} /\ r.ok
    BY <2>1 DEF EnsureIPUnassigned, Outcome
  <2> QED BY <1>1, <1>2, <1>4, <2>2 DEF Apply
<1> QED BY <1>3, <1>4

LEMMA ApplyKeepsTypes ==
  ASSUME TypeOK, NEW failing \in BOOLEAN, Apply(failing), failures' \in [Kind -> Nat]
  PROVE  TypeOK'
<1>1. queue' \in Seq(Request)
  <2>1. queue \in Seq(Request) /\ worker \in Request /\ (queue' = queue \/ queue' = Append(queue, worker))
    BY ApplyEffect DEF TypeOK
  <2> QED BY <2>1
<1> QED BY <1>1, ApplyEffect DEF TypeOK

\* Failures are counted, whatever fails.
LEMMA FailsCounts ==
  ASSUME TypeOK, NEW kind \in Kind, Fails(kind)
  PROVE  /\ failures' \in [Kind -> Nat] /\ failures'[kind] = failures[kind] + 1
         /\ \A k \in Kind : failures'[k] >= failures[k]
BY DEF TypeOK, Fails

\* A list brings the informer up to the services.
LEMMA ListedIsCurrent ==
  ASSUME TypeOK
  PROVE  /\ Listed \in [Services -> Seq(Service)]
         /\ \A s \in Services : IF Listed[s] = <<>> THEN services[s] = None
                                ELSE services[s] = Last(Listed[s])
<1>1. ASSUME NEW x \in Service
      PROVE  <<x>> \in Seq(Service) /\ <<x>> # <<>> /\ Last(<<x>>) = x
  BY DEF Last
<1>2. <<>> \in Seq(Service)
  OBVIOUS
<1> QED BY <1>1, <1>2 DEF Listed, TypeOK

LEMMA RestartedKeepsTypes ==
  ASSUME TypeOK, Restarted, addrs' \subseteq IPs, failures' \in [Kind -> Nat]
  PROVE  TypeOK'
<1>1. store' \in [Services -> Service] /\ \A s \in Services : store'[s] = None
  BY DEF Restarted, Service
<1>2. \A s \in Services : services[s] = IF feed'[s] = <<>> THEN store'[s] ELSE Last(feed'[s])
  BY <1>1, ListedIsCurrent DEF Restarted
<1> QED BY <1>1, <1>2, ListedIsCurrent DEF TypeOK, Restarted

LEMMA WatchBreaksKeepsTypes ==
  ASSUME TypeOK, WatchBreaks
  PROVE  TypeOK'
<1>1. CASE \E s \in Services : store[s] # None /\ services[s] = None
  BY <1>1, FailsCounts, RestartedKeepsTypes DEF WatchBreaks, Kind, TypeOK
<1>2. CASE ~\E s \in Services : store[s] # None /\ services[s] = None
  <2>1. /\ failures' \in [Kind -> Nat] /\ feed' = Listed
        /\ UNCHANGED <<services, store, queue, worker, addrs, changes, removed>>
    BY <1>2, FailsCounts DEF WatchBreaks, Kind
  <2>2. \A s \in Services : services[s] = IF feed'[s] = <<>> THEN store[s] ELSE Last(feed'[s])
    BY <1>2, <2>1, ListedIsCurrent
  <2> QED BY <2>1, <2>2, ListedIsCurrent DEF TypeOK
<1> QED BY <1>1, <1>2

(* Types, and with them: what the watch has not delivered yet ends with    *)
(* the service as it is, and a service without events is the one stored.   *)
THEOREM TypeCorrect == Spec => []TypeOK
<1>1. Init => TypeOK
  BY NaiveAssumption DEF Init, TypeOK, Service
<1>2. TypeOK /\ [Next]_vars => TypeOK'
  <2> SUFFICES ASSUME TypeOK, [Next]_vars PROVE TypeOK'
    OBVIOUS
  <2>1. CASE Process
    BY <2>1, TakeKeepsTypes, ApplyKeepsTypes DEF Process, TypeOK
  <2>2. CASE NetlinkFails
    BY <2>2, FailsCounts, ApplyKeepsTypes DEF NetlinkFails, Kind
  <2>3. CASE ProcessDies
    BY <2>3, FailsCounts, RestartedKeepsTypes DEF ProcessDies, Kind, TypeOK
  <2>4. CASE UNCHANGED vars
    BY <2>4 DEF vars, TypeOK
  <2> QED BY <2>1, <2>2, <2>3, <2>4, UserChangeKeepsTypes, DeliverKeepsTypes,
             WatchBreaksKeepsTypes DEF Next
<1> QED BY <1>1, <1>2, PTL DEF Spec

-----------------------------------------------------------------------------
(* The requests under way agree with the store.                            *)

\* WillBeUp as a function of the queue, the worker and the interface.
WillBe(q, w, a, ip) ==
  IF Asks(q, ip) THEN AsksLast(q, ip, "add")
  ELSE IF w # None /\ w.ip = ip THEN w.op = "add"
  ELSE ip \in a

LEMMA WillBeUpIsWillBe ==
  ASSUME NEW ip
  PROVE  /\ WillBeUp(ip) <=> WillBe(queue, worker, addrs, ip)
         /\ WillBeUp(ip)' <=> WillBe(queue', worker', addrs', ip)
<1>1. (\E k \in LastRequest(ip) : queue[k].op = "add") <=> AsksLast(queue, ip, "add")
  BY DEF LastRequest, AsksLast
<1>2. (\E k \in LastRequest(ip)' : queue'[k].op = "add") <=> AsksLast(queue', ip, "add")
  BY DEF LastRequest, AsksLast
<1> QED BY <1>1, <1>2 DEF WillBeUp, WillBe, Asks

\* A delivery changes what will be up as it changes what the store asks for.
LEMMA DeliverAgrees ==
  ASSUME TypeOK, NEW s \in Services, Deliver(s), NEW ip
  PROVE  \/ ip \in InStore' /\ WillBeUp(ip)'
         \/ ip \notin InStore' /\ ~WillBeUp(ip)'
         \/ (ip \in InStore' <=> ip \in InStore) /\ (WillBeUp(ip)' <=> WillBeUp(ip))
<1>1. PICK cur \in Service, add \in SUBSET IPs, remove \in SUBSET IPs :
        /\ feed[s] # <<>> /\ cur = Head(feed[s])
        /\ store' = [store EXCEPT ![s] = cur] /\ feed' = [feed EXCEPT ![s] = Tail(feed[s])]
        /\ add = ToAdd(s, store[s], cur, store')
        /\ remove = ToRemove(s, store[s], cur, store')
        /\ removed' = removed \cup remove
        /\ \E first \in SetToSeqs(Requests("add", add)),
              then \in SetToSeqs(Requests("del", remove)) : queue' = queue \o first \o then
        /\ UNCHANGED <<services, worker, addrs, changes, failures>>
  BY DeliverEffect, Zenon
<1> DEFINE others == \E t \in Services \ {s} : ip \in IPsOf(store[t])
<1>2. store'[s] = cur /\ \A t \in Services \ {s} : store'[t] = store[t]
  BY <1>1 DEF TypeOK
<1>3. /\ ip \in InStore <=> ip \in IPsOf(store[s]) \/ others
      /\ ip \in InStore' <=> ip \in IPsOf(cur) \/ others
  <2>1. ip \in InStore <=> \E t \in Services : ip \in IPsOf(store[t])
    BY DEF InStore
  <2>2. ip \in InStore' <=> \E t \in Services : ip \in IPsOf(store'[t])
    BY DEF InStore, IPsOf
  <2> QED BY <1>2, <2>1, <2>2
<1>4. /\ ip \in add <=> ip \in IPsOf(cur) /\ ip \notin IPsOf(store[s]) /\ ~others
      /\ ip \in remove <=> ip \in IPsOf(store[s]) /\ ip \notin IPsOf(cur) /\ ~others
  <2>1. ip \in InUseByOthers(s, store') <=> others
    BY <1>2 DEF InUseByOthers
  <2> HIDE DEF others
  <2> QED BY <1>1, <2>1 DEF ToAdd, ToRemove
<1>5. PICK first \in SetToSeqs(Requests("add", add)),
           then \in SetToSeqs(Requests("del", remove)) : queue' = (queue \o first) \o then
  BY <1>1
<1>6. /\ queue \in Seq(Request) /\ first \in Seq(Request) /\ then \in Seq(Request)
      /\ Asks(first, ip) <=> ip \in add
      /\ AsksLast(first, ip, "add") <=> ip \in add
      /\ Asks(then, ip) <=> ip \in remove
      /\ ~AsksLast(then, ip, "add")
  BY RequestsAsk DEF TypeOK
<1> DEFINE q == queue \o first
<1>7. /\ q \in Seq(Request)
      /\ Asks(q, ip) <=> Asks(queue, ip) \/ Asks(first, ip)
      /\ Asks(first, ip) => (AsksLast(q, ip, "add") <=> AsksLast(first, ip, "add"))
      /\ ~Asks(first, ip) => (AsksLast(q, ip, "add") <=> AsksLast(queue, ip, "add"))
  BY <1>6, LaterDecides
<1> HIDE DEF q
<1>8. /\ Asks(queue', ip) <=> Asks(q, ip) \/ Asks(then, ip)
      /\ Asks(then, ip) => (AsksLast(queue', ip, "add") <=> AsksLast(then, ip, "add"))
      /\ ~Asks(then, ip) => (AsksLast(queue', ip, "add") <=> AsksLast(q, ip, "add"))
  <2>1. queue' = q \o then
    BY <1>5 DEF q
  <2> QED BY <1>6, <1>7, <2>1, LaterDecides
<1> HIDE DEF others
<1>9. CASE ip \in add
  <2>1. Asks(queue', ip) /\ AsksLast(queue', ip, "add")
    BY <1>4, <1>6, <1>7, <1>8, <1>9
  <2> QED BY <1>3, <1>4, <1>9, <2>1, WillBeUpIsWillBe DEF WillBe
<1>10. CASE ip \in remove
  <2>1. Asks(queue', ip) /\ ~AsksLast(queue', ip, "add")
    BY <1>6, <1>8, <1>10
  <2> QED BY <1>3, <1>4, <1>10, <2>1, WillBeUpIsWillBe DEF WillBe
<1>11. CASE ip \notin add /\ ip \notin remove
  <2>1. /\ Asks(queue', ip) <=> Asks(queue, ip)
        /\ AsksLast(queue', ip, "add") <=> AsksLast(queue, ip, "add")
    BY <1>6, <1>7, <1>8, <1>11
  <2>2. WillBeUp(ip)' <=> WillBeUp(ip)
    BY <1>1, <2>1, WillBeUpIsWillBe DEF WillBe
  <2> QED BY <1>3, <1>4, <1>11, <2>2
<1> QED BY <1>9, <1>10, <1>11

\* The worker takes a request from the queue, or carries it out: no change.
LEMMA TakeAgrees ==
  ASSUME TypeOK, Take, NEW ip
  PROVE  WillBeUp(ip)' <=> WillBeUp(ip)
<1>1. /\ queue \in Seq(Request) /\ queue # <<>> /\ worker = None
      /\ worker' = Head(queue) /\ queue' = Tail(queue) /\ addrs' = addrs
  BY DEF TypeOK, Take
<1>2. /\ Head(queue) \in Request
      /\ Asks(queue, ip) <=> Head(queue).ip = ip \/ Asks(Tail(queue), ip)
      /\ Asks(Tail(queue), ip) => (AsksLast(queue, ip, "add") <=> AsksLast(Tail(queue), ip, "add"))
      /\ ~Asks(Tail(queue), ip) =>
           (AsksLast(queue, ip, "add") <=> Head(queue).ip = ip /\ Head(queue).op = "add")
  BY <1>1, TailDecides
<1>3. worker' # None
  BY <1>1, <1>2, RequestAssumption
<1>4. WillBe(queue', worker', addrs', ip) <=> WillBe(queue, worker, addrs, ip)
  BY <1>1, <1>2, <1>3, Zenon DEF WillBe
<1> QED BY <1>4, WillBeUpIsWillBe

LEMMA ApplyAgrees ==
  ASSUME TypeOK, Apply(FALSE), NEW ip
  PROVE  WillBeUp(ip)' <=> WillBeUp(ip)
<1>1. /\ worker # None /\ worker' = None /\ queue' = queue
      /\ addrs' = IF worker.op = "add" THEN addrs \cup {worker.ip} ELSE addrs \ {worker.ip}
  BY ApplyEffect, RequestAssumption
<1>2. WillBe(queue', worker', addrs', ip) <=> WillBe(queue, worker, addrs, ip)
  BY <1>1 DEF WillBe
<1> QED BY <1>2, WillBeUpIsWillBe

(* As long as no call to the kernel fails, what the requests under way     *)
(* make of the interface is what the store asks for, for any services,     *)
(* however they share addresses, and across deaths of the process.         *)
THEOREM RequestsFollowStore == Spec => []RequestsAgreeWithStore
<1>1. Init => RequestsAgreeWithStore
  <2> SUFFICES ASSUME Init, NEW ip \in IPs PROVE ip \notin InStore /\ ~WillBeUp(ip)
    BY DEF RequestsAgreeWithStore
  <2>1. ip \notin InStore
    BY DEF Init, InStore, IPsOf
  <2>2. ~WillBe(queue, worker, addrs, ip)
    BY DEF Init, WillBe, Asks
  <2> QED BY <2>1, <2>2, WillBeUpIsWillBe
<1>2. TypeOK /\ RequestsAgreeWithStore /\ [Next]_vars => RequestsAgreeWithStore'
  <2> SUFFICES ASSUME TypeOK, RequestsAgreeWithStore, [Next]_vars PROVE RequestsAgreeWithStore'
    OBVIOUS
  <2>1. ASSUME failures' = failures, InStore' = InStore,
               \A ip \in IPs : WillBeUp(ip)' <=> WillBeUp(ip)
        PROVE  RequestsAgreeWithStore'
    BY <2>1 DEF RequestsAgreeWithStore, Died
  <2>2. ASSUME NEW s \in Services, UserChange(s) PROVE RequestsAgreeWithStore'
    BY <2>1, <2>2, WillBeUpIsWillBe DEF UserChange, InStore
  <2>3. ASSUME NEW s \in Services, Deliver(s) PROVE RequestsAgreeWithStore'
    <3>1. failures' = failures
      BY <2>3 DEF Deliver
    <3> QED BY <2>3, <3>1, DeliverAgrees DEF RequestsAgreeWithStore, Died
  <2>4. CASE Process
    <3>1. UNCHANGED <<failures, store>>
      BY <2>4 DEF Process, Take, Apply
    <3> QED BY <2>1, <2>4, <3>1, TakeAgrees, ApplyAgrees DEF Process, InStore
  <2>5. CASE NetlinkFails
    <3>1. failures'["netlink"] # 0
      BY <2>5, FailsCounts DEF NetlinkFails, Kind, TypeOK
    <3> QED BY <3>1 DEF RequestsAgreeWithStore
  <2>6. ASSUME Fails("process"), Restarted PROVE RequestsAgreeWithStore'
    <3>1. Died'
      BY <2>6, FailsCounts DEF Died, Kind, TypeOK
    <3>2. \A ip : ip \notin InStore'
      BY <2>6 DEF Restarted, InStore, IPsOf
    <3> QED BY <3>1, <3>2 DEF RequestsAgreeWithStore
  <2>7. ASSUME Fails("watch"), UNCHANGED <<store, queue, worker, addrs>>
        PROVE  RequestsAgreeWithStore'
    <3>1. /\ failures["netlink"] <= failures'["netlink"] /\ failures["process"] <= failures'["process"]
          /\ failures \in [Kind -> Nat] /\ failures' \in [Kind -> Nat]
      BY <2>7, FailsCounts DEF Kind, TypeOK
    <3>2. (failures'["netlink"] = 0 => failures["netlink"] = 0) /\ (~Died' => ~Died)
      BY <3>1 DEF Died, Kind
    <3>3. InStore' = InStore /\ \A ip \in IPs : WillBeUp(ip)' <=> WillBeUp(ip)
      BY <2>7, WillBeUpIsWillBe DEF InStore
    <3> QED BY <3>2, <3>3 DEF RequestsAgreeWithStore
  <2>8. CASE ProcessDies
    BY <2>6, <2>8 DEF ProcessDies
  <2>9. CASE WatchBreaks
    BY <2>6, <2>7, <2>9 DEF WatchBreaks
  <2>10. CASE UNCHANGED vars
    BY <2>1, <2>10, WillBeUpIsWillBe DEF vars, InStore
  <2> QED BY <2>2, <2>3, <2>4, <2>5, <2>8, <2>9, <2>10 DEF Next
<1> QED BY <1>1, <1>2, TypeCorrect, PTL DEF Spec

\* Nothing is under way: the informer is up to date, the worker has no work.
AtRest == (\A s \in Services : feed[s] = <<>>) /\ queue = <<>> /\ worker = None

(* When nothing is under way, every address of a service is on the         *)
(* interface, and nothing else unless a process that died left it there:   *)
(* the safety half of InterfaceFollowsServices.                            *)
THEOREM AtRestInterfaceIsRight ==
  Spec => [](AtRest /\ failures["netlink"] = 0 =>
               InUse \subseteq addrs /\ (~Died => addrs = InUse))
<1>1. ASSUME TypeOK, RequestsAgreeWithStore, AtRest, failures["netlink"] = 0
      PROVE  InUse \subseteq addrs /\ (~Died => addrs = InUse)
  <2>1. InUse = InStore /\ InStore \subseteq IPs
    <3>1. \A s \in Services : services[s] = store[s] /\ IPsOf(store[s]) \subseteq IPs
      BY <1>1 DEF TypeOK, AtRest, IPsOf, Service
    <3> QED BY <3>1 DEF InUse, InStore
  <2>2. \A ip : WillBeUp(ip) <=> ip \in addrs
    BY <1>1, WillBeUpIsWillBe DEF AtRest, WillBe, Asks
  <2>3. addrs \subseteq IPs
    BY <1>1 DEF TypeOK
  <2> QED BY <1>1, <2>1, <2>2, <2>3 DEF RequestsAgreeWithStore
<1> QED BY <1>1, TypeCorrect, RequestsFollowStore, PTL
=============================================================================
