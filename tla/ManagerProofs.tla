--------------------------- MODULE ManagerProofs ---------------------------
(***************************************************************************)
(* What holds of GatewayManager for any number of gateways, hosts, callers,*)
(* records, connections, refreshes and scans.                              *)
(***************************************************************************)
EXTENDS GatewayManager, TLAPS

InQueue(w, q) == \E i \in 1..Len(q) : q[i] = w
Once(q) == \A i, j \in 1..Len(q) : q[i] = q[j] => i = j

Users == Tasks \union {Closer}
InLock == Critical \union {"waitlock"}
Holding == {"connecting", "connected"}

\* A queue names nobody twice and not the holder, and a lock with a queue is held.
Queues ==
    \A u \in Uids :
        /\ Once(waiters[u]) /\ ~InQueue(lock[u], waiters[u])
        /\ waiters[u] # <<>> => lock[u] # Nobody

\* w holds the lock of u or waits for it.
Wants(w, u) == lock[u] = w \/ InQueue(w, waiters[u])

\* The locks agree with where the tasks are: who waits is in the queue or has
\* been woken, and who is in a critical section holds the lock.
LocksOK ==
    /\ Queues
    /\ \A t \in Tasks :
          /\ pc[t] \in InLock => job[t].uid \in Uids
          /\ \A u \in Uids : Wants(t, u) <=> pc[t] \in InLock /\ job[t].uid = u
          /\ pc[t] \in Critical => lock[job[t].uid] = t
    /\ \A u \in Uids : Wants(Closer, u) => closing[u] # Nobody

Known(r) == heap[r].cloud # Nobody

\* Each record is one gateway's, and so is each connection of a record.
RecordsOK ==
    /\ \A u, v \in Uids : records[u] = records[v] /\ records[u] # Nobody => u = v
    /\ \A u \in Uids : records[u] # Nobody => Known(records[u])
    /\ \A u \in Uids : closing[u] # Nobody =>
          /\ Known(closing[u])
          /\ \A v \in Uids : records[v] = closing[u] => v = u
    /\ \A r \in Records : heap[r].conn # Nobody =>
          /\ conns[heap[r].conn].phase \notin {"none", "opening"}
          /\ \A s \in Records : heap[s].conn = heap[r].conn => s = r
          /\ \A u \in Uids : records[u] = r => conns[heap[r].conn].uid = u

\* The record in the locals of a task is a gateway's, if still anyone's.
RecordOK(t) ==
    /\ pc[t] \in Critical \/ (t = Discoverer /\ pc[t] = "waitlock") => job[t].rec # Nobody
    /\ job[t].rec # Nobody =>
          /\ Known(job[t].rec)
          /\ \A v \in Uids : records[v] = job[t].rec => v = job[t].uid
    /\ pc[t] = "closing_old" => t \in Callers
    /\ pc[t] \notin InLock \/ t = Updater => job[t].rec = Nobody
    /\ t = Updater => pc[t] \notin Critical

\* A call works on the record in the table, whose connection it has closed.
CallOK(t) ==
    t \in Callers /\ pc[t] \in Critical =>
        /\ records[job[t].uid] = job[t].rec
        /\ heap[job[t].rec].conn # Nobody => ~Live(heap[job[t].rec].conn)

\* The connection a task opens is its own, and pushes only for a call.
ConnOK(t) ==
    pc[t] \in Holding =>
        LET c == job[t].conn IN
        /\ c # Nobody
        /\ conns[c].uid = job[t].uid /\ conns[c].host = job[t].host
        /\ conns[c].phase \in IF pc[t] = "connecting" THEN {"opening"} ELSE {"ready", "down"}
        /\ t = Discoverer => ~conns[c].pushes
        /\ \A r \in Records : heap[r].conn # c
        /\ \A s \in Tasks : pc[s] \in Holding /\ job[s].conn = c => s = t

JobsOK == \A t \in Tasks : RecordOK(t) /\ CallOK(t) /\ ConnOK(t)

\* Only close detaches records.
ClosingOK == ~closed => \A u \in Uids : closing[u] = Nobody

\* What holds of every execution.
ManagerInv == TypeOK /\ LocksOK /\ RecordsOK /\ JobsOK /\ ClosingOK

\* Once close has been called, what it has not detached yet is what it will.
CloseOK ==
    closed =>
        /\ \A u \in Uids : records[u] # Nobody =>
              IF closing[u] # Nobody THEN records[u] = closing[u]
              ELSE heap[records[u]].conn = Nobody
        /\ \A t \in Tasks : pc[t] \in Critical => closing[job[t].uid] # Nobody

\* Discovery works on the record in the table, as no gateway is removed meanwhile.
DiscoverOK ==
    /\ Apart
    /\ pc[Discoverer] \in InLock => records[job[Discoverer].uid] = job[Discoverer].rec

\* What holds as long as removals and discovery keep apart.
ApartInv == DiscoverOK /\ NoOrphanConnection /\ CloseOK
-----------------------------------------------------------------------------
\* What a queue names after a task has joined it,
LEMMA JoinQueue == ASSUME NEW S, NEW q \in Seq(S), NEW t \in S, Once(q), ~InQueue(t, q)
  PROVE /\ Append(q, t) \in Seq(S) /\ Once(Append(q, t))
        /\ \A w : InQueue(w, Append(q, t)) <=> w = t \/ InQueue(w, q)
<1> DEFINE p == Append(q, t)
<1>1. /\ p \in Seq(S) /\ Len(p) = Len(q) + 1 /\ Len(q) \in Nat
      /\ \A i \in 1..Len(q) : p[i] = q[i]
      /\ p[Len(q) + 1] = t
  OBVIOUS
<1> HIDE DEF p
<1>2. Once(p)
  BY <1>1 DEF Once, InQueue
<1>3. \A w : InQueue(w, p) <=> w = t \/ InQueue(w, q)
  BY <1>1 DEF InQueue
<1>4. QED
  BY <1>1, <1>2, <1>3 DEF p

\* after its head has been woken,
LEMMA WakeHead == ASSUME NEW S, NEW q \in Seq(S), Once(q), q # <<>>
  PROVE /\ Tail(q) \in Seq(S) /\ Once(Tail(q)) /\ Head(q) \in S
        /\ \A w : InQueue(w, Tail(q)) <=> w # Head(q) /\ InQueue(w, q)
        /\ InQueue(Head(q), q)
<1> DEFINE p == Tail(q)
<1>1. /\ p \in Seq(S) /\ Len(p) = Len(q) - 1 /\ Len(q) \in Nat /\ Len(q) > 0
      /\ \A i \in 1..Len(p) : p[i] = q[i + 1]
      /\ Head(q) = q[1] /\ q[1] \in S
  OBVIOUS
<1> HIDE DEF p
<1>2. Once(p)
  BY <1>1 DEF Once
<1>3. ASSUME NEW w PROVE InQueue(w, p) <=> w # Head(q) /\ InQueue(w, q)
  <2>1. ASSUME NEW i \in 1..Len(p), p[i] = w PROVE w # Head(q) /\ InQueue(w, q)
    BY <1>1, <2>1 DEF InQueue, Once
  <2>2. ASSUME NEW i \in 1..Len(q), q[i] = w, w # Head(q) PROVE InQueue(w, p)
    <3>1. i - 1 \in 1..Len(p) /\ p[i - 1] = w
      BY <1>1, <2>2
    <3>2. QED
      BY <3>1 DEF InQueue
  <2>3. QED
    BY <2>1, <2>2 DEF InQueue
<1>4. QED
  BY <1>1, <1>2, <1>3 DEF p, InQueue

\* and after a task has been cancelled in it.
LEMMA QuitQueue == ASSUME NEW S, NEW q \in Seq(S), Once(q), NEW k \in 1..Len(q)
  PROVE /\ RemoveAt(q, k) \in Seq(S) /\ Once(RemoveAt(q, k))
        /\ \A w : InQueue(w, RemoveAt(q, k)) <=> w # q[k] /\ InQueue(w, q)
<1> DEFINE p == RemoveAt(q, k)
           a == SubSeq(q, 1, k - 1)
           b == SubSeq(q, k + 1, Len(q))
<1>1. /\ a \in Seq(S) /\ Len(a) = k - 1 /\ \A i \in 1..(k - 1) : a[i] = q[i]
      /\ Len(q) \in Nat /\ k \in 1..Len(q)
  OBVIOUS
<1>2. /\ b \in Seq(S) /\ Len(b) = Len(q) - k /\ \A i \in 1..(Len(q) - k) : b[i] = q[i + k]
  OBVIOUS
<1> HIDE DEF a, b
<1>3. p = a \o b
  BY DEF p, RemoveAt, a, b
<1>4. /\ p \in Seq(S) /\ Len(p) = Len(q) - 1
      /\ \A i \in 1..Len(p) : p[i] = IF i < k THEN q[i] ELSE q[i + 1]
  <2>1. p \in Seq(S) /\ Len(p) = Len(q) - 1
    BY <1>1, <1>2, <1>3
  <2>2. ASSUME NEW i \in 1..Len(p) PROVE p[i] = IF i < k THEN q[i] ELSE q[i + 1]
    <3>1. CASE i < k
      BY <1>1, <1>2, <1>3, <2>1, <3>1
    <3>2. CASE i >= k
      <4>1. p[i] = b[i - (k - 1)] /\ i - (k - 1) \in 1..(Len(q) - k)
        BY <1>1, <1>2, <1>3, <2>1, <3>2
      <4>2. QED
        BY <1>1, <1>2, <2>1, <3>2, <4>1
    <3>3. QED
      BY <1>1, <2>1, <3>1, <3>2
  <2>3. QED
    BY <2>1, <2>2
<1> HIDE DEF p
\* Where the i-th of those that are left stood before.
<1> DEFINE was(i) == IF i < k THEN i ELSE i + 1
<1>5. \A i \in 1..Len(p) : /\ was(i) \in 1..Len(q) /\ was(i) # k /\ p[i] = q[was(i)]
                           /\ \A j \in 1..Len(p) : was(i) = was(j) => i = j
  BY <1>1, <1>4
<1> HIDE DEF was
<1>6. Once(p)
  BY <1>5 DEF Once
<1>7. ASSUME NEW w PROVE InQueue(w, p) <=> w # q[k] /\ InQueue(w, q)
  <2>1. ASSUME NEW i \in 1..Len(p), p[i] = w PROVE w # q[k] /\ InQueue(w, q)
    BY <1>5, <2>1 DEF InQueue, Once
  <2>2. ASSUME NEW i \in 1..Len(q), q[i] = w, w # q[k] PROVE InQueue(w, p)
    <3>1. CASE i < k
      <4>1. i \in 1..Len(p) /\ p[i] = w
        BY <1>1, <1>4, <2>2, <3>1
      <4>2. QED
        BY <4>1 DEF InQueue
    <3>2. CASE i > k
      <4>1. i - 1 \in 1..Len(p) /\ p[i - 1] = w
        BY <1>1, <1>4, <2>2, <3>2
      <4>2. QED
        BY <4>1 DEF InQueue
    <3>3. QED
      BY <1>1, <2>2, <3>1, <3>2
  <2>3. QED
    BY <2>1, <2>2 DEF InQueue
<1>8. QED
  BY <1>4, <1>6, <1>7 DEF p

\* The fixed tasks are no callers, and Nobody is none of the things it stands in for.
LEMMA Names ==
    /\ Discoverer \in Tasks /\ Updater \in Tasks
    /\ Discoverer \notin Callers /\ Updater \notin Callers /\ Discoverer # Updater
    /\ Closer \notin Tasks /\ Callers \subseteq Tasks
    /\ Nobody \notin Users /\ Nobody \notin Uids /\ Nobody \notin Hosts
    /\ Nobody \notin Records /\ Nobody \notin Conns
  BY NobodyAssumption DEF Discoverer, Updater, Closer, Tasks, Users

LockTypes ==
    /\ lock \in [Uids -> Opt(Users)]
    /\ waiters \in [Uids -> Seq(Users)]

\* What a lock operation of w does to the locks: w comes to want the lock of u,
\* or wants it no more, and nobody else's place changes.
Enters(t, u) ==
    /\ LockTypes' /\ Queues'
    /\ \A w \in Users, v \in Uids : Wants(w, v)' <=> Wants(w, v) \/ (w = t /\ v = u)
    /\ \A v \in Uids : lock[v] \notin {t, Nobody} => lock'[v] = lock[v]
Leaves(t, u) ==
    /\ LockTypes' /\ Queues'
    /\ \A w \in Users, v \in Uids : Wants(w, v)' <=> Wants(w, v) /\ ~(w = t /\ v = u)
    /\ \A v \in Uids : lock[v] \notin {t, Nobody} => lock'[v] = lock[v]

\* A lock that is free is left free, one that is held passes to its queue's head.
LEMMA ReleaseLeaves ==
    ASSUME LockTypes, Queues, NEW t \in Users, NEW u \in Uids, lock[u] \in {t, Nobody}, Release(u)
    PROVE  Leaves(t, u)
<1>1. CASE waiters[u] = <<>>
  <2>1. /\ lock' = [lock EXCEPT ![u] = Nobody] /\ waiters'[u] = <<>>
        /\ \A v \in Uids \ {u} : waiters'[v] = waiters[v]
        /\ waiters' \in [Uids -> Seq(Users)]
    BY <1>1 DEF Release, LockTypes
  <2>2. LockTypes'
    BY <2>1 DEF LockTypes, Opt
  <2>3. \A w : ~InQueue(w, <<>>)
    BY DEF InQueue
  <2>4. Once(<<>>)
    BY DEF Once
  <2>5. \A v \in Uids : lock'[v] = IF v = u THEN Nobody ELSE lock[v]
    BY <2>1 DEF LockTypes
  <2>6. Queues'
    BY <2>1, <2>3, <2>4, <2>5 DEF Queues
  <2>7. \A w \in Users, v \in Uids : Wants(w, v)' <=> Wants(w, v) /\ ~(w = t /\ v = u)
    BY <1>1, <2>1, <2>3, <2>5, Names DEF Wants
  <2>8. QED
    BY <2>2, <2>5, <2>6, <2>7 DEF Leaves
<1>2. CASE waiters[u] # <<>>
  <2> DEFINE q == waiters[u]
  <2>1. lock[u] = t
    BY <1>2 DEF Queues
  <2>2. q \in Seq(Users) /\ Once(q)
    BY DEF LockTypes, Queues
  <2>3. /\ Tail(q) \in Seq(Users) /\ Once(Tail(q)) /\ Head(q) \in Users
        /\ \A w : InQueue(w, Tail(q)) <=> w # Head(q) /\ InQueue(w, q)
        /\ InQueue(Head(q), q)
    BY <1>2, <2>2, WakeHead
  <2>4. /\ lock' = [lock EXCEPT ![u] = Head(q)]
        /\ waiters' = [waiters EXCEPT ![u] = Tail(q)]
    BY <1>2 DEF Release
  <2> HIDE DEF q
  <2>5. LockTypes'
    BY <2>3, <2>4 DEF LockTypes, Opt
  <2>6. \A v \in Uids : /\ lock'[v] = IF v = u THEN Head(q) ELSE lock[v]
                        /\ waiters'[v] = IF v = u THEN Tail(q) ELSE waiters[v]
    BY <2>4 DEF LockTypes
  <2>7. Queues'
    BY <2>3, <2>6, Names DEF Queues
  <2>8. ~InQueue(t, q)
    BY <2>1 DEF Queues, q
  <2>9. \A w \in Users, v \in Uids : Wants(w, v)' <=> Wants(w, v) /\ ~(w = t /\ v = u)
    BY <2>1, <2>3, <2>6, <2>8 DEF Wants, q
  <2>10. QED
    BY <2>1, <2>5, <2>6, <2>7, <2>9 DEF Leaves
<1>3. QED
  BY <1>1, <1>2

\* A lock that is free, or already its own, becomes the task's.
LEMMA HoldEnters ==
    ASSUME LockTypes, Queues, NEW t \in Users, NEW u \in Uids, lock[u] \in {t, Nobody}, Hold(u, t)
    PROVE  Enters(t, u) /\ lock'[u] = t
<1>1. /\ waiters' = waiters
      /\ \A v \in Uids : lock'[v] = IF v = u THEN t ELSE lock[v]
      /\ lock' \in [Uids -> Opt(Users)]
  BY DEF Hold, LockTypes, Opt
<1>2. lock[u] = Nobody => waiters[u] = <<>>
  BY DEF Queues
<1>3. \A w : ~InQueue(w, <<>>)
  BY DEF InQueue
<1>4. Queues'
  BY <1>1, <1>2, <1>3, Names DEF Queues
<1>5. \A w \in Users, v \in Uids : Wants(w, v)' <=> Wants(w, v) \/ (w = t /\ v = u)
  BY <1>1, <1>2, <1>3, Names DEF Wants
<1>6. QED
  BY <1>1, <1>4, <1>5 DEF Enters, LockTypes

\* A task that has to wait joins the queue.
LEMMA WaitEnters ==
    ASSUME LockTypes, Queues, NEW t \in Users, NEW u \in Uids, ~Free(u), ~Wants(t, u), Wait(u, t)
    PROVE  Enters(t, u) /\ lock' = lock
<1> DEFINE q == waiters[u]
<1>1. q \in Seq(Users) /\ Once(q) /\ ~InQueue(t, q) /\ lock[u] # Nobody /\ ~InQueue(lock[u], q)
  BY DEF LockTypes, Queues, Wants, Free
<1>2. /\ Append(q, t) \in Seq(Users) /\ Once(Append(q, t))
      /\ \A w : InQueue(w, Append(q, t)) <=> w = t \/ InQueue(w, q)
  BY <1>1, JoinQueue
<1>3. lock' = lock /\ waiters' = [waiters EXCEPT ![u] = Append(q, t)]
  BY DEF Wait
<1> DEFINE p == Append(q, t)
<1> HIDE DEF p, q
<1>4. /\ waiters' \in [Uids -> Seq(Users)]
      /\ \A v \in Uids : waiters'[v] = IF v = u THEN p ELSE waiters[v]
  BY <1>2, <1>3 DEF LockTypes, p
<1>5. lock[u] # t
  BY DEF Wants
<1>6. Queues'
  BY <1>1, <1>2, <1>3, <1>4, <1>5 DEF Queues, p
<1>7. \A w \in Users, v \in Uids : Wants(w, v)' <=> Wants(w, v) \/ (w = t /\ v = u)
  BY <1>2, <1>3, <1>4 DEF Wants, p, q
<1>8. QED
  BY <1>3, <1>4, <1>6, <1>7 DEF Enters, LockTypes

\* A cancelled task gives up the lock, or its place in the queue.
LEMMA WithdrawLeaves ==
    ASSUME LockTypes, Queues, NEW t \in Users, NEW u \in Uids, Withdraw(u, t)
    PROVE  Leaves(t, u)
<1>1. CASE lock[u] = t
  BY <1>1, ReleaseLeaves DEF Withdraw
<1>2. CASE lock[u] # t
  <2> DEFINE q == waiters[u]
  <2>1. PICK k \in DOMAIN q : q[k] = t /\ waiters' = [waiters EXCEPT ![u] = RemoveAt(q, k)]
    BY <1>2 DEF Withdraw
  <2>2. q \in Seq(Users) /\ Once(q) /\ k \in 1..Len(q) /\ q # <<>>
    BY <2>1 DEF LockTypes, Queues
  <2>3. /\ RemoveAt(q, k) \in Seq(Users) /\ Once(RemoveAt(q, k))
        /\ \A w : InQueue(w, RemoveAt(q, k)) <=> w # t /\ InQueue(w, q)
    BY <2>1, <2>2, QuitQueue
  <2>4. lock' = lock /\ lock[u] # Nobody /\ ~InQueue(lock[u], q)
    BY <1>2, <2>2 DEF Withdraw, Queues
  <2> DEFINE p == RemoveAt(q, k)
  <2> HIDE DEF p, q
  <2>5. /\ waiters' \in [Uids -> Seq(Users)]
        /\ \A v \in Uids : waiters'[v] = IF v = u THEN p ELSE waiters[v]
    BY <2>1, <2>3 DEF LockTypes, p
  <2>6. Queues'
    BY <2>3, <2>4, <2>5 DEF Queues, p
  <2>7. \A w \in Users, v \in Uids : Wants(w, v)' <=> Wants(w, v) /\ ~(w = t /\ v = u)
    BY <1>2, <2>3, <2>4, <2>5 DEF Wants, p, q
  <2>8. QED
    BY <2>4, <2>5, <2>6, <2>7 DEF Leaves, LockTypes
<1>3. QED
  BY <1>1, <1>2
-----------------------------------------------------------------------------
Jobs == [op : Ops \union {"none", "discover"}, uid : Opt(Uids), rec : Opt(Records),
         conn : Opt(Conns), host : Opt(Hosts)]

\* Only t moves.
Same(t) == \A s \in Tasks : s # t => pc'[s] = pc[s] /\ job'[s] = job[s]
\* t moves to p, with the locals j.
Lands(t, p, j) == pc' = [pc EXCEPT ![t] = p] /\ job' = [job EXCEPT ![t] = j]
Landed(t, p, j) ==
    /\ pc' \in [Tasks -> Places] /\ job' \in [Tasks -> Jobs]
    /\ Same(t) /\ pc'[t] = p /\ job'[t] = j

\* Moving a task moves no other one, and keeps the types.
LEMMA LandsThere ==
    ASSUME TypeOK, NEW t \in Tasks, NEW p \in Places, NEW j \in Jobs, Lands(t, p, j)
    PROVE  Landed(t, p, j)
  BY DEF Lands, Landed, Same, TypeOK, Jobs

\* A task that raises or returns is out of every critical section, and holds no record.
LEMMA RaiseLands ==
    ASSUME TypeOK, NEW t \in Tasks, Raise(t)
    PROVE  \E p \in Places \ InLock : Landed(t, p, NoJob)
<1>1. NoJob \in Jobs
  BY DEF NoJob, Jobs, Opt
<1> DEFINE p == IF t \in Callers THEN "raised" ELSE "idle"
<1>2. p \in Places \ InLock
  BY DEF Places, InLock, Critical
<1>3. Landed(t, p, NoJob)
  BY <1>1, <1>2, LandsThere DEF Lands, Raise
<1>4. QED
  BY <1>2, <1>3

\* So does one that returns, with the gateway it is connected to.
LEMMA ReturnLands ==
    ASSUME TypeOK, NEW t \in Tasks, NEW u \in Opt(Uids), Return(t, u)
    PROVE  \E p \in Places \ InLock : Landed(t, p, [NoJob EXCEPT !.uid = u])
<1> DEFINE j == [NoJob EXCEPT !.uid = u]
           p == IF t \in Callers THEN "returned" ELSE "idle"
<1>1. j \in Jobs
  BY DEF NoJob, Jobs, Opt
<1>2. p \in Places \ InLock
  BY DEF Places, InLock, Critical
<1>3. Landed(t, p, j)
  BY <1>1, <1>2, LandsThere DEF Lands, Return
<1>4. QED
  BY <1>2, <1>3

\* The part of the types the lock operations need.
LEMMA TypedLocks == TypeOK => LockTypes
  BY DEF TypeOK, LockTypes, Users

\* The locks still agree with the tasks after t has left the lock of u,
LEMMA LeavesLock ==
    ASSUME TypeOK, LocksOK, NEW t \in Tasks, NEW u \in Uids, Leaves(t, u), Same(t),
           pc'[t] \notin InLock, pc[t] \in InLock => job[t].uid = u, closing' = closing
    PROVE  LocksOK'
<1>1. Queues'
  BY DEF Leaves
<1>2. ASSUME NEW s \in Tasks
      PROVE  /\ pc'[s] \in InLock => job'[s].uid \in Uids
             /\ \A v \in Uids : Wants(s, v)' <=> pc'[s] \in InLock /\ job'[s].uid = v
             /\ pc'[s] \in Critical => lock'[job'[s].uid] = s
  <2>1. \A v \in Uids : /\ Wants(s, v)' <=> Wants(s, v) /\ ~(s = t /\ v = u)
                        /\ Wants(s, v) <=> pc[s] \in InLock /\ job[s].uid = v
    BY DEF Leaves, LocksOK, Users
  <2>2. CASE s = t
    BY <2>1, <2>2 DEF InLock
  <2>3. CASE s # t
    <3>1. pc'[s] = pc[s] /\ job'[s] = job[s]
      BY <2>3 DEF Same
    <3>2. pc[s] \in Critical => job[s].uid \in Uids /\ lock[job[s].uid] = s
      BY DEF LocksOK, InLock
    <3>3. s # Nobody
      BY Names DEF Users
    <3>4. pc[s] \in Critical => lock'[job[s].uid] = s
      BY <2>3, <3>2, <3>3 DEF Leaves
    <3>5. QED
      BY <2>1, <2>3, <3>1, <3>4 DEF LocksOK
  <2>4. QED
    BY <2>2, <2>3
<1>3. \A v \in Uids : Wants(Closer, v)' => closing'[v] # Nobody
  BY DEF Leaves, LocksOK, Users
<1>4. QED
  BY <1>1, <1>2, <1>3 DEF LocksOK, Wants

\* or has come to want it.
LEMMA EntersLock ==
    ASSUME TypeOK, LocksOK, NEW t \in Tasks, NEW u \in Uids, Enters(t, u), Same(t),
           pc'[t] \in InLock, job'[t].uid = u, pc'[t] \in Critical => lock'[u] = t,
           pc[t] \in InLock => job[t].uid = u, closing' = closing
    PROVE  LocksOK'
<1>1. Queues'
  BY DEF Enters
<1>2. ASSUME NEW s \in Tasks
      PROVE  /\ pc'[s] \in InLock => job'[s].uid \in Uids
             /\ \A v \in Uids : Wants(s, v)' <=> pc'[s] \in InLock /\ job'[s].uid = v
             /\ pc'[s] \in Critical => lock'[job'[s].uid] = s
  <2>1. \A v \in Uids : /\ Wants(s, v)' <=> Wants(s, v) \/ (s = t /\ v = u)
                        /\ Wants(s, v) <=> pc[s] \in InLock /\ job[s].uid = v
    BY DEF Enters, LocksOK, Users
  <2>2. CASE s = t
    BY <2>1, <2>2
  <2>3. CASE s # t
    <3>1. pc'[s] = pc[s] /\ job'[s] = job[s]
      BY <2>3 DEF Same
    <3>2. pc[s] \in Critical => job[s].uid \in Uids /\ lock[job[s].uid] = s
      BY DEF LocksOK, InLock
    <3>3. s # Nobody
      BY Names DEF Users
    <3>4. pc[s] \in Critical => lock'[job[s].uid] = s
      BY <2>3, <3>2, <3>3 DEF Enters
    <3>5. QED
      BY <2>1, <2>3, <3>1, <3>4 DEF LocksOK
  <2>4. QED
    BY <2>2, <2>3
<1>3. \A v \in Uids : Wants(Closer, v)' => closing'[v] # Nobody
  BY Names DEF Enters, LocksOK, Users
<1>4. QED
  BY <1>1, <1>2, <1>3 DEF LocksOK, Wants

\* A task may move without the locks.
LEMMA KeepsLock ==
    ASSUME TypeOK, LocksOK, NEW t \in Tasks, UNCHANGED <<lock, waiters, closing>>, Same(t),
           pc'[t] \in InLock <=> pc[t] \in InLock,
           pc'[t] \in InLock => job'[t].uid = job[t].uid,
           pc'[t] \in Critical => lock[job[t].uid] = t
    PROVE  LocksOK'
<1>1. Queues' <=> Queues
  BY DEF Queues
<1>2. \A w, u : Wants(w, u)' <=> Wants(w, u)
  BY DEF Wants
<1>3. ASSUME NEW s \in Tasks
      PROVE  /\ pc'[s] \in InLock => job'[s].uid \in Uids
             /\ \A v \in Uids : Wants(s, v)' <=> pc'[s] \in InLock /\ job'[s].uid = v
             /\ pc'[s] \in Critical => lock'[job'[s].uid] = s
  <2>1. CASE s = t
    BY <1>2, <2>1 DEF LocksOK, InLock
  <2>2. CASE s # t
    BY <1>2, <2>2 DEF LocksOK, Same
  <2>3. QED
    BY <2>1, <2>2
<1>4. QED
  BY <1>1, <1>2, <1>3 DEF LocksOK
-----------------------------------------------------------------------------
ConnType == [uid : Opt(Uids), host : Opt(Hosts), phase : Phases,
             pushes : BOOLEAN, confirmed : BOOLEAN, viaCloud : BOOLEAN]

\* Closing a connection changes nothing else about it, and no other one.
LEMMA ShutAny ==
    ASSUME NEW cs \in [Conns -> ConnType], NEW c \in Opt(Conns)
    PROVE  /\ Shut(cs, c) \in [Conns -> ConnType]
           /\ \A d \in Conns :
                 /\ Shut(cs, c)[d].phase = IF d = c THEN "closed" ELSE cs[d].phase
                 /\ Shut(cs, c)[d].uid = cs[d].uid /\ Shut(cs, c)[d].host = cs[d].host
                 /\ Shut(cs, c)[d].pushes = cs[d].pushes
<1>1. CASE c = Nobody
  BY <1>1, Names DEF Shut
<1>2. CASE c # Nobody
  <2>1. c \in Conns
    BY <1>2 DEF Opt
  <2> DEFINE e == [cs[c] EXCEPT !.phase = "closed", !.confirmed = FALSE]
  <2>2. Shut(cs, c) = [cs EXCEPT ![c] = e]
    BY <1>2, <2>1 DEF Shut
  <2>3. cs[c] \in ConnType
    BY <2>1
  <2>4. /\ e \in ConnType /\ e.phase = "closed" /\ e.uid = cs[c].uid
        /\ e.host = cs[c].host /\ e.pushes = cs[c].pushes
    BY <2>3 DEF ConnType, Phases
  <2> HIDE DEF e
  <2>5. QED
    BY <2>1, <2>2, <2>4
<1>3. QED
  BY <1>1, <1>2

\* The same of a step that closes a connection.
LEMMA ShutEffect ==
    ASSUME TypeOK, NEW c \in Opt(Conns), conns' = Shut(conns, c)
    PROVE  /\ conns' \in [Conns -> ConnType]
           /\ \A d \in Conns :
                 /\ conns'[d].phase = IF d = c THEN "closed" ELSE conns[d].phase
                 /\ conns'[d].uid = conns[d].uid /\ conns'[d].host = conns[d].host
                 /\ conns'[d].pushes = conns[d].pushes
<1>1. conns \in [Conns -> ConnType]
  BY DEF TypeOK, ConnType
<1>2. QED
  BY <1>1, ShutAny

\* Both invariants hold again, the second one if removals and discovery keep apart.
Kept == ManagerInv' /\ (ApartInv /\ Apart' => ApartInv')

RestTypes ==
    /\ DOMAIN scan \subseteq Uids /\ \A u \in DOMAIN scan : scan[u] \in Hosts
    /\ stale \subseteq Uids
    /\ left \in [updates : 0..Updates, scans : 0..Scans]

\* A step of t that may close a connection, but not one that another task is
\* opening, and that changes no record.
LEMMA ShutKeeps ==
    ASSUME ManagerInv, NEW t \in Tasks, NEW c \in Opt(Conns), conns' = Shut(conns, c),
           UNCHANGED <<records, heap, closing>>, Same(t), pc'[t] \notin Holding,
           \A s \in Tasks : s # t /\ pc[s] \in Holding => job[s].conn # c,
           pc[t] \in Holding => job[t].conn = c,
           RecordOK(t)', CallOK(t)',
           pc'[t] \in Critical => ~closed, closed' = closed,
           t = Discoverer /\ pc'[t] \in InLock => records[job'[t].uid] = job'[t].rec,
           pc' \in [Tasks -> Places], job' \in [Tasks -> Jobs], LockTypes', RestTypes', LocksOK'
    PROVE  Kept
<1>1. \A d \in Conns :
         /\ conns'[d].phase = IF d = c THEN "closed" ELSE conns[d].phase
         /\ conns'[d].uid = conns[d].uid /\ conns'[d].host = conns[d].host
         /\ conns'[d].pushes = conns[d].pushes
  BY ShutEffect DEF ManagerInv
<1>2. \A r \in Records : heap[r].conn # Nobody => heap[r].conn \in Conns
  BY DEF ManagerInv, TypeOK, Opt
<1>3. \A u \in Uids : records[u] # Nobody => records[u] \in Records
  BY DEF ManagerInv, TypeOK, Opt
<1>4. \A s \in Tasks : /\ job[s].conn # Nobody => job[s].conn \in Conns
                       /\ job[s].rec # Nobody => job[s].rec \in Records
  BY DEF ManagerInv, TypeOK, Opt
<1>5. RecordsOK'
  BY <1>1, <1>2, <1>3 DEF ManagerInv, RecordsOK, Known
<1>6. ASSUME NEW s \in Tasks, s # t PROVE RecordOK(s)' /\ CallOK(s)' /\ ConnOK(s)'
  <2>1. pc'[s] = pc[s] /\ job'[s] = job[s] /\ RecordOK(s) /\ CallOK(s) /\ ConnOK(s)
    BY <1>6 DEF Same, ManagerInv, JobsOK
  <2>2. RecordOK(s)'
    BY <2>1 DEF RecordOK, Known
  <2>3. CallOK(s)'
    BY <1>1, <1>2, <1>4, <2>1 DEF CallOK, Live, RecordOK
  <2>4. ConnOK(s)'
    BY <1>1, <1>4, <1>6, <2>1 DEF ConnOK, Same
  <2>5. QED
    BY <2>2, <2>3, <2>4
<1>7. ConnOK(t)'
  BY DEF ConnOK
<1>8. TypeOK'
  BY ShutEffect DEF ManagerInv, TypeOK, LockTypes, RestTypes, Users, Jobs, ConnType
<1>9. ASSUME ApartInv, Apart' PROVE ApartInv'
  <2>1. DiscoverOK'
    BY <1>9, Names DEF ApartInv, DiscoverOK, Same, InLock, Critical
  <2>2. NoOrphanConnection'
    <3> SUFFICES ASSUME NEW d \in Conns, Live(d)' PROVE Held(d)' \/ Attached(d)'
      BY DEF NoOrphanConnection
    <3>1. d # c /\ Live(d)
      BY <1>1 DEF Live
    <3>2. Held(d) \/ Attached(d)
      BY <1>9, <3>1 DEF ApartInv, NoOrphanConnection
    <3>3. Attached(d) => Attached(d)'
      BY DEF Attached
    <3>4. Held(d) => Held(d)'
      BY <3>1 DEF Held, Same, Holding
    <3>5. QED
      BY <3>2, <3>3, <3>4
  <2>3. CloseOK'
    BY <1>9 DEF ApartInv, CloseOK, Same
  <2>4. QED
    BY <2>1, <2>2, <2>3 DEF ApartInv
<1>10. QED
  BY <1>5, <1>6, <1>7, <1>8, <1>9 DEF JobsOK, Kept, ManagerInv, ClosingOK

\* A task that dials: a connection object nobody has becomes its own.
LEMMA StartLands ==
    ASSUME TypeOK, NEW t \in Tasks, NEW c \in Conns, NEW new \in ConnType, NEW j \in Jobs,
           conns' = [conns EXCEPT ![c] = new], Lands(t, "connecting", j)
    PROVE  /\ conns' \in [Conns -> ConnType] /\ conns'[c] = new
           /\ \A d \in Conns : d # c => conns'[d] = conns[d]
           /\ Landed(t, "connecting", j)
<1>1. Landed(t, "connecting", j)
  BY LandsThere DEF Places
<1>2. /\ conns' \in [Conns -> ConnType] /\ conns'[c] = new
      /\ \A d \in Conns : d # c => conns'[d] = conns[d]
  BY DEF TypeOK, ConnType
<1>3. QED
  BY <1>1, <1>2

\* A step in which t dials with a new connection, under the lock of u, for a record it
\* may rely on.
LEMMA StartKeeps ==
    ASSUME ManagerInv, NEW t \in Tasks, NEW u \in Uids, NEW rec \in Records, NEW c \in Conns,
           conns[c].phase = "none",
           \A d \in Conns : d # c => conns'[d] = conns[d],
           conns'[c].uid = u, conns'[c].phase = "opening",
           t = Discoverer => ~conns'[c].pushes,
           Same(t), pc'[t] = "connecting", job'[t].uid = u, job'[t].rec = rec, job'[t].conn = c,
           job'[t].host = conns'[c].host,
           UNCHANGED <<records, heap, closing>>,
           Known(rec), \A v \in Uids : records[v] = rec => v = u,
           t # Updater,
           t \in Callers => /\ records[u] = rec
                            /\ heap[rec].conn # Nobody => ~Live(heap[rec].conn),
           t = Discoverer /\ ApartInv => records[u] = rec,
           pc[t] \notin Holding, ~closed, closed' = closed,
           conns' \in [Conns -> ConnType],
           pc' \in [Tasks -> Places], job' \in [Tasks -> Jobs], LockTypes', RestTypes', LocksOK'
    PROVE  Kept
<1>1. \A r \in Records : /\ heap[r].conn # Nobody => heap[r].conn \in Conns
                         /\ heap[r].conn # c
  BY Names DEF ManagerInv, TypeOK, Opt, RecordsOK
<1>2. \A v \in Uids : records[v] # Nobody => records[v] \in Records
  BY DEF ManagerInv, TypeOK, Opt
<1>3. \A s \in Tasks : /\ job[s].conn # Nobody => job[s].conn \in Conns
                       /\ job[s].rec # Nobody => job[s].rec \in Records
                       /\ pc[s] \in Holding => job[s].conn # c
  <2> SUFFICES ASSUME NEW s \in Tasks
               PROVE  /\ job[s].conn # Nobody => job[s].conn \in Conns
                      /\ job[s].rec # Nobody => job[s].rec \in Records
                      /\ pc[s] \in Holding => job[s].conn # c
    OBVIOUS
  <2>1. ConnOK(s)
    BY DEF ManagerInv, JobsOK
  <2>2. pc[s] \in Holding => job[s].conn # c
    BY <2>1 DEF ConnOK
  <2>3. QED
    BY <2>2 DEF ManagerInv, TypeOK, Opt
<1>4. RecordsOK'
  BY <1>1, <1>2 DEF ManagerInv, RecordsOK, Known
<1>5. ASSUME NEW s \in Tasks, s # t PROVE RecordOK(s)' /\ CallOK(s)' /\ ConnOK(s)'
  <2>1. pc'[s] = pc[s] /\ job'[s] = job[s] /\ RecordOK(s) /\ CallOK(s) /\ ConnOK(s)
    BY <1>5 DEF Same, ManagerInv, JobsOK
  <2>2. RecordOK(s)'
    BY <2>1 DEF RecordOK, Known
  <2>3. CallOK(s)'
    BY <1>1, <1>3, <2>1 DEF CallOK, Live, RecordOK
  <2>4. ConnOK(s)'
    BY <1>3, <1>5, <2>1 DEF ConnOK, Same
  <2>5. QED
    BY <2>2, <2>3, <2>4
<1>6. RecordOK(t)'
  BY Names DEF RecordOK, Known, Critical, InLock
<1>7. CallOK(t)'
  BY <1>1 DEF CallOK, Live
<1>8. ConnOK(t)'
  BY <1>1, <1>3, Names DEF ConnOK, Same, Holding
<1>9. TypeOK'
  BY DEF ManagerInv, TypeOK, LockTypes, RestTypes, Users, Jobs, ConnType
<1>10. ASSUME ApartInv, Apart' PROVE ApartInv'
  <2>1. DiscoverOK'
    BY <1>10, Names DEF ApartInv, DiscoverOK, Same
  <2>2. NoOrphanConnection'
    <3> SUFFICES ASSUME NEW d \in Conns, Live(d)' PROVE Held(d)' \/ Attached(d)'
      BY DEF NoOrphanConnection
    <3>1. CASE d = c
      BY <3>1 DEF Held
    <3>2. CASE d # c
      <4>1. Held(d) \/ Attached(d)
        BY <1>10, <3>2 DEF ApartInv, NoOrphanConnection, Live
      <4>2. Attached(d) => Attached(d)'
        BY DEF Attached
      <4>3. Held(d) => Held(d)'
        BY DEF Held, Same, Holding
      <4>4. QED
        BY <4>1, <4>2, <4>3
    <3>3. QED
      BY <3>1, <3>2
  <2>3. CloseOK'
    BY <1>10 DEF ApartInv, CloseOK, Same
  <2>4. QED
    BY <2>1, <2>2, <2>3 DEF ApartInv
<1>11. QED
  BY <1>4, <1>5, <1>6, <1>7, <1>8, <1>9, <1>10 DEF JobsOK, Kept, ManagerInv, ClosingOK

\* The variables that most steps leave alone keep their types.
LEMMA TypedRest == ManagerInv /\ UNCHANGED <<scan, stale, left>> => RestTypes'
  BY DEF ManagerInv, TypeOK, RestTypes

\* To close no connection is to change nothing.
LEMMA NobodyShut == Shut(conns, Nobody) = conns /\ Nobody \in Opt(Conns)
  BY DEF Shut, Opt

\* A task that leaves the lock of u for good, and may close a connection.
LEMMA OutKeeps ==
    ASSUME ManagerInv, NEW t \in Tasks, NEW u \in Uids, Leaves(t, u),
           pc[t] \in InLock => job[t].uid = u,
           NEW p \in Places \ InLock, NEW j \in Jobs, Landed(t, p, j), j.rec = Nobody,
           NEW c \in Opt(Conns), conns' = Shut(conns, c),
           pc[t] \in Holding => job[t].conn = c,
           \A s \in Tasks : s # t /\ pc[s] \in Holding => job[s].conn # c,
           UNCHANGED <<records, heap, closing, closed>>, RestTypes'
    PROVE  Kept
<1>1. /\ Same(t) /\ pc'[t] \notin InLock /\ job'[t].rec = Nobody
      /\ pc' \in [Tasks -> Places] /\ job' \in [Tasks -> Jobs]
  BY DEF Landed
<1>2. pc'[t] \notin Holding /\ pc'[t] \notin Critical /\ pc'[t] # "waitlock" /\ pc'[t] # "closing_old"
  BY <1>1 DEF InLock, Holding, Critical
<1>3. LocksOK' /\ LockTypes'
  BY <1>1, LeavesLock DEF ManagerInv, Leaves
<1>4. RecordOK(t)'
  BY <1>1, <1>2 DEF RecordOK
<1>5. CallOK(t)'
  BY <1>2 DEF CallOK
<1>6. QED
  BY <1>1, <1>2, <1>3, <1>4, <1>5, ShutKeeps

\* A redial makes one new connection, to the host the record names now.
LEMMA RedialLands ==
    ASSUME TypeOK, NEW t \in Tasks, NEW op \in Ops \union {"none", "discover"}, NEW u \in Uids,
           NEW rec \in Records, Redial(t, op, u, rec)
    PROVE  \E c \in Conns :
              /\ conns[c].phase = "none"
              /\ conns' \in [Conns -> ConnType]
              /\ \A d \in Conns : d # c => conns'[d] = conns[d]
              /\ conns'[c].uid = u /\ conns'[c].phase = "opening"
              /\ Landed(t, "connecting",
                        [op |-> op, uid |-> u, rec |-> rec, conn |-> c, host |-> conns'[c].host])
<1> DEFINE r == heap[rec]
           new == [uid |-> u, host |-> r.active, phase |-> "opening", pushes |-> TRUE,
                   confirmed |-> FALSE, viaCloud |-> r.active = r.cloud]
           j(c) == [op |-> op, uid |-> u, rec |-> rec, conn |-> c, host |-> r.active]
<1>1. PICK c \in Conns : /\ conns[c].phase = "none"
                         /\ conns' = [conns EXCEPT ![c] = new]
                         /\ Lands(t, "connecting", j(c))
  BY DEF Redial, StartConnect, Lands, Goto
<1>2. new \in ConnType /\ j(c) \in Jobs
  BY DEF ConnType, Opt, Phases, Jobs, TypeOK
<1>3. new.uid = u /\ new.host = r.active /\ new.phase = "opening"
  OBVIOUS
<1> HIDE DEF new
<1>4. /\ conns' \in [Conns -> ConnType] /\ conns'[c] = new
      /\ \A d \in Conns : d # c => conns'[d] = conns[d]
      /\ Landed(t, "connecting", j(c))
  BY <1>1, <1>2, StartLands
<1>5. QED
  BY <1>1, <1>3, <1>4

\* A call that holds the lock and has closed the old connection dials.
LEMMA RedialKeeps ==
    ASSUME ManagerInv, NEW t \in Callers, NEW op \in Ops \union {"none", "discover"}, NEW u \in Uids,
           NEW rec \in Records, Known(rec), \A v \in Uids : records[v] = rec => v = u,
           records[u] = rec, heap[rec].conn # Nobody => ~Live(heap[rec].conn),
           pc[t] \notin Holding, pc[t] \in InLock => job[t].uid = u,
           Enters(t, u), lock'[u] = t, ~closed,
           Redial(t, op, u, rec),
           UNCHANGED <<records, heap, scan, stale, closing, closed, left>>
    PROVE  Kept
<1>1. /\ t \in Tasks /\ t # Discoverer /\ t # Updater /\ TypeOK /\ RestTypes' /\ LockTypes'
  BY Names, TypedRest DEF ManagerInv, Enters
<1>2. PICK c \in Conns :
         /\ conns[c].phase = "none"
         /\ conns' \in [Conns -> ConnType]
         /\ \A d \in Conns : d # c => conns'[d] = conns[d]
         /\ conns'[c].uid = u /\ conns'[c].phase = "opening"
         /\ Landed(t, "connecting",
                   [op |-> op, uid |-> u, rec |-> rec, conn |-> c, host |-> conns'[c].host])
  BY <1>1, RedialLands
<1>3. /\ Same(t) /\ pc'[t] = "connecting" /\ job'[t].rec = rec /\ job'[t].uid = u
      /\ job'[t].conn = c /\ job'[t].host = conns'[c].host
      /\ pc' \in [Tasks -> Places] /\ job' \in [Tasks -> Jobs]
  BY <1>2 DEF Landed
<1>4. LocksOK'
  BY <1>1, <1>3, EntersLock DEF ManagerInv, InLock, Critical
<1>5. QED
  BY <1>1, <1>2, <1>3, <1>4, StartKeeps

\* What a call does inside the lock up to its first await.
LEMMA CallCriticalKeeps ==
    ASSUME ManagerInv, NEW t \in Callers, NEW op \in Ops \union {"none", "discover"}, NEW u \in Uids,
           lock[u] \in {t, Nobody}, pc[t] \in {"idle", "waitlock"},
           pc[t] \in InLock => job[t].uid = u,
           CallCritical(t, op, u),
           UNCHANGED <<records, heap, scan, stale, closing, closed, left>>
    PROVE  Kept
<1> DEFINE rec == records[u]
           old == heap[rec].conn
<1>1. /\ t \in Tasks /\ t \in Users /\ t # Discoverer /\ t # Updater
      /\ TypeOK /\ LockTypes /\ Queues /\ RestTypes'
      /\ pc[t] \notin Holding
  BY Names, TypedLocks, TypedRest DEF Users, ManagerInv, LocksOK, Holding
<1>2. CASE \/ (closed \/ rec = Nobody) /\ Raise(t) /\ Release(u) /\ UNCHANGED conns
           \/ Return(t, u) /\ Release(u) /\ UNCHANGED conns
  <2>1. Leaves(t, u) /\ conns' = Shut(conns, Nobody)
    BY <1>1, <1>2, ReleaseLeaves, NobodyShut
  <2>2. \E p \in Places \ InLock, j \in Jobs : Landed(t, p, j) /\ j.rec = Nobody
    <3>1. NoJob \in Jobs /\ [NoJob EXCEPT !.uid = u] \in Jobs /\ NoJob.rec = Nobody
          /\ [NoJob EXCEPT !.uid = u].rec = Nobody /\ u \in Opt(Uids)
      BY DEF NoJob, Jobs, Opt
    <3>2. CASE Raise(t)
      BY <1>1, <3>1, <3>2, RaiseLands
    <3>3. CASE Return(t, u)
      BY <1>1, <3>1, <3>3, ReturnLands
    <3>4. QED
      BY <1>2, <3>2, <3>3
  <2>3. \A s \in Tasks : s # t /\ pc[s] \in Holding => job[s].conn # Nobody
    BY DEF ManagerInv, JobsOK, ConnOK
  <2>4. QED
    BY <1>1, <2>1, <2>2, <2>3, NobodyShut, OutKeeps
<1>3. CASE /\ ~closed /\ rec # Nobody /\ Hold(u, t) /\ old # Nobody
           /\ conns' = Shut(conns, old)
           /\ job' = [job EXCEPT ![t] = [NoJob EXCEPT !.op = op, !.uid = u, !.rec = rec]]
           /\ Goto(t, "closing_old")
  <2> DEFINE j == [NoJob EXCEPT !.op = op, !.uid = u, !.rec = rec]
  <2>1. rec \in Records /\ old \in Conns /\ Known(rec) /\ \A v \in Uids : records[v] = rec => v = u
    BY <1>3 DEF ManagerInv, TypeOK, Opt, RecordsOK
  <2>2. j \in Jobs /\ j.rec = rec /\ j.uid = u
    BY <2>1 DEF NoJob, Jobs, Opt
  <2>3. Landed(t, "closing_old", j)
    BY <1>1, <1>3, <2>2, LandsThere DEF Lands, Goto, Places
  <2>4. Enters(t, u) /\ lock'[u] = t
    BY <1>1, <1>3, HoldEnters
  <2>5. /\ Same(t) /\ pc'[t] = "closing_old" /\ job'[t].rec = rec /\ job'[t].uid = u
        /\ pc' \in [Tasks -> Places] /\ job' \in [Tasks -> Jobs]
    BY <2>2, <2>3 DEF Landed
  <2>6. LocksOK' /\ LockTypes'
    BY <1>1, <2>4, <2>5, EntersLock DEF ManagerInv, InLock, Critical, Enters
  <2>7. \A s \in Tasks : s # t /\ pc[s] \in Holding => job[s].conn # old
    BY <2>1 DEF ManagerInv, JobsOK, ConnOK
  <2>8. RecordOK(t)'
    BY <1>1, <1>3, <2>1, <2>5 DEF RecordOK, Known, Critical, InLock
  <2>9. conns'[old].phase = "closed" /\ heap[rec].conn = old /\ heap' = heap /\ records' = records
    BY <1>1, <1>3, <2>1, ShutEffect DEF Opt
  <2>10. CallOK(t)'
    BY <2>5, <2>9 DEF CallOK, Live
  <2>11. old \in Opt(Conns) /\ pc'[t] \notin Holding
    BY <2>1, <2>5 DEF Opt, Holding
  <2>12. QED
    BY <1>1, <1>3, <2>5, <2>6, <2>7, <2>8, <2>10, <2>11, ShutKeeps
<1>4. CASE /\ ~closed /\ rec # Nobody /\ Hold(u, t) /\ old = Nobody
           /\ Redial(t, op, u, rec)
  <2>1. rec \in Records /\ Known(rec) /\ \A v \in Uids : records[v] = rec => v = u
    BY <1>4 DEF ManagerInv, TypeOK, Opt, RecordsOK
  <2> HIDE DEF rec
  <2>2. Enters(t, u) /\ lock'[u] = t
    BY <1>1, <1>4, HoldEnters
  <2>3. records[u] = rec /\ heap[rec].conn = Nobody
    BY <1>4 DEF rec
  <2>4. QED
    BY <1>1, <1>4, <2>1, <2>2, <2>3, RedialKeeps
<1>5. QED
  BY <1>2, <1>3, <1>4 DEF CallCritical

\* A step that leaves the connections alone closes none, in the form the lemmas ask for.
LEMMA SameConns == ASSUME ManagerInv, UNCHANGED conns
    PROVE /\ conns' = Shut(conns, Nobody) /\ Nobody \in Opt(Conns)
          /\ \A s \in Tasks : pc[s] \in Holding => job[s].conn # Nobody
  BY NobodyShut DEF ManagerInv, JobsOK, ConnOK

\* A task that has no business with a lock moves on.
LEMMA ApartKeeps ==
    ASSUME ManagerInv, NEW t \in Tasks, UNCHANGED <<lock, waiters>>, pc[t] \notin InLock,
           NEW p \in Places \ InLock, NEW j \in Jobs, Landed(t, p, j), j.rec = Nobody,
           UNCHANGED <<records, heap, conns, closing, closed>>, RestTypes'
    PROVE  Kept
<1>1. /\ Same(t) /\ pc'[t] \notin InLock /\ job'[t].rec = Nobody
      /\ pc' \in [Tasks -> Places] /\ job' \in [Tasks -> Jobs]
  BY DEF Landed
<1>2. /\ pc'[t] \notin Holding /\ pc'[t] \notin Critical /\ pc'[t] # "waitlock" /\ pc'[t] # "closing_old"
      /\ pc[t] \notin Holding
  BY <1>1 DEF InLock, Holding, Critical
<1>3. LocksOK' /\ LockTypes'
  BY <1>1, <1>2, KeepsLock, TypedLocks DEF ManagerInv, LockTypes
<1>4. RecordOK(t)' /\ CallOK(t)'
  BY <1>1, <1>2 DEF RecordOK, CallOK
<1>5. QED
  BY <1>1, <1>2, <1>3, <1>4, SameConns, ShutKeeps

\* A task that finds the lock taken joins its queue.
LEMMA WaitKeeps ==
    ASSUME ManagerInv, NEW t \in Tasks, NEW u \in Uids, ~Free(u), Wait(u, t), pc[t] \notin InLock,
           NEW j \in Jobs, Landed(t, "waitlock", j), j.uid = u,
           j.rec # Nobody => Known(j.rec) /\ \A v \in Uids : records[v] = j.rec => v = u,
           t = Discoverer => j.rec # Nobody /\ records[u] = j.rec,
           t = Updater => j.rec = Nobody,
           UNCHANGED <<records, heap, conns, closing, closed>>, RestTypes'
    PROVE  Kept
<1>1. /\ Same(t) /\ pc'[t] = "waitlock" /\ job'[t] = j
      /\ pc' \in [Tasks -> Places] /\ job' \in [Tasks -> Jobs]
  BY DEF Landed
<1>2. /\ pc'[t] \notin Holding /\ pc'[t] \notin Critical /\ pc'[t] \in InLock /\ pc[t] \notin Holding
  BY <1>1 DEF InLock, Holding, Critical
<1>3. ~Wants(t, u) /\ LockTypes /\ Queues /\ t \in Users
  BY TypedLocks DEF ManagerInv, LocksOK, Users
<1>4. Enters(t, u)
  BY <1>3, WaitEnters
<1>5. LocksOK' /\ LockTypes'
  BY <1>1, <1>2, <1>4, EntersLock DEF ManagerInv, Enters
<1>6. RecordOK(t)' /\ CallOK(t)'
  BY <1>1, <1>2 DEF RecordOK, CallOK, Known
<1>7. QED
  BY <1>1, <1>2, <1>5, <1>6, SameConns, ShutKeeps

\* ensure, reconnect or send is called,
LEMMA CallBeginKeeps ==
    ASSUME ManagerInv, NEW t \in Callers, NEW op \in Ops, NEW u \in Uids, CallBegin(t, op, u)
    PROVE  Kept
<1>1. /\ t \in Tasks /\ TypeOK /\ RestTypes' /\ pc[t] = "idle" /\ pc[t] \notin InLock
      /\ UNCHANGED <<records, heap, scan, stale, closing, closed, left>>
  BY Names, TypedRest DEF ManagerInv, CallBegin, InLock, Critical
<1>2. CASE closed /\ Raise(t) /\ UNCHANGED <<lock, waiters, conns>>
  <2>1. PICK p \in Places \ InLock : Landed(t, p, NoJob)
    BY <1>1, <1>2, RaiseLands
  <2>2. NoJob \in Jobs /\ NoJob.rec = Nobody
    BY DEF NoJob, Jobs, Opt
  <2>3. QED
    BY <1>1, <1>2, <2>1, <2>2, ApartKeeps
<1>3. CASE ~closed /\ Free(u) /\ CallCritical(t, op, u)
  BY <1>1, <1>3, CallCriticalKeeps DEF Free
<1>4. CASE /\ ~Free(u) /\ Wait(u, t) /\ Goto(t, "waitlock")
           /\ job' = [job EXCEPT ![t] = [NoJob EXCEPT !.op = op, !.uid = u]]
           /\ UNCHANGED conns
  <2> DEFINE j == [NoJob EXCEPT !.op = op, !.uid = u]
  <2>1. j \in Jobs /\ j.rec = Nobody /\ j.uid = u
    BY DEF NoJob, Jobs, Opt
  <2>2. Landed(t, "waitlock", j)
    BY <1>1, <1>4, <2>1, LandsThere DEF Lands, Goto, Places
  <2> HIDE DEF j
  <2>3. QED
    BY <1>1, <1>4, <2>1, <2>2, Names, WaitKeeps
<1>5. QED
  BY <1>2, <1>3, <1>4 DEF CallBegin

\* has got the lock it was waiting for,
LEMMA CallAcquireKeeps == ASSUME ManagerInv, NEW t \in Callers, CallAcquire(t) PROVE Kept
<1> DEFINE u == job[t].uid
<1>1. /\ pc[t] = "waitlock" /\ lock[u] = t /\ CallCritical(t, job[t].op, u)
      /\ UNCHANGED <<records, heap, scan, stale, closing, closed, left>>
  BY DEF CallAcquire
<1>2. t \in Tasks /\ u \in Uids /\ job[t].op \in Ops \union {"none", "discover"}
  BY <1>1, Names DEF ManagerInv, LocksOK, TypeOK, InLock
<1>3. QED
  BY <1>1, <1>2, CallCriticalKeeps

\* What a task in a critical section may rely on.
LEMMA CriticalFacts ==
    ASSUME ManagerInv, NEW t \in Tasks, pc[t] \in Critical
    PROVE  /\ job[t].uid \in Uids /\ lock[job[t].uid] = t /\ t \in Users
           /\ job[t].rec \in Records /\ Known(job[t].rec)
           /\ \A v \in Uids : records[v] = job[t].rec => v = job[t].uid
           /\ t # Updater
           /\ t \in Callers => /\ records[job[t].uid] = job[t].rec
                               /\ heap[job[t].rec].conn # Nobody => ~Live(heap[job[t].rec].conn)
<1>1. RecordOK(t) /\ CallOK(t)
  BY DEF ManagerInv, JobsOK
<1>2. job[t].rec # Nobody
  BY <1>1 DEF RecordOK
<1>3. job[t].rec \in Records
  BY <1>2 DEF ManagerInv, TypeOK, Opt
<1>4. job[t].uid \in Uids /\ lock[job[t].uid] = t
  BY DEF ManagerInv, LocksOK, InLock
<1>5. QED
  BY <1>1, <1>2, <1>3, <1>4 DEF RecordOK, CallOK, Users

\* What a task that opens a connection may rely on.
LEMMA HeldFacts ==
    ASSUME ManagerInv, NEW t \in Tasks, pc[t] \in Holding
    PROVE  /\ pc[t] \in Critical /\ job[t].conn \in Conns
           /\ \A s \in Tasks : s # t /\ pc[s] \in Holding => job[s].conn # job[t].conn
           /\ \A r \in Records : heap[r].conn # job[t].conn
           /\ conns[job[t].conn].uid = job[t].uid /\ conns[job[t].conn].host = job[t].host
           /\ pc[t] = "connected" => conns[job[t].conn].phase \in {"ready", "down"}
           /\ pc[t] = "connecting" => conns[job[t].conn].phase = "opening"
           /\ t = Discoverer => ~conns[job[t].conn].pushes
<1>1. ConnOK(t)
  BY DEF ManagerInv, JobsOK
<1>2. job[t].conn \in Conns
  BY <1>1 DEF ConnOK, ManagerInv, TypeOK, Opt
<1>3. QED
  BY <1>1, <1>2 DEF ConnOK, Holding, Critical

\* A task leaves its critical section with nothing: what it was opening is closed.
LEMMA GivesUpKeeps ==
    ASSUME ManagerInv, NEW t \in Tasks, pc[t] \in InLock, Leaves(t, job[t].uid),
           NEW p \in Places \ InLock, NEW j \in Jobs, Landed(t, p, j), j.rec = Nobody,
           conns' = IF pc[t] \in Holding THEN Shut(conns, job[t].conn) ELSE conns,
           UNCHANGED <<records, heap, closing, closed>>, RestTypes'
    PROVE  Kept
<1>1. job[t].uid \in Uids
  BY DEF ManagerInv, LocksOK
<1>2. CASE pc[t] \in Holding
  <2>1. job[t].conn \in Opt(Conns)
    BY <1>2, HeldFacts DEF Opt
  <2>2. QED
    BY <1>1, <1>2, <2>1, HeldFacts, OutKeeps
<1>3. CASE pc[t] \notin Holding
  BY <1>1, <1>3, SameConns, OutKeeps
<1>4. QED
  BY <1>2, <1>3

\* A task that stays inside keeps the lock.
LEMMA UnchangedEnters ==
    ASSUME ManagerInv, NEW t \in Tasks, pc[t] \in Critical, UNCHANGED <<lock, waiters>>
    PROVE  Enters(t, job[t].uid) /\ lock'[job[t].uid] = t
<1>1. LockTypes' /\ Queues'
  BY TypedLocks DEF ManagerInv, LocksOK, LockTypes, Queues
<1>2. \A w, v : Wants(w, v)' <=> Wants(w, v)
  BY DEF Wants
<1>3. job[t].uid \in Uids /\ lock[job[t].uid] = t
  BY CriticalFacts
<1>4. Wants(t, job[t].uid)
  BY <1>3 DEF Wants
<1>5. QED
  BY <1>1, <1>2, <1>3, <1>4 DEF Enters

\* A call has closed the old connection, and dials unless closed meanwhile.
LEMMA CallRedialKeeps == ASSUME ManagerInv, NEW t \in Callers, CallRedial(t) PROVE Kept
<1> DEFINE u == job[t].uid
<1>1. /\ t \in Tasks /\ pc[t] \in Critical /\ pc[t] \in InLock /\ pc[t] \notin Holding
      /\ UNCHANGED <<records, heap, scan, stale, closing, closed, left>> /\ RestTypes'
  BY Names, TypedRest DEF CallRedial, Critical, InLock, Holding
<1>2. CASE closed /\ Raise(t) /\ Release(u) /\ UNCHANGED conns
  <2>1. PICK p \in Places \ InLock : Landed(t, p, NoJob)
    BY <1>1, <1>2, RaiseLands DEF ManagerInv
  <2>2. NoJob \in Jobs /\ NoJob.rec = Nobody
    BY DEF NoJob, Jobs, Opt
  <2>3. Leaves(t, u)
    BY <1>1, <1>2, CriticalFacts, ReleaseLeaves, TypedLocks DEF ManagerInv, LocksOK
  <2>4. QED
    BY <1>1, <1>2, <2>1, <2>2, <2>3, GivesUpKeeps
<1>3. CASE ~closed /\ Redial(t, job[t].op, u, job[t].rec) /\ UNCHANGED <<lock, waiters>>
  <2>1. job[t].op \in Ops \union {"none", "discover"}
    BY <1>1 DEF ManagerInv, TypeOK
  <2>2. QED
    BY <1>1, <1>3, <2>1, CriticalFacts, UnchangedEnters, RedialKeeps
<1>4. QED
  BY <1>2, <1>3 DEF CallRedial

\* A task that leaves its critical section frees its own lock and no other.
LEMMA ReleasedLeaves ==
    ASSUME ManagerInv, NEW t \in Tasks, pc[t] \in Critical, Release(job[t].uid)
    PROVE  Leaves(t, job[t].uid)
  BY CriticalFacts, ReleaseLeaves, TypedLocks DEF ManagerInv, LocksOK

\* Two tasks in critical sections never work on one record of the table.
LEMMA OwnRecord ==
    ASSUME ManagerInv, NEW t \in Tasks, NEW s \in Tasks, s # t,
           pc[t] \in Critical, pc[s] \in Critical, s \in Callers
    PROVE  job[s].rec # job[t].rec
<1>1. records[job[s].uid] = job[s].rec /\ job[s].uid \in Uids /\ lock[job[s].uid] = s
  BY CriticalFacts
<1>2. /\ lock[job[t].uid] = t
      /\ \A v \in Uids : records[v] = job[t].rec => v = job[t].uid
  BY CriticalFacts
<1>3. QED
  BY <1>1, <1>2

\* The connection of t becomes the one of its record, whose old one is no longer
\* open or closed in this step.
LEMMA AttachKeeps ==
    ASSUME ManagerInv, NEW t \in Tasks, pc[t] = "connected", ~closed,
           Release(job[t].uid),
           NEW p \in Places \ InLock, NEW j \in Jobs, Landed(t, p, j), j.rec = Nobody,
           heap' \in [Records -> [cloud : Opt(Hosts), active : Opt(Hosts), conn : Opt(Conns)]],
           \A r \in Records : heap'[r].cloud = heap[r].cloud,
           \A r \in Records : heap'[r].conn = IF r = job[t].rec THEN job[t].conn ELSE heap[r].conn,
           conns' \in [Conns -> ConnType],
           \A d \in Conns : /\ conns'[d].uid = conns[d].uid /\ conns'[d].host = conns[d].host
                            /\ conns'[d].phase \in {conns[d].phase, "closed"}
                            /\ d # heap[job[t].rec].conn => conns'[d].phase = conns[d].phase
                            /\ d # job[t].conn => (conns'[d].pushes <=> conns[d].pushes),
           heap[job[t].rec].conn # Nobody =>
               conns'[heap[job[t].rec].conn].phase \notin {"opening", "ready"},
           t \in Callers \/ ApartInv => records[job[t].uid] = job[t].rec,
           UNCHANGED <<records, closing, closed, stale, left, scan>>
    PROVE  Kept
<1> DEFINE rec == job[t].rec
           c == job[t].conn
           u == job[t].uid
<1>1. /\ Same(t) /\ pc'[t] \notin InLock /\ job'[t].rec = Nobody
      /\ pc' \in [Tasks -> Places] /\ job' \in [Tasks -> Jobs]
  BY DEF Landed
<1>2. /\ pc'[t] \notin Holding /\ pc'[t] \notin Critical /\ pc'[t] # "waitlock" /\ pc'[t] # "closing_old"
      /\ pc[t] \in Holding /\ pc[t] \in Critical
  BY <1>1 DEF InLock, Holding, Critical
<1>3. /\ rec \in Records /\ u \in Uids /\ c \in Conns /\ c # Nobody /\ lock[u] = t
      /\ conns[c].uid = u /\ conns[c].phase \in {"ready", "down"}
      /\ \A v \in Uids : records[v] = rec => v = u
      /\ \A r \in Records : heap[r].conn # c
      /\ \A s \in Tasks : s # t /\ pc[s] \in Holding => job[s].conn # c
  BY <1>2, CriticalFacts, HeldFacts, Names
<1>4. LocksOK' /\ LockTypes'
  BY <1>1, <1>2, <1>3, ReleasedLeaves, LeavesLock DEF ManagerInv, Leaves
<1>5. \A r \in Records : heap[r].conn # Nobody => heap[r].conn \in Conns
  BY DEF ManagerInv, TypeOK, Opt
<1>6. \A v \in Uids : /\ records[v] # Nobody => records[v] \in Records
                      /\ closing[v] # Nobody => closing[v] \in Records
  BY DEF ManagerInv, TypeOK, Opt
<1> HIDE DEF rec, c, u
<1>7. \A r \in Records : heap'[r].conn = IF r = rec THEN c ELSE heap[r].conn
  BY DEF rec, c
<1>8. \A d \in Conns : d # heap[rec].conn => conns'[d].phase = conns[d].phase
  BY DEF rec
<1>9. RecordsOK'
  <2>1. \A r \in Records : Known(r)' <=> Known(r)
    BY DEF Known
  <2>2. /\ \A v, w \in Uids : records[v] = records[w] /\ records[v] # Nobody => v = w
        /\ \A v \in Uids : records[v] # Nobody => Known(records[v])'
        /\ \A v \in Uids : closing[v] # Nobody =>
              /\ Known(closing[v])'
              /\ \A w \in Uids : records[w] = closing[v] => w = v
    BY <1>6, <2>1 DEF ManagerInv, RecordsOK
  <2>3. ASSUME NEW r \in Records, heap'[r].conn # Nobody
        PROVE  /\ conns'[heap'[r].conn].phase \notin {"none", "opening"}
               /\ \A s \in Records : heap'[s].conn = heap'[r].conn => s = r
               /\ \A v \in Uids : records[v] = r => conns'[heap'[r].conn].uid = v
    <3>1. CASE r = rec
      BY <1>3, <1>7, <1>8, <3>1
    <3>2. CASE r # rec
      <4>1. heap'[r].conn = heap[r].conn /\ heap[r].conn \in Conns
        BY <1>5, <1>7, <2>3, <3>2
      <4>2. conns[heap[r].conn].phase \notin {"none", "opening"}
        BY <2>3, <4>1 DEF ManagerInv, RecordsOK
      <4>3. conns'[heap[r].conn].phase \notin {"none", "opening"}
        BY <4>1, <4>2
      <4>4. \A s \in Records : heap'[s].conn = heap[r].conn => s = r
        BY <1>3, <1>7, <2>3, <4>1 DEF ManagerInv, RecordsOK
      <4>5. \A v \in Uids : records[v] = r => conns'[heap[r].conn].uid = v
        BY <2>3, <4>1 DEF ManagerInv, RecordsOK
      <4>6. QED
        BY <4>1, <4>3, <4>4, <4>5
    <3>3. QED
      BY <3>1, <3>2
  <2>4. QED
    BY <2>2, <2>3 DEF RecordsOK, Known
<1>10. ASSUME NEW s \in Tasks, s # t PROVE RecordOK(s)' /\ CallOK(s)' /\ ConnOK(s)'
  <2>1. pc'[s] = pc[s] /\ job'[s] = job[s] /\ RecordOK(s) /\ CallOK(s) /\ ConnOK(s)
    BY <1>1, <1>10 DEF Same, ManagerInv, JobsOK
  <2>2. job[s].rec # Nobody => job[s].rec \in Records
    BY DEF ManagerInv, TypeOK, Opt
  <2>3. RecordOK(s)'
    BY <2>1, <2>2 DEF RecordOK, Known
  <2>4. CallOK(s)'
    <3> SUFFICES ASSUME s \in Callers, pc[s] \in Critical PROVE CallOK(s)'
      BY <2>1 DEF CallOK
    <3>1. job[s].rec # rec /\ job[s].rec \in Records
      BY <1>2, <1>10, OwnRecord, CriticalFacts DEF rec
    <3>2. heap'[job[s].rec].conn = heap[job[s].rec].conn
      BY <1>7, <3>1
    <3>3. \A d \in Conns : Live(d)' => Live(d)
      BY DEF Live
    <3>4. QED
      BY <1>5, <2>1, <3>1, <3>2, <3>3 DEF CallOK, Live
  <2>5. ConnOK(s)'
    <3> SUFFICES ASSUME pc[s] \in Holding PROVE ConnOK(s)'
      BY <2>1 DEF ConnOK
    <3> DEFINE d == job[s].conn
    <3>1. /\ d \in Conns /\ d # c /\ d # Nobody
          /\ \A r \in Records : heap[r].conn # d
          /\ \A q \in Tasks : q # s /\ pc[q] \in Holding => job[q].conn # d
      BY <1>3, <1>10, HeldFacts, Names
    <3>2. /\ conns'[d].uid = conns[d].uid /\ conns'[d].host = conns[d].host
          /\ conns'[d].phase = conns[d].phase /\ (conns'[d].pushes <=> conns[d].pushes)
      BY <1>3, <1>8, <3>1 DEF c
    <3>3. \A r \in Records : heap'[r].conn # d
      BY <1>7, <3>1
    <3>4. \A q \in Tasks : pc'[q] \in Holding /\ job'[q].conn = d => q = s
      BY <1>1, <1>2, <3>1 DEF Same
    <3>5. QED
      BY <2>1, <3>1, <3>2, <3>3, <3>4 DEF ConnOK
  <2>6. QED
    BY <2>3, <2>4, <2>5
<1>11. RecordOK(t)' /\ CallOK(t)' /\ ConnOK(t)'
  BY <1>1, <1>2 DEF RecordOK, CallOK, ConnOK
<1>12. TypeOK'
  BY <1>1, <1>4 DEF ManagerInv, TypeOK, LockTypes, Users, Jobs, ConnType
<1>13. ASSUME ApartInv, Apart' PROVE ApartInv'
  <2>1. DiscoverOK'
    BY <1>1, <1>13, Names DEF ApartInv, DiscoverOK, Same
  <2>2. NoOrphanConnection'
    <3> SUFFICES ASSUME NEW d \in Conns, Live(d)' PROVE Held(d)' \/ Attached(d)'
      BY DEF NoOrphanConnection
    <3>1. CASE d = c
      BY <1>3, <1>7, <1>13, <3>1, Names DEF Attached, rec, u
    <3>2. CASE d # c
      <4>1. Held(d) \/ Attached(d)
        BY <1>13 DEF ApartInv, NoOrphanConnection, Live
      <4>2. Held(d) => Held(d)'
        BY <1>1, <3>2 DEF Held, Same, Holding, c
      <4>3. d # heap[rec].conn
        BY Names DEF rec, Live
      <4>4. Attached(d) => Attached(d)'
        BY <1>6, <1>7, <4>3 DEF Attached
      <4>5. QED
        BY <4>1, <4>2, <4>4
    <3>3. QED
      BY <3>1, <3>2
  <2>3. CloseOK'
    BY <1>1, <1>13 DEF ApartInv, CloseOK
  <2>4. QED
    BY <2>1, <2>2, <2>3 DEF ApartInv
<1>14. QED
  BY <1>4, <1>9, <1>10, <1>11, <1>12, <1>13 DEF JobsOK, Kept, ManagerInv, ClosingOK

\* A call attaches what it has opened, unless closed meanwhile.
LEMMA CallAttachKeeps == ASSUME ManagerInv, NEW t \in Callers, CallAttach(t) PROVE Kept
<1> DEFINE u == job[t].uid
           c == job[t].conn
           rec == job[t].rec
<1>1. /\ t \in Tasks /\ pc[t] = "connected" /\ pc[t] \in Critical /\ pc[t] \in InLock /\ pc[t] \in Holding
      /\ Release(u) /\ RestTypes' /\ TypeOK
      /\ UNCHANGED <<records, scan, stale, closing, closed, left>>
  BY Names, TypedRest DEF CallAttach, Critical, InLock, Holding, ManagerInv
<1>2. Leaves(t, u)
  BY <1>1, ReleasedLeaves
<1>3. CASE closed /\ conns' = Shut(conns, c) /\ Raise(t) /\ UNCHANGED heap
  <2>1. PICK p \in Places \ InLock : Landed(t, p, NoJob)
    BY <1>1, <1>3, RaiseLands
  <2>2. NoJob \in Jobs /\ NoJob.rec = Nobody
    BY DEF NoJob, Jobs, Opt
  <2>3. QED
    BY <1>1, <1>2, <1>3, <2>1, <2>2, GivesUpKeeps
<1>4. CASE ~closed /\ heap' = [heap EXCEPT ![rec].conn = c] /\ Return(t, u) /\ UNCHANGED conns
  <2>1. u \in Uids /\ rec \in Records /\ c \in Conns /\ c \in Opt(Conns) /\ u \in Opt(Uids)
    BY <1>1, CriticalFacts, HeldFacts DEF Opt
  <2>2. PICK p \in Places \ InLock : Landed(t, p, [NoJob EXCEPT !.uid = u])
    BY <1>1, <1>4, <2>1, ReturnLands
  <2>3. [NoJob EXCEPT !.uid = u] \in Jobs /\ [NoJob EXCEPT !.uid = u].rec = Nobody
    BY <2>1 DEF NoJob, Jobs, Opt
  <2>4. /\ heap' \in [Records -> [cloud : Opt(Hosts), active : Opt(Hosts), conn : Opt(Conns)]]
        /\ \A r \in Records : heap'[r].cloud = heap[r].cloud
        /\ \A r \in Records : heap'[r].conn = IF r = rec THEN c ELSE heap[r].conn
    <3> DEFINE e == [heap[rec] EXCEPT !.conn = c]
    <3>1. heap' = [heap EXCEPT ![rec] = e]
      BY <1>1, <1>4, <2>1 DEF TypeOK
    <3>2. /\ e \in [cloud : Opt(Hosts), active : Opt(Hosts), conn : Opt(Conns)]
          /\ e.cloud = heap[rec].cloud /\ e.conn = c
      <4>1. heap[rec] \in [cloud : Opt(Hosts), active : Opt(Hosts), conn : Opt(Conns)]
        BY <1>1, <2>1 DEF TypeOK
      <4>2. QED
        BY <2>1, <4>1
    <3> HIDE DEF e
    <3>3. QED
      BY <1>1, <2>1, <3>1, <3>2 DEF TypeOK
  <2>5. conns' \in [Conns -> ConnType]
    BY <1>1, <1>4 DEF TypeOK, ConnType
  <2>6. /\ records[u] = rec
        /\ heap[rec].conn # Nobody => conns[heap[rec].conn].phase \notin {"opening", "ready"}
    BY <1>1, CriticalFacts DEF Live
  <2>7. QED
    BY <1>1, <1>4, <2>2, <2>3, <2>4, <2>5, <2>6, AttachKeeps
<1>5. QED
  BY <1>3, <1>4 DEF CallAttach
-----------------------------------------------------------------------------
\* A step that changes one connection only, which no record has.
LEMMA ConnReadyKeeps == ASSUME ManagerInv, NEW t \in Tasks, ConnectReady(t) PROVE Kept
<1> DEFINE c == job[t].conn
<1>1. /\ pc[t] = "connecting" /\ pc[t] \in Holding /\ pc[t] \in Critical /\ TypeOK
      /\ Goto(t, "connected")
      /\ UNCHANGED <<records, heap, lock, waiters, job, scan, stale, closing, closed, left>>
  BY DEF ConnectReady, Holding, Critical, ManagerInv
<1>2. /\ c \in Conns /\ lock[job[t].uid] = t
      /\ \A s \in Tasks : s # t /\ pc[s] \in Holding => job[s].conn # c
      /\ \A r \in Records : heap[r].conn # c
      /\ t = Discoverer => ~conns[c].pushes
      /\ conns[c].uid = job[t].uid /\ conns[c].host = job[t].host
  BY <1>1, HeldFacts, CriticalFacts
<1>3. PICK confirmed \in BOOLEAN, phase \in {"ready", "down"} :
         conns' = [conns EXCEPT ![c].phase = phase, ![c].confirmed = confirmed]
  BY DEF ConnectReady
<1> DEFINE e == [conns[c] EXCEPT !.phase = phase, !.confirmed = confirmed]
<1>4. conns' = [conns EXCEPT ![c] = e]
  BY <1>1, <1>2, <1>3 DEF TypeOK
<1>5. /\ e \in ConnType /\ e.phase \in {"ready", "down"} /\ e.uid = conns[c].uid
      /\ e.host = conns[c].host /\ e.pushes = conns[c].pushes
  <2>1. conns[c] \in ConnType
    BY <1>1, <1>2 DEF TypeOK, ConnType
  <2>2. CASE confirmed = TRUE
    BY <2>1, <2>2 DEF ConnType, Phases
  <2>3. CASE confirmed = FALSE
    BY <2>1, <2>3 DEF ConnType, Phases
  <2>4. QED
    BY <2>2, <2>3
<1> HIDE DEF e
<1>6. /\ conns' \in [Conns -> ConnType] /\ conns'[c] = e
      /\ \A d \in Conns : d # c => conns'[d] = conns[d]
  BY <1>1, <1>2, <1>4, <1>5 DEF TypeOK, ConnType
<1>7. Landed(t, "connected", job[t])
  BY <1>1, LandsThere DEF Lands, Goto, Places, TypeOK, Jobs
<1>8. /\ Same(t) /\ pc'[t] = "connected" /\ job' = job
      /\ pc' \in [Tasks -> Places] /\ job' \in [Tasks -> Jobs]
  BY <1>1, <1>7 DEF Landed
<1>9. LocksOK'
  BY <1>1, <1>2, <1>8, KeepsLock DEF ManagerInv, InLock, Critical
<1>10. TypeOK'
  BY <1>1, <1>6, <1>8 DEF TypeOK, Jobs, ConnType
<1>11. RecordsOK'
  <2>1. \A r \in Records : heap[r].conn # Nobody => heap[r].conn \in Conns
    BY DEF ManagerInv, TypeOK, Opt
  <2>2. \A r \in Records : heap[r].conn # Nobody => conns'[heap[r].conn] = conns[heap[r].conn]
    BY <1>2, <1>6, <2>1
  <2>3. QED
    BY <1>1, <2>2 DEF ManagerInv, RecordsOK, Known
<1>12. ASSUME NEW s \in Tasks PROVE RecordOK(s)' /\ CallOK(s)' /\ ConnOK(s)'
  <2>1. RecordOK(s) /\ CallOK(s) /\ ConnOK(s) /\ job'[s] = job[s]
    BY <1>8 DEF ManagerInv, JobsOK
  <2>2. pc'[s] = IF s = t THEN "connected" ELSE pc[s]
    BY <1>8 DEF Same
  <2>3. RecordOK(s)'
    BY <1>1, <2>1, <2>2 DEF RecordOK, Known, Critical, InLock
  <2>4. CallOK(s)'
    <3> SUFFICES ASSUME s \in Callers, pc'[s] \in Critical PROVE CallOK(s)'
      BY DEF CallOK
    <3>1. pc[s] \in Critical
      BY <1>1, <2>2
    <3>2. job[s].rec \in Records
      BY <3>1, CriticalFacts
    <3>3. heap[job[s].rec].conn # Nobody =>
              heap[job[s].rec].conn \in Conns /\ heap[job[s].rec].conn # c
      BY <1>2, <3>2 DEF ManagerInv, TypeOK, Opt
    <3>4. QED
      BY <1>1, <1>6, <2>1, <3>1, <3>3 DEF CallOK, Live
  <2>5. ConnOK(s)'
    <3>1. CASE s = t
      <4>1. ConnOK(s) /\ pc[t] \in Holding
        BY <1>1, <2>1
      <4>2. /\ c # Nobody
            /\ \A q \in Tasks : pc[q] \in Holding /\ job[q].conn = c => q = t
        BY <1>2, Names
      <4>3. \A q \in Tasks : pc'[q] \in Holding /\ job'[q].conn = c => q = t
        BY <1>8, <4>2 DEF Same
      <4>4. /\ conns'[c].uid = job[t].uid /\ conns'[c].host = job[t].host
            /\ conns'[c].phase \in {"ready", "down"}
        BY <1>2, <1>5, <1>6
      <4>5. t = Discoverer => ~conns'[c].pushes
        BY <1>2, <1>5, <1>6
      <4>6. QED
        BY <1>1, <1>2, <1>8, <3>1, <4>2, <4>3, <4>4, <4>5 DEF ConnOK
    <3>2. CASE s # t
      <4> SUFFICES ASSUME pc[s] \in Holding PROVE ConnOK(s)'
        BY <2>2, <3>2 DEF ConnOK
      <4>1. job[s].conn # c /\ job[s].conn \in Conns
        BY <1>2, <3>2, HeldFacts
      <4>2. conns'[job[s].conn] = conns[job[s].conn]
        BY <1>6, <4>1
      <4>3. \A q \in Tasks : pc'[q] \in Holding /\ job'[q].conn = job[s].conn => q = s
        BY <1>8, <2>1, <4>1 DEF Same, ConnOK
      <4>4. QED
        BY <1>1, <2>1, <2>2, <3>2, <4>2, <4>3 DEF ConnOK
    <3>3. QED
      BY <3>1, <3>2
  <2>6. QED
    BY <2>3, <2>4, <2>5
<1>13. ASSUME ApartInv, Apart' PROVE ApartInv'
  <2>1. DiscoverOK'
    BY <1>1, <1>8, <1>13, Names DEF ApartInv, DiscoverOK, Same, InLock, Critical
  <2>2. NoOrphanConnection'
    <3> SUFFICES ASSUME NEW d \in Conns, Live(d)' PROVE Held(d)' \/ Attached(d)'
      BY DEF NoOrphanConnection
    <3>1. d = c => Held(d)'
      BY <1>8 DEF Held
    <3>2. d # c => Live(d)
      BY <1>6 DEF Live
    <3>3. d # c => Held(d) \/ Attached(d)
      BY <1>13, <3>2 DEF ApartInv, NoOrphanConnection
    <3>4. Held(d) => Held(d)'
      BY <1>8 DEF Held, Same
    <3>5. Attached(d) => Attached(d)'
      BY <1>1 DEF Attached
    <3>6. QED
      BY <3>1, <3>3, <3>4, <3>5
  <2>3. CloseOK'
    BY <1>1, <1>8, <1>13 DEF ApartInv, CloseOK, Same
  <2>4. QED
    BY <2>1, <2>2, <2>3 DEF ApartInv
<1>14. QED
  BY <1>1, <1>9, <1>10, <1>11, <1>12, <1>13 DEF JobsOK, Kept, ManagerInv, ClosingOK

\* A handshake fails,
LEMMA ConnFailsKeeps == ASSUME ManagerInv, NEW t \in Tasks, ConnectFails(t) PROVE Kept
<1>1. /\ pc[t] = "connecting" /\ pc[t] \in Critical /\ pc[t] \in InLock /\ pc[t] \in Holding
      /\ conns' = Shut(conns, job[t].conn) /\ Release(job[t].uid) /\ RestTypes' /\ TypeOK
      /\ UNCHANGED <<records, heap, scan, stale, closing, closed, left>>
  BY TypedRest DEF ConnectFails, Critical, InLock, Holding, ManagerInv
<1>2. NoJob \in Jobs /\ NoJob.rec = Nobody
  BY DEF NoJob, Jobs, Opt
<1>3. \E p \in Places \ InLock : Landed(t, p, NoJob)
  <2>1. CASE Goto(t, "next") /\ job' = [job EXCEPT ![t] = NoJob]
    <3>1. "next" \in Places \ InLock
      BY DEF Places, InLock, Critical
    <3>2. QED
      BY <1>1, <1>2, <2>1, <3>1, LandsThere DEF Lands, Goto
  <2>2. CASE Raise(t)
    BY <1>1, <2>2, RaiseLands
  <2>3. QED
    BY <2>1, <2>2 DEF ConnectFails
<1>4. QED
  BY <1>1, <1>2, <1>3, ReleasedLeaves, GivesUpKeeps

\* or a task is cancelled, wherever it awaits.
LEMMA CancelKeeps == ASSUME ManagerInv, NEW t \in Tasks, Cancel(t) PROVE Kept
<1>1. /\ conns' = IF pc[t] \in Holding THEN Shut(conns, job[t].conn) ELSE conns
      /\ Raise(t) /\ RestTypes' /\ TypeOK
      /\ UNCHANGED <<records, heap, scan, stale, closing, closed, left>>
  BY TypedRest DEF Cancel, Holding, ManagerInv
<1>2. PICK p \in Places \ InLock : Landed(t, p, NoJob)
  BY <1>1, RaiseLands
<1>3. NoJob \in Jobs /\ NoJob.rec = Nobody
  BY DEF NoJob, Jobs, Opt
<1>4. CASE pc[t] = "scanning" /\ UNCHANGED <<lock, waiters>>
  <2>1. pc[t] \notin InLock /\ pc[t] \notin Holding
    BY <1>4 DEF InLock, Critical, Holding
  <2>2. QED
    BY <1>1, <1>2, <1>3, <1>4, <2>1, ApartKeeps
<1>5. CASE pc[t] \in InLock /\ Withdraw(job[t].uid, t)
  <2>1. /\ job[t].uid \in Uids /\ t \in Users /\ LockTypes /\ Queues
    BY <1>5, TypedLocks DEF ManagerInv, LocksOK, Users
  <2>2. Leaves(t, job[t].uid)
    BY <1>5, <2>1, WithdrawLeaves
  <2>3. QED
    BY <1>1, <1>2, <1>3, <1>5, <2>2, GivesUpKeeps
<1>6. QED
  BY <1>4, <1>5 DEF Cancel, InLock, Critical

\* A ready connection may drop, whoever has it.
LEMMA DropKeeps == ASSUME ManagerInv, NEW c \in Conns, ConnDrop(c) PROVE Kept
<1>1. /\ conns[c].phase = "ready" /\ TypeOK
      /\ conns' = [conns EXCEPT ![c].phase = "down", ![c].confirmed = FALSE]
      /\ UNCHANGED <<records, heap, lock, waiters, pc, job, scan, stale, closing, closed, left>>
  BY DEF ConnDrop, ManagerInv
<1> DEFINE e == [conns[c] EXCEPT !.phase = "down", !.confirmed = FALSE]
<1>2. conns' = [conns EXCEPT ![c] = e]
  BY <1>1 DEF TypeOK
<1>3. conns[c] \in ConnType
  BY <1>1 DEF TypeOK, ConnType
<1>4. /\ e \in ConnType /\ e.phase = "down" /\ e.uid = conns[c].uid
      /\ e.host = conns[c].host /\ e.pushes = conns[c].pushes
  BY <1>3 DEF ConnType, Phases
<1> HIDE DEF e
<1>5. /\ conns' \in [Conns -> ConnType]
      /\ \A d \in Conns :
            /\ conns'[d].phase = IF d = c THEN "down" ELSE conns[d].phase
            /\ conns'[d].uid = conns[d].uid /\ conns'[d].host = conns[d].host
            /\ conns'[d].pushes = conns[d].pushes
  BY <1>1, <1>2, <1>4 DEF TypeOK, ConnType
<1>6. TypeOK'
  BY <1>1, <1>5 DEF TypeOK, ConnType
<1>7. LocksOK'
  BY <1>1 DEF ManagerInv, LocksOK, Queues, Wants
<1>8. \A r \in Records : heap[r].conn # Nobody => heap[r].conn \in Conns
  BY <1>1 DEF TypeOK, Opt
<1>9. RecordsOK'
  BY <1>1, <1>5, <1>8 DEF ManagerInv, RecordsOK, Known
<1>10. ASSUME NEW s \in Tasks PROVE RecordOK(s)' /\ CallOK(s)' /\ ConnOK(s)'
  <2>1. RecordOK(s) /\ CallOK(s) /\ ConnOK(s)
    BY DEF ManagerInv, JobsOK
  <2>2. RecordOK(s)'
    BY <1>1, <2>1 DEF RecordOK, Known
  <2>3. s \in Callers /\ pc[s] \in Critical => job[s].rec \in Records
    BY Names, CriticalFacts
  <2>4. CallOK(s)'
    BY <1>1, <1>5, <1>8, <2>1, <2>3 DEF CallOK, Live
  <2>5. ConnOK(s)'
    <3> SUFFICES ASSUME pc[s] \in Holding PROVE ConnOK(s)'
      BY <1>1 DEF ConnOK
    <3>1. job[s].conn \in Conns /\ pc[s] \in {"connecting", "connected"}
      BY HeldFacts DEF Holding
    <3>2. conns'[job[s].conn].phase \in IF pc[s] = "connecting" THEN {"opening"} ELSE {"ready", "down"}
      BY <1>1, <1>5, <2>1, <3>1 DEF ConnOK
    <3>3. QED
      BY <1>1, <1>5, <2>1, <3>1, <3>2 DEF ConnOK
  <2>6. QED
    BY <2>2, <2>4, <2>5
<1>11. ASSUME ApartInv, Apart' PROVE ApartInv'
  <2>1. DiscoverOK' /\ CloseOK'
    BY <1>1, <1>11 DEF ApartInv, DiscoverOK, CloseOK
  <2>2. NoOrphanConnection'
    BY <1>1, <1>5, <1>11 DEF ApartInv, NoOrphanConnection, Live, Held, Attached
  <2>3. QED
    BY <2>1, <2>2 DEF ApartInv
<1>12. QED
  BY <1>1, <1>6, <1>7, <1>9, <1>10, <1>11 DEF JobsOK, Kept, ManagerInv, ClosingOK
-----------------------------------------------------------------------------
\* A discovery round begins,
LEMMA ScanBeginKeeps == ASSUME ManagerInv, DiscoverBegin PROVE Kept
<1>1. /\ pc[Discoverer] = "idle" /\ pc[Discoverer] \notin InLock /\ left.scans > 0
      /\ left' = [left EXCEPT !.scans = left.scans - 1] /\ Goto(Discoverer, "scanning")
      /\ UNCHANGED <<records, heap, conns, lock, waiters, job, scan, stale, closing, closed>>
      /\ TypeOK /\ Discoverer \in Tasks /\ job[Discoverer].rec = Nobody
  BY Names DEF DiscoverBegin, ManagerInv, InLock, Critical, JobsOK, RecordOK
<1>2. left' \in [updates : 0..Updates, scans : 0..Scans]
  <2>1. left \in [updates : 0..Updates, scans : 0..Scans]
    BY <1>1 DEF TypeOK
  <2>2. left.scans - 1 \in 0..Scans
    BY <1>1, <2>1, InputsAssumption
  <2>3. QED
    BY <1>1, <2>1, <2>2
<1>3. RestTypes'
  BY <1>1, <1>2 DEF TypeOK, RestTypes
<1>4. job[Discoverer] \in Jobs /\ "scanning" \in Places \ InLock
  BY <1>1 DEF TypeOK, Jobs, Places, InLock, Critical
<1>5. Landed(Discoverer, "scanning", job[Discoverer])
  BY <1>1, <1>4, LandsThere DEF Lands, Goto, TypeOK
<1>6. QED
  BY <1>1, <1>3, <1>4, <1>5, ApartKeeps

\* has its candidates,
LEMMA ScannedKeeps == ASSUME ManagerInv, DiscoverScanned PROVE Kept
<1>1. /\ pc[Discoverer] = "scanning" /\ pc[Discoverer] \notin InLock
      /\ UNCHANGED <<records, heap, conns, lock, waiters, stale, closing, closed, left>>
      /\ TypeOK /\ Discoverer \in Tasks /\ job[Discoverer].rec = Nobody
  BY Names DEF DiscoverScanned, ManagerInv, InLock, Critical, JobsOK, RecordOK
<1>2. CASE Raise(Discoverer) /\ UNCHANGED scan
  <2>1. NoJob \in Jobs /\ NoJob.rec = Nobody
    BY DEF NoJob, Jobs, Opt
  <2>2. PICK p \in Places \ InLock : Landed(Discoverer, p, NoJob)
    BY <1>1, <1>2, RaiseLands
  <2>3. RestTypes'
    BY <1>1, <1>2, TypedRest
  <2>4. QED
    BY <1>1, <2>1, <2>2, <2>3, ApartKeeps
<1>3. CASE (\E s \in Candidates : scan' = s) /\ Goto(Discoverer, "next") /\ UNCHANGED job
  <2>1. DOMAIN scan' \subseteq Uids /\ \A u \in DOMAIN scan' : scan'[u] \in Hosts
    BY <1>3, InputsAssumption
  <2>2. RestTypes'
    BY <1>1, <2>1 DEF TypeOK, RestTypes
  <2>3. job[Discoverer] \in Jobs /\ "next" \in Places \ InLock
    BY <1>1 DEF TypeOK, Jobs, Places, InLock, Critical
  <2>4. Landed(Discoverer, "next", job[Discoverer])
    BY <1>1, <1>3, <2>3, LandsThere DEF Lands, Goto, TypeOK
  <2>5. QED
    BY <1>1, <2>2, <2>3, <2>4, ApartKeeps
<1>4. QED
  BY <1>2, <1>3 DEF DiscoverScanned

\* The candidate's connection is dialled under the lock, unless closed.
LEMMA ProbeKeeps ==
    ASSUME ManagerInv, NEW u \in Uids, NEW rec \in Records, NEW host \in Opt(Hosts),
           lock[u] \in {Discoverer, Nobody}, pc[Discoverer] \in {"next", "waitlock"},
           pc[Discoverer] \in InLock => job[Discoverer].uid = u,
           Known(rec), \A v \in Uids : records[v] = rec => v = u,
           ApartInv => records[u] = rec,
           DiscoverCritical(u, rec, host),
           UNCHANGED <<records, heap, stale, closing, closed, left>>, RestTypes'
    PROVE  Kept
<1> DEFINE t == Discoverer
<1>1. /\ t \in Tasks /\ t \in Users /\ t # Updater /\ t \notin Callers
      /\ TypeOK /\ LockTypes /\ Queues /\ pc[t] \notin Holding
  BY Names, TypedLocks DEF Users, ManagerInv, LocksOK, Holding
<1> HIDE DEF t
<1>2. CASE closed /\ Raise(t) /\ Release(u) /\ UNCHANGED conns
  <2>1. NoJob \in Jobs /\ NoJob.rec = Nobody
    BY DEF NoJob, Jobs, Opt
  <2>2. PICK p \in Places \ InLock : Landed(t, p, NoJob)
    BY <1>1, <1>2, RaiseLands
  <2>3. Leaves(t, u)
    BY <1>1, <1>2, ReleaseLeaves DEF t
  <2>4. QED
    BY <1>1, <1>2, <2>1, <2>2, <2>3, SameConns, OutKeeps DEF t
<1>3. CASE /\ ~closed /\ Hold(u, t)
           /\ StartConnect(t, "discover", u, rec, host, FALSE, FALSE)
  <2> DEFINE new == [uid |-> u, host |-> host, phase |-> "opening", pushes |-> FALSE,
                     confirmed |-> FALSE, viaCloud |-> FALSE]
             j(c) == [op |-> "discover", uid |-> u, rec |-> rec, conn |-> c, host |-> host]
  <2>1. PICK c \in Conns : /\ conns[c].phase = "none"
                           /\ conns' = [conns EXCEPT ![c] = new]
                           /\ Lands(t, "connecting", j(c))
    BY <1>3 DEF StartConnect, Lands, Goto
  <2>2. new \in ConnType /\ j(c) \in Jobs
    BY DEF ConnType, Opt, Phases, Jobs
  <2>3. new.uid = u /\ new.host = host /\ new.phase = "opening" /\ ~new.pushes
    OBVIOUS
  <2> HIDE DEF new
  <2>4. /\ conns' \in [Conns -> ConnType] /\ conns'[c] = new
        /\ \A d \in Conns : d # c => conns'[d] = conns[d]
        /\ Landed(t, "connecting", j(c))
    BY <1>1, <2>1, <2>2, StartLands
  <2>5. /\ Same(t) /\ pc'[t] = "connecting" /\ job'[t].rec = rec /\ job'[t].uid = u
        /\ job'[t].conn = c /\ job'[t].host = host
        /\ pc' \in [Tasks -> Places] /\ job' \in [Tasks -> Jobs]
    BY <2>4 DEF Landed
  <2>6. Enters(t, u) /\ lock'[u] = t
    BY <1>1, <1>3, HoldEnters DEF t
  <2>7. LocksOK' /\ LockTypes'
    BY <1>1, <2>5, <2>6, EntersLock DEF ManagerInv, InLock, Critical, Enters, t
  <2>8. conns'[c].uid = u /\ conns'[c].phase = "opening" /\ ~conns'[c].pushes /\ conns'[c].host = host
    BY <2>3, <2>4
  <2>9. QED
    BY <1>1, <1>3, <2>1, <2>4, <2>5, <2>7, <2>8, StartKeeps
<1>4. QED
  BY <1>2, <1>3 DEF DiscoverCritical, t

\* looks at one of them,
LEMMA DiscoverNextKeeps == ASSUME ManagerInv, DiscoverNext PROVE Kept
<1> DEFINE t == Discoverer
<1>1. /\ t \in Tasks /\ t # Updater /\ pc[t] = "next" /\ pc[t] \notin InLock
      /\ TypeOK /\ job[t].rec = Nobody
      /\ UNCHANGED <<records, heap, stale, closing, closed, left>>
  BY Names DEF DiscoverNext, ManagerInv, InLock, Critical, JobsOK, RecordOK
<1>2. CASE scan = NoScan /\ Return(t, Nobody) /\ UNCHANGED <<scan, lock, waiters, conns>>
  <2>1. Nobody \in Opt(Uids) /\ RestTypes'
    BY <1>1, <1>2, TypedRest DEF Opt
  <2>2. PICK p \in Places \ InLock : Landed(t, p, [NoJob EXCEPT !.uid = Nobody])
    BY <1>1, <1>2, <2>1, ReturnLands
  <2>3. [NoJob EXCEPT !.uid = Nobody] \in Jobs /\ [NoJob EXCEPT !.uid = Nobody].rec = Nobody
    BY DEF NoJob, Jobs, Opt
  <2>4. QED
    BY <1>1, <1>2, <2>1, <2>2, <2>3, ApartKeeps
<1>3. ASSUME NEW u \in DOMAIN scan,
             scan' = [v \in DOMAIN scan \ {u} |-> scan[v]],
             \/ UNCHANGED <<pc, job, lock, waiters, conns>>
             \/ /\ records[u] # Nobody /\ Free(u)
                /\ DiscoverCritical(u, records[u], scan[u])
             \/ /\ records[u] # Nobody /\ ~Free(u) /\ Wait(u, t) /\ Goto(t, "waitlock")
                /\ job' = [job EXCEPT ![t] =
                      [NoJob EXCEPT !.op = "discover", !.uid = u, !.rec = records[u],
                                    !.host = scan[u]]]
                /\ UNCHANGED conns
      PROVE  Kept
  <2>1. u \in Uids /\ scan[u] \in Hosts /\ scan[u] \in Opt(Hosts)
    BY <1>1 DEF TypeOK, Opt
  <2>2. RestTypes'
    BY <1>1, <1>3 DEF TypeOK, RestTypes
  <2>3. CASE UNCHANGED <<pc, job, lock, waiters, conns>>
    <3>1. job[t] \in Jobs /\ "next" \in Places \ InLock
      BY <1>1 DEF TypeOK, Jobs, Places, InLock, Critical
    <3>2. Landed(t, "next", job[t])
      BY <1>1, <2>3 DEF Landed, Same, TypeOK, Jobs
    <3>3. QED
      BY <1>1, <2>2, <2>3, <3>1, <3>2, ApartKeeps
  <2>4. records[u] # Nobody =>
           /\ records[u] \in Records /\ Known(records[u])
           /\ \A v \in Uids : records[v] = records[u] => v = u
    BY <2>1 DEF ManagerInv, TypeOK, Opt, RecordsOK
  <2>5. CASE records[u] # Nobody /\ Free(u) /\ DiscoverCritical(u, records[u], scan[u])
    BY <1>1, <2>1, <2>2, <2>4, <2>5, ProbeKeeps DEF Free
  <2>6. CASE /\ records[u] # Nobody /\ ~Free(u) /\ Wait(u, t) /\ Goto(t, "waitlock")
             /\ job' = [job EXCEPT ![t] =
                   [NoJob EXCEPT !.op = "discover", !.uid = u, !.rec = records[u],
                                 !.host = scan[u]]]
             /\ UNCHANGED conns
    <3> DEFINE j == [NoJob EXCEPT !.op = "discover", !.uid = u, !.rec = records[u],
                                  !.host = scan[u]]
    <3>1. j \in Jobs /\ j.rec = records[u] /\ j.uid = u
      BY <2>1, <2>4, <2>6 DEF NoJob, Jobs, Opt
    <3>2. job' = [job EXCEPT ![t] = j]
      BY <2>6
    <3> HIDE DEF j
    <3>3. Landed(t, "waitlock", j)
      BY <1>1, <2>6, <3>1, <3>2, LandsThere DEF Lands, Goto, Places
    <3>4. QED
      BY <1>1, <2>1, <2>2, <2>4, <2>6, <3>1, <3>3, WaitKeeps
  <2>7. QED
    BY <1>3, <2>3, <2>5, <2>6
<1>4. QED
  BY <1>2, <1>3 DEF DiscoverNext

\* and has got the lock it was waiting for.
LEMMA DiscoverAcquireKeeps == ASSUME ManagerInv, DiscoverAcquire PROVE Kept
<1> DEFINE t == Discoverer
           u == job[t].uid
           rec == job[t].rec
<1>1. /\ t \in Tasks /\ pc[t] = "waitlock" /\ pc[t] \in InLock /\ lock[u] = t
      /\ DiscoverCritical(u, rec, job[t].host)
      /\ UNCHANGED <<records, heap, scan, stale, closing, closed, left>> /\ RestTypes'
  BY Names, TypedRest DEF DiscoverAcquire, InLock
<1>2. RecordOK(t) /\ u \in Uids /\ job[t].host \in Opt(Hosts) /\ rec \in Opt(Records)
  BY <1>1 DEF ManagerInv, JobsOK, LocksOK, TypeOK
<1>3. /\ rec \in Records /\ Known(rec) /\ \A v \in Uids : records[v] = rec => v = u
  BY <1>1, <1>2 DEF RecordOK, Opt
<1>4. ApartInv => records[u] = rec
  BY <1>1 DEF ApartInv, DiscoverOK
<1>5. QED
  BY <1>1, <1>2, <1>3, <1>4, ProbeKeeps

\* The candidate becomes the connection of the record, or is given up.
LEMMA DiscoverPromoteKeeps == ASSUME ManagerInv, DiscoverPromote PROVE Kept
<1> DEFINE t == Discoverer
           u == job[t].uid
           c == job[t].conn
           rec == job[t].rec
           old == heap[rec].conn
<1>1. /\ t \in Tasks /\ pc[t] = "connected" /\ pc[t] \in Critical /\ pc[t] \in InLock /\ pc[t] \in Holding
      /\ Release(u) /\ RestTypes' /\ TypeOK
      /\ UNCHANGED <<records, scan, stale, closing, closed, left>>
  BY Names, TypedRest DEF DiscoverPromote, Critical, InLock, Holding, ManagerInv
<1>2. Leaves(t, u)
  BY <1>1, ReleasedLeaves
<1>3. NoJob \in Jobs /\ NoJob.rec = Nobody /\ "next" \in Places \ InLock
  BY DEF NoJob, Jobs, Opt, Places, InLock, Critical
<1>4. Goto(t, "next") /\ job' = [job EXCEPT ![t] = NoJob] => Landed(t, "next", NoJob)
  BY <1>1, <1>3, LandsThere DEF Lands, Goto
<1>5. CASE conns' = Shut(conns, c) /\ Goto(t, "next") /\ job' = [job EXCEPT ![t] = NoJob]
           /\ UNCHANGED heap
  BY <1>1, <1>2, <1>3, <1>4, <1>5, GivesUpKeeps
<1>6. CASE conns' = Shut(conns, c) /\ Raise(t) /\ UNCHANGED heap
  <2>1. PICK p \in Places \ InLock : Landed(t, p, NoJob)
    BY <1>1, <1>6, RaiseLands
  <2>2. QED
    BY <1>1, <1>2, <1>3, <1>6, <2>1, GivesUpKeeps
<1>7. CASE /\ ~closed
           /\ heap' = [heap EXCEPT ![rec].conn = c, ![rec].active = job[t].host]
           /\ conns' = Shut([conns EXCEPT ![c].pushes = TRUE], old)
           /\ Goto(t, "next") /\ job' = [job EXCEPT ![t] = NoJob]
  <2>1. /\ u \in Uids /\ rec \in Records /\ c \in Conns /\ job[t].host \in Opt(Hosts)
        /\ \A r \in Records : heap[r].conn # c
    BY <1>1, CriticalFacts, HeldFacts DEF TypeOK
  <2>2. heap[rec] \in [cloud : Opt(Hosts), active : Opt(Hosts), conn : Opt(Conns)]
    BY <1>1, <2>1 DEF TypeOK
  <2>3. /\ heap' \in [Records -> [cloud : Opt(Hosts), active : Opt(Hosts), conn : Opt(Conns)]]
        /\ \A r \in Records : heap'[r].cloud = heap[r].cloud
        /\ \A r \in Records : heap'[r].conn = IF r = rec THEN c ELSE heap[r].conn
    <3> DEFINE e == [heap[rec] EXCEPT !.conn = c, !.active = job[t].host]
    <3>1. heap' = [heap EXCEPT ![rec] = e]
      BY <1>1, <1>7, <2>1 DEF TypeOK
    <3>2. /\ e \in [cloud : Opt(Hosts), active : Opt(Hosts), conn : Opt(Conns)]
          /\ e.cloud = heap[rec].cloud /\ e.conn = c
      BY <2>1, <2>2 DEF Opt
    <3> HIDE DEF e
    <3>3. QED
      BY <1>1, <2>1, <3>1, <3>2 DEF TypeOK
  <2> DEFINE e == [conns[c] EXCEPT !.pushes = TRUE]
             cs == [conns EXCEPT ![c] = e]
  <2>4. conns[c] \in ConnType
    BY <1>1, <2>1 DEF TypeOK, ConnType
  <2>5. e \in ConnType /\ e.phase = conns[c].phase /\ e.uid = conns[c].uid /\ e.host = conns[c].host
    BY <2>4 DEF ConnType
  <2>6. cs = [conns EXCEPT ![c].pushes = TRUE]
    BY <1>1, <2>1 DEF TypeOK
  <2> HIDE DEF e
  <2>7. /\ cs \in [Conns -> ConnType]
        /\ \A d \in Conns : /\ cs[d].phase = conns[d].phase
                            /\ cs[d].uid = conns[d].uid /\ cs[d].host = conns[d].host
                            /\ d # c => cs[d].pushes = conns[d].pushes
    BY <1>1, <2>1, <2>5 DEF TypeOK, ConnType
  <2>8. conns' = Shut(cs, old)
    BY <1>7, <2>6
  <2> HIDE DEF cs
  <2>9. old \in Opt(Conns)
    BY <2>2
  <2>10. /\ conns' \in [Conns -> ConnType]
         /\ \A d \in Conns :
               /\ conns'[d].phase = IF d = old THEN "closed" ELSE cs[d].phase
               /\ conns'[d].uid = cs[d].uid /\ conns'[d].host = cs[d].host
               /\ conns'[d].pushes = cs[d].pushes
    BY <2>7, <2>8, <2>9, ShutAny
  <2>11. /\ \A d \in Conns : /\ conns'[d].uid = conns[d].uid /\ conns'[d].host = conns[d].host
                             /\ conns'[d].phase \in {conns[d].phase, "closed"}
                             /\ d # old => conns'[d].phase = conns[d].phase
                             /\ d # c => (conns'[d].pushes <=> conns[d].pushes)
         /\ old # Nobody => conns'[old].phase \notin {"opening", "ready"}
    <3>1. old # Nobody => conns'[old].phase = "closed"
      BY <2>9, <2>10 DEF Opt
    <3>2. QED
      BY <2>7, <2>10, <3>1
  <2>12. ApartInv => records[u] = rec
    BY <1>1 DEF ApartInv, DiscoverOK
  <2>13. t \notin Callers
    BY Names
  <2>14. Landed(t, "next", NoJob)
    BY <1>4, <1>7
  <2>15. QED
    BY <1>1, <1>3, <1>7, <2>3, <2>10, <2>11, <2>12, <2>13, <2>14, AttachKeeps
<1>8. QED
  BY <1>5, <1>6, <1>7 DEF DiscoverPromote
-----------------------------------------------------------------------------
Entry == [cloud : Opt(Hosts), active : Opt(Hosts), conn : Opt(Conns)]

\* What a refresh does to the records: new gateways get records nobody had, no
\* gateway loses its record, and no record its connection.
LEMMA RefreshEffect ==
    ASSUME TypeOK, NEW s \in Snapshots, UpdateCloudGateways(s)
    PROVE  /\ records' \in [Uids -> Opt(Records)] /\ heap' \in [Records -> Entry]
           /\ \A u \in Uids : records[u] # Nobody => records'[u] = records[u]
           /\ \A u \in Uids : records[u] = Nobody /\ records'[u] # Nobody =>
                 /\ records'[u] \in Records
                 /\ ~Known(records'[u]) /\ heap[records'[u]].conn = Nobody
                 /\ heap'[records'[u]].cloud # Nobody
                 /\ \A v \in Uids : records[v] = Nobody /\ records'[v] = records'[u] => v = u
           /\ \A r \in Records : /\ heap'[r].conn = heap[r].conn
                                 /\ heap[r].cloud # Nobody => heap'[r].cloud # Nobody
<1> DEFINE fresh == {u \in DOMAIN s : records[u] = Nobody}
           unused == {r \in Records : heap[r] = NoRecord}
           follow(old, host) ==
              [old EXCEPT !.cloud = host,
                          !.active = IF old.active = old.cloud THEN host ELSE old.active]
<1>1. PICK made \in [fresh -> unused] :
        /\ \A u, v \in fresh : u # v => made[u] # made[v]
        /\ records' = [u \in Uids |-> IF u \in fresh THEN made[u] ELSE records[u]]
        /\ heap' = [r \in Records |->
              IF \E u \in fresh : made[u] = r
                THEN LET u == CHOOSE v \in fresh : made[v] = r
                     IN [cloud |-> s[u], active |-> s[u], conn |-> Nobody]
              ELSE IF \E u \in DOMAIN s : records[u] = r
                THEN follow(heap[r], s[CHOOSE u \in DOMAIN s : records[u] = r])
              ELSE heap[r]]
  BY DEF UpdateCloudGateways
<1>2. DOMAIN s \subseteq Uids /\ \A u \in DOMAIN s : s[u] \in Hosts /\ s[u] # Nobody
  BY InputsAssumption, Names
<1>3. \A r \in Records : heap[r] \in Entry
  BY DEF TypeOK, Entry
<1>4. \A r \in unused : heap[r].conn = Nobody /\ heap[r].cloud = Nobody
  BY DEF NoRecord
<1>5. ASSUME NEW r \in Records
      PROVE  /\ heap'[r] \in Entry /\ heap'[r].conn = heap[r].conn
             /\ heap[r].cloud # Nobody => heap'[r].cloud # Nobody
             /\ (\E u \in fresh : made[u] = r) => heap'[r].cloud # Nobody
  <2>1. CASE \E u \in fresh : made[u] = r
    <3> DEFINE u == CHOOSE v \in fresh : made[v] = r
    <3>1. u \in fresh /\ made[u] = r
      BY <2>1
    <3>2. heap'[r] = [cloud |-> s[u], active |-> s[u], conn |-> Nobody]
      BY <1>1, <2>1
    <3> HIDE DEF u
    <3>3. s[u] \in Hosts /\ s[u] # Nobody /\ r \in unused
      BY <1>2, <3>1
    <3>4. QED
      BY <1>4, <3>2, <3>3 DEF Entry, Opt
  <2>2. CASE (\E u \in DOMAIN s : records[u] = r) /\ ~\E u \in fresh : made[u] = r
    <3> DEFINE h == s[CHOOSE u \in DOMAIN s : records[u] = r]
    <3>1. h \in Hosts /\ h # Nobody
      BY <1>2, <2>2
    <3>2. heap'[r] = follow(heap[r], h)
      BY <1>1, <2>2
    <3> HIDE DEF h
    <3>3. QED
      BY <1>3, <2>2, <3>1, <3>2 DEF Entry, Opt
  <2>3. CASE ~(\E u \in DOMAIN s : records[u] = r) /\ ~\E u \in fresh : made[u] = r
    BY <1>1, <1>3, <2>3
  <2>4. QED
    BY <2>1, <2>2, <2>3
<1>6. heap' \in [Records -> Entry]
  BY <1>1, <1>5
<1>7. records' \in [Uids -> Opt(Records)]
  BY <1>1 DEF TypeOK, Opt
<1>8. ASSUME NEW u \in Uids, records[u] = Nobody, records'[u] # Nobody
      PROVE  /\ records'[u] \in Records
             /\ ~Known(records'[u]) /\ heap[records'[u]].conn = Nobody
             /\ heap'[records'[u]].cloud # Nobody
             /\ \A v \in Uids : records[v] = Nobody /\ records'[v] = records'[u] => v = u
  <2>1. u \in fresh /\ records'[u] = made[u] /\ made[u] \in unused /\ made[u] \in Records
    BY <1>1, <1>8
  <2>2. \A v \in Uids : records[v] = Nobody /\ records'[v] = records'[u] => v = u
    BY <1>1, <1>8, <2>1
  <2>3. QED
    BY <1>4, <1>5, <2>1, <2>2 DEF Known
<1>9. \A u \in Uids : records[u] # Nobody => records'[u] = records[u]
  BY <1>1
<1>10. QED
  BY <1>5, <1>6, <1>7, <1>8, <1>9

\* A refresh takes in a snapshot.
LEMMA UpdateBeginKeeps == ASSUME ManagerInv, NEW s \in Snapshots, UpdateBegin(s) PROVE Kept
<1> DEFINE t == Updater
<1>1. /\ t \in Tasks /\ t # Discoverer /\ t \notin Callers
      /\ pc[t] = "idle" /\ ~closed /\ left.updates > 0
      /\ stale' = {u \in Uids : records'[u] # Nobody} \ DOMAIN s
      /\ Goto(t, "next") /\ left' = [left EXCEPT !.updates = left.updates - 1]
      /\ UNCHANGED <<conns, lock, waiters, job, scan, closing, closed>>
      /\ TypeOK
  BY Names DEF UpdateBegin, ManagerInv
<1>2. /\ records' \in [Uids -> Opt(Records)] /\ heap' \in [Records -> Entry]
      /\ \A u \in Uids : records[u] # Nobody => records'[u] = records[u]
      /\ \A u \in Uids : records[u] = Nobody /\ records'[u] # Nobody =>
            /\ records'[u] \in Records
            /\ ~Known(records'[u]) /\ heap[records'[u]].conn = Nobody
            /\ heap'[records'[u]].cloud # Nobody
            /\ \A v \in Uids : records[v] = Nobody /\ records'[v] = records'[u] => v = u
      /\ \A r \in Records : /\ heap'[r].conn = heap[r].conn
                            /\ heap[r].cloud # Nobody => heap'[r].cloud # Nobody
  BY <1>1, RefreshEffect DEF UpdateBegin
<1>3. /\ \A u \in Uids : /\ records[u] # Nobody => records[u] \in Records
                         /\ closing[u] # Nobody => closing[u] \in Records
      /\ \A q \in Tasks : job[q].rec # Nobody => job[q].rec \in Records
      /\ \A r \in Records : heap[r].conn # Nobody => heap[r].conn \in Conns
  BY <1>1 DEF TypeOK, Opt
<1>4. left' \in [updates : 0..Updates, scans : 0..Scans]
  <2>1. left \in [updates : 0..Updates, scans : 0..Scans]
    BY <1>1 DEF TypeOK
  <2>2. left.updates - 1 \in 0..Updates
    BY <1>1, <2>1, InputsAssumption
  <2>3. QED
    BY <1>1, <2>1, <2>2
<1>5. Landed(t, "next", job[t])
  BY <1>1, LandsThere DEF Lands, Goto, Places, TypeOK, Jobs
<1>6. /\ Same(t) /\ pc'[t] = "next" /\ pc[t] \notin InLock /\ pc'[t] \notin InLock
      /\ pc'[t] \notin Critical /\ pc'[t] \notin Holding
      /\ pc' \in [Tasks -> Places]
  BY <1>1, <1>5 DEF Landed, InLock, Critical, Holding
<1>7. TypeOK'
  BY <1>1, <1>2, <1>4, <1>6 DEF TypeOK, Entry
<1>8. LocksOK'
  BY <1>1, <1>6, KeepsLock DEF ManagerInv
<1>9. RecordsOK'
  <2>1. \A u, v \in Uids : records'[u] = records'[v] /\ records'[u] # Nobody => u = v
    <3> SUFFICES ASSUME NEW u \in Uids, NEW v \in Uids,
                        records'[u] = records'[v], records'[u] # Nobody
                 PROVE  u = v
      OBVIOUS
    <3>1. records[u] # Nobody => Known(records[u])
      BY DEF ManagerInv, RecordsOK
    <3>2. records[v] # Nobody => Known(records[v])
      BY DEF ManagerInv, RecordsOK
    <3>3. records[u] # Nobody /\ records[v] # Nobody => u = v
      BY <1>2 DEF ManagerInv, RecordsOK
    <3>4. QED
      BY <1>2, <3>1, <3>2, <3>3
  <2>2. ASSUME NEW u \in Uids, records'[u] # Nobody PROVE heap'[records'[u]].cloud # Nobody
    <3>1. CASE records[u] = Nobody
      BY <1>2, <2>2, <3>1
    <3>2. CASE records[u] # Nobody
      <4>1. records[u] \in Records /\ heap[records[u]].cloud # Nobody /\ records'[u] = records[u]
        BY <1>2, <1>3, <3>2 DEF ManagerInv, RecordsOK, Known
      <4>2. QED
        BY <1>2, <4>1
    <3>3. QED
      BY <3>1, <3>2
  <2>3. ASSUME NEW u \in Uids, closing'[u] # Nobody
        PROVE  /\ heap'[closing'[u]].cloud # Nobody
               /\ \A v \in Uids : records'[v] = closing'[u] => v = u
    <3>1. /\ closing'[u] = closing[u] /\ closing[u] \in Records /\ Known(closing[u])
          /\ \A v \in Uids : records[v] = closing[u] => v = u
      BY <1>1, <1>3, <2>3 DEF ManagerInv, RecordsOK
    <3>2. QED
      BY <1>2, <2>3, <3>1 DEF Known
  <2>4. ASSUME NEW r \in Records, heap'[r].conn # Nobody
        PROVE  /\ conns'[heap'[r].conn].phase \notin {"none", "opening"}
               /\ \A q \in Records : heap'[q].conn = heap'[r].conn => q = r
               /\ \A u \in Uids : records'[u] = r => conns'[heap'[r].conn].uid = u
    <3>1. /\ heap'[r].conn = heap[r].conn /\ conns' = conns
          /\ conns[heap[r].conn].phase \notin {"none", "opening"}
          /\ \A q \in Records : heap[q].conn = heap[r].conn => q = r
          /\ \A u \in Uids : records[u] = r => conns[heap[r].conn].uid = u
      BY <1>1, <1>2, <2>4 DEF ManagerInv, RecordsOK
    <3>2. \A q \in Records : heap'[q].conn = heap[q].conn
      BY <1>2
    <3>3. r # Nobody
      BY Names
    <3>4. \A u \in Uids : records'[u] = r => records[u] = r
      BY <1>2, <2>4, <3>1, <3>3
    <3>5. QED
      BY <3>1, <3>2, <3>4
  <2>5. QED
    BY <2>1, <2>2, <2>3, <2>4 DEF RecordsOK, Known
<1>10. \A v \in Uids, r \in Records : Known(r) /\ records'[v] = r => records[v] = r
  BY <1>2, Names
<1>11. ASSUME NEW q \in Tasks PROVE RecordOK(q)' /\ CallOK(q)' /\ ConnOK(q)'
  <2>1. RecordOK(q) /\ CallOK(q) /\ ConnOK(q) /\ job'[q] = job[q]
    BY <1>1 DEF ManagerInv, JobsOK
  <2>2. pc'[q] = IF q = t THEN "next" ELSE pc[q]
    BY <1>6 DEF Same
  <2>3. RecordOK(q)'
    <3>1. /\ job[q].rec # Nobody => Known(job[q].rec)'
          /\ \A v \in Uids : job[q].rec # Nobody /\ records'[v] = job[q].rec => v = job[q].uid
      BY <1>2, <1>3, <1>10, <2>1 DEF RecordOK, Known
    <3>2. CASE q = t
      BY <1>1, <1>6, <2>1, <2>2, <3>1, <3>2 DEF RecordOK, Known
    <3>3. CASE q # t
      BY <1>1, <2>1, <2>2, <3>1, <3>3 DEF RecordOK, Known
    <3>4. QED
      BY <3>2, <3>3
  <2>4. CallOK(q)'
    <3> SUFFICES ASSUME q \in Callers, pc[q] \in Critical PROVE CallOK(q)'
      BY <1>1, <2>2 DEF CallOK
    <3>1. /\ job[q].rec \in Records /\ job[q].uid \in Uids /\ records[job[q].uid] = job[q].rec
          /\ heap[job[q].rec].conn # Nobody => ~Live(heap[job[q].rec].conn)
      BY CriticalFacts
    <3>2. records'[job[q].uid] = job[q].rec /\ heap'[job[q].rec].conn = heap[job[q].rec].conn
      BY <1>2, <3>1, Names
    <3>3. QED
      BY <1>1, <2>1, <3>1, <3>2 DEF CallOK, Live
  <2>5. ConnOK(q)'
    <3> SUFFICES ASSUME pc[q] \in Holding PROVE ConnOK(q)'
      BY <1>6, <2>2 DEF ConnOK
    <3>1. q # t
      BY <1>1 DEF Holding
    <3>2. \A p \in Tasks : pc'[p] \in Holding /\ job'[p].conn = job[q].conn => p = q
      BY <1>1, <1>6, <2>1 DEF Same, ConnOK
    <3>3. \A r \in Records : heap'[r].conn # job[q].conn
      BY <1>2, <2>1 DEF ConnOK
    <3>4. QED
      BY <1>1, <2>1, <2>2, <3>1, <3>2, <3>3 DEF ConnOK
  <2>6. QED
    BY <2>3, <2>4, <2>5
<1>12. ASSUME ApartInv, Apart' PROVE ApartInv'
  <2>1. DiscoverOK'
    <3> SUFFICES ASSUME pc[Discoverer] \in InLock
                 PROVE  records'[job[Discoverer].uid] = job[Discoverer].rec
      BY <1>1, <1>6, <1>12, Names DEF DiscoverOK, Same
    <3>1. /\ records[job[Discoverer].uid] = job[Discoverer].rec
          /\ job[Discoverer].rec # Nobody /\ job[Discoverer].uid \in Uids
      BY <1>12, Names DEF ApartInv, DiscoverOK, ManagerInv, JobsOK, RecordOK, InLock, LocksOK
    <3>2. QED
      BY <1>2, <3>1
  <2>2. NoOrphanConnection'
    <3> SUFFICES ASSUME NEW d \in Conns, Live(d)' PROVE Held(d)' \/ Attached(d)'
      BY DEF NoOrphanConnection
    <3>1. Held(d) \/ Attached(d)
      BY <1>1, <1>12 DEF ApartInv, NoOrphanConnection, Live
    <3>2. Held(d) => Held(d)'
      BY <1>1, <1>6 DEF Held, Same
    <3>3. Attached(d) => Attached(d)'
      BY <1>2, <1>3 DEF Attached
    <3>4. QED
      BY <3>1, <3>2, <3>3
  <2>3. CloseOK'
    BY <1>1, <1>12 DEF ApartInv, CloseOK
  <2>4. QED
    BY <2>1, <2>2, <2>3 DEF ApartInv
<1>13. QED
  BY <1>1, <1>7, <1>8, <1>9, <1>11, <1>12 DEF JobsOK, Kept, ManagerInv, ClosingOK
\* A gateway leaves the table, and its connection is closed.
LEMMA RemoveKeeps ==
    ASSUME ManagerInv, Removing, NEW u \in Uids, lock[u] \in {Updater, Nobody}, RemoveGateway(u),
           NEW p \in Places \ InLock, NEW j \in Jobs, Landed(Updater, p, j), j.rec = Nobody,
           pc[Updater] \in InLock => job[Updater].uid = u,
           UNCHANGED <<heap, closing, closed>>, RestTypes'
    PROVE  Kept
<1> DEFINE t == Updater
           c == IF records[u] = Nobody THEN Nobody ELSE heap[records[u]].conn
<1>1. /\ t \in Tasks /\ t \in Users /\ t # Discoverer /\ t \notin Callers /\ t # Nobody
      /\ TypeOK /\ LockTypes /\ Queues /\ RecordOK(t)
  BY Names, TypedLocks DEF Users, ManagerInv, LocksOK, JobsOK
<1>2. /\ Same(t) /\ pc'[t] \notin InLock /\ job'[t].rec = Nobody
      /\ pc' \in [Tasks -> Places] /\ job' \in [Tasks -> Jobs]
  BY DEF Landed
<1>3. /\ pc'[t] \notin Holding /\ pc'[t] \notin Critical /\ pc'[t] # "waitlock" /\ pc'[t] # "closing_old"
      /\ pc[t] \notin Critical /\ pc[t] \notin Holding
  BY <1>1, <1>2 DEF InLock, Holding, Critical, RecordOK
<1>4. Leaves(t, u) /\ LockTypes'
  BY <1>1, ReleaseLeaves DEF RemoveGateway, Leaves
<1>5. LocksOK'
  BY <1>1, <1>2, <1>4, LeavesLock DEF ManagerInv
<1>6. /\ \A v \in Uids : records'[v] = IF v = u THEN Nobody ELSE records[v]
      /\ records' \in [Uids -> Opt(Records)]
  BY <1>1 DEF RemoveGateway, TypeOK, Opt
<1>7. /\ \A r \in Records : heap[r].conn # Nobody => heap[r].conn \in Conns
      /\ \A v \in Uids : /\ records[v] # Nobody => records[v] \in Records
                         /\ closing[v] # Nobody => closing[v] \in Records
      /\ \A s \in Tasks : job[s].rec # Nobody => job[s].rec \in Records
  BY <1>1 DEF TypeOK, Opt
<1>8. c \in Opt(Conns)
  BY <1>7 DEF Opt
<1>9. c # Nobody => /\ records[u] \in Records /\ heap[records[u]].conn = c /\ c \in Conns
                    /\ conns[c].phase \notin {"none", "opening"}
  BY <1>7 DEF ManagerInv, RecordsOK
<1>10. conns' = Shut(conns, c)
  <2>1. CASE records[u] = Nobody
    BY <2>1 DEF RemoveGateway, Shut
  <2>2. CASE records[u] # Nobody
    BY <2>2 DEF RemoveGateway
  <2>3. QED
    BY <2>1, <2>2
<1> HIDE DEF c
<1>11. /\ conns' \in [Conns -> ConnType]
       /\ \A d \in Conns :
             /\ conns'[d].phase = IF d = c THEN "closed" ELSE conns[d].phase
             /\ conns'[d].uid = conns[d].uid /\ conns'[d].host = conns[d].host
             /\ conns'[d].pushes = conns[d].pushes
  BY <1>1, <1>8, <1>10, ShutEffect
<1>12. \A s \in Tasks : pc[s] \in Critical => job[s].uid # u /\ s # t
  BY <1>3, CriticalFacts, Names
<1>13. RecordsOK'
  <2>1. /\ \A v, w \in Uids : records'[v] = records'[w] /\ records'[v] # Nobody => v = w
        /\ \A v \in Uids : records'[v] # Nobody => heap[records'[v]].cloud # Nobody
    BY <1>6 DEF ManagerInv, RecordsOK, Known
  <2>2. \A v \in Uids : closing[v] # Nobody =>
           /\ heap[closing[v]].cloud # Nobody
           /\ \A w \in Uids : records'[w] = closing[v] => w = v
    BY <1>6 DEF ManagerInv, RecordsOK, Known
  <2>3. \A r \in Records : heap[r].conn # Nobody =>
           /\ conns'[heap[r].conn].phase \notin {"none", "opening"}
           /\ \A s \in Records : heap[s].conn = heap[r].conn => s = r
           /\ \A v \in Uids : records'[v] = r => conns'[heap[r].conn].uid = v
    BY <1>6, <1>7, <1>11, Names DEF ManagerInv, RecordsOK
  <2>4. QED
    BY <2>1, <2>2, <2>3 DEF RecordsOK, Known
<1>14. ASSUME NEW s \in Tasks, s # t PROVE RecordOK(s)' /\ CallOK(s)' /\ ConnOK(s)'
  <2>1. pc'[s] = pc[s] /\ job'[s] = job[s] /\ RecordOK(s) /\ CallOK(s) /\ ConnOK(s)
    BY <1>2, <1>14 DEF Same, ManagerInv, JobsOK
  <2>2. RecordOK(s)'
    BY <1>6, <2>1 DEF RecordOK, Known
  <2>3. CallOK(s)'
    <3> SUFFICES ASSUME s \in Callers, pc[s] \in Critical PROVE CallOK(s)'
      BY <2>1 DEF CallOK
    <3>1. /\ job[s].rec \in Records /\ job[s].uid \in Uids /\ records[job[s].uid] = job[s].rec
          /\ heap[job[s].rec].conn # Nobody => ~Live(heap[job[s].rec].conn)
      BY CriticalFacts
    <3>2. records'[job[s].uid] = job[s].rec
      BY <1>6, <1>12, <3>1
    <3>3. heap[job[s].rec].conn # Nobody =>
              conns'[heap[job[s].rec].conn].phase \notin {"opening", "ready"}
      BY <1>7, <1>11, <3>1 DEF Live
    <3>4. QED
      BY <2>1, <3>2, <3>3 DEF CallOK, Live
  <2>4. ConnOK(s)'
    <3> SUFFICES ASSUME pc[s] \in Holding PROVE ConnOK(s)'
      BY <2>1 DEF ConnOK
    <3>1. job[s].conn \in Conns /\ job[s].conn # c
      BY <1>9, HeldFacts, Names
    <3>2. \A q \in Tasks : pc'[q] \in Holding /\ job'[q].conn = job[s].conn => q = s
      BY <1>2, <1>3, <2>1 DEF Same, ConnOK
    <3>3. QED
      BY <1>11, <2>1, <3>1, <3>2 DEF ConnOK
  <2>5. QED
    BY <2>2, <2>3, <2>4
<1>15. RecordOK(t)' /\ CallOK(t)' /\ ConnOK(t)'
  BY <1>1, <1>2, <1>3 DEF RecordOK, CallOK, ConnOK
<1>16. TypeOK'
  BY <1>1, <1>2, <1>4, <1>6, <1>11 DEF TypeOK, LockTypes, RestTypes, Users, Jobs, ConnType
<1>17. ASSUME ApartInv, Apart' PROVE ApartInv'
  <2>1. DiscoverOK'
    <3>1. pc[Discoverer] = "idle"
      BY <1>17 DEF ApartInv, DiscoverOK, Apart
    <3>2. pc'[Discoverer] = "idle"
      BY <1>1, <1>2, <3>1, Names DEF Same
    <3>3. QED
      BY <1>17, <3>2 DEF DiscoverOK, InLock, Critical
  <2>2. NoOrphanConnection'
    <3> SUFFICES ASSUME NEW d \in Conns, Live(d)' PROVE Held(d)' \/ Attached(d)'
      BY DEF NoOrphanConnection
    <3>1. d # c /\ Live(d)
      BY <1>11 DEF Live
    <3>2. Held(d) \/ Attached(d)
      BY <1>17, <3>1 DEF ApartInv, NoOrphanConnection
    <3>3. Held(d) => Held(d)'
      BY <1>2, <1>3 DEF Held, Same, Holding
    <3>4. Attached(d) => Attached(d)'
      BY <1>6, <3>1 DEF Attached, c
    <3>5. QED
      BY <3>2, <3>3, <3>4
  <2>3. CloseOK'
    BY <1>2, <1>3, <1>6, <1>17 DEF ApartInv, CloseOK, Same
  <2>4. QED
    BY <2>1, <2>2, <2>3 DEF ApartInv
<1>18. QED
  BY <1>5, <1>13, <1>14, <1>15, <1>16, <1>17 DEF JobsOK, Kept, ManagerInv, ClosingOK

\* It removes one gateway after the other,
LEMMA UpdateNextKeeps == ASSUME ManagerInv, UpdateNext PROVE Kept
<1> DEFINE t == Updater
<1>1. /\ t \in Tasks /\ t # Discoverer /\ pc[t] = "next" /\ pc[t] \notin InLock
      /\ TypeOK /\ job[t].rec = Nobody /\ job[t] \in Jobs
      /\ UNCHANGED <<heap, scan, closing, closed, left>>
  BY Names DEF UpdateNext, ManagerInv, InLock, Critical, JobsOK, RecordOK, TypeOK, Jobs
<1>2. CASE Return(t, Nobody) /\ UNCHANGED <<stale, records, conns, lock, waiters>>
  <2>1. Nobody \in Opt(Uids) /\ RestTypes'
    BY <1>1, <1>2, TypedRest DEF Opt
  <2>2. PICK p \in Places \ InLock : Landed(t, p, [NoJob EXCEPT !.uid = Nobody])
    BY <1>1, <1>2, <2>1, ReturnLands
  <2>3. [NoJob EXCEPT !.uid = Nobody] \in Jobs /\ [NoJob EXCEPT !.uid = Nobody].rec = Nobody
    BY DEF NoJob, Jobs, Opt
  <2>4. QED
    BY <1>1, <1>2, <2>1, <2>2, <2>3, ApartKeeps
<1>3. ASSUME NEW u \in stale, stale' = stale \ {u},
             \/ Free(u) /\ RemoveGateway(u) /\ UNCHANGED <<pc, job>>
             \/ /\ ~Free(u) /\ Wait(u, t) /\ Goto(t, "waitlock")
                /\ job' = [job EXCEPT ![t].uid = u]
                /\ UNCHANGED <<records, conns>>
      PROVE  Kept
  <2>1. u \in Uids /\ RestTypes' /\ Removing
    BY <1>1, <1>3 DEF TypeOK, RestTypes, Removing
  <2>2. CASE Free(u) /\ RemoveGateway(u) /\ UNCHANGED <<pc, job>>
    <3>1. "next" \in Places \ InLock
      BY DEF Places, InLock, Critical
    <3>2. Landed(t, "next", job[t])
      BY <1>1, <2>2 DEF Landed, Same, TypeOK, Jobs
    <3>3. QED
      BY <1>1, <2>1, <2>2, <3>1, <3>2, RemoveKeeps DEF Free
  <2>3. CASE /\ ~Free(u) /\ Wait(u, t) /\ Goto(t, "waitlock")
             /\ job' = [job EXCEPT ![t].uid = u]
             /\ UNCHANGED <<records, conns>>
    <3> DEFINE j == [job[t] EXCEPT !.uid = u]
    <3>1. j \in Jobs /\ j.rec = Nobody /\ j.uid = u
      BY <1>1, <2>1 DEF Jobs, Opt
    <3>2. job' = [job EXCEPT ![t] = j]
      BY <1>1, <2>3 DEF TypeOK
    <3> HIDE DEF j
    <3>3. Landed(t, "waitlock", j)
      BY <1>1, <2>3, <3>1, <3>2, LandsThere DEF Lands, Goto, Places
    <3>4. QED
      BY <1>1, <2>1, <2>3, <3>1, <3>3, WaitKeeps
  <2>4. QED
    BY <1>3, <2>2, <2>3
<1>4. QED
  BY <1>2, <1>3 DEF UpdateNext

\* also one whose lock it had to wait for.
LEMMA UpdateAcquireKeeps == ASSUME ManagerInv, UpdateAcquire PROVE Kept
<1> DEFINE t == Updater
           u == job[t].uid
<1>1. /\ t \in Tasks /\ pc[t] = "waitlock" /\ pc[t] \in InLock /\ lock[u] = t /\ RemoveGateway(u)
      /\ Goto(t, "next") /\ job' = [job EXCEPT ![t] = NoJob] /\ TypeOK /\ Removing
      /\ UNCHANGED <<heap, scan, stale, closing, closed, left>> /\ RestTypes'
  BY Names, TypedRest DEF UpdateAcquire, InLock, ManagerInv, Removing
<1>2. u \in Uids /\ NoJob \in Jobs /\ NoJob.rec = Nobody /\ "next" \in Places \ InLock
  BY <1>1 DEF ManagerInv, LocksOK, NoJob, Jobs, Opt, Places, InLock, Critical
<1>3. Landed(t, "next", NoJob)
  BY <1>1, <1>2, LandsThere DEF Lands, Goto
<1>4. QED
  BY <1>1, <1>2, <1>3, RemoveKeeps
-----------------------------------------------------------------------------
\* close is called: every record in the table is to be detached.
LEMMA CloseKeeps == ASSUME ManagerInv, Close PROVE Kept
<1>1. /\ ~closed /\ closed' = TRUE /\ closing' = records
      /\ UNCHANGED <<records, heap, conns, lock, waiters, pc, job, scan, stale, left>>
  BY DEF Close
<1>2. TypeOK'
  BY <1>1 DEF ManagerInv, TypeOK
<1>3. LocksOK'
  BY <1>1 DEF ManagerInv, LocksOK, Queues, Wants, ClosingOK
<1>4. RecordsOK'
  BY <1>1 DEF ManagerInv, RecordsOK, Known
<1>5. JobsOK'
  BY <1>1 DEF ManagerInv, JobsOK, RecordOK, CallOK, ConnOK, Known, Live
<1>6. ASSUME ApartInv, Apart' PROVE ApartInv'
  <2>1. DiscoverOK' /\ NoOrphanConnection'
    BY <1>1, <1>6 DEF ApartInv, DiscoverOK, NoOrphanConnection, Live, Held, Attached
  <2>2. ASSUME NEW t \in Tasks, pc[t] \in Critical PROVE closing'[job[t].uid] # Nobody
    <3>1. t \in Callers \/ t = Discoverer
      BY <2>2, CriticalFacts DEF Tasks
    <3>2. records[job[t].uid] = job[t].rec
      BY <1>6, <2>2, <3>1, CriticalFacts DEF ApartInv, DiscoverOK, InLock
    <3>3. QED
      BY <1>1, <2>2, <3>2, CriticalFacts, Names
  <2>3. CloseOK'
    BY <1>1, <2>2 DEF CloseOK
  <2>4. QED
    BY <2>1, <2>3 DEF ApartInv
<1>7. QED
  BY <1>1, <1>2, <1>3, <1>4, <1>5, <1>6 DEF Kept, ManagerInv, ClosingOK

\* close_record detaches the record's connection and closes it.
LEMMA DetachKeeps ==
    ASSUME ManagerInv, NEW u \in Uids, closing[u] # Nobody, lock[u] \in {Closer, Nobody}, Detach(u),
           UNCHANGED <<records, pc, job, scan, stale, closed, left>>
    PROVE  Kept
<1> DEFINE rec == closing[u]
           old == heap[rec].conn
<1>1. /\ TypeOK /\ LockTypes /\ Queues /\ Closer \in Users /\ Closer \notin Tasks /\ closed
      /\ rec \in Records /\ Closer # Nobody
  BY Names, TypedLocks DEF ManagerInv, LocksOK, Users, ClosingOK, TypeOK, Opt
<1>2. /\ \A r \in Records : heap[r] \in Entry
      /\ \A r \in Records : heap[r].conn # Nobody => heap[r].conn \in Conns
      /\ \A v \in Uids : records[v] # Nobody => records[v] \in Records
      /\ old \in Opt(Conns)
  BY <1>1 DEF TypeOK, Opt, Entry
<1>3. /\ heap' \in [Records -> Entry]
      /\ \A r \in Records : /\ heap'[r].cloud = heap[r].cloud
                            /\ heap'[r].conn = IF r = rec THEN Nobody ELSE heap[r].conn
  <2> DEFINE e == [heap[rec] EXCEPT !.conn = Nobody]
  <2>1. heap' = [heap EXCEPT ![rec] = e]
    BY <1>1 DEF Detach, TypeOK
  <2>2. e \in Entry /\ e.cloud = heap[rec].cloud /\ e.conn = Nobody
    BY <1>1, <1>2 DEF Entry, Opt
  <2> HIDE DEF e
  <2>3. QED
    BY <1>1, <2>1, <2>2 DEF TypeOK, Entry
<1>4. /\ conns' \in [Conns -> ConnType]
      /\ \A d \in Conns :
            /\ conns'[d].phase = IF d = old THEN "closed" ELSE conns[d].phase
            /\ conns'[d].uid = conns[d].uid /\ conns'[d].host = conns[d].host
            /\ conns'[d].pushes = conns[d].pushes
  BY <1>1, <1>2, ShutEffect DEF Detach
<1>5. /\ \A v \in Uids : closing'[v] = IF v = u THEN Nobody ELSE closing[v]
      /\ closing' \in [Uids -> Opt(Records)]
  BY <1>1 DEF Detach, TypeOK, Opt
<1>6. Leaves(Closer, u) /\ LockTypes'
  BY <1>1, ReleaseLeaves DEF Detach, Leaves
<1>7. LocksOK'
  <2>1. Queues'
    BY <1>6 DEF Leaves
  <2>2. ASSUME NEW s \in Tasks
        PROVE  /\ pc'[s] \in InLock => job'[s].uid \in Uids
               /\ \A v \in Uids : Wants(s, v)' <=> pc'[s] \in InLock /\ job'[s].uid = v
               /\ pc'[s] \in Critical => lock'[job'[s].uid] = s
    <3>1. \A v \in Uids : Wants(s, v)' <=> Wants(s, v)
      BY <1>1, <1>6 DEF Leaves, Users
    <3>2. pc[s] \in Critical => lock[job[s].uid] = s /\ job[s].uid \in Uids
      BY DEF ManagerInv, LocksOK, InLock
    <3>3. pc[s] \in Critical => lock'[job[s].uid] = s
      BY <1>1, <1>6, <3>2, Names DEF Leaves, Users
    <3>4. QED
      BY <3>1, <3>3 DEF ManagerInv, LocksOK
  <2>3. \A v \in Uids : Wants(Closer, v)' => closing'[v] # Nobody
    BY <1>1, <1>5, <1>6 DEF Leaves, ManagerInv, LocksOK
  <2>4. QED
    BY <2>1, <2>2, <2>3 DEF LocksOK, Wants
<1>8. TypeOK'
  BY <1>1, <1>3, <1>4, <1>5, <1>6 DEF TypeOK, LockTypes, Users, Entry, ConnType
<1>9. RecordsOK'
  <2>1. /\ \A v, w \in Uids : records[v] = records[w] /\ records[v] # Nobody => v = w
        /\ \A v \in Uids : records[v] # Nobody => heap'[records[v]].cloud # Nobody
        /\ \A v \in Uids : closing'[v] # Nobody =>
              /\ heap'[closing'[v]].cloud # Nobody
              /\ \A w \in Uids : records[w] = closing'[v] => w = v
    <3>1. \A v \in Uids : closing[v] # Nobody => closing[v] \in Records
      BY <1>1 DEF TypeOK, Opt
    <3>2. QED
      BY <1>2, <1>3, <1>5, <3>1 DEF ManagerInv, RecordsOK, Known
  <2>2. ASSUME NEW r \in Records, heap'[r].conn # Nobody
        PROVE  /\ conns'[heap'[r].conn].phase \notin {"none", "opening"}
               /\ \A s \in Records : heap'[s].conn = heap'[r].conn => s = r
               /\ \A v \in Uids : records[v] = r => conns'[heap'[r].conn].uid = v
    <3>1. heap'[r].conn = heap[r].conn /\ heap[r].conn \in Conns
      BY <1>2, <1>3, <2>2
    <3>2. /\ conns[heap[r].conn].phase \notin {"none", "opening"}
          /\ \A s \in Records : heap[s].conn = heap[r].conn => s = r
          /\ \A v \in Uids : records[v] = r => conns[heap[r].conn].uid = v
      BY <2>2, <3>1 DEF ManagerInv, RecordsOK
    <3>3. \A s \in Records : heap'[s].conn = heap[r].conn => s = r
      BY <1>3, <2>2, <3>1, <3>2
    <3>4. QED
      BY <1>4, <3>1, <3>2, <3>3
  <2>3. QED
    BY <2>1, <2>2 DEF RecordsOK, Known
<1> HIDE DEF old, rec
<1>10. ASSUME NEW s \in Tasks PROVE RecordOK(s)' /\ CallOK(s)' /\ ConnOK(s)'
  <2>1. /\ RecordOK(s) /\ CallOK(s) /\ ConnOK(s)
        /\ job[s].rec # Nobody => job[s].rec \in Records
    BY <1>1 DEF ManagerInv, JobsOK, TypeOK, Opt
  <2>2. RecordOK(s)'
    BY <1>3, <2>1 DEF RecordOK, Known
  <2>3. CallOK(s)'
    <3> SUFFICES ASSUME s \in Callers, pc[s] \in Critical PROVE CallOK(s)'
      BY DEF CallOK
    <3>1. /\ job[s].rec \in Records /\ records[job[s].uid] = job[s].rec
          /\ heap[job[s].rec].conn # Nobody => ~Live(heap[job[s].rec].conn)
      BY CriticalFacts
    <3>2. heap'[job[s].rec].conn # Nobody =>
             /\ heap'[job[s].rec].conn = heap[job[s].rec].conn
             /\ heap[job[s].rec].conn \in Conns
      BY <1>2, <1>3, <3>1
    <3>3. QED
      BY <1>4, <3>1, <3>2 DEF CallOK, Live
  <2>4. ConnOK(s)'
    <3> SUFFICES ASSUME pc[s] \in Holding PROVE ConnOK(s)'
      BY DEF ConnOK
    <3>1. /\ job[s].conn \in Conns /\ job[s].conn # Nobody
          /\ \A r \in Records : heap[r].conn # job[s].conn
      BY HeldFacts, Names
    <3>2. job[s].conn # old /\ \A r \in Records : heap'[r].conn # job[s].conn
      BY <1>1, <1>3, <3>1 DEF old
    <3>3. QED
      BY <1>4, <2>1, <3>1, <3>2 DEF ConnOK
  <2>5. QED
    BY <2>2, <2>3, <2>4
<1>11. ASSUME ApartInv, Apart' PROVE ApartInv'
  <2>1. DiscoverOK'
    BY <1>11 DEF ApartInv, DiscoverOK
  <2>2. NoOrphanConnection'
    <3> SUFFICES ASSUME NEW d \in Conns, Live(d)' PROVE Held(d)' \/ Attached(d)'
      BY DEF NoOrphanConnection
    <3>1. d # old /\ Live(d)
      BY <1>4 DEF Live
    <3>2. Held(d) \/ Attached(d)
      BY <1>11, <3>1 DEF ApartInv, NoOrphanConnection
    <3>3. Held(d) => Held(d)'
      BY DEF Held
    <3>4. Attached(d) => Attached(d)'
      BY <1>2, <1>3, <3>1 DEF Attached, old
    <3>5. QED
      BY <3>2, <3>3, <3>4
  <2>3. CloseOK'
    <3>1. ASSUME NEW v \in Uids, records[v] # Nobody
          PROVE  IF closing'[v] # Nobody THEN records[v] = closing'[v]
                 ELSE heap'[records[v]].conn = Nobody
      <4>1. IF closing[v] # Nobody THEN records[v] = closing[v] ELSE heap[records[v]].conn = Nobody
        BY <1>1, <1>11, <3>1 DEF ApartInv, CloseOK
      <4>2. CASE v = u
        BY <1>1, <1>3, <1>5, <4>1, <4>2 DEF rec
      <4>3. CASE v # u
        BY <1>2, <1>3, <1>5, <3>1, <4>1, <4>3
      <4>4. QED
        BY <4>2, <4>3
    <3>2. ASSUME NEW t \in Tasks, pc[t] \in Critical PROVE closing'[job[t].uid] # Nobody
      <4>1. job[t].uid \in Uids /\ lock[job[t].uid] = t /\ t \in Users
        BY <3>2, CriticalFacts
      <4>2. job[t].uid # u
        BY <1>1, <4>1, Names
      <4>3. QED
        BY <1>1, <1>5, <1>11, <3>2, <4>1, <4>2 DEF ApartInv, CloseOK
    <3>3. QED
      BY <3>1, <3>2 DEF CloseOK
  <2>4. QED
    BY <2>1, <2>2, <2>3 DEF ApartInv
<1>12. ClosingOK'
  BY <1>1 DEF ClosingOK
<1>13. QED
  BY <1>7, <1>8, <1>9, <1>10, <1>11, <1>12 DEF JobsOK, Kept, ManagerInv

\* The closer of a record may first have to wait for the lock.
LEMMA CloseRecordKeeps == ASSUME ManagerInv, NEW u \in Uids, CloseRecord(u) PROVE Kept
<1>1. closing[u] # Nobody /\ UNCHANGED <<records, pc, job, scan, stale, closed, left>>
  BY DEF CloseRecord
<1>2. CASE (Free(u) \/ lock[u] = Closer) /\ Detach(u)
  BY <1>1, <1>2, DetachKeeps DEF Free
<1>3. CASE /\ ~Free(u) /\ lock[u] # Closer
           /\ \A i \in DOMAIN waiters[u] : waiters[u][i] # Closer
           /\ Wait(u, Closer)
           /\ UNCHANGED <<heap, conns, closing>>
  <2>1. /\ TypeOK /\ LockTypes /\ Queues /\ Closer \in Users /\ Closer \notin Tasks
    BY Names, TypedLocks DEF ManagerInv, LocksOK, Users
  <2>2. ~Wants(Closer, u)
    <3>1. waiters[u] \in Seq(Users)
      BY <2>1 DEF LockTypes
    <3>2. DOMAIN waiters[u] = 1..Len(waiters[u])
      BY <3>1
    <3>3. QED
      BY <1>3, <3>2 DEF Wants, InQueue
  <2>3. Enters(Closer, u) /\ lock' = lock
    BY <1>3, <2>1, <2>2, WaitEnters
  <2>4. LocksOK'
    <3>1. Queues'
      BY <2>3 DEF Enters
    <3>2. \A s \in Tasks, v \in Uids : Wants(s, v)' <=> Wants(s, v)
      BY <2>1, <2>3 DEF Enters, Users
    <3>3. \A v \in Uids : Wants(Closer, v)' => closing'[v] # Nobody
      BY <1>1, <1>3, <2>1, <2>3 DEF Enters, ManagerInv, LocksOK
    <3>4. QED
      BY <1>1, <2>3, <3>1, <3>2, <3>3 DEF ManagerInv, LocksOK
  <2>5. TypeOK'
    BY <1>1, <1>3, <2>1, <2>3 DEF TypeOK, Enters, LockTypes, Users
  <2>6. RecordsOK' /\ JobsOK' /\ ClosingOK'
    BY <1>1, <1>3 DEF ManagerInv, RecordsOK, JobsOK, RecordOK, CallOK, ConnOK, Known, Live, ClosingOK
  <2>7. ApartInv /\ Apart' => ApartInv'
    BY <1>1, <1>3 DEF ApartInv, DiscoverOK, NoOrphanConnection, Live, Held, Attached, CloseOK
  <2>8. QED
    BY <2>4, <2>5, <2>6, <2>7 DEF Kept, ManagerInv
<1>4. QED
  BY <1>2, <1>3 DEF CloseRecord
-----------------------------------------------------------------------------
\* The first state satisfies both invariants.
LEMMA InitOK == Init => ManagerInv /\ ApartInv
<1> SUFFICES ASSUME Init PROVE ManagerInv /\ ApartInv
  OBVIOUS
<1>1. PICK s \in Snapshots, made \in [Uids -> Records] :
        /\ \A u, v \in Uids : u # v => made[u] # made[v]
        /\ records = [u \in Uids |-> IF u \in DOMAIN s THEN made[u] ELSE Nobody]
        /\ heap = [r \in Records |->
              IF \E u \in DOMAIN s : made[u] = r
                THEN LET h == s[CHOOSE u \in DOMAIN s : made[u] = r]
                     IN [cloud |-> h, active |-> h, conn |-> Nobody]
                ELSE NoRecord]
  BY DEF Init
<1>2. /\ conns = [c \in Conns |-> NoConn] /\ lock = [u \in Uids |-> Nobody]
      /\ waiters = [u \in Uids |-> <<>>] /\ pc = [t \in Tasks |-> "idle"]
      /\ job = [t \in Tasks |-> NoJob] /\ scan = NoScan /\ stale = {}
      /\ closing = [u \in Uids |-> Nobody] /\ closed = FALSE
      /\ left = [updates |-> Updates, scans |-> Scans]
  BY DEF Init
<1>3. DOMAIN s \subseteq Uids /\ \A u \in DOMAIN s : s[u] \in Hosts /\ s[u] # Nobody
  BY InputsAssumption, Names
<1>4. ASSUME NEW r \in Records
      PROVE  /\ heap[r] \in Entry /\ heap[r].conn = Nobody
             /\ (\E u \in DOMAIN s : made[u] = r) => heap[r].cloud # Nobody
  <2>1. CASE \E u \in DOMAIN s : made[u] = r
    <3> DEFINE h == s[CHOOSE u \in DOMAIN s : made[u] = r]
    <3>1. h \in Hosts /\ h # Nobody
      BY <1>3, <2>1
    <3>2. heap[r] = [cloud |-> h, active |-> h, conn |-> Nobody]
      BY <1>1, <2>1
    <3> HIDE DEF h
    <3>3. QED
      BY <3>1, <3>2 DEF Entry, Opt
  <2>2. CASE ~\E u \in DOMAIN s : made[u] = r
    BY <1>1, <2>2 DEF NoRecord, Entry, Opt
  <2>3. QED
    BY <2>1, <2>2
<1>5. TypeOK
  <2>1. records \in [Uids -> Opt(Records)]
    BY <1>1, <1>3 DEF Opt
  <2>2. heap \in [Records -> Entry]
    BY <1>1, <1>4
  <2>3. NoConn \in ConnType /\ NoJob \in Jobs
    BY DEF NoConn, ConnType, Opt, Phases, NoJob, Jobs
  <2>4. conns \in [Conns -> ConnType] /\ job \in [Tasks -> Jobs]
    BY <1>2, <2>3
  <2>5. left \in [updates : 0..Updates, scans : 0..Scans]
    BY <1>2, InputsAssumption
  <2>6. DOMAIN scan \subseteq Uids /\ \A u \in DOMAIN scan : scan[u] \in Hosts
    BY <1>2 DEF NoScan
  <2>7. lock \in [Uids -> Opt(Users)] /\ closing \in [Uids -> Opt(Records)] /\ pc \in [Tasks -> Places]
    BY <1>2 DEF Opt, Places
  <2>8. waiters \in [Uids -> Seq(Users)]
    BY <1>2
  <2>9. stale \subseteq Uids /\ closed \in BOOLEAN
    BY <1>2
  <2>10. QED
    BY <2>1, <2>2, <2>4, <2>5, <2>6, <2>7, <2>8, <2>9 DEF TypeOK, Entry, ConnType, Jobs, Users
<1>6. LocksOK
  <2>1. \A w : ~InQueue(w, <<>>)
    BY DEF InQueue
  <2>2. Once(<<>>)
    BY DEF Once
  <2>3. QED
    BY <1>2, <2>1, <2>2, Names DEF LocksOK, Queues, Wants, InLock, Critical, Users
<1>7. RecordsOK
  BY <1>1, <1>2, <1>3, <1>4 DEF RecordsOK, Known
<1>8. JobsOK
  BY <1>2 DEF JobsOK, RecordOK, CallOK, ConnOK, Critical, InLock, Holding, NoJob
<1>9. ClosingOK /\ CloseOK /\ DiscoverOK
  BY <1>2, Names DEF ClosingOK, CloseOK, DiscoverOK, Apart, Removing, InLock, Critical
<1>10. NoOrphanConnection
  BY <1>2 DEF NoOrphanConnection, Live, NoConn
<1>11. QED
  BY <1>5, <1>6, <1>7, <1>8, <1>9, <1>10 DEF ManagerInv, ApartInv

\* Every step keeps them.
LEMMA StepKeeps == ASSUME ManagerInv, Next PROVE Kept
<1>1. ASSUME NEW t \in Callers, NEW op \in Ops, NEW u \in Uids, CallBegin(t, op, u) PROVE Kept
  BY <1>1, CallBeginKeeps
<1>2. ASSUME NEW t \in Callers, CallStep(t) PROVE Kept
  BY <1>2, CallAcquireKeeps, CallRedialKeeps, CallAttachKeeps DEF CallStep
<1>3. ASSUME NEW t \in Tasks, ConnectStep(t) PROVE Kept
  BY <1>3, ConnReadyKeeps, ConnFailsKeeps DEF ConnectStep
<1>4. ASSUME NEW t \in Tasks, Cancel(t) PROVE Kept
  BY <1>4, CancelKeeps
<1>5. ASSUME NEW c \in Conns, ConnDrop(c) PROVE Kept
  BY <1>5, DropKeeps
<1>6. CASE DiscoverBegin
  BY <1>6, ScanBeginKeeps
<1>7. CASE DiscoverStep
  BY <1>7, ScannedKeeps, DiscoverNextKeeps, DiscoverAcquireKeeps, DiscoverPromoteKeeps
     DEF DiscoverStep
<1>8. ASSUME NEW s \in Snapshots, UpdateBegin(s) PROVE Kept
  BY <1>8, UpdateBeginKeeps
<1>9. CASE UpdateStep
  BY <1>9, UpdateNextKeeps, UpdateAcquireKeeps DEF UpdateStep
<1>10. CASE Close
  BY <1>10, CloseKeeps
<1>11. ASSUME NEW u \in Uids, CloseRecord(u) PROVE Kept
  BY <1>11, CloseRecordKeeps
<1>12. QED
  BY <1>1, <1>2, <1>3, <1>4, <1>5, <1>6, <1>7, <1>8, <1>9, <1>10, <1>11 DEF Next

\* A step that changes nothing keeps them, too.
LEMMA StutterKeeps == ASSUME UNCHANGED vars
  PROVE (ManagerInv => ManagerInv') /\ (ApartInv => ApartInv')
<1>1. TypeOK => TypeOK'
  BY DEF vars, TypeOK
<1>2. LocksOK => LocksOK'
  BY DEF vars, LocksOK, Queues, Wants
<1>3. RecordsOK => RecordsOK'
  BY DEF vars, RecordsOK, Known
<1>4. JobsOK => JobsOK'
  BY DEF vars, JobsOK, RecordOK, CallOK, ConnOK, Known, Live
<1>5. (ClosingOK => ClosingOK') /\ (CloseOK => CloseOK')
  BY DEF vars, ClosingOK, CloseOK
<1>6. DiscoverOK => DiscoverOK'
  BY DEF vars, DiscoverOK, Apart, Removing
<1>7. NoOrphanConnection => NoOrphanConnection'
  BY DEF vars, NoOrphanConnection, Live, Held, Attached
<1>8. QED
  BY <1>1, <1>2, <1>3, <1>4, <1>5, <1>6, <1>7 DEF ManagerInv, ApartInv

\* The inductive invariant of every execution.
THEOREM ManagerInvariant == Spec => []ManagerInv
<1>1. Init => ManagerInv
  BY InitOK
<1>2. ManagerInv /\ [Next]_vars => ManagerInv'
  BY StepKeeps, StutterKeeps DEF Kept
<1>3. QED
  BY <1>1, <1>2, PTL DEF Spec

\* And of the executions in which a removal and a discovery round keep apart.
THEOREM ApartInvariant == ApartSpec => [](ManagerInv /\ ApartInv)
<1>1. Init => ManagerInv /\ ApartInv
  BY InitOK
<1>2. ManagerInv /\ ApartInv /\ [Next /\ Apart']_vars => (ManagerInv /\ ApartInv)'
  BY StepKeeps, StutterKeeps DEF Kept
<1>3. QED
  BY <1>1, <1>2, PTL DEF ApartSpec
-----------------------------------------------------------------------------
\* Every variable has its type.
THEOREM TypeCorrect == Spec => []TypeOK
<1>1. ManagerInv => TypeOK
  BY DEF ManagerInv
<1>2. QED
  BY <1>1, ManagerInvariant, PTL

\* Connections are closed, dialled and attached under their gateway's lock, and
\* no lock is left behind, however calls, discovery, refreshes and close meet and
\* whichever of them is cancelled (_locks, gateway_manager.py).
THEOREM LocksAreHonoured == Spec => []LocksHonoured
<1>1. ManagerInv => LocksHonoured
  <2> SUFFICES ASSUME ManagerInv PROVE LocksHonoured
    OBVIOUS
  <2>1. \A t \in Tasks : pc[t] \in Critical => lock[job[t].uid] = t
    BY DEF ManagerInv, LocksOK
  <2>2. ASSUME NEW u \in Uids, lock[u] # Nobody
        PROVE  \/ lock[u] = Closer /\ closing[u] # Nobody
               \/ \E t \in Tasks : /\ lock[u] = t /\ job[t].uid = u
                                   /\ pc[t] \in Critical \union {"waitlock"}
    <3>1. lock[u] \in Tasks \union {Closer}
      BY <2>2 DEF ManagerInv, TypeOK, Opt
    <3>2. Wants(lock[u], u)
      BY DEF Wants
    <3>3. QED
      BY <3>1, <3>2 DEF ManagerInv, LocksOK, InLock
  <2>3. QED
    BY <2>1, <2>2 DEF LocksHonoured
<1>2. QED
  BY <1>1, ManagerInvariant, PTL

\* A step that closes at most a connection that exists starts no handshake.
LEMMA ShutDialsNone ==
    ASSUME ManagerInv, NEW c \in Opt(Conns), conns' = Shut(conns, c),
           c # Nobody => conns[c].phase # "none"
    PROVE  \A d \in Conns : conns[d].phase = "none" => conns'[d].phase = "none"
<1>1. \A d \in Conns : conns'[d].phase = IF d = c THEN "closed" ELSE conns[d].phase
  BY ShutEffect DEF ManagerInv
<1>2. QED
  BY <1>1, Names

\* The connection of a record, and of a task that opens one, exists.
LEMMA KnownConns ==
    ASSUME ManagerInv
    PROVE  /\ \A r \in Records : /\ heap[r].conn \in Opt(Conns)
                                 /\ heap[r].conn # Nobody => conns[heap[r].conn].phase # "none"
           /\ \A t \in Tasks : pc[t] \in Holding =>
                 job[t].conn \in Opt(Conns) /\ conns[job[t].conn].phase # "none"
           /\ \A u \in Uids : /\ records[u] # Nobody => records[u] \in Records
                              /\ closing[u] # Nobody => closing[u] \in Records
<1>1. \A r \in Records : /\ heap[r].conn \in Opt(Conns)
                         /\ heap[r].conn # Nobody => conns[heap[r].conn].phase # "none"
  BY DEF ManagerInv, TypeOK, RecordsOK
<1>2. ASSUME NEW t \in Tasks, pc[t] \in Holding
      PROVE  job[t].conn \in Opt(Conns) /\ conns[job[t].conn].phase # "none"
  <2>1. pc[t] = "connecting" \/ pc[t] = "connected"
    BY <1>2 DEF Holding
  <2>2. QED
    BY <1>2, <2>1, HeldFacts DEF Opt
<1>3. \A u \in Uids : /\ records[u] # Nobody => records[u] \in Records
                      /\ closing[u] # Nobody => closing[u] \in Records
  BY DEF ManagerInv, TypeOK, Opt
<1>4. QED
  BY <1>1, <1>2, <1>3

\* No handshake starts once close has been called, also for a task that was
\* already waiting for a lock, closing an old connection or scanning: each looks
\* at _closed again before it dials.
THEOREM NothingDialledAfterClose == Spec => NoDialAfterClose
<1> DEFINE None == \A c \in Conns : conns[c].phase = "none" => conns'[c].phase = "none"
           Step == closed => \A c \in Conns : conns[c].phase = "none" => conns'[c].phase = "none"
<1>1. ASSUME ManagerInv, Next, closed PROVE None
  <2> USE <1>1
  <2>1. UNCHANGED conns => None
    OBVIOUS
  <2>2. ASSUME NEW t \in Callers, NEW op \in Ops, NEW u \in Uids, CallBegin(t, op, u) PROVE None
    BY <2>1, <2>2 DEF CallBegin
  <2>3. ASSUME NEW t \in Callers, CallStep(t) PROVE None
    <3>1. CASE CallAcquire(t)
      BY <2>1, <3>1 DEF CallAcquire, CallCritical
    <3>2. CASE CallRedial(t)
      BY <2>1, <3>2 DEF CallRedial
    <3>3. CASE CallAttach(t)
      <4>1. conns' = Shut(conns, job[t].conn) /\ pc[t] \in Holding /\ t \in Tasks
        BY <3>3, Names DEF CallAttach, Holding
      <4>2. QED
        BY <4>1, KnownConns, ShutDialsNone
    <3>4. QED
      BY <2>3, <3>1, <3>2, <3>3 DEF CallStep
  <2>4. ASSUME NEW t \in Tasks, ConnectStep(t) PROVE None
    <3>1. CASE ConnectReady(t)
      <4>1. job[t].conn \in Conns /\ conns[job[t].conn].phase = "opening"
        BY <3>1, HeldFacts DEF ConnectReady, Holding
      <4>2. \A d \in Conns : d # job[t].conn => conns'[d] = conns[d]
        BY <3>1, <4>1 DEF ConnectReady, ManagerInv, TypeOK
      <4>3. QED
        BY <4>1, <4>2
    <3>2. CASE ConnectFails(t)
      <4>1. conns' = Shut(conns, job[t].conn) /\ pc[t] \in Holding
        BY <3>2 DEF ConnectFails, Holding
      <4>2. QED
        BY <4>1, KnownConns, ShutDialsNone
    <3>3. QED
      BY <2>4, <3>1, <3>2 DEF ConnectStep
  <2>5. ASSUME NEW t \in Tasks, Cancel(t) PROVE None
    <3>1. CASE pc[t] \in Holding
      <4>1. conns' = Shut(conns, job[t].conn)
        BY <2>5, <3>1 DEF Cancel, Holding
      <4>2. QED
        BY <3>1, <4>1, KnownConns, ShutDialsNone
    <3>2. CASE pc[t] \notin Holding
      BY <2>1, <2>5, <3>2 DEF Cancel, Holding
    <3>3. QED
      BY <3>1, <3>2
  <2>6. ASSUME NEW d \in Conns, ConnDrop(d) PROVE None
    BY <2>6 DEF ConnDrop, ManagerInv, TypeOK
  <2>7. CASE DiscoverBegin
    BY <2>7 DEF DiscoverBegin
  <2>8. CASE DiscoverStep
    <3>1. CASE DiscoverScanned \/ DiscoverNext \/ DiscoverAcquire
      BY <2>1, <3>1 DEF DiscoverScanned, DiscoverNext, DiscoverAcquire, DiscoverCritical
    <3>2. CASE DiscoverPromote
      <4>1. conns' = Shut(conns, job[Discoverer].conn) /\ pc[Discoverer] \in Holding
            /\ Discoverer \in Tasks
        BY <3>2, Names DEF DiscoverPromote, Holding
      <4>2. QED
        BY <4>1, KnownConns, ShutDialsNone
    <3>3. QED
      BY <2>8, <3>1, <3>2 DEF DiscoverStep
  <2>9. ASSUME NEW s \in Snapshots, UpdateBegin(s) PROVE None
    BY <2>9 DEF UpdateBegin
  <2>10. ASSUME NEW u \in Uids, RemoveGateway(u) PROVE None
    <3>1. CASE records[u] = Nobody
      BY <2>1, <2>10, <3>1 DEF RemoveGateway
    <3>2. CASE records[u] # Nobody
      <4>1. conns' = Shut(conns, heap[records[u]].conn)
        BY <2>10, <3>2 DEF RemoveGateway
      <4>2. QED
        BY <3>2, <4>1, KnownConns, ShutDialsNone
    <3>3. QED
      BY <3>1, <3>2
  <2>11. CASE UpdateStep
    <3>1. stale \subseteq Uids /\ (pc[Updater] = "waitlock" => job[Updater].uid \in Uids)
      BY Names DEF ManagerInv, TypeOK, LocksOK, InLock
    <3>2. QED
      BY <2>1, <2>10, <2>11, <3>1 DEF UpdateStep, UpdateNext, UpdateAcquire
  <2>12. CASE Close
    BY <2>12 DEF Close
  <2>13. ASSUME NEW u \in Uids, CloseRecord(u) PROVE None
    <3>1. CASE Detach(u)
      <4>1. conns' = Shut(conns, heap[closing[u]].conn) /\ closing[u] # Nobody
        BY <2>13, <3>1 DEF CloseRecord, Detach
      <4>2. QED
        BY <4>1, KnownConns, ShutDialsNone
    <3>2. QED
      BY <2>1, <2>13, <3>1 DEF CloseRecord
  <2>14. QED
    BY <2>2, <2>3, <2>4, <2>5, <2>6, <2>7, <2>8, <2>9, <2>11, <2>12, <2>13 DEF Next
<1>2. ManagerInv /\ [Next]_vars => [Step]_vars
  BY <1>1
<1>3. QED
  BY <1>2, ManagerInvariant, PTL DEF Spec, NoDialAfterClose
\* A refresh moves the active host only along with the cloud's.
LEMMA RefreshFollows ==
    ASSUME TypeOK, NEW s \in Snapshots, UpdateCloudGateways(s),
           NEW r \in Records, heap[r] # NoRecord, heap'[r].cloud = heap[r].cloud
    PROVE  heap'[r].active = heap[r].active
<1> DEFINE fresh == {u \in DOMAIN s : records[u] = Nobody}
           unused == {q \in Records : heap[q] = NoRecord}
           follow(old, host) ==
              [old EXCEPT !.cloud = host,
                          !.active = IF old.active = old.cloud THEN host ELSE old.active]
<1>1. PICK made \in [fresh -> unused] :
        heap' = [q \in Records |->
              IF \E u \in fresh : made[u] = q
                THEN LET u == CHOOSE v \in fresh : made[v] = q
                     IN [cloud |-> s[u], active |-> s[u], conn |-> Nobody]
              ELSE IF \E u \in DOMAIN s : records[u] = q
                THEN follow(heap[q], s[CHOOSE u \in DOMAIN s : records[u] = q])
              ELSE heap[q]]
  BY DEF UpdateCloudGateways
<1>2. heap[r] \in Entry
  BY DEF TypeOK, Entry
<1>3. ~\E u \in fresh : made[u] = r
  BY <1>1
<1>4. CASE \E u \in DOMAIN s : records[u] = r
  <2> DEFINE h == s[CHOOSE u \in DOMAIN s : records[u] = r]
  <2>1. heap'[r] = follow(heap[r], h)
    BY <1>1, <1>3, <1>4
  <2> HIDE DEF h
  <2>2. heap'[r].cloud = h
    BY <1>2, <2>1 DEF Entry
  <2>3. QED
    BY <1>2, <2>1, <2>2 DEF Entry
<1>5. CASE ~\E u \in DOMAIN s : records[u] = r
  BY <1>1, <1>3, <1>5
<1>6. QED
  BY <1>4, <1>5

\* No step but a promotion moves the active host otherwise.
LEMMA OthersKeepHost ==
    ASSUME ManagerInv, Next, ~DiscoverPromote,
           NEW r \in Records, heap[r] # NoRecord, heap'[r].cloud = heap[r].cloud
    PROVE  heap'[r].active = heap[r].active
<1> DEFINE Same1 == heap'[r].active = heap[r].active
<1>1. UNCHANGED heap => Same1
  OBVIOUS
<1>2. ASSUME NEW t \in Callers, CallStep(t) PROVE Same1
  <2>1. CASE CallAttach(t)
    BY <2>1 DEF CallAttach, ManagerInv, TypeOK
  <2>2. QED
    BY <1>1, <1>2, <2>1 DEF CallStep, CallAcquire, CallRedial
<1>3. ASSUME NEW s \in Snapshots, UpdateBegin(s) PROVE Same1
  BY <1>3, RefreshFollows DEF UpdateBegin, ManagerInv
<1>4. ASSUME NEW u \in Uids, CloseRecord(u) PROVE Same1
  <2>1. CASE Detach(u)
    BY <2>1 DEF Detach, ManagerInv, TypeOK
  <2>2. QED
    BY <1>1, <1>4, <2>1 DEF CloseRecord
<1>5. QED
  BY <1>1, <1>2, <1>3, <1>4
     DEF Next, CallBegin, ConnectStep, ConnectReady, ConnectFails, Cancel, ConnDrop, DiscoverBegin,
         DiscoverStep, DiscoverScanned, DiscoverNext, DiscoverAcquire, UpdateStep, UpdateNext,
         UpdateAcquire, Close

\* The active host leaves the cloud's only for an address where a login has
\* confirmed the gateway's identity (_promotable and discover, gateway_manager.py).
THEOREM PromotionConfirmed == Spec => PromotionNeedsLogin
<1> DEFINE Step ==
      \A r \in Records :
          /\ heap[r] # NoRecord
          /\ heap'[r].cloud = heap[r].cloud
          /\ heap'[r].active # heap[r].active
          => LET c == heap'[r].conn IN
             /\ c # Nobody
             /\ conns[c].confirmed
             /\ \A u \in Uids : records[u] = r => conns[c].uid = u
             /\ conns'[c].host = heap'[r].active
<1>1. ASSUME ManagerInv, Next PROVE Step
  <2> SUFFICES ASSUME NEW r \in Records, heap[r] # NoRecord, heap'[r].cloud = heap[r].cloud,
                      heap'[r].active # heap[r].active
               PROVE  /\ heap'[r].conn # Nobody /\ conns[heap'[r].conn].confirmed
                      /\ \A u \in Uids : records[u] = r => conns[heap'[r].conn].uid = u
                      /\ conns'[heap'[r].conn].host = heap'[r].active
    OBVIOUS
  <2> DEFINE j == job[Discoverer]
             cs == [conns EXCEPT ![j.conn].pushes = TRUE]
  <2>1. DiscoverPromote /\ TypeOK
    BY <1>1, OthersKeepHost DEF ManagerInv
  <2>2. /\ pc[Discoverer] \in Holding /\ pc[Discoverer] \in Critical /\ Discoverer \in Tasks
        /\ conns[j.conn].confirmed
        /\ heap' = [heap EXCEPT ![j.rec].conn = j.conn, ![j.rec].active = j.host]
        /\ conns' = Shut(cs, heap[j.rec].conn)
    BY <2>1, Names DEF DiscoverPromote, Promotable, Holding, Critical
  <2>3. /\ j.rec \in Records /\ j.conn \in Conns /\ j.conn # Nobody
        /\ conns[j.conn].uid = j.uid /\ conns[j.conn].host = j.host
        /\ \A u \in Uids : records[u] = j.rec => u = j.uid
    <3>1. j.rec \in Records /\ \A u \in Uids : records[u] = j.rec => u = j.uid
      BY <1>1, <2>2, CriticalFacts
    <3>2. /\ j.conn \in Conns
          /\ conns[j.conn].uid = j.uid /\ conns[j.conn].host = j.host
      BY <1>1, <2>2, HeldFacts
    <3>3. QED
      BY <3>1, <3>2, Names
  <2>4. r = j.rec /\ heap'[r].conn = j.conn /\ heap'[r].active = j.host
    BY <2>1, <2>2, <2>3 DEF TypeOK
  <2>5. conns'[j.conn].host = conns[j.conn].host
    <3>1. conns[j.conn] \in ConnType
      BY <2>1, <2>3 DEF TypeOK, ConnType
    <3>2. cs \in [Conns -> ConnType] /\ cs[j.conn].host = conns[j.conn].host
      <4> DEFINE e == [conns[j.conn] EXCEPT !.pushes = TRUE]
      <4>1. e \in ConnType /\ e.host = conns[j.conn].host
        BY <3>1 DEF ConnType
      <4>2. cs = [conns EXCEPT ![j.conn] = e]
        BY <2>1, <2>3 DEF TypeOK
      <4> HIDE DEF e
      <4>3. QED
        BY <2>1, <2>3, <4>1, <4>2 DEF TypeOK, ConnType
    <3>3. heap[j.rec].conn \in Opt(Conns)
      BY <2>1, <2>3 DEF TypeOK
    <3> HIDE DEF cs
    <3>4. QED
      BY <2>2, <2>3, <3>2, <3>3, ShutAny
  <2>6. QED
    BY <2>2, <2>3, <2>4, <2>5
<1>2. ManagerInv /\ [Next]_vars => [Step]_vars
  BY <1>1
<1>3. QED
  BY <1>2, ManagerInvariant, PTL DEF Spec, PromotionNeedsLogin
-----------------------------------------------------------------------------
\* As long as a removal and a discovery round keep apart, every open connection
\* can be reached through the table or the task that opens it.
THEOREM EveryConnectionOwned == ApartSpec => []NoOrphanConnection
<1>1. ApartInv => NoOrphanConnection
  BY DEF ApartInv
<1>2. QED
  BY <1>1, ApartInvariant, PTL

\* After close has returned nothing is open.
THEOREM CloseIsComplete == ApartSpec => []CloseLeavesNothingOpen
<1>1. ManagerInv /\ ApartInv => CloseLeavesNothingOpen
  <2> SUFFICES ASSUME ManagerInv, ApartInv, CloseDone, NEW c \in Conns, Live(c) PROVE FALSE
    BY DEF CloseLeavesNothingOpen
  <2>1. Held(c) \/ Attached(c)
    BY DEF ApartInv, NoOrphanConnection
  <2>2. CASE Held(c)
    <3>1. PICK t \in Tasks : pc[t] \in Critical
      BY <2>2 DEF Held, Critical
    <3>2. job[t].uid \in Uids /\ closing[job[t].uid] # Nobody
      BY <3>1, CriticalFacts DEF CloseDone, ApartInv, CloseOK
    <3>3. QED
      BY <3>2 DEF CloseDone
  <2>3. CASE Attached(c)
    BY <2>3, Names DEF Attached, CloseDone, ApartInv, CloseOK
  <2>4. QED
    BY <2>1, <2>2, <2>3
<1>2. QED
  BY <1>1, ApartInvariant, PTL

\* Two connections never push for one gateway.
THEOREM OneSourcePerGateway == ApartSpec => []OnePushSource
<1>1. ASSUME ManagerInv, ApartInv PROVE OnePushSource
  <2> SUFFICES ASSUME NEW c \in Conns, NEW d \in Conns,
                      Ready(c), conns[c].pushes, Ready(d), conns[d].pushes,
                      conns[c].uid = conns[d].uid
               PROVE  c = d
    BY DEF OnePushSource
  <2>1. \A e \in Conns : Ready(e) => Live(e) /\ (Held(e) \/ Attached(e))
    BY <1>1 DEF Ready, Live, ApartInv, NoOrphanConnection
  <2>2. ASSUME NEW e \in Conns, Attached(e)
        PROVE  \E u \in Uids : /\ records[u] \in Records /\ records[u] # Nobody
                               /\ heap[records[u]].conn = e /\ conns[e].uid = u
    <3>1. PICK u \in Uids : records[u] # Nobody /\ heap[records[u]].conn = e
      BY <2>2 DEF Attached
    <3>2. records[u] \in Records
      BY <1>1, <3>1, KnownConns
    <3>3. conns[e].uid = u
      BY <1>1, <3>1, <3>2, Names DEF ManagerInv, RecordsOK
    <3>4. QED
      BY <3>1, <3>2, <3>3
  <2>3. ASSUME NEW e \in Conns, Held(e), conns[e].pushes
        PROVE  \E t \in Callers : /\ pc[t] \in Critical /\ job[t].conn = e
                                  /\ conns[e].uid = job[t].uid /\ lock[job[t].uid] = t
    <3>1. PICK t \in Tasks : pc[t] \in Holding /\ job[t].conn = e
      BY <2>3 DEF Held, Holding
    <3>2. /\ pc[t] \in Critical /\ conns[e].uid = job[t].uid /\ t # Discoverer
      BY <1>1, <2>3, <3>1, HeldFacts
    <3>3. lock[job[t].uid] = t /\ t \in Callers
      BY <1>1, <3>2, CriticalFacts DEF Tasks
    <3>4. QED
      BY <3>1, <3>2, <3>3
  <2>4. ASSUME NEW e \in Conns, NEW f \in Conns, Held(e), conns[e].pushes, Attached(f), Ready(f),
               conns[e].uid = conns[f].uid
        PROVE  FALSE
    <3>1. PICK t \in Callers : pc[t] \in Critical /\ conns[e].uid = job[t].uid
      BY <2>3, <2>4
    <3>2. PICK u \in Uids : heap[records[u]].conn = f /\ conns[f].uid = u
      BY <2>2, <2>4
    <3>3. /\ job[t].uid = u /\ records[job[t].uid] = job[t].rec
          /\ heap[job[t].rec].conn # Nobody => ~Live(heap[job[t].rec].conn)
      <4>1. t \in Tasks
        BY Names
      <4>2. QED
        BY <1>1, <2>4, <3>1, <3>2, <4>1, CriticalFacts
    <3>4. QED
      BY <2>1, <2>4, <3>2, <3>3, Names
  <2>5. CASE Attached(c) /\ Attached(d)
    BY <2>2, <2>5
  <2>6. CASE Held(c) /\ Held(d)
    BY <2>3, <2>6
  <2>7. QED
    BY <2>1, <2>4, <2>5, <2>6
<1>2. QED
  BY <1>1, ApartInvariant, PTL
=============================================================================
