--------------------------- MODULE GatewayManager ---------------------------
(***************************************************************************)
(* The owner of one connection lifecycle per gateway (gateway_manager.py). *)
(*                                                                         *)
(* The coordinator's tasks share the manager on one event loop: what runs  *)
(* between two awaits is one action, and any other task may run at an      *)
(* await.  A task is a caller of ensure, send or reconnect, the discovery  *)
(* loop, the cloud refresh, or close with one closer per record.           *)
(*                                                                         *)
(* A record is a mutable Python object that two tasks may hold while the   *)
(* table _records no longer does, hence records (the table) and heap (the  *)
(* objects).  A GatewayConnection is seen from here as its phase: opening  *)
(* while connect runs, ready, down when its transport is lost, closed.     *)
(***************************************************************************)
EXTENDS Integers, Sequences, SequencesExt

CONSTANTS
    Uids,        \* gateway identifiers known to the account
    Hosts,       \* private hosts
    Callers,     \* tasks that call ensure, send or reconnect, once each
    Snapshots,   \* cloud snapshots: partial functions from Uids to Hosts
    Candidates,  \* results of one UDP scan: partial functions from Uids to Hosts
    Records,     \* bound: the record objects that may be made
    Conns,       \* bound: the connection objects that may be made
    Updates,     \* bound: cloud refreshes
    Scans,       \* bound: discovery rounds
    Nobody       \* no record, no connection, no host, no task

ASSUME NobodyAssumption ==
    /\ Nobody \notin Uids \union Hosts \union Callers \union Records \union Conns
    /\ Nobody \notin {"discover", "update", "close"}
    /\ Callers \intersect {"discover", "update", "close"} = {}
ASSUME InputsAssumption ==
    /\ \A s \in Snapshots : DOMAIN s \subseteq Uids /\ \A u \in DOMAIN s : s[u] \in Hosts
    /\ \A s \in Candidates : DOMAIN s \subseteq Uids /\ \A u \in DOMAIN s : s[u] \in Hosts
    /\ Updates \in Nat /\ Scans \in Nat

VARIABLES
    records,  \* _records: uid -> record object or Nobody
    heap,     \* record object -> [cloud, active, conn]
    conns,    \* connection object -> [uid, host, phase, pushes, confirmed, viaCloud]
    lock,     \* _locks: uid -> the task the lock belongs to, or Nobody
    waiters,  \* uid -> the tasks waiting for that lock, in order
    pc,       \* task -> where it awaits
    job,      \* task -> [op, uid, rec, conn, host], its locals
    scan,     \* discover: candidates left to look at
    stale,    \* async_update_cloud_gateways: uids left to remove
    closing,  \* close: uid -> the record close_record works on, or Nobody
    closed,   \* _closed
    left      \* refreshes and scans still allowed by the bounds

vars == <<records, heap, conns, lock, waiters, pc, job, scan, stale, closing, closed, left>>
-----------------------------------------------------------------------------
Discoverer == "discover"
Updater == "update"
Closer == "close"    \* close_record, one per uid: the closer that lock[u] names is u's
Tasks == Callers \union {Discoverer, Updater}
Ops == {"ensure", "reconnect"}

NoJob == [op |-> "none", uid |-> Nobody, rec |-> Nobody, conn |-> Nobody, host |-> Nobody]
NoRecord == [cloud |-> Nobody, active |-> Nobody, conn |-> Nobody]
NoConn == [uid |-> Nobody, host |-> Nobody, phase |-> "none",
           pushes |-> FALSE, confirmed |-> FALSE, viaCloud |-> FALSE]
NoScan == [u \in {} |-> Nobody]

Live(c) == conns[c].phase \in {"opening", "ready"}
Ready(c) == c # Nobody /\ conns[c].phase = "ready"

\* Slip: a connection that is replaced or removed is forgotten, not closed.
ShutNothing(cs, c) == cs

\* GatewayConnection.close: detached at once, its identity is forgotten.
Shut(cs, c) ==
    IF c = Nobody THEN cs
    ELSE [cs EXCEPT ![c].phase = "closed", ![c].confirmed = FALSE]

\* is_connected
IsConnected(u) == records[u] # Nobody /\ Ready(heap[records[u]].conn)
-----------------------------------------------------------------------------
(* update_cloud_gateways: new uids get a record, known ones a new cloud    *)
(* host, and the active host follows it unless discovery moved it away.    *)
UpdateCloudGateways(snapshot) ==
    LET fresh == {u \in DOMAIN snapshot : records[u] = Nobody}
        unused == {r \in Records : heap[r] = NoRecord}
        follow(old, host) ==
            [old EXCEPT !.cloud = host,
                        !.active = IF old.active = old.cloud THEN host ELSE old.active]
    IN
    \E made \in [fresh -> unused] :
        /\ \A u, v \in fresh : u # v => made[u] # made[v]
        /\ records' = [u \in Uids |-> IF u \in fresh THEN made[u] ELSE records[u]]
        /\ heap' = [r \in Records |->
              IF \E u \in fresh : made[u] = r
                THEN LET u == CHOOSE v \in fresh : made[v] = r
                     IN [cloud |-> snapshot[u], active |-> snapshot[u], conn |-> Nobody]
              ELSE IF \E u \in DOMAIN snapshot : records[u] = r
                THEN follow(heap[r], snapshot[CHOOSE u \in DOMAIN snapshot : records[u] = r])
              ELSE heap[r]]

Init ==
    /\ \E s \in Snapshots, made \in [Uids -> Records] :
          /\ \A u, v \in Uids : u # v => made[u] # made[v]
          /\ records = [u \in Uids |-> IF u \in DOMAIN s THEN made[u] ELSE Nobody]
          /\ heap = [r \in Records |->
                IF \E u \in DOMAIN s : made[u] = r
                  THEN LET h == s[CHOOSE u \in DOMAIN s : made[u] = r]
                       IN [cloud |-> h, active |-> h, conn |-> Nobody]
                  ELSE NoRecord]
    /\ conns = [c \in Conns |-> NoConn]
    /\ lock = [u \in Uids |-> Nobody]
    /\ waiters = [u \in Uids |-> <<>>]
    /\ pc = [t \in Tasks |-> "idle"]
    /\ job = [t \in Tasks |-> NoJob]
    /\ scan = NoScan
    /\ stale = {}
    /\ closing = [u \in Uids |-> Nobody]
    /\ closed = FALSE
    /\ left = [updates |-> Updates, scans |-> Scans]
-----------------------------------------------------------------------------
(* asyncio.Lock: a free lock is taken without suspending, so that a task    *)
(* enters its critical section in the step that asks for the lock; a lock  *)
(* that is released passes to the task that has waited longest.            *)
Free(u) == lock[u] = Nobody
Hold(u, t) == lock' = [lock EXCEPT ![u] = t] /\ UNCHANGED waiters
Wait(u, t) == waiters' = [waiters EXCEPT ![u] = Append(@, t)] /\ UNCHANGED lock

Release(u) ==
    /\ lock' = [lock EXCEPT ![u] = IF waiters[u] = <<>> THEN Nobody ELSE Head(waiters[u])]
    /\ waiters' = [waiters EXCEPT ![u] = IF @ = <<>> THEN <<>> ELSE Tail(@)]

\* Slip: the lock, or the place in its queue, stays with the cancelled task.
WithdrawNothing(u, t) == UNCHANGED <<lock, waiters>>

\* A task that is cancelled while it waits leaves the queue.
Withdraw(u, t) ==
    IF lock[u] = t
      THEN Release(u)
      ELSE /\ \E i \in DOMAIN waiters[u] :
                 /\ waiters[u][i] = t
                 /\ waiters' = [waiters EXCEPT ![u] = RemoveAt(@, i)]
           /\ UNCHANGED lock

\* A call raises, or returns with a connection to u; a discovery round or a
\* refresh ends and may start over.
Raise(t) ==
    /\ pc' = [pc EXCEPT ![t] = IF t \in Callers THEN "raised" ELSE "idle"]
    /\ job' = [job EXCEPT ![t] = NoJob]
Return(t, u) ==
    /\ pc' = [pc EXCEPT ![t] = IF t \in Callers THEN "returned" ELSE "idle"]
    /\ job' = [job EXCEPT ![t] = [NoJob EXCEPT !.uid = u]]

Goto(t, where) == pc' = [pc EXCEPT ![t] = where]

\* _connect: a new connection object starts its handshake with host.
StartConnect(t, op, u, rec, host, pushes, viaCloud) ==
    \E c \in Conns :
        /\ conns[c].phase = "none"
        /\ conns' = [conns EXCEPT ![c] =
              [uid |-> u, host |-> host, phase |-> "opening", pushes |-> pushes,
               confirmed |-> FALSE, viaCloud |-> viaCloud]]
        /\ job' = [job EXCEPT ![t] =
              [op |-> op, uid |-> u, rec |-> rec, conn |-> c, host |-> host]]
        /\ Goto(t, "connecting")

\* _reconnect_locked from its connect on: the host is read when it dials.
Redial(t, op, u, rec) ==
    LET r == heap[rec] IN
    StartConnect(t, op, u, rec, r.active, TRUE, r.active = r.cloud)

\* Inside the lock: the checks of ensure and reconnect, _record and
\* _ensure_locked, and _reconnect_locked up to its first await.
CallCritical(t, op, u) ==
    LET rec == records[u]
        old == heap[rec].conn
    IN
    \/ (closed \/ rec = Nobody) /\ Raise(t) /\ Release(u) /\ UNCHANGED conns
    \/ /\ ~closed /\ rec # Nobody
       /\ op = "ensure" /\ Ready(old)
       /\ Return(t, u) /\ Release(u) /\ UNCHANGED conns
    \/ /\ ~closed /\ rec # Nobody
       /\ ~(op = "ensure" /\ Ready(old))
       /\ Hold(u, t)
       /\ IF old # Nobody
            THEN /\ conns' = Shut(conns, old)
                 /\ job' = [job EXCEPT ![t] = [NoJob EXCEPT !.op = op, !.uid = u, !.rec = rec]]
                 /\ Goto(t, "closing_old")
            ELSE Redial(t, op, u, rec)

(* ensure and reconnect; send is ensure followed by the connection's send  *)
CallBegin(t, op, u) ==
    /\ pc[t] = "idle"
    /\ \/ closed /\ Raise(t) /\ UNCHANGED <<lock, waiters, conns>>
       \/ ~closed /\ Free(u) /\ CallCritical(t, op, u)
       \/ /\ ~closed /\ ~Free(u)
          /\ Wait(u, t)
          /\ Goto(t, "waitlock")
          /\ job' = [job EXCEPT ![t] = [NoJob EXCEPT !.op = op, !.uid = u]]
          /\ UNCHANGED conns
    /\ UNCHANGED <<records, heap, scan, stale, closing, closed, left>>

CallAcquire(t) ==
    LET j == job[t] IN
    /\ t \in Callers /\ pc[t] = "waitlock" /\ lock[j.uid] = t
    /\ CallCritical(t, j.op, j.uid)
    /\ UNCHANGED <<records, heap, scan, stale, closing, closed, left>>

\* The old connection's close has returned.
CallRedial(t) ==
    LET j == job[t] IN
    /\ pc[t] = "closing_old"
    /\ IF closed
         THEN Raise(t) /\ Release(j.uid) /\ UNCHANGED conns
         ELSE Redial(t, j.op, j.uid, j.rec) /\ UNCHANGED <<lock, waiters>>
    /\ UNCHANGED <<records, heap, scan, stale, closing, closed, left>>

\* connect has returned to _reconnect_locked.
CallAttach(t) ==
    LET c == job[t].conn IN
    /\ t \in Callers /\ pc[t] = "connected"
    /\ IF closed
         THEN conns' = Shut(conns, c) /\ Raise(t) /\ UNCHANGED heap
         ELSE heap' = [heap EXCEPT ![job[t].rec].conn = c] /\ Return(t, job[t].uid) /\ UNCHANGED conns
    /\ Release(job[t].uid)
    /\ UNCHANGED <<records, scan, stale, closing, closed, left>>
-----------------------------------------------------------------------------
(* GatewayConnection.connect, as its caller sees it *)

\* The handshake succeeds.  Without an identity it does so only where connect
\* was told to accept that (allow_missing_uid).  The gateway may hang up right
\* after its answer to the login: connect then returns all the same.
ConnectReady(t) ==
    LET c == job[t].conn IN
    /\ pc[t] = "connecting"
    /\ \E confirmed \in BOOLEAN, phase \in {"ready", "down"} :
          /\ confirmed \/ conns[c].viaCloud
          /\ conns' = [conns EXCEPT ![c].phase = phase, ![c].confirmed = confirmed]
    /\ Goto(t, "connected")
    /\ UNCHANGED <<records, heap, lock, waiters, job, scan, stale, closing, closed, left>>

\* connect raises (refused, timed out, wrong identity): _connect closes the
\* object; discover goes on to the next candidate after an error of the gateway,
\* unless closed, and ends the round after any other (OSError).
ConnectFails(t) ==
    /\ pc[t] = "connecting"
    /\ conns' = Shut(conns, job[t].conn)
    /\ Release(job[t].uid)
    /\ \/ /\ t = Discoverer /\ ~closed
          /\ Goto(t, "next")
          /\ job' = [job EXCEPT ![t] = NoJob]
       \/ Raise(t)
    /\ UNCHANGED <<records, heap, scan, stale, closing, closed, left>>

\* A task is cancelled at an await: the critical section is left and a
\* connection that was being opened is closed, one that has just opened too.
Cancel(t) ==
    /\ pc[t] \in {"waitlock", "closing_old", "connecting", "connected", "scanning"}
    /\ conns' = IF pc[t] \in {"connecting", "connected"} THEN Shut(conns, job[t].conn) ELSE conns
    /\ IF pc[t] = "scanning" THEN UNCHANGED <<lock, waiters>> ELSE Withdraw(job[t].uid, t)
    /\ Raise(t)
    /\ UNCHANGED <<records, heap, scan, stale, closing, closed, left>>

\* A ready connection loses its transport.
ConnDrop(c) ==
    /\ conns[c].phase = "ready"
    /\ conns' = [conns EXCEPT ![c].phase = "down", ![c].confirmed = FALSE]
    /\ UNCHANGED <<records, heap, lock, waiters, pc, job, scan, stale, closing, closed, left>>
-----------------------------------------------------------------------------
(* discover *)
DiscoverBegin ==
    /\ pc[Discoverer] = "idle" /\ left.scans > 0
    /\ ~closed
    /\ Goto(Discoverer, "scanning")
    /\ left' = [left EXCEPT !.scans = @ - 1]
    /\ UNCHANGED <<records, heap, conns, lock, waiters, job, scan, stale, closing, closed>>

\* The UDP scan returns candidates for uids that were known when it began.
DiscoverScanned ==
    /\ pc[Discoverer] = "scanning"
    /\ IF closed
         THEN Raise(Discoverer) /\ UNCHANGED scan
         ELSE /\ \E s \in Candidates : scan' = s
              /\ Goto(Discoverer, "next")
              /\ UNCHANGED job
    /\ UNCHANGED <<records, heap, conns, lock, waiters, stale, closing, closed, left>>

\* Slips: no look at _closed inside the lock, or pushes from the candidate on.
DiscoverCriticalUnchecked(u, rec, host) ==
    Hold(u, Discoverer) /\ StartConnect(Discoverer, "discover", u, rec, host, FALSE, FALSE)
DiscoverCriticalPushing(u, rec, host) ==
    IF closed
      THEN Raise(Discoverer) /\ Release(u) /\ UNCHANGED conns
      ELSE Hold(u, Discoverer)
           /\ StartConnect(Discoverer, "discover", u, rec, host, TRUE, FALSE)

\* Inside the lock; the record is not looked up again.
DiscoverCritical(u, rec, host) ==
    IF closed
      THEN Raise(Discoverer) /\ Release(u) /\ UNCHANGED conns
      ELSE Hold(u, Discoverer)
           /\ StartConnect(Discoverer, "discover", u, rec, host, FALSE, FALSE)

\* The head of the loop: a candidate without a record or at the active host
\* is skipped, any other one asks for the lock with the record in hand.
DiscoverNext ==
    /\ pc[Discoverer] = "next"
    /\ \/ /\ scan = NoScan
          /\ Return(Discoverer, Nobody)
          /\ UNCHANGED <<scan, lock, waiters, conns>>
       \/ \E u \in DOMAIN scan :
             LET rec == records[u]
                 skip == IF rec = Nobody THEN TRUE ELSE heap[rec].active = scan[u]
             IN
             /\ scan' = [v \in DOMAIN scan \ {u} |-> scan[v]]
             /\ \/ skip /\ UNCHANGED <<pc, job, lock, waiters, conns>>
                \/ ~skip /\ Free(u) /\ DiscoverCritical(u, rec, scan[u])
                \/ /\ ~skip /\ ~Free(u)
                   /\ Wait(u, Discoverer)
                   /\ Goto(Discoverer, "waitlock")
                   /\ job' = [job EXCEPT ![Discoverer] =
                         [NoJob EXCEPT !.op = "discover", !.uid = u, !.rec = rec,
                                       !.host = scan[u]]]
                   /\ UNCHANGED conns
    /\ UNCHANGED <<records, heap, stale, closing, closed, left>>

DiscoverAcquire ==
    LET j == job[Discoverer] IN
    /\ pc[Discoverer] = "waitlock" /\ lock[j.uid] = Discoverer
    /\ DiscoverCritical(j.uid, j.rec, j.host)
    /\ UNCHANGED <<records, heap, scan, stale, closing, closed, left>>

\* Only a candidate that named the gateway may replace its connection.
PromotableAlways(c) == TRUE   \* slip: a login is enough
Promotable(c) == conns[c].confirmed

\* The candidate that logged in replaces the record's connection; the record
\* is the one read before the lock.
DiscoverPromote ==
    LET j == job[Discoverer]
        previous == heap[j.rec].conn
    IN
    /\ pc[Discoverer] = "connected"
    /\ Release(j.uid)
    /\ \/ /\ ~Promotable(j.conn)
          /\ conns' = Shut(conns, j.conn)
          /\ Goto(Discoverer, "next")
          /\ job' = [job EXCEPT ![Discoverer] = NoJob]
          /\ UNCHANGED heap
       \/ /\ Promotable(j.conn) /\ closed
          /\ conns' = Shut(conns, j.conn)
          /\ Raise(Discoverer)
          /\ UNCHANGED heap
       \/ /\ Promotable(j.conn) /\ ~closed
          /\ heap' = [heap EXCEPT ![j.rec].conn = j.conn, ![j.rec].active = j.host]
          /\ conns' = Shut([conns EXCEPT ![j.conn].pushes = TRUE], previous)
          /\ Goto(Discoverer, "next")
          /\ job' = [job EXCEPT ![Discoverer] = NoJob]
    /\ UNCHANGED <<records, scan, stale, closing, closed, left>>
-----------------------------------------------------------------------------
(* async_update_cloud_gateways *)
UpdateBegin(snapshot) ==
    /\ pc[Updater] = "idle" /\ left.updates > 0
    /\ ~closed
    /\ UpdateCloudGateways(snapshot)
    /\ stale' = {u \in Uids : records'[u] # Nobody} \ DOMAIN snapshot
    /\ Goto(Updater, "next")
    /\ left' = [left EXCEPT !.updates = @ - 1]
    /\ UNCHANGED <<conns, lock, waiters, job, scan, closing, closed>>

\* Slip: the connection of a removed gateway is left to itself.
RemoveOnly(u) ==
    /\ records' = [records EXCEPT ![u] = Nobody]
    /\ Release(u)
    /\ UNCHANGED conns

\* Pop the record under its lock, leave the lock, close its connection.
RemoveGateway(u) ==
    /\ records' = [records EXCEPT ![u] = Nobody]
    /\ conns' = IF records[u] = Nobody THEN conns ELSE Shut(conns, heap[records[u]].conn)
    /\ Release(u)

UpdateNext ==
    /\ pc[Updater] = "next"
    /\ \/ stale = {} /\ Return(Updater, Nobody) /\ UNCHANGED <<stale, records, conns, lock, waiters>>
       \/ \E u \in stale :
             /\ stale' = stale \ {u}
             /\ \/ Free(u) /\ RemoveGateway(u) /\ UNCHANGED <<pc, job>>
                \/ /\ ~Free(u) /\ Wait(u, Updater)
                   /\ Goto(Updater, "waitlock")
                   /\ job' = [job EXCEPT ![Updater].uid = u]
                   /\ UNCHANGED <<records, conns>>
    /\ UNCHANGED <<heap, scan, closing, closed, left>>

UpdateAcquire ==
    LET u == job[Updater].uid IN
    /\ pc[Updater] = "waitlock" /\ lock[u] = Updater
    /\ RemoveGateway(u)
    /\ Goto(Updater, "next")
    /\ job' = [job EXCEPT ![Updater] = NoJob]
    /\ UNCHANGED <<heap, scan, stale, closing, closed, left>>

(* close: one close_record per record in the table, each under its lock *)
Close ==
    /\ ~closed
    /\ closed' = TRUE
    /\ closing' = records
    /\ UNCHANGED <<records, heap, conns, lock, waiters, pc, job, scan, stale, left>>

\* Slip: the record goes with its connection.
DetachRecord(u) ==
    /\ heap' = [heap EXCEPT ![closing[u]] = Nobody]
    /\ conns' = Shut(conns, heap[closing[u]].conn)
    /\ closing' = [closing EXCEPT ![u] = Nobody]
    /\ Release(u)

\* Slip: detached, but not closed.
DetachOnly(u) ==
    /\ heap' = [heap EXCEPT ![closing[u]].conn = Nobody]
    /\ closing' = [closing EXCEPT ![u] = Nobody]
    /\ Release(u)
    /\ UNCHANGED conns

\* Detach under the lock, leave the lock, close.
Detach(u) ==
    LET rec == closing[u] IN
    /\ heap' = [heap EXCEPT ![rec].conn = Nobody]
    /\ conns' = Shut(conns, heap[rec].conn)
    /\ closing' = [closing EXCEPT ![u] = Nobody]
    /\ Release(u)

CloseRecord(u) ==
    /\ closing[u] # Nobody
    /\ \/ (Free(u) \/ lock[u] = Closer) /\ Detach(u)
       \/ /\ ~Free(u) /\ lock[u] # Closer
          /\ \A i \in DOMAIN waiters[u] : waiters[u][i] # Closer
          /\ Wait(u, Closer)
          /\ UNCHANGED <<heap, conns, closing>>
    /\ UNCHANGED <<records, pc, job, scan, stale, closed, left>>

CloseDone == closed /\ \A u \in Uids : closing[u] = Nobody
-----------------------------------------------------------------------------
CallStep(t) == CallAcquire(t) \/ CallRedial(t) \/ CallAttach(t)
ConnectStep(t) == ConnectReady(t) \/ ConnectFails(t)
DiscoverStep == DiscoverScanned \/ DiscoverNext \/ DiscoverAcquire \/ DiscoverPromote
UpdateStep == UpdateNext \/ UpdateAcquire

Next ==
    \/ \E t \in Callers, op \in Ops, u \in Uids : CallBegin(t, op, u)
    \/ \E t \in Callers : CallStep(t)
    \/ \E t \in Tasks : ConnectStep(t)
    \/ \E t \in Tasks : Cancel(t)
    \/ \E c \in Conns : ConnDrop(c)
    \/ DiscoverBegin \/ DiscoverStep
    \/ (\E s \in Snapshots : UpdateBegin(s)) \/ UpdateStep
    \/ Close \/ (\E u \in Uids : CloseRecord(u))

Spec == Init /\ [][Next]_vars
-----------------------------------------------------------------------------
(* Fairness.  A connect attempt and a UDP scan end by their own timeouts,  *)
(* and a task that can run is run by the event loop.  Nobody has to call   *)
(* anything, and no transport has to fail.                                 *)
Fairness ==
    /\ \A t \in Callers : WF_vars(CallStep(t) \/ ConnectStep(t))
    /\ WF_vars(DiscoverStep \/ ConnectStep(Discoverer))
    /\ WF_vars(UpdateStep)
    /\ \A u \in Uids : WF_vars(CloseRecord(u))

FairSpec == Spec /\ Fairness

\* A refresh that removes a gateway and a discovery round keep out of each
\* other's way; what happens when they meet is the run gateway_manager_orphan.
Removing == stale # {} \/ pc[Updater] = "waitlock"
Apart == Removing => pc[Discoverer] = "idle"
ApartSpec == Init /\ [][Next /\ Apart']_vars
FairApartSpec == ApartSpec /\ Fairness
-----------------------------------------------------------------------------
Phases == {"none", "opening", "ready", "down", "closed"}
Places == {"idle", "waitlock", "closing_old", "connecting", "connected", "returned", "raised",
           "scanning", "next"}
Opt(S) == S \union {Nobody}

\* Every variable has its type.
TypeOK ==
    /\ records \in [Uids -> Opt(Records)]
    /\ heap \in [Records -> [cloud : Opt(Hosts), active : Opt(Hosts), conn : Opt(Conns)]]
    /\ conns \in [Conns -> [uid : Opt(Uids), host : Opt(Hosts), phase : Phases,
                            pushes : BOOLEAN, confirmed : BOOLEAN, viaCloud : BOOLEAN]]
    /\ lock \in [Uids -> Opt(Tasks \union {Closer})]
    /\ waiters \in [Uids -> Seq(Tasks \union {Closer})]
    /\ pc \in [Tasks -> Places]
    /\ job \in [Tasks -> [op : Ops \union {"none", "discover"}, uid : Opt(Uids),
                          rec : Opt(Records), conn : Opt(Conns), host : Opt(Hosts)]]
    /\ DOMAIN scan \subseteq Uids /\ \A u \in DOMAIN scan : scan[u] \in Hosts
    /\ stale \subseteq Uids
    /\ closing \in [Uids -> Opt(Records)]
    /\ closed \in BOOLEAN
    /\ left \in [updates : 0..Updates, scans : 0..Scans]

Held(c) == \E t \in Tasks : pc[t] \in {"connecting", "connected"} /\ job[t].conn = c
Attached(c) == \E u \in Uids : records[u] # Nobody /\ heap[records[u]].conn = c

\* A connection that is open belongs to a record in the table, or to the task
\* that is opening it: close() and a cloud refresh, which work through the
\* table, can reach every open connection ("detach and close every managed
\* connection", gateway_manager.py:187).
NoOrphanConnection == \A c \in Conns : Live(c) => Held(c) \/ Attached(c)

\* A connection is closed, dialled and attached under its gateway's lock, and a
\* lock is never left behind: its holder is a task inside the critical section or
\* just woken to enter it, or the closer of a record that is not detached yet
\* ("Own one serialized connection lifecycle per known gateway UID",
\* gateway_manager.py:34); a lost lock would end that lifecycle for good.
Critical == {"closing_old", "connecting", "connected"}
LocksHonoured ==
    /\ \A t \in Tasks : pc[t] \in Critical => lock[job[t].uid] = t
    /\ \A u \in Uids : lock[u] # Nobody =>
          \/ lock[u] = Closer /\ closing[u] # Nobody
          \/ \E t \in Tasks : /\ lock[u] = t /\ job[t].uid = u
                            /\ pc[t] \in Critical \union {"waitlock"}

\* Two connections never push for one gateway at the same time, also while a
\* reconnect or a discovered address replaces the old one.
OnePushSource ==
    \A c, d \in Conns :
        /\ Ready(c) /\ conns[c].pushes
        /\ Ready(d) /\ conns[d].pushes
        /\ conns[c].uid = conns[d].uid
        => c = d

\* After close() has returned nothing is open, whatever was in flight when it
\* was called.
CloseLeavesNothingOpen == CloseDone => \A c \in Conns : ~Live(c)

\* No handshake starts once close() has been called.
NoDialAfterClose ==
    [][closed => \A c \in Conns : conns[c].phase = "none" => conns'[c].phase = "none"]_vars

\* The active host leaves the cloud's address only for one where a login has
\* just confirmed the gateway's identity, and that very connection becomes the
\* record's ("Promote a UDP candidate only after TCP login confirms its UID",
\* gateway_manager.py:135).
PromotionNeedsLogin ==
    [][\A r \in Records :
          /\ heap[r] # NoRecord
          /\ heap'[r].cloud = heap[r].cloud
          /\ heap'[r].active # heap[r].active
          => LET c == heap'[r].conn IN
             /\ c # Nobody
             /\ conns[c].confirmed
             /\ \A u \in Uids : records[u] = r => conns[c].uid = u
             /\ conns'[c].host = heap'[r].active]_vars

\* All tasks come to rest again and again, whoever holds the locks: every call
\* returns or raises, every discovery round and every refresh ends, and close()
\* returns.
Settled ==
    /\ \A t \in Callers : pc[t] \in {"idle", "returned", "raised"}
    /\ pc[Discoverer] = "idle" /\ pc[Updater] = "idle"
    /\ closed => CloseDone
EverybodyFinishes == []<>Settled
=============================================================================
