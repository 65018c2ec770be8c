-------------------------- MODULE GatewayConnection --------------------------
(***************************************************************************)
(* One GatewayConnection object (lib/gateway_connection.py): the login     *)
(* handshake of a transport generation, the requests that share the socket *)
(* and its single reader, the heartbeat, and close.                        *)
(*                                                                         *)
(* Tasks: one connector (the manager makes one connection object per dial, *)
(* so connect is not called twice at once), one task per client request,   *)
(* the reader and the heartbeat of the current generation, and whoever     *)
(* closes the object.                                                      *)
(* What runs between two awaits is one action.                             *)
(*                                                                         *)
(* The reader runs exactly while the transport is open: whatever closes    *)
(* the transport cancels it.  The two asyncio locks for requests are the   *)
(* sets of tasks inside them: a request without a correlation key holds    *)
(* _request_lock from registration on, and _write_lock is held in drain.   *)
(***************************************************************************)
EXTENDS Integers, Sequences, FiniteSets

CONSTANTS
    Clients,    \* requests made with send, one each
    Reliable,   \* those whose payload brings its own serial or uniSerial
    Keys,       \* correlation keys: (field, value) pairs
    KeysOf,     \* request -> the sequence of its keys, in lookup order
    BareFrames, \* whether the gateway may leave the keys out of a frame
    MaxGen,     \* bound on generations
    Nobody      \* no request

Handshake == {"hello", "login"}
Reqs == Clients \union Handshake \union {"beat"}

ASSUME KeysAssumption ==
    /\ Reliable \subseteq Clients
    /\ Clients \intersect {"hello", "login", "beat", "none", "pending", "failed", "cancelled",
                           "stray"} = {}
    /\ Nobody \notin Reqs
    /\ \A r \in Reqs : KeysOf[r] \in Seq(Keys) /\ KeysOf[r] # <<>>
ASSUME BoundsAssumption == MaxGen \in Nat /\ BareFrames \in BOOLEAN

VARIABLES
    gen,       \* generation
    open,      \* reader and writer are set and _closed is false
    ready,     \* _ready
    confirmed, \* identity_confirmed
    handles,   \* _reader_task or _heartbeat_task is set
    phase,     \* where connect awaits; it holds _lifecycle_lock unless idle or cleanup
    start,     \* connect: the generation it started from
    beat,      \* heartbeat task: off, sleep or asking
    beatGen,   \* heartbeat task: its generation
    pc,        \* request -> where it awaits, or how it ended
    reqGen,    \* request -> the generation it was registered in
    fut,       \* request -> its future: none, pending, failed, cancelled, or what
               \* answered it: a request, or "stray" for a frame meant for another
    pending,   \* _pending: key -> request or Nobody
    single,    \* _single_pending
    asked      \* requests whose packet went out in this generation

connVars == <<gen, open, ready, confirmed, handles>>
taskVars == <<phase, start, beat, beatGen>>
reqVars == <<pc, reqGen, fut, pending, single, asked>>
vars == <<connVars, taskVars, reqVars>>
-----------------------------------------------------------------------------
Connected == open /\ ready
InFlight == {"guard", "write", "drain", "wait"}
Registered == {"write", "drain", "wait"}
LifecycleFree == phase \in {"idle", "cleanup"}

HoldsRequestLock(r) == r \in Clients \ Reliable /\ pc[r] \in Registered
RequestLockFree == \A r \in Reqs : ~HoldsRequestLock(r)
WriteLockFree == \A r \in Reqs : pc[r] # "drain"

Waiting(r) == single = r \/ \E k \in Keys : pending[k] = r
NoPending == [k \in Keys |-> Nobody]

\* _fail_pending: the registered futures fail and nothing stays registered.
FailPending ==
    /\ fut' = [r \in Reqs |-> IF fut[r] = "pending" /\ Waiting(r) THEN "failed" ELSE fut[r]]
    /\ pending' = NoPending
    /\ single' = Nobody

\* Slip: the future is cancelled but its routes stay.
UnregisterFuture(r) ==
    /\ fut' = IF fut[r] = "pending" THEN [fut EXCEPT ![r] = "cancelled"] ELSE fut
    /\ UNCHANGED <<pending, single>>

\* The end of _request_once: its own registrations go and so does its future.
Unregister(r) ==
    /\ fut' = IF fut[r] = "pending" THEN [fut EXCEPT ![r] = "cancelled"] ELSE fut
    /\ pending' = [k \in Keys |-> IF pending[k] = r THEN Nobody ELSE pending[k]]
    /\ single' = IF single = r THEN Nobody ELSE single

\* A task that is cancelled while its request is in flight.
Stopped(S) ==
    [r \in Reqs |-> IF r \in S /\ pc[r] \in InFlight THEN "raised" ELSE pc[r]]

\* _disconnect_generation: the transport is closed, the heartbeat cancelled,
\* but generation and task handles stay.
Disconnect ==
    /\ open' = FALSE /\ ready' = FALSE /\ confirmed' = FALSE
    /\ beat' = "off"
    /\ FailPending
    /\ UNCHANGED <<gen, handles>>

\* Slip: closing again starts another generation.
CloseAgain ==
    /\ open' = FALSE /\ ready' = FALSE /\ confirmed' = FALSE
    /\ gen' = gen + 1
    /\ handles' = FALSE
    /\ beat' = "off"
    /\ FailPending

\* The locked part of close.
CloseGeneration ==
    IF ~open /\ ~handles
      THEN UNCHANGED <<connVars, beat, fut, pending, single>>
      ELSE /\ open' = FALSE /\ ready' = FALSE /\ confirmed' = FALSE
           /\ gen' = gen + 1
           /\ handles' = FALSE
           /\ beat' = "off"
           /\ FailPending

Init ==
    /\ gen = 0
    /\ open = FALSE /\ ready = FALSE /\ confirmed = FALSE /\ handles = FALSE
    /\ phase = "idle" /\ start = 0
    /\ beat = "off" /\ beatGen = 0
    /\ pc = [r \in Reqs |-> "idle"]
    /\ reqGen = [r \in Reqs |-> 0]
    /\ fut = [r \in Reqs |-> "none"]
    /\ pending = NoPending
    /\ single = Nobody
    /\ asked = {}
-----------------------------------------------------------------------------
(* request, _request_with_guard, _request_once, _write *)

\* send checks the login before it asks for anything.
Send(r) ==
    /\ r \in Clients /\ pc[r] = "idle"
    /\ Connected
    /\ pc' = [pc EXCEPT ![r] = "guard"]
    /\ UNCHANGED <<connVars, taskVars, reqGen, fut, pending, single, asked>>

\* The first key of r that a live request has registered, if there is one.
Collides(r, i) ==
    /\ pending[KeysOf[r][i]] # Nobody
    /\ fut[pending[KeysOf[r][i]]] = "pending"
Collisions(r) == {i \in DOMAIN KeysOf[r] : Collides(r, i)}
Earlier(r, i) == {KeysOf[r][j] : j \in 1..(i - 1)}

\* Registration comes before the write.  A colliding key raises, and the keys
\* before it stay registered: the loop is outside the try.
Register(r) ==
    /\ pc[r] = "guard"
    /\ r \in Clients \ Reliable => RequestLockFree
    /\ IF ~open
         THEN /\ pc' = [pc EXCEPT ![r] = "raised"]
              /\ UNCHANGED <<reqGen, fut, pending, single>>
         ELSE LET hits == Collisions(r)
                  taken == IF hits = {} THEN {KeysOf[r][j] : j \in DOMAIN KeysOf[r]}
                           ELSE Earlier(r, CHOOSE i \in hits : \A j \in hits : i <= j)
              IN
              /\ fut' = [fut EXCEPT ![r] = "pending"]
              /\ reqGen' = [reqGen EXCEPT ![r] = gen]
              /\ pending' = [k \in Keys |-> IF k \in taken THEN r ELSE pending[k]]
              /\ single' = IF hits = {} /\ r \in Clients \ Reliable THEN r ELSE single
              /\ pc' = [pc EXCEPT ![r] = IF hits = {} THEN "write" ELSE "raised"]
    /\ UNCHANGED <<connVars, taskVars, asked>>

\* The transport a request was registered on is still the one there is.
MayWriteAlways(r) == TRUE   \* slip: not looked at again after the write lock
MayWrite(r) == open /\ reqGen[r] = gen

\* _write: the packet goes out unless the generation has changed meanwhile.
Write(r) ==
    /\ pc[r] = "write" /\ WriteLockFree
    /\ IF MayWrite(r)
         THEN /\ asked' = asked \union {r}
              /\ pc' = [pc EXCEPT ![r] = "drain"]
              /\ UNCHANGED <<fut, pending, single>>
         ELSE /\ pc' = [pc EXCEPT ![r] = "raised"]
              /\ Unregister(r)
              /\ UNCHANGED asked
    /\ UNCHANGED <<connVars, taskVars, reqGen>>

Drained(r) ==
    /\ pc[r] = "drain"
    /\ pc' = [pc EXCEPT ![r] = "wait"]
    /\ UNCHANGED <<connVars, taskVars, reqGen, fut, pending, single, asked>>

\* The write fails: the generation it belongs to is disconnected, and a
\* heartbeat whose own write fails closes the connection as well.
WriteFails(r) ==
    /\ pc[r] = "drain"
    /\ IF open /\ reqGen[r] = gen
         THEN /\ pc' = Stopped({r, "beat"})
              /\ IF r = "beat" THEN CloseGeneration ELSE Disconnect
         ELSE /\ pc' = Stopped({r})
              /\ Unregister(r)
              /\ UNCHANGED <<connVars, beat>>
    /\ UNCHANGED <<phase, start, beatGen, reqGen, asked>>

\* The future is done: its answer is returned, its error raised.
Answered(r) ==
    /\ pc[r] = "wait" /\ fut[r] # "pending"
    /\ pc' = [pc EXCEPT ![r] = IF fut[r] = "failed" THEN "raised" ELSE "answered"]
    /\ Unregister(r)
    /\ UNCHANGED <<connVars, taskVars, reqGen, asked>>

\* Slip: the deadline starts with the write.
TimeoutOfWrite(r) ==
    /\ r # "beat" /\ pc[r] \in Registered
    /\ pc' = [pc EXCEPT ![r] = "raised"]
    /\ Unregister(r)
    /\ UNCHANGED <<connVars, taskVars, reqGen, asked>>

\* The deadline of a request covers its waits for both locks, the write and
\* the answer; a cancelled caller ends the same way.
Timeout(r) ==
    /\ r # "beat" /\ pc[r] \in InFlight
    /\ pc' = [pc EXCEPT ![r] = "raised"]
    /\ Unregister(r)
    /\ UNCHANGED <<connVars, taskVars, reqGen, asked>>
-----------------------------------------------------------------------------
(* _reader_loop and _route *)

\* Slip: a frame goes to whoever is waiting.
TargetAnyone(r) ==
    IF pending = NoPending THEN Nobody
    ELSE pending[CHOOSE k \in Keys : pending[k] # Nobody]

\* The request a frame with the keys of r is for: the first key that is known.
Target(r) ==
    LET known == {i \in DOMAIN KeysOf[r] : pending[KeysOf[r][i]] # Nobody}
    IN IF known = {} THEN Nobody
       ELSE pending[KeysOf[r][CHOOSE i \in known : \A j \in known : i <= j]]

Resolve(target, answer) ==
    /\ open
    /\ target # Nobody
    /\ fut[target] = "pending"
    /\ fut' = [fut EXCEPT ![target] = answer]
    /\ UNCHANGED <<connVars, taskVars, pc, reqGen, pending, single, asked>>

\* An answer, which may come late, in any order or twice, names its request,
ReadAnswer(r) == r \in asked /\ Resolve(Target(r), r)
\* or leaves the keys out and goes to the one request without reliable keys.
ReadBareAnswer(r) ==
    BareFrames /\ r \in asked /\ Resolve(single, IF r = single THEN r ELSE "stray")
\* So does a device update with a command number of its own.
ReadBareUpdate == BareFrames /\ Resolve(single, "stray")

\* End of stream, a socket error or a frame that does not decode.
ReaderStops ==
    /\ open
    /\ Disconnect
    /\ pc' = Stopped({"beat"})
    /\ UNCHANGED <<phase, start, beatGen, reqGen, asked>>
-----------------------------------------------------------------------------
(* connect *)
ConnectBegin ==
    /\ phase = "idle" /\ ~Connected
    /\ gen + 2 <= MaxGen
    /\ phase' = "opening"
    /\ start' = gen
    /\ UNCHANGED <<connVars, beat, beatGen, reqVars>>

\* The socket opens: a fresh generation with its reader, and hello is sent.
ConnectOpened ==
    /\ phase = "opening"
    /\ phase' = "hello"
    /\ gen' = gen + 1
    /\ open' = TRUE /\ ready' = FALSE /\ confirmed' = FALSE
    /\ handles' = TRUE
    /\ asked' = {}
    /\ pc' = [pc EXCEPT !["hello"] = "guard", !["login"] = "idle"]
    /\ UNCHANGED <<start, beat, beatGen, reqGen, fut, pending, single>>

\* Hello is answered: the answer is taken and login sent, or it is refused
\* (no credentials, another gateway's identity).
ConnectHello ==
    /\ phase = "hello"
    /\ \/ /\ pc["hello"] = "answered"
          /\ phase' = "login"
          /\ pc' = [pc EXCEPT !["login"] = "guard"]
       \/ /\ pc["hello"] \in {"answered", "raised"}
          /\ phase' = "cleanup"
          /\ UNCHANGED pc
    /\ UNCHANGED <<connVars, start, beat, beatGen, reqGen, fut, pending, single, asked>>

\* Login is answered: ready is set without another look at the transport, and
\* the heartbeat starts, which ends at once if the connection is not up.
ConnectLogin ==
    /\ phase = "login"
    /\ \/ /\ pc["login"] = "answered"
          /\ phase' = "idle"
          /\ ready' = TRUE
          /\ confirmed' \in BOOLEAN
          /\ beat' = IF open THEN "sleep" ELSE "off"
          /\ beatGen' = gen
       \/ /\ pc["login"] \in {"answered", "raised"}
          /\ phase' = "cleanup"
          /\ UNCHANGED <<ready, confirmed, beat, beatGen>>
    /\ UNCHANGED <<gen, open, handles, start, reqVars>>

\* The socket does not open, or connect's own deadline passes or its caller is
\* cancelled, whatever it waits for.
ConnectGivesUp ==
    /\ phase \in {"opening", "hello", "login"}
    /\ phase' = "cleanup"
    /\ IF phase \in Handshake /\ pc[phase] \in InFlight
         THEN pc' = Stopped({phase}) /\ Unregister(phase)
         ELSE UNCHANGED <<pc, fut, pending, single>>
    /\ UNCHANGED <<connVars, start, beat, beatGen, reqGen, asked>>

\* What this connect attempt opened, if it did not become ready.
ShouldCloseEarly == gen = start /\ ~ready   \* slip: off by one
ShouldClose == gen = start + 1 /\ ~ready

\* _close_if_generation_changed
ConnectCleanup ==
    /\ phase = "cleanup"
    /\ phase' = "idle"
    /\ IF ShouldClose
         THEN CloseGeneration /\ pc' = Stopped({"beat"})
         ELSE UNCHANGED <<connVars, beat, pc, fut, pending, single>>
    /\ UNCHANGED <<start, beatGen, reqGen, asked>>
-----------------------------------------------------------------------------
(* _heartbeat_loop *)
BeatAsk ==
    /\ beat = "sleep"
    /\ beat' = IF beatGen = gen /\ Connected THEN "asking" ELSE "off"
    /\ pc' = IF beatGen = gen /\ Connected THEN [pc EXCEPT !["beat"] = "guard"] ELSE pc
    /\ UNCHANGED <<connVars, phase, start, beatGen, reqGen, fut, pending, single, asked>>

BeatAnswered ==
    /\ beat = "asking" /\ pc["beat"] = "answered"
    /\ beat' = "sleep"
    /\ UNCHANGED <<connVars, phase, start, beatGen, reqVars>>

\* Slip: a heartbeat without an answer just ends.
BeatIgnored ==
    /\ beat = "asking" /\ pc["beat"] \in InFlight
    /\ pc' = Stopped({"beat"})
    /\ beat' = "off"
    /\ Unregister("beat")
    /\ UNCHANGED <<connVars, phase, start, beatGen, reqGen, asked>>

\* No answer in time: the heartbeat closes the connection, if it is still its
\* own generation.
BeatTimeout ==
    /\ beat = "asking" /\ pc["beat"] \in InFlight
    /\ pc' = Stopped({"beat"})
    /\ LifecycleFree
    /\ IF beatGen = gen
         THEN CloseGeneration
         ELSE beat' = "off" /\ Unregister("beat") /\ UNCHANGED connVars
    /\ UNCHANGED <<phase, start, beatGen, reqGen, asked>>
-----------------------------------------------------------------------------
(* close *)
\* A close that has to wait for _lifecycle_lock begins when it gets it.
Close ==
    /\ LifecycleFree
    /\ CloseGeneration
    /\ pc' = Stopped({"beat"})
    /\ UNCHANGED <<phase, start, beatGen, reqGen, asked>>
-----------------------------------------------------------------------------
RequestStep(r) == Register(r) \/ Write(r) \/ Drained(r) \/ WriteFails(r) \/ Answered(r)
ReaderStep ==
    \/ \E r \in Reqs : ReadAnswer(r) \/ ReadBareAnswer(r)
    \/ ReadBareUpdate
    \/ ReaderStops
ConnectStep ==
    ConnectOpened \/ ConnectHello \/ ConnectLogin \/ ConnectGivesUp \/ ConnectCleanup
BeatStep == BeatAsk \/ BeatAnswered \/ BeatTimeout

Next ==
    \/ \E r \in Reqs : Send(r) \/ RequestStep(r) \/ Timeout(r)
    \/ ReaderStep
    \/ ConnectBegin \/ ConnectStep
    \/ BeatStep
    \/ Close

Spec == Init /\ [][Next]_vars
-----------------------------------------------------------------------------
(* Fairness.  Every wait has a deadline (wait_for around request and       *)
(* connect, the heartbeat's sleep and its own timeout) and a task that has *)
(* been woken runs.  Nothing else has to happen: a gateway may stay        *)
(* silent, a client may never send and nobody has to close.                *)
Fairness ==
    /\ \A r \in Clients : WF_vars(Timeout(r))
    /\ WF_vars(ConnectStep)
    /\ WF_vars(BeatStep)

FairSpec == Spec /\ Fairness
-----------------------------------------------------------------------------
Places == {"idle", "answered", "raised"} \union InFlight

\* Every variable has its type.
TypeOK ==
    /\ gen \in 0..MaxGen /\ start \in 0..MaxGen /\ beatGen \in 0..MaxGen
    /\ open \in BOOLEAN /\ ready \in BOOLEAN /\ confirmed \in BOOLEAN
    /\ handles \in BOOLEAN
    /\ phase \in {"idle", "opening", "cleanup"} \union Handshake
    /\ beat \in {"off", "sleep", "asking"}
    /\ pc \in [Reqs -> Places]
    /\ reqGen \in [Reqs -> 0..MaxGen]
    /\ fut \in [Reqs -> {"none", "pending", "failed", "cancelled", "stray"} \union Reqs]
    /\ pending \in [Keys -> Reqs \union {Nobody}]
    /\ single \in Reqs \union {Nobody}
    /\ asked \subseteq Reqs

\* A connection that is up has had its own login answered in the generation
\* that is current: an answer to an earlier handshake, or to another request,
\* never makes it ready.
ConnectedMeansLoggedIn ==
    Connected => fut["login"] = "login" /\ reqGen["login"] = gen

\* What is still registered belongs to a request that is in flight in the
\* current generation: no timeout, failure or close leaves a route behind that
\* would swallow a later answer or refuse a later request.  And a request that
\* waits for an answer can still get one.
RoutesAreLive ==
    /\ \A k \in Keys : pending[k] # Nobody =>
          pc[pending[k]] \in Registered /\ reqGen[pending[k]] = gen /\ open
    /\ single # Nobody => pc[single] \in Registered /\ reqGen[single] = gen /\ open
    /\ \A r \in Reqs : pc[r] \in Registered /\ fut[r] = "pending" => Waiting(r)

\* An answer that carries keys goes to a request it shares a key with, however
\* late it comes, in whatever order and how often.
KeyedAnswersMatch ==
    \A r \in Reqs : fut[r] \in Reqs =>
        \E i \in DOMAIN KeysOf[r], j \in DOMAIN KeysOf[fut[r]] :
            KeysOf[r][i] = KeysOf[fut[r]][j]

\* Whatever answers a request is an answer to that request ("the reader
\* completes the future by serial or uniSerial [...] requests without a reliable
\* correlation field are single-flight, so that no response is mismatched",
\* ARCHITECTURE.md:55).
AnswersOwnRequest == KeyedAnswersMatch /\ \A r \in Reqs : fut[r] # "stray"

\* connect never returns or raises with a transport that is open and not
\* logged in: nobody would close it ("Clean up only the unready generation
\* created by this connect attempt", lib/gateway_connection.py:164).
NoHalfOpenConnection == phase = "idle" /\ open => ready

\* A client's packet goes out only on a connection that is logged in.
WritesNeedLogin ==
    [][\A r \in Clients : r \notin asked /\ r \in asked' => Connected]_vars

\* Every request comes to an end: its deadline covers the waits for the locks,
\* the write and the answer ("Bound lock wait, write, and response wait by one
\* deadline", lib/gateway_connection.py:292).
RequestsEnd == []<>(\A r \in Clients : pc[r] \notin InFlight)

\* connect ends, whatever the gateway does, so that a close that waits for it
\* gets its turn; and a connection that is up is asked for a heartbeat, which is
\* answered or closes it: a gateway that falls silent is noticed.
LifecycleEnds ==
    /\ phase # "idle" ~> phase = "idle"
    /\ Connected ~> beat = "asking" \/ ~Connected
    /\ beat = "asking" ~> beat # "asking"
=============================================================================
