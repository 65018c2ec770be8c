-------------------------- MODULE ConnectionProofs --------------------------
(***************************************************************************)
(* What holds of GatewayConnection for any number of requests and          *)
(* generations.                                                            *)
(***************************************************************************)
EXTENDS GatewayConnection, WellFoundedInduction, TLAPS

KeySet(r) == {KeysOf[r][i] : i \in DOMAIN KeysOf[r]}

\* Nobody draws a key of the login, and only the first key of a request, its
\* serial, may be drawn twice.
LoginKeysAreOwn == \A r \in Reqs \ {"login"} : KeySet(r) \intersect KeySet("login") = {}
LaterKeysAreOwn ==
    \A r \in Reqs : \A i \in DOMAIN KeysOf[r] : i > 1 =>
        \A q \in Reqs \ {r} : KeysOf[r][i] \notin KeySet(q)

\* The generation a connect attempt has made is its own until it ends.
PhaseOK ==
    /\ phase = "opening" => ~open /\ gen = start /\ gen + 2 <= MaxGen
    /\ phase \in {"hello", "login"} => gen = start + 1 /\ ~ready
    /\ phase = "cleanup" /\ open => gen = start + 1 /\ ~ready
    /\ phase = "idle" /\ open => ready
    /\ open => handles
    /\ handles => gen < MaxGen

\* The heartbeat runs only while the connection is up, for its generation.
BeatOK ==
    /\ beat # "off" => Connected /\ beatGen = gen
    /\ pc["beat"] \in InFlight => beat = "asking"

\* Each route leads to a request that waits in this generation.
RoutesOK ==
    /\ \A k \in Keys : pending[k] # Nobody =>
          /\ pc[pending[k]] \in Registered /\ reqGen[pending[k]] = gen /\ open
          /\ k \in KeySet(pending[k])
    /\ single # Nobody =>
          /\ single \in Clients \ Reliable
          /\ pc[single] \in Registered /\ reqGen[single] = gen /\ open

\* The future of a request that is registered, and what resolved it.
FuturesOK ==
    \A r \in Reqs :
        /\ pc[r] \in Registered => fut[r] \notin {"none", "cancelled"}
        /\ pc[r] \in Registered /\ fut[r] = "pending" => Waiting(r)
        /\ fut[r] \in Reqs => KeySet(r) \intersect KeySet(fut[r]) # {}
        /\ fut[r] = "stray" => r \in Clients

\* The login that makes a connection ready is its own.
LoginOK ==
    /\ phase = "hello" => pc["login"] = "idle"
    /\ phase = "login" /\ pc["login"] \in Registered \union {"answered"} => reqGen["login"] = gen
    /\ phase = "login" /\ pc["login"] = "answered" => fut["login"] = "login"
    /\ Connected => pc["login"] = "answered" /\ fut["login"] = "login" /\ reqGen["login"] = gen

Core == TypeOK /\ PhaseOK /\ BeatOK
ReqInv == RoutesOK /\ FuturesOK
ConnInv == Core /\ ReqInv /\ LoginOK
-----------------------------------------------------------------------------
\* A request has a first key, and all of its keys are keys.
LEMMA KeysAreThere ==
    \A r \in Reqs : KeySet(r) \subseteq Keys /\ KeysOf[r][1] \in KeySet(r) /\ KeySet(r) # {}
<1> SUFFICES ASSUME NEW r \in Reqs
             PROVE  KeySet(r) \subseteq Keys /\ KeysOf[r][1] \in KeySet(r) /\ KeySet(r) # {}
  OBVIOUS
<1>1. KeysOf[r] \in Seq(Keys) /\ KeysOf[r] # <<>>
  BY KeysAssumption
<1>2. 1 \in DOMAIN KeysOf[r] /\ \A i \in DOMAIN KeysOf[r] : KeysOf[r][i] \in Keys
  BY <1>1
<1>3. QED
  BY <1>2 DEF KeySet

\* How a future that was not resolved may have ended is no request.
LEMMA OutcomesAreNoRequests ==
    /\ {"none", "pending", "failed", "cancelled", "stray"} \intersect Reqs = {}
    /\ Nobody \notin Reqs /\ Clients \subseteq Reqs /\ Handshake \subseteq Reqs /\ "beat" \in Reqs
    /\ Handshake \intersect Clients = {} /\ "beat" \notin Clients
BY KeysAssumption DEF Reqs, Handshake

\* Requests leave what they are registered in, and no other one enters.
Leave == /\ pc' \in [Reqs -> Places] /\ reqGen' = reqGen
         /\ \A q \in Reqs : pc'[q] \in Registered => pc[q] \in Registered

RouteTypes == /\ fut' \in [Reqs -> {"none", "pending", "failed", "cancelled", "stray"} \union Reqs]
              /\ pending' \in [Keys -> Reqs \union {Nobody}]
              /\ single' \in Reqs \union {Nobody}

\* A future that is done stays as it is.
Settled == \A q \in Reqs : fut[q] # "pending" => fut'[q] = fut[q]

\* Requests that are cancelled in flight have raised; the others stay where they are.
LEMMA StoppedLeaves ==
    ASSUME TypeOK, NEW S \in SUBSET Reqs, pc' = Stopped(S), reqGen' = reqGen
    PROVE  /\ Leave
           /\ \A q \in Reqs : /\ q \in S => pc'[q] \notin InFlight
                              /\ q \notin S => pc'[q] = pc[q]
                              /\ pc[q] \notin InFlight => pc'[q] = pc[q]
                              /\ pc'[q] # pc[q] => pc'[q] = "raised"
<1>1. \A q \in Reqs : pc'[q] = IF q \in S /\ pc[q] \in InFlight THEN "raised" ELSE pc[q]
  BY DEF Stopped
<1>2. pc' \in [Reqs -> Places]
  BY <1>1 DEF Stopped, TypeOK, Places
<1>3. QED
  BY <1>1, <1>2 DEF Leave, Registered, InFlight

\* When the pending requests fail, no route is left.
LEMMA FailKeeps ==
    ASSUME TypeOK, ReqInv, FailPending, Leave
    PROVE  ReqInv' /\ RouteTypes /\ Settled
<1>1. /\ pending' = [k \in Keys |-> Nobody] /\ single' = Nobody
      /\ fut' = [r \in Reqs |-> IF fut[r] = "pending" /\ Waiting(r) THEN "failed" ELSE fut[r]]
  BY DEF FailPending, NoPending
<1>2. RouteTypes
  BY <1>1 DEF RouteTypes, TypeOK
<1>3. RoutesOK'
  BY <1>1 DEF RoutesOK
<1>4. FuturesOK'
  <2> SUFFICES ASSUME NEW r \in Reqs
               PROVE  /\ pc'[r] \in Registered => fut'[r] \notin {"none", "cancelled"}
                      /\ pc'[r] \in Registered => fut'[r] # "pending"
                      /\ fut'[r] \in Reqs => KeySet(r) \intersect KeySet(fut'[r]) # {}
                      /\ fut'[r] = "stray" => r \in Clients
    BY DEF FuturesOK, KeySet
  <2>1. fut'[r] = IF fut[r] = "pending" /\ Waiting(r) THEN "failed" ELSE fut[r]
    BY <1>1
  <2>2. QED
    BY <2>1, OutcomesAreNoRequests DEF ReqInv, FuturesOK, Leave
<1>5. QED
  BY <1>1, <1>2, <1>3, <1>4 DEF ReqInv, Settled

\* While the transport is closed there is none.
LEMMA NoRoutes ==
    ASSUME TypeOK, ReqInv, ~open, UNCHANGED <<fut, pending, single>>, Leave
    PROVE  ReqInv' /\ RouteTypes /\ Settled
<1>1. (\A k \in Keys : pending[k] = Nobody) /\ single = Nobody
  BY DEF ReqInv, RoutesOK
<1>2. \A r \in Reqs : ~Waiting(r) /\ Waiting(r)' = Waiting(r)
  BY <1>1, OutcomesAreNoRequests DEF Waiting
<1>3. RoutesOK'
  BY <1>1 DEF RoutesOK
<1>4. FuturesOK'
  BY <1>2 DEF ReqInv, FuturesOK, Leave, KeySet
<1>5. RouteTypes /\ Settled
  BY DEF RouteTypes, Settled, TypeOK
<1>6. QED
  BY <1>3, <1>4, <1>5 DEF ReqInv

\* Whatever a close does to the routes keeps the invariant of the requests.
LEMMA CloseKeeps ==
    ASSUME TypeOK, ReqInv, CloseGeneration, Leave
    PROVE  ReqInv' /\ RouteTypes /\ Settled
<1>1. CASE ~open /\ ~handles
  BY <1>1, NoRoutes DEF CloseGeneration
<1>2. CASE ~(~open /\ ~handles)
  BY <1>2, FailKeeps DEF CloseGeneration
<1>3. QED
  BY <1>1, <1>2

\* One request is taken out of the routes, and out of what it waits for.
LEMMA UnregisterKeeps ==
    ASSUME TypeOK, ReqInv, NEW r \in Reqs, Unregister(r), Leave, pc'[r] \notin Registered,
           \A q \in Reqs \ {r} : pc'[q] = pc[q], UNCHANGED <<gen, open>>
    PROVE  ReqInv' /\ RouteTypes /\ Settled
<1>1. /\ fut' = [fut EXCEPT ![r] = IF fut[r] = "pending" THEN "cancelled" ELSE fut[r]]
      /\ pending' = [k \in Keys |-> IF pending[k] = r THEN Nobody ELSE pending[k]]
      /\ single' = IF single = r THEN Nobody ELSE single
  BY DEF Unregister, TypeOK
<1>2. \A q \in Reqs \ {r} : fut'[q] = fut[q] /\ Waiting(q)' = Waiting(q)
  BY <1>1, OutcomesAreNoRequests DEF Waiting, TypeOK
<1>3. fut'[r] = IF fut[r] = "pending" THEN "cancelled" ELSE fut[r]
  BY <1>1 DEF TypeOK
<1>4. RouteTypes
  BY <1>1 DEF RouteTypes, TypeOK
<1>5. RoutesOK'
  <2>1. ASSUME NEW k \in Keys, pending'[k] # Nobody
        PROVE  /\ pending'[k] = pending[k] /\ pending[k] \in Reqs \ {r}
    BY <1>1, <2>1 DEF TypeOK
  <2>2. ASSUME single' # Nobody PROVE single' = single /\ single \in Reqs \ {r}
    BY <1>1, <2>2 DEF TypeOK
  <2>3. ASSUME NEW k \in Keys, pending'[k] # Nobody
        PROVE  /\ pc'[pending'[k]] \in Registered /\ reqGen'[pending'[k]] = gen' /\ open'
               /\ k \in KeySet(pending'[k])
    BY <2>1, <2>3 DEF ReqInv, RoutesOK, Leave
  <2>4. ASSUME single' # Nobody
        PROVE  /\ single' \in Clients \ Reliable
               /\ pc'[single'] \in Registered /\ reqGen'[single'] = gen' /\ open'
    BY <2>2, <2>4 DEF ReqInv, RoutesOK, Leave
  <2>5. QED
    BY <2>3, <2>4 DEF RoutesOK, KeySet
<1>6. FuturesOK'
  BY <1>2, <1>3, OutcomesAreNoRequests DEF ReqInv, FuturesOK, Leave, KeySet
<1>7. QED
  BY <1>2, <1>3, <1>4, <1>5, <1>6 DEF ReqInv, Settled

\* Where no route changes.
LEMMA SameRoutes ==
    ASSUME TypeOK, ReqInv, UNCHANGED <<fut, pending, single, gen, open>>, reqGen' = reqGen,
           pc' \in [Reqs -> Places],
           \A q \in Reqs : pc'[q] \in Registered <=> pc[q] \in Registered
    PROVE  ReqInv' /\ RouteTypes /\ Settled
<1>1. \A q \in Reqs : Waiting(q)' = Waiting(q)
  BY DEF Waiting
<1>2. QED
  <2>1. RoutesOK'
    <3>1. \A k \in Keys : pending[k] # Nobody =>
             /\ pc'[pending[k]] \in Registered /\ reqGen[pending[k]] = gen /\ open
             /\ k \in KeySet(pending[k])
      BY DEF ReqInv, RoutesOK, TypeOK
    <3>2. single # Nobody =>
             /\ single \in Clients \ Reliable
             /\ pc'[single] \in Registered /\ reqGen[single] = gen /\ open
      BY DEF ReqInv, RoutesOK, TypeOK
    <3>3. QED
      BY <3>1, <3>2 DEF RoutesOK, KeySet
  <2>2. FuturesOK'
    BY <1>1 DEF ReqInv, FuturesOK, KeySet
  <2>3. RouteTypes /\ Settled
    BY DEF RouteTypes, Settled, TypeOK
  <2>4. QED
    BY <2>1, <2>2, <2>3 DEF ReqInv
-----------------------------------------------------------------------------
\* What changes neither the connection nor its tasks.
LEMMA RequestCore ==
    ASSUME Core, UNCHANGED <<connVars, taskVars>>, RouteTypes, asked' \subseteq Reqs,
           reqGen' \in [Reqs -> 0..MaxGen], pc' \in [Reqs -> Places],
           pc'["beat"] \in InFlight => pc["beat"] \in InFlight
    PROVE  Core'
<1>1. TypeOK'
  BY DEF Core, TypeOK, RouteTypes, connVars, taskVars
<1>2. PhaseOK'
  BY DEF Core, PhaseOK, connVars, taskVars
<1>3. BeatOK'
  BY DEF Core, BeatOK, Connected, connVars, taskVars
<1>4. QED
  BY <1>1, <1>2, <1>3 DEF Core

\* The transport is closed; the heartbeat is not asking any more.
LEMMA DisconnectCore ==
    ASSUME Core, Disconnect, UNCHANGED <<phase, start, beatGen, asked>>, Leave, RouteTypes,
           pc'["beat"] \notin InFlight
    PROVE  Core'
<1>1. TypeOK'
  BY DEF Core, TypeOK, RouteTypes, Disconnect, Leave
<1>2. PhaseOK'
  BY DEF Core, PhaseOK, Disconnect
<1>3. BeatOK'
  BY DEF BeatOK, Disconnect
<1>4. QED
  BY <1>1, <1>2, <1>3 DEF Core

\* So it is by a close, which the handshake does not meet.
LEMMA CloseCore ==
    ASSUME Core, CloseGeneration, LifecycleFree, LifecycleFree', Leave, RouteTypes,
           UNCHANGED <<start, beatGen, asked>>, pc'["beat"] \notin InFlight
    PROVE  Core'
<1>0. phase' \in {"idle", "cleanup"} /\ gen \in 0..MaxGen /\ MaxGen \in Nat
  BY BoundsAssumption DEF LifecycleFree, Core, TypeOK
<1>1. CASE ~open /\ ~handles
  <2>1. UNCHANGED <<connVars, beat>> /\ beat = "off"
    BY <1>1 DEF CloseGeneration, Core, BeatOK, Connected
  <2>2. TypeOK'
    BY <1>0, <2>1 DEF Core, TypeOK, RouteTypes, Leave, connVars
  <2>3. PhaseOK'
    BY <1>0, <1>1, <2>1 DEF PhaseOK, connVars
  <2>4. BeatOK'
    BY <2>1 DEF BeatOK
  <2>5. QED
    BY <2>2, <2>3, <2>4 DEF Core
<1>2. CASE ~(~open /\ ~handles)
  <2>1. gen < MaxGen
    BY <1>2 DEF Core, PhaseOK
  <2>2. /\ open' = FALSE /\ ready' = FALSE /\ confirmed' = FALSE /\ gen' = gen + 1
        /\ handles' = FALSE /\ beat' = "off"
    BY <1>2 DEF CloseGeneration
  <2>3. TypeOK'
    <3>1. gen' \in 0..MaxGen
      BY <1>0, <2>1, <2>2
    <3>2. /\ open' \in BOOLEAN /\ ready' \in BOOLEAN /\ confirmed' \in BOOLEAN
          /\ handles' \in BOOLEAN /\ beat' \in {"off", "sleep", "asking"}
      BY <2>2
    <3>3. QED
      BY <1>0, <3>1, <3>2 DEF Core, TypeOK, RouteTypes, Leave
  <2>4. PhaseOK'
    BY <1>0, <2>2 DEF PhaseOK
  <2>5. BeatOK'
    BY <2>2 DEF BeatOK
  <2>6. QED
    BY <2>3, <2>4, <2>5 DEF Core
<1>3. QED
  BY <1>1, <1>2

\* A connection that is up is not in a handshake.
LEMMA UpIsIdle == Core /\ Connected => phase = "idle"
BY DEF Core, PhaseOK, Connected, TypeOK, Handshake

\* Nothing a step does to other requests, or to the connection, undoes a login.
LEMMA LoginKept ==
    ASSUME TypeOK, LoginOK,
           phase' \in Handshake => phase' = phase /\ gen' = gen,
           Connected' => Connected /\ gen' = gen,
           reqGen'["login"] = reqGen["login"],
           fut["login"] = "login" => fut'["login"] = "login",
           pc'["login"] = pc["login"] \/ (pc["login"] \in InFlight /\ pc'["login"] = "raised")
    PROVE  LoginOK'
<1>1. phase' = "hello" => pc'["login"] = "idle"
  BY DEF LoginOK, Handshake, InFlight
<1>2. phase' = "login" /\ pc'["login"] \in Registered \union {"answered"}
        => reqGen'["login"] = gen' /\ phase = "login" /\ pc["login"] = pc'["login"]
  BY DEF LoginOK, Handshake, Registered
<1>3. Connected' => pc'["login"] = "answered" /\ fut'["login"] = "login" /\ reqGen'["login"] = gen'
  BY DEF LoginOK, InFlight
<1>4. QED
  BY <1>1, <1>2, <1>3 DEF LoginOK

\* As before, with what the lemmas above say of the futures.
LEMMA OtherRequest ==
    ASSUME ConnInv, UNCHANGED <<phase, gen, open, ready>>, Settled,
           reqGen'["login"] = reqGen["login"],
           pc'["login"] = pc["login"] \/ (pc["login"] \in InFlight /\ pc'["login"] = "raised")
    PROVE  LoginOK'
<1>1. fut["login"] = "login" => fut'["login"] = "login"
  BY OutcomesAreNoRequests DEF Settled, Handshake
<1>2. QED
  BY <1>1, LoginKept DEF ConnInv, Core, Connected
-----------------------------------------------------------------------------
\* request, _request_with_guard, _request_once and _write, step by step.
LEMMA SendKeeps == ASSUME ConnInv, NEW r \in Reqs, Send(r) PROVE ConnInv'
<1>0. r \in Clients /\ pc[r] = "idle" /\ pc' = [pc EXCEPT ![r] = "guard"]
      /\ UNCHANGED <<connVars, taskVars, reqGen, fut, pending, single, asked>>
  BY DEF Send
<1>1. r # "beat" /\ r # "login"
  BY <1>0, OutcomesAreNoRequests DEF Handshake
<1>2. /\ pc' \in [Reqs -> Places] /\ \A q \in Reqs : pc'[q] \in Registered <=> pc[q] \in Registered
      /\ pc'["beat"] = pc["beat"] /\ pc'["login"] = pc["login"]
  BY <1>0, <1>1 DEF ConnInv, Core, TypeOK, Places, InFlight, Registered
<1>3. ReqInv' /\ RouteTypes /\ Settled
  BY <1>0, <1>2, SameRoutes DEF ConnInv, Core, connVars
<1>4. Core'
  BY <1>0, <1>2, <1>3, RequestCore DEF ConnInv, Core, TypeOK
<1>5. LoginOK'
  BY <1>0, <1>2, <1>3, OtherRequest DEF connVars, taskVars
<1>6. QED
  BY <1>3, <1>4, <1>5 DEF ConnInv

\* The packet is out: the request waits on with the same routes.
LEMMA DrainedKeeps == ASSUME ConnInv, NEW r \in Reqs, Drained(r) PROVE ConnInv'
<1>0. pc[r] = "drain" /\ pc' = [pc EXCEPT ![r] = "wait"]
      /\ UNCHANGED <<connVars, taskVars, reqGen, fut, pending, single, asked>>
  BY DEF Drained
<1>1. /\ pc' \in [Reqs -> Places] /\ \A q \in Reqs : pc'[q] \in Registered <=> pc[q] \in Registered
      /\ pc'["beat"] \in InFlight => pc["beat"] \in InFlight
      /\ r # "login" => pc'["login"] = pc["login"]
      /\ r = "login" => pc["login"] = "drain" /\ pc'["login"] = "wait"
  BY <1>0, OutcomesAreNoRequests DEF ConnInv, Core, TypeOK, Places, InFlight, Registered, Handshake
<1>2. ReqInv' /\ RouteTypes /\ Settled
  BY <1>0, <1>1, SameRoutes DEF ConnInv, Core, connVars
<1>3. Core'
  BY <1>0, <1>1, <1>2, RequestCore DEF ConnInv, Core, TypeOK
<1>4. LoginOK'
  <2>1. CASE r = "login"
    BY <1>0, <1>1, <2>1 DEF ConnInv, LoginOK, Connected, Registered, connVars, taskVars
  <2>2. CASE r # "login"
    BY <1>0, <1>1, <1>2, <2>2, OtherRequest DEF connVars, taskVars
  <2>3. QED
    BY <2>1, <2>2
<1>5. QED
  BY <1>2, <1>3, <1>4 DEF ConnInv

\* A request that leaves its routes, other than as answered.
LEMMA LeavingKeeps ==
    ASSUME ConnInv, NEW r \in Reqs, pc[r] \in InFlight, pc' = [pc EXCEPT ![r] = "raised"],
           Unregister(r), UNCHANGED <<connVars, taskVars, reqGen, asked>>
    PROVE  ConnInv'
<1>1. /\ pc'[r] = "raised" /\ \A q \in Reqs \ {r} : pc'[q] = pc[q]
      /\ pc' \in [Reqs -> Places] /\ "beat" \in Reqs /\ "login" \in Reqs
  BY OutcomesAreNoRequests DEF ConnInv, Core, TypeOK, Places, Handshake
<1>2. Leave /\ pc'[r] \notin Registered
  BY <1>1 DEF Leave, Registered
<1>3. ReqInv' /\ RouteTypes /\ Settled
  BY <1>1, <1>2, UnregisterKeeps DEF ConnInv, Core, connVars
<1>4. Core'
  BY <1>1, <1>3, RequestCore DEF ConnInv, Core, TypeOK, InFlight
<1>5. LoginOK'
  BY <1>1, <1>3, OtherRequest DEF connVars, taskVars
<1>6. QED
  BY <1>3, <1>4, <1>5 DEF ConnInv

\* A request that times out unregisters.
LEMMA TimeoutKeeps == ASSUME ConnInv, NEW r \in Reqs, Timeout(r) PROVE ConnInv'
BY LeavingKeeps DEF Timeout

\* The packet goes out, or the generation has changed and the request gives up.
LEMMA WriteKeeps == ASSUME ConnInv, NEW r \in Reqs, Write(r) PROVE ConnInv'
<1>1. CASE MayWrite(r)
  <2>0. pc[r] = "write" /\ pc' = [pc EXCEPT ![r] = "drain"] /\ asked' = asked \union {r}
        /\ UNCHANGED <<connVars, taskVars, reqGen, fut, pending, single>>
    BY <1>1 DEF Write
  <2>1. /\ pc' \in [Reqs -> Places] /\ \A q \in Reqs : pc'[q] \in Registered <=> pc[q] \in Registered
        /\ pc'["beat"] \in InFlight => pc["beat"] \in InFlight
        /\ r # "login" => pc'["login"] = pc["login"]
        /\ r = "login" => pc["login"] = "write" /\ pc'["login"] = "drain"
    BY <2>0, OutcomesAreNoRequests DEF ConnInv, Core, TypeOK, Places, InFlight, Registered, Handshake
  <2>2. ReqInv' /\ RouteTypes /\ Settled
    BY <2>0, <2>1, SameRoutes DEF ConnInv, Core, connVars
  <2>3. Core'
    BY <2>0, <2>1, <2>2, RequestCore DEF ConnInv, Core, TypeOK
  <2>4. LoginOK'
    <3>1. CASE r = "login"
      BY <2>0, <2>1, <3>1 DEF ConnInv, LoginOK, Connected, Registered, connVars, taskVars
    <3>2. CASE r # "login"
      BY <2>0, <2>1, <2>2, <3>2, OtherRequest DEF connVars, taskVars
    <3>3. QED
      BY <3>1, <3>2
  <2>5. QED
    BY <2>2, <2>3, <2>4 DEF ConnInv
<1>2. CASE ~MayWrite(r)
  BY <1>2, LeavingKeeps DEF Write, InFlight
<1>3. QED
  BY <1>1, <1>2

\* The transport is closed, with the heartbeat and perhaps another request.
LEMMA DisconnectKeeps ==
    ASSUME ConnInv, NEW S \in SUBSET Reqs, "beat" \in S, Disconnect, pc' = Stopped(S),
           UNCHANGED <<phase, start, beatGen, reqGen, asked>>
    PROVE  ConnInv'
<1>1. TypeOK /\ Core /\ ReqInv /\ LoginOK /\ "login" \in Reqs
  BY OutcomesAreNoRequests DEF ConnInv, Core, Handshake
<1>2. /\ Leave /\ pc'["beat"] \notin InFlight
      /\ pc'["login"] = pc["login"] \/ (pc["login"] \in InFlight /\ pc'["login"] = "raised")
  BY <1>1, StoppedLeaves
<1>3. ReqInv' /\ RouteTypes /\ Settled
  BY <1>1, <1>2, FailKeeps DEF Disconnect
<1>4. Core'
  BY <1>1, <1>2, <1>3, DisconnectCore
<1>5. LoginOK'
  <2>1. ~Connected' /\ phase' = phase /\ gen' = gen /\ reqGen' = reqGen
    BY DEF Disconnect, Connected
  <2>2. fut["login"] = "login" => fut'["login"] = "login"
    BY <1>1, <1>3 DEF Settled
  <2>3. QED
    BY <1>1, <1>2, <2>1, <2>2, LoginKept
<1>6. QED
  BY <1>3, <1>4, <1>5 DEF ConnInv

\* A step that closes the generation and stops the heartbeat keeps the invariant.
LEMMA ClosingKeeps ==
    ASSUME ConnInv, NEW S \in SUBSET Reqs, "beat" \in S, CloseGeneration, pc' = Stopped(S),
           LifecycleFree, LifecycleFree', UNCHANGED <<start, beatGen, reqGen, asked>>
    PROVE  ConnInv'
<1>1. TypeOK /\ Core /\ ReqInv /\ LoginOK
  BY DEF ConnInv, Core
<1>2. Leave /\ pc'["beat"] \notin InFlight
  BY <1>1, StoppedLeaves
<1>3. ReqInv' /\ RouteTypes /\ Settled
  BY <1>1, <1>2, CloseKeeps
<1>4. Core'
  BY <1>1, <1>2, <1>3, CloseCore
<1>5. LoginOK'
  <2>1. ~Connected' /\ phase' \notin Handshake
    BY DEF CloseGeneration, Connected, LifecycleFree, Handshake, connVars
  <2>2. QED
    BY <2>1 DEF LoginOK, Handshake
<1>6. QED
  BY <1>3, <1>4, <1>5 DEF ConnInv

\* A failing write disconnects its own generation only.
LEMMA WriteFailsKeeps == ASSUME ConnInv, NEW r \in Reqs, WriteFails(r) PROVE ConnInv'
<1>0. /\ pc[r] = "drain" /\ UNCHANGED <<phase, start, beatGen, reqGen, asked>>
      /\ TypeOK /\ Core /\ {r, "beat"} \in SUBSET Reqs
  BY OutcomesAreNoRequests DEF WriteFails, ConnInv, Core
<1>1. CASE open /\ reqGen[r] = gen /\ r = "beat"
  <2>1. Connected
    BY <1>0, <1>1 DEF Core, BeatOK, InFlight
  <2>2. phase = "idle"
    BY <1>0, <2>1, UpIsIdle
  <2>3. CloseGeneration /\ pc' = Stopped({r, "beat"}) /\ LifecycleFree /\ LifecycleFree'
    BY <1>0, <1>1, <2>2 DEF WriteFails, LifecycleFree
  <2>4. QED
    BY <1>0, <2>3, ClosingKeeps
<1>2. CASE open /\ reqGen[r] = gen /\ r # "beat"
  <2>1. Disconnect /\ pc' = Stopped({r, "beat"})
    BY <1>2 DEF WriteFails
  <2>2. QED
    BY <1>0, <2>1, DisconnectKeeps
<1>3. CASE ~(open /\ reqGen[r] = gen)
  <2>1. pc' = [pc EXCEPT ![r] = "raised"]
    BY <1>0, <1>3 DEF WriteFails, Stopped, InFlight, TypeOK
  <2>2. Unregister(r) /\ UNCHANGED <<connVars, taskVars, reqGen, asked>> /\ pc[r] \in InFlight
    BY <1>0, <1>3 DEF WriteFails, InFlight, taskVars
  <2>3. QED
    BY <2>1, <2>2, LeavingKeeps
<1>4. QED
  BY <1>1, <1>2, <1>3

\* A key that is taken belongs to another request, so it is the serial.
LEMMA FirstCollides ==
    ASSUME LaterKeysAreOwn, ConnInv, NEW r \in Reqs, pc[r] = "guard"
    PROVE  \A i \in Collisions(r) : i = 1
<1> SUFFICES ASSUME NEW i \in Collisions(r), i # 1 PROVE FALSE
  OBVIOUS
<1>1. i \in DOMAIN KeysOf[r] /\ i > 1 /\ pending[KeysOf[r][i]] # Nobody
  <2>1. KeysOf[r] \in Seq(Keys)
    BY KeysAssumption
  <2>2. QED
    BY <2>1 DEF Collisions, Collides
<1>2. KeysOf[r][i] \in Keys
  BY <1>1, KeysAreThere DEF KeySet
<1> DEFINE q == pending[KeysOf[r][i]]
<1>3. q \in Reqs /\ pc[q] \in Registered /\ KeysOf[r][i] \in KeySet(q)
  BY <1>1, <1>2 DEF ConnInv, Core, TypeOK, ReqInv, RoutesOK
<1>4. q # r
  BY <1>3 DEF Registered
<1>5. QED
  BY <1>1, <1>3, <1>4 DEF LaterKeysAreOwn

\* Registration claims all keys or, after a collision, none.
LEMMA RegisterKeeps ==
    ASSUME LaterKeysAreOwn, ConnInv, NEW r \in Reqs, Register(r) PROVE ConnInv'
<1>0. /\ pc[r] = "guard" /\ UNCHANGED <<connVars, taskVars, asked>>
      /\ TypeOK /\ Core /\ ReqInv /\ LoginOK /\ "login" \in Reqs /\ "beat" \in Reqs
  BY OutcomesAreNoRequests DEF Register, ConnInv, Core, Handshake
<1>1. CASE ~open
  <2>0. pc' = [pc EXCEPT ![r] = "raised"] /\ UNCHANGED <<reqGen, fut, pending, single>>
    BY <1>1 DEF Register
  <2>1. /\ pc' \in [Reqs -> Places] /\ \A q \in Reqs : pc'[q] \in Registered <=> pc[q] \in Registered
        /\ pc'["beat"] \in InFlight => pc["beat"] \in InFlight
        /\ pc'["login"] = pc["login"] \/ (pc["login"] \in InFlight /\ pc'["login"] = "raised")
    BY <1>0, <2>0 DEF TypeOK, Places, InFlight, Registered
  <2>2. ReqInv' /\ RouteTypes /\ Settled
    BY <1>0, <2>0, <2>1, SameRoutes DEF connVars
  <2>3. Core'
    BY <1>0, <2>0, <2>1, <2>2, RequestCore DEF TypeOK
  <2>4. LoginOK'
    BY <1>0, <2>0, <2>1, <2>2, OtherRequest DEF connVars, taskVars
  <2>5. QED
    BY <2>2, <2>3, <2>4 DEF ConnInv
<1>2. CASE open
  <2> DEFINE free == Collisions(r) = {}
  <2>0. /\ fut' = [fut EXCEPT ![r] = "pending"] /\ reqGen' = [reqGen EXCEPT ![r] = gen]
        /\ single' = IF free /\ r \in Clients \ Reliable THEN r ELSE single
        /\ pc' = [pc EXCEPT ![r] = IF free THEN "write" ELSE "raised"]
        /\ r \in Clients \ Reliable => RequestLockFree
    BY <1>2 DEF Register
  <2>1. pending' = [k \in Keys |-> IF free /\ k \in KeySet(r) THEN r ELSE pending[k]]
    <3>1. CASE free
      BY <1>2, <3>1 DEF Register, KeySet
    <3>2. CASE ~free
      <4> DEFINE first == CHOOSE i \in Collisions(r) : \A j \in Collisions(r) : i <= j
      <4>1. \A i \in Collisions(r) : i = 1
        BY <1>0, FirstCollides
      <4>2. first = 1
        BY <3>2, <4>1
      <4>3. Earlier(r, first) = {}
        BY <4>2 DEF Earlier
      <4>4. pending' = [k \in Keys |-> IF k \in Earlier(r, first) THEN r ELSE pending[k]]
        BY <1>2, <3>2 DEF Register
      <4> HIDE DEF first
      <4>5. QED
        BY <3>2, <4>3, <4>4
    <3>3. QED
      BY <3>1, <3>2
  <2>2. /\ fut'[r] = "pending" /\ reqGen'[r] = gen /\ pc'[r] = (IF free THEN "write" ELSE "raised")
        /\ \A q \in Reqs \ {r} : fut'[q] = fut[q] /\ reqGen'[q] = reqGen[q] /\ pc'[q] = pc[q]
    BY <1>0, <2>0 DEF TypeOK
  <2>3. UNCHANGED <<gen, open>>
    BY <1>0 DEF connVars
  <2>4. (\A k \in Keys : pending[k] # r) /\ single # r
    BY <1>0, OutcomesAreNoRequests DEF ReqInv, RoutesOK, Registered
  <2>5. RoutesOK'
    <3>1. ASSUME NEW k \in Keys, pending'[k] # Nobody
          PROVE  /\ pc'[pending'[k]] \in Registered /\ reqGen'[pending'[k]] = gen' /\ open'
                 /\ k \in KeySet(pending'[k])
      <4>1. CASE free /\ k \in KeySet(r)
        BY <1>2, <2>1, <2>2, <2>3, <4>1 DEF Registered
      <4>2. CASE ~(free /\ k \in KeySet(r))
        <5>1. pending'[k] = pending[k] /\ pending[k] \in Reqs \ {r}
          BY <1>0, <2>1, <2>4, <3>1, <4>2 DEF TypeOK
        <5>2. QED
          BY <1>0, <2>2, <2>3, <3>1, <5>1 DEF ReqInv, RoutesOK
      <4>3. QED
        BY <4>1, <4>2
    <3>2. ASSUME single' # Nobody
          PROVE  /\ single' \in Clients \ Reliable
                 /\ pc'[single'] \in Registered /\ reqGen'[single'] = gen' /\ open'
      <4>1. CASE free /\ r \in Clients \ Reliable
        BY <1>2, <2>0, <2>2, <2>3, <4>1 DEF Registered
      <4>2. CASE ~(free /\ r \in Clients \ Reliable)
        <5>1. single' = single /\ single \in Reqs \ {r}
          BY <1>0, <2>0, <2>4, <3>2, <4>2 DEF TypeOK
        <5>2. QED
          BY <1>0, <2>2, <2>3, <3>2, <5>1 DEF ReqInv, RoutesOK
      <4>3. QED
        BY <4>1, <4>2
    <3>3. QED
      BY <3>1, <3>2 DEF RoutesOK, KeySet
  <2>6. FuturesOK'
    <3>1. ASSUME free PROVE Waiting(r)'
      BY <2>1, <3>1, KeysAreThere DEF Waiting
    <3>2. ASSUME NEW q \in Reqs \ {r}, pc[q] \in Registered, fut[q] = "pending", Waiting(q)
          PROVE  Waiting(q)'
      <4>1. CASE single = q
        <5>1. ~RequestLockFree
          BY <1>0, <3>2, <4>1, OutcomesAreNoRequests
             DEF ReqInv, RoutesOK, RequestLockFree, HoldsRequestLock
        <5>2. QED
          BY <2>0, <4>1, <5>1 DEF Waiting
      <4>2. ASSUME NEW k \in Keys, pending[k] = q PROVE Waiting(q)'
        <5>1. CASE free /\ k \in KeySet(r)
          <6>1. PICK i \in DOMAIN KeysOf[r] : k = KeysOf[r][i]
            BY <5>1 DEF KeySet
          <6>2. i \in Collisions(r)
            BY <3>2, <4>2, <6>1, OutcomesAreNoRequests DEF Collisions, Collides
          <6>3. QED
            BY <5>1, <6>2
        <5>2. CASE ~(free /\ k \in KeySet(r))
          BY <2>1, <4>2, <5>2 DEF Waiting
        <5>3. QED
          BY <5>1, <5>2
      <4>3. QED
        BY <3>2, <4>1, <4>2 DEF Waiting
    <3>3. ASSUME NEW q \in Reqs
          PROVE  /\ pc'[q] \in Registered => fut'[q] \notin {"none", "cancelled"}
                 /\ pc'[q] \in Registered /\ fut'[q] = "pending" => Waiting(q)'
                 /\ fut'[q] \in Reqs => KeySet(q) \intersect KeySet(fut'[q]) # {}
                 /\ fut'[q] = "stray" => q \in Clients
      <4>1. CASE q = r
        BY <2>2, <3>1, <4>1, OutcomesAreNoRequests DEF Registered
      <4>2. CASE q # r
        BY <1>0, <2>2, <3>2, <4>2 DEF ReqInv, FuturesOK
      <4>3. QED
        BY <4>1, <4>2
    <3>4. QED
      BY <3>3 DEF FuturesOK, KeySet
  <2>7. RouteTypes
    BY <1>0, <2>0, <2>1 DEF RouteTypes, TypeOK
  <2>8. /\ reqGen' \in [Reqs -> 0..MaxGen] /\ pc' \in [Reqs -> Places]
        /\ pc'["beat"] \in InFlight => pc["beat"] \in InFlight
    BY <1>0, <2>0, <2>2 DEF TypeOK, Places, InFlight
  <2>9. Core'
    BY <1>0, <2>7, <2>8, RequestCore DEF TypeOK
  <2>10. LoginOK'
    <3>1. UNCHANGED <<phase, gen, open, ready>>
      BY <1>0 DEF connVars, taskVars
    <3>2. CASE r = "login"
      BY <1>0, <2>2, <3>1, <3>2 DEF LoginOK, Connected, Registered
    <3>3. CASE r # "login"
      BY <1>0, <2>2, <3>1, <3>3, LoginKept DEF Connected
    <3>4. QED
      BY <3>2, <3>3
  <2>11. QED
    BY <2>5, <2>6, <2>9, <2>10 DEF ConnInv, ReqInv
<1>3. QED
  BY <1>1, <1>2

\* A request that is done takes its routes away.
LEMMA AnsweredKeeps ==
    ASSUME LoginKeysAreOwn, ConnInv, NEW r \in Reqs, Answered(r) PROVE ConnInv'
<1>0. /\ pc[r] = "wait" /\ fut[r] # "pending" /\ Unregister(r)
      /\ pc' = [pc EXCEPT ![r] = IF fut[r] = "failed" THEN "raised" ELSE "answered"]
      /\ UNCHANGED <<connVars, taskVars, reqGen, asked>>
      /\ TypeOK /\ Core /\ ReqInv /\ LoginOK /\ "login" \in Reqs /\ "beat" \in Reqs
  BY OutcomesAreNoRequests DEF Answered, ConnInv, Core, Handshake
<1>1. /\ pc'[r] = (IF fut[r] = "failed" THEN "raised" ELSE "answered")
      /\ \A q \in Reqs \ {r} : pc'[q] = pc[q]
      /\ pc' \in [Reqs -> Places]
  BY <1>0 DEF TypeOK, Places
<1>2. Leave /\ pc'[r] \notin Registered /\ (pc'["beat"] \in InFlight => pc["beat"] \in InFlight)
  BY <1>0, <1>1 DEF Leave, Registered, InFlight
<1>3. ReqInv' /\ RouteTypes /\ Settled
  BY <1>0, <1>1, <1>2, UnregisterKeeps DEF connVars
<1>4. Core'
  BY <1>0, <1>1, <1>2, <1>3, RequestCore DEF TypeOK
<1>5. LoginOK'
  <2>1. CASE r = "login"
    <3>1. UNCHANGED <<phase, gen, open, ready>> /\ fut'["login"] = fut["login"]
      BY <1>0, <1>3, <2>1 DEF connVars, taskVars, Settled
    <3>2. ~Connected /\ phase # "hello"
      BY <1>0, <2>1 DEF LoginOK
    <3>3. phase = "login" => reqGen["login"] = gen
      BY <1>0, <2>1 DEF LoginOK, Registered
    <3>4. pc'["login"] = "answered" => fut["login"] = "login"
      <4>1. fut["login"] \notin {"none", "pending", "cancelled", "stray"}
        BY <1>0, <2>1, OutcomesAreNoRequests DEF ReqInv, FuturesOK, Registered, Handshake
      <4>2. fut["login"] \in {"failed"} \union Reqs
        BY <1>0, <4>1 DEF TypeOK
      <4>3. fut["login"] \in Reqs => fut["login"] = "login"
        BY <1>0 DEF ReqInv, FuturesOK, LoginKeysAreOwn
      <4>4. QED
        BY <1>1, <2>1, <4>2, <4>3
    <3>5. QED
      BY <1>0, <3>1, <3>2, <3>3, <3>4 DEF LoginOK, Connected
  <2>2. CASE r # "login"
    BY <1>0, <1>1, <1>3, <2>2, OtherRequest DEF connVars, taskVars
  <2>3. QED
    BY <2>1, <2>2
<1>6. QED
  BY <1>3, <1>4, <1>5 DEF ConnInv
-----------------------------------------------------------------------------
\* A frame that resolves a future.
LEMMA ResolveKeeps ==
    ASSUME ConnInv, NEW t \in Reqs, NEW a, Resolve(t, a),
           \/ a \in Reqs /\ KeySet(t) \intersect KeySet(a) # {}
           \/ a = "stray" /\ t \in Clients
    PROVE  ConnInv'
<1>0. /\ fut[t] = "pending" /\ fut' = [fut EXCEPT ![t] = a]
      /\ UNCHANGED <<connVars, taskVars, pc, reqGen, pending, single, asked>>
      /\ TypeOK /\ Core /\ ReqInv
  BY DEF Resolve, ConnInv, Core
<1>1. /\ fut'[t] = a /\ \A q \in Reqs \ {t} : fut'[q] = fut[q]
      /\ \A q \in Reqs : Waiting(q)' = Waiting(q)
  BY <1>0 DEF TypeOK, Waiting
<1>2. RouteTypes /\ Settled
  BY <1>0, <1>1 DEF RouteTypes, Settled, TypeOK
<1>3. RoutesOK'
  BY <1>0 DEF ReqInv, RoutesOK, KeySet, connVars
<1>4. FuturesOK'
  <2>1. ASSUME NEW q \in Reqs
        PROVE  /\ pc[q] \in Registered => fut'[q] \notin {"none", "cancelled"}
               /\ pc[q] \in Registered /\ fut'[q] = "pending" => Waiting(q)
               /\ fut'[q] \in Reqs => KeySet(q) \intersect KeySet(fut'[q]) # {}
               /\ fut'[q] = "stray" => q \in Clients
    <3>1. CASE q = t
      BY <1>1, <3>1, OutcomesAreNoRequests
    <3>2. CASE q # t
      BY <1>0, <1>1, <3>2 DEF ReqInv, FuturesOK
    <3>3. QED
      BY <3>1, <3>2
  <2>2. QED
    BY <1>0, <1>1, <2>1 DEF FuturesOK, KeySet
<1>5. Core'
  BY <1>0, <1>2, RequestCore DEF TypeOK
<1>6. LoginOK'
  BY <1>0, <1>2, OtherRequest DEF connVars, taskVars
<1>7. QED
  BY <1>3, <1>4, <1>5, <1>6 DEF ConnInv, ReqInv

\* A set of natural numbers with a member has a smallest one.
LEMMA SmallestIsThere ==
    ASSUME NEW S \in SUBSET Nat, S # {} PROVE \E i \in S : \A j \in S : i <= j
<1>1. PICK i \in S : \A j \in S : <<j, i>> \notin OpToRel(<, Nat)
  BY NatLessThanWellFounded, WFMin, Zenon
<1>2. \A j \in S : ~(j < i)
  BY <1>1, Zenon DEF OpToRel
<1>3. QED
  BY <1>2

\* _reader_loop and _route.
LEMMA ReaderKeeps == ASSUME ConnInv, ReaderStep PROVE ConnInv'
<1>1. ASSUME NEW r \in Reqs, ReadAnswer(r) PROVE ConnInv'
  <2> DEFINE t == Target(r)
  <2>1. Resolve(t, r) /\ t # Nobody
    BY <1>1 DEF ReadAnswer, Resolve
  <2>2. \E i \in DOMAIN KeysOf[r] : t = pending[KeysOf[r][i]] /\ pending[KeysOf[r][i]] # Nobody
    <3> DEFINE known == {i \in DOMAIN KeysOf[r] : pending[KeysOf[r][i]] # Nobody}
               first == CHOOSE i \in known : \A j \in known : i <= j
    <3>1. known # {}
      BY <2>1 DEF Target
    <3>2. PICK n \in Nat : DOMAIN KeysOf[r] = 1..n
      BY KeysAssumption
    <3>3. \E i \in known : \A j \in known : i <= j
      <4>1. known \subseteq Nat /\ known # {}
        BY <3>1, <3>2
      <4> HIDE DEF known
      <4>2. QED
        BY <4>1, SmallestIsThere
    <3>4. first \in known
      BY <3>3
    <3>5. t = pending[KeysOf[r][first]]
      BY <3>1 DEF Target
    <3>6. QED
      BY <3>4, <3>5
  <2>3. PICK i \in DOMAIN KeysOf[r] : t = pending[KeysOf[r][i]] /\ pending[KeysOf[r][i]] # Nobody
    BY <2>2
  <2>4. KeysOf[r][i] \in Keys /\ KeysOf[r][i] \in KeySet(r)
    BY KeysAreThere DEF KeySet
  <2>5. t \in Reqs /\ KeysOf[r][i] \in KeySet(t)
    BY <2>3, <2>4 DEF ConnInv, Core, TypeOK, ReqInv, RoutesOK
  <2> HIDE DEF t
  <2>6. QED
    BY <2>1, <2>4, <2>5, ResolveKeeps
<1>2. ASSUME NEW r \in Reqs, ReadBareAnswer(r) \/ ReadBareUpdate PROVE ConnInv'
  <2>1. single # Nobody
    BY <1>2 DEF ReadBareAnswer, ReadBareUpdate, Resolve
  <2>2. single \in Reqs /\ single \in Clients
    BY <2>1, OutcomesAreNoRequests DEF ConnInv, ReqInv, RoutesOK
  <2>3. KeySet(single) \intersect KeySet(single) # {}
    BY <2>2, KeysAreThere
  <2>4. PICK a : Resolve(single, a) /\ a \in {single, "stray"}
    BY <1>2 DEF ReadBareAnswer, ReadBareUpdate
  <2>5. QED
    BY <2>2, <2>3, <2>4, ResolveKeeps
<1>3. CASE ReaderStops
  <2>1. "beat" \in Reqs
    BY OutcomesAreNoRequests
  <2>2. QED
    BY <1>3, <2>1, DisconnectKeeps DEF ReaderStops
<1>4. "beat" \in Reqs
  BY OutcomesAreNoRequests
<1>5. QED
  BY <1>1, <1>2, <1>3, <1>4 DEF ReaderStep
-----------------------------------------------------------------------------
\* connect, await by await.
LEMMA BeginKeeps == ASSUME ConnInv, ConnectBegin PROVE ConnInv'
<1>0. /\ phase = "idle" /\ ~Connected /\ gen + 2 <= MaxGen /\ phase' = "opening" /\ start' = gen
      /\ UNCHANGED <<connVars, beat, beatGen, reqVars>>
      /\ TypeOK /\ Core /\ ReqInv /\ LoginOK
  BY DEF ConnectBegin, ConnInv, Core
<1>1. ReqInv' /\ RouteTypes /\ Settled
  BY <1>0, SameRoutes DEF TypeOK, reqVars, connVars
<1>2. TypeOK'
  BY <1>0 DEF TypeOK, connVars, reqVars
<1>3. PhaseOK'
  BY <1>0 DEF Core, PhaseOK, connVars, Connected
<1>4. BeatOK'
  BY <1>0 DEF Core, BeatOK, connVars, reqVars, Connected
<1>5. LoginOK'
  BY <1>0, LoginKept DEF connVars, reqVars, Connected, Handshake
<1>6. QED
  BY <1>1, <1>2, <1>3, <1>4, <1>5 DEF ConnInv, Core

\* The new generation has no routes and no heartbeat yet.
LEMMA OpenedKeeps == ASSUME ConnInv, ConnectOpened PROVE ConnInv'
<1>0. /\ phase = "opening" /\ phase' = "hello" /\ gen' = gen + 1 /\ open' = TRUE /\ ready' = FALSE
      /\ confirmed' = FALSE /\ handles' = TRUE /\ asked' = {}
      /\ pc' = [pc EXCEPT !["hello"] = "guard", !["login"] = "idle"]
      /\ UNCHANGED <<start, beat, beatGen, reqGen, fut, pending, single>>
      /\ TypeOK /\ Core /\ ReqInv /\ "login" \in Reqs /\ "hello" \in Reqs /\ "beat" \in Reqs
  BY OutcomesAreNoRequests DEF ConnectOpened, ConnInv, Core, Handshake
<1>1. ~open /\ gen = start /\ gen + 2 <= MaxGen /\ beat = "off" /\ gen \in Nat /\ MaxGen \in Nat
  BY <1>0, BoundsAssumption DEF Core, PhaseOK, BeatOK, Connected, TypeOK
<1>2. /\ pc' \in [Reqs -> Places] /\ pc'["login"] = "idle" /\ pc'["beat"] = pc["beat"]
      /\ \A q \in Reqs : pc'[q] \in Registered => pc[q] \in Registered
  BY <1>0 DEF TypeOK, Places, InFlight, Registered
<1>3. ReqInv' /\ RouteTypes /\ Settled
  BY <1>0, <1>1, <1>2, NoRoutes DEF Leave
<1>4. TypeOK'
  <2>1. gen' \in 0..MaxGen
    BY <1>0, <1>1
  <2>2. /\ start' \in 0..MaxGen /\ beatGen' \in 0..MaxGen
        /\ beat' \in {"off", "sleep", "asking"} /\ reqGen' \in [Reqs -> 0..MaxGen]
    BY <1>0 DEF TypeOK
  <2>3. /\ open' \in BOOLEAN /\ ready' \in BOOLEAN /\ confirmed' \in BOOLEAN
        /\ handles' \in BOOLEAN /\ asked' \subseteq Reqs
        /\ phase' \in {"idle", "opening", "cleanup"} \union Handshake
    BY <1>0 DEF Handshake
  <2>4. QED
    BY <1>2, <1>3, <2>1, <2>2, <2>3 DEF TypeOK, RouteTypes
<1>5. PhaseOK'
  BY <1>0, <1>1 DEF PhaseOK
<1>6. BeatOK'
  BY <1>0, <1>1, <1>2 DEF Core, BeatOK
<1>7. LoginOK'
  BY <1>0, <1>2 DEF LoginOK, Connected
<1>8. QED
  BY <1>3, <1>4, <1>5, <1>6, <1>7 DEF ConnInv, Core

\* Login is asked in the generation hello was answered in.
LEMMA HelloKeeps == ASSUME ConnInv, ConnectHello PROVE ConnInv'
<1>0. /\ phase = "hello" /\ pc["login"] = "idle" /\ ~ready
      /\ UNCHANGED <<connVars, start, beat, beatGen, reqGen, fut, pending, single, asked>>
      /\ TypeOK /\ Core /\ ReqInv /\ "login" \in Reqs /\ "beat" \in Reqs
  BY OutcomesAreNoRequests DEF ConnectHello, ConnInv, Core, LoginOK, PhaseOK, Handshake
<1>1. \/ phase' = "login" /\ pc' = [pc EXCEPT !["login"] = "guard"]
      \/ phase' = "cleanup" /\ pc' = pc
  BY DEF ConnectHello
<1>2. /\ pc' \in [Reqs -> Places] /\ \A q \in Reqs : pc'[q] \in Registered <=> pc[q] \in Registered
      /\ pc'["beat"] = pc["beat"] /\ pc'["login"] \in {"idle", "guard"}
  BY <1>0, <1>1 DEF TypeOK, Places, InFlight, Registered
<1>3. ReqInv' /\ RouteTypes /\ Settled
  BY <1>0, <1>2, SameRoutes DEF connVars
<1>4. TypeOK'
  BY <1>0, <1>1, <1>2 DEF TypeOK, connVars, Handshake
<1>5. PhaseOK'
  BY <1>0, <1>1 DEF Core, PhaseOK, connVars
<1>6. BeatOK'
  BY <1>0, <1>2 DEF Core, BeatOK, Connected, connVars
<1>7. LoginOK'
  BY <1>0, <1>1, <1>2 DEF LoginOK, Connected, connVars, Registered
<1>8. QED
  BY <1>3, <1>4, <1>5, <1>6, <1>7 DEF ConnInv, Core

\* The login that makes the connection ready is the one of this attempt.
LEMMA LoginKeeps == ASSUME ConnInv, ConnectLogin PROVE ConnInv'
<1>0. /\ phase = "login" /\ ~ready /\ beat = "off" /\ pc["beat"] \notin InFlight
      /\ UNCHANGED <<gen, open, handles, start, reqVars>>
      /\ TypeOK /\ Core /\ ReqInv /\ LoginOK /\ phase' \in {"idle", "cleanup"}
  BY DEF ConnectLogin, ConnInv, Core, PhaseOK, BeatOK, Connected
<1>1. ReqInv' /\ RouteTypes /\ Settled
  BY <1>0, SameRoutes DEF TypeOK, reqVars
<1>2. CASE pc["login"] = "answered" /\ phase' = "idle" /\ ready' = TRUE /\ confirmed' \in BOOLEAN
           /\ beat' = (IF open THEN "sleep" ELSE "off") /\ beatGen' = gen
  <2>1. TypeOK'
    BY <1>0, <1>2 DEF TypeOK, reqVars
  <2>2. PhaseOK'
    BY <1>0, <1>2 DEF Core, PhaseOK
  <2>3. BeatOK'
    BY <1>0, <1>2 DEF BeatOK, Connected, reqVars
  <2>4. LoginOK'
    BY <1>0, <1>2 DEF LoginOK, reqVars
  <2>5. QED
    BY <1>1, <2>1, <2>2, <2>3, <2>4 DEF ConnInv, Core
<1>3. CASE phase' = "cleanup" /\ UNCHANGED <<ready, confirmed, beat, beatGen>>
  <2>1. TypeOK'
    BY <1>0, <1>3 DEF TypeOK, reqVars
  <2>2. PhaseOK'
    BY <1>0, <1>3 DEF Core, PhaseOK
  <2>3. BeatOK'
    BY <1>0, <1>3 DEF BeatOK, reqVars
  <2>4. LoginOK'
    BY <1>0, <1>3 DEF LoginOK, Connected
  <2>5. QED
    BY <1>1, <2>1, <2>2, <2>3, <2>4 DEF ConnInv, Core
<1>4. QED
  BY <1>2, <1>3 DEF ConnectLogin

\* An attempt that ends early leaves its transport to the cleanup.
LEMMA GivesUpKeeps == ASSUME ConnInv, ConnectGivesUp PROVE ConnInv'
<1>0. /\ phase \in {"opening", "hello", "login"} /\ phase' = "cleanup"
      /\ UNCHANGED <<connVars, start, beat, beatGen, reqGen, asked>>
      /\ TypeOK /\ Core /\ ReqInv /\ LoginOK /\ "login" \in Reqs /\ "beat" \in Reqs
  BY OutcomesAreNoRequests DEF ConnectGivesUp, ConnInv, Core, Handshake
<1>1. /\ ReqInv' /\ RouteTypes /\ Settled /\ pc' \in [Reqs -> Places]
      /\ pc'["beat"] \in InFlight => pc["beat"] \in InFlight
      /\ pc'["login"] = pc["login"] \/ (pc["login"] \in InFlight /\ pc'["login"] = "raised")
  <2>1. CASE phase \in Handshake /\ pc[phase] \in InFlight
    <3>1. pc' = Stopped({phase}) /\ Unregister(phase) /\ phase \in Reqs
      BY <2>1, OutcomesAreNoRequests DEF ConnectGivesUp
    <3>2. /\ Leave /\ pc'[phase] \notin InFlight /\ \A q \in Reqs \ {phase} : pc'[q] = pc[q]
          /\ pc'["login"] = pc["login"] \/ (pc["login"] \in InFlight /\ pc'["login"] = "raised")
          /\ pc'["beat"] \in InFlight => pc["beat"] \in InFlight
      BY <1>0, <3>1, StoppedLeaves
    <3>3. pc'[phase] \notin Registered /\ pc' \in [Reqs -> Places]
      BY <3>2 DEF Registered, InFlight, Leave
    <3>4. ReqInv' /\ RouteTypes /\ Settled
      BY <1>0, <3>1, <3>2, <3>3, UnregisterKeeps DEF connVars
    <3>5. QED
      BY <3>2, <3>3, <3>4
  <2>2. CASE ~(phase \in Handshake /\ pc[phase] \in InFlight)
    <3>1. UNCHANGED <<pc, fut, pending, single>>
      BY <2>2 DEF ConnectGivesUp
    <3>2. ReqInv' /\ RouteTypes /\ Settled
      BY <1>0, <3>1, SameRoutes DEF TypeOK, connVars
    <3>3. QED
      BY <1>0, <3>1, <3>2 DEF TypeOK
  <2>3. QED
    BY <2>1, <2>2
<1>2. TypeOK'
  BY <1>0, <1>1 DEF TypeOK, RouteTypes, connVars
<1>3. PhaseOK'
  BY <1>0 DEF Core, PhaseOK, connVars
<1>4. BeatOK'
  BY <1>0, <1>1 DEF Core, BeatOK, Connected, connVars
<1>5. LoginOK'
  <2>1. fut["login"] = "login" => fut'["login"] = "login"
    BY <1>0, <1>1 DEF Settled
  <2>2. QED
    BY <1>0, <1>1, <2>1, LoginKept DEF Connected, connVars, Handshake
<1>6. QED
  BY <1>1, <1>2, <1>3, <1>4, <1>5 DEF ConnInv, Core

\* The cleanup closes what the attempt opened, and nothing else.
LEMMA CleanupKeeps == ASSUME ConnInv, ConnectCleanup PROVE ConnInv'
<1>0. phase = "cleanup" /\ phase' = "idle" /\ UNCHANGED <<start, beatGen, reqGen, asked>>
      /\ TypeOK /\ Core /\ ReqInv /\ LoginOK
  BY DEF ConnectCleanup, ConnInv, Core
<1>1. CASE ShouldClose
  <2>1. CloseGeneration /\ pc' = Stopped({"beat"}) /\ LifecycleFree /\ LifecycleFree'
    BY <1>0, <1>1 DEF ConnectCleanup, LifecycleFree
  <2>2. {"beat"} \in SUBSET Reqs
    BY OutcomesAreNoRequests
  <2>3. QED
    BY <1>0, <2>1, <2>2, ClosingKeeps
<1>2. CASE ~ShouldClose
  <2>1. UNCHANGED <<connVars, beat, pc, fut, pending, single>>
    BY <1>2 DEF ConnectCleanup
  <2>2. ~open
    BY <1>0, <1>2 DEF Core, PhaseOK, ShouldClose
  <2>3. ReqInv' /\ RouteTypes /\ Settled
    BY <1>0, <2>1, SameRoutes DEF TypeOK, connVars
  <2>4. TypeOK'
    BY <1>0, <2>1 DEF TypeOK, connVars
  <2>5. PhaseOK'
    BY <1>0, <2>1, <2>2 DEF Core, PhaseOK, connVars
  <2>6. BeatOK'
    BY <1>0, <2>1 DEF Core, BeatOK, Connected, connVars
  <2>7. LoginOK'
    BY <1>0, <2>1, <2>2 DEF LoginOK, Connected, connVars
  <2>8. QED
    BY <2>3, <2>4, <2>5, <2>6, <2>7 DEF ConnInv, Core
<1>3. QED
  BY <1>1, <1>2
-----------------------------------------------------------------------------
\* _heartbeat_loop.
LEMMA BeatKeeps == ASSUME ConnInv, BeatStep PROVE ConnInv'
<1>0. TypeOK /\ Core /\ ReqInv /\ LoginOK /\ "beat" \in Reqs /\ "login" \in Reqs
  BY OutcomesAreNoRequests DEF ConnInv, Core, Handshake
<1>1. CASE BeatAsk
  <2>0. /\ beat' = "asking" /\ pc' = [pc EXCEPT !["beat"] = "guard"] /\ pc["beat"] \notin InFlight
        /\ beatGen = gen /\ Connected
        /\ UNCHANGED <<connVars, phase, start, beatGen, reqGen, fut, pending, single, asked>>
    BY <1>0, <1>1 DEF BeatAsk, Core, BeatOK
  <2>1. /\ pc' \in [Reqs -> Places] /\ \A q \in Reqs : pc'[q] \in Registered <=> pc[q] \in Registered
        /\ pc'["login"] = pc["login"]
    BY <1>0, <2>0 DEF TypeOK, Places, InFlight, Registered
  <2>2. ReqInv' /\ RouteTypes /\ Settled
    BY <1>0, <2>0, <2>1, SameRoutes DEF connVars
  <2>3. TypeOK'
    BY <1>0, <2>0, <2>1 DEF TypeOK, connVars
  <2>4. PhaseOK'
    BY <1>0, <2>0 DEF Core, PhaseOK, connVars
  <2>5. BeatOK'
    BY <2>0 DEF BeatOK, Connected, connVars
  <2>6. LoginOK'
    BY <2>0, <2>1, <2>2, OtherRequest DEF connVars
  <2>7. QED
    BY <2>2, <2>3, <2>4, <2>5, <2>6 DEF ConnInv, Core
<1>2. CASE BeatAnswered
  <2>0. /\ beat = "asking" /\ beat' = "sleep" /\ pc["beat"] = "answered"
        /\ UNCHANGED <<connVars, phase, start, beatGen, reqVars>>
    BY <1>2 DEF BeatAnswered
  <2>1. ReqInv' /\ RouteTypes /\ Settled
    BY <1>0, <2>0, SameRoutes DEF TypeOK, connVars, reqVars
  <2>2. TypeOK'
    BY <1>0, <2>0 DEF TypeOK, connVars, reqVars
  <2>3. PhaseOK'
    BY <1>0, <2>0 DEF Core, PhaseOK, connVars
  <2>4. BeatOK'
    BY <1>0, <2>0 DEF Core, BeatOK, Connected, connVars, reqVars, InFlight
  <2>5. LoginOK'
    BY <2>0, <2>1, OtherRequest DEF connVars, reqVars
  <2>6. QED
    BY <2>1, <2>2, <2>3, <2>4, <2>5 DEF ConnInv, Core
<1>3. CASE BeatTimeout
  <2>1. /\ beatGen = gen /\ pc' = Stopped({"beat"}) /\ LifecycleFree
        /\ UNCHANGED <<phase, start, beatGen, reqGen, asked>>
    BY <1>0, <1>3 DEF BeatTimeout, Core, BeatOK
  <2>2. CloseGeneration /\ LifecycleFree' /\ {"beat"} \in SUBSET Reqs
    BY <1>0, <1>3, <2>1 DEF BeatTimeout, LifecycleFree
  <2>3. QED
    BY <2>1, <2>2, ClosingKeeps
<1>4. QED
  BY <1>1, <1>2, <1>3 DEF BeatStep

\* close.
LEMMA ConnCloseKeeps == ASSUME ConnInv, Close PROVE ConnInv'
<1>1. /\ CloseGeneration /\ pc' = Stopped({"beat"}) /\ LifecycleFree /\ LifecycleFree'
      /\ UNCHANGED <<start, beatGen, reqGen, asked>>
  BY DEF Close, LifecycleFree
<1>2. {"beat"} \in SUBSET Reqs
  BY OutcomesAreNoRequests
<1>3. QED
  BY <1>1, <1>2, ClosingKeeps
-----------------------------------------------------------------------------
\* The invariant holds of a new object.
LEMMA ConnInit == Init => ConnInv
<1> SUFFICES ASSUME Init PROVE ConnInv
  OBVIOUS
<1>1. MaxGen \in Nat /\ "login" \in Reqs /\ "beat" \in Reqs
  BY BoundsAssumption, OutcomesAreNoRequests DEF Handshake
<1>2. TypeOK
  <2>1. /\ gen \in 0..MaxGen /\ start \in 0..MaxGen /\ beatGen \in 0..MaxGen
        /\ reqGen \in [Reqs -> 0..MaxGen]
    BY <1>1 DEF Init
  <2>2. /\ pc \in [Reqs -> Places] /\ pending \in [Keys -> Reqs \union {Nobody}]
        /\ fut \in [Reqs -> {"none", "pending", "failed", "cancelled", "stray"} \union Reqs]
        /\ single \in Reqs \union {Nobody} /\ asked \subseteq Reqs
    BY DEF Init, NoPending, Places
  <2>3. /\ open \in BOOLEAN /\ ready \in BOOLEAN /\ confirmed \in BOOLEAN
        /\ handles \in BOOLEAN /\ beat \in {"off", "sleep", "asking"}
        /\ phase \in {"idle", "opening", "cleanup"} \union Handshake
    BY DEF Init
  <2>4. QED
    BY <2>1, <2>2, <2>3 DEF TypeOK
<1>3. PhaseOK /\ BeatOK
  BY <1>1 DEF Init, PhaseOK, BeatOK, InFlight
<1>4. RoutesOK
  BY DEF Init, RoutesOK, NoPending
<1>5. FuturesOK
  BY OutcomesAreNoRequests DEF Init, FuturesOK, Registered
<1>6. LoginOK
  BY <1>1 DEF Init, LoginOK, Connected
<1>7. QED
  BY <1>2, <1>3, <1>4, <1>5, <1>6 DEF ConnInv, Core, ReqInv

\* Each step keeps the invariant.
LEMMA ConnStep ==
    ASSUME LoginKeysAreOwn, LaterKeysAreOwn PROVE ConnInv /\ [Next]_vars => ConnInv'
<1> SUFFICES ASSUME ConnInv, [Next]_vars PROVE ConnInv'
  OBVIOUS
<1>1. ASSUME NEW r \in Reqs, Send(r) \/ RequestStep(r) \/ Timeout(r) PROVE ConnInv'
  BY <1>1, SendKeeps, RegisterKeeps, WriteKeeps, DrainedKeeps, WriteFailsKeeps, AnsweredKeeps,
     TimeoutKeeps DEF RequestStep
<1>2. CASE ConnectBegin \/ ConnectStep
  BY <1>2, BeginKeeps, OpenedKeeps, HelloKeeps, LoginKeeps, GivesUpKeeps, CleanupKeeps DEF ConnectStep
<1>3. CASE UNCHANGED vars
  <2>1. ReqInv'
    BY <1>3, SameRoutes DEF ConnInv, Core, TypeOK, vars, connVars, reqVars
  <2>2. TypeOK' /\ PhaseOK' /\ BeatOK'
    BY <1>3 DEF ConnInv, Core, TypeOK, PhaseOK, BeatOK, Connected, vars, connVars, taskVars, reqVars
  <2>3. LoginOK'
    BY <1>3 DEF ConnInv, LoginOK, Connected, vars, connVars, taskVars, reqVars
  <2>4. QED
    BY <2>1, <2>2, <2>3 DEF ConnInv, Core
<1>4. QED
  BY <1>1, <1>2, <1>3, ReaderKeeps, BeatKeeps, ConnCloseKeeps DEF Next

\* Every variable keeps its type, and a generation is made only within the bound.
THEOREM TypesHold == ASSUME LoginKeysAreOwn, LaterKeysAreOwn PROVE Spec => []TypeOK
<1>1. ConnInv => TypeOK
  BY DEF ConnInv, Core
<1>2. QED
  BY <1>1, ConnInit, ConnStep, PTL DEF Spec

\* A connection is up only after its own login was answered in its generation,
\* whatever frames come late, twice or without keys.
THEOREM UpMeansLoggedIn ==
    ASSUME LoginKeysAreOwn, LaterKeysAreOwn PROVE Spec => []ConnectedMeansLoggedIn
<1>1. ConnInv => ConnectedMeansLoggedIn
  BY DEF ConnInv, LoginOK, ConnectedMeansLoggedIn
<1>2. QED
  BY <1>1, ConnInit, ConnStep, PTL DEF Spec

\* No timeout, failure or close leaves a route behind, and a request that waits
\* has one.
THEOREM RoutesStayLive ==
    ASSUME LoginKeysAreOwn, LaterKeysAreOwn PROVE Spec => []RoutesAreLive
<1>1. ConnInv => RoutesAreLive
  BY DEF ConnInv, ReqInv, RoutesOK, FuturesOK, RoutesAreLive
<1>2. QED
  BY <1>1, ConnInit, ConnStep, PTL DEF Spec

\* An answer with keys goes to a request that has one of them.
THEOREM AnswersMatch ==
    ASSUME LoginKeysAreOwn, LaterKeysAreOwn PROVE Spec => []KeyedAnswersMatch
<1>1. ConnInv => KeyedAnswersMatch
  <2> SUFFICES ASSUME ConnInv, NEW r \in Reqs, fut[r] \in Reqs
               PROVE  \E i \in DOMAIN KeysOf[r], j \in DOMAIN KeysOf[fut[r]] :
                          KeysOf[r][i] = KeysOf[fut[r]][j]
    BY DEF KeyedAnswersMatch
  <2>1. PICK k : k \in KeySet(r) /\ k \in KeySet(fut[r])
    BY DEF ConnInv, ReqInv, FuturesOK
  <2>2. QED
    BY <2>1 DEF KeySet
<1>2. QED
  BY <1>1, ConnInit, ConnStep, PTL DEF Spec

\* connect leaves no transport open that is not logged in.
THEOREM ConnectCleansUp ==
    ASSUME LoginKeysAreOwn, LaterKeysAreOwn PROVE Spec => []NoHalfOpenConnection
<1>1. ConnInv => NoHalfOpenConnection
  BY DEF ConnInv, Core, PhaseOK, NoHalfOpenConnection
<1>2. QED
  BY <1>1, ConnInit, ConnStep, PTL DEF Spec
=============================================================================
