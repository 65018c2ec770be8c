---------------------------- MODULE EntryProofs ----------------------------
(***************************************************************************)
(* What holds of the entries for any number of entries, families and flows. *)
(***************************************************************************)
EXTENDS ConfigFlow, TLAPS

\* What the proofs need to know of the types.
Resources == [coordinator : BOOLEAN, runtime : BOOLEAN, listeners : Int,
              handle : BOOLEAN, bus : BOOLEAN, platforms : {"none", "up", "stuck"}]

EntryTypes ==
    /\ own \in [Entries -> Resources]
    /\ at \in [Entries -> Awaits]
    /\ state \in [Entries -> States]
    /\ service \in BOOLEAN

\* No resources but platforms that would not unload, and perhaps a coordinator.
Clean(r, coordinator) ==
    /\ r.coordinator = coordinator /\ ~r.runtime /\ r.listeners = 0
    /\ ~r.handle /\ ~r.bus /\ r.platforms # "up"

\* Everything a loaded entry has.
Complete(r) ==
    /\ r.coordinator /\ r.runtime /\ r.listeners = 1 /\ r.platforms = "up"
    /\ r.bus => r.handle

\* The resources of an entry at each await of its setup and unload.
Fits(where, s, r) ==
    /\ where = "idle" /\ s \in {"loaded", "failed_unload"} => Complete(r)
    /\ where = "idle" /\ s \notin {"loaded", "failed_unload"} => Clean(r, FALSE)
    /\ where \in {"coordinator", "cleanup_auth", "cleanup_retry", "undo_cleanup"} => Clean(r, TRUE)
    /\ where \in {"platforms", "undo_platforms"} => Complete(r) /\ ~r.handle /\ ~r.bus
    /\ where = "unload_platforms" => Complete(r)
    /\ where = "unload_cleanup" =>
          /\ r.coordinator /\ r.runtime /\ r.listeners = 0 /\ r.platforms = "none"
          /\ ~r.handle /\ ~r.bus

AtEachAwait == \A e \in Entries : Fits(at[e], state[e], own[e])

EntryInv == EntryTypes /\ AtEachAwait /\ ServiceWhileNeeded

\* What an entry has once it is registered, undone, or its listeners are dropped.
LEMMA Registering ==
    ASSUME NEW r \in Resources, NEW q, q = [r EXCEPT !.listeners = @ + 1, !.runtime = TRUE]
    PROVE  /\ q \in Resources /\ q.coordinator = r.coordinator /\ q.runtime = TRUE
           /\ q.listeners = r.listeners + 1 /\ q.handle = r.handle /\ q.bus = r.bus
           /\ q.platforms = r.platforms
<1> DEFINE n == r.listeners + 1
<1>1. n \in Int
  BY DEF Resources
<1>2. q = [r EXCEPT !.listeners = n, !.runtime = TRUE]
  OBVIOUS
<1> HIDE DEF n
<1>3. /\ q \in Resources /\ q.coordinator = r.coordinator /\ q.runtime = TRUE /\ q.listeners = n
      /\ q.handle = r.handle /\ q.bus = r.bus /\ q.platforms = r.platforms
  BY <1>1, <1>2 DEF Resources
<1>4. QED
  BY <1>3 DEF n

LEMMA Undoing ==
    ASSUME NEW r \in Resources
    PROVE  LET q == Undone(r) IN
           /\ q \in Resources /\ q.coordinator = r.coordinator /\ q.runtime = FALSE
           /\ q.listeners = r.listeners - 1 /\ q.handle = FALSE /\ q.bus = FALSE
           /\ q.platforms = r.platforms
<1> DEFINE u == UndoneButListener(r)
           n == u.listeners - 1
           q == [u EXCEPT !.listeners = n]
<1>1. /\ u \in Resources /\ u.coordinator = r.coordinator /\ u.runtime = FALSE
      /\ u.listeners = r.listeners /\ u.handle = FALSE /\ u.bus = FALSE /\ u.platforms = r.platforms
  BY DEF UndoneButListener, Resources
<1>2. Undone(r) = q
  BY DEF Undone
<1> HIDE DEF u
<1>3. n \in Int /\ n = r.listeners - 1
  BY <1>1 DEF Resources
<1> HIDE DEF n
<1>4. /\ q \in Resources /\ q.coordinator = u.coordinator /\ q.runtime = u.runtime
      /\ q.listeners = n /\ q.handle = u.handle /\ q.bus = u.bus /\ q.platforms = u.platforms
  BY <1>1, <1>3 DEF Resources
<1> HIDE DEF q
<1>5. QED
  BY <1>1, <1>2, <1>3, <1>4

LEMMA Dropping ==
    ASSUME NEW r \in Resources
    PROVE  LET q == DropListeners(r) IN
           /\ q \in Resources /\ q.coordinator = r.coordinator /\ q.runtime = r.runtime
           /\ q.listeners = r.listeners - 1 /\ q.handle = FALSE /\ q.bus = FALSE
           /\ q.platforms = "none"
<1> DEFINE n == r.listeners - 1
           q == [r EXCEPT !.platforms = "none", !.handle = FALSE, !.bus = FALSE, !.listeners = n]
<1>1. n \in Int
  BY DEF Resources
<1>2. DropListeners(r) = q
  BY DEF DropListeners
<1> HIDE DEF n
<1>3. /\ q \in Resources /\ q.coordinator = r.coordinator /\ q.runtime = r.runtime
      /\ q.listeners = n /\ q.handle = FALSE /\ q.bus = FALSE /\ q.platforms = "none"
  BY <1>1 DEF Resources
<1> HIDE DEF q
<1>4. QED
  BY <1>2, <1>3 DEF n

\* The step of one entry e: its resources are r afterwards, the others keep theirs.
Moves(e, where, s, r) ==
    /\ where \in Awaits /\ s \in States /\ r \in Resources
    /\ at' = [at EXCEPT ![e] = where]
    /\ state' = [state EXCEPT ![e] = s]
    /\ own' = [own EXCEPT ![e] = r]

LEMMA MovesKeepsTypes ==
    ASSUME EntryTypes, AtEachAwait, NEW e \in Entries, NEW where, NEW s, NEW r,
           Moves(e, where, s, r), Fits(where, s, r), service' \in BOOLEAN
    PROVE  /\ EntryTypes' /\ AtEachAwait'
           /\ own'[e] = r
           /\ \A d \in Entries \ {e} : own'[d] = own[d]
<1>1. /\ own'[e] = r /\ at'[e] = where /\ state'[e] = s
      /\ \A d \in Entries \ {e} : own'[d] = own[d] /\ at'[d] = at[d] /\ state'[d] = state[d]
  BY DEF Moves, EntryTypes
<1>2. EntryTypes'
  BY DEF Moves, EntryTypes
<1>3. AtEachAwait'
  BY <1>1 DEF AtEachAwait
<1>4. QED
  BY <1>1, <1>2, <1>3

\* An entry that has runtime data after a step as before leaves the service.
LEMMA SameService ==
    ASSUME EntryInv, NEW e \in Entries, NEW where, NEW s, NEW r, Moves(e, where, s, r),
           Fits(where, s, r), r.runtime = own[e].runtime, UNCHANGED service
    PROVE  EntryInv'
<1>1. service' \in BOOLEAN
  BY DEF EntryInv, EntryTypes
<1>2. EntryTypes' /\ AtEachAwait' /\ \A d \in Entries : own'[d].runtime = own[d].runtime
  BY <1>1, MovesKeepsTypes DEF EntryInv
<1>3. QED
  BY <1>2 DEF EntryInv, ServiceWhileNeeded

\* One that gives its runtime data up takes the service with it if it is the last.
LEMMA LeavesService ==
    ASSUME EntryInv, NEW e \in Entries, NEW where, NEW s, NEW r, Moves(e, where, s, r),
           Fits(where, s, r), ~r.runtime, service' = ServiceWithout(e)
    PROVE  EntryInv'
<1>1. service' \in BOOLEAN
  BY DEF EntryInv, EntryTypes, ServiceWithout, OthersLoaded
<1>2. /\ EntryTypes' /\ AtEachAwait' /\ own'[e] = r
      /\ \A d \in Entries \ {e} : own'[d] = own[d]
  BY <1>1, MovesKeepsTypes DEF EntryInv
<1>3. service' <=> OthersLoaded(e)
  BY DEF EntryInv, ServiceWhileNeeded, ServiceWithout, OthersLoaded
<1>4. QED
  BY <1>2, <1>3 DEF EntryInv, ServiceWhileNeeded, OthersLoaded
-----------------------------------------------------------------------------
\* A setup begins only with nothing left, and ends at once or is at its first await.
LEMMA BeginKeeps ==
    ASSUME EntryInv, NEW e \in Entries, BeginSetup(e), UNCHANGED service,
           at[e] = "idle", state[e] \notin {"loaded", "failed_unload"}
    PROVE  EntryInv'
<1>1. Clean(own[e], FALSE) /\ own[e] \in Resources /\ state[e] \in States
  BY DEF EntryInv, AtEachAwait, Fits, EntryTypes
<1>2. CASE entry[e].version > 3
  <2>1. Moves(e, "idle", "migration_error", own[e])
    BY <1>1, <1>2 DEF BeginSetup, EndIn, Goto, Become, Moves, Awaits, States, EntryInv, EntryTypes
  <2>2. Fits("idle", "migration_error", own[e])
    BY <1>1 DEF Fits
  <2>3. QED
    BY <2>1, <2>2, SameService
<1>3. CASE ~(entry[e].version > 3)
  <2> DEFINE r == [own[e] EXCEPT !.coordinator = TRUE]
  <2>1. r \in Resources /\ Clean(r, TRUE) /\ r.runtime = own[e].runtime
    BY <1>1 DEF Resources, Clean
  <2>2. Moves(e, "coordinator", state[e], r)
    BY <1>1, <1>3, <2>1 DEF BeginSetup, Goto, Moves, Awaits, EntryInv, EntryTypes
  <2>3. Fits("coordinator", state[e], r)
    BY <2>1 DEF Fits
  <2> HIDE DEF r
  <2>4. QED
    BY <2>1, <2>2, <2>3, SameService
<1>4. QED
  BY <1>2, <1>3

\* Each step of a setup, reload or unload.
LEMMA ProgressKeeps == ASSUME EntryInv, NEW e \in Entries, Progress(e) PROVE EntryInv'
<1>0. own[e] \in Resources /\ at[e] \in Awaits /\ state[e] \in States /\ Fits(at[e], state[e], own[e])
  BY DEF EntryInv, EntryTypes, AtEachAwait
<1>t. /\ own = [own EXCEPT ![e] = own[e]] /\ state = [state EXCEPT ![e] = state[e]]
      /\ at = [at EXCEPT ![e] = at[e]]
  BY DEF EntryInv, EntryTypes
<1>1. CASE Setup(e)
  BY <1>1, BeginKeeps DEF Setup
<1>2. CASE Reload(e)
  <2>1. CASE state[e] = "loaded"
    <3>1. Moves(e, "unload_platforms", state[e], own[e])
      BY <1>0, <1>t, <1>2, <2>1 DEF Reload, Goto, Moves, Awaits
    <3>2. Fits("unload_platforms", state[e], own[e])
      BY <1>0, <1>2, <2>1 DEF Fits, Reload
    <3>3. QED
      BY <1>2, <3>1, <3>2, SameService DEF Reload
  <2>2. CASE state[e] \in {"failed_unload", "migration_error"}
    <3>1. Moves(e, at[e], state[e], own[e])
      BY <1>0, <1>t, <1>2, <2>2 DEF Reload, Moves
    <3>2. QED
      BY <1>0, <1>2, <3>1, SameService DEF Reload
  <2>3. CASE state[e] \notin {"loaded", "failed_unload", "migration_error"}
    BY <1>2, <2>3, BeginKeeps DEF Reload
  <2>4. QED
    BY <2>1, <2>2, <2>3
<1>3. ASSUME NEW how \in {"cleanup_auth", "cleanup_retry"}, CoordinatorFails(e, how) PROVE EntryInv'
  <2>1. Moves(e, how, state[e], own[e])
    BY <1>0, <1>t, <1>3 DEF CoordinatorFails, Goto, Moves, Awaits
  <2>2. Fits(how, state[e], own[e])
    BY <1>0, <1>3 DEF Fits, CoordinatorFails
  <2>3. QED
    BY <1>3, <2>1, <2>2, SameService DEF CoordinatorFails
<1>4. CASE CoordinatorCleaned(e)
  <2> DEFINE r == [own[e] EXCEPT !.coordinator = FALSE]
             s == IF at[e] = "cleanup_auth" THEN "setup_error" ELSE "setup_retry"
  <2>1. r \in Resources /\ Clean(r, FALSE) /\ r.runtime = own[e].runtime
    BY <1>0, <1>4 DEF CoordinatorCleaned, Fits, Resources, Clean
  <2>2. Moves(e, "idle", s, r)
    BY <1>4, <2>1 DEF CoordinatorCleaned, EndIn, Goto, Become, Moves, Awaits, States,
                      EntryInv, EntryTypes
  <2>3. Fits("idle", s, r)
    BY <2>1 DEF Fits
  <2> HIDE DEF r, s
  <2>4. QED
    BY <1>4, <2>1, <2>2, <2>3, SameService DEF CoordinatorCleaned
<1>5. ASSUME NEW raises \in BOOLEAN, Register(e, raises) PROVE EntryInv'
  <2> DEFINE reg == [own[e] EXCEPT !.listeners = @ + 1, !.runtime = TRUE]
             r == IF raises THEN Undone(reg) ELSE [reg EXCEPT !.platforms = "up"]
             where == IF raises THEN "undo_cleanup" ELSE "platforms"
  <2>1. at[e] = "coordinator" /\ Clean(own[e], TRUE)
    BY <1>0, <1>5 DEF Register, Fits
  <2>2. CASE raises
    <3>1. r \in Resources /\ Clean(r, TRUE) /\ ~r.runtime
      <4>1. /\ reg \in Resources /\ reg.coordinator /\ reg.listeners = 1
            /\ reg.platforms # "up"
        <5>1. /\ reg \in Resources /\ reg.coordinator = own[e].coordinator
              /\ reg.listeners = own[e].listeners + 1 /\ reg.platforms = own[e].platforms
          BY <1>0, Registering
        <5> HIDE DEF reg
        <5>2. QED
          BY <2>1, <5>1 DEF Clean
      <4> HIDE DEF reg
      <4>2. QED
        <5> DEFINE u == Undone(reg)
        <5>1. /\ u \in Resources /\ u.coordinator = reg.coordinator /\ u.runtime = FALSE
              /\ u.listeners = reg.listeners - 1 /\ u.handle = FALSE /\ u.bus = FALSE
              /\ u.platforms = reg.platforms
          BY <4>1, Undoing
        <5>2. r = u
          BY <2>2
        <5> HIDE DEF u, r
        <5>3. QED
          <6>1. u.coordinator = TRUE /\ u.listeners = 0
            BY <4>1, <5>1 DEF Resources
          <6>2. Clean(u, TRUE)
            BY <4>1, <5>1, <6>1 DEF Clean
          <6>3. QED
            BY <5>1, <5>2, <6>2
    <3>2. Moves(e, where, state[e], r)
      BY <1>0, <1>t, <1>5, <2>2, <3>1 DEF Register, Goto, Moves, Awaits, EntryInv, EntryTypes
    <3>3. Fits(where, state[e], r)
      BY <2>2, <3>1 DEF Fits
    <3>4. service' = ServiceWithout(e)
      BY <1>5, <2>1, <2>2 DEF Register, ServiceWithout, OthersLoaded, EntryInv, ServiceWhileNeeded,
                              EntryTypes
    <3> HIDE DEF r, where
    <3>5. QED
      BY <3>1, <3>2, <3>3, <3>4, LeavesService
  <2>3. CASE ~raises
    <3>1. r \in Resources /\ Complete(r) /\ ~r.handle /\ ~r.bus
      <4>1. r = [coordinator |-> own[e].coordinator, runtime |-> TRUE,
                 listeners |-> own[e].listeners + 1, handle |-> own[e].handle,
                 bus |-> own[e].bus, platforms |-> "up"]
        BY <1>0, <2>3 DEF Resources
      <4> HIDE DEF r
      <4>2. r \in Resources
        BY <1>0, <4>1 DEF Resources
      <4>3. QED
        BY <2>1, <4>1, <4>2 DEF Clean, Complete
    <3>2. Moves(e, where, state[e], r)
      BY <1>0, <1>t, <1>5, <2>3, <3>1 DEF Register, Goto, Moves, Awaits, EntryInv, EntryTypes
    <3>3. Fits(where, state[e], r)
      BY <2>3, <3>1 DEF Fits
    <3>4. service' = TRUE
      BY <1>5, <2>3 DEF Register
    <3> HIDE DEF r, where
    <3>5. /\ EntryTypes' /\ AtEachAwait' /\ own'[e] = r
      BY <3>2, <3>3, <3>4, MovesKeepsTypes DEF EntryInv
    <3>6. QED
      BY <3>1, <3>4, <3>5 DEF EntryInv, ServiceWhileNeeded, Complete
  <2>4. QED
    BY <2>2, <2>3
<1>6. CASE PlatformsUp(e)
  <2> DEFINE r == IF hass = "booting" THEN [own[e] EXCEPT !.handle = TRUE, !.bus = TRUE] ELSE own[e]
  <2>1. r \in Resources /\ Complete(r) /\ r.runtime = own[e].runtime
    BY <1>0, <1>6 DEF PlatformsUp, Fits, Resources, Complete
  <2>2. Moves(e, "idle", "loaded", r)
    BY <1>t, <1>6, <2>1 DEF PlatformsUp, EndIn, Goto, Become, Moves, Awaits, States,
                      EntryInv, EntryTypes
  <2>3. Fits("idle", "loaded", r)
    BY <2>1 DEF Fits
  <2> HIDE DEF r
  <2>4. QED
    BY <1>6, <2>1, <2>2, <2>3, SameService DEF PlatformsUp
<1>7. CASE PlatformsFail(e)
  <2>1. Moves(e, "undo_platforms", state[e], own[e])
    BY <1>0, <1>t, <1>7 DEF PlatformsFail, Goto, Moves, Awaits
  <2>2. Fits("undo_platforms", state[e], own[e])
    BY <1>0, <1>7 DEF Fits, PlatformsFail
  <2>3. QED
    BY <1>7, <2>1, <2>2, SameService DEF PlatformsFail
<1>8. ASSUME NEW ok \in BOOLEAN, UndoPlatforms(e, ok) PROVE EntryInv'
  <2> DEFINE r == [Undone(own[e]) EXCEPT !.platforms = IF ok THEN "none" ELSE "stuck"]
  <2>1. r \in Resources /\ Clean(r, TRUE)
    <3> DEFINE u == Undone(own[e])
    <3>1. u \in Resources /\ u.coordinator /\ ~u.runtime /\ u.listeners = 0 /\ ~u.handle /\ ~u.bus
      <4>1. /\ u \in Resources /\ u.coordinator = own[e].coordinator /\ u.runtime = FALSE
            /\ u.listeners = own[e].listeners - 1 /\ u.handle = FALSE /\ u.bus = FALSE
        BY <1>0, Undoing
      <4> HIDE DEF u
      <4>2. own[e].coordinator /\ own[e].listeners = 1
        BY <1>0, <1>8 DEF UndoPlatforms, Fits, Complete
      <4>3. QED
        BY <4>1, <4>2
    <3> HIDE DEF u
    <3>2. [u EXCEPT !.platforms = IF ok THEN "none" ELSE "stuck"] \in Resources
      BY <3>1 DEF Resources
    <3>3. Clean([u EXCEPT !.platforms = IF ok THEN "none" ELSE "stuck"], TRUE)
      BY <3>1 DEF Resources, Clean
    <3>4. QED
      BY <3>2, <3>3 DEF u
  <2>2. Moves(e, "undo_cleanup", state[e], r)
    BY <1>0, <1>t, <1>8, <2>1 DEF UndoPlatforms, Goto, Moves, Awaits, EntryInv, EntryTypes
  <2>3. Fits("undo_cleanup", state[e], r) /\ ~r.runtime
    BY <2>1 DEF Fits, Clean
  <2> HIDE DEF r
  <2>4. QED
    BY <1>8, <2>1, <2>2, <2>3, LeavesService DEF UndoPlatforms
<1>9. ASSUME NEW ok \in BOOLEAN, PlatformsUnloaded(e, ok) PROVE EntryInv'
  <2>1. CASE ok
    <3> DEFINE r == DropListeners(own[e])
    <3>1. /\ r \in Resources /\ Fits("unload_cleanup", state[e], r)
          /\ r.runtime = own[e].runtime
      <4>1. /\ own[e].coordinator /\ own[e].runtime /\ own[e].listeners = 1
        BY <1>0, <1>9 DEF PlatformsUnloaded, Fits, Complete
      <4>2. /\ r \in Resources /\ r.coordinator = own[e].coordinator
            /\ r.runtime = own[e].runtime /\ r.listeners = own[e].listeners - 1
            /\ r.handle = FALSE /\ r.bus = FALSE /\ r.platforms = "none"
        BY <1>0, Dropping
      <4> HIDE DEF r
      <4>3. QED
        BY <4>1, <4>2 DEF Fits
    <3>2. Moves(e, "unload_cleanup", state[e], r)
      BY <1>0, <1>t, <1>9, <2>1, <3>1 DEF PlatformsUnloaded, Goto, Moves, Awaits,
                                          EntryInv, EntryTypes
    <3> HIDE DEF r
    <3>3. QED
      BY <1>9, <3>1, <3>2, SameService DEF PlatformsUnloaded
  <2>2. CASE ~ok
    <3>1. Moves(e, "idle", "failed_unload", own[e])
      BY <1>0, <1>t, <1>9, <2>2 DEF PlatformsUnloaded, EndIn, Goto, Become, Moves, Awaits, States
    <3>2. Fits("idle", "failed_unload", own[e])
      BY <1>0, <1>9 DEF Fits, PlatformsUnloaded
    <3>3. QED
      BY <1>9, <3>1, <3>2, SameService DEF PlatformsUnloaded
  <2>3. QED
    BY <2>1, <2>2
<1>10. CASE UndoCleanup(e)
  <2> DEFINE r == [own[e] EXCEPT !.coordinator = FALSE]
  <2>1. r \in Resources /\ Clean(r, FALSE) /\ r.runtime = own[e].runtime
    BY <1>0, <1>10 DEF UndoCleanup, Fits, Resources, Clean
  <2>2. Moves(e, "idle", "setup_error", r)
    BY <1>10, <2>1 DEF UndoCleanup, EndIn, Goto, Become, Moves, Awaits, States, EntryInv, EntryTypes
  <2>3. Fits("idle", "setup_error", r)
    BY <2>1 DEF Fits
  <2> HIDE DEF r
  <2>4. QED
    BY <1>10, <2>1, <2>2, <2>3, SameService DEF UndoCleanup
<1>11. CASE UnloadCleanup(e)
  <2> DEFINE r == [own[e] EXCEPT !.coordinator = FALSE, !.runtime = FALSE]
  <2>1. r \in Resources /\ Clean(r, FALSE) /\ ~r.runtime
    BY <1>0, <1>11 DEF UnloadCleanup, Fits, Resources, Clean
  <2>2. Moves(e, "idle", "not_loaded", r)
    BY <1>11, <2>1 DEF UnloadCleanup, EndIn, Goto, Become, Moves, Awaits, States, EntryInv, EntryTypes
  <2>3. Fits("idle", "not_loaded", r)
    BY <2>1 DEF Fits
  <2> HIDE DEF r
  <2>4. QED
    BY <1>11, <2>1, <2>2, <2>3, LeavesService DEF UnloadCleanup
<1>12. QED
  BY <1>1, <1>2, <1>3, <1>4, <1>5, <1>6, <1>7, <1>8, <1>9, <1>10, <1>11 DEF Progress
-----------------------------------------------------------------------------
\* The start of Home Assistant and the listeners that wait for it.
LEMMA StartKeeps ==
    ASSUME EntryInv, Running \/ Started \/ \E e \in Entries : ScheduleAreas(e)
    PROVE  EntryInv'
<1>1. CASE Running
  BY <1>1 DEF Running, EntryInv, EntryTypes, AtEachAwait, ServiceWhileNeeded
<1>2. CASE Started
  <2>1. UNCHANGED <<at, state, service>>
    BY <1>2 DEF Started
  <2>2. \A e \in Entries : /\ own'[e] \in Resources /\ own'[e].runtime = own[e].runtime
                           /\ Fits(at[e], state[e], own'[e])
    <3>1. SUFFICES ASSUME NEW e \in Entries
                   PROVE  /\ own'[e] \in Resources /\ own'[e].runtime = own[e].runtime
                          /\ Fits(at[e], state[e], own'[e])
      OBVIOUS
    <3>2. own'[e] = [own[e] EXCEPT !.bus = FALSE] /\ own[e] \in Resources
      BY <1>2 DEF Started, EntryInv, EntryTypes
    <3>3. Fits(at[e], state[e], own[e])
      BY DEF EntryInv, AtEachAwait
    <3>4. QED
      BY <3>2, <3>3 DEF Fits, Complete, Clean, Resources
  <2>3. own' \in [Entries -> Resources]
    <3>1. own' = [e \in Entries |-> [own[e] EXCEPT !.bus = FALSE]]
      BY <1>2 DEF Started
    <3>2. QED
      BY <2>2, <3>1
  <2>4. EntryTypes' /\ AtEachAwait'
    BY <2>1, <2>2, <2>3 DEF EntryInv, EntryTypes, AtEachAwait
  <2>5. QED
    BY <2>1, <2>2, <2>4 DEF EntryInv, ServiceWhileNeeded
<1>3. ASSUME NEW e \in Entries, ScheduleAreas(e) PROVE EntryInv'
  <2> DEFINE r == [own[e] EXCEPT !.handle = FALSE]
  <2>1. own[e] \in Resources /\ at[e] \in Awaits /\ state[e] \in States /\ Fits(at[e], state[e], own[e])
    BY DEF EntryInv, EntryTypes, AtEachAwait
  <2>2. /\ r \in Resources /\ r.runtime = own[e].runtime /\ Fits(at[e], state[e], r)
    BY <1>3, <2>1 DEF ScheduleAreas, Fits, Complete, Clean, Resources
  <2>3. Moves(e, at[e], state[e], r)
    BY <1>3, <2>1, <2>2 DEF ScheduleAreas, Moves, EntryInv, EntryTypes
  <2> HIDE DEF r
  <2>4. QED
    BY <1>3, <2>2, <2>3, SameService DEF ScheduleAreas
<1>4. QED
  BY <1>1, <1>2, <1>3

\* A flow creates an entry or stores what one is set up with; it takes nothing of one.
LEMMA FlowKeeps == ASSUME EntryInv, NEW f \in Flows, FlowStep(f) PROVE EntryInv'
<1>1. ASSUME NEW e \in Entries, CreateEntry(f, e) PROVE EntryInv'
  <2>1. CASE UNCHANGED <<entry, state>>
    BY <1>1, <2>1 DEF CreateEntry, EntryInv, EntryTypes, AtEachAwait, ServiceWhileNeeded
  <2>2. CASE ~Exists(e) /\ Become(e, "not_loaded")
    <3>1. Fits(at[e], state[e], own[e]) /\ own[e] \in Resources /\ at[e] \in Awaits
      BY DEF EntryInv, EntryTypes, AtEachAwait
    <3>2. Moves(e, at[e], "not_loaded", own[e])
      BY <1>1, <2>2, <3>1 DEF CreateEntry, Become, Moves, States, EntryInv, EntryTypes
    <3>3. Fits(at[e], "not_loaded", own[e])
      BY <2>2, <3>1 DEF Fits, Exists
    <3>4. QED
      BY <1>1, <3>2, <3>3, SameService DEF CreateEntry
  <2>3. QED
    BY <1>1, <2>1, <2>2 DEF CreateEntry
<1>2. ASSUME UNCHANGED <<state, at, own, service>> PROVE EntryInv'
  BY <1>2 DEF EntryInv, EntryTypes, AtEachAwait, ServiceWhileNeeded
<1>3. CASE \E verdict \in {"unasked", "accepted", "rejected"} : PasswordProbed(f, verdict)
  BY <1>2, <1>3 DEF PasswordProbed
<1>4. CASE SelectDevices(f)
  BY <1>2, <1>4 DEF SelectDevices
<1>5. CASE Quiet
  BY <1>2, <1>5 DEF Quiet, lifecycle
<1>6. QED
  BY <1>1, <1>3, <1>4, <1>5
     DEF FlowStep, Start, Submit, CloudFails, CredentialsLoaded, UserProbed, SelectFamily,
         DevicesLoaded, DevicesAgain

LEMMA EntryInit == Init => EntryInv
<1> SUFFICES ASSUME Init PROVE EntryInv
  OBVIOUS
<1>1. NoResources \in Resources /\ Clean(NoResources, FALSE)
  BY DEF NoResources, Resources, Clean
<1>2. EntryTypes
  BY <1>1 DEF Init, EntryTypes, Awaits, States
<1>3. \A e \in Entries : own[e] = NoResources /\ at[e] = "idle" /\ state[e] \in {"not_loaded", "absent"}
  BY DEF Init
<1>4. AtEachAwait
  BY <1>1, <1>3 DEF AtEachAwait, Fits
<1>5. ServiceWhileNeeded
  BY <1>3 DEF Init, ServiceWhileNeeded, NoResources
<1>6. QED
  BY <1>2, <1>4, <1>5 DEF EntryInv

LEMMA EntryStep == EntryInv /\ [Next]_vars => EntryInv'
<1> SUFFICES ASSUME EntryInv, [Next]_vars PROVE EntryInv'
  OBVIOUS
<1>1. CASE LifecycleNext
  BY <1>1, ProgressKeeps, StartKeeps DEF LifecycleNext
<1>2. CASE \E f \in Flows : FlowStep(f)
  BY <1>2, FlowKeeps
<1>3. CASE UNCHANGED vars
  BY <1>3 DEF vars, lifecycle, EntryInv, EntryTypes, AtEachAwait, ServiceWhileNeeded
<1>4. QED
  BY <1>1, <1>2, <1>3 DEF Next

\* The service is there exactly as long as an entry has runtime data, however many
\* entries are set up, undone and unloaded at once.
THEOREM ServiceFollowsEntries == Spec => []ServiceWhileNeeded
<1>1. EntryInv => ServiceWhileNeeded
  BY DEF EntryInv
<1>2. QED
  BY <1>1, EntryInit, EntryStep, PTL DEF Spec

\* An entry that is at rest has everything of a loaded one or nothing, whatever
\* failed on the way and whenever Home Assistant started.
THEOREM NothingHalfSetUp == Spec => []LoadedOrClean
<1>1. EntryInv => LoadedOrClean
  <2> SUFFICES ASSUME EntryInv, NEW e \in Entries
               PROVE  /\ own[e].platforms = "up" => own[e].coordinator /\ own[e].runtime
                      /\ at[e] = "idle" =>
                            IF state[e] \in {"loaded", "failed_unload"}
                              THEN Complete(own[e])
                              ELSE /\ [own[e] EXCEPT !.platforms = "none"] = NoResources
                                   /\ own[e].platforms # "up"
    BY DEF LoadedOrClean, Complete
  <2>1. own[e] \in Resources /\ at[e] \in Awaits /\ Fits(at[e], state[e], own[e])
    BY DEF EntryInv, EntryTypes, AtEachAwait
  <2>2. own[e].platforms = "up" => own[e].coordinator /\ own[e].runtime
    BY <2>1 DEF Fits, Complete, Clean, Awaits
  <2>3. CASE at[e] = "idle" /\ state[e] \notin {"loaded", "failed_unload"}
    <3>1. Clean(own[e], FALSE)
      BY <2>1, <2>3 DEF Fits
    <3>2. [own[e] EXCEPT !.platforms = "none"] = NoResources
      <4>1. [own[e] EXCEPT !.platforms = "none"] =
              [coordinator |-> own[e].coordinator, runtime |-> own[e].runtime,
               listeners |-> own[e].listeners, handle |-> own[e].handle, bus |-> own[e].bus,
               platforms |-> "none"]
        BY <2>1 DEF Resources
      <4>2. /\ own[e].coordinator = FALSE /\ own[e].runtime = FALSE /\ own[e].listeners = 0
            /\ own[e].handle = FALSE /\ own[e].bus = FALSE
        BY <2>1, <3>1 DEF Clean, Resources
      <4>3. QED
        BY <4>1, <4>2 DEF NoResources
    <3>3. QED
      BY <2>2, <2>3, <3>1, <3>2 DEF Clean
  <2>4. CASE at[e] = "idle" /\ state[e] \in {"loaded", "failed_unload"}
    BY <2>1, <2>2, <2>4 DEF Fits
  <2>5. QED
    BY <2>2, <2>3, <2>4
<1>2. QED
  BY <1>1, EntryInit, EntryStep, PTL DEF Spec
=============================================================================
