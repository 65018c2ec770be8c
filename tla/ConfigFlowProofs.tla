-------------------------- MODULE ConfigFlowProofs --------------------------
(***************************************************************************)
(* What the flows keep true of the entries they create and update, for any *)
(* number of entries, families and flows.                                  *)
(***************************************************************************)
EXTENDS EntryProofs

\* The steps of a flow that adds an entry, of one that changes an entry, those at
\* which the devices of an entry are listed, and those that have a password.
UserSteps == {"user", "user_cloud", "user_probe", "select_family", "devices_cloud", "devices"}
ListSteps == {"options_devices", "options_devices_cloud"}
EntrySteps == {"reauth", "reauth_cloud", "reauth_probe", "options_reauth", "options_reauth_cloud",
               "options_reauth_probe"} \union ListSteps
Submitted == {"user_cloud", "user_probe", "select_family", "devices_cloud", "devices", "reauth_cloud",
              "reauth_probe", "options_reauth_cloud", "options_reauth_probe"}

FlowRecord == [step : Forms \union Calls \union {"none", "done"}, target : Entries \union {None},
               password : Passwords \union {None}, family : Families \union {None},
               devices : Families \union {None}]

\* The data of an entry are of its own family: its selections, and from version 3
\* on its unique id, if it has one.
Consistent(d) ==
    d.family # None =>
        /\ d.old \in {None, d.family} /\ d.selected \in {None, d.family}
        /\ d.version >= 3 => d.scope \in {None, d.family}

\* What a flow w knows at each step: an entry that exists, the password that was
\* submitted, and devices of the family it is about.
Informed(w) ==
    /\ w.step \in EntrySteps => w.target \in Entries
    /\ w.step \in Submitted => w.password \in Passwords
    /\ w.step \in UserSteps => w.target = None
    /\ w.step \in UserSteps \ {"devices"} => w.devices = None
    /\ w.step = "devices" => w.devices \in {None, w.family}

\* And of the entry d it changes: the family the devices are listed from.
About(w, d) ==
    w.step \in ListSteps /\ d.family # None =>
        w.family = d.family /\ w.devices \in {None, d.family}

\* A flow was started.
Begun == \E f \in Flows : flow[f].step # "none"

DataInv ==
    /\ entry \in [Entries -> Data]
    /\ \A e \in Entries : Consistent(entry[e])
    /\ OneEntryPerFamily
    /\ Begun => \A e \in Entries : Exists(e) => entry[e].version >= 3

FlowInv ==
    /\ flow \in [Flows -> FlowRecord]
    /\ \A f \in Flows : Informed(flow[f])
    /\ \A f \in Flows : flow[f].step \in EntrySteps =>
          Exists(flow[f].target) /\ About(flow[f], entry[flow[f].target])

\* Only entries that exist are set up, or asked to be reloaded.
TurnInv ==
    /\ reloads \in [Entries -> Nat]
    /\ stale \in [Entries -> BOOLEAN]
    /\ hass \in {"booting", "starting", "started"}
    /\ \A e \in Entries : reloads[e] > 0 \/ at[e] # "idle" => Exists(e)

ConfigInv == EntryInv /\ TurnInv /\ DataInv /\ FlowInv
-----------------------------------------------------------------------------
\* A migration keeps the family, and brings the unique id and the selection in order.
LEMMA MigratedKeeps ==
    ASSUME NEW d \in Data, d.version <= 3, Consistent(d)
    PROVE  /\ Migrated(d) \in Data /\ Migrated(d).family = d.family /\ Migrated(d).version = 3
           /\ Consistent(Migrated(d)) /\ (Migrated(d).scope # None => d.scope # None)
<1>1. CASE d.version = 3
  BY <1>1 DEF Migrated
<1>2. CASE d.version # 3
  <2> DEFINE scope == IF d.scope # None /\ d.family # None THEN d.family ELSE d.scope
             selected == IF d.selected = None THEN d.old ELSE d.selected
             m == [d EXCEPT !.version = 3, !.scope = scope, !.selected = selected, !.old = None]
  <2>1. Migrated(d) = m
    BY <1>2 DEF Migrated
  <2>2. scope \in Scopes /\ selected \in Families \union {None}
    BY DEF Data, Scopes
  <2>3. /\ d.family # None => scope \in {None, d.family} /\ selected \in {None, d.family}
        /\ scope # None => d.scope # None
    BY DEF Consistent
  <2> HIDE DEF scope, selected
  <2>4. /\ m \in Data /\ m.version = 3 /\ m.family = d.family /\ m.scope = scope
        /\ m.selected = selected /\ m.old = None
    <3>1. 3 \in 2..4
      OBVIOUS
    <3>2. QED
      BY <2>2, <3>1 DEF Data
  <2> HIDE DEF m
  <2>5. QED
    BY <2>1, <2>3, <2>4 DEF Consistent
<1>3. QED
  BY <1>1, <1>2

LEMMA ListenersCount == ASSUME EntryInv, NEW e \in Entries PROVE own[e].listeners \in Nat
<1>1. Fits(at[e], state[e], own[e]) /\ at[e] \in Awaits
  BY DEF EntryInv, EntryTypes, AtEachAwait
<1>2. own[e].listeners \in {0, 1}
  BY <1>1 DEF Fits, Complete, Clean, Awaits
<1>3. QED
  BY <1>2

\* What a step of the setup or unload of e leaves to the turns of the entries.
LEMMA TurnOf ==
    ASSUME EntryInv, TurnInv, NEW e \in Entries, Exists(e), NEW s, s # "absent", NEW where,
           NEW n \in Nat, state' = [state EXCEPT ![e] = s], at' = [at EXCEPT ![e] = where],
           reloads' = [reloads EXCEPT ![e] = n], stale' \in [Entries -> BOOLEAN], hass' = hass
    PROVE  TurnInv' /\ \A d \in Entries : Exists(d)' <=> Exists(d)
<1>1. /\ state'[e] # "absent"
      /\ \A d \in Entries \ {e} : state'[d] = state[d] /\ at'[d] = at[d] /\ reloads'[d] = reloads[d]
  BY DEF EntryInv, EntryTypes, TurnInv
<1>2. reloads' \in [Entries -> Nat]
  BY DEF TurnInv
<1>3. \A d \in Entries : Exists(d)' <=> Exists(d)
  BY <1>1 DEF Exists
<1>4. \A d \in Entries : reloads'[d] > 0 \/ at'[d] # "idle" => Exists(d)'
  BY <1>1, <1>3 DEF TurnInv
<1>5. QED
  BY <1>2, <1>3, <1>4 DEF TurnInv

\* What is stored of an entry changes by its migration only while it is set up.
OnlyMigrates ==
    /\ entry' \in [Entries -> Data]
    /\ \A e \in Entries : \/ entry'[e] = entry[e]
                          \/ entry[e].version <= 3 /\ entry'[e] = Migrated(entry[e])

LEMMA BeginEffect ==
    ASSUME EntryInv, TurnInv, DataInv, NEW e \in Entries, Exists(e), BeginSetup(e),
           NEW n \in Nat, reloads' = [reloads EXCEPT ![e] = n], hass' = hass
    PROVE  TurnInv' /\ OnlyMigrates /\ \A d \in Entries : Exists(d)' <=> Exists(d)
<1>0. /\ entry[e] \in Data /\ Consistent(entry[e]) /\ entry \in [Entries -> Data]
      /\ state \in [Entries -> States] /\ stale \in [Entries -> BOOLEAN] /\ state[e] # "absent"
  BY DEF EntryInv, EntryTypes, DataInv, TurnInv, Exists
<1>1. CASE entry[e].version > 3
  <2>1. /\ at' = [at EXCEPT ![e] = "idle"] /\ state' = [state EXCEPT ![e] = "migration_error"]
        /\ entry' = entry /\ stale' = stale
    BY <1>1 DEF BeginSetup, EndIn, Goto, Become
  <2>2. TurnInv' /\ \A d \in Entries : Exists(d)' <=> Exists(d)
    BY <1>0, <2>1, TurnOf
  <2>3. QED
    BY <1>0, <2>1, <2>2 DEF OnlyMigrates
<1>2. CASE ~(entry[e].version > 3)
  <2>1. /\ entry' = [entry EXCEPT ![e] = Migrated(entry[e])] /\ stale' = [stale EXCEPT ![e] = FALSE]
        /\ at' = [at EXCEPT ![e] = "coordinator"] /\ state' = state
    BY <1>2 DEF BeginSetup, Goto, ReadCredentials
  <2>2. entry[e].version <= 3
    BY <1>0, <1>2 DEF Data
  <2>3. Migrated(entry[e]) \in Data
    BY <1>0, <2>2, MigratedKeeps
  <2>4. state' = [state EXCEPT ![e] = state[e]] /\ stale' \in [Entries -> BOOLEAN]
    BY <1>0, <2>1
  <2>5. TurnInv' /\ \A d \in Entries : Exists(d)' <=> Exists(d)
    BY <1>0, <2>1, <2>4, TurnOf
  <2>6. OnlyMigrates
    BY <1>0, <2>1, <2>2, <2>3 DEF OnlyMigrates
  <2>7. QED
    BY <2>5, <2>6
<1>3. QED
  BY <1>1, <1>2

\* The steps of setups, unloads and reloads, and of the start of Home Assistant.
LEMMA LifecycleEffect ==
    ASSUME EntryInv, TurnInv, DataInv, LifecycleNext
    PROVE  TurnInv' /\ OnlyMigrates /\ \A d \in Entries : Exists(d)' <=> Exists(d)
<1>1. ASSUME NEW e \in Entries, Progress(e)
      PROVE  TurnInv' /\ OnlyMigrates /\ \A d \in Entries : Exists(d)' <=> Exists(d)
  <2>0. /\ state \in [Entries -> States] /\ at \in [Entries -> Awaits] /\ entry \in [Entries -> Data]
        /\ stale \in [Entries -> BOOLEAN] /\ reloads \in [Entries -> Nat]
        /\ at[e] # "idle" \/ reloads[e] > 0 => Exists(e)
    BY DEF EntryInv, EntryTypes, TurnInv, DataInv
  <2>t. /\ state = [state EXCEPT ![e] = state[e]] /\ at = [at EXCEPT ![e] = at[e]]
        /\ reloads = [reloads EXCEPT ![e] = reloads[e]]
    BY <2>0
  <2>n. reloads[e] \in Nat
    BY <2>0
  <2>1. CASE Setup(e)
    <3>1. Exists(e) /\ BeginSetup(e) /\ reloads' = reloads /\ hass' = hass
      BY <2>1 DEF Setup, Exists
    <3>2. QED
      BY <2>n, <2>t, <3>1, BeginEffect
  <2>2. CASE Reload(e)
    <3>1. Exists(e) /\ reloads[e] > 0 /\ at[e] = "idle" /\ hass' = hass
      BY <2>0, <2>2 DEF Reload
    <3>2. CASE state[e] = "loaded"
      <4>1. at' = [at EXCEPT ![e] = "unload_platforms"] /\ UNCHANGED <<entry, state, reloads, stale>>
        BY <2>2, <3>2 DEF Reload, Goto
      <4>2. OnlyMigrates /\ state' = [state EXCEPT ![e] = state[e]] /\ state[e] # "absent"
            /\ reloads' = [reloads EXCEPT ![e] = reloads[e]] /\ stale' \in [Entries -> BOOLEAN]
        BY <2>0, <2>t, <3>1, <4>1 DEF OnlyMigrates, Exists
      <4>3. QED
        BY <2>n, <3>1, <4>1, <4>2, TurnOf
    <3>3. CASE state[e] \in {"failed_unload", "migration_error"}
      <4>1. reloads' = [reloads EXCEPT ![e] = reloads[e] - 1] /\ UNCHANGED <<entry, state, at, stale>>
        BY <2>2, <3>3 DEF Reload
      <4>2. reloads[e] - 1 \in Nat
        BY <2>n, <3>1
      <4>3. OnlyMigrates /\ state' = [state EXCEPT ![e] = state[e]] /\ state[e] # "absent"
            /\ at' = [at EXCEPT ![e] = at[e]] /\ stale' \in [Entries -> BOOLEAN]
        BY <2>0, <2>t, <3>1, <4>1 DEF OnlyMigrates, Exists
      <4>4. QED
        BY <3>1, <4>1, <4>2, <4>3, TurnOf
    <3>4. CASE state[e] \notin {"loaded", "failed_unload", "migration_error"}
      <4>1. reloads' = [reloads EXCEPT ![e] = reloads[e] - 1] /\ BeginSetup(e)
        BY <2>2, <3>4 DEF Reload
      <4>2. reloads[e] - 1 \in Nat
        BY <2>n, <3>1
      <4>3. QED
        BY <3>1, <4>1, <4>2, BeginEffect
    <3>5. QED
      BY <3>2, <3>3, <3>4
  <2>3. CASE at[e] # "idle" /\ ~Setup(e) /\ ~Reload(e)
    <3>1. /\ Exists(e) /\ UNCHANGED <<entry, reloads, stale, hass>>
          /\ \E where, s : /\ s # "absent" /\ state' = [state EXCEPT ![e] = s]
                           /\ at' = [at EXCEPT ![e] = where]
      <4>1. Exists(e)
        BY <2>0, <2>3
      <4>2. CASE \E how \in {"cleanup_auth", "cleanup_retry"} : CoordinatorFails(e, how)
        BY <2>t, <4>1, <4>2 DEF CoordinatorFails, Goto, Exists
      <4>3. CASE CoordinatorCleaned(e)
        <5> DEFINE s == IF at[e] = "cleanup_auth" THEN "setup_error" ELSE "setup_retry"
        <5>1. /\ at' = [at EXCEPT ![e] = "idle"] /\ state' = [state EXCEPT ![e] = s] /\ s # "absent"
              /\ UNCHANGED <<entry, reloads, stale, hass>>
          BY <4>3 DEF CoordinatorCleaned, EndIn, Goto, Become
        <5> HIDE DEF s
        <5>2. QED
          BY <4>1, <5>1
      <4>4. CASE \E raises \in BOOLEAN : Register(e, raises)
        BY <2>t, <4>1, <4>4 DEF Register, Goto, Exists
      <4>5. CASE PlatformsUp(e)
        BY <4>1, <4>5 DEF PlatformsUp, EndIn, Goto, Become
      <4>6. CASE PlatformsFail(e)
        BY <2>t, <4>1, <4>6 DEF PlatformsFail, Goto, Exists
      <4>7. CASE \E ok \in BOOLEAN : UndoPlatforms(e, ok)
        BY <2>t, <4>1, <4>7 DEF UndoPlatforms, Goto, Exists
      <4>8. CASE \E ok \in BOOLEAN : PlatformsUnloaded(e, ok)
        BY <2>t, <4>1, <4>8 DEF PlatformsUnloaded, EndIn, Goto, Become, Exists
      <4>9. CASE UndoCleanup(e) \/ UnloadCleanup(e)
        BY <4>1, <4>9 DEF UndoCleanup, UnloadCleanup, EndIn, Goto, Become
      <4>10. QED
        BY <1>1, <2>3, <4>2, <4>3, <4>4, <4>5, <4>6, <4>7, <4>8, <4>9 DEF Progress
    <3>2. OnlyMigrates /\ reloads' = [reloads EXCEPT ![e] = reloads[e]] /\ stale' \in [Entries -> BOOLEAN]
      BY <2>0, <2>t, <3>1 DEF OnlyMigrates
    <3>3. PICK where, s : /\ s # "absent" /\ state' = [state EXCEPT ![e] = s]
                          /\ at' = [at EXCEPT ![e] = where]
      BY <3>1
    <3>4. QED
      BY <2>n, <3>1, <3>2, <3>3, TurnOf
  <2>4. Setup(e) \/ Reload(e) \/ at[e] # "idle"
    BY <1>1 DEF Progress, CoordinatorFails, CoordinatorCleaned, Register, PlatformsUp, PlatformsFail,
                UndoPlatforms, PlatformsUnloaded, UndoCleanup, UnloadCleanup
  <2>5. QED
    BY <2>1, <2>2, <2>3, <2>4
<1>2. CASE Running \/ Started \/ \E e \in Entries : ScheduleAreas(e)
  <2>1. UNCHANGED <<entry, state, at, reloads, stale>> /\ hass' \in {"booting", "starting", "started"}
    BY <1>2 DEF Running, Started, ScheduleAreas, TurnInv
  <2>2. QED
    BY <2>1 DEF TurnInv, OnlyMigrates, DataInv, Exists
<1>3. QED
  BY <1>1, <1>2 DEF LifecycleNext
-----------------------------------------------------------------------------
\* An entry is changed, not created.
LEMMA DataKeeps ==
    ASSUME DataInv, entry' \in [Entries -> Data],
           \A e \in Entries : /\ Exists(e)' <=> Exists(e)
                              /\ Consistent(entry'[e]) /\ entry'[e].family = entry[e].family
                              /\ entry'[e].scope # None => entry[e].scope # None
                              /\ entry[e].version >= 3 => entry'[e].version >= 3,
           Begun' => Begun \/ \A e \in Entries : Exists(e) => entry[e].version >= 3
    PROVE  DataInv'
<1>1. OneEntryPerFamily'
  BY DEF DataInv, OneEntryPerFamily
<1>2. Begun' => \A e \in Entries : Exists(e)' => entry'[e].version >= 3
  BY DEF DataInv
<1>3. QED
  BY <1>1, <1>2 DEF DataInv

\* The flow f takes a step; what the others know of their entries stays true.
LEMMA FlowsKeep ==
    ASSUME FlowInv, NEW f \in Flows, NEW w \in FlowRecord, Informed(w), flow' = [flow EXCEPT ![f] = w],
           w.step \in EntrySteps => Exists(w.target)' /\ About(w, entry'[w.target]),
           \A e \in Entries : Exists(e) => Exists(e)' /\ entry'[e].family = entry[e].family
    PROVE  FlowInv'
<1>1. flow'[f] = w /\ \A g \in Flows \ {f} : flow'[g] = flow[g]
  BY DEF FlowInv
<1>2. flow' \in [Flows -> FlowRecord] /\ \A g \in Flows : Informed(flow'[g])
  BY <1>1 DEF FlowInv
<1>3. ASSUME NEW g \in Flows \ {f}, flow[g].step \in EntrySteps
      PROVE  Exists(flow[g].target)' /\ About(flow[g], entry'[flow[g].target])
  <2>1. /\ flow[g].target \in Entries /\ Exists(flow[g].target)
        /\ About(flow[g], entry[flow[g].target])
    BY <1>3 DEF FlowInv, Informed
  <2>2. QED
    BY <2>1 DEF About
<1>4. \A g \in Flows : flow'[g].step \in EntrySteps =>
          state'[flow'[g].target] # "absent" /\ About(flow'[g], entry'[flow'[g].target])
  BY <1>1, <1>3 DEF Exists
<1>5. QED
  BY <1>2, <1>4 DEF FlowInv, Exists

\* A setup, unload or reload is no matter of the flows.
LEMMA LifecycleKeeps ==
    ASSUME ConfigInv, LifecycleNext, UNCHANGED flow PROVE ConfigInv'
<1>1. EntryInv'
  BY EntryStep DEF Next, NoFlowMoves, ConfigInv
<1>2. TurnInv' /\ OnlyMigrates /\ \A e \in Entries : Exists(e)' <=> Exists(e)
  BY LifecycleEffect DEF ConfigInv
<1>3. ASSUME NEW e \in Entries
      PROVE  /\ Consistent(entry'[e]) /\ entry'[e].family = entry[e].family
             /\ entry'[e].scope # None => entry[e].scope # None
             /\ entry[e].version >= 3 => entry'[e].version >= 3
  <2>1. entry[e] \in Data /\ Consistent(entry[e])
    BY DEF ConfigInv, DataInv
  <2>2. CASE entry'[e] = entry[e]
    BY <2>1, <2>2
  <2>3. CASE entry[e].version <= 3 /\ entry'[e] = Migrated(entry[e])
    BY <2>1, <2>3, MigratedKeeps
  <2>4. QED
    BY <1>2, <2>2, <2>3 DEF OnlyMigrates
<1>4. entry' \in [Entries -> Data] /\ (Begun' => Begun)
  BY <1>2 DEF OnlyMigrates, Begun
<1>5. DataInv'
  BY <1>2, <1>3, <1>4, DataKeeps DEF ConfigInv
<1>6. FlowInv'
  <2>1. ASSUME NEW g \in Flows, flow[g].step \in EntrySteps
        PROVE  state'[flow[g].target] # "absent" /\ About(flow[g], entry'[flow[g].target])
    <3>1. /\ flow[g].target \in Entries /\ Exists(flow[g].target)
          /\ About(flow[g], entry[flow[g].target])
      BY <2>1 DEF ConfigInv, FlowInv, Informed
    <3>2. QED
      BY <1>2, <1>3, <3>1 DEF About, Exists
  <2>2. QED
    BY <2>1 DEF ConfigInv, FlowInv, Exists
<1>7. QED
  BY <1>1, <1>2, <1>5, <1>6 DEF ConfigInv

\* A step of flow f that changes no entry.
LEMMA QuietKeeps ==
    ASSUME ConfigInv, Quiet, NEW f \in Flows, NEW w \in FlowRecord, Informed(w),
           flow' = [flow EXCEPT ![f] = w],
           w.step \in EntrySteps => Exists(w.target) /\ About(w, entry[w.target]),
           Begun \/ \A e \in Entries : Exists(e) => entry[e].version >= 3
    PROVE  ConfigInv'
<1>1. UNCHANGED <<entry, state, at, reloads, stale, own, service, hass>>
  BY DEF Quiet, lifecycle
<1>2. EntryInv' /\ TurnInv'
  BY <1>1 DEF ConfigInv, EntryInv, EntryTypes, AtEachAwait, ServiceWhileNeeded, TurnInv, Exists
<1>3. \A e \in Entries : Exists(e)' <=> Exists(e)
  BY <1>1 DEF Exists
<1>4. DataInv'
  BY <1>1, <1>3, DataKeeps DEF ConfigInv, DataInv
<1>5. FlowInv'
  <2>1. w.step \in EntrySteps => state'[w.target] # "absent" /\ About(w, entry'[w.target])
    BY <1>1 DEF Exists
  <2>2. QED
    BY <1>1, <1>3, <2>1, FlowsKeep DEF ConfigInv, Exists
<1>6. QED
  BY <1>2, <1>4, <1>5 DEF ConfigInv

\* What is known of a flow that takes a step.
LEMMA FlowFacts ==
    ASSUME ConfigInv, NEW f \in Flows
    PROVE  /\ flow[f] \in FlowRecord /\ Informed(flow[f])
           /\ flow[f].step # "none" => Begun
           /\ flow[f].step \in EntrySteps =>
                 /\ flow[f].target \in Entries /\ Exists(flow[f].target)
                 /\ About(flow[f], entry[flow[f].target])
                 /\ entry[flow[f].target] \in Data
BY DEF ConfigInv, FlowInv, DataInv, Informed, Begun

LEMMA StartKeepsFlows ==
    ASSUME ConfigInv, NEW f \in Flows, NEW form \in {"user", "reauth", "options_reauth", "options_devices"},
           NEW e \in Entries \union {None}, Start(f, form, e)
    PROVE  ConfigInv'
<1> DEFINE step == IF form = "options_devices" THEN "options_devices_cloud" ELSE form
           family == IF e = None THEN None ELSE entry[e].family
           w == [NoFlow EXCEPT !.step = step, !.target = e, !.family = family]
<1>1. /\ flow' = [flow EXCEPT ![f] = w] /\ Quiet
      /\ \A d \in Entries : Exists(d) => entry[d].version >= 3
  BY DEF Start, Set
<1>3. /\ form = "user" => e = None
      /\ form # "user" => e \in Entries /\ Exists(e)
  BY DEF Start, Exists
<1>4. entry \in [Entries -> Data]
  BY DEF ConfigInv, DataInv
<1>5. family \in Families \union {None}
  BY <1>4 DEF Data
<1>6. step \in Forms \union Calls /\ step \notin Submitted /\ step # "devices"
  BY DEF Forms, Calls, Submitted
<1>7. /\ step \in EntrySteps => e \in Entries /\ Exists(e) /\ family = entry[e].family
      /\ step \in UserSteps => e = None
  BY <1>3, EntryAssumption DEF EntrySteps, UserSteps, ListSteps
<1> HIDE DEF step, family
<1>2. /\ w \in FlowRecord /\ w.step = step /\ w.target = e /\ w.password = None
      /\ w.family = family /\ w.devices = None
  BY <1>5, <1>6 DEF NoFlow, FlowRecord
<1> HIDE DEF w
<1>8. Informed(w)
  BY <1>2, <1>6, <1>7 DEF Informed
<1>9. w.step \in EntrySteps => Exists(w.target) /\ About(w, entry[w.target])
  BY <1>2, <1>7 DEF About
<1>10. QED
  BY <1>1, <1>2, <1>8, <1>9, QuietKeeps

\* A flow goes to another step and keeps what it knows.
LEMMA ShowKeeps ==
    ASSUME ConfigInv, Quiet, NEW f \in Flows, NEW step \in Forms \union Calls, Show(f, step),
           flow[f].step # "none",
           step \in EntrySteps => flow[f].step \in EntrySteps,
           step \in ListSteps => flow[f].step \in ListSteps,
           step \in UserSteps => flow[f].step \in UserSteps,
           step \in UserSteps => flow[f].step # "devices" \/ flow[f].devices = None,
           step \in Submitted => flow[f].step \in Submitted
    PROVE  ConfigInv'
<1> DEFINE w == [flow[f] EXCEPT !.step = step]
<1>1. flow[f] \in FlowRecord /\ Informed(flow[f]) /\ Begun
  BY FlowFacts
<1>2. flow' = [flow EXCEPT ![f] = w]
  BY DEF Show, Set
<1>3. /\ w \in FlowRecord /\ w.step = step /\ w.target = flow[f].target
      /\ w.password = flow[f].password /\ w.family = flow[f].family /\ w.devices = flow[f].devices
  BY <1>1 DEF FlowRecord
<1> HIDE DEF w
<1>4. Informed(w)
  <2>1. "devices" \in UserSteps
    BY DEF UserSteps
  <2>2. step \in UserSteps => flow[f].devices = None
    BY <1>1 DEF Informed
  <2>3. QED
    BY <1>1, <1>3, <2>1, <2>2 DEF Informed
<1>5. w.step \in EntrySteps => Exists(w.target) /\ About(w, entry[w.target])
  BY <1>3, FlowFacts DEF About
<1>6. QED
  BY <1>1, <1>2, <1>3, <1>4, <1>5, QuietKeeps

\* A flow that is done knows nothing.
LEMMA DoneFlow ==
    ASSUME NEW w, w = [NoFlow EXCEPT !.step = "done"]
    PROVE  w \in FlowRecord /\ Informed(w) /\ w.step = "done" /\ w.step \notin EntrySteps
<1>1. w \in FlowRecord /\ w.step = "done"
  BY DEF NoFlow, FlowRecord
<1>2. QED
  BY <1>1 DEF Informed, EntrySteps, ListSteps, UserSteps, Submitted

\* The credentials are submitted, and tried in the cloud.
LEMMA CredentialsKeep ==
    ASSUME ConfigInv, NEW f \in Flows,
           \/ \E password \in Passwords : Submit(f, password)
           \/ \E first \in Families : CredentialsLoaded(f, first)
    PROVE  ConfigInv'
<1>0. flow[f] \in FlowRecord /\ Informed(flow[f]) /\ (flow[f].step # "none" => Begun)
  BY FlowFacts
<1>1. SUFFICES ASSUME NEW step \in Calls \ ListSteps, NEW password \in Passwords,
                      NEW family \in Families \union {None}, NEW w,
                      w = [flow[f] EXCEPT !.step = step, !.password = password, !.family = family],
                      flow' = [flow EXCEPT ![f] = w], Quiet, flow[f].step \notin {"none", "devices"},
                      step \in EntrySteps => flow[f].step \in EntrySteps,
                      step \in UserSteps => flow[f].step \in UserSteps,
                      step # "options_devices_cloud" /\ step # "devices"
               PROVE  ConfigInv'
  <2>1. ASSUME NEW password \in Passwords, Submit(f, password) PROVE ConfigInv'
    <3> DEFINE step == CASE flow[f].step = "user" -> "user_cloud" [] flow[f].step = "reauth" -> "reauth_cloud"
                         [] OTHER -> "options_reauth_cloud"
               family == IF flow[f].target = None THEN None ELSE entry[flow[f].target].family
               w == [flow[f] EXCEPT !.step = step, !.password = password, !.family = family]
    <3>1. flow' = [flow EXCEPT ![f] = w] /\ Quiet
      BY <2>1 DEF Submit, Set
    <3>2. flow[f].step \in {"user", "reauth", "options_reauth"}
      BY <2>1 DEF Submit
    <3>3. /\ step \in Calls \ ListSteps /\ step # "options_devices_cloud" /\ step # "devices"
          /\ step \in EntrySteps => flow[f].step \in EntrySteps
          /\ step \in UserSteps => flow[f].step \in UserSteps
      BY <3>2 DEF Calls, ListSteps, EntrySteps, UserSteps
    <3>4. family \in Families \union {None}
      BY <1>0 DEF FlowRecord, ConfigInv, DataInv, Data
    <3> HIDE DEF step, family
    <3>5. QED
      BY <1>1, <3>1, <3>2, <3>3, <3>4
  <2>2. ASSUME NEW first \in Families, CredentialsLoaded(f, first) PROVE ConfigInv'
    <3> DEFINE step == CASE flow[f].step = "user_cloud" -> "user_probe"
                         [] flow[f].step = "reauth_cloud" -> "reauth_probe"
                         [] OTHER -> "options_reauth_probe"
               family == FamilyOf(f, first)
               password == flow[f].password
               w == [flow[f] EXCEPT !.step = step, !.family = family, !.devices = flow[f].devices]
               v == [flow[f] EXCEPT !.step = step, !.password = password, !.family = family]
    <3>1. flow' = [flow EXCEPT ![f] = w] /\ Quiet
      BY <2>2 DEF CredentialsLoaded, Set, ProbeDevices
    <3>2. flow[f].step \in {"user_cloud", "reauth_cloud", "options_reauth_cloud"}
      BY <2>2 DEF CredentialsLoaded
    <3>3. /\ step \in Calls \ ListSteps /\ step # "options_devices_cloud" /\ step # "devices"
          /\ step \in EntrySteps => flow[f].step \in EntrySteps
          /\ step \in UserSteps => flow[f].step \in UserSteps
      BY <3>2 DEF Calls, ListSteps, EntrySteps, UserSteps
    <3>4. family \in Families \union {None} /\ password \in Passwords
      BY <1>0, <3>2 DEF FlowRecord, FamilyOf, Informed, Submitted
    <3> HIDE DEF step, family
    <3>5. w = v
      BY <1>0 DEF FlowRecord
    <3> HIDE DEF w, password
    <3>6. QED
      BY <1>1, <3>1, <3>2, <3>3, <3>4, <3>5
  <2>3. QED
    BY <2>1, <2>2
<1>2. /\ w \in FlowRecord /\ w.step = step /\ w.target = flow[f].target
      /\ w.password = password /\ w.family = family /\ w.devices = flow[f].devices
  BY <1>0, <1>1 DEF FlowRecord
<1>3. Informed(w)
  BY <1>0, <1>1, <1>2 DEF Informed
<1>4. w.step \in EntrySteps => Exists(w.target) /\ About(w, entry[w.target])
  BY <1>1, <1>2, FlowFacts DEF About
<1>5. QED
  BY <1>0, <1>1, <1>2, <1>3, <1>4, QuietKeeps

\* The family is chosen, or the devices are listed.
LEMMA ListingKeeps ==
    ASSUME ConfigInv, NEW f \in Flows,
           \/ \E fam \in Families : SelectFamily(f, fam)
           \/ \E first \in Families, some \in BOOLEAN : DevicesLoaded(f, first, some)
    PROVE  ConfigInv'
<1>0. flow[f] \in FlowRecord /\ Informed(flow[f]) /\ (flow[f].step # "none" => Begun)
  BY FlowFacts
<1>1. ASSUME NEW fam \in Families, SelectFamily(f, fam) PROVE ConfigInv'
  <2> DEFINE w == [flow[f] EXCEPT !.family = fam,
                     !.step = IF flow[f].devices = None THEN "devices_cloud" ELSE "devices"]
  <2>1. flow' = [flow EXCEPT ![f] = w] /\ Quiet /\ flow[f].step = "select_family"
    BY <1>1 DEF SelectFamily, Set, In
  <2>2. flow[f].target = None /\ flow[f].devices = None /\ flow[f].password \in Passwords
    BY <1>0, <2>1 DEF Informed, UserSteps, Submitted
  <2>3. /\ w \in FlowRecord /\ w.step = "devices_cloud" /\ w.target = None
        /\ w.password = flow[f].password /\ w.family = fam /\ w.devices = None
    BY <1>0, <2>2 DEF FlowRecord, Calls
  <2> HIDE DEF w
  <2>4. Informed(w) /\ w.step \notin EntrySteps
    BY <2>2, <2>3 DEF Informed, EntrySteps, ListSteps, UserSteps, Submitted
  <2>5. QED
    BY <1>0, <2>1, <2>3, <2>4, QuietKeeps
<1>2. ASSUME NEW first \in Families, NEW some \in BOOLEAN, DevicesLoaded(f, first, some)
      PROVE  ConfigInv'
  <2>1. flow[f].step \in {"devices_cloud", "options_devices_cloud"} /\ Quiet /\ Begun
    BY <1>0, <1>2 DEF DevicesLoaded
  <2>2. CASE some
    <3> DEFINE fam == FamilyOf(f, first)
               step == FormOf(flow[f].step)
               w == [flow[f] EXCEPT !.step = step, !.family = fam, !.devices = fam]
    <3>1. flow' = [flow EXCEPT ![f] = w]
      BY <1>2, <2>2 DEF DevicesLoaded, Set
    <3>2. fam \in Families /\ (flow[f].family # None => fam = flow[f].family)
      BY <1>0 DEF FamilyOf, FlowRecord
    <3>3. \/ flow[f].step = "devices_cloud" /\ step = "devices"
          \/ flow[f].step = "options_devices_cloud" /\ step = "options_devices"
      <4>1. CASE flow[f].step = "devices_cloud"
        BY <4>1 DEF FormOf
      <4>2. CASE flow[f].step = "options_devices_cloud"
        BY <4>2 DEF FormOf
      <4>3. QED
        BY <2>1, <4>1, <4>2
    <3>4. step \in Forms
      BY <3>3 DEF Forms
    <3> HIDE DEF fam, step
    <3>5. /\ w \in FlowRecord /\ w.step = step /\ w.target = flow[f].target
          /\ w.password = flow[f].password /\ w.family = fam /\ w.devices = fam
      BY <1>0, <3>2, <3>4 DEF FlowRecord
    <3> HIDE DEF w
    <3>6. Informed(w)
      BY <1>0, <3>3, <3>5 DEF Informed, EntrySteps, ListSteps, UserSteps, Submitted
    <3>7. w.step \in EntrySteps => Exists(w.target) /\ About(w, entry[w.target])
      <4>1. CASE step = "devices"
        BY <3>5, <4>1 DEF EntrySteps, ListSteps
      <4>2. CASE step = "options_devices"
        <5>1. flow[f].step \in ListSteps /\ flow[f].step \in EntrySteps
          BY <3>3, <4>2 DEF EntrySteps, ListSteps
        <5>2. Exists(flow[f].target) /\ About(flow[f], entry[flow[f].target])
          BY <5>1, FlowFacts
        <5>3. QED
          BY <3>2, <3>5, <5>1, <5>2 DEF About
      <4>3. QED
        BY <3>3, <4>1, <4>2
    <3>8. QED
      BY <2>1, <3>1, <3>5, <3>6, <3>7, QuietKeeps
  <2>3. CASE ~some
    <3>1. flow' = [flow EXCEPT ![f] = [NoFlow EXCEPT !.step = "done"]]
      BY <1>2, <2>3 DEF DevicesLoaded, Finish, Set
    <3>2. QED
      BY <2>1, <3>1, DoneFlow, QuietKeeps
  <2>4. QED
    BY <2>2, <2>3
<1>3. QED
  BY <1>1, <1>2
-----------------------------------------------------------------------------
\* An entry is created for a family that has none.
LEMMA CreateKeeps ==
    ASSUME ConfigInv, NEW f \in Flows, NEW e \in Entries, CreateEntry(f, e) PROVE ConfigInv'
<1>0. flow[f] \in FlowRecord /\ Informed(flow[f]) /\ flow[f].step = "devices" /\ Begun
  BY FlowFacts DEF CreateEntry, In
<1>1. EntryInv'
  BY <1>0, EntryStep DEF ConfigInv, Next, FlowStep
<1>2. flow' = [flow EXCEPT ![f] = [NoFlow EXCEPT !.step = "done"]]
  BY DEF CreateEntry, Finish, Set
<1>3. entry \in [Entries -> Data] /\ state \in [Entries -> States]
  BY DEF ConfigInv, DataInv, EntryInv, EntryTypes
<1>4. UNCHANGED <<at, reloads, stale, hass>>
  BY DEF CreateEntry
<1>5. CASE Taken(flow[f].family)
  <2>1. UNCHANGED <<entry, state>>
    BY <1>5 DEF CreateEntry
  <2>2. TurnInv' /\ \A d \in Entries : Exists(d)' <=> Exists(d)
    BY <1>4, <2>1 DEF ConfigInv, TurnInv, Exists
  <2>3. DataInv'
    BY <1>0, <2>1, <2>2, DataKeeps DEF ConfigInv, DataInv
  <2>4. FlowInv'
    BY <1>2, <2>1, <2>2, DoneFlow, FlowsKeep DEF ConfigInv
  <2>5. QED
    BY <1>1, <2>2, <2>3, <2>4 DEF ConfigInv
<1>6. CASE ~Taken(flow[f].family)
  <2> DEFINE new == NewEntry(flow[f])
  <2>1. ~Exists(e) /\ entry' = [entry EXCEPT ![e] = new] /\ state' = [state EXCEPT ![e] = "not_loaded"]
    BY <1>6 DEF CreateEntry, Become
  <2>2. /\ flow[f].family \in Families /\ flow[f].devices = flow[f].family
        /\ flow[f].password \in Passwords
    BY <1>0 DEF CreateEntry, Informed, Submitted, FlowRecord
  <2>3. /\ new \in Data /\ new.family = flow[f].family /\ new.version = 3 /\ new.scope = flow[f].family
        /\ new.old = None /\ new.selected = flow[f].family
    <3>1. 3 \in 2..4
      OBVIOUS
    <3>2. QED
      BY <2>2, <3>1 DEF NewEntry, Data, Scopes
  <2> HIDE DEF new
  <2>4. /\ entry'[e] = new /\ Exists(e)'
        /\ \A d \in Entries \ {e} : entry'[d] = entry[d] /\ (Exists(d)' <=> Exists(d))
    BY <1>3, <2>1 DEF Exists
  <2>5. TurnInv'
    BY <1>4, <2>4 DEF ConfigInv, TurnInv
  <2>6. \A d \in Entries : Exists(d) => entry[d].version >= 3 /\ Consistent(entry[d])
    BY <1>0 DEF ConfigInv, DataInv
  <2>7. \A d \in Entries \ {e} : Exists(d) /\ entry[d].scope # None => entry[d].family # new.family
    BY <1>6, <2>2, <2>3, <2>6, EntryAssumption DEF Taken, Consistent
  <2>8. OneEntryPerFamily'
    BY <2>4, <2>7 DEF ConfigInv, DataInv, OneEntryPerFamily
  <2>9. \A d \in Entries : Consistent(entry'[d])
    BY <2>2, <2>3, <2>4 DEF ConfigInv, DataInv, Consistent
  <2>10. DataInv'
    BY <1>3, <2>1, <2>3, <2>4, <2>6, <2>8, <2>9 DEF DataInv
  <2>11. FlowInv'
    BY <1>2, <2>1, <2>4, DoneFlow, FlowsKeep DEF ConfigInv
  <2>12. QED
    BY <1>1, <2>5, <2>10, <2>11 DEF ConfigInv
<1>7. QED
  BY <1>5, <1>6

\* What is stored of an entry changes, but not its family; the flow is done.
LEMMA UpdateKeeps ==
    ASSUME ConfigInv, NEW f \in Flows, FlowStep(f), Finish(f), NEW e \in Entries, Exists(e), Begun,
           NEW d \in Data, d.family = entry[e].family, d.version = entry[e].version,
           d.scope = entry[e].scope, Consistent(d),
           NEW requested \in Nat, UpdateEntry(e, d, requested), UNCHANGED <<state, at, own, hass>>
    PROVE  ConfigInv'
<1>1. EntryInv'
  BY EntryStep DEF ConfigInv, Next
<1>2. flow' = [flow EXCEPT ![f] = [NoFlow EXCEPT !.step = "done"]]
  BY DEF Finish, Set
<1>3. /\ entry \in [Entries -> Data] /\ stale \in [Entries -> BOOLEAN] /\ reloads \in [Entries -> Nat]
      /\ \A x \in Entries : Consistent(entry[x])
  BY DEF ConfigInv, DataInv, TurnInv
<1>4. /\ entry' \in [Entries -> Data] /\ entry'[e] = d
      /\ \A x \in Entries \ {e} : entry'[x] = entry[x]
  BY <1>3 DEF UpdateEntry
<1>5. stale' \in [Entries -> BOOLEAN]
  BY <1>3 DEF UpdateEntry
<1>6. reloads' \in [Entries -> Nat] /\ \A x \in Entries \ {e} : reloads'[x] = reloads[x]
  <2> DEFINE n == reloads[e] + requested + IF d # entry[e] THEN own[e].listeners ELSE 0
  <2>1. reloads' = [reloads EXCEPT ![e] = n]
    BY DEF UpdateEntry
  <2>2. n \in Nat
    BY <1>3, ListenersCount DEF ConfigInv
  <2> HIDE DEF n
  <2>3. QED
    BY <1>3, <2>1, <2>2
<1>7. \A x \in Entries : Exists(x)' <=> Exists(x)
  BY DEF Exists
<1>8. TurnInv'
  BY <1>5, <1>6, <1>7 DEF ConfigInv, TurnInv
<1>9. \A x \in Entries : /\ Consistent(entry'[x]) /\ entry'[x].family = entry[x].family
                         /\ entry'[x].scope # None => entry[x].scope # None
                         /\ entry[x].version >= 3 => entry'[x].version >= 3
  BY <1>3, <1>4
<1>10. DataInv'
  BY <1>4, <1>7, <1>9, DataKeeps DEF ConfigInv
<1>11. FlowInv'
  BY <1>2, <1>7, <1>9, DoneFlow, FlowsKeep DEF ConfigInv
<1>12. QED
  BY <1>1, <1>8, <1>10, <1>11 DEF ConfigInv

\* A password that passed its probe, or devices of the entry's family, are stored.
LEMMA PasswordKeeps ==
    ASSUME ConfigInv, NEW f \in Flows, NEW verdict \in {"unasked", "accepted", "rejected"},
           PasswordProbed(f, verdict)
    PROVE  ConfigInv'
<1> DEFINE e == flow[f].target
           d == [entry[e] EXCEPT !.password = flow[f].password]
           requested == IF In(f, "reauth_probe") THEN 1 ELSE 0
<1>1. flow[f].step \in {"reauth_probe", "options_reauth_probe"}
  BY DEF PasswordProbed
<1>2. /\ e \in Entries /\ Exists(e) /\ entry[e] \in Data /\ Consistent(entry[e])
      /\ flow[f].password \in Passwords /\ Begun
  <2>1. flow[f].step \in EntrySteps /\ flow[f].step \in Submitted
    BY <1>1 DEF EntrySteps, Submitted
  <2>2. Begun /\ e \in Entries /\ Exists(e) /\ entry[e] \in Data /\ Informed(flow[f])
    BY <1>1, <2>1, FlowFacts
  <2>3. QED
    BY <2>1, <2>2 DEF Informed, ConfigInv, DataInv
<1>3. FlowStep(f)
  BY DEF FlowStep
<1>4. UNCHANGED <<state, at, own, service, hass>>
  BY DEF PasswordProbed
<1>5. CASE Passes(verdict)
  <2>1. UpdateEntry(e, d, requested) /\ Finish(f)
    BY <1>5 DEF PasswordProbed
  <2>2. requested \in Nat
    OBVIOUS
  <2>3. /\ d \in Data /\ d.family = entry[e].family /\ d.version = entry[e].version
        /\ d.old = entry[e].old /\ d.selected = entry[e].selected /\ d.scope = entry[e].scope
    BY <1>2 DEF Data
  <2> HIDE DEF d, requested
  <2>4. Consistent(d)
    BY <1>2, <2>3 DEF Consistent
  <2> HIDE DEF e
  <2>5. QED
    BY <1>2, <1>3, <1>4, <2>1, <2>2, <2>3, <2>4, UpdateKeeps
<1>6. CASE ~Passes(verdict)
  <2> DEFINE step == FormOf(flow[f].step)
  <2>1. Show(f, step) /\ Quiet
    BY <1>4, <1>6 DEF PasswordProbed, Quiet, lifecycle
  <2>2. /\ step \in {"reauth", "options_reauth"} /\ flow[f].step # "none"
        /\ flow[f].step \in EntrySteps
    <3>1. CASE flow[f].step = "reauth_probe"
      BY <3>1 DEF FormOf, EntrySteps
    <3>2. CASE flow[f].step = "options_reauth_probe"
      BY <3>2 DEF FormOf, EntrySteps
    <3>3. QED
      BY <1>1, <3>1, <3>2
  <2> HIDE DEF step
  <2>3. /\ step \in Forms \union Calls /\ step \notin ListSteps /\ step \notin UserSteps
        /\ step \notin Submitted
    BY <2>2 DEF Forms, ListSteps, UserSteps, Submitted
  <2>4. QED
    BY <2>1, <2>2, <2>3, ShowKeeps
<1>7. QED
  BY <1>5, <1>6

LEMMA SelectKeeps == ASSUME ConfigInv, NEW f \in Flows, SelectDevices(f) PROVE ConfigInv'
<1> DEFINE e == flow[f].target
           d == [entry[e] EXCEPT !.selected = flow[f].devices]
<1>1. flow[f].step = "options_devices" /\ flow[f].devices # None
  BY DEF SelectDevices, In
<1>2. /\ e \in Entries /\ Exists(e) /\ entry[e] \in Data /\ Consistent(entry[e])
      /\ flow[f].devices \in Families /\ Begun
      /\ entry[e].family # None => flow[f].devices = entry[e].family
  <2>1. flow[f].step \in EntrySteps /\ flow[f].step \in ListSteps
    BY <1>1 DEF EntrySteps, ListSteps
  <2>2. /\ Begun /\ e \in Entries /\ Exists(e) /\ entry[e] \in Data /\ flow[f] \in FlowRecord
        /\ About(flow[f], entry[e])
    BY <1>1, <2>1, FlowFacts
  <2>3. Consistent(entry[e])
    BY <2>2 DEF ConfigInv, DataInv
  <2>4. QED
    BY <1>1, <2>1, <2>2, <2>3 DEF About, FlowRecord
<1>3. FlowStep(f)
  BY DEF FlowStep
<1>4. UpdateEntry(e, d, 0) /\ Finish(f) /\ UNCHANGED <<state, at, own, service, hass>>
  BY DEF SelectDevices
<1>5. /\ d \in Data /\ d.family = entry[e].family /\ d.version = entry[e].version
      /\ d.old = entry[e].old /\ d.selected = flow[f].devices /\ d.scope = entry[e].scope
  BY <1>2 DEF Data
<1> HIDE DEF d
<1>6. Consistent(d)
  BY <1>2, <1>5 DEF Consistent
<1> HIDE DEF e
<1>7. QED
  BY <1>2, <1>3, <1>4, <1>5, <1>6, UpdateKeeps

\* Each step of a flow.
LEMMA FlowStepKeeps == ASSUME ConfigInv, NEW f \in Flows, FlowStep(f) PROVE ConfigInv'
<1>1. ASSUME NEW form \in {"user", "reauth", "options_reauth", "options_devices"},
             NEW e \in Entries \union {None}, Start(f, form, e)
      PROVE  ConfigInv'
  BY <1>1, StartKeepsFlows
<1>2. CASE \/ \E password \in Passwords : Submit(f, password)
           \/ \E first \in Families : CredentialsLoaded(f, first)
  BY <1>2, CredentialsKeep
<1>3. CASE CloudFails(f)
  <2> DEFINE old == flow[f].step
             step == FormOf(old)
  <2>1. /\ Show(f, step) /\ Quiet
        /\ old \in Calls \ {"user_probe", "reauth_probe", "options_reauth_probe"}
    BY <1>3 DEF CloudFails
  <2>2. \/ old = "user_cloud" /\ step = "user"
        \/ old = "devices_cloud" /\ step = "devices"
        \/ old = "reauth_cloud" /\ step = "reauth"
        \/ old = "options_reauth_cloud" /\ step = "options_reauth"
        \/ old = "options_devices_cloud" /\ step = "options_devices"
    <3>1. CASE old = "user_cloud"
      BY <3>1 DEF FormOf
    <3>2. CASE old = "devices_cloud"
      BY <3>2 DEF FormOf
    <3>3. CASE old = "reauth_cloud"
      BY <3>3 DEF FormOf
    <3>4. CASE old = "options_reauth_cloud"
      BY <3>4 DEF FormOf
    <3>5. CASE old = "options_devices_cloud"
      BY <3>5 DEF FormOf
    <3>6. QED
      BY <2>1, <3>1, <3>2, <3>3, <3>4, <3>5 DEF Calls
  <2> HIDE DEF step
  <2>3. /\ step \in Forms \union Calls /\ old # "none" /\ old # "devices"
        /\ step \in EntrySteps => old \in EntrySteps
        /\ step \in ListSteps => old \in ListSteps
        /\ step \in UserSteps => old \in UserSteps
        /\ step \in Submitted => old \in Submitted
    BY <2>2 DEF Forms, EntrySteps, ListSteps, UserSteps, Submitted
  <2>4. QED
    BY <2>1, <2>3, ShowKeeps
<1>4. ASSUME NEW verdict \in {"unasked", "accepted", "rejected"}, UserProbed(f, verdict)
      PROVE  ConfigInv'
  <2> DEFINE step == IF ~Passes(verdict) THEN "user"
                     ELSE IF Cardinality(Families) > 1 THEN "select_family"
                     ELSE "devices_cloud"
  <2>1. Show(f, step) /\ Quiet /\ flow[f].step = "user_probe"
    BY <1>4 DEF UserProbed, In
  <2>2. step \in {"user", "select_family", "devices_cloud"}
    OBVIOUS
  <2> HIDE DEF step
  <2>3. /\ step \in Forms \union Calls /\ step \notin EntrySteps /\ step \notin ListSteps
        /\ flow[f].step \in UserSteps /\ flow[f].step \in Submitted
    BY <2>1, <2>2 DEF Forms, Calls, EntrySteps, ListSteps, UserSteps, Submitted
  <2>4. QED
    BY <2>1, <2>3, ShowKeeps
<1>5. CASE DevicesAgain(f)
  <2> DEFINE step == IF In(f, "devices") THEN "devices_cloud" ELSE "options_devices_cloud"
  <2>1. /\ Show(f, step) /\ Quiet /\ flow[f].devices = None
        /\ \/ flow[f].step = "devices" /\ step = "devices_cloud"
           \/ flow[f].step = "options_devices" /\ step = "options_devices_cloud"
    BY <1>5 DEF DevicesAgain, In
  <2> HIDE DEF step
  <2>2. /\ step \in Forms \union Calls /\ flow[f].step # "none"
        /\ step \in EntrySteps => flow[f].step \in EntrySteps
        /\ step \in ListSteps => flow[f].step \in ListSteps
        /\ step \in UserSteps => flow[f].step \in UserSteps
        /\ step \in Submitted => flow[f].step \in Submitted
    BY <2>1 DEF Calls, EntrySteps, ListSteps, UserSteps, Submitted
  <2>3. QED
    BY <2>1, <2>2, ShowKeeps
<1>6. CASE \/ \E fam \in Families : SelectFamily(f, fam)
           \/ \E first \in Families, some \in BOOLEAN : DevicesLoaded(f, first, some)
  BY <1>6, ListingKeeps
<1>7. CASE \E verdict \in {"unasked", "accepted", "rejected"} : PasswordProbed(f, verdict)
  BY <1>7, PasswordKeeps
<1>8. CASE \E e \in Entries : CreateEntry(f, e)
  BY <1>8, CreateKeeps
<1>9. CASE SelectDevices(f)
  BY <1>9, SelectKeeps
<1>10. QED
  BY <1>1, <1>2, <1>3, <1>4, <1>5, <1>6, <1>7, <1>8, <1>9 DEF FlowStep
-----------------------------------------------------------------------------
LEMMA ConfigInit == Init => ConfigInv
<1> SUFFICES ASSUME Init PROVE ConfigInv
  OBVIOUS
<1>1. EntryInv
  BY EntryInit
<1>2. PICK d \in Stored : /\ entry = [e \in Entries |-> d]
                          /\ state = [e \in Entries |-> IF e = First THEN "not_loaded" ELSE "absent"]
  BY DEF Init
<1>3. d \in Data /\ Consistent(d)
  BY FlowAssumption, StoredAssumption DEF Consistent
<1>4. flow = [f \in Flows |-> NoFlow] /\ NoFlow.step = "none"
  BY DEF Init, NoFlow
<1>5. ~Begun
  BY <1>4 DEF Begun
<1>6. DataInv
  BY <1>2, <1>3, <1>5 DEF DataInv, OneEntryPerFamily, Exists
<1>7. TurnInv
  BY DEF Init, TurnInv
<1>8. NoFlow \in FlowRecord /\ Informed(NoFlow) /\ NoFlow.step \notin EntrySteps
  <2>1. NoFlow \in FlowRecord
    BY DEF NoFlow, FlowRecord
  <2>2. QED
    BY <1>4, <2>1 DEF Informed, EntrySteps, ListSteps, UserSteps, Submitted
<1>9. FlowInv
  BY <1>4, <1>8 DEF FlowInv
<1>10. QED
  BY <1>1, <1>6, <1>7, <1>9 DEF ConfigInv

LEMMA ConfigStep == ConfigInv /\ [Next]_vars => ConfigInv'
<1> SUFFICES ASSUME ConfigInv, [Next]_vars PROVE ConfigInv'
  OBVIOUS
<1>1. CASE LifecycleNext /\ NoFlowMoves
  BY <1>1, LifecycleKeeps DEF NoFlowMoves
<1>2. CASE \E f \in Flows : FlowStep(f)
  BY <1>2, FlowStepKeeps
<1>3. CASE UNCHANGED vars
  <2>1. UNCHANGED <<entry, state, at, reloads, stale, own, service, hass, flow>>
    BY <1>3 DEF vars, lifecycle
  <2>2. EntryInv'
    BY <2>1 DEF ConfigInv, EntryInv, EntryTypes, AtEachAwait, ServiceWhileNeeded
  <2>3. TurnInv' /\ DataInv' /\ FlowInv'
    BY <2>1 DEF ConfigInv, TurnInv, DataInv, FlowInv, OneEntryPerFamily, Begun, Exists
  <2>4. QED
    BY <2>2, <2>3 DEF ConfigInv
<1>4. QED
  BY <1>1, <1>2, <1>3 DEF Next

\* Every variable of the entries and the flows has its type: no flow stores a password
\* it was not given, no entry waits for a negative number of reloads.
THEOREM TypeCorrect == Spec => []TypeOK
<1>1. ConfigInv => TypeOK
  <2> SUFFICES ASSUME ConfigInv PROVE TypeOK
    OBVIOUS
  <2>1. ASSUME NEW e \in Entries
        PROVE  own[e] \in [coordinator : BOOLEAN, runtime : BOOLEAN, listeners : Nat, handle : BOOLEAN,
                           bus : BOOLEAN, platforms : {"none", "up", "stuck"}]
    BY ListenersCount DEF ConfigInv, EntryInv, EntryTypes, Resources
  <2>2. own \in [Entries -> [coordinator : BOOLEAN, runtime : BOOLEAN, listeners : Nat, handle : BOOLEAN,
                             bus : BOOLEAN, platforms : {"none", "up", "stuck"}]]
    BY <2>1 DEF ConfigInv, EntryInv, EntryTypes
  <2>3. LifecycleTypeOK
    BY <2>2 DEF LifecycleTypeOK, ConfigInv, EntryInv, EntryTypes, TurnInv, DataInv
  <2>4. QED
    BY <2>3 DEF TypeOK, ConfigInv, FlowInv, FlowRecord
<1>2. QED
  BY <1>1, ConfigInit, ConfigStep, PTL DEF Spec

\* The devices selected for an entry are those of its family, whatever family a flow
\* tried the credentials on, listed first or asked again, for any number of families.
THEOREM SelectionsBelong == Spec => []SelectionOfOwnFamily
<1>1. ConfigInv => SelectionOfOwnFamily
  BY DEF ConfigInv, DataInv, Consistent, SelectionOfOwnFamily
<1>2. QED
  BY <1>1, ConfigInit, ConfigStep, PTL DEF Spec

\* However many flows add families at once, no family gets a second entry, also
\* besides one that was stored before unique ids had a family: it is migrated first.
THEOREM FamiliesStayApart == Spec => []OneEntryPerFamily
<1>1. ConfigInv => OneEntryPerFamily
  BY DEF ConfigInv, DataInv
<1>2. QED
  BY <1>1, ConfigInit, ConfigStep, PTL DEF Spec
=============================================================================
