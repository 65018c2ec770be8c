----------------------------- MODULE ConfigFlow -----------------------------
(***************************************************************************)
(* The config flow, the reauthentication flow and the options flow         *)
(* (config_flow.py), over the entries they create and update.              *)
(*                                                                         *)
(* A flow is a form that waits for the user (for ever, when the user       *)
(* closes it) or a call that waits for the cloud or a gateway; flows       *)
(* interleave with each other and with the setups of the entries.  login   *)
(* and fetch_devices are one await here: nothing another flow does can     *)
(* matter between them.  The cloud's OAuth accepts any password; only a    *)
(* gateway tells a wrong one.                                              *)
(***************************************************************************)
EXTENDS EntryLifecycle

CONSTANTS
    Starts,     \* bound: the flows that are started
    Stored,     \* what the entry may be that is stored already
    Right,      \* the account's password
    WithGateway \* the families that have a gateway

ASSUME FlowAssumption ==
    /\ Stored \subseteq Data
    /\ Right \in Passwords /\ WithGateway \subseteq Families /\ Starts \in Nat

\* What is stored was written by a flow or a migration: the devices of an entry were
\* listed from its own family, which is in its unique id, if it has one, from version
\* 3 on.
ASSUME StoredAssumption ==
    \A d \in Stored : d.family # None =>
        /\ d.old \in {None, d.family} /\ d.selected \in {None, d.family}
        /\ d.version >= 3 => d.scope \in {None, d.family}

\* Flows, in the order in which they are started.
Flows == 1..Starts

VARIABLES
    flow        \* flow -> its attributes and what it waits for

vars == <<lifecycle, flow>>
-----------------------------------------------------------------------------
\* step: the form shown (user, select_family, devices, reauth, options_reauth,
\* options_devices) or the call awaited; target: the entry of a reauth or
\* options flow; family: the client's family_id; devices: the family _devices was
\* listed from.
NoFlow == [step |-> "none", target |-> None, password |-> None, family |-> None, devices |-> None]

Forms == {"user", "select_family", "devices", "reauth", "options_reauth", "options_devices"}
Calls == {"user_cloud", "user_probe", "devices_cloud", "reauth_cloud", "reauth_probe",
          "options_reauth_cloud", "options_reauth_probe", "options_devices_cloud"}

\* Slip: the flow keeps the default version of an entry.
FirstVersion(f) == [version |-> 1, family |-> f.family, scope |-> f.family,
                    password |-> f.password, old |-> None, selected |-> f.devices]
\* A new entry, as _create_entry stores it.
NewEntry(f) == [version |-> 3, family |-> f.family, scope |-> f.family,
                password |-> f.password, old |-> None, selected |-> f.devices]

First == CHOOSE e \in Entries : TRUE

\* One entry is stored already, perhaps by another version of the integration.
Init ==
    /\ \E d \in Stored :
          /\ entry = [e \in Entries |-> d]
          /\ state = [e \in Entries |-> IF e = First THEN "not_loaded" ELSE "absent"]
    /\ at = [e \in Entries |-> "idle"]
    /\ reloads = [e \in Entries |-> 0]
    /\ stale = [e \in Entries |-> FALSE]
    /\ own = [e \in Entries |-> NoResources]
    /\ service = FALSE
    /\ hass = "booting"
    /\ flow = [f \in Flows |-> NoFlow]
-----------------------------------------------------------------------------
Set(f, new) == flow' = [flow EXCEPT ![f] = new]
Show(f, form) == Set(f, [flow[f] EXCEPT !.step = form])
Finish(f) == Set(f, [NoFlow EXCEPT !.step = "done"])
In(f, step) == flow[f].step = step

\* A step of a flow that changes no entry.
Quiet == UNCHANGED lifecycle

OfReauth(step) == step \in {"reauth", "reauth_cloud", "reauth_probe"}

\* The user starts a config flow, or the options flow of an entry and picks from
\* its menu; Home Assistant starts one reauth flow for an entry whose setup failed
\* with ConfigEntryAuthFailed, or whose refresh did.  By then Home Assistant has
\* booted and migrated what is stored: no entry of an old version is disabled.
Start(f, form, e) ==
    /\ In(f, "none") /\ hass # "booting"
    /\ \A g \in 1..f-1 : ~In(g, "none")
    /\ \A d \in Entries : Exists(d) => entry[d].version >= 3
    /\ CASE form = "user" -> e = None
         [] form = "reauth" -> /\ e \in Entries /\ state[e] \in {"setup_error", "loaded"}
                               /\ \A g \in Flows : flow[g].target = e => ~OfReauth(flow[g].step)
         [] OTHER -> e \in Entries /\ Exists(e)
    /\ Set(f, [NoFlow EXCEPT
                 !.step = IF form = "options_devices" THEN "options_devices_cloud" ELSE form,
                 !.target = e,
                 !.family = IF e = None THEN None ELSE entry[e].family])
    /\ Quiet

\* The credentials are submitted (empty ones only show the form again): a client
\* of their own logs in and fetches the devices.
Submit(f, password) ==
    /\ flow[f].step \in {"user", "reauth", "options_reauth"}
    /\ Set(f, [flow[f] EXCEPT
                 !.step = CASE @ = "user" -> "user_cloud" [] @ = "reauth" -> "reauth_cloud"
                            [] OTHER -> "options_reauth_cloud",
                 !.password = password,
                 !.family = IF flow[f].target = None THEN None ELSE entry[flow[f].target].family])
    /\ Quiet

\* The form a call came from.
FormOf(step) ==
    CASE step \in {"user_cloud", "user_probe"} -> "user"
      [] step = "devices_cloud" -> "devices"
      [] step \in {"reauth_cloud", "reauth_probe"} -> "reauth"
      [] step \in {"options_reauth_cloud", "options_reauth_probe"} -> "options_reauth"
      [] step = "options_devices_cloud" -> "options_devices"

\* The cloud refuses, or does not answer: the form is shown again, with an error.
CloudFails(f) ==
    /\ flow[f].step \in Calls \ {"user_probe", "reauth_probe", "options_reauth_probe"}
    /\ Show(f, FormOf(flow[f].step))
    /\ Quiet

\* The client's family is the one it has, else the first of the account's list.
FamilyOf(f, first) == IF flow[f].family = None THEN first ELSE flow[f].family

\* Slip: the devices of the first family are kept.
KeepProbeDevices(f, fam) == fam
\* _probe_devices is dropped: the devices are listed when the family is known.
ProbeDevices(f, fam) == flow[f].devices

\* Devices and gateways are there: the gateway is asked next.
CredentialsLoaded(f, first) ==
    LET fam == FamilyOf(f, first) IN
    /\ flow[f].step \in {"user_cloud", "reauth_cloud", "options_reauth_cloud"}
    /\ Set(f, [flow[f] EXCEPT
                 !.step = CASE @ = "user_cloud" -> "user_probe" [] @ = "reauth_cloud" -> "reauth_probe"
                            [] OTHER -> "options_reauth_probe",
                 !.family = fam,
                 !.devices = ProbeDevices(f, fam)])
    /\ Quiet

\* "Only an explicit gateway rejection is treated as an auth failure"
\* (config_flow.py:331).
Passes(verdict) == verdict # "rejected"

\* _probe_gateway_credentials: no gateway, one that cannot be reached, or the
\* answer of one.
Verdicts(f) ==
    {"unasked"} \union
    IF flow[f].family \in WithGateway
      THEN {IF flow[f].password = Right THEN "accepted" ELSE "rejected"} ELSE {}

\* The probe of a new account (_gateway_auth_checked is set here, so that no later
\* step of the flow asks a gateway).  With one family the devices follow at once.
UserProbed(f, verdict) ==
    /\ In(f, "user_probe") /\ verdict \in Verdicts(f)
    /\ Show(f, IF ~Passes(verdict) THEN "user"
               ELSE IF Cardinality(Families) > 1 THEN "select_family"
               ELSE "devices_cloud")
    /\ Quiet

\* async_step_select_family, and async_step_devices up to its request.
SelectFamily(f, fam) ==
    /\ In(f, "select_family")
    /\ Set(f, [flow[f] EXCEPT
                 !.family = fam,
                 !.step = IF flow[f].devices = None THEN "devices_cloud" ELSE "devices"])
    /\ Quiet

\* The devices of the family are listed; without any the flow is aborted.
DevicesLoaded(f, first, some) ==
    /\ flow[f].step \in {"devices_cloud", "options_devices_cloud"}
    /\ IF some THEN Set(f, [flow[f] EXCEPT !.step = FormOf(@), !.family = FamilyOf(f, first),
                                           !.devices = FamilyOf(f, first)])
               ELSE Finish(f)
    /\ Quiet

\* The form was shown with an error and without devices: submitting it asks again.
DevicesAgain(f) ==
    /\ flow[f].step \in {"devices", "options_devices"} /\ flow[f].devices = None
    /\ Show(f, IF In(f, "devices") THEN "devices_cloud" ELSE "options_devices_cloud")
    /\ Quiet
-----------------------------------------------------------------------------
\* _abort_if_unique_id_configured.
Taken(fam) == \E e \in Entries : Exists(e) /\ entry[e].scope = fam

\* Devices of a new account are selected (none shows the form again): the entry is
\* created, and Home Assistant sets it up.
CreateEntry(f, e) ==
    /\ In(f, "devices") /\ flow[f].devices # None
    /\ IF Taken(flow[f].family)
         THEN UNCHANGED <<entry, state>>
         ELSE /\ ~Exists(e)
              /\ entry' = [entry EXCEPT ![e] = NewEntry(flow[f])]
              /\ Become(e, "not_loaded")
    /\ Finish(f)
    /\ UNCHANGED <<at, reloads, stale, own, service, hass>>

\* The new password of an entry is probed.  The reauth flow asks for a reload, the
\* options flow leaves that to the entry's update listener.
PasswordProbed(f, verdict) ==
    LET e == flow[f].target IN
    /\ flow[f].step \in {"reauth_probe", "options_reauth_probe"} /\ verdict \in Verdicts(f)
    /\ IF Passes(verdict)
         THEN /\ UpdateEntry(e, [entry[e] EXCEPT !.password = flow[f].password],
                             IF In(f, "reauth_probe") THEN 1 ELSE 0)
              /\ Finish(f)
         ELSE /\ Show(f, FormOf(flow[f].step))
              /\ UNCHANGED <<entry, stale, reloads>>
    /\ UNCHANGED <<state, at, own, service, hass>>

\* Devices are selected in the options flow, whose options replace the entry's.
SelectDevices(f) ==
    /\ In(f, "options_devices") /\ flow[f].devices # None
    /\ UpdateEntry(flow[f].target, [entry[flow[f].target] EXCEPT !.selected = flow[f].devices], 0)
    /\ Finish(f)
    /\ UNCHANGED <<state, at, own, service, hass>>
-----------------------------------------------------------------------------
FlowStep(f) ==
    \/ \E form \in {"user", "reauth", "options_reauth", "options_devices"},
          e \in Entries \union {None} : Start(f, form, e)
    \/ \E password \in Passwords : Submit(f, password)
    \/ CloudFails(f)
    \/ \E first \in Families : CredentialsLoaded(f, first)
    \/ \E verdict \in {"unasked", "accepted", "rejected"} :
          UserProbed(f, verdict) \/ PasswordProbed(f, verdict)
    \/ \E fam \in Families : SelectFamily(f, fam)
    \/ \E first \in Families, some \in BOOLEAN : DevicesLoaded(f, first, some)
    \/ DevicesAgain(f)
    \/ \E e \in Entries : CreateEntry(f, e)
    \/ SelectDevices(f)

NoFlowMoves == UNCHANGED flow

Next ==
    \/ LifecycleNext /\ NoFlowMoves
    \/ \E f \in Flows : FlowStep(f)

Spec == Init /\ [][Next]_vars

\* Every await of a setup, reload or unload ends: the coordinator's requests time
\* out, platforms answer, and the waiting reloads have their turn.
FairSpec == Spec /\ \A e \in Entries : WF_vars(Progress(e) /\ NoFlowMoves)
-----------------------------------------------------------------------------
\* Every variable has its type.
TypeOK ==
    /\ LifecycleTypeOK
    /\ flow \in [Flows -> [step : Forms \union Calls \union {"none", "done"}, target : Entries \union {None},
                            password : Passwords \union {None}, family : Families \union {None},
                            devices : Families \union {None}]]

\* The devices selected for an entry were listed from its own family, whichever
\* family the credentials were tried on and whatever was asked for again.
SelectionOfOwnFamily ==
    \A e \in Entries : Exists(e) /\ entry[e].family # None /\ entry[e].selected # None
                        => entry[e].selected = entry[e].family

\* No family has two entries, those of old versions included: "avoid that families
\* share a unique id" (ARCHITECTURE.md:51), and that one family has two.  An entry
\* without a unique id, which the migration leaves without one, is not seen.
OneEntryPerFamily ==
    \A e, d \in Entries :
        Exists(e) /\ Exists(d) /\ e # d /\ entry[e].scope # None /\ entry[d].scope # None =>
            entry[e].family # entry[d].family

\* What is stored by a flow is used: an entry with a waiting reload is set up with
\* it, unless its platforms refuse to unload.
UpdatesTakeEffect ==
    \A e \in Entries :
        reloads[e] > 0 /\ stale[e] ~> ~stale[e] \/ state[e] \in {"failed_unload", "migration_error"}

\* "The config entry is reloaded after an Options Flow update"
\* (DEVICE_INTEGRATION_ANALYSIS.md:31): when nothing of an entry is under way, it is
\* not left with what an earlier setup has read.
OptionsUpdateReloads ==
    \A e \in Entries :
        at[e] = "idle" /\ reloads[e] = 0 /\ state[e] \in {"loaded", "setup_error"} => ~stale[e]
=============================================================================
