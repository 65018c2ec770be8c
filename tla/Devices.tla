------------------------------ MODULE Devices ------------------------------
(***************************************************************************)
(* One device and its entity: what the entity (climate.py, light.py,       *)
(* cover.py, fan.py) sends for a choice of the user, with the payloads of  *)
(* lib/device_control.py, and what it shows of the state that comes back.  *)
(*                                                                         *)
(* Most payloads carry the whole setting of the device, so an entity fills *)
(* in what the user did not choose from the state it has cached, which is  *)
(* behind the device while a command or a report is under way.  Where it   *)
(* has no such state to fill in, or does not use it, a payload has a 0 or  *)
(* a default: Loses names the choices that are lost by that.  Commands may *)
(* fail, reports may be lost; both keep their order.                       *)
(***************************************************************************)
EXTENDS Integers, Sequences

CONSTANTS
    Kinds,        \* kinds of devices, see AllKinds
    Brightness,   \* brightness values the user picks (Home Assistant takes 0 for off)
    Kelvins,      \* colour temperatures
    Percents,     \* positions and fan speeds
    Temps,        \* target temperatures, in tenths of a degree
    Choices,      \* bound: choices the user makes
    None

\* 36; 38; 1; 503; 502; a relay with the profile power_only_light; 34 and 35; 516.
AllKinds == {"aircon", "tunable", "bulb", "strip", "dimmer", "relay", "cover", "fan"}

\* The colours the entity offers in kelvin, and what the values of a device may be.
ColorMin == 2700
ColorMax == 6000
ColorLimit == 6500
TempLimit == 3000
Settings == (0..100) \X (0..255) \X (0..ColorLimit) \X (0..TempLimit)

ASSUME DeviceAssumption ==
    /\ Kinds \subseteq AllKinds
    /\ Brightness \subseteq 1..255 /\ Percents \subseteq 0..100 /\ Temps \subseteq 160..300
    /\ Kelvins \subseteq ColorMin..ColorMax /\ Choices \in Nat
    /\ None \notin Int \union BOOLEAN \union Settings

VARIABLES
    kind,       \* what the device is
    dev,        \* its values: <<value1, value2, value3, value4>>, see Values
    cache,      \* the values the entity reads, None before the first state
    commands,   \* commands on their way to the device
    reports,    \* reports on their way back
    wish,       \* history: component -> what the user chose for it last, or None
    kept,       \* history: component -> no command since has lost that choice
    left        \* choices still allowed by the bound

vars == <<kind, dev, cache, commands, reports, wish, kept, left>>
-----------------------------------------------------------------------------
\* value1 is 0 for on and 1 for off, a position, or a fan's preset.  An air
\* conditioner has its mode, fan and target temperature (the high half of value4,
\* in hundredths) in the other three, a light its level and its colour.  A
\* property light has no values but the properties onoff, percent and colorTemp:
\* they take the places of the first three here, and Keep stands for a property
\* that a payload does not name.  A fan may report the properties onoff (1 for on,
\* 2 for off) and fanSpeed (its percent and 1 more) besides value1: they are its
\* second and third value, 0 where it does not report them.
Keep == -1
Values(order, v1, v2, v3, v4) == [order |-> order, v |-> <<v1, v2, v3, v4>>]
Props(onoff, percent, kelvin) == Values("set_property", onoff, percent, kelvin, Keep)
PropertyLight == kind \in {"strip", "dimmer"}
Light == kind \in {"tunable", "bulb", "strip", "dimmer", "relay"}

Clamp(lo, x, hi) == IF x < lo THEN lo ELSE IF x > hi THEN hi ELSE x
\* Slip: the brightness goes out as it is.
PercentUnscaled(b) == IF b < 1 THEN 1 ELSE b
Percent(b) == IF (b * 100) \div 255 < 1 THEN 1 ELSE (b * 100) \div 255
Kelvin(k) == Clamp(ColorMin, k, ColorLimit)
Reciprocal(x) == 1000000 \div x   \* a mired of a kelvin, and back
Mired(k) == Reciprocal(Kelvin(k))
-----------------------------------------------------------------------------
\* Payloads of lib/device_control.py, their orders with _ for a space.
light_on == IF PropertyLight THEN Props(0, Keep, Keep) ELSE Values("on", 0, 255, 0, 0)
light_off == IF PropertyLight THEN Props(1, Keep, Keep) ELSE Values("off", 1, 0, 0, 0)
power_only_light(on) == Values(IF on THEN "on" ELSE "off", IF on THEN 0 ELSE 1, 0, 0, 0)

light_brightness(b) ==
    IF PropertyLight THEN Props(Keep, Percent(b), Keep)
    ELSE Values(IF kind = "tunable" THEN "move_to_level" ELSE "on", 0, b, 0, 0)

light_colortemp(k, b) ==
    IF kind = "strip" THEN Props(Keep, Keep, Kelvin(k))
    ELSE Values("fast_color_temperature", 0, b, Mired(k), 0)

light_on_off(b, k) ==
    IF kind = "strip" THEN Props(0, Percent(b), Kelvin(k))
    ELSE Values("on", 0, b, Mired(k), 0)

curtain_control(cmd, position) ==
    CASE cmd = "open" -> Values("on", 100, 0, 0, 0)
      [] cmd = "close" -> Values("off", 0, 0, 0, 0)
      [] cmd = "stop" -> Values("stop", 0, 0, 0, 0)
      [] cmd = "position" -> Values(IF position >= 50 THEN "on" ELSE "off", position, 0, 0, 0)

ventilation_control(v1) == Values("set_property", v1, 0, 0, 0)
fan_set_speed(percent) ==
    ventilation_control(IF percent = 0 THEN 50 ELSE IF percent <= 50 THEN 0 ELSE 100)

\* The present mode, fan and temperature, as far as the cached state has them.
ModeOf(st) == IF st = None \/ st[2] = 0 THEN 3 ELSE st[2]
FanOf(st) == IF st # None /\ st[3] \in 1..3 THEN st[3] ELSE 1
TempOf(st) == IF st # None /\ st[4] > 0 THEN st[4] ELSE 2500

ac_off == Values("off", 1, 0, 0, 0)
ac_on_with_mode(mode, st) == Values("on", 0, mode, FanOf(st), TempOf(st))
ac_set_temp(temp, st) == Values("temperature_setting", 0, ModeOf(st), FanOf(st), (temp \div 10) * 100)
\* Slip: the defaults, whatever the state.
WindDefaults(speed, st) == Values("wind_setting", 0, 3, speed, 2500)
ac_wind(speed, st) == Values("wind_setting", 0, ModeOf(st), speed, TempOf(st))
-----------------------------------------------------------------------------
\* What the entity shows of values st.  Levels and colours are shown while on.
ShownPower(st) ==
    IF kind # "fan" THEN st[1] = 0
    ELSE IF st[2] # 0 THEN st[2] = 1   \* the property comes first
    ELSE st[1] # 50

ShownLevel(st) ==
    CASE kind = "cover" -> Clamp(0, st[1], 100)
      [] kind = "fan" -> IF st[3] # 0 THEN st[3] - 1
                         ELSE CASE st[1] = 50 -> 0 [] st[1] = 0 -> 33 [] st[1] = 100 -> 100
                                [] OTHER -> None
      [] PropertyLight -> IF ShownPower(st) THEN (st[2] * 255) \div 100 ELSE None
      [] OTHER -> IF ShownPower(st) THEN Clamp(0, st[2], 255) ELSE None

ShownColor(st) ==
    IF ~ShownPower(st) THEN None
    ELSE IF kind = "strip" THEN st[3]
    ELSE IF st[3] \in 150..400 THEN Reciprocal(st[3]) ELSE None

ShownMode(st) == IF st[2] \in {2, 3, 4, 7} THEN st[2] ELSE 3
ShownFan(st) == IF st[3] \in 1..3 THEN st[3] ELSE 0   \* auto

Components == {"power", "level", "color", "mode", "fan", "temp"}
Shown(c, st) ==
    CASE c = "power" -> ShownPower(st)
      [] c = "level" -> ShownLevel(st)
      [] c = "color" -> ShownColor(st)
      [] c = "mode" -> ShownMode(st)
      [] c = "fan" -> ShownFan(st)
      [] c = "temp" -> st[4] \div 10
-----------------------------------------------------------------------------
\* A choice: the service called, with its argument or two.
Choice(op, a, b) == [op |-> op, a |-> a, b |-> b]
OnOff == {Choice("on", 0, 0), Choice("off", 0, 0)}
Dim == {Choice("brightness", b, 0) : b \in Brightness}
Tint == {Choice("color", k, 0) : k \in Kelvins}
        \union {Choice("both", b, k) : b \in Brightness, k \in Kelvins}

Modes == {2, 3, 4, 7}

\* A temperature may come with a mode (or 0 for none), and 0 is the fan mode auto.
ChoicesOf ==
    CASE kind = "aircon" -> {Choice("off", 0, 0)} \union {Choice("mode", m, 0) : m \in Modes}
                            \union {Choice("temp", t, m) : t \in Temps, m \in Modes \union {0}}
                            \union {Choice("fan", f, 0) : f \in 0..3}
      [] kind \in {"tunable", "bulb", "strip"} -> OnOff \union Dim \union Tint
      [] kind = "dimmer" -> OnOff \union Dim
      [] kind = "relay" -> OnOff
      [] kind = "cover" -> {Choice("open", 100, 0), Choice("close", 0, 0), Choice("stop", 0, 0)}
                           \union {Choice("position", p, 0) : p \in Percents}
      [] kind = "fan" -> OnOff \union {Choice("speed", p, 0) : p \in Percents}

\* async_turn_on, async_turn_off and the other services: the payload of choice c,
\* composed from the cached state st.
Payload(c, st) ==
    LET known == st # None /\ ShownPower(st) /\ ShownLevel(st) # 0
    IN CASE kind = "aircon" ->
              (CASE c.op = "off" -> ac_off
                 [] c.op = "mode" -> ac_on_with_mode(c.a, st)
                 [] c.op = "temp" -> ac_set_temp(c.a, st)
                 [] c.op = "fan" -> ac_wind(IF c.a = 0 THEN 1 ELSE c.a, st))
         [] kind = "relay" -> power_only_light(c.op = "on")
         [] kind = "cover" -> curtain_control(c.op, c.a)
         [] kind = "fan" ->
              (CASE c.op = "on" -> ventilation_control(100)
                 [] c.op = "off" -> ventilation_control(50)
                 [] c.op = "speed" -> fan_set_speed(c.a))
         [] OTHER ->
              (CASE c.op = "on" -> light_on
                 [] c.op = "off" -> light_off
                 [] c.op = "brightness" -> light_brightness(c.a)
                 [] c.op = "color" -> light_colortemp(c.a, IF known THEN ShownLevel(st) ELSE 255)
                 [] c.op = "both" -> light_on_off(c.a, c.b))

\* A speed of 0 stops a fan.
Stops(c) == c.op = "off" \/ (c.op = "speed" /\ c.a = 0)

\* What choice c asks for, as a set of pairs <<component, value>>.
Asks(c) ==
    IF kind = "fan"
    THEN IF Stops(c) THEN {<<"power", FALSE>>}
         ELSE {<<"power", TRUE>>, <<"level", IF c.op = "on" THEN 100 ELSE c.a>>}
    ELSE CASE c.op = "off" -> {<<"power", FALSE>>}
         [] c.op = "on" -> {<<"power", TRUE>>}
         [] c.op = "brightness" -> {<<"level", c.a>>} \union
                                   IF PropertyLight THEN {} ELSE {<<"power", TRUE>>}
         [] c.op = "color" -> {<<"color", c.a>>} \union
                              IF PropertyLight THEN {} ELSE {<<"power", TRUE>>}
         [] c.op = "both" -> {<<"power", TRUE>>, <<"level", c.a>>, <<"color", c.b>>}
         [] c.op = "mode" -> {<<"power", TRUE>>, <<"mode", c.a>>}
         [] c.op = "temp" -> {<<"power", TRUE>>, <<"temp", c.a>>} \union
                             IF c.b = 0 THEN {} ELSE {<<"mode", c.b>>}
         [] c.op = "fan" -> {<<"power", TRUE>>, <<"fan", c.a>>}
         [] c.op \in {"open", "close", "position"} -> {<<"level", c.a>>}
         [] c.op = "stop" -> {}

\* The components that the payload of choice c has neither as the user chose them nor
\* from the cached state: an air conditioner's off has a 0 for its settings, the fan
\* mode auto goes out as low, the mode that came with a temperature not at all; a light
\* with values is told level 255 by on and 0 by off, and a colour only by what sets it;
\* a fan that is stopped is told no speed.
Loses(c) ==
    CASE kind = "aircon" -> (CASE c.op = "off" -> {"mode", "fan", "temp"}
                               [] c.op = "fan" /\ c.a = 0 -> {"fan"}
                               [] c.op = "temp" /\ c.b # 0 -> {"mode"}
                               [] OTHER -> {})
      [] kind \in {"tunable", "bulb"} -> (CASE c.op \in {"on", "off"} -> {"level", "color"}
                                            [] c.op = "brightness" -> {"color"}
                                            [] OTHER -> {})
      [] kind = "fan" -> IF Stops(c) THEN {"level"} ELSE {}
      [] OTHER -> {}

\* What a fan that reports a fanSpeed may say after value1 v1, in percent and 1 more;
\* nothing is known of its speed while it is stopped.
Speeds(v1) == {x + 1 : x \in Percents \intersect (CASE v1 = 50 -> 0..100
                                                   [] v1 = 0 -> 1..50
                                                   [] v1 = 100 -> 51..100)}

\* What a device may have after payload p.  It takes what the payload has; whether the
\* zeros of an air conditioner's off and a colour of 0 count is left open.  A property
\* light takes the properties named, a curtain stops where it is, and a fan reports the
\* properties it reported before.
Adopts(p) ==
    CASE p.order = "stop" -> {dev}
      [] kind = "aircon" /\ p.order = "off" -> {p.v, [dev EXCEPT ![1] = 1]}
      [] PropertyLight -> LET New(i) == IF p.v[i] = Keep THEN dev[i] ELSE p.v[i]
                          IN {<<New(1), New(2), New(3), New(4)>>}
      [] Light /\ ~PropertyLight -> {p.v, [p.v EXCEPT ![3] = IF @ = 0 THEN dev[3] ELSE @]}
      [] kind = "fan" -> {<<p.v[1], IF dev[2] = 0 THEN 0 ELSE IF p.v[1] = 50 THEN 2 ELSE 1, q, 0>> :
                             q \in IF dev[3] = 0 THEN {0} ELSE Speeds(p.v[1])}
      [] OTHER -> {p.v}

\* The entity shows value x of component c, up to what the units lose: a percent
\* of a level, a mired of a colour, one of three presets of a fan, the fraction of a
\* degree.
Shows(c, st, x) ==
    LET y == Shown(c, st) IN
    IF st = None \/ y = None THEN FALSE
    ELSE CASE c = "level" /\ kind = "fan" ->
                  y \in (IF x <= 50 THEN 1..50 ELSE 51..100)
           [] c = "level" /\ PropertyLight -> y \in x-3..x+2
           [] c = "color" /\ kind # "strip" -> y \in x..x+40
           [] c = "temp" -> x \in y..y+9
           [] OTHER -> y = x
-----------------------------------------------------------------------------
Defaults == [c \in Components |-> None]

\* Some setting of each kind of device, and an entity that has its state or none.
Init ==
    /\ kind \in Kinds
    /\ dev \in CASE kind = "aircon" -> {<<0, 4, 2, 2200>>}
                 [] kind = "strip" -> {<<1, 40, 4000, 0>>}
                 [] kind = "dimmer" -> {<<0, 40, 0, 0>>}
                 [] kind = "cover" -> {<<50, 0, 0, 0>>}
                 [] kind = "fan" -> {<<50, 0, 0, 0>>, <<50, 2, 0, 0>>, <<50, 2, 1, 0>>}
                 [] OTHER -> {<<0, 200, 250, 0>>}
    /\ cache \in {None, dev}
    /\ commands = <<>> /\ reports = <<>>
    /\ wish = Defaults
    /\ kept = [c \in Components |-> FALSE]
    /\ left = Choices

\* The user makes a choice; the command goes to async_control_device, together with
\* the state it was composed from.
Choose(c) ==
    /\ left > 0
    /\ left' = left - 1
    /\ commands' = Append(commands, [payload |-> Payload(c, cache), choice |-> c, base |-> cache])
    /\ UNCHANGED <<kind, dev, cache, reports, wish, kept>>

\* The device takes the first command, and reports.
Deliver ==
    /\ commands # <<>>
    /\ LET command == Head(commands)
           About(c) == {w \in Asks(command.choice) : w[1] = c} IN
       /\ dev' \in Adopts(command.payload)
       /\ wish' = [c \in Components |->
                     IF About(c) = {} THEN wish[c] ELSE (CHOOSE w \in About(c) : TRUE)[2]]
       /\ kept' = [c \in Components |->
                     /\ c \notin Loses(command.choice)
                     /\ About(c) # {} \/ (kept[c] /\ Shows(c, command.base, wish[c]))]
    /\ reports' = Append(reports, dev')
    /\ commands' = Tail(commands)
    /\ UNCHANGED <<kind, cache, left>>

\* The command fails before it reaches the device; the user is told.
CommandFails ==
    /\ commands # <<>>
    /\ commands' = Tail(commands)
    /\ UNCHANGED <<kind, dev, cache, reports, wish, kept, left>>

Report ==
    /\ reports # <<>>
    /\ cache' = Head(reports)
    /\ reports' = Tail(reports)
    /\ UNCHANGED <<kind, dev, commands, wish, kept, left>>

ReportLost ==
    /\ reports # <<>>
    /\ reports' = Tail(reports)
    /\ UNCHANGED <<kind, dev, cache, commands, wish, kept, left>>

Next == (\E c \in ChoicesOf : Choose(c)) \/ Deliver \/ CommandFails \/ Report \/ ReportLost

Spec == Init /\ [][Next]_vars
-----------------------------------------------------------------------------
\* Every variable has its type; no payload leaves the range of its values.
TypeOK ==
    /\ kind \in Kinds
    /\ dev \in Settings
    /\ PropertyLight => dev[2] \in 1..100
    /\ cache = None \/ cache \in Settings
    /\ DOMAIN wish = Components
    /\ kept \in [Components -> BOOLEAN]
    /\ left \in 0..Choices

\* What shows only while the device is on.
Visible(c) == c = "power" \/ kind \in {"cover", "fan"} \/ ShownPower(cache)

\* A choice stays until it is made again or lost (Loses), as long as the commands
\* after it were composed from a state that showed it: once the device has reported,
\* the entity shows the temperature chosen before the fan speed, the level chosen
\* before the colour, whatever failed or was lost in between.
KnownChoicesStay ==
    cache = dev => \A c \in Components :
        kept[c] /\ Visible(c) => Shows(c, cache, wish[c])
=============================================================================
