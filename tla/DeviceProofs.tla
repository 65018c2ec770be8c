---------------------------- MODULE DeviceProofs ----------------------------
(***************************************************************************)
(* What an entity keeps of the user's choices, for all brightnesses,       *)
(* colours, positions and temperatures and any number of choices.          *)
(***************************************************************************)
EXTENDS Devices, TLAPS

\* The values a device of this kind can have.
Good(st) ==
    /\ st \in Settings
    /\ kind = "aircon" => st[2] \in {0, 2, 3, 4, 7} /\ st[3] \in 0..3
    /\ PropertyLight => st[2] \in 1..100
    /\ kind \in {"tunable", "bulb"} => st[3] \in 150..400 \/ st[3] = 0
    /\ kind = "fan" => st[1] \in {0, 50, 100} /\ st[2] \in 0..2 /\ st[3] \in 0..101

\* What can be chosen of each kind and is not lost: components and their values.
Wishable ==
    CASE kind = "aircon" -> ({"power"} \X BOOLEAN) \union ({"mode"} \X {2, 3, 4, 7})
                            \union ({"fan"} \X (1..3)) \union ({"temp"} \X (160..300))
      [] kind = "relay" -> {"power"} \X BOOLEAN
      [] kind = "cover" -> {"level"} \X (0..100)
      [] kind = "fan" -> ({"power"} \X BOOLEAN) \union ({"level"} \X (1..100))
      [] OTHER -> ({"power"} \X BOOLEAN) \union ({"level"} \X (1..255))
                  \union ({"color"} \X (ColorMin..ColorMax))

\* The device has value x of component c, also while it is off, as far as it keeps it
\* then: the level of a light that is no property light is gone.
Holds(c, st, x) ==
    IF Light /\ c # "power"
      THEN IF c = "level" /\ ~PropertyLight THEN st[1] = 0 => Shows(c, st, x)
           ELSE Shows(c, [st EXCEPT ![1] = 0], x)
      ELSE Shows(c, st, x)

\* A choice that is still known is one of this kind of device, and the device has it.
\* st and x are names for dev and wish[c] that mean the same in the next state.
Kept ==
    \A c \in Components : \A st \in {dev}, x \in {wish[c]} :
        kept[c] => <<c, x>> \in Wishable /\ Holds(c, st, x)
-----------------------------------------------------------------------------
\* Settings and their places.
LEMMA SettingParts ==
    ASSUME NEW st \in Settings
    PROVE  /\ st # None
           /\ st[1] \in 0..100 /\ st[2] \in 0..255
           /\ st[3] \in 0..ColorLimit /\ st[4] \in 0..TempLimit
           /\ st[1] \in Int /\ st[2] \in Int /\ st[3] \in Int /\ st[4] \in Int
<1>1. st # None
  BY DeviceAssumption DEF Settings
<1>2. st[1] \in 0..100 /\ st[2] \in 0..255 /\ st[3] \in 0..ColorLimit /\ st[4] \in 0..TempLimit
  BY DEF Settings
<1>3. st[1] \in Int /\ st[2] \in Int /\ st[3] \in Int /\ st[4] \in Int
  BY <1>2, SMT
<1>4. QED
  BY <1>1, <1>2, <1>3

\* What a value shows as is never the absence of one.
LEMMA NumberIsNotNone == \A x \in Int : x # None
BY DeviceAssumption

\* Four values in range are a setting.
LEMMA SettingOf ==
    ASSUME NEW v1 \in 0..100, NEW v2 \in 0..255, NEW v3 \in 0..ColorLimit, NEW v4 \in 0..TempLimit
    PROVE  <<v1, v2, v3, v4>> \in Settings
<1>1. \A A, B, C, D : \A x \in A, y \in B, z \in C, w \in D : <<x, y, z, w>> \in A \X B \X C \X D
  OBVIOUS
<1>2. QED
  BY <1>1, Zenon DEF Settings

\* A setting but for its first value.
LEMMA FirstExcept ==
    ASSUME NEW st \in Settings, NEW v
    PROVE  [st EXCEPT ![1] = v] = <<v, st[2], st[3], st[4]>>
BY DEF Settings

\* A setting switched on.
LEMMA Switched ==
    ASSUME NEW st \in Settings
    PROVE  \E on \in Settings : /\ on = [st EXCEPT ![1] = 0]
                               /\ on[1] = 0 /\ on[2] = st[2] /\ on[3] = st[3] /\ on[4] = st[4]
<1>1. PICK on : on = <<0, st[2], st[3], st[4]>>
  OBVIOUS
<1>2. on = [st EXCEPT ![1] = 0]
  BY <1>1, FirstExcept
<1>3. 0 \in 0..100
  BY SMT
<1>4. on \in Settings
  <2>1. st[2] \in 0..255 /\ st[3] \in 0..ColorLimit /\ st[4] \in 0..TempLimit
    BY SettingParts
  <2>2. <<0, st[2], st[3], st[4]>> \in Settings
    BY <1>3, <2>1, SettingOf
  <2>3. QED
    BY <1>1, <2>2
<1>5. on[1] = 0 /\ on[2] = st[2] /\ on[3] = st[3] /\ on[4] = st[4]
  BY <1>1
<1>6. QED
  BY <1>2, <1>4, <1>5, Zenon
-----------------------------------------------------------------------------
(* Units: what a percent loses of a brightness, a mired of a colour. *)

\* A brightness comes back from a percent at most 3 below and 2 above.
LEMMA LevelPercents ==
    ASSUME NEW b \in 1..255
    PROVE  Percent(b) \in 1..100 /\ (Percent(b) * 255) \div 100 \in b-3..b+2
BY DEF Percent

\* What an integer division leaves.
LEMMA Quotient ==
    ASSUME NEW a \in Int, NEW b \in Int, b > 0
    PROVE  a \div b \in Int /\ b * (a \div b) <= a /\ a < b * (a \div b) + b
BY SMT

\* A colour the entity offers has a mired it accepts, and comes back from it at
\* most 40 kelvin above: k * m and m * y are within k and m of a million.
LEMMA ColorMireds ==
    ASSUME NEW k \in Int, k >= 2700, k <= 6000
    PROVE  Mired(k) \in 150..400 /\ Reciprocal(Mired(k)) \in k..k+40
<1> DEFINE m == 1000000 \div k
<1>1. Mired(k) = m
  BY SMT DEF Mired, Reciprocal, Kelvin, Clamp, ColorMin, ColorLimit
<1> DEFINE p == k * m
<1>2. m \in Int /\ p \in Int /\ p <= 1000000 /\ 1000000 < p + k
  BY Quotient, SMT
<1> HIDE DEF m, p
<1>3. m \in 166..370
  <2>1. CASE m >= 371
    <3>1. p >= k * 371
      BY <1>2, <2>1, SMT DEF p
    <3>2. QED
      BY <1>2, <3>1, SMT
  <2>2. CASE m <= 165
    <3>1. p <= k * 165
      BY <1>2, <2>2, SMT DEF p
    <3>2. QED
      BY <1>2, <3>1, SMT
  <2>3. QED
    BY <1>2, <2>1, <2>2, SMT
<1> DEFINE y == 1000000 \div m
           q == m * y
<1>4. y \in Int /\ q \in Int /\ q <= 1000000 /\ 1000000 < q + m
  BY <1>3, SMT
<1> HIDE DEF y, q
<1>5. y >= k
  <2>1. CASE y <= k - 1
    <3>1. q <= m * (k - 1)
      BY <1>3, <1>4, <2>1, SMT DEF q
    <3>2. m * (k - 1) = p - m
      BY <1>3, SMT DEF p
    <3>3. QED
      BY <1>2, <1>3, <1>4, <3>1, <3>2, SMT
  <2>2. QED
    BY <1>4, <2>1, SMT
<1>6. y <= k + 40
  <2>1. CASE y >= k + 41
    <3>1. q >= m * (k + 41)
      BY <1>3, <1>4, <2>1, SMT DEF q
    <3>2. m * (k + 41) = p + 41 * m
      BY <1>3, SMT DEF p
    <3>3. QED
      BY <1>2, <1>3, <1>4, <3>1, <3>2, SMT
  <2>2. QED
    BY <1>4, <2>1, SMT
<1>7. QED
  BY <1>1, <1>3, <1>4, <1>5, <1>6, SMT DEF y, Reciprocal
-----------------------------------------------------------------------------
\* The device is at new after a command for choice ch composed from base: what was
\* chosen is so, and what was not but showed at base has stayed, unless it was lost.
Takes(new, ch, base) ==
    /\ Good(new)
    /\ \A c, x : <<c, x>> \in Asks(ch) /\ c \notin Loses(ch) =>
                     <<c, x>> \in Wishable /\ Holds(c, new, x)
    /\ \A c, x : /\ <<c, x>> \in Wishable /\ Holds(c, dev, x) /\ Shows(c, base, x)
                 /\ c \notin Loses(ch)
                 /\ \A y : <<c, y>> \notin Asks(ch)
                 => Holds(c, new, x)

\* An air conditioner shows its values as they are, but for a mode of 0.
LEMMA AirconShows ==
    ASSUME kind = "aircon", NEW st, Good(st)
    PROVE  /\ \A x \in BOOLEAN : Holds("power", st, x) <=> (x <=> st[1] = 0)
           /\ \A x : Holds("mode", st, x) <=> x = (IF st[2] = 0 THEN 3 ELSE st[2])
           /\ \A x : Holds("fan", st, x) <=> x = st[3]
           /\ \A x : Holds("temp", st, x) <=> x \in (st[4] \div 10)..(st[4] \div 10)+9
           /\ \A c, x : Holds(c, st, x) <=> Shows(c, st, x)
<1>1. /\ st # None /\ st[2] \in {0, 2, 3, 4, 7} /\ st[3] \in 0..3 /\ st[4] \in 0..TempLimit
      /\ ~Light /\ ~PropertyLight
  BY SettingParts DEF Good, Light, PropertyLight
<1>2. \A c, x : Holds(c, st, x) <=> Shows(c, st, x)
  BY <1>1 DEF Holds
<1>3. \A x \in BOOLEAN : Shows("power", st, x) <=> (x <=> st[1] = 0)
  BY <1>1, DeviceAssumption DEF Shows, Shown, ShownPower
<1>4. \A x : Shows("mode", st, x) <=> x = (IF st[2] = 0 THEN 3 ELSE st[2])
  BY <1>1, DeviceAssumption DEF Shows, Shown, ShownMode
<1>5. \A x : Shows("fan", st, x) <=> x = st[3]
  <2>1. ShownFan(st) = st[3]
    BY <1>1 DEF ShownFan
  <2>2. QED
    BY <1>1, <2>1, DeviceAssumption DEF Shows, Shown
<1>6. \A x : Shows("temp", st, x) <=> x \in (st[4] \div 10)..(st[4] \div 10)+9
  <2> DEFINE y == st[4] \div 10
  <2>1. Shown("temp", st) = y
    BY DEF Shown
  <2>2. y \in Int
    <3>1. \A x \in Int : x \div 10 \in Int
      BY Quotient, SMT
    <3>2. st[4] \in Int
      BY SettingParts DEF Good
    <3>3. QED
      BY <3>1, <3>2, Zenon
  <2> HIDE DEF y
  <2>3. y # None
    BY <2>2, DeviceAssumption
  <2>4. \A x : Shows("temp", st, x) <=> x \in y..y+9
    BY <1>1, <2>1, <2>3 DEF Shows
  <2>5. QED
    BY <2>4 DEF y
<1>7. QED
  BY <1>2, <1>3, <1>4, <1>5, <1>6

\* The temperature sent, and what of it is shown.
LEMMA Degrees ==
    ASSUME NEW t \in 160..300
    PROVE  /\ (t \div 10) * 100 \in 0..TempLimit
           /\ t \in (((t \div 10) * 100) \div 10)..(((t \div 10) * 100) \div 10)+9
<1> DEFINE d == t \div 10
<1>1. d \in Int /\ 10 * d <= t /\ t < 10 * d + 10
  BY SMT
<1> HIDE DEF d
<1>2. d * 100 \in 0..TempLimit /\ (d * 100) \div 10 = 10 * d
  BY <1>1, SMT DEF TempLimit
<1>3. t \in (10 * d)..(10 * d)+9
  BY <1>1, SMT
<1>4. QED
  BY <1>2, <1>3 DEF d

\* Every command to an air conditioner but off fills in mode, fan and temperature from
\* base.
LEMMA AirconTakes ==
    ASSUME kind = "aircon", Good(dev), NEW ch \in ChoicesOf, NEW base, base = None \/ Good(base),
           NEW new \in Adopts(Payload(ch, base))
    PROVE  Takes(new, ch, base)
<1>1. ~Light /\ ~PropertyLight /\ dev \in Settings
  BY DEF Light, PropertyLight, Good
<1>2. \/ ch = Choice("off", 0, 0)
      \/ \E m \in {2, 3, 4, 7} : ch = Choice("mode", m, 0)
      \/ \E t \in Temps, m \in {0, 2, 3, 4, 7} : ch = Choice("temp", t, m)
      \/ \E f \in 0..3 : ch = Choice("fan", f, 0)
  BY DEF ChoicesOf, Modes
<1>3. Wishable = ({"power"} \X BOOLEAN) \union ({"mode"} \X {2, 3, 4, 7})
                 \union ({"fan"} \X (1..3)) \union ({"temp"} \X (160..300))
  BY DEF Wishable
<1>4. /\ ModeOf(base) \in {2, 3, 4, 7} /\ FanOf(base) \in 1..3
      /\ TempOf(base) \in 0..TempLimit
      /\ base # None => /\ ModeOf(base) = (IF base[2] = 0 THEN 3 ELSE base[2])
                        /\ base[3] \in 1..3 => FanOf(base) = base[3]
                        /\ base[4] > 0 => TempOf(base) = base[4]
  <2>1. CASE base = None
    BY <2>1, SMT DEF ModeOf, FanOf, TempOf, TempLimit
  <2>2. CASE Good(base)
    <3>1. /\ base # None /\ base[2] \in {0, 2, 3, 4, 7} /\ base[3] \in 0..3
          /\ base[4] \in 0..TempLimit
      BY <2>2, SettingParts DEF Good
    <3>2. 2500 \in 0..TempLimit
      BY SMT DEF TempLimit
    <3>3. QED
      BY <3>1, <3>2 DEF ModeOf, FanOf, TempOf
  <2>3. QED
    BY <2>1, <2>2
<1>5. ASSUME NEW p \in {0, 1}, NEW m \in {0, 2, 3, 4, 7}, NEW f \in 0..3,
             NEW t \in 0..TempLimit, new = <<p, m, f, t>>
      PROVE  Good(new) /\ new[1] = p /\ new[2] = m /\ new[3] = f /\ new[4] = t
  <2>1. p \in 0..100 /\ m \in 0..255 /\ f \in 0..ColorLimit
    BY SMT DEF ColorLimit
  <2>2. new \in Settings
    BY <1>5, <2>1, SettingOf, Zenon
  <2>3. new[1] = p /\ new[2] = m /\ new[3] = f /\ new[4] = t
    BY <1>5
  <2>4. QED
    BY <1>1, <1>5, <2>2, <2>3 DEF Good
<1>6. ASSUME NEW m \in {2, 3, 4, 7}, NEW f \in 1..3, NEW t \in 0..TempLimit,
             new = <<0, m, f, t>>, NEW k \in {"mode", "fan", "temp"}, NEW v,
             <<"power", TRUE>> \in Asks(ch), <<k, v>> \in Asks(ch),
             \A c, x : <<c, x>> \in Asks(ch) /\ c \notin Loses(ch) =>
                          <<c, x>> = <<"power", TRUE>> \/ <<c, x>> = <<k, v>>,
             k \notin Loses(ch) => <<k, v>> \in Wishable /\ (Good(new) => Holds(k, new, v)),
             k = "mode" \/ m = ModeOf(base), k = "fan" \/ f = FanOf(base),
             k = "temp" \/ t = TempOf(base)
      PROVE  Takes(new, ch, base)
  <2>1. Good(new) /\ new[1] = 0 /\ new[2] = m /\ new[3] = f /\ new[4] = t
    BY <1>5, <1>6
  <2>2. <<"power", TRUE>> \in Wishable /\ Holds("power", new, TRUE)
    BY <1>3, <2>1, AirconShows
  <2>3. ASSUME NEW c, NEW x, <<c, x>> \in Asks(ch), c \notin Loses(ch)
        PROVE  <<c, x>> \in Wishable /\ Holds(c, new, x)
    <3>1. CASE <<c, x>> = <<"power", TRUE>>
      <4>1. c = "power" /\ x = TRUE
        BY <3>1
      <4>2. QED
        BY <2>2, <4>1
    <3>2. CASE <<c, x>> = <<k, v>>
      <4>1. c = k /\ x = v
        BY <3>2
      <4>2. QED
        BY <1>6, <2>1, <2>3, <4>1
    <3>3. QED
      BY <1>6, <2>3, <3>1, <3>2
  <2>4. ASSUME NEW c, NEW x, <<c, x>> \in Wishable, \A y : <<c, y>> \notin Asks(ch),
               Shows(c, base, x)
        PROVE  Holds(c, new, x)
    <3>1. base # None /\ Good(base)
      BY <2>4 DEF Shows
    <3>2. c # "power" /\ c # k
      BY <1>6, <2>4
    <3>3. CASE c = "mode"
      BY <1>4, <1>6, <2>1, <2>4, <3>1, <3>2, <3>3, AirconShows
    <3>4. CASE c = "fan" /\ x \in 1..3
      BY <1>4, <1>6, <2>1, <2>4, <3>1, <3>2, <3>4, AirconShows
    <3>5. CASE c = "temp" /\ x \in 160..300
      <4>1. x \in (base[4] \div 10)..(base[4] \div 10)+9
        BY <2>4, <3>1, <3>5, AirconShows
      <4>2. base[4] \in Int /\ base[4] >= 0
        <5>1. base[4] \in 0..TempLimit /\ TempLimit \in Int
          BY <3>1, SettingParts, SMT DEF Good, TempLimit
        <5>2. QED
          BY <5>1, SMT
      <4>3. base[4] > 0
        <5>1. x \in Int /\ x >= 160
          BY <3>5
        <5>2. base[4] = 0 => base[4] \div 10 = 0
          BY SMT
        <5>3. QED
          BY <4>1, <4>2, <5>1, <5>2, SMT
      <4>4. new[4] = base[4]
        BY <1>4, <1>6, <2>1, <3>1, <3>2, <3>5, <4>3
      <4>5. QED
        BY <2>1, <3>5, <4>1, <4>4, AirconShows
    <3>6. QED
      BY <1>3, <2>4, <3>2, <3>3, <3>4, <3>5
  <2>5. QED
    BY <2>1, <2>3, <2>4 DEF Takes
<1>7. CASE ch = Choice("off", 0, 0)
  <2>1. /\ Payload(ch, base) = Values("off", 1, 0, 0, 0) /\ Asks(ch) = {<<"power", FALSE>>}
        /\ Loses(ch) = {"mode", "fan", "temp"}
    BY <1>7 DEF Payload, ac_off, Choice, Asks, Loses
  <2>2. Payload(ch, base).order = "off" /\ Payload(ch, base).v = <<1, 0, 0, 0>>
    BY <2>1 DEF Values
  <2>3. new = <<1, 0, 0, 0>> \/ new = <<1, dev[2], dev[3], dev[4]>>
    BY <1>1, <2>2, FirstExcept DEF Adopts
  <2>4. /\ dev[2] \in {0, 2, 3, 4, 7} /\ dev[3] \in 0..3 /\ dev[4] \in 0..TempLimit
        /\ 0 \in 0..3 /\ 0 \in 0..TempLimit
    BY SettingParts, SMT DEF Good, TempLimit
  <2>5. Good(new) /\ new[1] = 1
    BY <1>5, <2>3, <2>4
  <2>6. <<"power", FALSE>> \in Wishable /\ Holds("power", new, FALSE)
    <3>1. <<"power", FALSE>> \in Wishable
      BY <1>3
    <3>2. Holds("power", new, FALSE) <=> (FALSE <=> new[1] = 0)
      BY <2>5, AirconShows, Zenon
    <3>3. ~(new[1] = 0)
      BY <2>5
    <3>4. QED
      BY <3>1, <3>2, <3>3, Zenon
  <2>7. \A c, x : <<c, x>> \in Wishable => c \in Loses(ch) \/ <<c, FALSE>> \in Asks(ch)
    BY <1>3, <2>1
  <2>8. \A c, x : <<c, x>> \in Asks(ch) => c = "power" /\ x = FALSE
    BY <2>1
  <2>9. QED
    BY <2>5, <2>6, <2>7, <2>8 DEF Takes
<1>8. ASSUME NEW m \in {2, 3, 4, 7}, ch = Choice("mode", m, 0)
      PROVE  Takes(new, ch, base)
  <2>1. /\ Payload(ch, base) = Values("on", 0, m, FanOf(base), TempOf(base))
        /\ Asks(ch) = {<<"power", TRUE>>, <<"mode", m>>} /\ Loses(ch) = {}
    BY <1>8 DEF Payload, ac_on_with_mode, Choice, Asks, Loses
  <2>2. new = <<0, m, FanOf(base), TempOf(base)>>
    BY <1>1, <2>1 DEF Adopts, Values
  <2>3. <<"mode", m>> \in Wishable
    BY <1>3
  <2>4. Good(new) /\ new[2] = m
    BY <1>4, <1>5, <2>2
  <2>5. Holds("mode", new, m)
    BY <2>4, AirconShows
  <2>6. QED
    BY <1>4, <1>6, <2>1, <2>2, <2>3, <2>5
<1>9. ASSUME NEW f \in 0..3, ch = Choice("fan", f, 0)
      PROVE  Takes(new, ch, base)
  <2> DEFINE g == IF f = 0 THEN 1 ELSE f
  <2>1. /\ Payload(ch, base) = Values("wind_setting", 0, ModeOf(base), g, TempOf(base))
        /\ Asks(ch) = {<<"power", TRUE>>, <<"fan", f>>}
        /\ Loses(ch) = IF f = 0 THEN {"fan"} ELSE {}
    BY <1>9 DEF Payload, ac_wind, Choice, Asks, Loses
  <2>2. g \in 1..3 /\ (f # 0 => g = f /\ f \in 1..3)
    OBVIOUS
  <2> HIDE DEF g
  <2>3. new = <<0, ModeOf(base), g, TempOf(base)>>
    BY <1>1, <2>1 DEF Adopts, Values
  <2>4. "fan" \notin Loses(ch) => f # 0
    BY <2>1
  <2>5. f # 0 => <<"fan", f>> \in Wishable
    BY <1>3, <2>2
  <2>6. Good(new) /\ new[3] = g
    BY <1>4, <1>5, <2>2, <2>3
  <2>7. f # 0 => Holds("fan", new, f)
    BY <2>2, <2>6, AirconShows
  <2>8. /\ <<"power", TRUE>> \in Asks(ch) /\ <<"fan", f>> \in Asks(ch)
        /\ \A c, x : <<c, x>> \in Asks(ch) =>
                        <<c, x>> = <<"power", TRUE>> \/ <<c, x>> = <<"fan", f>>
    BY <2>1
  <2>9. QED
    BY <1>4, <1>6, <2>2, <2>3, <2>4, <2>5, <2>7, <2>8
<1>10. ASSUME NEW t \in Temps, NEW h \in {0, 2, 3, 4, 7}, ch = Choice("temp", t, h)
       PROVE  Takes(new, ch, base)
  <2> DEFINE e == (t \div 10) * 100
  <2>1. /\ Payload(ch, base) = Values("temperature_setting", 0, ModeOf(base), FanOf(base), e)
        /\ Asks(ch) = {<<"power", TRUE>>, <<"temp", t>>} \union
                      (IF h = 0 THEN {} ELSE {<<"mode", h>>})
        /\ Loses(ch) = IF h # 0 THEN {"mode"} ELSE {}
    BY <1>10 DEF Payload, ac_set_temp, Choice, Asks, Loses
  <2>2. new = <<0, ModeOf(base), FanOf(base), e>>
    BY <1>1, <2>1 DEF Adopts, Values
  <2>3. t \in 160..300
    BY DeviceAssumption
  <2>4. e \in 0..TempLimit /\ t \in (e \div 10)..(e \div 10)+9
    BY <2>3, Degrees
  <2>5. <<"temp", t>> \in Wishable
    BY <1>3, <2>3
  <2> HIDE DEF e
  <2>6. Good(new) /\ new[4] = e
    BY <1>4, <1>5, <2>2, <2>4
  <2>7. Holds("temp", new, t)
    BY <2>4, <2>6, AirconShows
  <2>8. /\ <<"power", TRUE>> \in Asks(ch) /\ <<"temp", t>> \in Asks(ch)
        /\ \A c, x : <<c, x>> \in Asks(ch) /\ c \notin Loses(ch) =>
                        <<c, x>> = <<"power", TRUE>> \/ <<c, x>> = <<"temp", t>>
    BY <2>1
  <2>9. QED
    BY <1>4, <1>6, <2>2, <2>4, <2>5, <2>7, <2>8
<1>11. QED
  BY <1>2, <1>7, <1>8, <1>9, <1>10
-----------------------------------------------------------------------------
\* What a light other than a property light takes of a payload.
LEMMA LightAdopt ==
    ASSUME Light, ~PropertyLight, NEW o, o # "stop", NEW v1, NEW v2, NEW v3, NEW v4,
           NEW new \in Adopts(Values(o, v1, v2, v3, v4))
    PROVE  \/ new = <<v1, v2, v3, v4>>
           \/ v3 = 0 /\ new = <<v1, v2, dev[3], v4>>
<1>1. kind # "aircon" /\ kind # "fan"
  BY DEF Light
<1>2. [<<v1, v2, v3, v4>> EXCEPT ![3] = IF @ = 0 THEN dev[3] ELSE @]
         = <<v1, v2, IF v3 = 0 THEN dev[3] ELSE v3, v4>>
  OBVIOUS
<1> DEFINE p == Values(o, v1, v2, v3, v4)
<1>3. p.order = o /\ p.v = <<v1, v2, v3, v4>>
  BY DEF Values
<1> HIDE DEF p
<1>4. Adopts(p) = {p.v, [p.v EXCEPT ![3] = IF @ = 0 THEN dev[3] ELSE @]}
  BY <1>1, <1>3 DEF Adopts
<1>5. new = <<v1, v2, v3, v4>> \/ new = <<v1, v2, IF v3 = 0 THEN dev[3] ELSE v3, v4>>
  BY <1>2, <1>3, <1>4 DEF p
<1>6. QED
  BY <1>5

\* Everything but a fan shows the first value as its power.
LEMMA PowerShows ==
    ASSUME kind # "fan", NEW st, Good(st), NEW x \in BOOLEAN
    PROVE  Holds("power", st, x) <=> (x <=> st[1] = 0)
<1>1. st # None
  BY SettingParts DEF Good
<1>2. Shown("power", st) = (st[1] = 0)
  BY DEF Shown, ShownPower
<1>3. Shown("power", st) \in BOOLEAN
  BY <1>2
<1>4. Shown("power", st) # None
  BY <1>3, DeviceAssumption, Zenon
<1>5. Shows("power", st, x) <=> Shown("power", st) = x
  BY <1>1, <1>4 DEF Shows
<1>6. Holds("power", st, x) <=> Shows("power", st, x)
  BY DEF Holds
<1>7. QED
  BY <1>2, <1>5, <1>6

\* A relay is told its power and nothing else.
LEMMA RelayTakes ==
    ASSUME kind = "relay", Good(dev), NEW ch \in ChoicesOf, NEW base, base = None \/ Good(base),
           NEW new \in Adopts(Payload(ch, base))
    PROVE  Takes(new, ch, base)
<1>1. Light /\ ~PropertyLight /\ kind # "fan"
  BY DEF Light, PropertyLight
<1>2. Wishable = {"power"} \X BOOLEAN
  BY DEF Wishable
<1>3. PICK on \in BOOLEAN : ch = Choice(IF on THEN "on" ELSE "off", 0, 0)
  <2>1. ChoicesOf = OnOff
    BY DEF ChoicesOf
  <2>2. CASE ch = Choice("on", 0, 0)
    BY <2>2
  <2>3. CASE ch = Choice("off", 0, 0)
    BY <2>3
  <2>4. QED
    BY <2>1, <2>2, <2>3 DEF OnOff
<1> DEFINE v == IF on THEN 0 ELSE 1
<1>4. /\ Payload(ch, base) = Values(IF on THEN "on" ELSE "off", v, 0, 0, 0)
      /\ Asks(ch) = {<<"power", on>>}
  BY <1>3 DEF Payload, power_only_light, Choice, Asks
<1>5. PICK q \in {0, dev[3]} : new = <<v, 0, q, 0>>
  BY <1>1, <1>4, LightAdopt
<1>6. Good(new) /\ new[1] = v
  <2>1. v \in 0..100 /\ 0 \in 0..255 /\ 0 \in 0..TempLimit /\ q \in 0..ColorLimit
    <3>1. v \in 0..100 /\ 0 \in 0..255 /\ 0 \in 0..TempLimit /\ 0 \in 0..ColorLimit
      BY SMT DEF TempLimit, ColorLimit
    <3>2. dev[3] \in 0..ColorLimit
      BY SettingParts DEF Good
    <3>3. QED
      BY <3>1, <3>2
  <2>2. new \in Settings
    BY <1>5, <2>1, SettingOf, Zenon
  <2>3. QED
    BY <1>1, <1>5, <2>2 DEF Good
<1>7. Holds("power", new, on)
  BY <1>1, <1>6, PowerShows
<1>8. <<"power", on>> \in Wishable
  BY <1>2
<1>9. QED
  BY <1>2, <1>4, <1>6, <1>7, <1>8 DEF Takes

\* A curtain shows its position.
LEMMA CoverShows ==
    ASSUME kind = "cover", NEW st, Good(st), NEW x
    PROVE  Holds("level", st, x) <=> x = st[1]
<1>1. st # None /\ st[1] \in 0..100
  BY SettingParts DEF Good
<1>2. Shown("level", st) = st[1]
  <2>1. Clamp(0, st[1], 100) = st[1]
    BY <1>1, SMT DEF Clamp
  <2>2. QED
    BY <2>1 DEF Shown, ShownLevel, PropertyLight
<1>3. Shown("level", st) # None
  BY <1>1, <1>2, DeviceAssumption
<1>4. Shows("level", st, x) <=> Shown("level", st) = x
  BY <1>1, <1>3 DEF Shows, PropertyLight
<1>5. Holds("level", st, x) <=> Shows("level", st, x)
  BY DEF Holds, Light
<1>6. QED
  BY <1>2, <1>4, <1>5

\* A curtain moves to a position, or stops where it is.
LEMMA CoverTakes ==
    ASSUME kind = "cover", Good(dev), NEW ch \in ChoicesOf, NEW base, base = None \/ Good(base),
           NEW new \in Adopts(Payload(ch, base))
    PROVE  Takes(new, ch, base)
<1>1. Wishable = {"level"} \X (0..100) /\ ~PropertyLight /\ ~Light
  BY DEF Wishable, PropertyLight, Light
<1>2. \/ ch = Choice("stop", 0, 0)
      \/ \E x \in 0..100 : /\ ch \in {Choice(o, x, 0) : o \in {"open", "close", "position"}}
                           /\ ch.op = "open" => x = 100
                           /\ ch.op = "close" => x = 0
  BY DeviceAssumption DEF ChoicesOf, Choice
<1>3. CASE ch = Choice("stop", 0, 0)
  <2>1. Payload(ch, base).order = "stop" /\ Asks(ch) = {}
    BY <1>3 DEF Payload, curtain_control, Values, Choice, Asks
  <2>2. new = dev
    BY <1>1, <2>1 DEF Adopts
  <2>3. QED
    BY <2>1, <2>2 DEF Takes
<1>4. ASSUME NEW x \in 0..100, ch \in {Choice(o, x, 0) : o \in {"open", "close", "position"}},
             ch.op = "open" => x = 100, ch.op = "close" => x = 0
      PROVE  Takes(new, ch, base)
  <2>1. ch.op \in {"open", "close", "position"} /\ ch.a = x
    BY <1>4 DEF Choice
  <2>2. Payload(ch, base).order # "stop" /\ Payload(ch, base).v = <<x, 0, 0, 0>>
    BY <1>4, <2>1 DEF Payload, curtain_control, Values
  <2>3. new = <<x, 0, 0, 0>>
    BY <1>1, <2>2 DEF Adopts
  <2>4. Good(new) /\ new[1] = x
    <3>1. 0 \in 0..255 /\ 0 \in 0..TempLimit /\ 0 \in 0..ColorLimit
      BY SMT DEF TempLimit, ColorLimit
    <3>2. new \in Settings
      BY <2>3, <3>1, SettingOf, Zenon
    <3>3. QED
      BY <1>1, <2>3, <3>2 DEF Good
  <2>5. Asks(ch) = {<<"level", x>>}
    BY <2>1 DEF Asks
  <2>6. Holds("level", new, x)
    BY <2>4, CoverShows
  <2>7. <<"level", x>> \in Wishable
    BY <1>1
  <2>8. QED
    BY <1>1, <2>4, <2>5, <2>6, <2>7 DEF Takes
<1>5. QED
  BY <1>2, <1>3, <1>4

\* The preset of a fan for speed x.
Preset(x) == IF x = 0 THEN 50 ELSE IF x <= 50 THEN 0 ELSE 100

\* What a fan has after it was told v1: its properties, if it reports them, say the same.
LEMMA FanAdopts ==
    ASSUME kind = "fan", Good(dev), NEW v1 \in {0, 50, 100},
           NEW new \in Adopts(ventilation_control(v1))
    PROVE  /\ Good(new)
           /\ new[1] = v1
           /\ new[2] = 0 \/ (new[2] = 2 /\ v1 = 50) \/ (new[2] = 1 /\ v1 # 50)
           /\ \/ new[3] = 0
              \/ v1 = 50
              \/ v1 = 0 /\ new[3] - 1 \in 1..50
              \/ v1 = 100 /\ new[3] - 1 \in 51..100
<1>1. ~Light /\ ~PropertyLight
  BY DEF Light, PropertyLight
<1> DEFINE on == IF dev[2] = 0 THEN 0 ELSE IF v1 = 50 THEN 2 ELSE 1
           Q == IF dev[3] = 0 THEN {0} ELSE Speeds(v1)
<1>2. Adopts(ventilation_control(v1)) = {<<v1, on, q, 0>> : q \in Q}
  BY <1>1 DEF Adopts, ventilation_control, Values
<1>3. PICK q \in Q : new = <<v1, on, q, 0>>
  BY <1>2
<1>4. new[1] = v1 /\ new[2] = on /\ new[3] = q
  BY <1>3
<1>5. \/ q = 0
      \/ /\ q \in 1..101
         /\ v1 = 0 => q - 1 \in 1..50
         /\ v1 = 100 => q - 1 \in 51..100
  <2>1. CASE dev[3] = 0
    BY <2>1
  <2>2. CASE dev[3] # 0
    <3>1. PICK x \in CASE v1 = 50 -> 0..100 [] v1 = 0 -> 1..50 [] v1 = 100 -> 51..100 : q = x + 1
      BY <2>2 DEF Speeds
    <3>2. QED
      BY <3>1
  <2>3. QED
    BY <2>1, <2>2
<1>6. Good(new)
  <2>1. /\ v1 \in 0..100 /\ on \in 0..2 /\ on \in 0..255 /\ q \in 0..101
        /\ q \in 0..ColorLimit /\ 0 \in 0..TempLimit
    BY <1>5, SMT DEF ColorLimit, TempLimit
  <2>2. PICK a \in 0..255 : a = on
    BY <2>1
  <2>3. <<v1, a, q, 0>> \in Settings
    <3>1. v1 \in 0..100 /\ a \in 0..255 /\ q \in 0..ColorLimit /\ 0 \in 0..TempLimit
      BY <2>1
    <3> HIDE DEF Q
    <3>2. QED
      BY <3>1, SettingOf, Zenon
  <2>4. new \in Settings
    BY <1>3, <2>2, <2>3
  <2>5. QED
    BY <1>1, <1>4, <2>1, <2>4 DEF Good
<1>7. QED
  BY <1>4, <1>5, <1>6

\* A fan shows whether it runs, and the preset of the speed chosen.
LEMMA FanShows ==
    ASSUME kind = "fan", Good(dev), NEW x \in 0..100,
           NEW new \in Adopts(ventilation_control(Preset(x)))
    PROVE  Holds("power", new, x # 0) /\ (x # 0 => Holds("level", new, x))
<1> DEFINE v == Preset(x)
<1>1. /\ v \in {0, 50, 100}
      /\ v = 50 <=> x = 0
      /\ v = 0 <=> x \in 1..50
      /\ v = 100 <=> x \in 51..100
  BY DEF Preset
<1> HIDE DEF v
<1>2. /\ Good(new)
      /\ new[1] = v
      /\ new[2] = 0 \/ (new[2] = 2 /\ v = 50) \/ (new[2] = 1 /\ v # 50)
      /\ \/ new[3] = 0
         \/ v = 50
         \/ v = 0 /\ new[3] - 1 \in 1..50
         \/ v = 100 /\ new[3] - 1 \in 51..100
  <2>1. new \in Adopts(ventilation_control(v))
    BY DEF v
  <2>2. QED
    BY <1>1, <2>1, FanAdopts
<1>3. new # None /\ ~Light /\ ~PropertyLight
  BY <1>2, SettingParts DEF Good, Light, PropertyLight
<1>4. Holds("power", new, x # 0)
  <2>1. Shown("power", new) = (x # 0)
    BY <1>1, <1>2 DEF Shown, ShownPower
  <2>2. Shown("power", new) # None
    <3>1. Shown("power", new) \in BOOLEAN
      BY <2>1
    <3>2. QED
      BY <3>1, DeviceAssumption, Zenon
  <2>3. QED
    BY <1>3, <2>1, <2>2 DEF Holds, Shows
<1>5. ASSUME x # 0
      PROVE  Holds("level", new, x)
  <2>1. Shown("level", new) = (IF new[3] # 0 THEN new[3] - 1 ELSE IF v = 0 THEN 33 ELSE 100)
    <3>1. new[1] = v /\ (v = 0 \/ v = 100)
      BY <1>1, <1>2, <1>5
    <3>2. Shown("level", new) = ShownLevel(new)
      BY DEF Shown
    <3>3. QED
      BY <1>3, <3>1, <3>2 DEF ShownLevel
  <2>2. Shown("level", new) \in (IF x <= 50 THEN 1..50 ELSE 51..100)
    BY <1>1, <1>2, <1>5, <2>1
  <2>3. Shown("level", new) # None
    <3>1. Shown("level", new) \in Int
      BY <2>2
    <3>2. QED
      BY <3>1, NumberIsNotNone
  <2>4. QED
    BY <1>3, <2>2, <2>3 DEF Holds, Shows
<1>6. QED
  BY <1>4, <1>5

\* Every command to a fan sets a speed, and with it the power; or stops it.
LEMMA FanTakes ==
    ASSUME kind = "fan", Good(dev), NEW ch \in ChoicesOf, NEW base, base = None \/ Good(base),
           NEW new \in Adopts(Payload(ch, base))
    PROVE  Takes(new, ch, base)
<1>1. /\ Wishable = ({"power"} \X BOOLEAN) \union ({"level"} \X (1..100))
      /\ ~PropertyLight /\ ~Light
  BY DEF Wishable, PropertyLight, Light
<1>2. \/ ch = Choice("on", 0, 0) \/ ch = Choice("off", 0, 0)
      \/ \E p \in 0..100 : ch = Choice("speed", p, 0)
  BY DeviceAssumption DEF ChoicesOf, OnOff
<1>3. PICK x \in 0..100 : /\ Payload(ch, base) = ventilation_control(Preset(x))
                          /\ Stops(ch) <=> x = 0
                          /\ x # 0 => Asks(ch) = {<<"power", TRUE>>, <<"level", x>>}
  <2>1. CASE ch = Choice("on", 0, 0)
    <3>1. /\ Payload(ch, base) = ventilation_control(Preset(100))
          /\ ~Stops(ch)
          /\ Asks(ch) = {<<"power", TRUE>>, <<"level", 100>>}
      BY <2>1 DEF Payload, Preset, Choice, Asks, Stops
    <3>2. 100 \in 0..100 /\ 100 # 0
      OBVIOUS
    <3>3. QED
      BY <3>1, <3>2, Zenon
  <2>2. CASE ch = Choice("off", 0, 0)
    <3>1. Payload(ch, base) = ventilation_control(Preset(0)) /\ Stops(ch)
      BY <2>2 DEF Payload, Preset, Choice, Stops
    <3>2. QED
      BY <3>1
  <2>3. ASSUME NEW p \in 0..100, ch = Choice("speed", p, 0)
        PROVE  /\ Payload(ch, base) = ventilation_control(Preset(p))
               /\ Stops(ch) <=> p = 0
               /\ p # 0 => Asks(ch) = {<<"power", TRUE>>, <<"level", p>>}
    <3>1. ch.op = "speed" /\ ch.a = p
      BY <2>3 DEF Choice
    <3>2. QED
      BY <3>1 DEF Payload, fan_set_speed, Preset, Asks, Stops
  <2>4. QED
    BY <1>2, <2>1, <2>2, <2>3
<1>4. Good(new) /\ Holds("power", new, x # 0) /\ (x # 0 => Holds("level", new, x))
  <2>1. Preset(x) \in {0, 50, 100}
    BY DEF Preset
  <2>2. QED
    BY <1>3, <2>1, FanShows, FanAdopts
<1>5. CASE x = 0
  <2>1. Asks(ch) = {<<"power", FALSE>>} /\ Loses(ch) = {"level"}
    BY <1>3, <1>5 DEF Asks, Loses
  <2>2. <<"power", FALSE>> \in Wishable /\ Holds("power", new, FALSE)
    BY <1>1, <1>4, <1>5
  <2>3. \A c, v : <<c, v>> \in Asks(ch) => c = "power" /\ v = FALSE
    BY <2>1
  <2>4. \A c, v : <<c, v>> \in Wishable => c \in Loses(ch) \/ <<c, FALSE>> \in Asks(ch)
    BY <1>1, <2>1
  <2>5. QED
    BY <1>4, <2>2, <2>3, <2>4 DEF Takes
<1>6. CASE x # 0
  <2>1. Asks(ch) = {<<"power", TRUE>>, <<"level", x>>}
    BY <1>3, <1>6
  <2>2. /\ <<"power", TRUE>> \in Wishable /\ Holds("power", new, TRUE)
        /\ <<"level", x>> \in Wishable /\ Holds("level", new, x)
    <3>1. (x # 0) = TRUE /\ x \in 1..100
      BY <1>6
    <3>2. Holds("power", new, TRUE) /\ Holds("level", new, x)
      BY <1>4, <1>6, <3>1, Zenon
    <3>3. QED
      BY <1>1, <3>1, <3>2
  <2>3. \A c, v : <<c, v>> \in Asks(ch) => (c = "power" /\ v = TRUE) \/ (c = "level" /\ v = x)
    BY <2>1
  <2>4. \A c, v : <<c, v>> \in Wishable => <<c, TRUE>> \in Asks(ch) \/ <<c, x>> \in Asks(ch)
    BY <1>1, <2>1
  <2>5. ASSUME NEW c, NEW v, <<c, v>> \in Asks(ch)
        PROVE  <<c, v>> \in Wishable /\ Holds(c, new, v)
    <3>1. CASE c = "power" /\ v = TRUE
      BY <2>2, <3>1
    <3>2. CASE c = "level" /\ v = x
      BY <2>2, <3>2
    <3>3. QED
      BY <2>3, <2>5, <3>1, <3>2
  <2>6. QED
    BY <1>4, <2>4, <2>5 DEF Takes
<1>7. QED
  BY <1>5, <1>6
-----------------------------------------------------------------------------
\* A tunable light or a bulb: its level shows while it is on, and off loses it.
LEMMA PlainShows ==
    ASSUME kind \in {"tunable", "bulb"}, NEW st, Good(st), NEW x \in Int
    PROVE  /\ Shows("level", st, x) <=> st[1] = 0 /\ x = st[2]
           /\ Holds("level", st, x) <=> (st[1] = 0 => x = st[2])
           /\ st[3] \in 150..400 => (Holds("color", st, x) <=> Reciprocal(st[3]) \in x..x+40)
           /\ st[3] = 0 => ~Holds("color", st, x)
<1>1. /\ st # None /\ st \in Settings /\ st[2] \in 0..255
      /\ Light /\ ~PropertyLight
  BY SettingParts DEF Good, Light, PropertyLight
<1>2. Shows("level", st, x) <=> st[1] = 0 /\ x = st[2]
  <2>1. Clamp(0, st[2], 255) = st[2]
    BY <1>1, SMT DEF Clamp
  <2>2. Shown("level", st) = IF st[1] = 0 THEN st[2] ELSE None
    BY <1>1, <2>1 DEF Shown, ShownLevel, ShownPower
  <2>3. st[2] # None
    BY <1>1, DeviceAssumption
  <2>4. QED
    BY <1>1, <2>2, <2>3 DEF Shows
<1>3. Holds("level", st, x) <=> (st[1] = 0 => x = st[2])
  BY <1>1, <1>2 DEF Holds
<1>4. ASSUME st[3] \in 150..400
      PROVE  Holds("color", st, x) <=> Reciprocal(st[3]) \in x..x+40
  <2> DEFINE y == Reciprocal(st[3])
  <2>1. PICK on \in Settings : on = [st EXCEPT ![1] = 0] /\ on[1] = 0 /\ on[3] = st[3]
    BY <1>1, Switched
  <2>3. on # None
    BY SettingParts
  <2>4. Shown("color", on) = y
    BY <1>1, <1>4, <2>1 DEF Shown, ShownColor, ShownPower
  <2>5. y # None
    <3>1. \A m \in 150..400 : Reciprocal(m) \in Int
      BY Quotient, SMT DEF Reciprocal
    <3>2. y \in Int
      BY <1>4, <3>1
    <3>3. QED
      BY <3>2, NumberIsNotNone
  <2> HIDE DEF y
  <2>6. Shows("color", on, x) <=> y \in x..x+40
    BY <2>3, <2>4, <2>5 DEF Shows
  <2>7. QED
    BY <1>1, <2>1, <2>6 DEF Holds, y
<1>5. ASSUME st[3] = 0
      PROVE  ~Holds("color", st, x)
  <2>1. PICK on \in Settings : on = [st EXCEPT ![1] = 0] /\ on[1] = 0 /\ on[3] = st[3]
    BY <1>1, Switched
  <2>2. Shown("color", on) = None
    BY <1>1, <1>5, <2>1 DEF Shown, ShownColor, ShownPower
  <2>3. ~Shows("color", on, x)
    BY <2>2 DEF Shows
  <2>4. QED
    BY <1>1, <2>1, <2>3 DEF Holds
<1>6. QED
  BY <1>2, <1>3, <1>4, <1>5

\* What a command sets such a light to.
LEMMA PlainGood ==
    ASSUME kind \in {"tunable", "bulb"}, NEW p \in 0..100, NEW l \in 0..255,
           NEW m \in (150..400) \union {0}
    PROVE  Good(<<p, l, m, 0>>)
<1>1. 0 \in 0..TempLimit
  BY SMT DEF TempLimit
<1>2. \A x \in (150..400) \union {0} : x \in 0..ColorLimit
  BY SMT DEF ColorLimit
<1>3. <<p, l, m, 0>> \in Settings
  <2>1. m \in 0..ColorLimit
    BY <1>2
  <2>2. QED
    BY <1>1, <2>1, SettingOf
<1>4. QED
  BY <1>3 DEF Good, PropertyLight

\* A command that sets the colour alone takes the level from base, and 255 if base shows
\* none; one that does not set it may lose it.
LEMMA PlainTakes ==
    ASSUME kind \in {"tunable", "bulb"}, Good(dev), NEW ch \in ChoicesOf,
           NEW base, base = None \/ Good(base),
           NEW new \in Adopts(Payload(ch, base))
    PROVE  Takes(new, ch, base)
<1>1. /\ Light /\ ~PropertyLight /\ kind # "fan"
      /\ dev[3] \in (150..400) \union {0}
  BY DEF Light, PropertyLight, Good
<1>2. Wishable = ({"power"} \X BOOLEAN) \union ({"level"} \X (1..255))
                 \union ({"color"} \X (ColorMin..ColorMax))
  BY DEF Wishable
<1>3. \/ ch = Choice("on", 0, 0) \/ ch = Choice("off", 0, 0)
      \/ \E b \in Brightness : ch = Choice("brightness", b, 0)
      \/ \E k \in Kelvins : ch = Choice("color", k, 0)
      \/ \E b \in Brightness, k \in Kelvins : ch = Choice("both", b, k)
  BY DEF ChoicesOf, OnOff, Dim, Tint
<1>4. \A k \in ColorMin..ColorMax : /\ k \in Int /\ Mired(k) \in 150..400
                                    /\ Reciprocal(Mired(k)) \in k..k+40
  <2>1. \A k \in ColorMin..ColorMax : k \in Int /\ k >= 2700 /\ k <= 6000
    BY SMT DEF ColorMin, ColorMax
  <2>2. QED
    BY <2>1, ColorMireds, SMT
<1>5. Kelvins \subseteq ColorMin..ColorMax /\ Brightness \subseteq 1..255
  BY DeviceAssumption
<1>6. \A c, x : <<c, x>> \in Wishable <=> \/ c = "power" /\ x \in BOOLEAN
                                          \/ c = "level" /\ x \in 1..255
                                          \/ c = "color" /\ x \in ColorMin..ColorMax
  <2>1. \A a, B, c, x : <<c, x>> \in {a} \X B <=> c = a /\ x \in B
    OBVIOUS
  <2>2. QED
    BY <1>2, <2>1, Zenon
\* A command that does not set the colour.
<1> DEFINE Sets(p, l, on) ==
      /\ <<"power", on>> \in Asks(ch) /\ "color" \in Loses(ch)
      /\ \A c, x : <<c, x>> \in Asks(ch) => \/ c = "power" /\ x = on
                                            \/ c = "level" /\ x = l /\ p = 0 /\ l \in 1..255
      /\ "level" \in Loses(ch) \/ <<"level", l>> \in Asks(ch)
<1> HIDE DEF Sets
<1>7. ASSUME NEW p \in {0, 1}, NEW l \in 0..255, NEW o, o # "stop",
             Payload(ch, base) = Values(o, p, l, 0, 0), NEW on \in BOOLEAN, on = (p = 0),
             Sets(p, l, on)
      PROVE  Takes(new, ch, base)
  <2>1. PICK q \in {0, dev[3]} : new = <<p, l, q, 0>>
    BY <1>1, <1>7, LightAdopt
  <2>2. Good(new) /\ new[1] = p /\ new[2] = l
    <3>1. p \in 0..100 /\ l \in 0..255 /\ q \in (150..400) \union {0}
      BY <1>1, <1>7
    <3>2. Good(<<p, l, q, 0>>)
      BY <3>1, PlainGood
    <3>3. QED
      BY <2>1, <3>2
  <2>3. ASSUME NEW c, NEW x, <<c, x>> \in Asks(ch)
        PROVE  <<c, x>> \in Wishable /\ Holds(c, new, x)
    <3>1. CASE c = "power" /\ x = on
      BY <1>1, <1>6, <1>7, <2>2, <3>1, PowerShows
    <3>2. CASE c = "level" /\ x = l /\ p = 0 /\ l \in 1..255
      BY <1>6, <2>2, <3>2, PlainShows
    <3>3. QED
      BY <1>7, <2>3, <3>1, <3>2 DEF Sets
  <2>4. \A c, x : <<c, x>> \in Wishable =>
                     c \in Loses(ch) \/ <<c, on>> \in Asks(ch) \/ <<c, l>> \in Asks(ch)
    BY <1>6, <1>7 DEF Sets
  <2>5. QED
    BY <2>2, <2>3, <2>4 DEF Takes
\* A command that sets it.
<1>8. ASSUME NEW k \in Kelvins, NEW l \in 1..255, NEW o, o # "stop",
             Payload(ch, base) = Values(o, 0, l, Mired(k), 0),
             NEW W, Asks(ch) = {<<"power", TRUE>>, <<"color", k>>} \union W,
             W = {<<"level", l>>} \/ W = {},
             W = {} => \A x \in 1..255 : Shows("level", base, x) => x = l
      PROVE  Takes(new, ch, base)
  <2>1. /\ k \in ColorMin..ColorMax /\ k \in Int /\ Mired(k) \in 150..400
        /\ Reciprocal(Mired(k)) \in k..k+40
    BY <1>4, <1>5
  <2> DEFINE m == Mired(k)
  <2>2. new = <<0, l, m, 0>>
    <3>1. m # 0
      BY <2>1
    <3>2. QED
      BY <1>1, <1>8, <3>1, LightAdopt
  <2> HIDE DEF m
  <2>3. Good(new) /\ new[1] = 0 /\ new[2] = l /\ new[3] = m
    <3>1. m \in 150..400 /\ l \in 0..255 /\ 0 \in 0..100
      BY <2>1 DEF m
    <3>2. Good(<<0, l, m, 0>>)
      BY <3>1, PlainGood
    <3>3. QED
      BY <2>2, <3>2
  <2>4. Asks(ch) \subseteq Wishable
    <3>1. /\ <<"power", TRUE>> \in Wishable /\ <<"level", l>> \in Wishable
          /\ <<"color", k>> \in Wishable
      BY <1>2, <2>1
    <3>2. QED
      BY <1>8, <3>1
  <2>5. Holds("power", new, TRUE) /\ Holds("level", new, l) /\ Holds("color", new, k)
    <3>1. Holds("power", new, TRUE)
      BY <1>1, <2>3, PowerShows
    <3>2. Holds("level", new, l)
      BY <2>3, PlainShows
    <3>3. Reciprocal(m) \in k..k+40 /\ k \in Int /\ m \in 150..400
      BY <2>1 DEF m
    <3>4. Holds("color", new, k)
      BY <2>3, <3>3, PlainShows
    <3>5. QED
      BY <3>1, <3>2, <3>4
  <2>6. \A c, x : <<c, x>> \in Asks(ch) => Holds(c, new, x)
    BY <1>8, <2>5
  <2>7. ASSUME NEW c, NEW x, <<c, x>> \in Wishable, \A y : <<c, y>> \notin Asks(ch),
               Shows(c, base, x)
        PROVE  Holds(c, new, x)
    <3>1. c = "level" /\ x \in 1..255 /\ W = {}
      <4>1. /\ <<"power", TRUE>> \in Asks(ch) /\ <<"color", k>> \in Asks(ch)
            /\ W = {} \/ <<"level", l>> \in Asks(ch)
        BY <1>8
      <4>2. c # "power" /\ c # "color" /\ (W = {} \/ c # "level")
        BY <2>7, <4>1
      <4>3. QED
        BY <1>6, <2>7, <4>2
    <3>2. QED
      BY <1>8, <2>5, <2>7, <3>1
  <2>8. QED
    BY <2>3, <2>4, <2>6, <2>7 DEF Takes
<1>9. CASE ch = Choice("on", 0, 0)
  <2> DEFINE l == 255
  <2>1. /\ Payload(ch, base) = Values("on", 0, l, 0, 0)
        /\ Asks(ch) = {<<"power", TRUE>>} /\ Loses(ch) = {"level", "color"}
    BY <1>1, <1>9 DEF Payload, light_on, Choice, Asks, Loses
  <2>2. 0 \in {0, 1} /\ l \in 0..255 /\ TRUE = (0 = 0)
    BY SMT
  <2> HIDE DEF l
  <2>3. Sets(0, l, TRUE)
    BY <2>1 DEF Sets
  <2>4. QED
    BY <1>7, <2>1, <2>2, <2>3, Zenon
<1>10. CASE ch = Choice("off", 0, 0)
  <2>1. /\ Payload(ch, base) = Values("off", 1, 0, 0, 0)
        /\ Asks(ch) = {<<"power", FALSE>>} /\ Loses(ch) = {"level", "color"}
    BY <1>1, <1>10 DEF Payload, light_off, Choice, Asks, Loses
  <2>2. 1 \in {0, 1} /\ 0 \in 0..255 /\ FALSE = (1 = 0)
    BY SMT
  <2>3. Sets(1, 0, FALSE)
    BY <2>1 DEF Sets
  <2>4. QED
    BY <1>7, <2>1, <2>2, <2>3, Zenon
<1>11. ASSUME NEW b \in Brightness, ch = Choice("brightness", b, 0)
       PROVE  Takes(new, ch, base)
  <2>1. PICK o \in {"move_to_level", "on"} : Payload(ch, base) = Values(o, 0, b, 0, 0)
    BY <1>1, <1>11 DEF Payload, light_brightness, Choice
  <2>2. b \in 1..255 /\ b \in 0..255 /\ o # "stop" /\ 0 \in {0, 1} /\ TRUE = (0 = 0)
    BY <1>5
  <2>3. Asks(ch) = {<<"level", b>>} \union {<<"power", TRUE>>} /\ Loses(ch) = {"color"}
    <3>1. Asks(ch) = {<<"level", b>>} \union {<<"power", TRUE>>}
      BY <1>1, <1>11 DEF Choice, Asks
    <3>2. Loses(ch) = {"color"}
      BY <1>1, <1>11 DEF Choice, Loses
    <3>3. QED
      BY <3>1, <3>2
  <2>4. Sets(0, b, TRUE)
    BY <2>2, <2>3 DEF Sets
  <2>5. QED
    BY <1>7, <2>1, <2>2, <2>4, Zenon
<1>12. ASSUME NEW k \in Kelvins, ch = Choice("color", k, 0)
       PROVE  Takes(new, ch, base)
  <2> DEFINE known == base # None /\ ShownPower(base) /\ ShownLevel(base) # 0
             l == IF known THEN ShownLevel(base) ELSE 255
  <2>1. /\ Payload(ch, base) = Values("fast_color_temperature", 0, l, Mired(k), 0)
        /\ Asks(ch) = {<<"power", TRUE>>, <<"color", k>>} \union {}
    BY <1>1, <1>12 DEF Payload, light_colortemp, Choice, Asks
  <2>2. l \in 1..255 /\ \A x \in 1..255 : Shows("level", base, x) => x = l
    <3>1. CASE base = None
      BY <3>1 DEF Shows
    <3>2. CASE Good(base)
      <4>1. base # None /\ base[2] \in 0..255
        BY <3>2, SettingParts DEF Good
      <4>2. ShownPower(base) <=> base[1] = 0
        BY <1>1 DEF ShownPower
      <4>3. base[1] = 0 => ShownLevel(base) = base[2]
        <5>1. Clamp(0, base[2], 255) = base[2]
          BY <4>1, SMT DEF Clamp
        <5>2. QED
          BY <1>1, <4>2, <5>1 DEF ShownLevel, PropertyLight
      <4>4. \A x \in 1..255 : Shows("level", base, x) <=> base[1] = 0 /\ x = base[2]
        BY <3>2, PlainShows
      <4>5. QED
        BY <4>1, <4>2, <4>3, <4>4
    <3>3. QED
      BY <3>1, <3>2
  <2> HIDE DEF l
  <2>3. QED
    BY <1>8, <2>1, <2>2
<1>13. ASSUME NEW b \in Brightness, NEW k \in Kelvins, ch = Choice("both", b, k)
       PROVE  Takes(new, ch, base)
  <2>1. /\ Payload(ch, base) = Values("on", 0, b, Mired(k), 0)
        /\ Asks(ch) = {<<"power", TRUE>>, <<"color", k>>} \union {<<"level", b>>}
    BY <1>1, <1>13 DEF Payload, light_on_off, Choice, Asks
  <2>2. b \in 1..255
    BY <1>5
  <2>3. QED
    BY <1>8, <2>1, <2>2
<1>14. QED
  BY <1>3, <1>9, <1>10, <1>11, <1>12, <1>13
-----------------------------------------------------------------------------
\* A property light keeps its level and its colour while it is off.
LEMMA PropertyShows ==
    ASSUME PropertyLight, NEW st, Good(st), NEW x
    PROVE  /\ Holds("level", st, x) <=> (st[2] * 255) \div 100 \in x-3..x+2
           /\ kind = "strip" => (Holds("color", st, x) <=> x = st[3])
           /\ kind = "dimmer" => (Holds("color", st, x) <=>
                                    st[3] \in 150..400 /\ Reciprocal(st[3]) \in x..x+40)
<1>1. st \in Settings /\ st[2] \in 1..100 /\ st[3] \in Int /\ Light /\ kind \in {"strip", "dimmer"}
  BY SettingParts DEF Good, Light, PropertyLight
<1>2. PICK on \in Settings : /\ on = [st EXCEPT ![1] = 0]
                             /\ on[1] = 0 /\ on[2] = st[2] /\ on[3] = st[3]
  BY <1>1, Switched
<1>3. on # None /\ ShownPower(on)
  BY <1>1, <1>2, SettingParts DEF ShownPower
<1>4. \A c : c # "power" => (Holds(c, st, x) <=> Shows(c, on, x))
  BY <1>1, <1>2 DEF Holds
<1>5. Shows("level", on, x) <=> (st[2] * 255) \div 100 \in x-3..x+2
  <2> DEFINE y == (st[2] * 255) \div 100
  <2>1. Shown("level", on) = y
    BY <1>1, <1>2, <1>3 DEF Shown, ShownLevel
  <2>2. \A l \in 1..100 : (l * 255) \div 100 \in Int
    BY SMT
  <2>3. y # None
    <3>1. y \in Int
      BY <1>1, <2>2
    <3>2. QED
      BY <3>1, NumberIsNotNone
  <2> HIDE DEF y
  <2>4. Shows("level", on, x) <=> y \in x-3..x+2
    BY <1>1, <1>3, <2>1, <2>3 DEF Shows
  <2>5. QED
    BY <2>4 DEF y
<1>6. CASE kind = "strip"
  <2>1. Shown("color", on) = st[3]
    BY <1>2, <1>3, <1>6 DEF Shown, ShownColor
  <2>2. st[3] # None
    BY <1>1, DeviceAssumption, Zenon
  <2>3. Shows("color", on, x) <=> x = st[3]
    BY <1>3, <1>6, <2>1, <2>2 DEF Shows
  <2>4. QED
    BY <1>4, <1>5, <1>6, <2>3
<1>7. CASE kind = "dimmer"
  <2> DEFINE y == Reciprocal(st[3])
  <2>1. Shown("color", on) = IF st[3] \in 150..400 THEN y ELSE None
    BY <1>2, <1>3, <1>7 DEF Shown, ShownColor
  <2>2. \A m \in 150..400 : Reciprocal(m) \in Int
    BY Quotient, SMT DEF Reciprocal
  <2>3. st[3] \in 150..400 => y # None
    <3>1. st[3] \in 150..400 => y \in Int
      BY <2>2
    <3>2. QED
      BY <3>1, NumberIsNotNone
  <2> HIDE DEF y
  <2>4. Shows("color", on, x) <=> st[3] \in 150..400 /\ y \in x..x+40
    BY <1>3, <1>7, <2>1, <2>3 DEF Shows, PropertyLight
  <2>5. QED
    BY <1>4, <1>5, <1>7, <2>4 DEF y
<1>8. QED
  BY <1>1, <1>6, <1>7

\* A command to a property light leaves every property it does not name.
LEMMA PropertyTakes ==
    ASSUME PropertyLight, Good(dev), NEW ch \in ChoicesOf, NEW base, base = None \/ Good(base),
           NEW new \in Adopts(Payload(ch, base))
    PROVE  Takes(new, ch, base)
<1>1. /\ kind \in {"strip", "dimmer"} /\ kind # "fan" /\ Light
      /\ dev \in Settings /\ dev[2] \in 1..100
      /\ dev[1] \in 0..100 /\ dev[3] \in 0..ColorLimit /\ dev[4] \in 0..TempLimit
  BY SettingParts DEF Light, PropertyLight, Good
<1>2. Wishable = ({"power"} \X BOOLEAN) \union ({"level"} \X (1..255))
                 \union ({"color"} \X (ColorMin..ColorMax))
  BY <1>1 DEF Wishable
<1>3. \/ ch = Choice("on", 0, 0) \/ ch = Choice("off", 0, 0)
      \/ \E b \in Brightness : ch = Choice("brightness", b, 0)
      \/ kind = "strip" /\ \E k \in Kelvins : ch = Choice("color", k, 0)
      \/ kind = "strip" /\ \E b \in Brightness, k \in Kelvins : ch = Choice("both", b, k)
  BY <1>1 DEF ChoicesOf, OnOff, Dim, Tint
<1>4. \A b \in Brightness : /\ b \in 1..255 /\ Percent(b) \in 1..100 /\ Percent(b) # Keep
                            /\ (Percent(b) * 255) \div 100 \in b-3..b+2
  <2>1. \A b \in Brightness : b \in 1..255
    BY DeviceAssumption
  <2>2. \A l \in 1..100 : l # Keep
    BY SMT DEF Keep
  <2>3. ASSUME NEW b \in Brightness
        PROVE  /\ b \in 1..255 /\ Percent(b) \in 1..100 /\ Percent(b) # Keep
               /\ (Percent(b) * 255) \div 100 \in b-3..b+2
    <3>1. b \in 1..255
      BY <2>1
    <3>2. Percent(b) \in 1..100 /\ (Percent(b) * 255) \div 100 \in b-3..b+2
      BY <3>1, LevelPercents
    <3>3. QED
      BY <2>2, <3>1, <3>2
  <2>4. QED
    BY <2>3
<1>5. \A k \in Kelvins : /\ k \in ColorMin..ColorMax /\ k \in 0..ColorLimit
                         /\ Kelvin(k) = k /\ k # Keep
  <2>1. ASSUME NEW k \in ColorMin..ColorMax
        PROVE  k \in 0..ColorLimit /\ Kelvin(k) = k /\ k # Keep
    <3>1. k \in Int /\ k >= ColorMin /\ k <= ColorMax
      OBVIOUS
    <3>2. ColorMin = 2700 /\ ColorMax = 6000 /\ ColorLimit = 6500 /\ Keep = -1
      BY DEF ColorMin, ColorMax, ColorLimit, Keep
    <3>3. QED
      BY <3>1, <3>2, SMT DEF Kelvin, Clamp
  <2>2. QED
    BY <2>1, DeviceAssumption
<1>6. ASSUME NEW o, NEW l, NEW c, Payload(ch, base) = Props(o, l, c)
      PROVE  new = <<IF o = Keep THEN dev[1] ELSE o, IF l = Keep THEN dev[2] ELSE l,
                     IF c = Keep THEN dev[3] ELSE c, dev[4]>>
  BY <1>1, <1>6 DEF Props, Values, Adopts
<1>7. ASSUME NEW p \in 0..100, NEW l \in 1..100, NEW q \in 0..ColorLimit,
             new = <<p, l, q, dev[4]>>,
             NEW on \in BOOLEAN, NEW b \in 1..255, NEW k \in ColorMin..ColorMax,
             Asks(ch) \subseteq {<<"power", on>>, <<"level", b>>, <<"color", k>>},
             IF <<"power", on>> \in Asks(ch) THEN on <=> p = 0 ELSE p = dev[1],
             IF <<"level", b>> \in Asks(ch) THEN (l * 255) \div 100 \in b-3..b+2 ELSE l = dev[2],
             IF <<"color", k>> \in Asks(ch) THEN kind = "strip" /\ q = k ELSE q = dev[3]
      PROVE  Takes(new, ch, base)
  <2>1. new[1] = p /\ new[2] = l /\ new[3] = q
    BY <1>7
  <2>2. Good(new)
    <3>1. new \in Settings
      <4>1. p \in 0..100 /\ l \in 0..255 /\ q \in 0..ColorLimit
        BY <1>7
      <4>2. <<p, l, q, dev[4]>> \in Settings
        BY <1>1, <4>1, SettingOf
      <4>3. QED
        BY <1>7, <4>2
    <3>2. QED
      BY <1>1, <2>1, <3>1 DEF Good
  <2>3. Asks(ch) \subseteq Wishable
    <3>1. <<"power", on>> \in Wishable /\ <<"level", b>> \in Wishable /\ <<"color", k>> \in Wishable
      BY <1>2
    <3>2. QED
      BY <1>7, <3>1
  <2>4. <<"power", on>> \in Asks(ch) => Holds("power", new, on)
    BY <1>1, <1>7, <2>1, <2>2, PowerShows
  <2>5. <<"level", b>> \in Asks(ch) => Holds("level", new, b)
    BY <1>7, <2>1, <2>2, PropertyShows
  <2>6. <<"color", k>> \in Asks(ch) => Holds("color", new, k)
    BY <1>7, <2>1, <2>2, PropertyShows
  <2>7. \A c, x : <<c, x>> \in Asks(ch) => Holds(c, new, x)
    BY <1>7, <2>4, <2>5, <2>6
  <2>8. ASSUME NEW c, NEW x, <<c, x>> \in Wishable, \A y : <<c, y>> \notin Asks(ch),
               Holds(c, dev, x)
        PROVE  Holds(c, new, x)
    <3>1. CASE c = "power" /\ x \in BOOLEAN
      BY <1>1, <1>7, <2>1, <2>2, <2>8, <3>1, PowerShows
    <3>2. CASE c = "level"
      BY <1>7, <2>1, <2>2, <2>8, <3>2, PropertyShows
    <3>3. CASE c = "color"
      BY <1>1, <1>7, <2>1, <2>2, <2>8, <3>3, PropertyShows
    <3>4. QED
      BY <1>2, <2>8, <3>1, <3>2, <3>3
  <2>9. QED
    BY <2>2, <2>3, <2>7, <2>8 DEF Takes
<1>8. Keep = -1 /\ 0 # Keep /\ 1 # Keep
  BY DEF Keep
<1>9. 1 \in 1..255 /\ ColorMin \in ColorMin..ColorMax /\ 0 \in 0..100 /\ 1 \in 0..100
  BY SMT DEF ColorMin, ColorMax
<1>10. ASSUME NEW on \in BOOLEAN, ch = Choice(IF on THEN "on" ELSE "off", 0, 0)
       PROVE  Takes(new, ch, base)
  <2> DEFINE p == IF on THEN 0 ELSE 1
  <2>1. Payload(ch, base) = Props(p, Keep, Keep) /\ Asks(ch) = {<<"power", on>>}
    BY <1>1, <1>10 DEF Payload, light_on, light_off, Choice, Asks
  <2>2. p \in 0..100 /\ p # Keep /\ (on <=> p = 0)
    BY <1>8, <1>9
  <2> HIDE DEF p
  <2>3. new = <<p, dev[2], dev[3], dev[4]>>
    BY <1>6, <2>1, <2>2
  <2>4. <<"level", 1>> \notin Asks(ch) /\ <<"color", ColorMin>> \notin Asks(ch)
    BY <2>1
  <2>5. /\ <<"power", on>> \in Asks(ch)
        /\ Asks(ch) \subseteq {<<"power", on>>, <<"level", 1>>, <<"color", ColorMin>>}
    BY <2>1
  <2>6. PICK l \in 1..100, q \in 0..ColorLimit : l = dev[2] /\ q = dev[3]
    BY <1>1
  <2>7. new = <<p, l, q, dev[4]>>
    BY <2>3, <2>6
  <2>8. CASE on
    <3>1. on = TRUE
      BY <2>8
    <3>2. QED
      BY <1>7, <1>9, <2>2, <2>4, <2>5, <2>6, <2>7, <3>1, ZenonT(40)
  <2>9. CASE ~on
    <3>1. on = FALSE
      BY <2>9
    <3>2. QED
      BY <1>7, <1>9, <2>2, <2>4, <2>5, <2>6, <2>7, <3>1, ZenonT(40)
  <2>10. QED
    BY <2>8, <2>9
<1>11. ASSUME NEW b \in Brightness, ch = Choice("brightness", b, 0)
       PROVE  Takes(new, ch, base)
  <2> DEFINE l == Percent(b)
  <2>1. Payload(ch, base) = Props(Keep, l, Keep) /\ Asks(ch) = {<<"level", b>>}
    BY <1>1, <1>11 DEF Payload, light_brightness, Choice, Asks
  <2>2. b \in 1..255 /\ l \in 1..100 /\ l # Keep /\ (l * 255) \div 100 \in b-3..b+2
    BY <1>4
  <2> HIDE DEF l
  <2>3. new = <<dev[1], l, dev[3], dev[4]>>
    BY <1>6, <2>1, <2>2
  <2>4. <<"power", TRUE>> \notin Asks(ch) /\ <<"color", ColorMin>> \notin Asks(ch)
    BY <2>1
  <2>5. /\ <<"level", b>> \in Asks(ch)
        /\ Asks(ch) \subseteq {<<"power", TRUE>>, <<"level", b>>, <<"color", ColorMin>>}
    BY <2>1
  <2>6. PICK p \in 0..100, q \in 0..ColorLimit : p = dev[1] /\ q = dev[3]
    BY <1>1
  <2>7. new = <<p, l, q, dev[4]>>
    BY <2>3, <2>6
  <2>8. QED
    BY <1>7, <1>9, <2>2, <2>4, <2>5, <2>6, <2>7, ZenonT(40)
<1>12. ASSUME kind = "strip", NEW k \in Kelvins, ch = Choice("color", k, 0)
       PROVE  Takes(new, ch, base)
  <2>1. Payload(ch, base) = Props(Keep, Keep, Kelvin(k)) /\ Asks(ch) = {<<"color", k>>}
    BY <1>1, <1>12 DEF Payload, light_colortemp, Choice, Asks
  <2>2. k \in ColorMin..ColorMax /\ k \in 0..ColorLimit /\ Kelvin(k) = k /\ k # Keep
    BY <1>5
  <2>3. new = <<dev[1], dev[2], k, dev[4]>>
    BY <1>6, <2>1, <2>2
  <2>4. <<"power", TRUE>> \notin Asks(ch) /\ <<"level", 1>> \notin Asks(ch)
    BY <2>1
  <2>5. /\ <<"color", k>> \in Asks(ch)
        /\ Asks(ch) \subseteq {<<"power", TRUE>>, <<"level", 1>>, <<"color", k>>}
    BY <2>1
  <2>6. PICK p \in 0..100, l \in 1..100 : p = dev[1] /\ l = dev[2]
    BY <1>1
  <2>7. new = <<p, l, k, dev[4]>>
    BY <2>3, <2>6
  <2>8. QED
    BY <1>7, <1>9, <1>12, <2>2, <2>4, <2>5, <2>6, <2>7
<1>13. ASSUME kind = "strip", NEW b \in Brightness, NEW k \in Kelvins, ch = Choice("both", b, k)
       PROVE  Takes(new, ch, base)
  <2> DEFINE l == Percent(b)
  <2>1. /\ Payload(ch, base) = Props(0, l, Kelvin(k))
        /\ Asks(ch) = {<<"power", TRUE>>, <<"level", b>>, <<"color", k>>}
    BY <1>1, <1>13 DEF Payload, light_on_off, Choice, Asks
  <2>2. b \in 1..255 /\ l \in 1..100 /\ l # Keep /\ (l * 255) \div 100 \in b-3..b+2
    BY <1>4
  <2> HIDE DEF l
  <2>3. k \in ColorMin..ColorMax /\ k \in 0..ColorLimit /\ Kelvin(k) = k /\ k # Keep
    BY <1>5
  <2>4. new = <<0, l, k, dev[4]>>
    BY <1>6, <1>8, <2>1, <2>2, <2>3
  <2>5. /\ <<"power", TRUE>> \in Asks(ch) /\ <<"level", b>> \in Asks(ch)
        /\ <<"color", k>> \in Asks(ch)
        /\ Asks(ch) \subseteq {<<"power", TRUE>>, <<"level", b>>, <<"color", k>>}
    BY <2>1
  <2>6. 0 \in 0..100
    BY <1>9
  <2>7. QED
    BY <1>7, <1>13, <2>2, <2>3, <2>4, <2>5, <2>6
<1>14. QED
  BY <1>3, <1>10, <1>11, <1>12, <1>13
-----------------------------------------------------------------------------
\* So it is for each kind of device.
LEMMA CommandTakes ==
    ASSUME kind \in Kinds, Good(dev), NEW ch \in ChoicesOf, NEW base, base = None \/ Good(base)
    PROVE  \A new \in Adopts(Payload(ch, base)) : Takes(new, ch, base)
<1>1. kind \in AllKinds
  BY DeviceAssumption
<1>2. CASE kind \in {"strip", "dimmer"}
  <2>1. PropertyLight
    BY <1>2 DEF PropertyLight
  <2>2. QED
    BY <2>1, PropertyTakes
<1>3. QED
  BY <1>1, <1>2, AirconTakes, PlainTakes, RelayTakes, CoverTakes, FanTakes DEF AllKinds

\* States of a device of this kind, and commands made of them.
States == {st \in Settings : Good(st)}
Sent == {[payload |-> Payload(ch, st), choice |-> ch, base |-> st] :
            ch \in ChoicesOf, st \in States \union {None}}

\* A command was composed for a choice from some state.
LEMMA SentParts ==
    ASSUME NEW e \in Sent
    PROVE  \E ch \in ChoicesOf, base \in States \union {None} :
              e = [payload |-> Payload(ch, base), choice |-> ch, base |-> base]
BY DEF Sent

\* The inductive invariant: what is under way was composed from settings this kind of
\* device can have, and Kept.
DeviceInv ==
    /\ kind \in Kinds
    /\ Good(dev)
    /\ cache \in States \union {None}
    /\ commands \in Seq(Sent)
    /\ reports \in Seq(States)
    /\ DOMAIN wish = Components
    /\ kept \in [Components -> BOOLEAN]
    /\ left \in 0..Choices
    /\ Kept

\* What a device is does not change, and with it what it can be and be told.
LEMMA SameKind ==
    ASSUME kind' = kind
    PROVE  /\ \A st : Good(st)' <=> Good(st)
           /\ States' = States
           /\ Wishable' = Wishable
           /\ \A c, st, x : Shows(c, st, x)' <=> Shows(c, st, x)
           /\ \A c, st, x : Holds(c, st, x)' <=> Holds(c, st, x)
           /\ Sent' = Sent
<1>1. \A st : Good(st)' <=> Good(st)
  BY DEF Good, PropertyLight
<1>2. States' = States
  BY <1>1 DEF States
<1>3. Wishable' = Wishable
  BY DEF Wishable
<1>4. ASSUME NEW c, NEW st, NEW x
      PROVE  Shows(c, st, x)' <=> Shows(c, st, x)
  <2>1. Shown(c, st)' = Shown(c, st)
    BY DEF Shown, ShownPower, ShownLevel, ShownColor, ShownMode, ShownFan, PropertyLight
  <2>2. QED
    BY <2>1 DEF Shows, PropertyLight
<1>5. ASSUME NEW c, NEW st, NEW x
      PROVE  Holds(c, st, x)' <=> Holds(c, st, x)
  BY <1>4 DEF Holds, Light, PropertyLight
<1>6. \A ch, st : Payload(ch, st)' = Payload(ch, st)
  BY DEF Payload, light_on, light_off, light_brightness, light_colortemp, light_on_off,
         PropertyLight, ShownPower, ShownLevel
<1>7. ChoicesOf' = ChoicesOf
  BY DEF ChoicesOf
<1>8. Sent' = Sent
  BY <1>2, <1>6, <1>7 DEF Sent
<1>9. QED
  BY <1>1, <1>2, <1>3, <1>4, <1>5, <1>8
-----------------------------------------------------------------------------
\* It holds at first, whatever the device.
LEMMA DeviceInit == Init => DeviceInv
<1> SUFFICES ASSUME Init
             PROVE  DeviceInv
  OBVIOUS
<1>1. kind \in AllKinds /\ kind \in Kinds
  BY DeviceAssumption DEF Init
<1>3. Good(dev)
  <2>1. CASE kind = "aircon"
    <3> DEFINE t == 2200
    <3>1. dev = <<0, 4, 2, t>>
      BY <2>1 DEF Init
    <3>2. /\ 0 \in 0..100 /\ 4 \in 0..255
          /\ 2 \in 0..ColorLimit /\ t \in 0..TempLimit
      BY SMT DEF ColorLimit, TempLimit
    <3> HIDE DEF t
    <3>3. <<0, 4, 2, t>> \in Settings
      BY <3>2, SettingOf, Zenon
    <3>4. QED
      BY <2>1, <3>1, <3>2, <3>3 DEF Good, PropertyLight
  <2>2. CASE kind = "strip"
    <3> DEFINE c == 4000
    <3>1. dev = <<1, 40, c, 0>>
      BY <2>2 DEF Init
    <3>2. /\ 1 \in 0..100 /\ 40 \in 0..255
          /\ c \in 0..ColorLimit /\ 0 \in 0..TempLimit
      BY SMT DEF ColorLimit, TempLimit
    <3> HIDE DEF c
    <3>3. <<1, 40, c, 0>> \in Settings
      BY <3>2, SettingOf, Zenon
    <3>4. QED
      BY <2>2, <3>1, <3>2, <3>3 DEF Good, PropertyLight
  <2>3. CASE kind = "dimmer"
    <3>1. dev = <<0, 40, 0, 0>>
      BY <2>3 DEF Init
    <3>2. /\ 0 \in 0..100 /\ 40 \in 0..255
          /\ 0 \in 0..ColorLimit /\ 0 \in 0..TempLimit
      BY SMT DEF ColorLimit, TempLimit
    <3>3. <<0, 40, 0, 0>> \in Settings
      BY <3>2, SettingOf, Zenon
    <3>4. QED
      BY <2>3, <3>1, <3>2, <3>3 DEF Good, PropertyLight
  <2>4. CASE kind \in {"cover", "fan"}
    <3>1. PICK a \in {0, 2}, q \in {0, 1} : dev = <<50, a, q, 0>>
      BY <2>4 DEF Init
    <3>2. /\ 50 \in 0..100 /\ a \in 0..255
          /\ q \in 0..ColorLimit /\ 0 \in 0..TempLimit
      BY SMT DEF ColorLimit, TempLimit
    <3>3. <<50, a, q, 0>> \in Settings
      BY <3>2, SettingOf, Zenon
    <3>4. QED
      BY <2>4, <3>1, <3>2, <3>3 DEF Good, PropertyLight
  <2>5. CASE kind \in {"tunable", "bulb", "relay"}
    <3> DEFINE l == 200
               c == 250
    <3>1. dev = <<0, l, c, 0>>
      BY <2>5 DEF Init
    <3>2. /\ 0 \in 0..100 /\ l \in 0..255
          /\ c \in 0..ColorLimit /\ 0 \in 0..TempLimit /\ c \in 150..400
      BY SMT DEF ColorLimit, TempLimit
    <3> HIDE DEF l, c
    <3>3. <<0, l, c, 0>> \in Settings
      BY <3>2, SettingOf, Zenon
    <3>4. QED
      BY <2>5, <3>1, <3>2, <3>3 DEF Good, PropertyLight
  <2>6. QED
    BY <1>1, <2>1, <2>2, <2>3, <2>4, <2>5 DEF AllKinds
<1>4. cache \in States \union {None}
  BY <1>3 DEF Init, States, Good
<1>5. commands \in Seq(Sent) /\ reports \in Seq(States)
  BY DEF Init
<1>6. DOMAIN wish = Components /\ kept \in [Components -> BOOLEAN] /\ left \in 0..Choices
  BY DeviceAssumption DEF Init, Defaults
<1>7. Kept
  BY DEF Init, Kept
<1>8. QED
  BY <1>1, <1>3, <1>4, <1>5, <1>6, <1>7 DEF DeviceInv

\* What a choice asks for are pairs.
LEMMA AskPairs ==
    ASSUME kind \in AllKinds, NEW ch \in ChoicesOf, NEW w \in Asks(ch)
    PROVE  w = <<w[1], w[2]>>
<1>1. \E a, b : w = <<a, b>>
  <2>1. CASE kind = "fan"
    BY <2>1 DEF Asks
  <2>2. CASE kind # "fan"
    <3>1. ch.op \in {"off", "on", "brightness", "color", "both", "mode", "temp", "fan",
                     "open", "close", "position", "stop"}
      BY <2>2 DEF ChoicesOf, OnOff, Dim, Tint, Choice, AllKinds
    <3>2. QED
      BY <2>2, <3>1 DEF Asks
  <2>3. QED
    BY <2>1, <2>2
<1>2. QED
  BY <1>1

\* The device has what was chosen, and what was known when it was told, after a command.
LEMMA DeliverKeeps ==
    ASSUME DeviceInv, Deliver
    PROVE  DeviceInv'
<1>1. kind' = kind /\ cache' = cache /\ left' = left /\ commands # <<>>
  BY DEF Deliver
<1>2. PICK ch \in ChoicesOf, base \in States \union {None} :
         Head(commands) = [payload |-> Payload(ch, base), choice |-> ch, base |-> base]
  <2>1. Head(commands) \in Sent
    BY <1>1 DEF DeviceInv
  <2>2. QED
    BY <2>1, SentParts
<1> DEFINE About(c) == {w \in Asks(ch) : w[1] = c}
<1>3. /\ dev' \in Adopts(Payload(ch, base))
      /\ wish' = [c \in Components |->
                    IF About(c) = {} THEN wish[c] ELSE (CHOOSE w \in About(c) : TRUE)[2]]
      /\ kept' = [c \in Components |->
                    /\ c \notin Loses(ch)
                    /\ About(c) # {} \/ (kept[c] /\ Shows(c, base, wish[c]))]
      /\ reports' = Append(reports, dev') /\ commands' = Tail(commands)
  BY <1>2 DEF Deliver
<1>4. Takes(dev', ch, base)
  <2>1. base = None \/ Good(base)
    BY DEF States
  <2>2. \A new \in Adopts(Payload(ch, base)) : Takes(new, ch, base)
    BY <2>1, CommandTakes DEF DeviceInv
  <2>3. QED
    BY <1>3, <2>2
<1>5. PICK d : d = dev'
  OBVIOUS
<1>6. Good(d) /\ d \in States
  BY <1>4, <1>5 DEF Takes, States, Good
<1>7. Good(dev)'
  BY <1>1, <1>5, <1>6 DEF Good, PropertyLight
<1>8. States' = States /\ Sent' = Sent /\ Wishable' = Wishable
  BY <1>1, SameKind
<1>9. commands' \in Seq(Sent) /\ reports' \in Seq(States)
  BY <1>1, <1>3, <1>5, <1>6 DEF DeviceInv
<1>10. ASSUME NEW c \in Components, NEW x, x = wish'[c], kept'[c]
       PROVE  <<c, x>> \in Wishable /\ Holds(c, d, x)
  <2>0. c \notin Loses(ch)
    BY <1>3, <1>10
  <2>1. CASE About(c) # {}
    <3>1. PICK w \in Asks(ch) : w[1] = c /\ x = w[2]
      <4>1. (CHOOSE w \in About(c) : TRUE) \in About(c)
        BY <2>1
      <4>2. x = (CHOOSE w \in About(c) : TRUE)[2]
        BY <1>3, <1>10, <2>1
      <4>3. QED
        BY <4>1, <4>2
    <3>2. w = <<c, x>>
      BY <3>1, AskPairs, DeviceAssumption DEF DeviceInv
    <3>3. QED
      BY <1>4, <1>5, <2>0, <3>1, <3>2 DEF Takes
  <2>2. CASE About(c) = {}
    <3>1. x = wish[c] /\ kept[c] /\ Shows(c, base, x)
      BY <1>3, <1>10, <2>2
    <3>2. \A y : <<c, y>> \notin Asks(ch)
      BY <2>2
    <3>3. <<c, x>> \in Wishable /\ Holds(c, dev, x)
      BY <3>1 DEF DeviceInv, Kept
    <3>4. QED
      BY <1>4, <1>5, <2>0, <3>1, <3>2, <3>3 DEF Takes
  <2>3. QED
    BY <2>1, <2>2
<1>11. Kept'
  <2>1. ASSUME NEW c \in Components, NEW st \in {dev'}, NEW x \in {wish'[c]}, kept'[c]
        PROVE  <<c, x>> \in Wishable' /\ Holds(c, st, x)'
    <3>1. st = d /\ x = wish'[c]
      BY <1>5
    <3>2. Holds(c, st, x) /\ <<c, x>> \in Wishable
      BY <1>10, <2>1, <3>1
    <3>3. QED
      BY <1>1, <1>8, <3>2, SameKind
  <2>2. QED
    BY <2>1 DEF Kept
<1>12. DOMAIN wish' = Components /\ kept' \in [Components -> BOOLEAN]
  <2>1. \A c \in Components : kept[c] \in BOOLEAN
    BY DEF DeviceInv
  <2>2. QED
    BY <1>3, <2>1
<1>13. QED
  BY <1>1, <1>7, <1>8, <1>9, <1>11, <1>12 DEF DeviceInv

\* Every step keeps it.
LEMMA DeviceNext == DeviceInv /\ [Next]_vars => DeviceInv'
<1> SUFFICES ASSUME DeviceInv, [Next]_vars
             PROVE  DeviceInv'
  OBVIOUS
<1>1. ASSUME UNCHANGED <<kind, dev, wish, kept>>, cache' \in States \union {None},
             commands' \in Seq(Sent), reports' \in Seq(States), left' \in 0..Choices
      PROVE  DeviceInv'
  <2>1. States' = States /\ Sent' = Sent /\ Wishable' = Wishable
    BY <1>1, SameKind
  <2>2. Good(dev)'
    BY <1>1 DEF DeviceInv, Good, PropertyLight
  <2>3. Kept'
    BY <1>1, <2>1, SameKind DEF DeviceInv, Kept
  <2>4. QED
    BY <1>1, <2>1, <2>2, <2>3 DEF DeviceInv
<1>2. ASSUME NEW c \in ChoicesOf, Choose(c)
      PROVE  DeviceInv'
  <2>1. [payload |-> Payload(c, cache), choice |-> c, base |-> cache] \in Sent
    BY DEF DeviceInv, Sent
  <2>2. commands' \in Seq(Sent)
    BY <1>2, <2>1 DEF Choose, DeviceInv
  <2>3. left' \in 0..Choices
    BY <1>2, DeviceAssumption, SMT DEF Choose, DeviceInv
  <2>4. QED
    BY <1>1, <1>2, <2>2, <2>3 DEF Choose, DeviceInv
<1>3. CASE Deliver
  BY <1>3, DeliverKeeps
<1>4. CASE CommandFails
  <2>1. commands' \in Seq(Sent)
    BY <1>4 DEF CommandFails, DeviceInv
  <2>2. QED
    BY <1>1, <1>4, <2>1 DEF CommandFails, DeviceInv
<1>5. CASE Report
  <2>1. cache' \in States /\ reports' \in Seq(States)
    BY <1>5 DEF Report, DeviceInv
  <2>2. QED
    BY <1>1, <1>5, <2>1 DEF Report, DeviceInv
<1>6. CASE ReportLost
  <2>1. reports' \in Seq(States)
    BY <1>6 DEF ReportLost, DeviceInv
  <2>2. QED
    BY <1>1, <1>6, <2>1 DEF ReportLost, DeviceInv
<1>7. CASE UNCHANGED vars
  BY <1>1, <1>7 DEF vars, DeviceInv
<1>8. QED
  BY <1>2, <1>3, <1>4, <1>5, <1>6, <1>7 DEF Next

\* Settings stay in range on their way to the device and back, and the device has every
\* choice that the commands after it knew of.
THEOREM Invariant == Spec => []DeviceInv
BY DeviceInit, DeviceNext, PTL DEF Spec

\* No payload of lib/device_control.py leaves the range of its values.
THEOREM TypeCorrect == Spec => []TypeOK
<1>1. DeviceInv => TypeOK
  BY DEF DeviceInv, TypeOK, Good, States
<1>2. QED
  BY <1>1, Invariant, PTL

\* Once the device has reported, the entity shows every choice that later commands knew of
\* (async_turn_on, async_set_temperature and the other services that fill in what the user
\* did not choose): for all brightnesses, colours, positions and temperatures, and any
\* number of choices, with commands that fail and reports that are lost.
THEOREM ChoicesStay == Spec => []KnownChoicesStay
<1>1. DeviceInv => KnownChoicesStay
  <2> SUFFICES ASSUME DeviceInv, cache = dev, NEW c \in Components, kept[c], Visible(c)
               PROVE  Shows(c, dev, wish[c])
    BY DEF KnownChoicesStay
  <2>1. Holds(c, dev, wish[c]) /\ dev \in Settings
    BY DEF DeviceInv, Kept, Good
  <2>2. CASE Light /\ c # "power"
    <3>1. dev[1] = 0
      BY <2>2 DEF Visible, ShownPower, Light
    <3>2. [dev EXCEPT ![1] = 0] = dev
      BY <2>1, <3>1 DEF Settings
    <3>3. QED
      BY <2>1, <2>2, <3>1, <3>2 DEF Holds
  <2>3. CASE ~(Light /\ c # "power")
    BY <2>1, <2>3 DEF Holds
  <2>4. QED
    BY <2>2, <2>3
<1>2. QED
  BY <1>1, Invariant, PTL
=============================================================================
