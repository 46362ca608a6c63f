------------------------------- MODULE Light -------------------------------
(***************************************************************************)
(* A light entity: its state (entity/light/light_state.py), the commands   *)
(* of Home Assistant (light_controller.py), the channels of its universe   *)
(* it writes and listens to, and what it keeps over a restart              *)
(* (light_entity.py).                                                      *)
(*                                                                         *)
(* A handler of the event loop that never suspends is one step; so are a   *)
(* command and its writes.  A transition is an animation whose frames come *)
(* between the commands; its frame values are those half way, as none but  *)
(* the last depends on the color space, and that transitions outlast their *)
(* first frame is assumed (AnimationEngine has the other ones, and several *)
(* lights).  Channels have eight bits and no output correction.            *)
(***************************************************************************)
EXTENDS ColorConverter, Sequences, FiniteSets, SequencesExt

CONSTANTS
    Kinds,          \* the channels the light may have, as sequences
    Brightnesses, Colors, Kelvins,   \* what commands ask for
    Levels,         \* the values others write
    MaxSteps        \* bound on the commands, writes of others and restarts

ChannelNames == {"dimmer", "red", "green", "blue", "cold", "warm", "temp"}
Bytes == 0..255

(* __build_light_entities: a lone cold white counts as a warm one, the colors *)
(* come together, and they go with a temperature only if its white can be     *)
(* dimmed.                                                                    *)
ASSUME KindsAssumption ==
    /\ Kinds \subseteq Seq(ChannelNames)
    /\ \A kind \in Kinds :
         LET with(c) == c \in ToSet(kind)
         IN  /\ with("cold") => with("warm")
             /\ with("red") <=> with("green")
             /\ with("red") <=> with("blue")
             /\ with("red") /\ with("temp") => with("warm") \/ with("dimmer")
ASSUME InputsAssumption ==
    /\ Brightnesses \subseteq 1..255 /\ Colors \subseteq Seq(Bytes) /\ Levels \subseteq Bytes
    /\ Kelvins \subseteq Nat \ {0} /\ MaxSteps \in Nat

Unset == -1         \* a channel that was never written

VARIABLES
    channels,   \* the channels of the light, in their order
    s,          \* its LightState
    dmx,        \* the values of its channels in the universe
    animation,  \* the running animation, if any: where its channels come from and go to
    steps,      \* how many commands, writes of others and restarts there were
    left,       \* history: the channels that a cancelled animation has left half way
    shown       \* history: what the light showed when it was turned off, or at a restart

vars == <<channels, s, dmx, animation, steps, left, shown>>

Has(c) == c \in ToSet(channels)
HasRgb == Has("red") /\ Has("green") /\ Has("blue")
HasCwWw == Has("cold") /\ Has("warm")
HasDimmer == Has("dimmer")
SwitchesColorMode == HasRgb /\ Has("temp") /\ ~Has("cold")
ModeForRgb == IF Has("warm") THEN "rgbw" ELSE "rgb"

(* __build_light_entities. *)
FirstMode ==
    CASE HasRgb /\ HasCwWw -> "rgbww"
      [] ~(HasRgb /\ HasCwWw) /\ (SwitchesColorMode \/ (~HasRgb /\ (HasCwWw \/ Has("temp")))) -> "color_temp"
      [] HasRgb /\ ~HasCwWw /\ ~Has("temp") -> ModeForRgb
      [] OTHER -> "brightness"

(* An entry of a sequence that is there if the light has the channel. *)
Only(c, entry) == IF Has(c) THEN <<entry>> ELSE <<>>

OutputChannels ==
    Only("red", "red") \o Only("green", "green") \o Only("blue", "blue") \o Only("cold", "cold") \o Only("warm", "warm")
Colors3 == <<"red", "green", "blue">>

-----------------------------------------------------------------------------
(* The attributes of LightState; those with a last_ twin are in v and last. *)
Twins == {"brightness", "red", "green", "blue", "cold", "warm", "kelvin", "temp"}

FirstValues ==
    [a \in Twins |-> CASE a = "kelvin" -> 3000
                       [] a = "temp" -> 255 * Range_
                       [] a \in ToSet(Colors3) /\ SwitchesColorMode -> 0
                       [] OTHER -> 255]

FirstState == [on |-> FALSE, mode |-> FirstMode, preserve |-> FALSE, v |-> FirstValues, last |-> FirstValues]

AnyOf(st, attributes) == \E a \in attributes : st.v[a] > 0
Rgb == {"red", "green", "blue"}

(* The last_ values of some attributes, unless they are preserved. *)
Remembered(st, attributes) ==
    IF st.preserve THEN st
    ELSE [st EXCEPT !.last = [a \in Twins |-> IF a \in attributes THEN st.v[a] ELSE @[a]]]

(* update_rgb, update_rgbw, update_rgbww, update_whites: all if one is positive. *)
RememberedIfAny(st, attributes) == IF AnyOf(st, attributes) THEN Remembered(st, attributes) ELSE st

Together(mode) ==
    CASE mode = "rgb" -> Rgb
      [] mode = "rgbw" -> Rgb \cup {"warm"}
      [] mode = "rgbww" -> Rgb \cup {"cold", "warm"}
      [] mode = "color_temp" -> {"cold", "warm"}
      [] mode = "brightness" -> {}

UpdateBrightness(st, value) == RememberedIfAny([st EXCEPT !.v.brightness = value], {"brightness"})

UpdateColorTempDmx(st, value) ==
    Remembered([st EXCEPT !.v.temp = value, !.v.kelvin = DmxToKelvin(value)], {"temp", "kelvin"})

UpdateColorTempKelvin(st, kelvin) ==
    Remembered([st EXCEPT !.v.kelvin = kelvin, !.v.temp = KelvinToDmx(kelvin)], {"temp", "kelvin"})

Highest(values) == CHOOSE x \in values \cup {0} : \A y \in values : y <= x

UpdateBrightnessFromChannels(st) ==
    LET new == UpdateBrightness(st, Highest({st.v[c] : c \in ToSet(OutputChannels)}))
    IN  [new EXCEPT !.on = IF new.v.brightness > 0 THEN TRUE
                           ELSE IF st.v.brightness > 0 THEN FALSE ELSE @]

SyncColorMode(st) ==
    IF ~SwitchesColorMode THEN st
    ELSE IF AnyOf(st, Rgb) THEN [st EXCEPT !.mode = ModeForRgb]
    ELSE LET white == [st EXCEPT !.mode = "color_temp"]
         IN  Remembered(white, Rgb)

HandleRgb(st, c, value) ==
    LET set == [st EXCEPT !.v[c] = value]
        new == IF SwitchesColorMode THEN SyncColorMode(RememberedIfAny(set, Rgb))
               ELSE RememberedIfAny(set, Together(st.mode))
    IN  IF HasDimmer THEN new ELSE UpdateBrightnessFromChannels(new)

HandleWhite(st, c, value) ==
    LET set == RememberedIfAny([st EXCEPT !.v[c] = value], {c})
        new == RememberedIfAny(set, Together(st.mode))
        brighter == UpdateBrightness(new, Brighter(new.v.cold, new.v.warm))
        off == IF brighter.v.brightness = 0 /\ st.v.brightness > 0 THEN [brighter EXCEPT !.on = FALSE] ELSE brighter
    IN  IF HasDimmer THEN new
        ELSE IF st.mode = "color_temp" /\ HasCwWw
             THEN UpdateColorTempKelvin(off, CwWwToTemp(off.v.cold, off.v.warm))
        ELSE UpdateBrightnessFromChannels(new)

OnWithoutDimmer(st) ==
    CASE st.mode = "color_temp" /\ HasCwWw -> AnyOf(st, {"cold", "warm"})
      [] st.mode \in {"rgb", "rgbw", "rgbww"} -> AnyOf(st, Together(st.mode))
      [] OTHER -> IF Has("warm") THEN AnyOf(st, {"warm"}) ELSE AnyOf(st, {"brightness"})

(* Mutant: the outputs say whether the light is on, dimmed or not. *)
OnByOutputs(st) == [st EXCEPT !.on = AnyOf(st, Rgb \cup {"cold", "warm"}) /\ OnWithoutDimmer(st)]

(* _update_on_state_after_channel_update. *)
WithOn(st) ==
    IF HasDimmer THEN [st EXCEPT !.on = AnyOf(st, {"brightness"})]
    ELSE IF OutputChannels = <<>> THEN st
    ELSE [st EXCEPT !.on = AnyOf(st, Rgb \cup {"cold", "warm"}) /\ OnWithoutDimmer(st)]

ApplyChannelUpdate(st, c, value) ==
    WithOn(CASE c = "dimmer" -> [UpdateBrightness(st, value) EXCEPT !.on = value > 0]
             [] c \in Rgb -> HandleRgb(st, c, value)
             [] c \in {"cold", "warm"} -> HandleWhite(st, c, value)
             [] c = "temp" -> UpdateColorTempDmx(st, value))

(* The attribute that stands for a channel. *)
Value(v, c) == IF c = "dimmer" THEN v.brightness ELSE v[c]

(* Mutant: the color temperature is cut off, not rounded. *)
CutOffValue(st, c) == IF c = "temp" THEN st.v.temp \div Range_ ELSE Value(st.v, c)

(* get_channel_entity_value. *)
EntityValue(st, c) == IF c = "temp" THEN Round(st.v.temp, Range_) ELSE Value(st.v, c)

-----------------------------------------------------------------------------
(* Updates are a sequence of channels and values, in the order of the dict. *)
Put(updates, c, value) ==
    IF \E i \in DOMAIN updates : updates[i][1] = c
    THEN [i \in DOMAIN updates |-> IF updates[i][1] = c THEN <<c, value>> ELSE updates[i]]
    ELSE Append(updates, <<c, value>>)
PutAll(updates, more) ==
    LET put[i \in 0..Len(more)] == IF i = 0 THEN updates ELSE Put(put[i - 1], more[i][1], more[i][2])
    IN  put[Len(more)]
Names(updates) == {p[1] : p \in ToSet(updates)}
ValueOf(updates, c) == (CHOOSE p \in ToSet(updates) : p[1] = c)[2]

(* apply_channel_updates, one after the other. *)
Applied(st, p) == IF Has(p[1]) THEN ApplyChannelUpdate(st, p[1], p[2]) ELSE st
ApplyAll(st, updates) ==
    LET after[i \in 0..Len(updates)] == IF i = 0 THEN st ELSE Applied(after[i - 1], updates[i])
    IN  after[Len(updates)]

(* get_dmx_updates; of a value for "temp" the nearest whole one. *)
Rendered(updates) ==
    [c \in Names(updates) \cap ToSet(channels) |->
        IF c = "temp" THEN Round(ValueOf(updates, c), Range_) ELSE ValueOf(updates, c)]

Changed(values) == {c \in DOMAIN values : values[c] # dmx[c]}

(* What _handle_channel_update for the channels that have changed makes of a  *)
(* state, in one order of the set of callbacks or another.                    *)
Heard(st, values) ==
    LET heard(c) == <<c, IF c = "temp" THEN values[c] * Range_ ELSE values[c]>>
    IN  {ApplyAll(st, [i \in DOMAIN order |-> heard(order[i])]) : order \in SetToSeqs(Changed(values))}

Written(values) == [c \in DOMAIN dmx |-> IF c \in DOMAIN values THEN values[c] ELSE dmx[c]]

ScaleToBrightness(updates, brightness) ==
    LET max == Highest({updates[i][2] : i \in DOMAIN updates})
        scaled(x) == IF max = 0 THEN 0 ELSE Round(x * brightness, max)
    IN  [i \in DOMAIN updates |-> <<updates[i][1], scaled(updates[i][2])>>]

Outputs(values) == [i \in DOMAIN OutputChannels |-> <<OutputChannels[i], values[OutputChannels[i]]>>]

CwWw(kelvin, brightness) ==
    LET pair == TempToCwWw(kelvin, brightness) IN <<<<"cold", pair[1]>>, <<"warm", pair[2]>>>>

(* get_scaled_brightness_updates. *)
BrightnessUpdates(st, brightness) ==
    IF HasDimmer THEN <<<<"dimmer", brightness>>>>
    ELSE IF HasCwWw /\ ~HasRgb THEN CwWw(st.v.kelvin, brightness)
    ELSE ScaleToBrightness(Outputs(IF AnyOf(st, ToSet(OutputChannels)) THEN st.v ELSE st.last), brightness)

-----------------------------------------------------------------------------
(* A command has some of brightness, color and kelvin; zero brightness is a   *)
(* turn_off to Home Assistant, and a color has the parts of the color mode.   *)
Zero == 0
ColorUpdates(command) == [i \in DOMAIN command.color |-> <<OutputChannels[i], command.color[i]>>]

FirstPositive(seq) ==
    LET positive == {i \in DOMAIN seq : seq[i] > 0}
    IN  IF positive = {} THEN 255 ELSE seq[CHOOSE i \in positive : \A j \in positive : i <= j]

CollectUpdates(st, command) ==
    LET bright == IF command.brightness = Zero THEN <<>> ELSE BrightnessUpdates(st, command.brightness)
        color == IF command.brightness = Zero \/ HasDimmer THEN ColorUpdates(command)
                 ELSE ScaleToBrightness(ColorUpdates(command), command.brightness)
        white == IF HasDimmer THEN 255
                 ELSE FirstPositive(<<command.brightness, st.v.brightness, st.last.brightness>>)
        temp == IF Has("temp") THEN <<<<"temp", KelvinToDmx(command.kelvin)>>>> ELSE <<>>
        whites == IF HasCwWw THEN CwWw(command.kelvin, white)
                  ELSE IF Has("warm") THEN <<<<"warm", white>>>> ELSE <<>>
        dark == IF SwitchesColorMode THEN [i \in 1..3 |-> <<Colors3[i], 0>>] ELSE <<>>
    IN  PutAll(PutAll(bright, color), IF command.kelvin = Zero THEN <<>> ELSE temp \o whites \o dark)

RestorePreviousState(st) ==
    LET last(c) == Only(c, <<c, Value(st.last, c)>>)
    IN  last("dimmer") \o last("red") \o last("green") \o last("blue") \o last("cold") \o last("warm") \o last("temp")

Dark(c) == dmx[c] \in {Unset, 0}

(* Mutant: only what was asked for. *)
OnlyRequested(st, updates) == updates

(* _add_updates_to_become_visible. *)
BecomeVisible(st, updates) ==
    IF ~HasDimmer THEN updates
    ELSE LET dimmed == IF "dimmer" \notin Names(updates) /\ Dark("dimmer")
                       THEN Put(updates, "dimmer", FirstPositive(<<st.last.brightness>>)) ELSE updates
         IN  IF \A c \in ToSet(OutputChannels) : c \notin Names(dimmed) /\ Dark(c)
             THEN PutAll(dimmed, Outputs(st.last)) ELSE dimmed

(* Mutant: the frames of the animation count as what the user chose. *)
NotPreserved(st) == st

(* The flag that keeps the last_ values from the frames of an animation. *)
Preserving(st) == [st EXCEPT !.preserve = TRUE]
Cleared(st) == [st EXCEPT !.preserve = FALSE]

(* _save_last_state, for turn_off: what _capture_current_state has found. *)
SaveLastState(st, preserved) ==
    IF preserved = {} THEN st ELSE [st EXCEPT !.last = CHOOSE v \in preserved : TRUE]

(* _apply_updates, and what turn_off saves after it.  A running animation     *)
(* is cancelled.  The first frame of a new one has the values that are there, *)
(* and those of the state where nothing was written; the state has its target *)
(* at once.                                                                   *)
ApplyUpdates(st, updates, transition, preserved) ==
    LET target == Rendered(updates)
        start == [c \in DOMAIN target |-> IF dmx[c] = Unset THEN EntityValue(st, c) ELSE dmx[c]]
        animated == transition /\ DOMAIN target # {}
        now == IF animated THEN start ELSE target
        applied(t) == ApplyAll(t, updates)
    IN  /\ left' = (left \cup UNION {DOMAIN a.to : a \in animation}) \ DOMAIN target
        /\ animation' = IF animated THEN {[from |-> start, to |-> target]} ELSE {}
        /\ dmx' = Written(now)
        /\ s' \in IF animated THEN {SaveLastState(Preserving(applied(t)), preserved) : t \in Heard(Cleared(st), now)}
                  ELSE {SaveLastState(t, preserved) : t \in Heard(applied(Cleared(st)), now)}

-----------------------------------------------------------------------------
Lit(values) ==
    IF HasDimmer THEN values["dimmer"] > 0
    ELSE OutputChannels = <<>> \/ \E c \in ToSet(OutputChannels) : values[c] > 0

Settled == animation = {} /\ left = {} /\ \A c \in DOMAIN dmx : dmx[c] # Unset

(* A color temperature shows in white only. *)
Showing == [c \in DOMAIN dmx \ (IF s.mode = "color_temp" THEN {} ELSE {"temp"}) |-> dmx[c]]

Init ==
    /\ channels \in Kinds
    /\ s = FirstState
    /\ dmx = [c \in ToSet(channels) |-> Unset]
    /\ animation = {}
    /\ steps = 0
    /\ left = {}
    /\ shown = {}

UpdatesOf(command) ==
    LET updates == CollectUpdates(s, command)
    IN  IF updates = <<>> THEN RestorePreviousState(s) ELSE BecomeVisible(s, updates)

(* turn_on. *)
TurnOn(command, transition) ==
    LET on == [s EXCEPT !.on = TRUE]
    IN  /\ ApplyUpdates(IF command.kelvin = Zero THEN on ELSE UpdateColorTempKelvin(on, command.kelvin),
                        UpdatesOf(command), transition, {})
        /\ shown' = {}
        /\ UNCHANGED channels

Darkened(st) ==
    IF HasDimmer THEN UpdateBrightness(st, 0)
    ELSE [st EXCEPT !.v.brightness = IF OutputChannels = <<>> THEN @ ELSE 0, !.v.cold = 0, !.v.warm = 0]

(* turn_off. *)
TurnOff(transition) ==
    LET updates == IF HasDimmer THEN <<<<"dimmer", 0>>>>
                   ELSE [i \in DOMAIN OutputChannels |-> <<OutputChannels[i], 0>>]
    IN  /\ ApplyUpdates(Darkened([s EXCEPT !.on = FALSE]), updates, transition, {s.v})
        /\ shown' = IF Settled /\ Lit(dmx) THEN {Showing} ELSE {}
        /\ UNCHANGED channels

(* A frame before the last one of the animation ... *)
Frame ==
    /\ \E a \in animation :
          LET half == [c \in DOMAIN a.to |-> (a.from[c] + a.to[c]) \div 2]
          IN  /\ dmx' = Written(half)
              /\ s' \in Heard(s, half)
    /\ UNCHANGED <<channels, animation, steps, left, shown>>

(* ... and the last one, with _on_animation_complete. *)
LastFrame ==
    /\ \E a \in animation :
          /\ dmx' = Written(a.to)
          /\ s' \in {Cleared(t) : t \in Heard(s, a.to)}
    /\ animation' = {}
    /\ UNCHANGED <<channels, steps, left, shown>>

(* Another entity, or a frame from the network, writes channels. *)
OthersWrite(values) ==
    /\ dmx' = Written(values)
    /\ s' \in Heard(s, values)
    /\ left' = left \ Changed(values)
    /\ shown' = {}
    /\ UNCHANGED <<channels, animation>>

-----------------------------------------------------------------------------
(* The attributes Home Assistant keeps of a light that is off are empty; of   *)
(* one that is on it keeps those of its color mode.  _restore_color: *)
RestoredColor(st) ==
    LET kept == IF s.on /\ s.mode \in {"rgb", "rgbw", "rgbww"} THEN Together(s.mode) ELSE {}
        value(old) == [a \in Twins |-> IF a \in kept THEN s.v[a] ELSE old[a]]
    IN  SyncColorMode([st EXCEPT !.v = value(@), !.last = value(@)])

Both(st, values) ==
    LET value(old) == [a \in Twins |-> IF a \in DOMAIN values THEN values[a] ELSE old[a]]
    IN  [st EXCEPT !.v = value(@), !.last = value(@)]

(* async_added_to_hass. *)
Restored ==
    LET bright == [FirstState EXCEPT !.on = s.on, !.v.brightness = IF s.on THEN s.v.brightness ELSE @,
                                     !.last.brightness = IF s.on THEN s.v.brightness ELSE @]
        color == RestoredColor(bright)
        white == s.on /\ s.mode = "color_temp"
        temp == IF white THEN UpdateColorTempKelvin(color, s.v.kelvin) ELSE color
        pair == TempToCwWw(IF white THEN s.v.kelvin ELSE (MinKelvin + MaxKelvin) \div 2,
                           IF s.on /\ s.v.brightness > 0 THEN s.v.brightness ELSE 100)
    IN  IF temp.mode = "color_temp" /\ HasCwWw /\ ~HasDimmer
        THEN Both(temp, [cold |-> pair[1], warm |-> pair[2]])
        ELSE IF Has("warm") /\ ~HasCwWw /\ ~HasDimmer /\ s.on
                  /\ s.mode \in {"brightness", "color_temp"} /\ s.v.brightness > 0
        THEN Both(temp, [warm |-> s.v.brightness])
        ELSE temp

(* The whites of a light with a dimmer are not restored. *)
KeptOverRestart == ~(HasDimmer /\ Has("warm"))

Restart ==
    /\ s' = Restored
    /\ dmx' = [c \in DOMAIN dmx |-> Unset]
    /\ animation' = {}
    /\ left' = {}
    /\ shown' = IF Settled /\ s.on /\ KeptOverRestart THEN {Showing} ELSE {}
    /\ UNCHANGED channels

-----------------------------------------------------------------------------
(* What Home Assistant asks of a light with these color modes. *)
Commands ==
    LET colors == IF HasRgb THEN {c \in Colors : Len(c) = Len(OutputChannels)} ELSE {}
        kelvins == IF FirstMode = "color_temp" THEN Kelvins ELSE {}
        command(b, c, k) == [brightness |-> b, color |-> c, kelvin |-> k]
    IN  {command(b, <<>>, Zero) : b \in Brightnesses \cup {Zero}}
        \cup {command(b, c, Zero) : b \in Brightnesses \cup {Zero}, c \in colors}
        \cup {command(b, <<>>, k) : b \in Brightnesses \cup {Zero}, k \in kelvins}

Step ==
    /\ steps < MaxSteps
    /\ steps' = steps + 1
    /\ \/ \E command \in Commands, transition \in BOOLEAN : TurnOn(command, transition)
       \/ \E transition \in BOOLEAN : TurnOff(transition)
       \/ \E c \in ToSet(channels), value \in Levels : OthersWrite([x \in {c} |-> value])
       \/ OthersWrite([c \in ToSet(channels) |-> 0])
       \/ Restart

Next == Step \/ Frame \/ LastFrame

Spec == Init /\ [][Next]_vars

-----------------------------------------------------------------------------
TypeOK ==
    /\ channels \in Kinds /\ steps \in 0..MaxSteps
    /\ s.on \in BOOLEAN /\ s.preserve \in BOOLEAN
    /\ s.mode \in {"rgb", "rgbw", "rgbww", "color_temp", "brightness"}
    /\ \A a \in Twins \ {"kelvin", "temp"} : s.v[a] \in Bytes /\ s.last[a] \in Bytes
    /\ \A v \in {s.v, s.last} : v.kelvin \in Nat /\ v.temp \in 0..(255 * Range_)
    /\ dmx \in [ToSet(channels) -> Bytes \cup {Unset}]
    /\ left \subseteq ToSet(channels)

(* The state that Home Assistant shows is that of the channels, through all   *)
(* commands, frames and writes of others, whatever order they are heard in.   *)
StateShowsChannels ==
    animation = {} => \A c \in DOMAIN dmx \ left : dmx[c] # Unset => EntityValue(s, c) = dmx[c]

(* A light is on if its channels show it. *)
OnIfLit == Settled /\ (HasDimmer \/ OutputChannels # <<>>) => (s.on <=> Lit(dmx))

(* What a turn_on without a color or a brightness brings back. *)
BroughtBack == Rendered(RestorePreviousState(s))

LastIsWhatWasShown == \A values \in shown : \A c \in DOMAIN values : BroughtBack[c] = values[c]

(* Values at which the light is dark in no part: a dimmer dims the others.    *)
(* Colors over a color temperature show its white when they are all zero.     *)
Visible(values) ==
    /\ HasDimmer => values["dimmer"] > 0
    /\ \/ OutputChannels = <<>> \/ (SwitchesColorMode /\ ~Has("warm"))
       \/ \E c \in ToSet(OutputChannels) : values[c] > 0

(* Whatever was written before, in the middle of a fade and on channels never *)
(* written, any turn_on makes the light visible, provided that what it would  *)
(* bring back is: the last_ values of a light that is turned off twice are    *)
(* zero.                                                                      *)
CommandsMakeVisible ==
    Visible(BroughtBack) => \A command \in Commands : Visible(Written(Rendered(UpdatesOf(command))))
=============================================================================
