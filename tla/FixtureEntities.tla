--------------------------- MODULE FixtureEntities ---------------------------
(***************************************************************************)
(* The entities of a fixture that share channels: a select                 *)
(* (entity/select.py) with the sliders of its options, the numbers         *)
(* (entity/number.py) of channels its options switch between, numbers on   *)
(* channels of their own, and the switch of their universe (switch.py).    *)
(*                                                                         *)
(* A handler of the event loop never suspends, so that it is one step,     *)
(* except for the restoring of an entity, which asks for its last state in *)
(* between.  A byte has Base values.  There is no output correction.       *)
(***************************************************************************)
EXTENDS Integers, Sequences, FiniteSetsExt, SequencesExt

CONSTANTS
    Base,       \* the values of a byte: 256
    Fixtures,   \* the possible fixtures
    Levels,     \* the bytes that frames from the network have
    None,       \* no value
    MaxSteps    \* bound on the commands, frames, switchings and restarts

Select == "select"

ASSUME BaseAssumption == Base \in Nat /\ Base > 1
ASSUME NoneAssumption == None \notin Int /\ None # Select

Bytes == 0..(Base - 1)
Power[k \in Nat] == IF k = 0 THEN 1 ELSE Base * Power[k - 1]

ASSUME LevelsAssumption == Levels \subseteq Bytes

(* What create_entities makes of a fixture: every channel has slots of its    *)
(* own, the sliders of a select have the slots of the select, and the options *)
(* have ranges that the fixture format wants apart, within the bytes they are *)
(* expressed in.  A channel an option switches to is known by its own name.   *)
HasSlots(channels) == channels \in Seq(Nat) /\ channels # <<>> /\ IsInjective(channels)

IsNumber(number) ==
    /\ HasSlots(number.channels)
    /\ number.rangeBytes \in Nat \ {0} /\ number.owns \in BOOLEAN
    /\ number.low \in Int /\ number.high \in Int /\ number.low < number.high
    /\ number.from \in Nat /\ number.to \in Nat /\ number.from < number.to

IsOption(option, f) ==
    /\ option.from \in Nat /\ option.to \in Nat
    /\ option.from <= option.to /\ option.to < Power[f.rangeBytes]
    /\ option.menuClick \in {None} \cup option.from..option.to
    /\ option.slider # None =>
          /\ option.slider \in DOMAIN f.numbers
          /\ f.numbers[option.slider].channels = f.channels
          /\ ~f.numbers[option.slider].owns
    /\ option.switchesTo # None =>
          /\ option.switchesTo \in DOMAIN f.numbers
          /\ f.numbers[option.switchesTo].owns

IsFixture(f) ==
    /\ HasSlots(f.channels) /\ f.rangeBytes \in Nat \ {0} /\ f.default \in Nat
    /\ {Select, None} \cap DOMAIN f.numbers = {}
    /\ \A n \in DOMAIN f.numbers :
          /\ IsNumber(f.numbers[n])
          /\ f.numbers[n].owns => ToSet(f.numbers[n].channels) \cap ToSet(f.channels) = {}
    /\ DOMAIN f.options = 1..Len(f.options) /\ Len(f.options) \in Nat \ {0}
    /\ \A o \in DOMAIN f.options : IsOption(f.options[o], f)
    /\ \A o, p \in DOMAIN f.options :
          o # p => f.options[o].to < f.options[p].from \/ f.options[p].to < f.options[o].from

ASSUME FixtureAssumption == \A f \in Fixtures : IsFixture(f)

VARIABLES
    fixture,    \* the fixture
    s,          \* the channel values of the universe, and what its entities show
    phase,      \* how far each entity has been added to Home Assistant
    stored,     \* what Home Assistant kept of the entities at the last stop
    steps,      \* how many of those there were
    wanted,     \* history: what commands and frames have last written
    missed,     \* history: the numbers whose channels changed while they were hidden
    switched    \* history: whether the universe was switched off

vars == <<fixture, s, phase, stored, steps, wanted, missed, switched>>

Numbers == DOMAIN fixture.numbers
Entities == Numbers \cup {Select}
Options == fixture.options
ChannelsOf(e) == IF e = Select THEN fixture.channels ELSE fixture.numbers[e].channels
Channels == UNION {ToSet(ChannelsOf(e)) : e \in Entities}

-----------------------------------------------------------------------------
(* round(n / d): to the nearest, and to the even one of two. *)
Round(n, d) ==
    IF 2 * (n % d) > d \/ (2 * (n % d) = d /\ (n \div d) % 2 = 1) THEN (n \div d) + 1 ELSE n \div d

Combined(bytes) ==
    LET upTo[i \in 0..Len(bytes)] == IF i = 0 THEN 0 ELSE Base * upTo[i - 1] + bytes[i]
    IN  upTo[Len(bytes)]
Split(n, count) == [i \in 1..count |-> (n \div Power[count - i]) % Base]

(* dmx_bytes_to_range_value: bytes against ranges of another resolution. *)
RangeValue(bytes, rangeBytes) ==
    IF Len(bytes) > rangeBytes THEN Combined(bytes) \div Power[Len(bytes) - rangeBytes]
    ELSE Combined(bytes) * Power[rangeBytes - Len(bytes)]

(* Mutant: with too few bytes it rounds down. *)
RoundedDown(value, count, rangeBytes) ==
    Split(IF count >= rangeBytes THEN value * Power[count - rangeBytes]
          ELSE value \div Power[rangeBytes - count], count)

(* range_value_to_dmx_bytes: with too few bytes it rounds up. *)
RangeBytes(value, count, rangeBytes) ==
    Split(IF count >= rangeBytes THEN value * Power[count - rangeBytes]
          ELSE Min({-((-value) \div Power[rangeBytes - count]), Power[count] - 1}), count)

(* The native value of a number is exact, a place in its DMX range in parts   *)
(* of the highest value its channels have, or one of native_value, in         *)
(* hundredths.                                                                *)
Exact(place) == [exact |-> TRUE, value |-> place]
Hundredths(h) == [exact |-> FALSE, value |-> h]

HighestOf(count) == Power[count] - 1
Span(n) == fixture.numbers[n].high - fixture.numbers[n].low
Width(n) == fixture.numbers[n].to - fixture.numbers[n].from

(* from_dmx_fine and from_range_value. *)
FromDmx(n, bytes) == Exact(Combined(bytes) * HighestOf(fixture.numbers[n].rangeBytes))
FromRangeValue(n, value) == Exact(value * HighestOf(Len(ChannelsOf(n))))

(* native_value: rounded to two places. *)
NativeValue(n, native) ==
    LET parts == HighestOf(Len(ChannelsOf(n)))
    IN  IF native.exact
        THEN 100 * fixture.numbers[n].low
             + Round(100 * (native.value - fixture.numbers[n].from * parts) * Span(n), Width(n) * parts)
        ELSE native.value

(* to_dmx_fine. *)
ToDmx(n, h) ==
    LET count == Len(ChannelsOf(n))
        place == 100 * fixture.numbers[n].from * Span(n) + (h - 100 * fixture.numbers[n].low) * Width(n)
    IN  Split(Round(place * HighestOf(count), 100 * Span(n) * HighestOf(fixture.numbers[n].rangeBytes)), count)

-----------------------------------------------------------------------------
(* is_channel_set, get_channel_value. *)
IsSet(st, e) == \E c \in ToSet(ChannelsOf(e)) : st.values[c] # None
BytesOf(st, e) ==
    [i \in DOMAIN ChannelsOf(e) |-> LET v == st.values[ChannelsOf(e)[i]] IN IF v = None THEN 0 ELSE v]

(* The entities an option makes available: its slider, and the number of the  *)
(* channel it switches to.                                                    *)
EntitiesOf(o) == {Options[o].slider, Options[o].switchesTo} \ {None}

SetAvailability(st, available) ==
    [st EXCEPT !.available = [e \in Entities |-> IF e \in EntitiesOf(st.option) THEN available ELSE @[e]]]

(* Mutant: the entities of the option before stay. *)
OnlyShown(st, o) == SetAvailability([st EXCEPT !.option = o], TRUE)

(* _update_current_option_sync. *)
UpdateCurrentOption(st, o) == SetAvailability([SetAvailability(st, FALSE) EXCEPT !.option = o], TRUE)

IsApplicable(o, value) == Options[o].from <= value /\ value <= Options[o].to

(* Mutant: a gap has no option. *)
NoOption(st, value) ==
    LET applicable == {o \in DOMAIN Options : IsApplicable(o, value)}
    IN  IF applicable = {} THEN [st EXCEPT !.option = None] ELSE UpdateCurrentOption(st, Min(applicable))

(* update_option_to_dmx_value: no option is left for a gap. *)
UpdateOptionTo(st, value) ==
    LET applicable == {o \in DOMAIN Options : IsApplicable(o, value)}
    IN  IF applicable = {} THEN st ELSE UpdateCurrentOption(st, Min(applicable))

(* Mutant: the select ignores what comes while it is hidden, too. *)
IgnoredWhileHidden(st) ==
    IF st.available[Select] THEN UpdateOptionTo(st, RangeValue(BytesOf(st, Select), fixture.rangeBytes)) ELSE st

(* update_value of the select, and of the numbers in ns, which ignore what    *)
(* comes while they are hidden.                                               *)
UpdateSelect(st) == UpdateOptionTo(st, RangeValue(BytesOf(st, Select), fixture.rangeBytes))
UpdateNumbers(st, ns) ==
    [st EXCEPT !.native = [n \in Numbers |->
        IF n \in ns /\ st.available[n] THEN FromDmx(n, BytesOf(st, n)) ELSE st.native[n]]]

Listeners(st, values) ==
    {e \in Entities : \E c \in ToSet(ChannelsOf(e)) \cap DOMAIN values : values[c] # st.values[c]}

Written(st, values) ==
    [st EXCEPT !.values = [c \in Channels |-> IF c \in DOMAIN values THEN values[c] ELSE st.values[c]]]

(* The listeners are a set, and heard in some order: the numbers do not mind  *)
(* each other, only whether they are heard before or after the select.        *)
Heard(st, listeners) ==
    IF Select \notin listeners THEN {UpdateNumbers(st, listeners)}
    ELSE {UpdateNumbers(UpdateSelect(UpdateNumbers(st, before)), listeners \ before) :
             before \in SUBSET (listeners \ {Select})}

(* update_multiple_values.  The number that writes does not listen.           *)
Updated(st, values, writer) == Heard(Written(st, values), Listeners(st, values) \ {writer})

Values(e, bytes) ==
    [c \in ToSet(ChannelsOf(e)) |-> bytes[CHOOSE i \in DOMAIN bytes : ChannelsOf(e)[i] = c]]

(* async_set_native_value: the number shows what its bytes can express. *)
SetNativeValue(st, n, h) ==
    Updated([st EXCEPT !.native[n] = FromDmx(n, ToDmx(n, h))], Values(n, ToDmx(n, h)), n)

(* The value of _write_capability. *)
ValueOf(o) == IF Options[o].menuClick # None THEN Options[o].menuClick ELSE Options[o].from
WriteCapability(st, o) ==
    Updated(st, Values(Select, RangeBytes(ValueOf(o), Len(fixture.channels), fixture.rangeBytes)), None)

(* Mutant: the value of the channel that is switched to is not written. *)
NotReapplied(st, o) == {UpdateCurrentOption(st, o)}

(* _update_current_option_async, which writes the value of the number that    *)
(* the option switches to.                                                    *)
UpdateAndReapply(st, o) ==
    LET current == UpdateCurrentOption(st, o)
        n == Options[o].switchesTo
    IN  IF n = None THEN {current} ELSE SetNativeValue(current, n, NativeValue(n, current.native[n]))

-----------------------------------------------------------------------------
(* The constructors of the numbers and the select, and                        *)
(* link_switching_entities.                                                   *)
Constructed ==
    LET hidden == UNION {EntitiesOf(o) : o \in DOMAIN Options}
        clicked(n) == {o \in DOMAIN Options : Options[o].slider = n /\ Options[o].menuClick # None}
        start == [values |-> [c \in Channels |-> None], option |-> 1,
                  available |-> [e \in Entities |-> e \notin hidden],
                  native |-> [n \in Numbers |->
                                FromRangeValue(n, IF clicked(n) = {} THEN 0
                                                  ELSE Options[CHOOSE o \in clicked(n) : TRUE].menuClick)]]
    IN  SetAvailability([UpdateOptionTo(start, fixture.default) EXCEPT !.available = start.available], TRUE)

Init ==
    /\ fixture \in Fixtures
    /\ s = Constructed
    /\ phase = [e \in Entities |-> "added"]
    /\ stored = [option |-> None, native |-> [n \in Numbers |-> None]]
    /\ steps = 0
    /\ wanted = [c \in Channels |-> None]
    /\ missed = {}
    /\ switched = FALSE

Changed(e) == \E c \in ToSet(ChannelsOf(e)) : s'.values[c] # s.values[c]

(* The numbers that could not follow a step, other than those it has updated. *)
Missed(updated) ==
    LET changed == {n \in Numbers : Changed(n)}
        following == {n \in changed : s.available[n] /\ s'.available[n]}
    IN  missed' = ((missed \ following) \cup (changed \ following)) \ updated

Wanted(written) == wanted' = [c \in Channels |-> IF c \in written THEN s'.values[c] ELSE wanted[c]]

(* async_set_native_value: Home Assistant lets a user command what is         *)
(* available.                                                                 *)
SetNumber(n, h) ==
    /\ s.available[n]
    /\ s' \in SetNativeValue(s, n, h)
    /\ Missed({n})
    /\ Wanted(ToSet(ChannelsOf(n)))
    /\ UNCHANGED <<fixture, phase, stored, switched>>

(* async_select_option. *)
SelectOption(o) ==
    /\ s.available[Select]
    /\ s' \in UNION {WriteCapability(t, o) : t \in UpdateAndReapply(s, o)}
    /\ Missed({Options[o].switchesTo} \cup (IF Changed(Select) THEN {Options[o].slider} ELSE {}))
    /\ Wanted(ToSet(fixture.channels) \cup
                (IF Options[o].switchesTo = None THEN {} ELSE ToSet(ChannelsOf(Options[o].switchesTo))))
    /\ UNCHANGED <<fixture, phase, stored, switched>>

(* A frame from another controller. *)
Frame(values) ==
    /\ s' \in Updated(s, values, None)
    /\ Missed({})
    /\ Wanted(DOMAIN values)
    /\ UNCHANGED <<fixture, phase, stored, switched>>

(* _set_universe_entities_availability: every entity of the universe. *)
Switch(on) ==
    /\ s' = [s EXCEPT !.available = [e \in Entities |-> on]]
    /\ switched' = TRUE
    /\ UNCHANGED <<fixture, phase, stored, wanted, missed>>

(* Home Assistant stops, and starts with the options that were available and  *)
(* the rounded values of the numbers.                                         *)
Restart ==
    /\ stored' = [option |-> IF s.available[Select] THEN s.option ELSE None,
                  native |-> [n \in Numbers |-> NativeValue(n, s.native[n])]]
    /\ s' = Constructed
    /\ phase' = [e \in Entities |-> "constructed"]
    /\ wanted' = [c \in Channels |-> None]
    /\ missed' = {}
    /\ switched' = FALSE
    /\ UNCHANGED fixture

-----------------------------------------------------------------------------
(* Mutant: a slider writes the channel of its select. *)
OwnsAny(e) == TRUE

(* owns_channel: the sliders of a select have no channel of their own. *)
Owns(e) == e = Select \/ fixture.numbers[e].owns

(* async_added_to_hass up to the question for the last state ... *)
AskForLastState(e) ==
    /\ phase[e] = "constructed"
    /\ phase' = [phase EXCEPT ![e] = IF Owns(e) /\ IsSet(s, e) THEN "added" ELSE "asking"]
    /\ UNCHANGED <<fixture, s, stored, steps, wanted, missed, switched>>

(* Mutant: a command while the entity was asking does not count. *)
NeverTaken(e) == FALSE

(* The check after the answer. *)
Taken(e) == Owns(e) /\ IsSet(s, e)

(* ... and after it. *)
RestoreNumber(n) ==
    /\ phase[n] = "asking"
    /\ LET h == stored.native[n]
           restored == [s EXCEPT !.native[n] = Hundredths(h)]
       IN  IF Taken(n) \/ h = None THEN UNCHANGED <<s, missed>>
           ELSE IF Owns(n)
           THEN /\ s' \in Updated(restored, Values(n, ToDmx(n, h)), None)
                /\ Missed({})
           ELSE /\ s' = restored
                /\ missed' = missed \cup {n}
    /\ phase' = [phase EXCEPT ![n] = "added"]
    /\ UNCHANGED <<fixture, stored, steps, wanted, switched>>

RestoreSelect ==
    /\ phase[Select] = "asking"
    /\ IF Taken(Select) \/ stored.option = None THEN UNCHANGED <<s, missed>>
       ELSE /\ s' \in WriteCapability(UpdateCurrentOption(s, stored.option), stored.option)
            /\ Missed(IF Changed(Select) THEN {Options[stored.option].slider} ELSE {})
    /\ phase' = [phase EXCEPT ![Select] = "added"]
    /\ UNCHANGED <<fixture, stored, steps, wanted, switched>>

-----------------------------------------------------------------------------
Wishes(n) ==
    LET number == fixture.numbers[n]
    IN  {100 * number.low, 50 * (number.low + number.high), 100 * number.high}

Step ==
    /\ steps < MaxSteps
    /\ steps' = steps + 1
    /\ \/ \E n \in Numbers : \E h \in Wishes(n) : SetNumber(n, h)
       \/ \E o \in DOMAIN Options : SelectOption(o)
       \/ \E values \in [Channels -> Levels] : Frame(values)
       \/ \E on \in BOOLEAN : Switch(on)
       \/ Restart

Next ==
    \/ Step
    \/ \E e \in Entities : AskForLastState(e)
    \/ \E n \in Numbers : RestoreNumber(n)
    \/ RestoreSelect

Spec == Init /\ [][Next]_vars

-----------------------------------------------------------------------------
TypeOK ==
    /\ fixture \in Fixtures
    /\ s.values \in [Channels -> Bytes \cup {None}]
    /\ s.option \in DOMAIN Options
    /\ s.available \in [Entities -> BOOLEAN]
    /\ \A n \in Numbers : s.native[n].exact \in BOOLEAN /\ s.native[n].value \in Int
    /\ phase \in [Entities -> {"constructed", "asking", "added"}]
    /\ stored.option \in DOMAIN Options \cup {None}
    /\ missed \subseteq Numbers /\ switched \in BOOLEAN

ShownValue == RangeValue(BytesOf(s, Select), fixture.rangeBytes)

(* The select shows the option its channel has, whoever wrote the channel and *)
(* whatever else was restored before: fine bytes, coarse bytes, gaps.         *)
SelectShowsChannel ==
    IsSet(s, Select) =>
        \A o \in DOMAIN Options : IsApplicable(o, ShownValue) => s.option = o

(* "without this guard the restore would silently overwrite the user's value" *)
(* (entity/number.py:130): what was last commanded or received is on every    *)
(* channel, though restores of several entities are under way.                *)
LatestCommandStays == \A c \in Channels : wanted[c] # None => s.values[c] = wanted[c]

(* The select is "the sole writer to the shared channel"                      *)
(* (tests/test_select_entity.py:210): after a restart its option is the one   *)
(* it had, in whatever order the select and its sliders are restored.         *)
RestoredOptionStays ==
    /\ stored.option # None
    /\ \A e \in Entities : phase[e] = "added"
    /\ \A c \in Channels : wanted[c] = None
    => s.option = stored.option

Shows(n) == s.native[n] = FromDmx(n, BytesOf(s, n))

(* A number that can be seen shows the value of its channels, though it has   *)
(* them in common with a select or with numbers that take turns: hidden ones  *)
(* are brought up to date when an option brings them back, but for those that *)
(* were hidden while another controller or a restore changed their channels.  *)
AvailableNumberShows ==
    \A n \in Numbers \ missed : s.available[n] /\ (\A c \in ToSet(ChannelsOf(n)) : s.values[c] # None) => Shows(n)

(* "a strobe-speed slider that only applies while its select is on the        *)
(* matching option" (entity/number.py:82): until the universe is switched off *)
(* or on, what belongs to an option is available if it is the current one.    *)
OnlyCurrentAvailable ==
    ~switched => \A o \in DOMAIN Options : \A e \in EntitiesOf(o) :
                    s.available[e] => \E current \in {s.option} : e \in EntitiesOf(current)

(* The values that the channels of the select can have.                       *)
Expressible == {RangeValue(Split(n, Len(fixture.channels)), fixture.rangeBytes) : n \in 0..HighestOf(Len(fixture.channels))}

(* "a capability's start must not end up in the capability before it"         *)
(* (fixture/channel.py:40): whatever option a user selects is the one the     *)
(* written bytes stand for, with too few bytes, too, if they can express a    *)
(* value of it that is not below the one that was to be written.              *)
SelectedIsShown ==
    \A o \in DOMAIN Options :
        (\E value \in Expressible : ValueOf(o) <= value /\ IsApplicable(o, value))
        => IsApplicable(o, RangeValue(RangeBytes(ValueOf(o), Len(fixture.channels), fixture.rangeBytes), fixture.rangeBytes))
=============================================================================
