------------------------- MODULE MCFixtureEntities -------------------------
EXTENDS FixtureEntities

Option(from, to, menuClick, slider, switchesTo) ==
    [from |-> from, to |-> to, menuClick |-> menuClick, slider |-> slider, switchesTo |-> switchesTo]
Number(channels, low, high, from, to, rangeBytes, owns) ==
    [channels |-> channels, low |-> low, high |-> high, from |-> from, to |-> to, rangeBytes |-> rangeBytes, owns |-> owns]

(* Two options that switch a channel, and one with a slider; a channel of one *)
(* byte for ranges of two, with a gap; a fine channel.                        *)
MCFixtures ==
    {[channels |-> <<1>>, rangeBytes |-> 1, default |-> 0,
      options |-> <<Option(0, 4, None, "strobe", None), Option(5, 9, 7, None, "speed"), Option(10, 15, None, None, "sound")>>,
      numbers |-> [n \in {"strobe", "speed", "sound"} |->
         CASE n = "strobe" -> Number(<<1>>, 0, 10, 0, 4, 1, FALSE)
           [] n = "speed" -> Number(<<2>>, 0, 100, 0, 15, 1, TRUE)
           [] n = "sound" -> Number(<<2>>, -5, 5, 0, 15, 1, TRUE)]],
     [channels |-> <<1>>, rangeBytes |-> 2, default |-> 40,
      options |-> <<Option(0, 100, None, None, None), Option(101, 180, None, "wheel", None), Option(208, 255, 255, None, None)>>,
      numbers |-> [n \in {"wheel"} |-> Number(<<1>>, 0, 1, 101, 180, 2, FALSE)]],
     [channels |-> <<1, 2>>, rangeBytes |-> 2, default |-> 0,
      options |-> <<Option(0, 99, 49, "slow", None), Option(100, 255, None, None, None)>>,
      numbers |-> [n \in {"slow"} |-> Number(<<1, 2>>, 0, 1, 0, 99, 2, FALSE)]]}
=============================================================================
