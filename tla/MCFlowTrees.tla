---------------------------- MODULE MCFlowTrees -----------------------------
(* Trees of flows for TLC: one part of a flow varies at a time. *)
EXTENDS FlowValidation

\* A lamp that can be dimmed and a plug that cannot.
MCCapabilities == [e \in {"lamp", "plug", "sensor"} |->
    CASE e = "lamp" -> {"switch", "light.brightness"}
      [] e = "plug" -> {"switch"}
      [] OTHER -> {}]
MCStateKey == {<<"lamp", "level">>}
MCValues == {B(TRUE), N(500, "%")}
LocalReading(day, weekday, time) == [day |-> day, weekday |-> weekday, time |-> time]

\* Two instants, the second an hour later and in one zone on the next day.
MCLocal == [z \in {"east", "west"} |->
    IF z = "east" THEN <<LocalReading(1, "mon", "06:00"), LocalReading(2, "tue", "07:00")>>
                  ELSE <<LocalReading(1, "mon", "07:00"), LocalReading(1, "mon", "06:00")>>]

EntityRef(name) == L(<<Y("entity"), S(name)>>)
StateOf(name) == L(<<Y("state"), EntityRef(name), K("level")>>)

GuardValues == {B(TRUE), N(500, "%"), N(500, NoUnit), StateOf("lamp"), StateOf(NotUuid), K("level")}
Simple ==
    {L(<<Y(op), left, right>>) : op \in {"=", "!=", "<"}, left \in GuardValues, right \in GuardValues}
    \cup {L(<<Y("present?"), v>>) : v \in GuardValues}
Dark == L(<<Y("<"), StateOf("lamp"), N(500, "%")>>)
Guards ==
    Simple \cup {L(<<Y("all")>>), L(<<Y("not"), Dark>>), L(<<Y("not"), Dark, Dark>>), L(<<Y("if"), Dark>>)}
    \cup {L(<<Y(op), Dark, L(<<Y("not"), g>>)>>) : op \in {"all", "any"},
            g \in {L(<<Y("present?"), v>>) : v \in GuardValues}}

Options ==
    {<<>>, <<K("timeout"), N(100, "s")>>, <<K("confirm")>>}
    \cup {<<K("brightness"), b>> : b \in {N(500, "%"), N(1500, "%"), N(500, NoUnit)}}
    \cup {<<K("confirm"), K(c)>> : c \in {"none", "reported", "soon"}}
    \cup {<<K("confirm"), K("reported"), K("timeout"), t>> : t \in {N(100, "s"), N(0, "s"), N(310, "d")}}
    \cup {<<K("confirm"), K("reported"), K("timeout"), N(100, "s"), K("brightness"), N(500, "%")>>,
          <<K("confirm"), K("none"), K("confirm"), K("none")>>}
Commands ==
    {L(<<Y("command"), EntityRef(e), K(verb)>> \o o) :
        e \in {"lamp", "plug", "sensor", "unknown"}, verb \in {"turn-on", "toggle"}, o \in Options}
TurnOn == L(<<Y("command"), EntityRef("lamp"), K("turn-on")>>)
TurnBrighter == L(<<Y("command"), EntityRef("lamp"), K("turn-on"), K("brightness"), N(500, "%")>>)
Retry(action, times) ==
    L(<<Y("retry"), action, K("times"), N(times, NoUnit), K("backoff"), N(10, "s")>>)
Do(actions) == L(<<Y("do")>> \o actions)
Choose(g, branches) == L(<<Y("choose"), g>> \o branches)
Selections ==
    {Choose(g, <<Do(<<TurnOn>>)>>) : g \in Guards}
    \cup {Choose(Dark, <<Do(<<Choose(g, <<Do(<<TurnOn>>), Do(<<TurnBrighter>>)>>)>>)>>) : g \in Simple}
    \cup {Choose(Dark, <<Do(<<>>), TurnOn>>), Choose(Dark, <<>>)}
Awaits ==
    {L(<<Y("await"), t>>) : t \in {L(<<Y("event"), K("type"), S("ring")>>), L(<<Y("event")>>), Dark,
        L(<<Y("any-of")>>), L(<<Y("state-changed"), EntityRef("lamp"), K("property")>>),
        L(<<Y("any-of"), L(<<Y("state-changed"), EntityRef("lamp"), K("property"), S("on")>>)>>)}}
    \cup {L(<<Y("await"), L(<<Y("event"), K("type"), S("ring")>>), K("timeout"), t>>) :
            t \in {N(10, "m"), N(0, "m")}}
Actions ==
    Commands \cup Selections \cup Awaits
    \cup {Retry(c, times) : c \in {TurnOn, TurnBrighter, L(<<Y("wait"), N(10, "s")>>),
                                   Choose(Dark, <<Do(<<TurnOn>>)>>)}, times \in {30, 110}}
    \cup {L(<<Y("wait"), t>>) : t \in {N(15, "ms"), N(20, "s"), N(20, "%"), Y("later")}}
    \cup {L(<<Y("audit"), K("message"), S("done")>>), L(<<Y("audit"), S("done")>>), L(<<Y("parallel")>>)}
    \cup {L(<<Y(s), L(<<Y("flow"), S(f)>>)>>) : s \in Switches, f \in {"other", "gone"}}

Ring == L(<<Y("event"), K("type"), S("ring")>>)
Schedule(more) == L(<<Y("schedule"), K("at"), S("07:00")>> \o more)
Days == {L(<<Y("mon")>>), L(<<Y("mon"), S("mon")>>), L(<<>>), Y("mon")}
Schedules ==
    {Schedule(<<>>), Schedule(<<K("timezone"), S("nowhere")>>),
     L(<<Y("schedule"), K("at"), S("25:00"), K("timezone"), S("east")>>)}
    \cup {Schedule(<<K("timezone"), S(z)>>) : z \in {"east", "west"}}
    \cup {Schedule(<<K("timezone"), S("west"), K("weekdays"), d>>) : d \in Days}
Triggers ==
    {Ring, Dark, Y("ring")} \cup Schedules
    \cup {L(<<Y("any-of"), Ring, s>>) : s \in Schedules}
    \cup {L(<<Y("any-of"), s, L(<<Y("any-of"), Ring, s>>)>>) : s \in Schedules}
    \cup {L(<<Y("any-of"), Ring>>)}

Metas ==
    {<<>>, <<K("name")>>, <<K("name"), S("a"), K("name"), S("b")>>}
    \cup {<<K("mode"), K(m)>> : m \in {"queue", "random"}}
    \cup {<<K("max-runs"), N(n, NoUnit)>> : n \in {20, 330}}
    \cup {<<K("max-runtime"), t>> : t \in {N(10, "m"), N(310, "d"), N(10, NoUnit)}}
    \cup {<<K("enabled"), B(TRUE)>>, <<K("colour"), S("red")>>}

Flow(meta, trigger, when, actions) ==
    L(<<Y("flow")>> \o meta \o <<L(<<Y("on"), trigger>>)>> \o when \o <<Do(actions)>>)

MCRoot ==
    {Flow(<<>>, Ring, <<L(<<Y("when"), g>>)>>, <<TurnOn>>) : g \in Guards}
    \cup {Flow(<<>>, Ring, <<>>, <<a>>) : a \in Actions}
    \cup {Flow(<<>>, t, <<>>, <<TurnOn, TurnBrighter>>) : t \in Triggers}
    \cup {Flow(<<L(<<Y("meta")>> \o m)>>, Ring, <<L(<<Y("when"), Dark>>)>>, <<TurnOn>>) : m \in Metas}
    \cup {Flow(<<>>, Ring, <<L(<<Y("when")>>)>>, <<TurnOn>>)}
=============================================================================
