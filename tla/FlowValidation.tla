--------------------------- MODULE FlowValidation ---------------------------
(***************************************************************************)
(* The meaning of a Robine Flow tree: what parse_and_validate accepts when *)
(* a flow is saved, and what a run later makes of it by other code, which  *)
(* reads the tree anew: the schedule it is triggered by, the choices it    *)
(* resolves with the states of that moment, the plan it compiles, and the  *)
(* condition it evaluates.                                                 *)
(*                                                                         *)
(* Abstractions.  Trees come from FlowSyntax; here a text is a name, and a *)
(* number counts tenths.  Floats are exact.  An entity reference is a UUID *)
(* unless it is NotUuid.  A time zone tells its local day and time for each*)
(* instant.  What becomes of a plan belongs to FlowRuns.                   *)
(***************************************************************************)
EXTENDS Integers, Sequences, FiniteSets

CONSTANTS
    Root,           \* trees users save
    Capabilities,   \* the catalog: capabilities of each known entity
    KnownFlow,      \* identifiers of flows in the store
    Values,         \* values a state may have
    StateKey,       \* pairs of an entity and a property with a state
    Local           \* local day, weekday and time of each instant in each zone

VARIABLES
    saved,          \* the flow in the store
    states,         \* what get_entity_state finds
    outcome         \* what the last run made of the flow

validationVars == <<saved, states, outcome>>

-----------------------------------------------------------------------------
(* Trees. *)

L(items) == [kind |-> "list", items |-> items]
Y(name) == [kind |-> "symbol", name |-> name]
K(name) == [kind |-> "keyword", name |-> name]
S(name) == [kind |-> "string", name |-> name]
B(value) == [kind |-> "bool", value |-> value]
N(tenths, unit) == [kind |-> "number", tenths |-> tenths, unit |-> unit]

NoUnit == "no unit"
NotUuid == "not a uuid"

\* What is made of a tree that cannot be used.
Error == "error"
NoValue == [kind |-> "error"]
NoSchedule == [at |-> "never"]
NoPlan == [do |-> "nothing"]
Failed == <<NoPlan>>

IsList(form) == form.kind = "list"
IsText(form) == form.kind = "string"
Items(form) == IF IsList(form) THEN form.items ELSE <<>>
Rest(form) == {form.items[i] : i \in 2..Len(form.items)}
Head1(form) ==
    IF IsList(form) /\ form.items # <<>> /\ form.items[1].kind = "symbol"
    THEN form.items[1].name ELSE "none"

\* Every list of a tree, as the visitors meet them.
RECURSIVE Lists(_)
Lists(form) ==
    IF ~IsList(form) THEN {}
    ELSE {form} \cup UNION {Lists(form.items[i]) : i \in DOMAIN form.items}

Sections(root, name) == {i \in DOMAIN root.items : Head1(root.items[i]) = name}
Section(root, name) == root.items[CHOOSE i \in Sections(root, name) : TRUE]

\* Key and value pairs that follow the first n items of a list.
Paired(items, n) == Len(items) >= n /\ (Len(items) - n) % 2 = 0
KeysOf(items, n) == {i \in n + 1..Len(items) : (i - n) % 2 = 1}
KeyNamed(items, n, name) == {i \in KeysOf(items, n) : items[i] = K(name)}
HasKey(items, n, name) == KeyNamed(items, n, name) # {}
ValueOf(items, n, name) == items[(CHOOSE i \in KeyNamed(items, n, name) : TRUE) + 1]
DistinctKeys(items, n, names) ==
    /\ Paired(items, n)
    /\ \A i \in KeysOf(items, n) : items[i] \in {K(name) : name \in names}
    /\ \A i, j \in KeysOf(items, n) : items[i] = items[j] => i = j
KeyIs(items, n, name, Good(_)) == HasKey(items, n, name) => Good(ValueOf(items, n, name))

RefersTo(form, kind) ==
    IF Head1(form) = kind /\ Len(form.items) >= 2 /\ IsText(form.items[2])
    THEN form.items[2].name ELSE "none"

-----------------------------------------------------------------------------
(* robine-flow-check: commands and comparisons anywhere in the tree. *)

TimeUnit == {"ms", "s", "m", "h", "d"}
IsPercentage(form) == form.kind = "number" /\ form.unit = "%"
IsTimed(form) == form.kind = "number" /\ form.unit \in TimeUnit
IsConfirmation(form) == form \in {K("transport"), K("none"), K("reported")}
CommandKeys == {"brightness", "confirm", "timeout"}

\* Mutant: the options of a command are not looked at.
CommandNamesTarget(items) == Len(items) >= 3 /\ RefersTo(items[2], "entity") \in DOMAIN Capabilities

CommandOK(items) ==
    /\ Len(items) >= 3
    /\ RefersTo(items[2], "entity") \in DOMAIN Capabilities
    /\ items[3] \in {K("turn-on"), K("turn-off")}
    /\ DistinctKeys(items, 3, CommandKeys)
    /\ LET capabilities == Capabilities[RefersTo(items[2], "entity")]
       IN  /\ "switch" \in capabilities
           /\ HasKey(items, 3, "brightness") => "light.brightness" \in capabilities
    /\ KeyIs(items, 3, "brightness", IsPercentage)
    /\ KeyIs(items, 3, "confirm", IsConfirmation)
    /\ KeyIs(items, 3, "timeout", IsTimed)
    /\ (HasKey(items, 3, "confirm") /\ ValueOf(items, 3, "confirm") = K("reported")) =>
           HasKey(items, 3, "timeout") /\ ~HasKey(items, 3, "brightness")

Orders == {"<", "<=", ">", ">="}
ComparisonOK(items) ==
    /\ Len(items) = 3
    /\ items[2].kind = "number" /\ items[3].kind = "number" => items[2].unit = items[3].unit

Checked(root) ==
    \A list \in Lists(root) :
        /\ Head1(list) = "command" => CommandOK(list.items)
        /\ Head1(list) \in Orders => ComparisonOK(list.items)

-----------------------------------------------------------------------------
(* parse_and_validate, once the tree is checked. *)

IsMode(form) == form \in {K("single"), K("restart"), K("queue")}
IsCount(form, most) ==
    form.kind = "number" /\ form.unit = NoUnit /\ form.tenths \in {10 * n : n \in 1..most}
IsMaxRuns(form) == IsCount(form, 32)
IsMaxRuntime(form) == IsTimed(form) /\ form.tenths > 0
IsFlag(form) == form.kind = "bool"

MetaOK(root) ==
    Sections(root, "meta") # {} =>
        LET items == Section(root, "meta").items
        IN  /\ DistinctKeys(items, 1, {"name", "description", "mode", "max-runs", "max-runtime",
                                       "ignore-self", "enabled"})
            /\ KeyIs(items, 1, "name", IsText) /\ KeyIs(items, 1, "description", IsText)
            /\ KeyIs(items, 1, "mode", IsMode) /\ KeyIs(items, 1, "max-runs", IsMaxRuns)
            /\ KeyIs(items, 1, "max-runtime", IsMaxRuntime)
            /\ KeyIs(items, 1, "ignore-self", IsFlag) /\ KeyIs(items, 1, "enabled", IsFlag)

Time == {"06:00", "07:00"}
Zone == DOMAIN Local
Weekday == {"mon", "tue"}

\* parse_schedule: the time, the zone and, if given, the days.
ParseSchedule(items) ==
    IF /\ DistinctKeys(items, 1, {"at", "timezone", "weekdays"})
       /\ HasKey(items, 1, "at") /\ ValueOf(items, 1, "at") \in {S(t) : t \in Time}
       /\ HasKey(items, 1, "timezone") /\ ValueOf(items, 1, "timezone") \in {S(z) : z \in Zone}
       /\ HasKey(items, 1, "weekdays") =>
              LET days == Items(ValueOf(items, 1, "weekdays"))
              IN  /\ days # <<>>
                  /\ \A i \in DOMAIN days : days[i].kind \in {"symbol", "keyword", "string"}
                                            /\ days[i].name \in Weekday
                  /\ \A i, j \in DOMAIN days : days[i].name = days[j].name => i = j
    THEN [at |-> ValueOf(items, 1, "at").name,
          zone |-> ValueOf(items, 1, "timezone").name,
          days |-> IF HasKey(items, 1, "weekdays")
                   THEN {day.name : day \in {ValueOf(items, 1, "weekdays").items[i] :
                                             i \in DOMAIN ValueOf(items, 1, "weekdays").items}}
                   ELSE Weekday]
    ELSE NoSchedule

RECURSIVE TriggerOK(_)
TriggerOK(form) ==
    \/ Head1(form) \in {"event", "state-changed"}
    \/ Head1(form) = "schedule" /\ Len(form.items) \in {5, 7} /\ ParseSchedule(form.items) # NoSchedule
    \/ Head1(form) = "any-of" /\ Len(form.items) >= 3 /\ \A branch \in Rest(form) : TriggerOK(branch)

TriggerOf(root) == Items(Section(root, "on"))
ScheduleOK(root) == Len(TriggerOf(root)) < 2 \/ TriggerOK(TriggerOf(root)[2])

GuardValueOK(form) ==
    \/ form.kind \in {"bool", "string"} \/ IsPercentage(form)
    \/ /\ Head1(form) = "state" /\ Len(form.items) = 3
       /\ RefersTo(form.items[2], "entity") \notin {"none", NotUuid}
       /\ form.items[3].kind \in {"keyword", "string"}

RECURSIVE GuardOK(_)
GuardOK(form) ==
    \/ Head1(form) \in {"all", "any"} /\ Len(form.items) >= 2 /\ \A g \in Rest(form) : GuardOK(g)
    \/ Head1(form) = "not" /\ Len(form.items) = 2 /\ GuardOK(form.items[2])
    \/ Head1(form) \in {"available?", "present?"} /\ Len(form.items) = 2
       /\ GuardValueOK(form.items[2])
    \/ Head1(form) \in {"=", "!="} \cup Orders /\ Len(form.items) = 3
       /\ \A v \in Rest(form) : GuardValueOK(v)

WhenOK(root) ==
    Sections(root, "when") # {} =>
        LET items == Section(root, "when").items IN Len(items) = 2 /\ GuardOK(items[2])

ChooseOK(root) ==
    \A list \in Lists(root) : Head1(list) = "choose" =>
        /\ Len(list.items) \in 3..4
        /\ GuardOK(list.items[2])
        /\ \A i \in 3..Len(list.items) : Head1(list.items[i]) = "do"

Switches == {"activate", "deactivate"}
TargetsOK(root) ==
    \A list \in Lists(root) : Head1(list) \in Switches =>
        Len(list.items) >= 2 /\ RefersTo(list.items[2], "flow") \in KnownFlow

Accepts(root) ==
    Checked(root) /\ MetaOK(root) /\ ScheduleOK(root) /\ WhenOK(root) /\ ChooseOK(root)
    /\ TargetsOK(root)

-----------------------------------------------------------------------------
(* The run: triggers. *)

NoKey == <<>>

\* schedule_trigger_form_key: the key under which a minute is reserved, with the
\* branch of any-of it comes from; the first branch that matches.
RECURSIVE ScheduleKey(_, _, _)
ScheduleKey(form, instant, branch) ==
    CASE Head1(form) = "any-of" ->
            LET key(i) == ScheduleKey(form.items[i], instant, Append(branch, i))
                matching == {i \in 2..Len(form.items) : key(i) # NoKey}
            IN  IF matching = {} THEN NoKey
                ELSE key(CHOOSE i \in matching : \A j \in matching : i <= j)
      [] Head1(form) = "schedule" /\ ParseSchedule(form.items) # NoSchedule ->
            LET schedule == ParseSchedule(form.items)
                local == Local[schedule.zone][instant]
            IN  IF local.time = schedule.at /\ local.weekday \in schedule.days
                THEN <<branch, schedule.zone, local.day, schedule.at>> ELSE NoKey
      [] OTHER -> NoKey

-----------------------------------------------------------------------------
(* The run: conditions and choices. *)

Absent == [kind |-> "absent"]

\* guard_value: a constant, a state of good quality, or nothing.
GuardValue(form) ==
    CASE form.kind \in {"bool", "string"} \/ IsPercentage(form) -> form
      [] /\ Head1(form) = "state" /\ Len(form.items) = 3
         /\ RefersTo(form.items[2], "entity") \notin {"none", NotUuid}
         /\ form.items[3].kind \in {"keyword", "string"} ->
            IF <<RefersTo(form.items[2], "entity"), form.items[3].name>> \in DOMAIN states
            THEN states[<<RefersTo(form.items[2], "entity"), form.items[3].name>>] ELSE Absent
      [] OTHER -> NoValue

Holds(operator, left, right) ==
    CASE operator = "=" -> left = right
      [] operator = "!=" -> left # right
      [] ~(IsPercentage(left) /\ IsPercentage(right)) -> FALSE
      [] operator = "<" -> left.tenths < right.tenths
      [] operator = "<=" -> left.tenths <= right.tenths
      [] operator = ">" -> left.tenths > right.tenths
      [] operator = ">=" -> left.tenths >= right.tenths

\* evaluate_guard_form: "true", "false" or an error.  A comparison with a value
\* that is missing is false.
RECURSIVE Evaluate(_)
Evaluate(form) ==
    LET head == Head1(form)
        parts == IF head = "none" THEN {} ELSE {Evaluate(g) : g \in Rest(form)}
        values == IF head = "none" THEN {} ELSE {GuardValue(v) : v \in Rest(form)}
        truth(holds) == IF holds THEN "true" ELSE "false"
    IN  CASE head \in {"all", "any"} /\ Len(form.items) >= 2 ->
                IF Error \in parts THEN Error
                ELSE truth(IF head = "all" THEN parts = {"true"} ELSE "true" \in parts)
          [] head = "not" /\ Len(form.items) = 2 ->
                IF Error \in parts THEN Error ELSE truth("false" \in parts)
          [] head \in {"available?", "present?"} /\ Len(form.items) = 2 ->
                IF NoValue \in values THEN Error ELSE truth(Absent \notin values)
          [] head \in {"=", "!="} \cup Orders /\ Len(form.items) = 3 ->
                IF NoValue \in values THEN Error
                ELSE truth(/\ Absent \notin values
                           /\ Holds(head, GuardValue(form.items[2]), GuardValue(form.items[3])))
          [] OTHER -> Error

EvaluateWhen(root) ==
    IF Sections(root, "when") = {} THEN "true"
    ELSE IF Len(Section(root, "when").items) # 2 THEN Error
    ELSE Evaluate(Section(root, "when").items[2])

\* resolve_sequence: each choice is replaced by an audit entry and the branch
\* that the states select, which may choose in its turn.
RECURSIVE Resolve(_)
Resolve(actions) ==
    IF actions = <<>> THEN <<>>
    ELSE LET action == Head(actions)
             rest == Resolve(Tail(actions))
         IN  IF ~IsList(action) \/ rest = Failed THEN Failed
             ELSE IF Head1(action) # "choose" THEN <<action>> \o rest
             ELSE LET chosen == IF Len(action.items) < 2 THEN Error
                                ELSE Evaluate(action.items[2])
                      place == IF chosen = "true" THEN 3 ELSE 4
                      branch == IF place > Len(action.items) THEN <<>>
                                ELSE IF Items(action.items[place]) = <<>> THEN Failed
                                ELSE Resolve(Tail(action.items[place].items))
                  IN  IF chosen = Error \/ branch = Failed THEN Failed
                      ELSE <<L(<<Y("audit"), K("message"), S(chosen)>>)>> \o branch \o rest

-----------------------------------------------------------------------------
(* The run: the plan, which reads the actions without the checks above. *)

\* duration_milliseconds: positive, whole, and thirty days at most.
MaxTenths == [u \in {"s", "m", "h", "d"} |->
    CASE u = "s" -> 25920000 [] u = "m" -> 432000 [] u = "h" -> 7200 [] u = "d" -> 300]
IsDuration(form) ==
    /\ IsTimed(form) /\ form.tenths > 0
    /\ IF form.unit = "ms" THEN form.tenths % 10 = 0 ELSE form.tenths <= MaxTenths[form.unit]

IsBrightness(form) == IsPercentage(form) /\ form.tenths \in 0..1000

\* command_options.
CommandPlan(items) ==
    LET reported == HasKey(items, 3, "confirm") /\ ValueOf(items, 3, "confirm") = K("reported")
    IN  IF /\ Len(items) >= 3 /\ Len(Items(items[2])) >= 2 /\ IsText(items[2].items[2])
           /\ items[3].kind = "keyword"
           /\ DistinctKeys(items, 3, CommandKeys)
           /\ KeyIs(items, 3, "brightness", IsBrightness)
           /\ KeyIs(items, 3, "confirm", IsConfirmation)
           /\ KeyIs(items, 3, "timeout", IsDuration)
           /\ HasKey(items, 3, "timeout") <=> reported
           /\ reported => ~HasKey(items, 3, "brightness")
        THEN [do |-> "command", entity |-> items[2].items[2].name, verb |-> items[3].name,
              dimmed |-> HasKey(items, 3, "brightness"), reported |-> reported]
        ELSE NoPlan

\* compile_await_trigger.
RECURSIVE AwaitOK(_)
AwaitOK(form) ==
    \/ /\ Head1(form) = "any-of" /\ Len(form.items) >= 2
       /\ \A trigger \in Rest(form) : AwaitOK(trigger)
    \/ /\ Head1(form) = "event"
       /\ \E i \in 1..Len(form.items) - 1 :
             form.items[i] = K("type") /\ form.items[i + 1].kind \in {"string", "symbol"}
    \/ /\ Head1(form) = "state-changed" /\ Len(form.items) >= 2
       /\ Len(Items(form.items[2])) >= 2 /\ IsText(form.items[2].items[2])
       /\ \A i \in KeysOf(form.items, 2) : i < Len(form.items) =>
             \/ form.items[i] = K("property") /\ IsText(form.items[i + 1])
             \/ /\ form.items[i] = K("to")
                /\ form.items[i + 1].kind \in {"bool", "string"} \/ IsPercentage(form.items[i + 1])
       /\ \E i \in KeyNamed(form.items, 2, "property") : i < Len(form.items)

\* compile_action, and is_retryable.
RECURSIVE ActionPlan(_)
ActionPlan(form) ==
    LET items == Items(form)
        plain(kind, holds) == IF holds THEN [do |-> kind] ELSE NoPlan
    IN  CASE Head1(form) = "command" -> CommandPlan(items)
          [] Head1(form) = "wait" -> plain("wait", Len(items) >= 2 /\ IsDuration(items[2]))
          [] Head1(form) = "await" ->
                plain("await", /\ Len(items) \in {2, 4} /\ AwaitOK(items[2])
                               /\ Len(items) = 4 => items[3] = K("timeout") /\ IsDuration(items[4]))
          [] Head1(form) = "audit" -> plain("audit", Len(items) >= 3 /\ IsText(items[3]))
          [] Head1(form) \in Switches ->
                plain("switch", Len(items) = 2 /\ RefersTo(items[2], "flow") # "none")
          [] Head1(form) = "retry" ->
                LET action == IF Len(items) = 6 THEN ActionPlan(items[2]) ELSE NoPlan
                IN  IF action = NoPlan THEN NoPlan
                    ELSE IF /\ action.do \in {"command", "audit", "switch"}
                            /\ items[3] = K("times") /\ IsCount(items[4], 10)
                            /\ items[5] = K("backoff") /\ IsDuration(items[6])
                         THEN action ELSE NoPlan
          [] OTHER -> NoPlan

\* compile, of the actions that are left, and of what meta says.
Compile(root, actions) ==
    LET plan == [i \in DOMAIN actions |-> ActionPlan(actions[i])]
        meta == IF Sections(root, "meta") = {} THEN <<>> ELSE Section(root, "meta").items
    IN  IF \/ \E i \in DOMAIN plan : plan[i] = NoPlan
           \/ HasKey(meta, 1, "max-runtime") /\ ~IsDuration(ValueOf(meta, 1, "max-runtime"))
        THEN Failed ELSE plan

-----------------------------------------------------------------------------

NothingSaved == L(<<>>)
NotRun == [actions |-> <<>>, plan |-> <<>>, condition |-> "true"]

ValidationInit ==
    /\ saved = NothingSaved
    /\ states = [s \in StateKey |-> Absent]
    /\ outcome = NotRun

\* create or update; one flow is enough here.
SaveFlow(root) ==
    /\ saved = NothingSaved
    /\ Accepts(root)
    /\ saved' = root
    /\ UNCHANGED <<states, outcome>>

ReportState(s, value) ==
    /\ states' = [states EXCEPT ![s] = value]
    /\ UNCHANGED <<saved, outcome>>

\* execute_flow: resolve, compile, evaluate; an error ends the run.
RunFlow ==
    /\ saved # NothingSaved
    /\ LET actions == Resolve(Tail(Section(saved, "do").items))
           plan == IF actions = Failed THEN Failed ELSE Compile(saved, actions)
       IN  outcome' = [actions |-> actions, plan |-> plan, condition |-> EvaluateWhen(saved)]
    /\ UNCHANGED <<saved, states>>

ValidationNext ==
    \/ \E root \in Root : SaveFlow(root)
    \/ \E s \in StateKey, value \in Values \cup {Absent} : ReportState(s, value)
    \/ RunFlow

ValidationSpec == ValidationInit /\ [][ValidationNext]_validationVars

-----------------------------------------------------------------------------
(* Properties. *)

ValidationTypeOK ==
    /\ saved \in Root \cup {NothingSaved}
    /\ states \in [StateKey -> Values \cup {Absent}]
    /\ outcome.condition \in {"true", "false", Error}

\* What a schedule of the trigger wants.
SchedulesOf(root) == {list \in Lists(Section(root, "on")) : Head1(list) = "schedule"}
Wanted(form, instant) ==
    LET items == form.items IN
        Local[ValueOf(items, 1, "timezone").name][instant].time = ValueOf(items, 1, "at").name

\* automation/0002: types, references, units and options are checked before a
\* flow is active, not while it runs.  Whatever the states are, or are missing,
\* when a flow that was saved is run: its condition and its choices have a
\* value, no choice is left, its schedules without days find their minute, and
\* a command of the plan, be it in a branch or in a retry, asks an entity for
\* what it was checked to be capable of.
AcceptedFlowsRun ==
    /\ outcome.condition # Error
    /\ outcome.actions # Failed
    /\ outcome.actions # Failed =>
          \A i \in DOMAIN outcome.actions : Head1(outcome.actions[i]) # "choose"
    /\ outcome.plan # Failed => \A i \in DOMAIN outcome.plan :
          LET action == outcome.plan[i]
          IN  action.do = "command" =>
                  /\ action.entity \in DOMAIN Capabilities
                  /\ action.verb \in {"turn-on", "turn-off"}
                  /\ "switch" \in Capabilities[action.entity]
                  /\ action.dimmed => "light.brightness" \in Capabilities[action.entity]
                  /\ ~(action.dimmed /\ action.reported)
    /\ saved # NothingSaved => \A form \in SchedulesOf(saved) :
          \A instant \in UNION {DOMAIN Local[z] : z \in Zone} :
              ~HasKey(form.items, 1, "weekdays") /\ Wanted(form, instant) =>
                  ScheduleKey(TriggerOf(saved)[2], instant, <<>>) # NoKey
=============================================================================
