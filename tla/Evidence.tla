------------------------------ MODULE Evidence ------------------------------
(***************************************************************************)
(* Package evidence: what an observation is, when it is valid, the pace    *)
(* derived from it, the selection of a part or of one value, and the       *)
(* documents it is rendered to and parsed from.                            *)
(*                                                                         *)
(* A pointer is a set of at most one element, Nil when it points nowhere.  *)
(* Windows are a family, a function on any set of places: the code looks   *)
(* at all of them or at one, and never at which comes first.  Percentages  *)
(* and other amounts are integers, times and durations whole hours.  The   *)
(* schema version, the profile and the source, which every provider sets   *)
(* to the same constants, are left out, and so is the order of a document, *)
(* which is that of the identifiers.                                       *)
(***************************************************************************)
EXTENDS Integers, SequencesExt

Nil == {}
The(pointer) == CHOOSE x \in pointer : TRUE

AtMostOne(set) == \A x, y \in set : x = y
Pointers(set) == {p \in SUBSET set : AtMostOne(p)}

\* The first row of a table of named conditions that holds.
FirstOf(table) ==
    LET holding == {i \in DOMAIN table : table[i][2]}
    IN  IF holding = {} THEN Nil ELSE {table[Min(holding)][1]}

\* The items of all lists, each at the place <<list, place in the list>>.
Places(lists) == UNION {{<<i, k>> : k \in DOMAIN lists[i]} : i \in DOMAIN lists}
Flatten(lists) == [p \in Places(lists) |-> lists[p[1]][p[2]]]

\* A time.Duration holds 292 years, a time.Time that was never set is the first
\* hour of the year 1, and the last hour written with four digits is in 9999.
MaxDuration == 2562047
ZeroTime == -17259888
LastHour == 70389527

Freshnesses == {"fresh", "stale", "unknown"}
Outcomes == {"complete", "partial", "unavailable"}
Bindings == {"verified", "historical", "unknown", "mismatch"}

Unknown == [state |-> "unknown", amount |-> Nil]
Unlimited == [state |-> "unlimited", amount |-> Nil]
NotApplicable == [state |-> "not_applicable", amount |-> Nil]
Number(n) == [state |-> IF n = 0 THEN "zero" ELSE "defined", amount |-> {n}]
OptionalNumber(pointer) == IF pointer = Nil THEN Unknown ELSE Number(The(pointer))

\* Every provider names a limit after its window and its field.
Limit(window, field, value) ==
    [id |-> <<window, field>>, field |-> field, value |-> value,
     resetAt |-> Nil, duration |-> Nil]

ResetLimits(window, resetAt) ==
    IF resetAt = Nil THEN <<>>
    ELSE <<[Limit(window, "reset", Unknown) EXCEPT !.resetAt = resetAt]>>

DurationLimits(window, duration) ==
    IF duration = Nil THEN <<>>
    ELSE <<[Limit(window, "duration", Unknown) EXCEPT !.duration = duration]>>

Window(id, scope, unit, limits) ==
    [id |-> id, scope |-> scope, unit |-> unit, limits |-> limits, pace |-> Nil]

Observation(provider, account, binding, now, outcome, windows) ==
    [provider |-> provider, account |-> [lastObserved |-> account, binding |-> binding],
     observedAt |-> now, freshness |-> "fresh", outcome |-> outcome, windows |-> windows]

----------------------------------------------------------------------------
(* Pace *)

\* The cycle and the amount a pace is calculated from; clear is FALSE when
\* the window has two candidates for one of them.
PaceInputs(window) ==
    LET limits    == window.limits
        remaining == {i \in DOMAIN limits : limits[i].field = "remaining"}
        resets    == {i \in DOMAIN limits : limits[i].resetAt # Nil}
        durations == {i \in DOMAIN limits : limits[i].duration # Nil}
    IN  [remaining |-> IF remaining = {} THEN Unknown ELSE limits[Max(remaining)].value,
         resetAt   |-> IF resets = {} THEN Nil ELSE limits[Max(resets)].resetAt,
         duration  |-> IF durations = {} THEN Nil ELSE limits[Max(durations)].duration,
         clear     |-> /\ remaining # {}
                       /\ AtMostOne(remaining) /\ AtMostOne(resets) /\ AtMostOne(durations)]

NoInputs == [remaining |-> Unknown, resetAt |-> Nil, duration |-> Nil]

\* Why the pace is unknown at the time now, in the order the code looks.
PaceReasons(observation, inputs, now) ==
    LET observed == observation.observedAt
    IN  << <<"stale", observation.freshness # "fresh">>,
           <<"future_observation", now < observed>>,
           <<"ambiguous_inputs", ~inputs.clear>>,
           <<"missing_usage", inputs.remaining.amount = Nil>>,
           <<"invalid_usage", \E a \in inputs.remaining.amount : a \notin 0..100>>,
           <<"missing_cycle", inputs.resetAt = Nil \/ inputs.duration = Nil>>,
           <<"invalid_cycle", \E d \in inputs.duration : d <= 0>>,
           <<"expired_reset", \E r \in inputs.resetAt : r <= observed \/ r <= now>>,
           <<"future_cycle_start",
               \E r \in inputs.resetAt, d \in inputs.duration : r - d > observed>> >>

PaceScale == 10000

\* The fraction rounded to four decimals, in units of the last one.
PaceNumber(numerator, denominator) ==
    (2 * numerator * PaceScale + denominator) \div (2 * denominator)

\* The reserve is excess / cycle; both thresholds belong to on_pace.
PaceStatus(excess, cycle) ==
    CASE excess < -cycle -> "ahead"
      [] excess > cycle -> "behind"
      [] excess \in -cycle..cycle -> "on_pace"

\* What is left of the cycle now, not at the time of the observation.
BugTimeLeft(observation, reset, now) == reset - now

TimeLeft(observation, reset, now) == reset - observation.observedAt

KnownPace(observation, inputs, now) ==
    LET cycle  == The(inputs.duration)
        left   == TimeLeft(observation, The(inputs.resetAt), now)
        excess == The(inputs.remaining.amount) * cycle - 100 * left
    IN  [status |-> PaceStatus(excess, cycle),
         timeRemaining |-> {PaceNumber(100 * left, cycle)},
         reserve |-> {PaceNumber(excess, cycle)}]

\* Gives the old pace along with the reason why there is none.
BugDerivePace(observation, window, now) ==
    LET inputs == PaceInputs(window)
        reason == FirstOf(PaceReasons(observation, inputs, now))
        known == IF reason \in {Nil, {"expired_reset"}}
                 THEN KnownPace(observation, inputs, now)
                 ELSE [status |-> "unknown", timeRemaining |-> Nil, reserve |-> Nil]
    IN  IF window.unit # "percent" THEN Nil
        ELSE {[status |-> known.status, reason |-> reason, calculatedAt |-> now,
               observedAt |-> observation.observedAt, inputs |-> NoInputs,
               timeRemaining |-> known.timeRemaining, reserve |-> known.reserve]}

DerivePace(observation, window, now) ==
    LET usable == observation.freshness = "fresh" /\ now >= observation.observedAt
        inputs == PaceInputs(window)
        reason == FirstOf(PaceReasons(observation, inputs, now))
        known  == IF reason = Nil
                  THEN KnownPace(observation, inputs, now)
                  ELSE [status |-> "unknown", timeRemaining |-> Nil, reserve |-> Nil]
    IN  IF window.unit # "percent" THEN Nil
        ELSE {[status |-> known.status, reason |-> reason, calculatedAt |-> now,
               observedAt |-> observation.observedAt,
               inputs |-> IF usable THEN Restrict(inputs, DOMAIN NoInputs) ELSE NoInputs,
               timeRemaining |-> known.timeRemaining, reserve |-> known.reserve]}

\* Derives from the window as it was before the pace.
WithPace(observation, now) ==
    [observation EXCEPT !.windows =
        [i \in DOMAIN observation.windows |->
            [observation.windows[i] EXCEPT
                !.pace = DerivePace(observation, observation.windows[i], now)]]]

----------------------------------------------------------------------------
(* Validity *)

ValidValue(value) ==
    CASE value.state \in {"defined", "zero"} ->
            \E a \in value.amount : a >= 0 /\ (value.state = "zero" => a = 0)
      [] value.state \in {"unknown", "unlimited", "not_applicable"} -> value.amount = Nil

ValidLimit(window, limit) ==
    /\ ValidValue(limit.value)
    /\ window.unit = "percent" /\ limit.field \in {"used", "remaining"} =>
            \A a \in limit.value.amount : a <= 100

\* A known pace must be the one its own time of calculation gives.
SameKnownPace(pace, expected) ==
    \E e \in expected :
        /\ e.reserve # Nil
        /\ pace = e

ValidPace(observation, window, pace) ==
    /\ pace.observedAt = observation.observedAt
    /\ ValidValue(pace.inputs.remaining)
    /\ IF pace.status \in {"ahead", "on_pace", "behind"}
       THEN /\ pace.reason = Nil
            /\ \A t \in pace.timeRemaining : t >= 0
            /\ SameKnownPace(pace, DerivePace(observation, window, pace.calculatedAt))
       ELSE /\ pace.status \in {"unknown", "not_applicable"}
            /\ pace.reason # Nil
            /\ pace.timeRemaining = Nil
            /\ pace.reserve = Nil

LimitsOf(observation) ==
    Flatten([i \in DOMAIN observation.windows |-> observation.windows[i].limits])

\* Accepts two items of one name.
BugUniqueIds(items) == TRUE

UniqueIds(items) == \A i, j \in DOMAIN items : items[i].id = items[j].id => i = j

Valid(observation) ==
    /\ observation.freshness \in Freshnesses
    /\ observation.outcome \in Outcomes
    /\ UniqueIds(observation.windows)
    /\ UniqueIds(LimitsOf(observation))
    /\ \A w \in ToSet(observation.windows) :
            /\ \A l \in ToSet(w.limits) : ValidLimit(w, l)
            /\ \A p \in w.pace : ValidPace(observation, w, p)

----------------------------------------------------------------------------
(* Selection *)

AccountDiffers(observation, account) ==
    /\ account # ""
    /\ \/ observation.account.lastObserved # account
       \/ observation.account.binding = "mismatch"

Selected(window, request) ==
    /\ request.window \in {Nil, {window.id}}
    /\ request.scope \in {Nil, {window.scope}}

Matching(observation, request) ==
    {i \in DOMAIN observation.windows : Selected(observation.windows[i], request)}

SelectWindows(observation, request) ==
    [observation EXCEPT !.windows = Restrict(observation.windows, Matching(observation, request))]

\* The windows a report is about, or the error of the selection.
ForRequest(observation, request) ==
    LET error == FirstOf(<< <<"invalid", ~Valid(observation)>>,
                            <<"no_match", request.provider \notin {"", observation.provider}>>,
                            <<"wrong_account", AccountDiffers(observation, request.account)>>,
                            <<"no_match", /\ Matching(observation, request) = {}
                                          /\ request.window # Nil \/ request.scope # Nil>> >>)
    IN  [evidence |-> IF error = Nil THEN {SelectWindows(observation, request)} ELSE Nil,
         error |-> error]

\* What the value command writes for a limit; Nil when it is undefined.
LimitText(limit) ==
    CASE limit.field = "reset" -> {<<"time", r>> : r \in limit.resetAt}
      [] limit.field = "duration" -> {<<"duration", d>> : d \in limit.duration}
      [] limit.field \notin {"reset", "duration"} ->
            {<<"amount", a>> : a \in limit.value.amount}
            \cup {<<"state", "unlimited">> : u \in {limit.value.state} \cap {"unlimited"}}

PaceText(pace) ==
    {<<"pace", p.status>> : p \in {q \in pace : q.status \notin {"unknown", "not_applicable"}}}

\* The texts of everything the request may mean, by its place.
Candidates(observation, request) ==
    LET windows == SelectWindows(observation, request).windows
        limits  == LimitsOf(SelectWindows(observation, request))
    IN  IF request.field = "pace"
        THEN [i \in DOMAIN windows |-> PaceText(windows[i].pace)]
        ELSE [p \in {q \in DOMAIN limits : limits[q].field = request.field} |-> LimitText(limits[p])]

SelectValue(observation, request, policy) ==
    LET candidates == Candidates(observation, request)
        error == FirstOf(<< <<"invalid", ~Valid(observation)>>,
                            <<"selection", request.provider = "" \/ request.field = "">>,
                            <<"no_match", request.provider # observation.provider>>,
                            <<"stale", policy = "fresh" /\ observation.freshness # "fresh">>,
                            <<"wrong_account", AccountDiffers(observation, request.account)>>,
                            <<"no_match", DOMAIN candidates = {}>>,
                            <<"ambiguous", ~AtMostOne(DOMAIN candidates)>>,
                            <<"undefined", ToSet(candidates) = {Nil}>> >>)
    IN  [text |-> IF error = Nil THEN The(ToSet(candidates)) ELSE Nil, error |-> error]

----------------------------------------------------------------------------
(* Documents *)

RenderLimit(limit) ==
    [id |-> limit.id, field |-> limit.field, state |-> limit.value.state,
     amount |-> limit.value.amount, resetAt |-> limit.resetAt, duration |-> limit.duration]

\* JSON and TOON hold the same document.
RenderJSON(observation) ==
    IF ~Valid(observation) THEN Nil
    ELSE {[observation EXCEPT !.windows =
            {[w EXCEPT !.limits = {RenderLimit(l) : l \in ToSet(w.limits)}] :
                w \in ToSet(observation.windows)}]}

ParseLimit(raw) ==
    [id |-> raw.id, field |-> raw.field, value |-> [state |-> raw.state, amount |-> raw.amount],
     resetAt |-> raw.resetAt, duration |-> raw.duration]

ParseJSON(document) ==
    LET observation == [document EXCEPT !.windows =
            [w \in document.windows |->
                [w EXCEPT !.limits = SetToSeq({ParseLimit(l) : l \in w.limits})]]]
    IN  IF Valid(observation) THEN {observation} ELSE Nil

\* The line of the compact report: no identifiers of limits, the age instead.
FormatLimit(limit) ==
    [field |-> limit.field,
     text |-> IF limit.value.amount = Nil THEN limit.value.state ELSE "amount",
     amount |-> limit.value.amount, resetAt |-> limit.resetAt, duration |-> limit.duration]

RenderCompact(observation, now) ==
    IF ~Valid(observation) THEN Nil
    ELSE {[age |-> IF now < observation.observedAt THEN 0 ELSE now - observation.observedAt,
           observedAt |-> observation.observedAt,
           freshness |-> observation.freshness,
           outcome |-> observation.outcome,
           account |-> observation.account,
           windows |-> {[w EXCEPT !.limits = {FormatLimit(l) : l \in ToSet(w.limits)}] :
                            w \in ToSet(observation.windows)}]}

=============================================================================
