------------------------------ MODULE Reporting ------------------------------
(***************************************************************************)
(* From the answer of a provider to what a command prints: one answer is   *)
(* normalized, served fresh or from the cache while the clock moves, and a *)
(* report or a value command asks for it, again and again.  How the answer *)
(* is obtained is the subject of ProviderObserve, what the cache keeps     *)
(* that of CacheStore.                                                     *)
(***************************************************************************)
EXTENDS CodexEvidence, ClaudeEvidence, CursorEvidence, DevinEvidence, GrokEvidence

CONSTANTS
    Answers(_),  \* by provider, the decoded answers it may give
    Commands(_), \* by evidence, the commands a user may give about it
    ObservedAt,  \* the hour of the observation
    Clocks       \* the hours the commands run at

Providers == {"codex", "claude", "cursor", "devin", "grok"}

Responses(provider) ==
    CASE provider = "codex" -> CodexResponse
      [] provider = "claude" -> ClaudeResponse
      [] provider = "cursor" -> CursorResponse
      [] provider = "devin" -> DevinResponse
      [] provider = "grok" -> GrokResponse

ASSUME ReportingAssumption ==
    /\ ObservedAt \in Clocks
    /\ Clocks \subseteq Int
    /\ \A p \in Providers : Answers(p) \subseteq Responses(p)

\* The account of the credentials a provider is asked with, where it has one.
SelectedAccount == "acct"

Normalize(provider, answer) ==
    CASE provider = "codex" -> NormalizeCodex(answer, SelectedAccount, ObservedAt)
      [] provider = "claude" -> NormalizeClaude(answer, SelectedAccount, ObservedAt)
      [] provider = "cursor" -> NormalizeCursor(answer, ObservedAt)
      [] provider = "devin" -> NormalizeDevin(answer, "", ObservedAt)
      [] provider = "grok" -> NormalizeGrok(answer, ObservedAt)

VARIABLES
    clock,      \* the hour
    stage,      \* "idle", "collected", "refused" or "answered"
    provider,
    answer,     \* the provider's answer, Nil before it
    evidence,   \* the observation the program holds
    command,    \* the last command, Nil before it
    reply       \* what it printed, and its error

vars == <<clock, stage, provider, answer, evidence, command, reply>>

Silence == [document |-> Nil, compact |-> Nil, text |-> Nil, error |-> Nil]
Refusal(error) == [Silence EXCEPT !.error = error]

----------------------------------------------------------------------------
(* The commands *)

\* readOptions: the value command needs its selectors.
SelectorMissing(c) == c.field = "" \/ c.window = Nil

\* It prints a bare value, which only the default format stands for.
UsageError(c) == c.kind = "value" /\ (SelectorMissing(c) \/ c.format # "compact")

PartialError(observation) == IF observation.outcome = "partial" THEN {"partial"} ELSE Nil

\* runReport: the selection comes after the pace.
Report(observation, c, now) ==
    LET selection == ForRequest(WithPace(observation, now), c)
        selected == The(selection.evidence)
        document == IF c.format = "json" THEN RenderJSON(selected) ELSE Nil
        compact == IF c.format = "compact" THEN RenderCompact(selected, now) ELSE Nil
        error == FirstOf(<< <<"unavailable", observation.outcome = "unavailable">>,
                            <<"stale", c.freshness = "fresh" /\ observation.freshness # "fresh">> >>)
    IN  CASE error # Nil -> Refusal(error)
          [] error = Nil /\ selection.error # Nil -> Refusal(selection.error)
          [] error = Nil /\ selection.error = Nil ->
                [Silence EXCEPT
                    !.document = document,
                    !.compact = compact,
                    !.error = IF document \cup compact = Nil THEN {"invalid"}
                              ELSE PartialError(selected)]

\* The value command derives a pace only when it is asked for one.
Value(observation, c, now) ==
    LET asked == IF c.field = "pace" THEN WithPace(observation, now) ELSE observation
        selection == SelectValue(asked, c, c.freshness)
    IN  CASE observation.outcome = "unavailable" -> Refusal({"unavailable"})
          [] observation.outcome # "unavailable" /\ selection.error # Nil -> Refusal(selection.error)
          [] observation.outcome # "unavailable" /\ selection.error = Nil ->
                [Silence EXCEPT !.text = selection.text, !.error = PartialError(asked)]

Reply(observation, c, now) ==
    CASE UsageError(c) -> Refusal({"usage"})
      [] ~UsageError(c) /\ c.kind = "report" -> Report(observation, c, now)
      [] ~UsageError(c) /\ c.kind = "value" -> Value(observation, c, now)

----------------------------------------------------------------------------
Init ==
    /\ clock = ObservedAt
    /\ stage = "idle"
    /\ provider \in Providers
    /\ answer = Nil
    /\ evidence = Nil
    /\ command = Nil
    /\ reply = Silence

Collect ==
    /\ stage = "idle"
    /\ \E a \in Answers(provider) :
        /\ answer' = {a}
        /\ evidence' = Normalize(provider, a)
        /\ stage' = IF evidence' = Nil THEN "refused" ELSE "collected"
    /\ UNCHANGED <<clock, provider, command, reply>>

\* eligible: an identity the cache returns is no longer verified, and evidence
\* of the future is not returned.
AsCached(observation) ==
    IF observation.account.binding # "verified" THEN observation
    ELSE [observation EXCEPT !.account.binding = "historical"]

\* backoffResult
AsStale(observation) == [AsCached(observation) EXCEPT !.freshness = "stale"]

\* What the program may hold after the answer.
Evidences(p, a) ==
    UNION {{o, AsCached(o), AsStale(o)} : o \in Normalize(p, a)}

\* A command is about the provider that was asked.
IsCommand(c, p) ==
    /\ c.kind \in {"report", "value"}
    /\ c.format \in {"json", "compact"}
    /\ c.provider = p

ASSUME CommandsAssumption ==
    \A p \in Providers : \A a \in Answers(p) : \A o \in Evidences(p, a) :
        \A c \in Commands(o) : IsCommand(c, p)

\* The evidence comes from the cache, within its age or after a failure.
Cached ==
    /\ stage = "collected"
    /\ \E o \in evidence :
        \/ clock >= o.observedAt /\ evidence' = {AsCached(o)}
        \/ evidence' = {AsStale(o)}
    /\ evidence' # evidence
    /\ UNCHANGED <<clock, stage, provider, answer, command, reply>>

\* The wall clock moves, also back.
ClockMoves ==
    /\ stage = "collected"
    /\ clock' \in Clocks \ {clock}
    /\ UNCHANGED <<stage, provider, answer, evidence, command, reply>>

Ask ==
    /\ stage = "collected"
    /\ \E o \in evidence : \E c \in Commands(o) :
        /\ command' = {c}
        /\ reply' = Reply(o, c, clock)
    /\ stage' = "answered"
    /\ UNCHANGED <<clock, provider, answer, evidence>>

\* The same command at another hour, with the evidence in the cache.
AskAgain ==
    /\ stage = "answered"
    /\ clock' \in Clocks \ {clock}
    /\ \E o \in evidence, c \in command :
        /\ clock' >= o.observedAt
        /\ evidence' = {AsCached(o)}
        /\ reply' = Reply(AsCached(o), c, clock')
    /\ UNCHANGED <<stage, provider, answer, command>>

Next == Collect \/ Cached \/ ClockMoves \/ Ask \/ AskAgain

Spec == Init /\ [][Next]_vars

----------------------------------------------------------------------------
(* Properties *)

Outputs(r) == r.document \cup r.compact

\* The evidence is what the rest of the program takes for valid, with a pace
\* of any hour, with any selection of windows and from the cache: no command
\* fails at rendering what a normalization has accepted.
TypeOK ==
    /\ clock \in Clocks
    /\ provider \in Providers
    /\ stage \in {"idle", "collected", "refused", "answered"}
    /\ stage \in {"idle", "refused"} <=> evidence = Nil
    /\ \A o \in evidence : Valid(o) /\ o.provider = provider
    /\ reply.error # {"invalid"}
    /\ \A d \in reply.document : \E o \in ParseJSON(d) : RenderJSON(o) = {d}
    /\ stage = "answered" =>
            (reply.error \in {Nil, {"partial"}} <=> Outputs(reply) \cup reply.text # Nil)

\* What a reader of a JSON report takes a limit for.
Reading(limit) ==
    CASE limit.resetAt # Nil -> <<"time", The(limit.resetAt)>>
      [] limit.resetAt = Nil /\ limit.duration # Nil -> <<"duration", The(limit.duration)>>
      [] limit.resetAt = Nil /\ limit.duration = Nil /\ limit.amount # Nil ->
            <<"amount", The(limit.amount)>>
      [] limit.resetAt = Nil /\ limit.duration = Nil /\ limit.amount = Nil ->
            <<"state", limit.state>>

Readings(document, c) ==
    LET windows == {w \in document.windows : Selected(w, c)}
    IN  IF c.field = "pace" THEN {<<"pace", p.status>> : p \in UNION {w.pace : w \in windows}}
        ELSE {Reading(l) : l \in {k \in UNION {w.limits : w \in windows} : k.field = c.field}}

Undefined == {<<"state", "unknown">>, <<"state", "not_applicable">>, <<"pace", "unknown">>}

\* The value command and the report are two ways to one number: what the
\* command prints is what the JSON report of the same evidence at the same
\* hour holds, it prints nothing only where the report has nothing or says
\* unknown, and the exact selectors never leave two candidates.
ScalarMatchesReport ==
    \A o \in evidence, c \in command : c.kind = "value" /\ ~UsageError(c) =>
        LET readings == Readings(The(RenderJSON(WithPace(o, clock))), c)
        IN  /\ reply.text # Nil => readings = reply.text
            /\ reply.error = {"no_match"} => readings = Nil
            /\ reply.error = {"undefined"} => readings \subseteq Undefined
            /\ reply.error # {"ambiguous"}

\* A window of the evidence that does not say how much is left, or until when.
VisibleGap(window) ==
    \/ \E l \in ToSet(window.limits) : l.field \in {"used", "remaining"} /\ l.value = Unknown
    \/ /\ window.id \in {<<"", "daily">>, <<"", "weekly">>, <<"", "acu">>}
       /\ \A l \in ToSet(window.limits) : l.resetAt = Nil

\* Devin's and Grok's evidence is partial exactly when one of its windows has
\* a gap, and whoever is given partial evidence is told by the exit code.
GapsAreMarked ==
    \A o \in evidence :
        /\ provider \in {"devin", "grok"} =>
                (o.outcome = "partial" <=> \E w \in ToSet(o.windows) : VisibleGap(w))
        /\ Outputs(reply) \cup reply.text # Nil =>
                (reply.error = {"partial"} <=> o.outcome = "partial")

\* The used percentages of an answer, in any order, Nil for an unknown one.
SuppliedByCodex(a) ==
    LET limits == a.rateLimit \cup a.codeReview
                  \cup UNION {f.limit : f \in ToSet(a.additional)}
    IN  UNION {w.used : w \in UNION {l.primary \cup l.secondary : l \in limits}}

SuppliedByClaude(a) ==
    IF a.limits = Nil
    THEN UNION {w.utilization : w \in a.fiveHour \cup a.sevenDay \cup a.opus}
    ELSE UNION {l.percent : l \in ToSet(The(a.limits))}

SuppliedByCursor(a) ==
    {Clamped(u) : u \in UNION {p.total \cup p.auto \cup p.api : p \in a.usage.planUsage}}
    \cup {Clamped(u) : u \in {v \in a.sand.body.usage : a.sand.body.pooled # {TRUE}}}

SuppliedByDevin(a) == {100 - p : p \in a.status.dailyPercent \cup a.status.weeklyPercent}

\* Grok leaves a percentage that is zero out of a period in force.
SuppliedByGrok(a) ==
    LET percents == {ScalarAt(a, 1)} \cup {ScalarAt(a[i].fields, 2) : i \in AllAt(a, 7)}
        omitted == IF MessageAt(a, 8) = Nil THEN Nil ELSE {0}
    IN  UNION {IF p = Nil THEN omitted ELSE p : p \in percents}

Supplied(a) ==
    CASE provider = "codex" -> SuppliedByCodex(a)
      [] provider = "claude" -> SuppliedByClaude(a)
      [] provider = "cursor" -> SuppliedByCursor(a)
      [] provider = "devin" -> SuppliedByDevin(a)
      [] provider = "grok" -> SuppliedByGrok(a)

AmountOf(window, field) ==
    UNION {l.value.amount : l \in {k \in ToSet(window.limits) : k.field = field}}

\* No percentage is made up and none is lost: every one that is shown was in
\* the answer and the other way round, what is used and what remains add up to
\* 100, and one is unknown when the other is.  Only a supplement of Cursor that
\* could not be decoded may add a zero, and then the evidence is partial.
SuppliedIsShown ==
    \A o \in evidence, a \in answer :
        LET windows == {w \in ToSet(o.windows) : w.unit = "percent"}
            shown == UNION {AmountOf(w, "used") : w \in windows}
        IN  /\ Supplied(a) \subseteq shown
            /\ \/ shown \subseteq Supplied(a)
               \/ /\ provider = "cursor" /\ a.sand.broken = "usage" /\ o.outcome = "partial"
                  /\ shown \subseteq Supplied(a) \cup {0}
            /\ \A w \in windows :
                    AmountOf(w, "remaining") = {100 - u : u \in AmountOf(w, "used")}

\* The paces a reply tells, by window.
Paces(r) ==
    LET shown == UNION {d.windows : d \in Outputs(r)}
    IN  UNION {{<<w.id, p.status, p.timeRemaining, p.reserve>> :
                    p \in {q \in w.pace : q.status # "unknown"}} : w \in shown}

ResetOf(observation, id) ==
    UNION {l.resetAt : l \in {k \in ToSet(LimitsOf(observation)) : k.id = <<id, "reset">>}}

PaceStays ==
    LET PaceAsked == \A c \in command : c.field = "pace"
    IN  /\ PaceAsked /\ reply.text # Nil /\ reply'.text # Nil => reply.text = reply'.text
        /\ \A p \in Paces(reply) :
                \/ p \in Paces(reply')
                \/ \E o \in evidence : \E r \in ResetOf(o, p[1]) : r <= clock'

\* A pace describes the observation, not the hour of the command: asked for
\* again, it is the same, or it is gone because the cycle is over.
PaceIsStable == [][stage = "answered" => PaceStays]_vars

=============================================================================
