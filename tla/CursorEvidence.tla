--------------------------- MODULE CursorEvidence ---------------------------
(***************************************************************************)
(* The answers of Cursor (the usage, and the two supplements that may      *)
(* fail) and their normalization.  The two spellings of a field are one.   *)
(***************************************************************************)
EXTENDS Evidence

PlanUsage == [total : Pointers(Int), auto : Pointers(Int), api : Pointers(Int)]
SpendLimit == [limit : Pointers(Int), remaining : Pointers(Int), used : Pointers(Int)]

PlanCycle == [start : Pointers(Int), end : Pointers(Int)]
SandStatus ==
    [pooled : Pointers(BOOLEAN), usage : Pointers(Int), start : Pointers(Int), reset : Pointers(Int)]

\* What was decoded of the answer to a supplement; broken names the field whose
\* value stopped that, or says that the call failed or that nothing did.
Supplements(bodies) ==
    {s \in [body : bodies, broken : STRING] : s.broken \in DOMAIN s.body => s.body[s.broken] = Nil}

CursorResponse ==
    [usage : [start : Pointers(Int), end : Pointers(Int), planUsage : Pointers(PlanUsage),
              spendLimit : Pointers(SpendLimit)],
     plan : Supplements(PlanCycle), sand : Supplements(SandStatus)]

\* What is left of the answer to a supplement: all of it, or, when decoding
\* stopped at a value, the fields before that value and its zero, which the
\* pointer to it was made for.  A failed call leaves nothing.
Zero(field) ==
    CASE field = "pooled" -> FALSE
      [] field = "usage" -> 0
      [] field \in {"start", "end", "reset"} -> ZeroTime

Decoded(answer) ==
    [field \in DOMAIN answer.body |->
        IF field = answer.broken THEN {Zero(field)} ELSE answer.body[field]]

Failed(answer) == answer.broken # "nothing"

\* decodeUsage: the response has at least one of the two meters.
UsageDecodes(usage) == usage.planUsage # Nil \/ usage.spendLimit # Nil

\* A length needs both ends, in order and no further apart than a Duration spans.
CursorCycle(id, start, end) ==
    ResetLimits(id, end)
    \o DurationLimits(id, {e - s : e \in end, s \in start} \cap 1..MaxDuration)

Clamped(percent) == CASE percent < 0 -> 0
                      [] percent > 100 -> 100
                      [] percent \in 0..100 -> percent

CursorWindow(name, used, start, end) ==
    LET id == <<"", name>>
    IN  Window(id, "account", "percent",
               <<Limit(id, "used", OptionalNumber({Clamped(u) : u \in used})),
                 Limit(id, "remaining", OptionalNumber({100 - Clamped(u) : u \in used}))>>
               \o CursorCycle(id, start, end))

SpendWindow(spend, start, end) ==
    LET id == <<"", "spend_limit">>
    IN  IF ~(spend.limit \cup spend.remaining \cup spend.used) \subseteq Nat THEN Nil
        ELSE {Window(id, "account", "usd_cents",
                     <<Limit(id, "limit", OptionalNumber(spend.limit)),
                       Limit(id, "remaining", OptionalNumber(spend.remaining)),
                       Limit(id, "used", OptionalNumber(spend.used))>>
                     \o CursorCycle(id, start, end))}

\* A pooled allowance is not the user's own.
GrokBotWindows(sand) ==
    IF sand.pooled = {TRUE} \/ sand.usage = Nil THEN <<>>
    ELSE <<CursorWindow("grok_bot", sand.usage, sand.start, sand.reset)>>

NormalizeCursor(raw, now) ==
    LET usage == raw.usage
        cycle == Decoded(raw.plan)
        start == IF usage.start # Nil THEN usage.start ELSE cycle.start
        end == IF usage.end # Nil THEN usage.end ELSE cycle.end
        meters == IF usage.planUsage = Nil THEN <<>>
                  ELSE LET plan == The(usage.planUsage)
                       IN  <<CursorWindow("included_usage", plan.total, start, end),
                             CursorWindow("auto_usage", plan.auto, start, end),
                             CursorWindow("api_usage", plan.api, start, end)>>
        spend == [s \in usage.spendLimit |-> SpendWindow(s, start, end)]
        refused == \E s \in usage.spendLimit : spend[s] = Nil
        spent == IF usage.spendLimit = Nil THEN <<>> ELSE <<The(spend[The(usage.spendLimit)])>>
        bot == GrokBotWindows(Decoded(raw.sand))
        outcome == IF Failed(raw.plan) \/ Failed(raw.sand) THEN "partial" ELSE "complete"
    IN  IF ~UsageDecodes(usage) \/ refused THEN Nil
        ELSE {o \in {Observation("cursor", "", "unknown", now, outcome, meters \o spent \o bot)} :
                Valid(o)}

=============================================================================
