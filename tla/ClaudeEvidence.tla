--------------------------- MODULE ClaudeEvidence ---------------------------
(***************************************************************************)
(* The usage response of Claude and its normalization: either a list of    *)
(* limits or the three windows of the older schema, and the extra usage.   *)
(* The amounts of the extra usage stay in the minor unit they come in; a   *)
(* reset of 0 is a text that is no time.                                   *)
(***************************************************************************)
EXTENDS Evidence

LegacyWindow == [utilization : Pointers(Int), resetsAt : Pointers(Int)]

ClaudeResponse ==
    [limits : Pointers(Seq([kind : STRING, model : STRING, group : STRING,
                            percent : Pointers(Int), resetsAt : Pointers(Int)])),
     fiveHour : Pointers(LegacyWindow), sevenDay : Pointers(LegacyWindow),
     opus : Pointers(LegacyWindow),
     extra : Pointers([enabled : BOOLEAN, used : Pointers(Int), limit : Pointers(Int),
                       places : Pointers(Int)])]

\* Model names that differ only outside [a-z0-9_-] get one identifier.
ModelId(model) == IF model = "opus!" THEN "opus" ELSE model

ClaudeWindow(id, scope, percent, reset, duration) ==
    LET name == <<"", id>>
    IN  IF ~percent \subseteq 0..100 \/ reset = {0} THEN Nil
        ELSE {Window(name, scope, "percent",
                <<Limit(name, "used", OptionalNumber(percent)),
                  Limit(name, "remaining", OptionalNumber({100 - p : p \in percent}))>>
                \o ResetLimits(name, reset) \o DurationLimits(name, duration))}

\* The length of a window by the group of its limit.
GroupDuration(group) ==
    CASE group = "session" -> {5}
      [] group = "weekly" -> {168}
      [] group \notin {"session", "weekly"} -> Nil

\* A group names the window of an account, and extends that of a model.
ScopedId(raw) ==
    LET grouped == raw.group \in {"session", "weekly"}
    IN  CASE raw.model # "" ->
                "model_" \o ModelId(raw.model) \o (IF grouped THEN "_" \o raw.group ELSE "")
          [] raw.model = "" /\ grouped -> IF raw.group = "session" THEN "five_hour" ELSE "weekly"
          [] raw.model = "" /\ ~grouped -> IF raw.kind = "" THEN "limit" ELSE raw.kind

ScopedLimit(raw) ==
    ClaudeWindow(ScopedId(raw), IF raw.model = "" THEN "account" ELSE "model",
                  raw.percent, raw.resetsAt, GroupDuration(raw.group))

\* Two windows are there whether or not the source names them.
LegacyWindows(raw) ==
    LET Legacy(id, scope, window, duration) ==
            ClaudeWindow(id, scope, UNION {w.utilization : w \in window},
                          UNION {w.resetsAt : w \in window}, {duration})
    IN  <<Legacy("five_hour", "account", raw.fiveHour, 5),
          Legacy("weekly", "account", raw.sevenDay, 168)>>
        \o (IF raw.opus = Nil THEN <<>> ELSE <<Legacy("model_opus", "model", raw.opus, 168)>>)

\* The decimal places are looked at only when there is an amount to scale; a
\* fraction, or more than nine, refuses the response.
ExtraUsage(raw) ==
    LET id == <<"", "extra_usage">>
        amounts == raw.used \cup raw.limit
        rest == {l - u : l \in raw.limit, u \in raw.used} \cap Nat
    IN  IF amounts # Nil /\ (~raw.places \subseteq 0..9 \/ ~amounts \subseteq Nat) THEN Nil
        ELSE {Window(id, "account",
                IF amounts # Nil /\ raw.places = Nil THEN "credits_native" ELSE "credits",
                <<Limit(id, "used", OptionalNumber(raw.used)), Limit(id, "limit", OptionalNumber(raw.limit)),
                  Limit(id, "remaining", OptionalNumber(rest))>>)}

NormalizeClaude(raw, account, now) ==
    LET limits == IF raw.limits = Nil THEN LegacyWindows(raw)
                  ELSE [i \in DOMAIN The(raw.limits) |-> ScopedLimit(The(raw.limits)[i])]
        enabled == {e \in raw.extra : e.enabled}
        windows == limits \o (IF enabled = Nil THEN <<>> ELSE <<ExtraUsage(The(enabled))>>)
        all == [i \in DOMAIN windows |-> The(windows[i])]
    IN  IF windows = <<>> \/ (\E i \in DOMAIN windows : windows[i] = Nil) THEN Nil
        ELSE {o \in {Observation("claude", account, "verified", now, "complete", all)} : Valid(o)}

=============================================================================
