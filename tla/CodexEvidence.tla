--------------------------- MODULE CodexEvidence ---------------------------
(***************************************************************************)
(* The usage response of Codex and its normalization.  The spellings of a  *)
(* field the source accepts are one field.  A raw window length is a       *)
(* multiple of 1 / Resolution hours, finer than the clock: it is cut down  *)
(* to whole hours, as the source cuts seconds down to nanoseconds.         *)
(***************************************************************************)
EXTENDS Evidence

\* A time is written as a text or as a number of seconds.
RawReset == [text : BOOLEAN, time : Int]
RateWindow == [used : Pointers(Int), length : Pointers(Int), resetAt : Pointers(RawReset),
               resetAfter : Pointers(Int)]
RateLimit == [primary : Pointers(RateWindow), secondary : Pointers(RateWindow)]

CodexResponse ==
    [account : STRING, rateLimit : Pointers(RateLimit), codeReview : Pointers(RateLimit),
     additional : Seq([feature : STRING, limit : Pointers(RateLimit)]),
     credits : [balance : Pointers(Int), unlimited : Pointers(BOOLEAN)]]

Resolution == 10
FiveHours == 5 * Resolution
Week == 168 * Resolution
MaxDelay == 3650 * 24
MaxLength == MaxDelay * Resolution

NumericValue(value, bound) ==
    IF value < 0 \/ (bound /\ value > 100) THEN Nil ELSE {Number(value)}

\* Feature names that differ only outside [a-zA-Z0-9_-] get one identifier.
FeatureId(feature) == IF feature = "chat!" THEN "chat_" ELSE feature

Features == {"", "chat_", "chat!", "spark"}

\* Decoding refuses a number that is not positive or too late, but no text.
WindowDecodes(raw) == \A r \in raw.resetAt : r.text \/ r.time \in 1..LastHour

\* resetTime: a time wins over a delay, and the zero time is none.
ResetTime(raw, now) ==
    (IF raw.resetAt # Nil THEN {r.time : r \in raw.resetAt}
     ELSE {now + delay : delay \in raw.resetAfter}) \ {ZeroTime}

WindowId(prefix, fallback, length) ==
    CASE length = 0 -> <<prefix, fallback>>
      [] length = FiveHours -> <<prefix, "five_hour">>
      [] length = Week -> <<prefix, "weekly">>
      [] length \notin {0, FiveHours, Week} -> <<prefix, "window", length>>

NormalizeWindow(raw, prefix, fallback, scope, now) ==
    LET length == IF raw.length = Nil THEN 0 ELSE The(raw.length)
        id == WindowId(prefix, fallback, length)
        whole == IF length > 0 THEN {length \div Resolution} ELSE Nil
    IN  IF \/ ~WindowDecodes(raw)
           \/ raw.used = Nil \/ ~raw.used \subseteq 0..100
           \/ length \notin 0..MaxLength
           \/ raw.resetAt = Nil /\ ~raw.resetAfter \subseteq 0..MaxDelay
        THEN Nil
        ELSE {Window(id, scope, "percent",
                <<Limit(id, "used", Number(The(raw.used))),
                  Limit(id, "remaining", Number(100 - The(raw.used)))>>
                \o DurationLimits(id, whole)
                \o ResetLimits(id, ResetTime(raw, now)))}

Fallbacks == <<"five_hour", "weekly">>

\* appendRateWindows: always two windows; the one that is missing takes the
\* name of the two that the other has not taken.
RateWindows(limit, prefix, scope, now) ==
    LET raw == <<limit.primary, limit.secondary>>
        parsed == [i \in 1..2 |->
            UNION {NormalizeWindow(w, prefix, Fallbacks[i], scope, now) : w \in raw[i]}]
        Taken(id) == \E i \in 1..2 : \E w \in parsed[i] : w.id = id
        Missing(i) ==
            LET id == <<prefix, Fallbacks[IF Taken(<<prefix, Fallbacks[i]>>) THEN 3 - i ELSE i]>>
            IN  Window(id, scope, "percent", <<Limit(id, "remaining", Unknown)>>)
    IN  IF \E i \in 1..2 : raw[i] # Nil /\ parsed[i] = Nil THEN Nil
        ELSE {[i \in 1..2 |-> IF parsed[i] = Nil THEN Missing(i) ELSE The(parsed[i])]}

\* An absent rate limit adds no window.
OptionalWindows(limit, prefix, scope, now) ==
    IF limit = Nil THEN {<<>>} ELSE RateWindows(The(limit), prefix, scope, now)

AdditionalWindows(additional, now) ==
    IF additional.feature = "" \/ additional.limit = Nil THEN Nil
    ELSE RateWindows(The(additional.limit), "model_" \o FeatureId(additional.feature) \o "_",
                     "model", now)

CreditWindows(credits) ==
    LET id == <<"", "credits">>
        Credits(value) == <<Window(id, "account", "credits", <<Limit(id, "remaining", value)>>)>>
    IN  CASE credits.unlimited = {TRUE} -> {Credits(Unlimited)}
          [] credits.unlimited # {TRUE} /\ credits.balance # Nil ->
                {Credits(v) : v \in NumericValue(The(credits.balance), FALSE)}
          [] credits.unlimited = {FALSE} /\ credits.balance = Nil -> {Credits(Unknown)}
          [] credits.unlimited = Nil /\ credits.balance = Nil -> {<<>>}

\* All windows, or Nil when one part was refused.
AllWindows(parts) ==
    IF \E i \in DOMAIN parts : parts[i] = Nil THEN Nil
    ELSE {Flatten([i \in DOMAIN parts |-> The(parts[i])])}

NormalizeCodex(raw, selectedAccount, now) ==
    LET parts ==
            <<OptionalWindows(raw.rateLimit, "", "account", now),
              OptionalWindows(raw.codeReview, "code_review_", "code_review", now)>>
            \o [i \in DOMAIN raw.additional |-> AdditionalWindows(raw.additional[i], now)]
            \o <<CreditWindows(raw.credits)>>
        binding == IF raw.account = selectedAccount THEN "verified" ELSE "historical"
        observations == {Observation("codex", selectedAccount, binding, now, "complete", w) :
                            w \in AllWindows(parts)}
    IN  IF raw.account \notin {"", selectedAccount} \/ raw.rateLimit = Nil THEN Nil
        ELSE {o \in observations : Valid(o)}

=============================================================================
