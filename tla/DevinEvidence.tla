--------------------------- MODULE DevinEvidence ---------------------------
(***************************************************************************)
(* The user status Devin answers with and its normalization.  Amounts may  *)
(* be negative: the source writes an unlimited allowance as -1.            *)
(***************************************************************************)
EXTENDS Evidence

PlanInfo == [prompt : Pointers(Int), flow : Pointers(Int)]

PlanStatus ==
    [dailyPercent : Pointers(Int), dailyReset : Pointers(Int), weeklyPercent : Pointers(Int),
     weeklyReset : Pointers(Int), acuConsumed : Pointers(Int), acuLimit : Pointers(Int),
     planStart : Pointers(Int), planEnd : Pointers(Int), planInfo : Pointers(PlanInfo),
     usedPrompt : Pointers(Int), availablePrompt : Pointers(Int), usedFlow : Pointers(Int),
     availableFlow : Pointers(Int), usedFlex : Pointers(Int), availableFlex : Pointers(Int)]

DevinResponse == [account : STRING, status : PlanStatus, planInfo : Pointers(PlanInfo)]

\* A part of the answer: its windows, and whether the source left a gap.
Part(window, gap) == {[windows |-> <<window>>, partial |-> gap]}
NoPart == {[windows |-> <<>>, partial |-> FALSE]}

\* Takes a quota without a reset for a whole one.
BugQuotaWindow(name, percent, reset, duration) ==
    LET id == <<"", name>>
        limits == <<Limit(id, "used", OptionalNumber({100 - p : p \in percent})),
                    Limit(id, "remaining", OptionalNumber(percent))>>
    IN  IF percent = Nil /\ reset = Nil THEN NoPart
        ELSE IF ~percent \subseteq 0..100 THEN Nil
        ELSE Part(Window(id, "account", "percent",
                         limits \o DurationLimits(id, {duration}) \o ResetLimits(id, reset)),
                  percent = Nil)

QuotaWindow(name, percent, reset, duration) ==
    LET id == <<"", name>>
        limits == <<Limit(id, "used", OptionalNumber({100 - p : p \in percent})),
                    Limit(id, "remaining", OptionalNumber(percent))>>
    IN  IF percent = Nil /\ reset = Nil THEN NoPart
        ELSE IF ~percent \subseteq 0..100 THEN Nil
        ELSE Part(Window(id, "account", "percent",
                         limits \o DurationLimits(id, {duration}) \o ResetLimits(id, reset)),
                  percent = Nil \/ reset = Nil)

\* Time.Sub: the largest Duration stands for all that are larger.
Elapsed(start, end) == IF end - start > MaxDuration THEN MaxDuration ELSE end - start

\* The usage is a gap when it is missing or negative, and so is the rest
\* unless the limit is unlimited or covers the usage.
AcuWindow(status) ==
    LET id == <<"", "acu">>
        used == {n \in status.acuConsumed : n >= 0}
        unlimited == \E l \in status.acuLimit : l < 0
        rest == {l - n : l \in status.acuLimit, n \in used} \cap Nat
        remaining == CASE unlimited -> Unlimited
                       [] ~unlimited /\ rest # Nil -> Number(The(rest))
                       [] ~unlimited /\ rest = Nil -> Unknown
        cycle == {Elapsed(s, e) : s \in status.planStart, e \in status.planEnd} \cap (Nat \ {0})
        limits == <<Limit(id, "used", IF used = Nil THEN Unknown ELSE Number(The(used))),
                    Limit(id, "remaining", remaining)>>
    IN  IF status.acuConsumed = Nil /\ status.acuLimit = Nil THEN NoPart
        ELSE Part(Window(id, "account", "acu",
                         limits \o ResetLimits(id, status.planEnd) \o DurationLimits(id, cycle)),
                  used = Nil \/ remaining = Unknown \/ status.planEnd = Nil)

\* A negative amount means unlimited, but for the usage.
AmountValue(amount) == IF amount < 0 THEN Unlimited ELSE Number(amount)

CreditWindow(name, used, available, monthly) ==
    LET id == <<"", name>>
        usedValue ==
            CASE used = Nil /\ (\E a \in available : a < 0) -> NotApplicable
              [] used = Nil /\ ~(\E a \in available : a < 0) -> Unknown
              [] used # Nil -> IF The(used) < 0 THEN Unknown ELSE Number(The(used))
        remaining == IF available = Nil THEN Unknown ELSE AmountValue(The(available))
        ceiling == IF monthly = Nil THEN <<>>
                   ELSE <<Limit(id, "limit", AmountValue(The(monthly)))>>
    IN  IF used = Nil /\ available = Nil /\ monthly = Nil THEN NoPart
        ELSE Part(Window(id, "account", "credits",
                         <<Limit(id, "used", usedValue), Limit(id, "remaining", remaining)>>
                         \o ceiling),
                  usedValue = Unknown \/ remaining = Unknown)

\* monthlyValue: the plan of the status wins over that of the response.
MonthlyValue(raw, family) ==
    LET plan == IF raw.status.planInfo # Nil THEN raw.status.planInfo ELSE raw.planInfo
    IN  UNION {p[family] : p \in plan}

\* raw.status is what planStatus holds; without one ProviderObserve refuses.
NormalizeDevin(raw, selectedAccount, now) ==
    LET s == raw.status
        parts ==
            <<QuotaWindow("daily", s.dailyPercent, s.dailyReset, 24),
              QuotaWindow("weekly", s.weeklyPercent, s.weeklyReset, 168),
              AcuWindow(s),
              CreditWindow("prompt_credits", s.usedPrompt, s.availablePrompt,
                           MonthlyValue(raw, "prompt")),
              CreditWindow("flow_credits", s.usedFlow, s.availableFlow,
                           MonthlyValue(raw, "flow")),
              CreditWindow("flex_credits", s.usedFlex, s.availableFlex, Nil)>>
        windows == Flatten([i \in DOMAIN parts |-> The(parts[i]).windows])
        partial == \E i \in DOMAIN parts : The(parts[i]).partial
        binding == IF raw.account = "" THEN "unknown" ELSE "verified"
        outcome == IF partial THEN "partial" ELSE "complete"
    IN  IF \/ selectedAccount \notin {"", raw.account}
           \/ \E i \in DOMAIN parts : parts[i] = Nil
           \/ DOMAIN windows = {}
        THEN Nil
        ELSE {o \in {Observation("devin", raw.account, binding, now, outcome, windows)} : Valid(o)}

=============================================================================
