---------------------------- MODULE MCReporting ----------------------------
(***************************************************************************)
(* Reporting for TLC: the answers of the providers, each part of one       *)
(* varied around a healthy one, and the commands.                          *)
(***************************************************************************)
EXTENDS Reporting, TLC

Hour == 1000
MCClocks == {Hour - 1, Hour, Hour + 1, Hour + 6}

\* 20 % of five hours are left before the reset in an hour, 25 % of a day and
\* 3.6 % of a week before the one in six; a pace is on its limit one point off.
Used == {-1, 0, 74, 76, 78, 79, 81, 82, 100, 101}
Soon == Hour + 1
Later == Hour + 6
Resets == {Nil, {0}, {Hour}, {Soon}, {Later}}
Percents == {Nil} \cup {{u} : u \in Used}

----------------------------------------------------------------------------
CodexWindow(used, length, resetAt, resetAfter) ==
    [used |-> used, length |-> length, resetAt |-> resetAt, resetAfter |-> resetAfter]

Seconds(hour) == {[text |-> FALSE, time |-> hour]}
Text(hour) == {[text |-> TRUE, time |-> hour]}

Session == CodexWindow({79}, {50}, Seconds(Soon), Nil)
WeekWindow == CodexWindow({40}, {1680}, Text(Later), Nil)

CodexWindows ==
    {CodexWindow(u, {50}, Seconds(Soon), Nil) : u \in Percents}
    \cup {CodexWindow({79}, l, Seconds(Later), Nil) :
            l \in {Nil, {-1}, {0}, {1}, {240}, {1680}, {MaxLength + 1}}}
    \cup {CodexWindow({79}, {50}, Nil, d) :
            d \in {Nil, {-1}, {0}, {1}, {MaxDelay}, {MaxDelay + 1}}}
    \cup {CodexWindow({79}, {50}, r, d) : d \in {Nil, {-1}, {1}},
            r \in {Seconds(h) : h \in {0, Hour, Soon, LastHour + 1}}
                  \cup {Text(h) : h \in {ZeroTime, 0, Hour, Soon}}}

Pair(primary, secondary) == [primary |-> primary, secondary |-> secondary]
NoCredits == [balance |-> Nil, unlimited |-> Nil]
Feature(f, limit) == [feature |-> f, limit |-> limit]

CodexAnswer ==
    [account |-> SelectedAccount, rateLimit |-> {Pair({Session}, {WeekWindow})},
     codeReview |-> Nil, additional |-> <<>>, credits |-> NoCredits]

CodexAnswers ==
    {[CodexAnswer EXCEPT !.rateLimit = {Pair({w}, s)}] : w \in CodexWindows, s \in {Nil, {WeekWindow}}}
    \cup {[CodexAnswer EXCEPT !.rateLimit = r] :
            r \in {Nil, {Pair(Nil, Nil)}, {Pair(Nil, {Session})}, {Pair({WeekWindow}, Nil)},
                   {Pair({WeekWindow}, {CodexWindow({30}, Nil, Nil, Nil)})}}}
    \cup {[CodexAnswer EXCEPT !.account = a, !.codeReview = c] :
            a \in {"", "other"}, c \in {Nil, {Pair({Session}, Nil)}}}
    \cup {[CodexAnswer EXCEPT !.credits = [balance |-> b, unlimited |-> u]] :
            b \in {Nil, {-1}, {0}, {7}}, u \in {Nil, {TRUE}, {FALSE}}}
    \cup {[CodexAnswer EXCEPT !.additional = a] :
            a \in {<<Feature(f, {Pair({Session}, Nil)})>> : f \in Features}
                  \cup {<<Feature("spark", Nil)>>}
                  \cup {<<Feature("chat_", {Pair({Session}, Nil)}),
                          Feature(f, {Pair({WeekWindow}, Nil)})>> : f \in {"chat!", "spark"}}}

----------------------------------------------------------------------------
Legacy(utilization, resetsAt) == [utilization |-> utilization, resetsAt |-> resetsAt]

Scoped(kind, model, group, percent, resetsAt) ==
    [kind |-> kind, model |-> model, group |-> group, percent |-> percent, resetsAt |-> resetsAt]

ClaudeAnswer ==
    [limits |-> Nil, fiveHour |-> {Legacy({79}, {Soon})}, sevenDay |-> {Legacy({40}, {Later})},
     opus |-> Nil, extra |-> Nil]

Extra(enabled, used, limit, places) ==
    [enabled |-> enabled, used |-> used, limit |-> limit, places |-> places]

ClaudeAnswers ==
    {[ClaudeAnswer EXCEPT !.fiveHour = {Legacy(u, r)}] : u \in Percents, r \in {Nil, {Soon}}}
    \cup {[ClaudeAnswer EXCEPT !.sevenDay = {Legacy({40}, r)}, !.opus = o] :
            r \in Resets, o \in {Nil, {Legacy({5}, {Later})}}}
    \cup {[ClaudeAnswer EXCEPT !.fiveHour = Nil, !.sevenDay = Nil]}
    \cup {[ClaudeAnswer EXCEPT !.limits = {<<Scoped(k, m, g, {79}, {Soon})>>}] :
            k \in {"", "odd"}, m \in {"", "opus"}, g \in {"session", "weekly", "other"}}
    \cup {[ClaudeAnswer EXCEPT !.limits = {<<>>}, !.extra = e] :
            e \in {Nil, {Extra(FALSE, {1}, {2}, {2})}, {Extra(TRUE, {1}, {2}, {2})}}}
    \cup {[ClaudeAnswer EXCEPT !.limits =
              {<<Scoped("a", "opus", g, {79}, {Soon}), Scoped("b", m, "session", {30}, {Soon})>>}] :
            g \in {"session", "weekly"}, m \in {"", "opus", "opus!"}}
    \cup {[ClaudeAnswer EXCEPT !.extra = {Extra(TRUE, u, l, p)}] :
            u \in {Nil, {-1}, {0}, {3}}, l \in {Nil, {2}, {3}, {9}}, p \in {Nil, {-1}, {0}, {9}, {10}}}

----------------------------------------------------------------------------
BillingCycle == [start |-> {Soon - 5}, end |-> {Soon}]
NoBillingCycle == [start |-> Nil, end |-> Nil]
Supplement(body, broken) == [body |-> body, broken |-> broken]
NoSand == [pooled |-> Nil, usage |-> Nil, start |-> Nil, reset |-> Nil]
Sand == [pooled |-> Nil, usage |-> {79}, start |-> {Soon - 5}, reset |-> {Soon}]

Plan(total, auto, api) == [total |-> total, auto |-> auto, api |-> api]
Spend(limit, remaining, used) == [limit |-> limit, remaining |-> remaining, used |-> used]

Usage(cycle, planUsage, spendLimit) ==
    [start |-> cycle.start, end |-> cycle.end, planUsage |-> planUsage, spendLimit |-> spendLimit]

CursorAnswer ==
    [usage |-> Usage(BillingCycle, {Plan({79}, {0}, Nil)}, Nil),
     plan |-> Supplement(NoBillingCycle, "nothing"), sand |-> Supplement(NoSand, "nothing")]

CursorAnswers ==
    {[CursorAnswer EXCEPT !.usage = Usage(BillingCycle, {Plan(t, {100}, Nil)}, Nil)] : t \in Percents}
    \cup {[CursorAnswer EXCEPT !.usage = Usage(NoBillingCycle, p, s)] :
            p \in {Nil, {Plan({79}, {79}, {79})}},
            s \in {Nil, {Spend({9}, {9}, {0})}, {Spend(Nil, Nil, {-1})}, {Spend({5}, Nil, Nil)}}}
    \cup {[CursorAnswer EXCEPT !.usage = Usage(NoBillingCycle, {Plan({79}, Nil, Nil)}, Nil),
                               !.plan = p] :
            p \in {Supplement([start |-> s, end |-> {Soon}], "nothing") :
                      s \in {Nil, {Soon - 5}, {Soon}}}
                  \cup {Supplement([start |-> s, end |-> Nil], b) :
                           s \in {Nil, {Soon - 5}}, b \in {"nothing", "call", "end"}}
                  \cup {Supplement([start |-> Nil, end |-> e], "start") : e \in {Nil, {Soon}}}}
    \cup {[CursorAnswer EXCEPT !.sand = s] :
            s \in {Supplement(Sand, "nothing"), Supplement([Sand EXCEPT !.usage = Nil], "usage"),
                   Supplement([Sand EXCEPT !.reset = Nil], "reset"),
                   Supplement([Sand EXCEPT !.start = Nil], "start")}}
    \cup {[CursorAnswer EXCEPT !.sand = Supplement(NoSand, b)] : b \in {"call", "usage", "pooled"}}
    \cup {[CursorAnswer EXCEPT !.sand = Supplement([Sand EXCEPT !.pooled = p], "nothing")] :
            p \in {{TRUE}, {FALSE}}}

----------------------------------------------------------------------------
NoAmounts ==
    [dailyPercent |-> Nil, dailyReset |-> Nil, weeklyPercent |-> Nil, weeklyReset |-> Nil,
     acuConsumed |-> Nil, acuLimit |-> Nil, planStart |-> Nil, planEnd |-> Nil, planInfo |-> Nil,
     usedPrompt |-> Nil, availablePrompt |-> Nil, usedFlow |-> Nil, availableFlow |-> Nil,
     usedFlex |-> Nil, availableFlex |-> Nil]

DevinAnswer(status) == [account |-> SelectedAccount, status |-> status, planInfo |-> Nil]
Healthy == [NoAmounts EXCEPT !.weeklyPercent = {60}, !.weeklyReset = {Later}]
Amounts == {Nil, {-1}, {0}, {3}}

DevinStatuses ==
    {[NoAmounts EXCEPT !.dailyPercent = {100 - u : u \in p}, !.dailyReset = r] :
        p \in Percents, r \in {Nil, {Later}}}
    \cup {[Healthy EXCEPT !.acuConsumed = c, !.acuLimit = l, !.planEnd = e] :
            c \in Amounts, l \in {Nil, {-1}, {2}, {3}, {8}}, e \in {Nil, {Later}}}
    \cup {[Healthy EXCEPT !.acuConsumed = {1}, !.acuLimit = {8}, !.planEnd = {Later}, !.planStart = s] :
            s \in {{Hour - 5}, {Later}, {Hour - MaxDuration}}}
    \cup {[Healthy EXCEPT !.usedPrompt = u, !.availablePrompt = a] : u \in Amounts, a \in Amounts}
    \cup {[Healthy EXCEPT !.usedFlow = {1}, !.availableFlow = {2}, !.usedFlex = {3},
                          !.availableFlex = f] : f \in Amounts}

DevinAnswers ==
    {DevinAnswer(s) : s \in DevinStatuses}
    \cup {[DevinAnswer(Healthy) EXCEPT !.account = ""]}
    \cup {[DevinAnswer([Healthy EXCEPT !.planInfo = s]) EXCEPT !.planInfo = r] :
            s \in {Nil, {[prompt |-> {500}, flow |-> Nil]}},
            r \in {Nil, {[prompt |-> {-1}, flow |-> {9}]}}}

----------------------------------------------------------------------------
Timestamp(hour) == <<Scalar(1, Varint, hour)>>
PreciseTimestamp(hour, nanos) == Timestamp(hour) \o <<Scalar(2, Varint, nanos)>>

GrokPeriod(kind, start, reset) ==
    Message(8,
        <<Scalar(1, Varint, kind), Message(2, Timestamp(start)),
          Message(3, Timestamp(reset))>>)

Shared(used) == Scalar(1, Fixed32, used)
Product(fields) == Message(7, fields)
Kind(k) == Scalar(1, Varint, k)
ProductUsed(u) == Scalar(2, Fixed32, u)
Prepaid(fields) == Message(12, fields)

GrokPeriods ==
    {<<>>, <<GrokPeriod(1, Soon - 5, Soon)>>}

GrokAnswers ==
    {p \o <<Shared(u)>> : p \in GrokPeriods, u \in Used}
    \cup {<<GrokPeriod(k, s, r), Shared(79)>> :
            k \in {1, 2, 3}, s \in {Soon - 5, Later}, r \in {Hour, Soon, Later}}
    \cup {<<GrokPeriod(1, s, s + 5), Shared(79)>> : s \in {-1, LastHour - 5, LastHour - 4}}
    \cup {<<Message(8, <<Kind(1), Message(2, Timestamp(Soon - 5)),
                        Message(3, PreciseTimestamp(Soon, n))>>), Shared(79)>> :
            n \in {-1, 0, MaxNanos, MaxNanos + 1}}
    \cup {<<GrokPeriod(1, 0, MaxDuration + 1)>>, <<Shared(79), Shared(79)>>,
          <<Scalar(1, Varint, 79)>>,
          <<GrokPeriod(1, Soon - 5, Soon), GrokPeriod(2, Soon - 5, Soon)>>,
          <<Message(8, <<Kind(1)>>)>>}
    \cup {p \o <<Product(f)>> : p \in GrokPeriods,
            f \in {<<>>, <<Kind(2)>>, <<ProductUsed(0)>>, <<Kind(9), ProductUsed(79)>>,
                   <<Kind(1), ProductUsed(101)>>, <<ProductUsed(1), ProductUsed(2)>>}}
    \cup {p \o <<Product(<<Kind(2), ProductUsed(79)>>), Product(<<Kind(k)>>)>> :
            p \in GrokPeriods, k \in {2, 3}}
    \cup {p \o <<Prepaid(f)>> : p \in GrokPeriods \cup {<<Shared(3)>>},
            f \in {<<>>, <<Scalar(1, Varint, 0)>>, <<Scalar(1, Varint, 7)>>,
                   <<Scalar(1, Bytes, 7)>>}}

----------------------------------------------------------------------------
MCAnswers(p) ==
    CASE p = "codex" -> CodexAnswers
      [] p = "claude" -> ClaudeAnswers
      [] p = "cursor" -> CursorAnswers
      [] p = "devin" -> DevinAnswers
      [] p = "grok" -> GrokAnswers

WholeReport(o) ==
    [kind |-> "report", format |-> "json", provider |-> o.provider, window |-> Nil, scope |-> Nil,
     account |-> "", field |-> "", freshness |-> "any"]

ValueOf(o, window, field) ==
    [WholeReport(o) EXCEPT !.kind = "value", !.format = "compact",
                           !.window = window, !.field = field]

MCCommands(o) ==
    LET windows == {w.id : w \in ToSet(o.windows)}
    IN  {[WholeReport(o) EXCEPT !.format = f] : f \in {"json", "compact"}}
        \cup {[WholeReport(o) EXCEPT !.window = {w}] : w \in windows \cup {<<"", "bogus">>}}
        \cup {[WholeReport(o) EXCEPT !.scope = {s}, !.format = "compact"] : s \in {"account", "model"}}
        \cup {[WholeReport(o) EXCEPT !.freshness = "fresh"]}
        \cup {[WholeReport(o) EXCEPT !.account = SelectedAccount]}
        \cup {ValueOf(o, {w}, f) : w \in windows,
                f \in {"used", "remaining", "reset", "duration", "limit", "pace"}}
        \cup {ValueOf(o, w, "remaining") : w \in {Nil, {<<"", "bogus">>}}}
        \cup {ValueOf(o, {w}, "") : w \in windows}
        \cup {[ValueOf(o, {w}, "remaining") EXCEPT !.format = "json"] : w \in windows}
        \cup {[ValueOf(o, {w}, "remaining") EXCEPT !.freshness = "fresh"] : w \in windows}
        \cup {[ValueOf(o, {w}, "remaining") EXCEPT !.account = SelectedAccount] : w \in windows}
        \cup {[ValueOf(o, {w}, "used") EXCEPT !.scope = {"model"}] : w \in windows}
=============================================================================
