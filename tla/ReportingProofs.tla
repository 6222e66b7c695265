--------------------------- MODULE ReportingProofs ---------------------------
(***************************************************************************)
(* The properties of Reporting, for any answers of the providers and any   *)
(* commands.                                                               *)
(***************************************************************************)
EXTENDS Reporting, FiniteSetTheorems, TLAPS

----------------------------------------------------------------------------
(* Pointers, tables, positions *)

LEMMA TheOnly == \A x : The({x}) = x
BY DEF The

LEMMA PointerCases ==
    ASSUME NEW S, NEW p \in Pointers(S)
    PROVE  p = Nil \/ \E x \in S : p = {x} /\ The(p) = x
<1>1. CASE p = Nil
  BY <1>1
<1>2. CASE p # Nil
  <2>1. PICK x \in S : x \in p
    BY <1>2 DEF Pointers, Nil
  <2>2. p = {x}
    BY <2>1 DEF Pointers, AtMostOne
  <2> QED
    BY <2>1, <2>2, TheOnly
<1> QED
  BY <1>1, <1>2

LEMMA LeastNatural ==
    ASSUME NEW T, T \subseteq Nat, T # {}
    PROVE  \E x \in T : \A y \in T : x <= y
<1>1. PICK x \in T : \A y \in T : ~(<<y, x>> \in OpToRel(<, Nat))
  BY WFMin, NatLessThanWellFounded
<1>2. \A y \in T : ~(y < x)
  BY <1>1 DEF OpToRel
<1> QED
  BY <1>2

LEMMA MinIsLeast ==
    ASSUME NEW T, T \subseteq Nat, T # {}
    PROVE  Min(T) \in T /\ \A y \in T : Min(T) <= y
BY LeastNatural DEF Min

LEMMA MaxIsGreatest ==
    ASSUME NEW n \in Nat, NEW T, T \subseteq 1..n, T # {}
    PROVE  Max(T) \in T /\ \A y \in T : y <= Max(T)
<1> DEFINE D == {n - x : x \in T}
<1>1. D \subseteq Nat /\ D # {}
  <2>1. \A x \in T : x \in 1..n
    OBVIOUS
  <2>2. \A x \in 1..n : n - x \in Nat
    OBVIOUS
  <2> QED
    BY <2>1, <2>2
<1>2. PICK d \in D : \A e \in D : d <= e
  BY <1>1, LeastNatural
<1>3. PICK x \in T : d = n - x
  BY <1>2
<1>4. \A y \in T : x >= y
  <2> TAKE y \in T
  <2>1. n - y \in D
    OBVIOUS
  <2> QED
    BY <1>2, <1>3, <2>1
<1> QED
  BY <1>4 DEF Max

\* What FirstOf tells of a table.
FirstRow(table, first) ==
    \/ first = Nil /\ \A i \in DOMAIN table : ~table[i][2]
    \/ \E i \in DOMAIN table :
          /\ first = {table[i][1]}
          /\ table[i][2]
          /\ \A j \in DOMAIN table : table[j][2] => i <= j

LEMMA FirstOfTable ==
    ASSUME NEW table, DOMAIN table \subseteq Nat
    PROVE  FirstRow(table, FirstOf(table))
<1> DEFINE holding == {i \in DOMAIN table : table[i][2]}
<1>1. CASE holding = {}
  BY <1>1 DEF FirstOf, FirstRow
<1>2. CASE holding # {}
  <2>1. Min(holding) \in holding /\ \A j \in holding : Min(holding) <= j
    BY <1>2, MinIsLeast
  <2>2. FirstOf(table) = {table[Min(holding)][1]}
    BY <1>2 DEF FirstOf
  <2> QED
    BY <2>1, <2>2 DEF FirstRow
<1> QED
  BY <1>1, <1>2

----------------------------------------------------------------------------
(* The shape of what a normalization gives *)

Amounts == {Unknown, Unlimited, NotApplicable} \cup {Number(n) : n \in Int}

\* The limits of the window id: an amount, or a reset, or a duration.
Limits(id) ==
    {Limit(id, f, v) : f \in {"used", "remaining", "limit"}, v \in Amounts}
    \cup {[Limit(id, "reset", Unknown) EXCEPT !.resetAt = {t}] : t \in Int}
    \cup {[Limit(id, "duration", Unknown) EXCEPT !.duration = {d}] : d \in Int}

\* A window with any pace.
ShapedWindow(w) ==
    /\ w = [id |-> w.id, scope |-> w.scope, unit |-> w.unit, limits |-> w.limits, pace |-> w.pace]
    /\ w.limits \in Seq(Limits(w.id))

AmountShape(v) ==
    /\ v = [state |-> v.state, amount |-> v.amount]
    /\ \/ v.amount = Nil /\ v.state \in {"unknown", "unlimited", "not_applicable"}
       \/ \E n \in Int : v.amount = {n} /\ v.state = IF n = 0 THEN "zero" ELSE "defined"

LEMMA AmountCases == ASSUME NEW v \in Amounts PROVE AmountShape(v)
BY DEF Amounts, AmountShape, Unknown, Unlimited, NotApplicable, Number, Nil

LimitShape(id, l) ==
    /\ l = [id |-> <<id, l.field>>, field |-> l.field, value |-> l.value,
            resetAt |-> l.resetAt, duration |-> l.duration]
    /\ l.value \in Amounts
    /\ IF l.field = "reset" THEN l.value = Unknown /\ \E t \in Int : l.resetAt = {t}
       ELSE l.resetAt = Nil
    /\ IF l.field = "duration" THEN l.value = Unknown /\ \E d \in Int : l.duration = {d}
       ELSE l.duration = Nil

LEMMA LimitName ==
    ASSUME NEW id, NEW l, LimitShape(id, l)
    PROVE  l.id = <<id, l.field>>
<1> DEFINE f == l.field
           v == l.value
           t == l.resetAt
           d == l.duration
<1>1. l = [id |-> <<id, f>>, field |-> f, value |-> v, resetAt |-> t, duration |-> d]
  BY DEF LimitShape
<1> HIDE DEF v, t, d
<1> QED
  BY <1>1

LEMMA LimitCases == ASSUME NEW id, NEW l \in Limits(id) PROVE LimitShape(id, l)
<1>1. ASSUME NEW f \in {"used", "remaining", "limit"}, NEW v \in Amounts, l = Limit(id, f, v)
      PROVE  LimitShape(id, l)
  BY <1>1 DEF Limit, LimitShape
<1>2. Unknown \in Amounts
  BY DEF Amounts
<1>3. ASSUME NEW t \in Int, l = [Limit(id, "reset", Unknown) EXCEPT !.resetAt = {t}]
      PROVE  LimitShape(id, l)
  BY <1>2, <1>3 DEF Limit, LimitShape
<1>4. ASSUME NEW d \in Int, l = [Limit(id, "duration", Unknown) EXCEPT !.duration = {d}]
      PROVE  LimitShape(id, l)
  BY <1>2, <1>4 DEF Limit, LimitShape
<1> QED
  BY <1>1, <1>3, <1>4 DEF Limits

LEMMA LimitsOfWindow ==
    ASSUME NEW w, ShapedWindow(w)
    PROVE  /\ \E n \in Nat : DOMAIN w.limits = 1..n
           /\ \A k \in DOMAIN w.limits : LimitShape(w.id, w.limits[k])
<1>1. w.limits \in Seq(Limits(w.id))
  BY DEF ShapedWindow
<1>2. \A k \in DOMAIN w.limits : w.limits[k] \in Limits(w.id)
  BY <1>1
<1> QED
  BY <1>1, <1>2, LimitCases

----------------------------------------------------------------------------
(* Pace *)

\* Where the inputs of a pace come from.
InputsFrom(w, inputs) ==
    /\ inputs.remaining = Unknown \/ \E k \in DOMAIN w.limits : inputs.remaining = w.limits[k].value
    /\ inputs.resetAt = Nil \/ \E k \in DOMAIN w.limits : inputs.resetAt = w.limits[k].resetAt
    /\ inputs.duration = Nil \/ \E k \in DOMAIN w.limits : inputs.duration = w.limits[k].duration

LEMMA PaceInputsOfWindow ==
    ASSUME NEW w, ShapedWindow(w)
    PROVE  InputsFrom(w, PaceInputs(w))
<1> DEFINE limits    == w.limits
           remaining == {i \in DOMAIN limits : limits[i].field = "remaining"}
           resets    == {i \in DOMAIN limits : limits[i].resetAt # Nil}
           durations == {i \in DOMAIN limits : limits[i].duration # Nil}
<1>1. PICK n \in Nat : DOMAIN limits = 1..n
  BY LimitsOfWindow
<1>2. \A T \in SUBSET DOMAIN limits : T = {} \/ Max(T) \in DOMAIN limits
  BY <1>1, MaxIsGreatest
<1>3. /\ remaining \in SUBSET DOMAIN limits
      /\ resets \in SUBSET DOMAIN limits
      /\ durations \in SUBSET DOMAIN limits
  OBVIOUS
<1>4. PaceInputs(w).remaining = IF remaining = {} THEN Unknown ELSE limits[Max(remaining)].value
  BY DEF PaceInputs
<1>5. PaceInputs(w).resetAt = IF resets = {} THEN Nil ELSE limits[Max(resets)].resetAt
  BY DEF PaceInputs
<1>6. PaceInputs(w).duration = IF durations = {} THEN Nil ELSE limits[Max(durations)].duration
  BY DEF PaceInputs
<1> HIDE DEF remaining, resets, durations
<1> QED
  BY <1>2, <1>3, <1>4, <1>5, <1>6 DEF InputsFrom

LEMMA InputShapes ==
    ASSUME NEW w, ShapedWindow(w)
    PROVE  /\ PaceInputs(w).remaining \in Amounts
           /\ PaceInputs(w).resetAt = Nil \/ \E t \in Int : PaceInputs(w).resetAt = {t}
           /\ PaceInputs(w).duration = Nil \/ \E d \in Int : PaceInputs(w).duration = {d}
<1>1. InputsFrom(w, PaceInputs(w))
  BY PaceInputsOfWindow
<1>2. \A k \in DOMAIN w.limits : LimitShape(w.id, w.limits[k])
  BY LimitsOfWindow
<1>3. Unknown \in Amounts
  BY DEF Amounts
<1> QED
  BY <1>1, <1>2, <1>3 DEF InputsFrom, LimitShape

\* No row of PaceReasons holds.
Known(o, inputs, now) ==
    /\ o.freshness = "fresh"
    /\ ~(now < o.observedAt)
    /\ inputs.clear
    /\ inputs.remaining.amount # Nil
    /\ \A a \in inputs.remaining.amount : a \in 0..100
    /\ inputs.resetAt # Nil /\ inputs.duration # Nil
    /\ \A d \in inputs.duration : ~(d <= 0)
    /\ \A r \in inputs.resetAt : ~(r <= o.observedAt) /\ ~(r <= now)
    /\ \A r \in inputs.resetAt, d \in inputs.duration : ~(r - d > o.observedAt)

LEMMA ReasonsOfPace ==
    ASSUME NEW o, NEW inputs, NEW now
    PROVE  FirstOf(PaceReasons(o, inputs, now)) = Nil <=> Known(o, inputs, now)
<1> DEFINE table == PaceReasons(o, inputs, now)
<1>1. DOMAIN table = 1..9
  BY DEF PaceReasons
<1>2. /\ table[1][2] = (o.freshness # "fresh")
      /\ table[2][2] = (now < o.observedAt)
      /\ table[3][2] = ~inputs.clear
      /\ table[4][2] = (inputs.remaining.amount = Nil)
      /\ table[5][2] = (\E a \in inputs.remaining.amount : a \notin 0..100)
      /\ table[6][2] = (inputs.resetAt = Nil \/ inputs.duration = Nil)
      /\ table[7][2] = (\E d \in inputs.duration : d <= 0)
      /\ table[8][2] = (\E r \in inputs.resetAt : r <= o.observedAt \/ r <= now)
      /\ table[9][2] = (\E r \in inputs.resetAt, d \in inputs.duration : r - d > o.observedAt)
  BY DEF PaceReasons
<1> HIDE DEF table
<1>3. FirstRow(table, FirstOf(table))
  BY <1>1, FirstOfTable
<1>4. FirstOf(table) = Nil <=> \A i \in DOMAIN table : ~table[i][2]
  BY <1>3 DEF FirstRow, Nil
<1>5. (\A i \in DOMAIN table : ~table[i][2]) <=>
          /\ ~table[1][2] /\ ~table[2][2] /\ ~table[3][2] /\ ~table[4][2] /\ ~table[5][2]
          /\ ~table[6][2] /\ ~table[7][2] /\ ~table[8][2] /\ ~table[9][2]
  BY <1>1
<1>6. (\A i \in DOMAIN table : ~table[i][2]) <=> Known(o, inputs, now)
  BY <1>2, <1>5 DEF Known
<1> QED
  BY <1>4, <1>6 DEF table

KnownStatuses == {"ahead", "on_pace", "behind"}

\* What DerivePace gives for a window in percent.
Derived(o, w, now, p) ==
    /\ p.observedAt = o.observedAt /\ p.calculatedAt = now
    /\ p.inputs.remaining \in {Unknown, PaceInputs(w).remaining}
    /\ IF Known(o, PaceInputs(w), now)
       THEN /\ p.reason = Nil
            /\ p.status = KnownPace(o, PaceInputs(w), now).status
            /\ p.timeRemaining = KnownPace(o, PaceInputs(w), now).timeRemaining
            /\ p.reserve = KnownPace(o, PaceInputs(w), now).reserve
       ELSE /\ p.reason # Nil
            /\ p.status = "unknown"
            /\ p.timeRemaining = Nil
            /\ p.reserve = Nil

LEMMA PaceDerived ==
    ASSUME NEW o, NEW w, NEW now, w.unit = "percent"
    PROVE  \E p : DerivePace(o, w, now) = {p} /\ Derived(o, w, now, p)
<1> DEFINE inputs == PaceInputs(w)
           reason == FirstOf(PaceReasons(o, inputs, now))
           usable == o.freshness = "fresh" /\ now >= o.observedAt
           known  == IF reason = Nil
                     THEN KnownPace(o, inputs, now)
                     ELSE [status |-> "unknown", timeRemaining |-> Nil, reserve |-> Nil]
           taken  == IF usable THEN Restrict(inputs, DOMAIN NoInputs) ELSE NoInputs
           p      == [status |-> known.status, reason |-> reason, calculatedAt |-> now,
                      observedAt |-> o.observedAt, inputs |-> taken,
                      timeRemaining |-> known.timeRemaining, reserve |-> known.reserve]
<1>1. DerivePace(o, w, now) = {p}
  BY DEF DerivePace
<1>2. taken.remaining \in {Unknown, inputs.remaining}
  <2>1. NoInputs.remaining = Unknown
    BY DEF NoInputs
  <2>2. "remaining" \in DOMAIN NoInputs
    BY DEF NoInputs
  <2>3. Restrict(inputs, DOMAIN NoInputs).remaining = inputs.remaining
    BY <2>2 DEF Restrict
  <2> QED
    BY <2>1, <2>3
<1>3. reason = Nil <=> Known(o, inputs, now)
  BY ReasonsOfPace
<1>4. /\ p.observedAt = o.observedAt /\ p.calculatedAt = now /\ p.reason = reason
      /\ p.inputs = taken /\ p.status = known.status
      /\ p.timeRemaining = known.timeRemaining /\ p.reserve = known.reserve
  OBVIOUS
<1>5. CASE reason = Nil
  <2>1. known = KnownPace(o, inputs, now)
    BY <1>5
  <2> HIDE DEF reason, known, taken, p
  <2>2. Derived(o, w, now, p)
    BY <1>2, <1>3, <1>4, <1>5, <2>1 DEF Derived
  <2> QED
    BY <1>1, <2>2
<1>6. CASE reason # Nil
  <2>1. known.status = "unknown" /\ known.timeRemaining = Nil /\ known.reserve = Nil
    BY <1>6
  <2> HIDE DEF reason, known, taken, p
  <2>2. Derived(o, w, now, p)
    BY <1>2, <1>3, <1>4, <1>6, <2>1 DEF Derived
  <2> QED
    BY <1>1, <2>2
<1> QED
  BY <1>5, <1>6

LEMMA QuotientIsNatural ==
    ASSUME NEW a \in Nat, NEW b \in Nat \ {0}
    PROVE  a \div b \in Nat
OBVIOUS

LEMMA KnownPaceShape ==
    ASSUME NEW o, NEW w, NEW now \in Int, ShapedWindow(w), o.observedAt \in Int,
           Known(o, PaceInputs(w), now)
    PROVE  /\ KnownPace(o, PaceInputs(w), now).status \in KnownStatuses
           /\ \E n \in Nat : KnownPace(o, PaceInputs(w), now).timeRemaining = {n}
           /\ KnownPace(o, PaceInputs(w), now).reserve # Nil
<1> DEFINE inputs == PaceInputs(w)
<1>1. PICK t \in Int : inputs.resetAt = {t}
  BY InputShapes DEF Known
<1>2. PICK d \in Int : inputs.duration = {d}
  BY InputShapes DEF Known
<1>3. PICK n \in Int : inputs.remaining.amount = {n}
  <2>1. AmountShape(inputs.remaining)
    BY InputShapes, AmountCases
  <2> QED
    BY <2>1 DEF AmountShape, Known
<1>4. t > o.observedAt /\ d > 0
  BY <1>1, <1>2 DEF Known
<1>5. The(inputs.resetAt) = t /\ The(inputs.duration) = d /\ The(inputs.remaining.amount) = n
  BY <1>1, <1>2, <1>3, TheOnly
<1> DEFINE left == t - o.observedAt
           excess == n * d - 100 * left
<1>6. left \in Nat /\ d \in Nat \ {0} /\ excess \in Int
  BY <1>4
<1>7. KnownPace(o, inputs, now) =
         [status |-> PaceStatus(excess, d), timeRemaining |-> {PaceNumber(100 * left, d)},
          reserve |-> {PaceNumber(excess, d)}]
  BY <1>5 DEF KnownPace, TimeLeft
<1> HIDE DEF inputs, left, excess
<1>8. PaceStatus(excess, d) \in KnownStatuses
  <2>1. CASE excess < -d
    BY <1>6, <2>1 DEF PaceStatus, KnownStatuses
  <2>2. CASE excess > d
    BY <1>6, <2>2 DEF PaceStatus, KnownStatuses
  <2>3. CASE excess \in -d..d
    BY <1>6, <2>3 DEF PaceStatus, KnownStatuses
  <2> QED
    BY <1>6, <2>1, <2>2, <2>3
<1>9. PaceNumber(100 * left, d) \in Nat
  <2>1. 2 * (100 * left) * PaceScale + d \in Nat
    BY <1>6 DEF PaceScale
  <2>2. 2 * d \in Nat \ {0}
    BY <1>6
  <2> QED
    BY <2>1, <2>2, QuotientIsNatural DEF PaceNumber
<1> QED
  BY <1>7, <1>8, <1>9 DEF inputs, Nil

LEMMA SameDerivation ==
    ASSUME NEW o1, NEW w1, NEW o2, NEW w2, NEW now,
           o1.observedAt = o2.observedAt, o1.freshness = o2.freshness,
           w1.unit = w2.unit, PaceInputs(w1) = PaceInputs(w2)
    PROVE  DerivePace(o1, w1, now) = DerivePace(o2, w2, now)
<1> DEFINE inputs == PaceInputs(w1)
<1>1. PaceReasons(o1, inputs, now) = PaceReasons(o2, inputs, now)
  BY DEF PaceReasons
<1>2. KnownPace(o1, inputs, now) = KnownPace(o2, inputs, now)
  BY DEF KnownPace, TimeLeft
<1> HIDE DEF inputs
<1> QED
  BY <1>1, <1>2 DEF DerivePace, inputs

LEMMA SameInputs ==
    ASSUME NEW w1, NEW w2, w1.limits = w2.limits
    PROVE  PaceInputs(w1) = PaceInputs(w2)
BY DEF PaceInputs

----------------------------------------------------------------------------
(* Valid observations *)

ValidLimits(w) == \A l \in ToSet(w.limits) : ValidLimit(w, l)

ShapedObservation(o) ==
    /\ o = [provider |-> o.provider, account |-> o.account, observedAt |-> o.observedAt,
            freshness |-> o.freshness, outcome |-> o.outcome, windows |-> o.windows]
    /\ o.account = [lastObserved |-> o.account.lastObserved, binding |-> o.account.binding]
    /\ o.observedAt \in Int
    /\ o.windows = [i \in DOMAIN o.windows |-> o.windows[i]]
    /\ \A i \in DOMAIN o.windows : ShapedWindow(o.windows[i])

\* A pace is missing or as it was derived at some hour.
HonestPace(o, w) == w.pace = Nil \/ \E now \in Int : w.pace = DerivePace(o, w, now)

\* What the program holds: valid, and without a pace.
Evident(o) ==
    /\ ShapedObservation(o)
    /\ Valid(o)
    /\ \A i \in DOMAIN o.windows : o.windows[i].pace = Nil

LEMMA UnknownIsValid == ValidValue(Unknown)
BY DEF ValidValue, Unknown, Nil

LEMMA InputsAreValid ==
    ASSUME NEW w, ShapedWindow(w), ValidLimits(w)
    PROVE  ValidValue(PaceInputs(w).remaining)
<1>1. InputsFrom(w, PaceInputs(w))
  BY PaceInputsOfWindow
<1>2. \A k \in DOMAIN w.limits : ValidValue(w.limits[k].value)
  BY DEF ValidLimits, ValidLimit, ToSet
<1> QED
  BY <1>1, <1>2, UnknownIsValid DEF InputsFrom

LEMMA DerivedIsValid ==
    ASSUME NEW o, NEW w, ShapedWindow(w), ValidLimits(w), o.observedAt \in Int,
           HonestPace(o, w), NEW p \in w.pace
    PROVE  ValidPace(o, w, p)
<1>1. PICK now \in Int : w.pace = DerivePace(o, w, now)
  BY DEF HonestPace, Nil
<1>2. w.unit = "percent"
  BY <1>1 DEF DerivePace, Nil
<1>3. PICK q : DerivePace(o, w, now) = {q} /\ Derived(o, w, now, q)
  BY <1>2, PaceDerived
<1>4. p = q
  BY <1>1, <1>3
<1>5. p.observedAt = o.observedAt /\ p.calculatedAt = now
  BY <1>3, <1>4 DEF Derived
<1>6. ValidValue(p.inputs.remaining)
  <2>1. p.inputs.remaining \in {Unknown, PaceInputs(w).remaining}
    BY <1>3, <1>4 DEF Derived
  <2> QED
    BY <2>1, UnknownIsValid, InputsAreValid
<1>7. CASE Known(o, PaceInputs(w), now)
  <2> DEFINE known == KnownPace(o, PaceInputs(w), now)
  <2>1. /\ p.reason = Nil /\ p.status = known.status
        /\ p.timeRemaining = known.timeRemaining /\ p.reserve = known.reserve
    BY <1>3, <1>4, <1>7 DEF Derived
  <2>2. PICK n \in Nat : known.timeRemaining = {n}
    BY <1>7, KnownPaceShape
  <2>3. known.status \in KnownStatuses /\ known.reserve # Nil
    BY <1>7, KnownPaceShape
  <2> HIDE DEF known
  <2>4. \A t \in p.timeRemaining : t >= 0
    BY <2>1, <2>2
  <2>5. SameKnownPace(p, DerivePace(o, w, p.calculatedAt))
    BY <1>3, <1>4, <1>5, <2>1, <2>3 DEF SameKnownPace
  <2>6. p.status \in {"ahead", "on_pace", "behind"} /\ p.reason = Nil
    BY <2>1, <2>3 DEF KnownStatuses
  <2> QED
    BY <1>5, <1>6, <2>4, <2>5, <2>6 DEF ValidPace
<1>8. CASE ~Known(o, PaceInputs(w), now)
  <2>1. /\ p.reason # Nil /\ p.status = "unknown"
        /\ p.timeRemaining = Nil /\ p.reserve = Nil
    BY <1>3, <1>4, <1>8 DEF Derived
  <2>2. p.status \notin {"ahead", "on_pace", "behind"} /\ p.status \in {"unknown", "not_applicable"}
    BY <2>1
  <2> QED
    BY <1>5, <1>6, <2>1, <2>2 DEF ValidPace
<1> QED
  BY <1>7, <1>8

\* What is left to show of an observation with paces.
LEMMA ValidIf ==
    ASSUME NEW o, o.freshness \in Freshnesses, o.outcome \in Outcomes, o.observedAt \in Int,
           UniqueIds(o.windows), UniqueIds(LimitsOf(o)),
           \A i \in DOMAIN o.windows : /\ ShapedWindow(o.windows[i])
                                       /\ ValidLimits(o.windows[i])
                                       /\ HonestPace(o, o.windows[i])
    PROVE  Valid(o)
<1>1. ASSUME NEW w \in ToSet(o.windows)
      PROVE  /\ \A l \in ToSet(w.limits) : ValidLimit(w, l)
             /\ \A p \in w.pace : ValidPace(o, w, p)
  <2>1. PICK i \in DOMAIN o.windows : w = o.windows[i]
    BY DEF ToSet
  <2> QED
    BY <2>1, DerivedIsValid DEF ValidLimits
<1> QED
  BY <1>1 DEF Valid

LEMMA FlattenPlaces ==
    ASSUME NEW lists
    PROVE  /\ \A i \in DOMAIN lists : \A k \in DOMAIN lists[i] :
                 <<i, k>> \in DOMAIN Flatten(lists) /\ Flatten(lists)[<<i, k>>] = lists[i][k]
           /\ \A p \in DOMAIN Flatten(lists) :
                 \E i \in DOMAIN lists : \E k \in DOMAIN lists[i] : p = <<i, k>>
<1>1. DOMAIN Flatten(lists) = Places(lists)
  BY DEF Flatten
<1>2. ASSUME NEW i \in DOMAIN lists, NEW k \in DOMAIN lists[i]
      PROVE  <<i, k>> \in DOMAIN Flatten(lists) /\ Flatten(lists)[<<i, k>>] = lists[i][k]
  <2>1. <<i, k>> \in Places(lists)
    BY DEF Places
  <2>2. <<i, k>>[1] = i /\ <<i, k>>[2] = k
    OBVIOUS
  <2> QED
    BY <1>1, <2>1, <2>2 DEF Flatten
<1>3. ASSUME NEW p \in Places(lists)
      PROVE  \E i \in DOMAIN lists : \E k \in DOMAIN lists[i] : p = <<i, k>>
  BY DEF Places
<1> QED
  BY <1>1, <1>2, <1>3

LEMMA FlattenedItems ==
    ASSUME NEW lists
    PROVE  \A x : x \in ToSet(Flatten(lists)) <=> \E i \in DOMAIN lists : x \in ToSet(lists[i])
<1>1. ASSUME NEW i \in DOMAIN lists, NEW k \in DOMAIN lists[i]
      PROVE  lists[i][k] \in ToSet(Flatten(lists))
  <2>1. <<i, k>> \in DOMAIN Flatten(lists) /\ Flatten(lists)[<<i, k>>] = lists[i][k]
    BY FlattenPlaces
  <2> HIDE DEF Flatten
  <2> QED
    BY <2>1 DEF ToSet
<1>2. ASSUME NEW p \in DOMAIN Flatten(lists)
      PROVE  \E i \in DOMAIN lists : Flatten(lists)[p] \in ToSet(lists[i])
  <2>1. PICK i \in DOMAIN lists : \E k \in DOMAIN lists[i] : p = <<i, k>>
    BY FlattenPlaces
  <2>2. PICK k \in DOMAIN lists[i] : p = <<i, k>>
    BY <2>1
  <2>3. Flatten(lists)[p] = lists[i][k]
    BY <2>2, FlattenPlaces
  <2> QED
    BY <2>3 DEF ToSet
<1>3. ASSUME NEW x
      PROVE  x \in ToSet(Flatten(lists)) <=> \E i \in DOMAIN lists : x \in ToSet(lists[i])
  <2>1. ASSUME NEW i \in DOMAIN lists, x \in ToSet(lists[i])
        PROVE  x \in ToSet(Flatten(lists))
    BY <1>1, <2>1 DEF ToSet
  <2>2. ASSUME x \in ToSet(Flatten(lists))
        PROVE  \E i \in DOMAIN lists : x \in ToSet(lists[i])
    BY <1>2, <2>2 DEF ToSet
  <2> QED
    BY <2>1, <2>2
<1> QED
  BY <1>3

UniqueLimits(o) ==
    \A i, j \in DOMAIN o.windows :
        \A k \in DOMAIN o.windows[i].limits, l \in DOMAIN o.windows[j].limits :
            o.windows[i].limits[k].id = o.windows[j].limits[l].id => i = j /\ k = l

LEMMA UniqueLimitIds ==
    ASSUME NEW o
    PROVE  UniqueIds(LimitsOf(o)) <=> UniqueLimits(o)
<1> DEFINE lists == [i \in DOMAIN o.windows |-> o.windows[i].limits]
<1>1. LimitsOf(o) = Flatten(lists)
  BY DEF LimitsOf
<1>2. DOMAIN lists = DOMAIN o.windows /\ \A i \in DOMAIN o.windows : lists[i] = o.windows[i].limits
  OBVIOUS
<1> HIDE DEF lists
<1>3. ASSUME UniqueIds(Flatten(lists)) PROVE UniqueLimits(o)
  <2>1. ASSUME NEW i \in DOMAIN lists, NEW j \in DOMAIN lists,
               NEW k \in DOMAIN lists[i], NEW l \in DOMAIN lists[j],
               lists[i][k].id = lists[j][l].id
        PROVE  i = j /\ k = l
    <3>1. Flatten(lists)[<<i, k>>].id = Flatten(lists)[<<j, l>>].id
      BY <2>1, FlattenPlaces
    <3>2. <<i, k>> = <<j, l>>
      BY <1>3, <3>1, FlattenPlaces DEF UniqueIds
    <3> QED
      BY <3>2
  <2> QED
    BY <1>2, <2>1 DEF UniqueLimits
<1>4. ASSUME UniqueLimits(o) PROVE UniqueIds(Flatten(lists))
  <2>1. ASSUME NEW p \in DOMAIN Flatten(lists), NEW q \in DOMAIN Flatten(lists),
               Flatten(lists)[p].id = Flatten(lists)[q].id
        PROVE  p = q
    <3>1. PICK i \in DOMAIN lists : \E k \in DOMAIN lists[i] : p = <<i, k>>
      BY FlattenPlaces
    <3>2. PICK j \in DOMAIN lists : \E l \in DOMAIN lists[j] : q = <<j, l>>
      BY FlattenPlaces
    <3>3. PICK k \in DOMAIN lists[i] : p = <<i, k>>
      BY <3>1
    <3>4. PICK l \in DOMAIN lists[j] : q = <<j, l>>
      BY <3>2
    <3>5. lists[i][k].id = lists[j][l].id
      BY <2>1, <3>3, <3>4, FlattenPlaces
    <3> QED
      BY <1>2, <1>4, <3>3, <3>4, <3>5 DEF UniqueLimits
  <2> QED
    BY <2>1 DEF UniqueIds
<1> QED
  BY <1>1, <1>3, <1>4

----------------------------------------------------------------------------
(* What keeps an observation valid *)

LEMMA ValidParts ==
    ASSUME NEW o, Valid(o)
    PROVE  /\ o.freshness \in Freshnesses /\ o.outcome \in Outcomes
           /\ UniqueIds(o.windows) /\ UniqueLimits(o)
           /\ \A i \in DOMAIN o.windows : ValidLimits(o.windows[i])
<1>1. \A i \in DOMAIN o.windows : o.windows[i] \in ToSet(o.windows)
  BY DEF ToSet
<1> QED
  BY <1>1, UniqueLimitIds DEF Valid, ValidLimits

\* An observation with the same windows, but for their paces.
Repaced(o, r) ==
    /\ ShapedObservation(r)
    /\ r.provider = o.provider
    /\ r.account = o.account
    /\ r.observedAt = o.observedAt
    /\ r.freshness = o.freshness
    /\ r.outcome = o.outcome
    /\ DOMAIN r.windows = DOMAIN o.windows
    /\ \A i \in DOMAIN o.windows :
          /\ r.windows[i].id = o.windows[i].id
          /\ r.windows[i].scope = o.windows[i].scope
          /\ r.windows[i].unit = o.windows[i].unit
          /\ r.windows[i].limits = o.windows[i].limits

LEMMA WithPaceRepaces ==
    ASSUME NEW o, NEW now \in Int, ShapedObservation(o)
    PROVE  /\ Repaced(o, WithPace(o, now))
           /\ \A i \in DOMAIN o.windows :
                 WithPace(o, now).windows[i].pace = DerivePace(o, o.windows[i], now)
<1> DEFINE windows == [i \in DOMAIN o.windows |->
                          [o.windows[i] EXCEPT !.pace = DerivePace(o, o.windows[i], now)]]
           r == WithPace(o, now)
<1>1. r = [o EXCEPT !.windows = windows]
  BY DEF WithPace
<1>2. /\ r = [provider |-> o.provider, account |-> o.account, observedAt |-> o.observedAt,
              freshness |-> o.freshness, outcome |-> o.outcome, windows |-> windows]
      /\ r.windows = windows
  BY <1>1 DEF ShapedObservation
<1>3. ASSUME NEW i \in DOMAIN o.windows
      PROVE  /\ ShapedWindow(windows[i])
             /\ windows[i].id = o.windows[i].id
             /\ windows[i].scope = o.windows[i].scope
             /\ windows[i].unit = o.windows[i].unit
             /\ windows[i].limits = o.windows[i].limits
             /\ windows[i].pace = DerivePace(o, o.windows[i], now)
  <2> DEFINE w == o.windows[i]
             pace == DerivePace(o, w, now)
  <2>1. windows[i] = [w EXCEPT !.pace = pace]
    OBVIOUS
  <2>2. ShapedWindow(w)
    BY DEF ShapedObservation
  <2> HIDE DEF windows, w, pace
  <2>3. windows[i] = [id |-> w.id, scope |-> w.scope, unit |-> w.unit, limits |-> w.limits,
                      pace |-> pace]
    BY <2>1, <2>2 DEF ShapedWindow
  <2> QED
    BY <2>2, <2>3 DEF ShapedWindow, w, pace
<1>4. DOMAIN windows = DOMAIN o.windows /\ windows = [i \in DOMAIN windows |-> windows[i]]
  OBVIOUS
<1> HIDE DEF windows, r
<1>6. ShapedObservation(r)
  BY <1>2, <1>3, <1>4 DEF ShapedObservation
<1> QED
  BY <1>2, <1>3, <1>4, <1>6 DEF Repaced, r

\* WithPace keeps what Observation.Validate accepts: the pace it derives at any hour is
\* the one ValidPace expects, and everything else stays.
THEOREM WithPaceIsValid ==
    ASSUME NEW o, NEW now \in Int, Evident(o)
    PROVE  /\ Valid(WithPace(o, now))
           /\ Repaced(o, WithPace(o, now))
           /\ \A i \in DOMAIN o.windows :
                 WithPace(o, now).windows[i].pace = DerivePace(o, o.windows[i], now)
           /\ \A i \in DOMAIN o.windows :
                 HonestPace(WithPace(o, now), WithPace(o, now).windows[i])
<1> DEFINE r == WithPace(o, now)
<1>1. /\ Repaced(o, r)
      /\ \A i \in DOMAIN o.windows : r.windows[i].pace = DerivePace(o, o.windows[i], now)
  BY WithPaceRepaces DEF Evident
<1> HIDE DEF r
<1>2. ASSUME NEW i \in DOMAIN o.windows
      PROVE  HonestPace(r, r.windows[i])
  <2>1. PaceInputs(r.windows[i]) = PaceInputs(o.windows[i])
    BY <1>1, SameInputs DEF Repaced
  <2>2. DerivePace(r, r.windows[i], now) = DerivePace(o, o.windows[i], now)
    BY <1>1, <2>1, SameDerivation DEF Repaced
  <2> QED
    BY <1>1, <2>2 DEF HonestPace
<1>3. /\ o.freshness \in Freshnesses /\ o.outcome \in Outcomes
      /\ UniqueIds(o.windows) /\ UniqueLimits(o)
      /\ \A i \in DOMAIN o.windows : ValidLimits(o.windows[i])
  BY ValidParts DEF Evident
<1>4. UniqueIds(r.windows)
  BY <1>1, <1>3 DEF UniqueIds, Repaced
<1>5. UniqueLimits(r)
  BY <1>1, <1>3 DEF UniqueLimits, Repaced
<1>6. \A i \in DOMAIN r.windows : ValidLimits(r.windows[i])
  BY <1>1, <1>3 DEF ValidLimits, ValidLimit, Repaced
<1>7. Valid(r)
  BY <1>1, <1>2, <1>3, <1>4, <1>5, <1>6, UniqueLimitIds, ValidIf DEF Repaced, ShapedObservation
<1> QED
  BY <1>1, <1>2, <1>7 DEF r

\* A part of the windows of an observation.
PartOf(o, r) ==
    /\ ShapedObservation(r)
    /\ r.provider = o.provider
    /\ r.account = o.account
    /\ r.observedAt = o.observedAt
    /\ r.freshness = o.freshness
    /\ r.outcome = o.outcome
    /\ DOMAIN r.windows \subseteq DOMAIN o.windows
    /\ \A i \in DOMAIN r.windows : r.windows[i] = o.windows[i]

LEMMA SelectWindowsParts ==
    ASSUME NEW o, NEW c, ShapedObservation(o)
    PROVE  /\ PartOf(o, SelectWindows(o, c))
           /\ DOMAIN SelectWindows(o, c).windows = Matching(o, c)
<1> DEFINE windows == [i \in Matching(o, c) |-> o.windows[i]]
           r == SelectWindows(o, c)
<1>1. Restrict(o.windows, Matching(o, c)) = windows
  BY DEF Restrict
<1>2. r = [o EXCEPT !.windows = windows]
  BY <1>1 DEF SelectWindows
<1>3. /\ r = [provider |-> o.provider, account |-> o.account, observedAt |-> o.observedAt,
              freshness |-> o.freshness, outcome |-> o.outcome, windows |-> windows]
      /\ r.windows = windows
  <2> HIDE DEF windows, r
  <2> QED
    BY <1>2 DEF ShapedObservation
<1>4. /\ DOMAIN windows = Matching(o, c)
      /\ windows = [i \in DOMAIN windows |-> windows[i]]
      /\ \A i \in DOMAIN windows : windows[i] = o.windows[i]
  OBVIOUS
<1>5. Matching(o, c) \subseteq DOMAIN o.windows
  BY DEF Matching
<1> HIDE DEF windows, r
<1>6. ShapedObservation(r)
  BY <1>3, <1>4, <1>5 DEF ShapedObservation
<1> QED
  BY <1>3, <1>4, <1>5, <1>6 DEF PartOf, r

LEMMA PartIsValid ==
    ASSUME NEW o, NEW r, Valid(o), PartOf(o, r),
           \A i \in DOMAIN o.windows : HonestPace(o, o.windows[i])
    PROVE  /\ Valid(r)
           /\ \A i \in DOMAIN r.windows : HonestPace(r, r.windows[i])
<1>1. ASSUME NEW i \in DOMAIN r.windows
      PROVE  HonestPace(r, r.windows[i])
  <2>1. i \in DOMAIN o.windows /\ r.windows[i] = o.windows[i]
    BY DEF PartOf
  <2>2. \A now : DerivePace(r, r.windows[i], now) = DerivePace(o, o.windows[i], now)
    BY <2>1, SameDerivation DEF PartOf
  <2> QED
    BY <2>1, <2>2 DEF HonestPace
<1>2. /\ o.freshness \in Freshnesses /\ o.outcome \in Outcomes
      /\ UniqueIds(o.windows) /\ UniqueLimits(o)
      /\ \A i \in DOMAIN o.windows : ValidLimits(o.windows[i])
  BY ValidParts
<1>3. UniqueIds(r.windows)
  BY <1>2 DEF UniqueIds, PartOf
<1>4. UniqueLimits(r)
  <2> SUFFICES ASSUME NEW i \in DOMAIN r.windows, NEW j \in DOMAIN r.windows,
                      NEW k \in DOMAIN r.windows[i].limits, NEW l \in DOMAIN r.windows[j].limits,
                      r.windows[i].limits[k].id = r.windows[j].limits[l].id
               PROVE  i = j /\ k = l
    BY DEF UniqueLimits
  <2>1. r.windows[i] = o.windows[i] /\ r.windows[j] = o.windows[j]
    BY DEF PartOf
  <2>2. i \in DOMAIN o.windows /\ j \in DOMAIN o.windows
    BY DEF PartOf
  <2> QED
    BY <1>2, <2>1, <2>2 DEF UniqueLimits
<1>5. \A i \in DOMAIN r.windows : ValidLimits(r.windows[i])
  BY <1>2 DEF PartOf
<1>6. Valid(r)
  BY <1>1, <1>2, <1>3, <1>4, <1>5, UniqueLimitIds, ValidIf DEF PartOf, ShapedObservation
<1> QED
  BY <1>1, <1>6

\* The same windows with another freshness or binding.
SameEvidence(o, h) ==
    /\ h.provider = o.provider
    /\ h.account.lastObserved = o.account.lastObserved
    /\ h.account.binding = "mismatch" <=> o.account.binding = "mismatch"
    /\ h.observedAt = o.observedAt
    /\ h.outcome = o.outcome
    /\ h.windows = o.windows

LEMMA AsCachedKeeps ==
    ASSUME NEW o, Evident(o)
    PROVE  /\ Evident(AsCached(o)) /\ SameEvidence(o, AsCached(o))
           /\ AsCached(o).freshness = o.freshness
           /\ Evident(AsStale(o)) /\ SameEvidence(o, AsStale(o))
           /\ AsCached(AsCached(o)) = AsCached(o)
           /\ AsStale(AsCached(o)) = AsStale(o)
           /\ AsCached(AsStale(o)) = AsStale(o)
           /\ AsStale(AsStale(o)) = AsStale(o)
<1> DEFINE Held(binding, freshness) ==
              [provider |-> o.provider,
               account |-> [lastObserved |-> o.account.lastObserved, binding |-> binding],
               observedAt |-> o.observedAt, freshness |-> freshness,
               outcome |-> o.outcome, windows |-> o.windows]
           kept == IF o.account.binding = "verified" THEN "historical" ELSE o.account.binding
<1>1. /\ o = [provider |-> o.provider, account |-> o.account, observedAt |-> o.observedAt,
              freshness |-> o.freshness, outcome |-> o.outcome, windows |-> o.windows]
      /\ o.account = [lastObserved |-> o.account.lastObserved, binding |-> o.account.binding]
  BY DEF Evident, ShapedObservation
<1>2. AsCached(o) = Held(kept, o.freshness)
  BY <1>1 DEF AsCached
<1>3. AsStale(o) = Held(kept, "stale")
  BY <1>2 DEF AsStale
<1>4. ASSUME NEW f, NEW b, b # "verified"
      PROVE  AsCached(Held(b, f)) = Held(b, f) /\ AsStale(Held(b, f)) = Held(b, "stale")
  BY <1>4 DEF AsCached, AsStale
<1>5. kept # "verified" /\ (kept = "mismatch" <=> o.account.binding = "mismatch")
  OBVIOUS
<1>6. ASSUME NEW f \in Freshnesses
      PROVE  Evident(Held(kept, f)) /\ SameEvidence(o, Held(kept, f))
  <2> DEFINE h == Held(kept, f)
  <2>1. /\ h.provider = o.provider /\ h.observedAt = o.observedAt /\ h.outcome = o.outcome
        /\ h.windows = o.windows /\ h.freshness = f
        /\ h.account = [lastObserved |-> o.account.lastObserved, binding |-> kept]
    OBVIOUS
  <2>2. h = [provider |-> h.provider, account |-> h.account, observedAt |-> h.observedAt,
             freshness |-> h.freshness, outcome |-> h.outcome, windows |-> h.windows]
    OBVIOUS
  <2>3. h.account = [lastObserved |-> h.account.lastObserved, binding |-> h.account.binding]
    OBVIOUS
  <2> HIDE DEF h
  <2>4. ShapedObservation(h)
    BY <2>1, <2>2, <2>3 DEF Evident, ShapedObservation
  <2>5. /\ o.outcome \in Outcomes
        /\ UniqueIds(o.windows) /\ UniqueLimits(o)
        /\ \A i \in DOMAIN o.windows : ValidLimits(o.windows[i])
    BY ValidParts DEF Evident
  <2>6. UniqueLimits(h)
    BY <2>1, <2>5 DEF UniqueLimits
  <2>7. \A i \in DOMAIN h.windows : h.windows[i].pace = Nil /\ HonestPace(h, h.windows[i])
    BY <2>1 DEF Evident, HonestPace
  <2>8. Valid(h)
    BY <2>1, <2>4, <2>5, <2>6, <2>7, UniqueLimitIds, ValidIf DEF ShapedObservation
  <2>9. SameEvidence(o, h)
    BY <1>5, <2>1 DEF SameEvidence
  <2> QED
    BY <2>4, <2>7, <2>8, <2>9 DEF Evident, h
<1>7. o.freshness \in Freshnesses /\ "stale" \in Freshnesses
  BY ValidParts DEF Evident, Freshnesses
<1>8. AsCached(o).freshness = o.freshness
  BY <1>2
<1> HIDE DEF Held, kept
<1> QED
  BY <1>2, <1>3, <1>4, <1>5, <1>6, <1>7, <1>8

----------------------------------------------------------------------------
(* A document reads back *)

LEMMA SetToSeqLists ==
    ASSUME NEW S, IsFiniteSet(S)
    PROVE  /\ SetToSeq(S) \in Seq(S)
           /\ ToSet(SetToSeq(S)) = S
           /\ \A i, j \in DOMAIN SetToSeq(S) : SetToSeq(S)[i] = SetToSeq(S)[j] => i = j
<1> DEFINE n == Cardinality(S)
           f == SetToSeq(S)
<1>1. n \in Nat /\ ExistsBijection(1..n, S)
  BY FS_CardinalityType
<1>2. PICK b \in Bijection(1..n, S) : TRUE
  BY <1>1 DEF ExistsBijection
<1>3. b \in [1..n -> S] /\ IsInjective(b)
  BY <1>2 DEF Bijection, Injection
<1>4. f \in [1..n -> S] /\ IsInjective(f)
  BY <1>3 DEF SetToSeq
<1> HIDE DEF f
<1>5. IsFiniteSet(1..n) /\ Cardinality(1..n) = n
  BY <1>1, FS_Interval
<1>6. f \in Injection(1..n, S)
  BY <1>4 DEF Injection
<1>7. f \in Surjection(1..n, S)
  BY <1>5, <1>6, FS_Injection
<1>8. \A x \in S : \E i \in 1..n : f[i] = x
  BY <1>7 DEF Surjection
<1>9. ToSet(f) = S
  BY <1>4, <1>8 DEF ToSet
<1>10. f \in Seq(S)
  BY <1>1, <1>4
<1> QED
  BY <1>4, <1>9, <1>10 DEF f, IsInjective

LEMMA LimitSetIsFinite ==
    ASSUME NEW w, ShapedWindow(w)
    PROVE  IsFiniteSet(ToSet(w.limits))
<1> DEFINE f == w.limits
<1>1. PICK n \in Nat : DOMAIN f = 1..n
  BY LimitsOfWindow
<1>2. f \in [1..n -> ToSet(f)]
  BY <1>1 DEF ShapedWindow, ToSet
<1>3. f \in Surjection(1..n, ToSet(f))
  BY <1>1, <1>2 DEF Surjection, ToSet
<1>4. IsFiniteSet(1..n)
  BY FS_Interval
<1> QED
  BY <1>3, <1>4, FS_Surjection

\* The inputs of a pace when each field comes once, in whatever order.
InputsOf(limits) ==
    LET Has(f) == \E l \in limits : l.field = f
        Of(f) == CHOOSE l \in limits : l.field = f
    IN  [remaining |-> IF Has("remaining") THEN Of("remaining").value ELSE Unknown,
         resetAt |-> IF Has("reset") THEN Of("reset").resetAt ELSE Nil,
         duration |-> IF Has("duration") THEN Of("duration").duration ELSE Nil,
         clear |-> Has("remaining")]

FieldsOnce(w) ==
    \A k, l \in DOMAIN w.limits : w.limits[k].field = w.limits[l].field => k = l

LEMMA InputsOfFields ==
    ASSUME NEW w, ShapedWindow(w), FieldsOnce(w)
    PROVE  PaceInputs(w) = InputsOf(ToSet(w.limits))
<1> DEFINE limits    == w.limits
           At(f)     == {i \in DOMAIN limits : limits[i].field = f}
           Has(f)    == \E l \in ToSet(limits) : l.field = f
           Of(f)     == CHOOSE l \in ToSet(limits) : l.field = f
           remaining == {i \in DOMAIN limits : limits[i].field = "remaining"}
           resets    == {i \in DOMAIN limits : limits[i].resetAt # Nil}
           durations == {i \in DOMAIN limits : limits[i].duration # Nil}
<1>1. PICK n \in Nat : DOMAIN limits = 1..n
  BY LimitsOfWindow
<1>2. \A i \in DOMAIN limits : LimitShape(w.id, limits[i])
  BY LimitsOfWindow
<1>3. remaining = At("remaining") /\ resets = At("reset") /\ durations = At("duration")
  BY <1>2 DEF LimitShape, Nil
<1>4. ASSUME NEW f
      PROVE  /\ At(f) = {} <=> ~Has(f)
             /\ AtMostOne(At(f))
             /\ At(f) # {} => limits[Max(At(f))] = Of(f)
  <2>1. At(f) = {} <=> ~Has(f)
    BY DEF ToSet
  <2>2. AtMostOne(At(f))
    BY DEF AtMostOne, FieldsOnce
  <2>3. ASSUME At(f) # {} PROVE limits[Max(At(f))] = Of(f)
    <3>1. Max(At(f)) \in At(f)
      BY <1>1, <2>3, MaxIsGreatest
    <3>2. \A l \in ToSet(limits) : l.field = f => l = limits[Max(At(f))]
      BY <2>2, <3>1 DEF ToSet, AtMostOne
    <3>3. limits[Max(At(f))] \in ToSet(limits) /\ limits[Max(At(f))].field = f
      BY <3>1 DEF ToSet
    <3> QED
      BY <3>2, <3>3
  <2> QED
    BY <2>1, <2>2, <2>3
<1> DEFINE amount   == IF remaining = {} THEN Unknown ELSE limits[Max(remaining)].value
           resetAt  == IF resets = {} THEN Nil ELSE limits[Max(resets)].resetAt
           duration == IF durations = {} THEN Nil ELSE limits[Max(durations)].duration
           clear    == /\ remaining # {}
                       /\ AtMostOne(remaining) /\ AtMostOne(resets) /\ AtMostOne(durations)
<1>5. /\ PaceInputs(w) = [remaining |-> amount, resetAt |-> resetAt, duration |-> duration,
                          clear |-> clear]
      /\ clear \in BOOLEAN
  BY DEF PaceInputs
<1> DEFINE amountOf   == IF Has("remaining") THEN Of("remaining").value ELSE Unknown
           resetOf    == IF Has("reset") THEN Of("reset").resetAt ELSE Nil
           durationOf == IF Has("duration") THEN Of("duration").duration ELSE Nil
           present    == Has("remaining")
<1>6. /\ InputsOf(ToSet(limits)) = [remaining |-> amountOf, resetAt |-> resetOf,
                                    duration |-> durationOf, clear |-> present]
      /\ present \in BOOLEAN
  BY DEF InputsOf
<1> HIDE DEF remaining, resets, durations, At, Has, Of
<1>7. amount = amountOf /\ resetAt = resetOf /\ duration = durationOf
  BY <1>3, <1>4
<1>8. clear <=> present
  BY <1>3, <1>4
<1> HIDE DEF amount, resetAt, duration, clear, amountOf, resetOf, durationOf, present
<1>9. clear = present
  BY <1>5, <1>6, <1>8
<1> QED
  BY <1>5, <1>6, <1>7, <1>9

\* What a reader has of a window, and what RenderJSON makes of it.
Reordered(w, v) ==
    /\ v = [id |-> w.id, scope |-> w.scope, unit |-> w.unit, limits |-> v.limits, pace |-> w.pace]
    /\ ShapedWindow(v)
    /\ ToSet(v.limits) = ToSet(w.limits)
    /\ \A k, l \in DOMAIN v.limits : v.limits[k] = v.limits[l] => k = l

RenderWindow(w) == [w EXCEPT !.limits = {RenderLimit(l) : l \in ToSet(w.limits)}]
ParseWindow(w) == [w EXCEPT !.limits = SetToSeq({ParseLimit(l) : l \in w.limits})]

LEMMA RenderedWindow ==
    ASSUME NEW w, ShapedWindow(w)
    PROVE  /\ RenderWindow(w) = [id |-> w.id, scope |-> w.scope, unit |-> w.unit,
                                 limits |-> {RenderLimit(l) : l \in ToSet(w.limits)},
                                 pace |-> w.pace]
           /\ {ParseLimit(l) : l \in RenderWindow(w).limits} = ToSet(w.limits)
           /\ Reordered(w, ParseWindow(RenderWindow(w)))
<1> DEFINE rendered == {RenderLimit(l) : l \in ToSet(w.limits)}
           doc == RenderWindow(w)
           parsed == SetToSeq({ParseLimit(l) : l \in doc.limits})
           v == ParseWindow(doc)
<1>1. w = [id |-> w.id, scope |-> w.scope, unit |-> w.unit, limits |-> w.limits, pace |-> w.pace]
  BY DEF ShapedWindow
<1>2. doc = [w EXCEPT !.limits = rendered]
  BY DEF RenderWindow
<1> HIDE DEF rendered, doc
<1>3. doc = [id |-> w.id, scope |-> w.scope, unit |-> w.unit, limits |-> rendered, pace |-> w.pace]
  BY <1>1, <1>2
<1>4. \A l \in ToSet(w.limits) : ParseLimit(RenderLimit(l)) = l
  <2> SUFFICES ASSUME NEW k \in DOMAIN w.limits
               PROVE  ParseLimit(RenderLimit(w.limits[k])) = w.limits[k]
    BY DEF ToSet
  <2> DEFINE l == w.limits[k]
  <2>1. /\ l = [id |-> <<w.id, l.field>>, field |-> l.field, value |-> l.value,
                resetAt |-> l.resetAt, duration |-> l.duration]
        /\ l.value \in Amounts
    BY LimitsOfWindow DEF LimitShape
  <2>2. l.value = [state |-> l.value.state, amount |-> l.value.amount]
    BY <2>1, AmountCases DEF AmountShape
  <2> HIDE DEF l
  <2>3. ParseLimit(RenderLimit(l)) = l
    BY <2>1, <2>2 DEF ParseLimit, RenderLimit
  <2> QED
    BY <2>3 DEF l
<1>5. {ParseLimit(l) : l \in doc.limits} = ToSet(w.limits)
  <2>1. doc.limits = rendered
    BY <1>3
  <2>2. {ParseLimit(l) : l \in rendered} = {ParseLimit(RenderLimit(l)) : l \in ToSet(w.limits)}
    BY DEF rendered
  <2> QED
    BY <1>4, <2>1, <2>2
<1>6. /\ parsed \in Seq(ToSet(w.limits)) /\ ToSet(parsed) = ToSet(w.limits)
      /\ \A k, l \in DOMAIN parsed : parsed[k] = parsed[l] => k = l
  BY <1>5, LimitSetIsFinite, SetToSeqLists
<1>7. ToSet(w.limits) \subseteq Limits(w.id)
  BY DEF ShapedWindow, ToSet
<1>8. v = [doc EXCEPT !.limits = parsed]
  BY DEF ParseWindow
<1> HIDE DEF parsed, v
<1>9. v = [id |-> w.id, scope |-> w.scope, unit |-> w.unit, limits |-> parsed, pace |-> w.pace]
  BY <1>3, <1>8
<1>10. parsed \in Seq(Limits(w.id))
  BY <1>6, <1>7
<1>11. Reordered(w, v)
  BY <1>6, <1>9, <1>10 DEF Reordered, ShapedWindow
<1> QED
  BY <1>3, <1>5, <1>11 DEF doc, rendered, v

Document(r) == [r EXCEPT !.windows = {RenderWindow(w) : w \in ToSet(r.windows)}]
Parsed(d) == [d EXCEPT !.windows = [w \in d.windows |-> ParseWindow(w)]]

LEMMA RenderAndParse ==
    ASSUME NEW r, NEW d
    PROVE  /\ RenderJSON(r) = IF Valid(r) THEN {Document(r)} ELSE Nil
           /\ ParseJSON(d) = IF Valid(Parsed(d)) THEN {Parsed(d)} ELSE Nil
BY DEF RenderJSON, ParseJSON, Document, Parsed, RenderWindow, ParseWindow

LEMMA DocumentShape ==
    ASSUME NEW r, ShapedObservation(r)
    PROVE  /\ Document(r) = [provider |-> r.provider, account |-> r.account,
                             observedAt |-> r.observedAt, freshness |-> r.freshness,
                             outcome |-> r.outcome,
                             windows |-> {RenderWindow(w) : w \in ToSet(r.windows)}]
           /\ \A x : x \in Document(r).windows <=>
                        \E i \in DOMAIN r.windows : x = RenderWindow(r.windows[i])
<1> DEFINE windows == {RenderWindow(w) : w \in ToSet(r.windows)}
<1>1. \A x : x \in windows <=> \E i \in DOMAIN r.windows : x = RenderWindow(r.windows[i])
  BY DEF ToSet
<1>2. Document(r) = [r EXCEPT !.windows = windows]
  BY DEF Document
<1> HIDE DEF windows
<1>3. Document(r) = [provider |-> r.provider, account |-> r.account,
                     observedAt |-> r.observedAt, freshness |-> r.freshness,
                     outcome |-> r.outcome, windows |-> windows]
  BY <1>2 DEF ShapedObservation
<1>4. Document(r).windows = windows
  BY <1>3
<1>5. \A x : x \in Document(r).windows <=>
                \E i \in DOMAIN r.windows : x = RenderWindow(r.windows[i])
  BY <1>1, <1>4
<1> QED
  BY <1>3, <1>5 DEF windows

LEMMA FieldsComeOnce ==
    ASSUME NEW o, ShapedObservation(o), UniqueLimits(o), NEW i \in DOMAIN o.windows
    PROVE  FieldsOnce(o.windows[i])
<1> DEFINE w == o.windows[i]
<1>1. \A k \in DOMAIN w.limits : w.limits[k].id = <<w.id, w.limits[k].field>>
  <2>1. ShapedWindow(w)
    BY DEF ShapedObservation
  <2> HIDE DEF w
  <2>2. \A k \in DOMAIN w.limits : LimitShape(w.id, w.limits[k])
    BY <2>1, LimitsOfWindow
  <2> QED
    BY <2>2, LimitName
<1>2. \A k, l \in DOMAIN w.limits : w.limits[k].id = w.limits[l].id => k = l
  BY DEF UniqueLimits
<1> HIDE DEF w
<1>3. FieldsOnce(w)
  BY <1>1, <1>2 DEF FieldsOnce
<1> QED
  BY <1>3 DEF w

\* A reordered window has the same pace.
LEMMA ReorderedInputs ==
    ASSUME NEW w, NEW v, ShapedWindow(w), FieldsOnce(w), Reordered(w, v)
    PROVE  FieldsOnce(v) /\ PaceInputs(v) = PaceInputs(w)
<1>1. FieldsOnce(v)
  <2> SUFFICES ASSUME NEW k \in DOMAIN v.limits, NEW l \in DOMAIN v.limits,
                      v.limits[k].field = v.limits[l].field
               PROVE  k = l
    BY DEF FieldsOnce
  <2>1. v.limits[k] \in ToSet(w.limits) /\ v.limits[l] \in ToSet(w.limits)
    BY DEF Reordered, ToSet
  <2>2. v.limits[k] = v.limits[l]
    BY <2>1 DEF FieldsOnce, ToSet
  <2> QED
    BY <2>2 DEF Reordered
<1>2. PaceInputs(w) = InputsOf(ToSet(w.limits)) /\ PaceInputs(v) = InputsOf(ToSet(v.limits))
  BY <1>1, InputsOfFields DEF Reordered
<1>3. ToSet(v.limits) = ToSet(w.limits)
  BY DEF Reordered
<1> QED
  BY <1>1, <1>2, <1>3

\* ParseJSON after RenderJSON: the document of a valid observation is accepted, and
\* rendering what was read gives the same document.
THEOREM DocumentReadsBack ==
    ASSUME NEW r, ShapedObservation(r), Valid(r),
           \A i \in DOMAIN r.windows : HonestPace(r, r.windows[i])
    PROVE  ParseJSON(Document(r)) # Nil /\ \A p \in ParseJSON(Document(r)) : RenderJSON(p) = {Document(r)}
<1> DEFINE d == Document(r)
           p == Parsed(d)
           At(i) == RenderWindow(r.windows[i])
<1>1. /\ d = [provider |-> r.provider, account |-> r.account, observedAt |-> r.observedAt,
              freshness |-> r.freshness, outcome |-> r.outcome, windows |-> d.windows]
      /\ \A x : x \in d.windows <=> \E i \in DOMAIN r.windows : x = At(i)
  BY DocumentShape
<1> DEFINE windows == [w \in d.windows |-> ParseWindow(w)]
<1>2. p = [d EXCEPT !.windows = windows]
  BY DEF Parsed
<1>3. DOMAIN windows = d.windows /\ windows = [w \in DOMAIN windows |-> windows[w]]
  OBVIOUS
<1>4. \A i \in DOMAIN r.windows :
          /\ At(i) \in d.windows
          /\ Reordered(r.windows[i], windows[At(i)])
  <2> TAKE i \in DOMAIN r.windows
  <2>1. At(i) \in d.windows
    BY <1>1
  <2>2. windows[At(i)] = ParseWindow(At(i))
    BY <2>1
  <2> HIDE DEF windows, d
  <2> QED
    BY <2>1, <2>2, RenderedWindow DEF ShapedObservation
<1> HIDE DEF windows, d, p
<1>5. p = [provider |-> r.provider, account |-> r.account, observedAt |-> r.observedAt,
           freshness |-> r.freshness, outcome |-> r.outcome, windows |-> windows]
  BY <1>1, <1>2
<1>6. /\ p.provider = r.provider /\ p.account = r.account /\ p.observedAt = r.observedAt
      /\ p.freshness = r.freshness /\ p.outcome = r.outcome /\ p.windows = windows
      /\ p = [provider |-> p.provider, account |-> p.account, observedAt |-> p.observedAt,
              freshness |-> p.freshness, outcome |-> p.outcome, windows |-> p.windows]
  BY <1>5
<1>7. \A x \in DOMAIN windows : \E i \in DOMAIN r.windows : x = At(i)
  BY <1>1, <1>3
<1> HIDE DEF At
<1>8. /\ r.freshness \in Freshnesses /\ r.outcome \in Outcomes
      /\ UniqueIds(r.windows) /\ UniqueLimits(r)
      /\ \A i \in DOMAIN r.windows : ValidLimits(r.windows[i])
  BY ValidParts
<1>9. ShapedObservation(p)
  <2>1. \A x \in DOMAIN windows : ShapedWindow(windows[x])
    BY <1>4, <1>7 DEF Reordered
  <2>2. p.account = [lastObserved |-> p.account.lastObserved, binding |-> p.account.binding]
    BY <1>6 DEF ShapedObservation
  <2> QED
    BY <1>3, <1>6, <2>1, <2>2 DEF ShapedObservation
<1>10. UniqueIds(p.windows)
  <2> SUFFICES ASSUME NEW x \in DOMAIN windows, NEW y \in DOMAIN windows,
                      windows[x].id = windows[y].id
               PROVE  x = y
    BY <1>6 DEF UniqueIds
  <2>1. PICK i \in DOMAIN r.windows : x = At(i)
    BY <1>7
  <2>2. PICK j \in DOMAIN r.windows : y = At(j)
    BY <1>7
  <2>3. windows[x].id = r.windows[i].id /\ windows[y].id = r.windows[j].id
    <3>1. Reordered(r.windows[i], windows[x]) /\ Reordered(r.windows[j], windows[y])
      BY <1>4, <2>1, <2>2
    <3>2. \A w, v : Reordered(w, v) => v.id = w.id
      BY DEF Reordered
    <3> QED
      BY <3>1, <3>2
  <2> QED
    BY <1>8, <2>1, <2>2, <2>3 DEF UniqueIds
<1>11. UniqueLimits(p)
  <2> SUFFICES ASSUME NEW x \in DOMAIN windows, NEW y \in DOMAIN windows,
                      NEW k \in DOMAIN windows[x].limits, NEW l \in DOMAIN windows[y].limits,
                      windows[x].limits[k].id = windows[y].limits[l].id
               PROVE  x = y /\ k = l
    BY <1>6 DEF UniqueLimits
  <2>1. PICK i \in DOMAIN r.windows : x = At(i)
    BY <1>7
  <2>2. PICK j \in DOMAIN r.windows : y = At(j)
    BY <1>7
  <2>3. Reordered(r.windows[i], windows[x]) /\ Reordered(r.windows[j], windows[y])
    BY <1>4, <2>1, <2>2
  <2>4. PICK m \in DOMAIN r.windows[i].limits : windows[x].limits[k] = r.windows[i].limits[m]
    BY <2>3 DEF Reordered, ToSet
  <2>5. PICK n \in DOMAIN r.windows[j].limits : windows[y].limits[l] = r.windows[j].limits[n]
    BY <2>3 DEF Reordered, ToSet
  <2>6. i = j /\ m = n
    BY <1>8, <2>4, <2>5 DEF UniqueLimits
  <2> QED
    BY <2>1, <2>2, <2>3, <2>4, <2>5, <2>6 DEF Reordered
<1>12. ASSUME NEW x \in DOMAIN windows
       PROVE  ValidLimits(windows[x]) /\ HonestPace(p, windows[x])
  <2>1. PICK i \in DOMAIN r.windows : x = At(i)
    BY <1>7
  <2> DEFINE w == r.windows[i]
             v == windows[x]
  <2>2. Reordered(w, v) /\ ShapedWindow(w)
    BY <1>4, <2>1 DEF ShapedObservation
  <2>3. FieldsOnce(w) /\ ValidLimits(w) /\ HonestPace(r, w)
    BY <1>8, FieldsComeOnce
  <2> HIDE DEF w, v
  <2>4. PaceInputs(v) = PaceInputs(w)
    BY <2>2, <2>3, ReorderedInputs
  <2>5. v.unit = w.unit /\ v.pace = w.pace /\ ToSet(v.limits) = ToSet(w.limits)
    BY <2>2 DEF Reordered
  <2>6. \A now : DerivePace(p, v, now) = DerivePace(r, w, now)
    BY <1>6, <2>4, <2>5, SameDerivation
  <2>7. HonestPace(p, v)
    BY <2>3, <2>5, <2>6 DEF HonestPace
  <2>8. ValidLimits(v)
    BY <2>3, <2>5 DEF ValidLimits, ValidLimit
  <2> QED
    BY <2>7, <2>8 DEF v
<1>13. Valid(p)
  BY <1>6, <1>8, <1>9, <1>10, <1>11, <1>12, UniqueLimitIds, ValidIf DEF ShapedObservation
<1>14. Document(p) = d
  <2>1. ASSUME NEW i \in DOMAIN r.windows
        PROVE  RenderWindow(windows[At(i)]) = At(i)
    <3> DEFINE w == r.windows[i]
               v == windows[At(i)]
    <3>1. Reordered(w, v) /\ ShapedWindow(w)
      BY <1>4 DEF ShapedObservation
    <3> HIDE DEF w, v
    <3>2. /\ v.id = w.id /\ v.scope = w.scope /\ v.unit = w.unit /\ v.pace = w.pace
          /\ ToSet(v.limits) = ToSet(w.limits) /\ ShapedWindow(v)
      BY <3>1 DEF Reordered
    <3>3. RenderWindow(v) = RenderWindow(w)
      BY <3>1, <3>2, RenderedWindow
    <3> QED
      BY <3>3 DEF w, v, At
  <2>2. \A x : x \in Document(p).windows <=>
                  \E y \in DOMAIN windows : x = RenderWindow(windows[y])
    BY <1>6, <1>9, DocumentShape
  <2>3. \A x : x \in Document(p).windows <=> \E i \in DOMAIN r.windows : x = At(i)
    BY <1>3, <1>4, <1>7, <2>1, <2>2
  <2>4. \A x : x \in d.windows <=> \E i \in DOMAIN r.windows : x = At(i)
    BY <1>1 DEF At
  <2>5. Document(p).windows = d.windows
    BY <2>3, <2>4
  <2>6. Document(p) = [provider |-> r.provider, account |-> r.account,
                       observedAt |-> r.observedAt, freshness |-> r.freshness,
                       outcome |-> r.outcome, windows |-> Document(p).windows]
    <3>1. Document(p) = [provider |-> p.provider, account |-> p.account,
                         observedAt |-> p.observedAt, freshness |-> p.freshness,
                         outcome |-> p.outcome,
                         windows |-> {RenderWindow(w) : w \in ToSet(p.windows)}]
      BY <1>9, DocumentShape
    <3> QED
      BY <1>6, <3>1
  <2> QED
    BY <1>1, <2>5, <2>6
<1>15. ParseJSON(d) = {p} /\ RenderJSON(p) = {d}
  BY <1>13, <1>14, RenderAndParse DEF p
<1> QED
  BY <1>15 DEF d, Nil

----------------------------------------------------------------------------
(* The report *)

\* What a paced part of the evidence has; r is WithPace or a part of it.
Presentable(r) ==
    /\ ShapedObservation(r)
    /\ Valid(r)
    /\ \A i \in DOMAIN r.windows : HonestPace(r, r.windows[i])

LEMMA EvidentIsPresentable ==
    ASSUME NEW o, Evident(o)
    PROVE  Presentable(o)
BY DEF Evident, Presentable, HonestPace

LEMMA WithPaceIsPresentable ==
    ASSUME NEW o, NEW now \in Int, Evident(o)
    PROVE  Presentable(WithPace(o, now))
<1>1. Valid(WithPace(o, now)) /\ Repaced(o, WithPace(o, now))
  BY WithPaceIsValid
<1>2. \A i \in DOMAIN o.windows : HonestPace(WithPace(o, now), WithPace(o, now).windows[i])
  BY WithPaceIsValid
<1> HIDE DEF WithPace
<1> QED
  BY <1>1, <1>2 DEF Presentable, Repaced

LEMMA SelectionIsPresentable ==
    ASSUME NEW r, NEW c, Presentable(r)
    PROVE  Presentable(SelectWindows(r, c)) /\ PartOf(r, SelectWindows(r, c))
<1>1. PartOf(r, SelectWindows(r, c))
  BY SelectWindowsParts DEF Presentable
<1> QED
  BY <1>1, PartIsValid DEF Presentable, PartOf

LEMMA SameMatches ==
    ASSUME NEW o, NEW r, NEW c, Repaced(o, r)
    PROVE  Matching(r, c) = Matching(o, c)
BY DEF Repaced, Matching, Selected

Compact(s, now) ==
    [age |-> IF now < s.observedAt THEN 0 ELSE now - s.observedAt,
     observedAt |-> s.observedAt, freshness |-> s.freshness, outcome |-> s.outcome,
     account |-> s.account,
     windows |-> {[w EXCEPT !.limits = {FormatLimit(l) : l \in ToSet(w.limits)}] :
                     w \in ToSet(s.windows)}]

RefusalNames ==
    {"unavailable", "stale", "no_match", "wrong_account", "selection", "ambiguous", "undefined",
     "usage"}

\* Why there is no report; none of it is about the hour.
Unreported(o, c) ==
    \/ o.outcome = "unavailable"
    \/ c.freshness = "fresh" /\ o.freshness # "fresh"
    \/ AccountDiffers(o, c.account)
    \/ Matching(o, c) = {} /\ (c.window # Nil \/ c.scope # Nil)

Printed(s, c, now) ==
    [document |-> IF c.format = "json" THEN {Document(s)} ELSE Nil,
     compact |-> IF c.format = "compact" THEN {Compact(s, now)} ELSE Nil,
     text |-> Nil, error |-> PartialError(s)]

\* What runReport answers about the evidence.
Reported(o, c, now, r) ==
    IF Unreported(o, c) THEN \E e \in RefusalNames : r = Refusal({e})
    ELSE r = Printed(SelectWindows(WithPace(o, now), c), c, now)

LEMMA FirstOfTwo ==
    ASSUME NEW table, DOMAIN table = 1..2
    PROVE  FirstOf(table) = IF table[1][2] THEN {table[1][1]}
                            ELSE IF table[2][2] THEN {table[2][1]} ELSE Nil
<1>1. FirstRow(table, FirstOf(table))
  BY FirstOfTable
<1>2. 1 \in DOMAIN table /\ 2 \in DOMAIN table /\ \A i \in DOMAIN table : i = 1 \/ i = 2
  OBVIOUS
<1> QED
  BY <1>1, <1>2 DEF FirstRow

LEMMA FirstOfFour ==
    ASSUME NEW table, DOMAIN table = 1..4
    PROVE  FirstOf(table) = IF table[1][2] THEN {table[1][1]}
                            ELSE IF table[2][2] THEN {table[2][1]}
                            ELSE IF table[3][2] THEN {table[3][1]}
                            ELSE IF table[4][2] THEN {table[4][1]} ELSE Nil
<1>1. FirstRow(table, FirstOf(table))
  BY FirstOfTable
<1>2. /\ 1 \in DOMAIN table /\ 2 \in DOMAIN table /\ 3 \in DOMAIN table /\ 4 \in DOMAIN table
      /\ \A i \in DOMAIN table : i = 1 \/ i = 2 \/ i = 3 \/ i = 4
  OBVIOUS
<1> QED
  BY <1>1, <1>2 DEF FirstRow

LEMMA ForRequestAnswer ==
    ASSUME NEW r, NEW c, Presentable(r), c.provider = r.provider
    PROVE  LET none == Matching(r, c) = {} /\ (c.window # Nil \/ c.scope # Nil)
           IN  /\ ForRequest(r, c).error =
                      IF AccountDiffers(r, c.account) THEN {"wrong_account"}
                      ELSE IF none THEN {"no_match"} ELSE Nil
               /\ ForRequest(r, c).error = Nil => ForRequest(r, c).evidence = {SelectWindows(r, c)}
<1> DEFINE table == << <<"invalid", ~Valid(r)>>,
                       <<"no_match", c.provider \notin {"", r.provider}>>,
                       <<"wrong_account", AccountDiffers(r, c.account)>>,
                       <<"no_match", /\ Matching(r, c) = {}
                                     /\ c.window # Nil \/ c.scope # Nil>> >>
<1>1. DOMAIN table = 1..4
  OBVIOUS
<1>2. /\ table[1][1] = "invalid" /\ table[2][1] = "no_match"
      /\ table[3][1] = "wrong_account" /\ table[4][1] = "no_match"
      /\ table[1][2] <=> ~Valid(r)
      /\ table[2][2] <=> c.provider \notin {"", r.provider}
      /\ table[3][2] <=> AccountDiffers(r, c.account)
      /\ table[4][2] <=> Matching(r, c) = {} /\ (c.window # Nil \/ c.scope # Nil)
  OBVIOUS
<1>3. /\ ForRequest(r, c).error = FirstOf(table)
      /\ ForRequest(r, c).evidence = IF FirstOf(table) = Nil THEN {SelectWindows(r, c)} ELSE Nil
  BY DEF ForRequest
<1> HIDE DEF table
<1>4. ~table[1][2] /\ ~table[2][2]
  BY <1>2 DEF Presentable
<1>5. FirstOf(table) = IF table[3][2] THEN {"wrong_account"}
                       ELSE IF table[4][2] THEN {"no_match"} ELSE Nil
  BY <1>1, <1>2, <1>4, FirstOfFour
<1> QED
  BY <1>2, <1>3, <1>5

LEMMA ReportAnswer ==
    ASSUME NEW o, NEW c, NEW now \in Int, Evident(o),
           c.provider = o.provider, c.format \in {"json", "compact"}
    PROVE  Reported(o, c, now, Report(o, c, now))
<1> DEFINE r == WithPace(o, now)
           s == SelectWindows(r, c)
           selection == ForRequest(r, c)
           first == FirstOf(<< <<"unavailable", o.outcome = "unavailable">>,
                               <<"stale", c.freshness = "fresh" /\ o.freshness # "fresh">> >>)
           selected == The(selection.evidence)
           document == IF c.format = "json" THEN RenderJSON(selected) ELSE Nil
           compact == IF c.format = "compact" THEN RenderCompact(selected, now) ELSE Nil
<1>1. Presentable(r) /\ Repaced(o, r)
  BY WithPaceIsPresentable, WithPaceIsValid
<1>2. first = IF o.outcome = "unavailable" THEN {"unavailable"}
              ELSE IF c.freshness = "fresh" /\ o.freshness # "fresh" THEN {"stale"} ELSE Nil
  <2> DEFINE table == << <<"unavailable", o.outcome = "unavailable">>,
                         <<"stale", c.freshness = "fresh" /\ o.freshness # "fresh">> >>
  <2>1. DOMAIN table = 1..2
    OBVIOUS
  <2>2. /\ table[1][1] = "unavailable" /\ table[2][1] = "stale"
        /\ table[1][2] <=> o.outcome = "unavailable"
        /\ table[2][2] <=> c.freshness = "fresh" /\ o.freshness # "fresh"
    OBVIOUS
  <2> HIDE DEF table
  <2>3. FirstOf(table) = IF table[1][2] THEN {table[1][1]}
                         ELSE IF table[2][2] THEN {table[2][1]} ELSE Nil
    BY <2>1, FirstOfTwo
  <2> QED
    BY <2>2, <2>3 DEF table
<1>3. /\ selection.error =
             IF AccountDiffers(r, c.account) THEN {"wrong_account"}
             ELSE IF Matching(r, c) = {} /\ (c.window # Nil \/ c.scope # Nil) THEN {"no_match"}
             ELSE Nil
      /\ selection.error = Nil => selection.evidence = {s}
  BY <1>1, ForRequestAnswer DEF Repaced
<1>4. AccountDiffers(r, c.account) <=> AccountDiffers(o, c.account)
  BY <1>1 DEF Repaced, AccountDiffers
<1>5. Matching(r, c) = Matching(o, c)
  BY <1>1, SameMatches
<1>6. Presentable(s) /\ PartOf(r, s)
  BY <1>1, SelectionIsPresentable
<1>7. Report(o, c, now) =
         CASE first # Nil -> Refusal(first)
           [] first = Nil /\ selection.error # Nil -> Refusal(selection.error)
           [] first = Nil /\ selection.error = Nil ->
                 [Silence EXCEPT !.document = document, !.compact = compact,
                     !.error = IF document \cup compact = Nil THEN {"invalid"}
                               ELSE PartialError(selected)]
  BY DEF Report
<1> HIDE DEF r, s, selection, first, document, compact
<1>8. CASE first # Nil
  <2>1. Unreported(o, c) /\ first \in {{"unavailable"}, {"stale"}}
    BY <1>2, <1>8 DEF Unreported
  <2>2. Report(o, c, now) = Refusal(first)
    BY <1>7, <1>8
  <2> QED
    BY <2>1, <2>2 DEF Reported, RefusalNames
<1>9. CASE first = Nil /\ selection.error # Nil
  <2>1. Unreported(o, c) /\ selection.error \in {{"wrong_account"}, {"no_match"}}
    BY <1>3, <1>4, <1>5, <1>9 DEF Unreported
  <2>2. Report(o, c, now) = Refusal(selection.error)
    BY <1>7, <1>9
  <2> QED
    BY <2>1, <2>2 DEF Reported, RefusalNames
<1>10. CASE first = Nil /\ selection.error = Nil
  <2>1. ~Unreported(o, c)
    BY <1>2, <1>3, <1>4, <1>5, <1>10 DEF Unreported, Nil
  <2>2. selected = s
    BY <1>3, <1>10, TheOnly
  <2>3. document = IF c.format = "json" THEN {Document(s)} ELSE Nil
    BY <1>6, <2>2, RenderAndParse DEF document, Presentable
  <2>4. compact = IF c.format = "compact" THEN {Compact(s, now)} ELSE Nil
    BY <1>6, <2>2 DEF compact, Presentable, RenderCompact, Compact
  <2>5. document \cup compact # Nil
    BY <2>3, <2>4 DEF Nil
  <2>6. Report(o, c, now) = [Silence EXCEPT !.document = document, !.compact = compact,
                                !.error = PartialError(s)]
    BY <1>7, <1>10, <2>2, <2>5
  <2>7. Report(o, c, now) = Printed(s, c, now)
    BY <2>3, <2>4, <2>6 DEF Silence, Printed
  <2> QED
    BY <2>1, <2>7 DEF Reported, s, r
<1> QED
  BY <1>8, <1>9, <1>10

----------------------------------------------------------------------------
(* The value command *)

\* The place of each candidate, when the request is not about a pace.
LimitCandidates(a, c) ==
    /\ \A x \in DOMAIN Candidates(a, c) :
          \E i \in Matching(a, c) : \E k \in DOMAIN a.windows[i].limits :
              /\ x = <<i, k>>
              /\ a.windows[i].limits[k].field = c.field
              /\ Candidates(a, c)[x] = LimitText(a.windows[i].limits[k])
    /\ \A i \in Matching(a, c) : \A k \in DOMAIN a.windows[i].limits :
          a.windows[i].limits[k].field = c.field =>
              /\ <<i, k>> \in DOMAIN Candidates(a, c)
              /\ Candidates(a, c)[<<i, k>>] = LimitText(a.windows[i].limits[k])

LEMMA CandidatesOfLimits ==
    ASSUME NEW a, NEW c, ShapedObservation(a), c.field # "pace"
    PROVE  LimitCandidates(a, c)
<1> DEFINE s == SelectWindows(a, c)
           lists == [i \in DOMAIN s.windows |-> s.windows[i].limits]
           limits == Flatten(lists)
           cand == [p \in {q \in DOMAIN limits : limits[q].field = c.field} |-> LimitText(limits[p])]
<1>1. Candidates(a, c) = cand
  BY DEF Candidates, LimitsOf
<1>2. DOMAIN s.windows = Matching(a, c) /\ \A i \in Matching(a, c) : s.windows[i] = a.windows[i]
  BY SelectWindowsParts DEF PartOf
<1> HIDE DEF s
<1>3. DOMAIN lists = Matching(a, c) /\ \A i \in Matching(a, c) : lists[i] = a.windows[i].limits
  BY <1>2
<1> HIDE DEF lists
<1>4. /\ \A i \in DOMAIN lists : \A k \in DOMAIN lists[i] :
            <<i, k>> \in DOMAIN limits /\ limits[<<i, k>>] = lists[i][k]
      /\ \A p \in DOMAIN limits : \E i \in DOMAIN lists : \E k \in DOMAIN lists[i] : p = <<i, k>>
  BY FlattenPlaces
<1>5. /\ DOMAIN cand = {q \in DOMAIN limits : limits[q].field = c.field}
      /\ \A p \in DOMAIN cand : cand[p] = LimitText(limits[p])
  OBVIOUS
<1> HIDE DEF limits, cand
<1>6. ASSUME NEW x \in DOMAIN cand
      PROVE  \E i \in Matching(a, c) : \E k \in DOMAIN a.windows[i].limits :
                /\ x = <<i, k>>
                /\ a.windows[i].limits[k].field = c.field
                /\ cand[x] = LimitText(a.windows[i].limits[k])
  <2>1. x \in DOMAIN limits /\ limits[x].field = c.field
    BY <1>5
  <2>2. PICK i \in DOMAIN lists : \E k \in DOMAIN lists[i] : x = <<i, k>>
    BY <1>4, <2>1
  <2>3. PICK k \in DOMAIN lists[i] : x = <<i, k>>
    BY <2>2
  <2>4. limits[x] = a.windows[i].limits[k]
    BY <1>3, <1>4, <2>3
  <2>5. cand[x] = LimitText(a.windows[i].limits[k])
    BY <1>5, <2>4
  <2>6. i \in Matching(a, c) /\ k \in DOMAIN a.windows[i].limits
    BY <1>3
  <2>7. a.windows[i].limits[k].field = c.field
    BY <2>1, <2>4
  <2> QED
    BY <2>3, <2>5, <2>6, <2>7
<1>7. ASSUME NEW i \in Matching(a, c), NEW k \in DOMAIN a.windows[i].limits,
             a.windows[i].limits[k].field = c.field
      PROVE  /\ <<i, k>> \in DOMAIN cand
             /\ cand[<<i, k>>] = LimitText(a.windows[i].limits[k])
  <2>1. <<i, k>> \in DOMAIN limits /\ limits[<<i, k>>] = a.windows[i].limits[k]
    BY <1>3, <1>4
  <2> QED
    BY <1>5, <1>7, <2>1
<1> QED
  BY <1>1, <1>6, <1>7 DEF LimitCandidates

LEMMA CandidatesOfPaces ==
    ASSUME NEW a, NEW c, ShapedObservation(a), c.field = "pace"
    PROVE  /\ DOMAIN Candidates(a, c) = Matching(a, c)
           /\ \A i \in Matching(a, c) : Candidates(a, c)[i] = PaceText(a.windows[i].pace)
<1> DEFINE s == SelectWindows(a, c)
<1>1. Candidates(a, c) = [i \in DOMAIN s.windows |-> PaceText(s.windows[i].pace)]
  BY DEF Candidates
<1>2. DOMAIN s.windows = Matching(a, c) /\ \A i \in Matching(a, c) : s.windows[i] = a.windows[i]
  BY SelectWindowsParts DEF PartOf
<1> HIDE DEF s
<1> QED
  BY <1>1, <1>2

LEMMA SameCandidates ==
    ASSUME NEW o, NEW r, NEW c, ShapedObservation(o), Repaced(o, r), c.field # "pace"
    PROVE  Candidates(r, c) = Candidates(o, c)
<1> DEFINE s == SelectWindows(o, c)
           t == SelectWindows(r, c)
<1>1. /\ DOMAIN s.windows = Matching(o, c) /\ \A i \in Matching(o, c) : s.windows[i] = o.windows[i]
      /\ DOMAIN t.windows = Matching(r, c) /\ \A i \in Matching(r, c) : t.windows[i] = r.windows[i]
  BY SelectWindowsParts DEF PartOf, Repaced
<1>2. Matching(r, c) = Matching(o, c)
  BY SameMatches
<1>7. \A i \in Matching(o, c) : i \in DOMAIN o.windows
  BY DEF Matching
<1> HIDE DEF s, t
<1>3. DOMAIN t.windows = DOMAIN s.windows
  BY <1>1, <1>2
<1>4. \A i \in DOMAIN s.windows : t.windows[i].limits = s.windows[i].limits
  BY <1>1, <1>2, <1>7 DEF Repaced
<1>5. [i \in DOMAIN t.windows |-> t.windows[i].limits] = [i \in DOMAIN s.windows |-> s.windows[i].limits]
  BY <1>3, <1>4
<1>6. LimitsOf(t) = LimitsOf(s)
  BY <1>5 DEF LimitsOf
<1> QED
  BY <1>6 DEF Candidates, s, t

LEMMA ExactWindow ==
    ASSUME NEW a, NEW c, Presentable(a), c.window # Nil
    PROVE  \A i, j \in Matching(a, c) : i = j
<1> SUFFICES ASSUME NEW i \in Matching(a, c), NEW j \in Matching(a, c)
             PROVE  i = j
  OBVIOUS
<1>1. c.window = {a.windows[i].id} /\ c.window = {a.windows[j].id}
  BY DEF Matching, Selected
<1>2. a.windows[i].id = a.windows[j].id
  BY <1>1
<1>3. UniqueIds(a.windows)
  BY ValidParts DEF Presentable
<1> QED
  BY <1>2, <1>3 DEF UniqueIds, Matching

LEMMA ExactSelectors ==
    ASSUME NEW a, NEW c, Presentable(a), c.window # Nil
    PROVE  AtMostOne(DOMAIN Candidates(a, c))
<1>1. CASE c.field = "pace"
  BY <1>1, CandidatesOfPaces, ExactWindow DEF Presentable, AtMostOne
<1>2. CASE c.field # "pace"
  <2> SUFFICES ASSUME NEW x \in DOMAIN Candidates(a, c), NEW y \in DOMAIN Candidates(a, c)
               PROVE  x = y
    BY DEF AtMostOne
  <2>1. LimitCandidates(a, c)
    BY <1>2, CandidatesOfLimits DEF Presentable
  <2>2. PICK i \in Matching(a, c) : \E k \in DOMAIN a.windows[i].limits :
                x = <<i, k>> /\ a.windows[i].limits[k].field = c.field
    BY <2>1 DEF LimitCandidates
  <2>3. PICK k \in DOMAIN a.windows[i].limits :
                x = <<i, k>> /\ a.windows[i].limits[k].field = c.field
    BY <2>2
  <2>4. PICK j \in Matching(a, c) : \E l \in DOMAIN a.windows[j].limits :
                y = <<j, l>> /\ a.windows[j].limits[l].field = c.field
    BY <2>1 DEF LimitCandidates
  <2>5. PICK l \in DOMAIN a.windows[j].limits :
                y = <<j, l>> /\ a.windows[j].limits[l].field = c.field
    BY <2>4
  <2>6. i = j
    BY ExactWindow
  <2>7. FieldsOnce(a.windows[i])
    BY FieldsComeOnce, ValidParts DEF Presentable, Matching
  <2>8. k = l
    BY <2>3, <2>5, <2>6, <2>7 DEF FieldsOnce
  <2> QED
    BY <2>3, <2>5, <2>6, <2>8
<1> QED
  BY <1>1, <1>2

\* What SelectValue gives for exact selectors.
Chosen(a, c, selection) ==
    LET candidates == Candidates(a, c)
    IN  \/ /\ selection.error \in {{"stale"}, {"wrong_account"}}
        \/ /\ selection.error = {"no_match"}
           /\ DOMAIN candidates = {}
        \/ \E x \in DOMAIN candidates :
              /\ DOMAIN candidates = {x}
              /\ \/ selection.error = {"undefined"} /\ candidates[x] = Nil
                 \/ /\ selection.error = Nil /\ candidates[x] # Nil
                    /\ selection.text = candidates[x]

Exact(c) == c.window # Nil /\ c.field # ""

LEMMA EightRows ==
    ASSUME NEW r1, NEW r2, NEW r3, NEW r4, NEW r5, NEW r6, NEW r7, NEW r8
    PROVE  LET table == <<r1, r2, r3, r4, r5, r6, r7, r8>>
           IN  /\ DOMAIN table = 1..8
               /\ table[1] = r1 /\ table[2] = r2 /\ table[3] = r3 /\ table[4] = r4
               /\ table[5] = r5 /\ table[6] = r6 /\ table[7] = r7 /\ table[8] = r8
OBVIOUS

LEMMA SelectValueAnswer ==
    ASSUME NEW a, NEW c, Presentable(a), c.provider = a.provider, c.provider \in Providers,
           Exact(c)
    PROVE  Chosen(a, c, SelectValue(a, c, c.freshness))
<1> DEFINE cand == Candidates(a, c)
           row1 == <<"invalid", ~Valid(a)>>
           row2 == <<"selection", c.provider = "" \/ c.field = "">>
           row3 == <<"no_match", c.provider # a.provider>>
           row4 == <<"stale", c.freshness = "fresh" /\ a.freshness # "fresh">>
           row5 == <<"wrong_account", AccountDiffers(a, c.account)>>
           row6 == <<"no_match", DOMAIN cand = {}>>
           row7 == <<"ambiguous", ~AtMostOne(DOMAIN cand)>>
           row8 == <<"undefined", ToSet(cand) = {Nil}>>
           table == <<row1, row2, row3, row4, row5, row6, row7, row8>>
           selection == SelectValue(a, c, c.freshness)
<1>2. /\ row4[1] = "stale" /\ row5[1] = "wrong_account" /\ row6[1] = "no_match"
      /\ row8[1] = "undefined"
      /\ row1[2] <=> ~Valid(a)
      /\ row2[2] <=> (c.provider = "" \/ c.field = "")
      /\ row3[2] <=> c.provider # a.provider
      /\ row6[2] <=> DOMAIN cand = {}
      /\ row7[2] <=> ~AtMostOne(DOMAIN cand)
      /\ row8[2] <=> ToSet(cand) = {Nil}
  OBVIOUS
<1>3. /\ selection.error = FirstOf(table)
      /\ selection.text = IF FirstOf(table) = Nil THEN The(ToSet(cand)) ELSE Nil
  BY DEF SelectValue
<1>4. AtMostOne(DOMAIN cand)
  BY ExactSelectors DEF Exact
<1>5. DOMAIN cand # {} => \E x \in DOMAIN cand : DOMAIN cand = {x}
  BY <1>4 DEF AtMostOne
<1>6. ASSUME NEW x \in DOMAIN cand, DOMAIN cand = {x}
      PROVE  ToSet(cand) = {cand[x]} /\ The(ToSet(cand)) = cand[x]
  <2>1. ToSet(cand) = {cand[x]}
    BY <1>6 DEF ToSet
  <2> QED
    BY <2>1, TheOnly
<1> HIDE DEF row1, row2, row3, row4, row5, row6, row7, row8, cand, selection
<1>1. /\ DOMAIN table = 1..8
      /\ table[1] = row1 /\ table[2] = row2 /\ table[3] = row3 /\ table[4] = row4
      /\ table[5] = row5 /\ table[6] = row6 /\ table[7] = row7 /\ table[8] = row8
  BY EightRows
<1> HIDE DEF table
<1>12. DOMAIN table = 1..8
  BY <1>1
<1>11. 6 \in DOMAIN table /\ 8 \in DOMAIN table
  BY <1>12
<1>7. FirstRow(table, FirstOf(table))
  <2>1. DOMAIN table \subseteq Nat
    BY <1>12
  <2> QED
    BY <2>1, FirstOfTable
<1>8. ~row1[2] /\ ~row2[2] /\ ~row3[2] /\ ~row7[2]
  <2>1. c.provider # ""
    BY DEF Providers
  <2>2. ~row2[2]
    BY <1>2, <2>1 DEF Exact
  <2> QED
    BY <1>2, <1>4, <2>2 DEF Presentable
<1>9. CASE FirstOf(table) = Nil
  <2>1. ~row6[2] /\ ~row8[2]
    BY <1>1, <1>11, <1>7, <1>9 DEF FirstRow, Nil
  <2>2. PICK x \in DOMAIN cand : DOMAIN cand = {x}
    BY <1>2, <1>5, <2>1
  <2>3. cand[x] # Nil /\ selection.text = cand[x] /\ selection.error = Nil
    BY <1>2, <1>3, <1>6, <1>9, <2>1, <2>2
  <2> QED
    BY <2>2, <2>3 DEF Chosen, cand, selection
<1>10. CASE FirstOf(table) # Nil
  <2>1. PICK i \in DOMAIN table : /\ FirstOf(table) = {table[i][1]}
                                  /\ table[i][2]
                                  /\ \A j \in DOMAIN table : table[j][2] => i <= j
    BY <1>7, <1>10 DEF FirstRow
  <2>2. i \in {4, 5, 6, 8}
    <3>1. i \in 1..8
      BY <1>12
    <3>2. i # 1
      BY <1>1, <1>8, <2>1
    <3>3. i # 2
      BY <1>1, <1>8, <2>1
    <3>4. i # 3
      BY <1>1, <1>8, <2>1
    <3>5. i # 7
      BY <1>1, <1>8, <2>1
    <3> QED
      BY <3>1, <3>2, <3>3, <3>4, <3>5
  <2>3. CASE i \in {4, 5}
    <3>1. selection.error \in {{"stale"}, {"wrong_account"}}
      BY <1>1, <1>2, <1>3, <2>1, <2>3
    <3> QED
      BY <3>1 DEF Chosen, selection
  <2>4. CASE i = 6
    <3>1. selection.error = {"no_match"} /\ DOMAIN cand = {}
      BY <1>1, <1>2, <1>3, <2>1, <2>4
    <3> QED
      BY <3>1 DEF Chosen, cand, selection
  <2>5. CASE i = 8
    <3>1. selection.error = {"undefined"}
      BY <1>1, <1>2, <1>3, <2>1, <2>5
    <3>2. ~row6[2]
      <4>1. table[6][2] => 8 <= 6
        BY <1>11, <2>1, <2>5
      <4> QED
        BY <4>1, <1>1
    <3>3. PICK x \in DOMAIN cand : DOMAIN cand = {x}
      BY <1>2, <1>5, <3>2
    <3>4. cand[x] = Nil
      BY <1>1, <1>2, <1>6, <2>1, <2>5, <3>3
    <3> QED
      BY <3>1, <3>3, <3>4 DEF Chosen, cand, selection
  <2> QED
    BY <2>2, <2>3, <2>4, <2>5
<1> QED
  BY <1>9, <1>10

----------------------------------------------------------------------------
(* What the value command and a report say is the same *)

\* A text and what a reader of the report finds in its place.
SaysTheSame(text, readings) ==
    IF text = Nil THEN readings \subseteq Undefined ELSE readings = text

LEMMA LimitReads ==
    ASSUME NEW id, NEW l, LimitShape(id, l)
    PROVE  SaysTheSame(LimitText(l), {Reading(RenderLimit(l))})
<1> DEFINE m == RenderLimit(l)
<1>1. /\ m.state = l.value.state /\ m.amount = l.value.amount
      /\ m.resetAt = l.resetAt /\ m.duration = l.duration
  BY DEF RenderLimit
<1> HIDE DEF m
<1>2. CASE l.field = "reset"
  <2>1. PICK t \in Int : l.resetAt = {t}
    BY <1>2 DEF LimitShape
  <2>2. LimitText(l) = {<<"time", t>>}
    BY <1>2, <2>1 DEF LimitText
  <2>3. Reading(m) = <<"time", t>>
    BY <1>1, <2>1, TheOnly DEF Reading, Nil
  <2> QED
    BY <2>2, <2>3 DEF SaysTheSame, Nil, m
<1>3. CASE l.field = "duration"
  <2>1. PICK d \in Int : l.duration = {d}
    BY <1>3 DEF LimitShape
  <2>2. l.resetAt = Nil
    BY <1>3 DEF LimitShape
  <2>3. LimitText(l) = {<<"duration", d>>}
    BY <1>3, <2>1 DEF LimitText
  <2>4. Reading(m) = <<"duration", d>>
    BY <1>1, <2>1, <2>2, TheOnly DEF Reading, Nil
  <2> QED
    BY <2>3, <2>4 DEF SaysTheSame, Nil, m
<1>4. CASE l.field # "reset" /\ l.field # "duration"
  <2> DEFINE state == l.value.state
             amount == l.value.amount
  <2>1. l.resetAt = Nil /\ l.duration = Nil
    BY <1>4 DEF LimitShape
  <2>2. AmountShape(l.value)
    BY AmountCases DEF LimitShape
  <2>3. LimitText(l) = {<<"amount", a>> : a \in amount}
                       \cup {<<"state", "unlimited">> : u \in {state} \cap {"unlimited"}}
    BY <1>4 DEF LimitText
  <2>4. m.state = state /\ m.amount = amount /\ m.resetAt = Nil /\ m.duration = Nil
    BY <1>1, <2>1
  <2>5. \/ amount = Nil /\ state \in {"unknown", "unlimited", "not_applicable"}
        \/ \E n \in Int : amount = {n} /\ state # "unlimited"
    BY <2>2 DEF AmountShape
  <2> HIDE DEF state, amount
  <2>6. CASE amount = Nil
    <3>1. Reading(m) = <<"state", state>>
      BY <2>4, <2>6 DEF Reading
    <3>2. CASE state = "unlimited"
      <4>1. LimitText(l) = {<<"state", "unlimited">>}
        BY <2>3, <2>6, <3>2 DEF Nil
      <4> QED
        BY <3>1, <3>2, <4>1 DEF SaysTheSame, Nil, m
    <3>3. CASE state # "unlimited"
      <4>1. LimitText(l) = Nil
        BY <2>3, <2>6, <3>3 DEF Nil
      <4>2. state \in {"unknown", "not_applicable"}
        BY <2>5, <2>6, <3>3 DEF Nil
      <4>3. Reading(m) \in Undefined
        BY <3>1, <4>2 DEF Undefined
      <4> QED
        BY <4>1, <4>3 DEF SaysTheSame, m
    <3> QED
      BY <3>2, <3>3
  <2>7. CASE amount # Nil
    <3>1. PICK n \in Int : amount = {n} /\ state # "unlimited"
      BY <2>5, <2>7
    <3>2. LimitText(l) = {<<"amount", n>>}
      BY <2>3, <3>1
    <3>3. Reading(m) = <<"amount", n>>
      BY <2>4, <2>7, <3>1, TheOnly DEF Reading
    <3> QED
      BY <3>2, <3>3 DEF SaysTheSame, Nil, m
  <2> QED
    BY <2>6, <2>7
<1> QED
  BY <1>2, <1>3, <1>4

LEMMA HonestStatus ==
    ASSUME NEW o, NEW w, ShapedWindow(w), o.observedAt \in Int, HonestPace(o, w)
    PROVE  \/ w.pace = Nil
           \/ \E p : w.pace = {p} /\ p.status \in KnownStatuses \cup {"unknown"}
<1> SUFFICES ASSUME w.pace # Nil
             PROVE  \E p : w.pace = {p} /\ p.status \in KnownStatuses \cup {"unknown"}
  OBVIOUS
<1>1. PICK now \in Int : w.pace = DerivePace(o, w, now)
  BY DEF HonestPace
<1>2. w.unit = "percent"
  BY <1>1 DEF DerivePace
<1>3. PICK p : DerivePace(o, w, now) = {p} /\ Derived(o, w, now, p)
  BY <1>2, PaceDerived
<1>4. p.status \in KnownStatuses \cup {"unknown"}
  <2>1. CASE Known(o, PaceInputs(w), now)
    BY <1>3, <2>1, KnownPaceShape DEF Derived
  <2>2. CASE ~Known(o, PaceInputs(w), now)
    BY <1>3, <2>2 DEF Derived
  <2> QED
    BY <2>1, <2>2
<1> QED
  BY <1>1, <1>3, <1>4

LEMMA PaceReads ==
    ASSUME NEW o, NEW w, ShapedWindow(w), o.observedAt \in Int, HonestPace(o, w)
    PROVE  SaysTheSame(PaceText(w.pace), {<<"pace", p.status>> : p \in w.pace})
<1>1. CASE w.pace = Nil
  BY <1>1 DEF PaceText, SaysTheSame, Nil
<1>2. CASE w.pace # Nil
  <2>1. PICK p : w.pace = {p} /\ p.status \in KnownStatuses \cup {"unknown"}
    BY <1>2, HonestStatus
  <2>2. {<<"pace", q.status>> : q \in w.pace} = {<<"pace", p.status>>}
    BY <2>1
  <2>3. CASE p.status = "unknown"
    <3>1. PaceText(w.pace) = Nil
      BY <2>1, <2>3 DEF PaceText, Nil
    <3> QED
      BY <2>2, <2>3, <3>1 DEF SaysTheSame, Undefined
  <2>4. CASE p.status \in KnownStatuses
    <3>1. {q \in w.pace : q.status \notin {"unknown", "not_applicable"}} = {p}
      BY <2>1, <2>4 DEF KnownStatuses
    <3>2. PaceText(w.pace) = {<<"pace", p.status>>}
      BY <3>1 DEF PaceText
    <3> QED
      BY <2>2, <3>2 DEF SaysTheSame, Nil
  <2> QED
    BY <2>1, <2>3, <2>4
<1> QED
  BY <1>1, <1>2

\* The readings of a report where the value command has candidates.
ReadsAs(readings, candidates) ==
    /\ DOMAIN candidates = {} => readings = Nil
    /\ \A x : DOMAIN candidates = {x} => SaysTheSame(candidates[x], readings)

LEMMA SelectedInDocument ==
    ASSUME NEW r, NEW c, ShapedObservation(r)
    PROVE  \A x : x \in {w \in Document(r).windows : Selected(w, c)} <=>
                    \E i \in Matching(r, c) : x = RenderWindow(r.windows[i])
<1>1. \A i \in DOMAIN r.windows :
          Selected(RenderWindow(r.windows[i]), c) <=> Selected(r.windows[i], c)
  <2> SUFFICES ASSUME NEW i \in DOMAIN r.windows
               PROVE  Selected(RenderWindow(r.windows[i]), c) <=> Selected(r.windows[i], c)
    OBVIOUS
  <2> DEFINE w == r.windows[i]
             d == RenderWindow(w)
  <2>1. d = [id |-> w.id, scope |-> w.scope, unit |-> w.unit,
             limits |-> {RenderLimit(l) : l \in ToSet(w.limits)}, pace |-> w.pace]
    BY RenderedWindow DEF ShapedObservation
  <2> HIDE DEF d
  <2>2. d.id = w.id /\ d.scope = w.scope
    BY <2>1
  <2> QED
    BY <2>2 DEF Selected, d
<1> QED
  BY <1>1, DocumentShape DEF Matching

LEMMA ReadingsOfPaces ==
    ASSUME NEW r, NEW c, Presentable(r), c.field = "pace"
    PROVE  ReadsAs(Readings(Document(r), c), Candidates(r, c))
<1> DEFINE windows == {w \in Document(r).windows : Selected(w, c)}
           readings == {<<"pace", p.status>> : p \in UNION {w.pace : w \in windows}}
<1>1. Readings(Document(r), c) = readings
  BY DEF Readings
<1>2. \A x : x \in windows <=> \E i \in Matching(r, c) : x = RenderWindow(r.windows[i])
  BY SelectedInDocument DEF Presentable
<1>3. \A i \in Matching(r, c) : RenderWindow(r.windows[i]).pace = r.windows[i].pace
  BY RenderedWindow DEF Presentable, ShapedObservation, Matching
<1>4. /\ DOMAIN Candidates(r, c) = Matching(r, c)
      /\ \A i \in Matching(r, c) : Candidates(r, c)[i] = PaceText(r.windows[i].pace)
  BY CandidatesOfPaces DEF Presentable
<1> HIDE DEF windows
<1>5. ASSUME Matching(r, c) = {}
      PROVE  readings = Nil
  BY <1>2, <1>5 DEF Nil
<1>6. ASSUME NEW i, Matching(r, c) = {i}
      PROVE  SaysTheSame(PaceText(r.windows[i].pace), readings)
  <2>1. windows = {RenderWindow(r.windows[i])}
    BY <1>2, <1>6
  <2>2. readings = {<<"pace", p.status>> : p \in r.windows[i].pace}
    BY <1>3, <1>6, <2>1
  <2>3. i \in DOMAIN r.windows
    BY <1>6 DEF Matching
  <2>4. SaysTheSame(PaceText(r.windows[i].pace), {<<"pace", p.status>> : p \in r.windows[i].pace})
    BY <2>3, PaceReads DEF Presentable, ShapedObservation
  <2> QED
    BY <2>2, <2>4
<1> QED
  BY <1>1, <1>4, <1>5, <1>6 DEF ReadsAs

LEMMA ReadingsOfLimits ==
    ASSUME NEW r, NEW c, Presentable(r), c.field # "pace"
    PROVE  ReadsAs(Readings(Document(r), c), Candidates(r, c))
<1> DEFINE windows == {w \in Document(r).windows : Selected(w, c)}
           rendered == {k \in UNION {w.limits : w \in windows} : k.field = c.field}
           readings == {Reading(l) : l \in rendered}
<1>1. Readings(Document(r), c) = readings
  BY DEF Readings
<1>2. \A x : x \in windows <=> \E i \in Matching(r, c) : x = RenderWindow(r.windows[i])
  BY SelectedInDocument DEF Presentable
<1>3. \A i \in Matching(r, c) : /\ i \in DOMAIN r.windows
                                /\ ShapedWindow(r.windows[i])
                                /\ RenderWindow(r.windows[i]).limits =
                                      {RenderLimit(l) : l \in ToSet(r.windows[i].limits)}
  BY RenderedWindow DEF Presentable, ShapedObservation, Matching
<1>4. LimitCandidates(r, c)
  BY CandidatesOfLimits DEF Presentable
<1>5. \A l : RenderLimit(l).field = l.field
  BY DEF RenderLimit
<1> HIDE DEF windows
<1>6. \A m : m \in rendered =>
          \E i \in Matching(r, c) : \E k \in DOMAIN r.windows[i].limits :
              /\ m = RenderLimit(r.windows[i].limits[k])
              /\ r.windows[i].limits[k].field = c.field
  <2> SUFFICES ASSUME NEW m \in rendered
               PROVE  \E i \in Matching(r, c) : \E k \in DOMAIN r.windows[i].limits :
                          /\ m = RenderLimit(r.windows[i].limits[k])
                          /\ r.windows[i].limits[k].field = c.field
    OBVIOUS
  <2>1. PICK w \in windows : m \in w.limits /\ m.field = c.field
    OBVIOUS
  <2>2. PICK i \in Matching(r, c) : w = RenderWindow(r.windows[i])
    BY <1>2
  <2>3. PICK l \in ToSet(r.windows[i].limits) : m = RenderLimit(l)
    BY <1>3, <2>1, <2>2
  <2>4. PICK k \in DOMAIN r.windows[i].limits : l = r.windows[i].limits[k]
    BY <2>3 DEF ToSet
  <2> QED
    BY <1>5, <2>1, <2>3, <2>4
<1>7. \A i \in Matching(r, c) : \A k \in DOMAIN r.windows[i].limits :
          r.windows[i].limits[k].field = c.field => RenderLimit(r.windows[i].limits[k]) \in rendered
  <2> SUFFICES ASSUME NEW i \in Matching(r, c), NEW k \in DOMAIN r.windows[i].limits,
                      r.windows[i].limits[k].field = c.field
               PROVE  RenderLimit(r.windows[i].limits[k]) \in rendered
    OBVIOUS
  <2>1. r.windows[i].limits[k] \in ToSet(r.windows[i].limits)
    BY DEF ToSet
  <2>2. RenderLimit(r.windows[i].limits[k]) \in RenderWindow(r.windows[i]).limits
    BY <1>3, <2>1
  <2>3. RenderWindow(r.windows[i]) \in windows
    BY <1>2
  <2> QED
    BY <1>5, <2>2, <2>3
<1> HIDE DEF rendered
<1>8. ASSUME DOMAIN Candidates(r, c) = {}
      PROVE  readings = Nil
  <2>1. rendered = {}
    BY <1>4, <1>6, <1>8 DEF LimitCandidates
  <2> QED
    BY <2>1 DEF Nil
<1>9. ASSUME NEW x, DOMAIN Candidates(r, c) = {x}
      PROVE  SaysTheSame(Candidates(r, c)[x], readings)
  <2>1. PICK i \in Matching(r, c) : \E k \in DOMAIN r.windows[i].limits :
            /\ x = <<i, k>>
            /\ r.windows[i].limits[k].field = c.field
            /\ Candidates(r, c)[x] = LimitText(r.windows[i].limits[k])
    BY <1>4, <1>9 DEF LimitCandidates
  <2>2. PICK k \in DOMAIN r.windows[i].limits :
            /\ x = <<i, k>>
            /\ r.windows[i].limits[k].field = c.field
            /\ Candidates(r, c)[x] = LimitText(r.windows[i].limits[k])
    BY <2>1
  <2> DEFINE l == r.windows[i].limits[k]
  <2>3. ASSUME NEW m \in rendered
        PROVE  m = RenderLimit(l)
    <3>1. PICK j \in Matching(r, c) : \E h \in DOMAIN r.windows[j].limits :
              /\ m = RenderLimit(r.windows[j].limits[h])
              /\ r.windows[j].limits[h].field = c.field
      BY <1>6
    <3>2. PICK h \in DOMAIN r.windows[j].limits :
              /\ m = RenderLimit(r.windows[j].limits[h])
              /\ r.windows[j].limits[h].field = c.field
      BY <3>1
    <3>3. <<j, h>> \in DOMAIN Candidates(r, c)
      BY <1>4, <3>2 DEF LimitCandidates
    <3>4. <<j, h>> = <<i, k>>
      BY <1>9, <2>2, <3>3
    <3> QED
      BY <3>2, <3>4
  <2>4. rendered = {RenderLimit(l)}
    BY <1>7, <2>2, <2>3
  <2>5. readings = {Reading(RenderLimit(l))}
    BY <2>4
  <2>6. LimitShape(r.windows[i].id, l)
    BY <1>3, LimitsOfWindow
  <2> QED
    BY <2>2, <2>5, <2>6, LimitReads
<1> QED
  BY <1>1, <1>8, <1>9 DEF ReadsAs

\* What the value command answers about the evidence with paces.
Valued(o, c, now, r) ==
    LET readings == Readings(Document(WithPace(o, now)), c)
    IN  \/ /\ \E e \in RefusalNames \ {"no_match", "undefined", "ambiguous"} : r = Refusal({e})
        \/ r = Refusal({"no_match"}) /\ readings = Nil
        \/ r = Refusal({"undefined"}) /\ readings \subseteq Undefined
        \/ /\ readings # Nil
           /\ r = [Silence EXCEPT !.text = readings, !.error = PartialError(o)]

LEMMA ValueAnswer ==
    ASSUME NEW o, NEW c, NEW now \in Int, Evident(o),
           c.provider = o.provider, c.provider \in Providers, Exact(c)
    PROVE  Valued(o, c, now, Value(o, c, now))
<1> DEFINE p == WithPace(o, now)
           asked == IF c.field = "pace" THEN p ELSE o
           selection == SelectValue(asked, c, c.freshness)
           readings == Readings(Document(p), c)
<1>1. Presentable(p) /\ Repaced(o, p) /\ Presentable(o)
  BY WithPaceIsPresentable, WithPaceIsValid, EvidentIsPresentable
<1>2. Presentable(asked) /\ asked.provider = o.provider /\ asked.outcome = o.outcome
  BY <1>1 DEF Repaced
<1>3. Candidates(asked, c) = Candidates(p, c)
  BY <1>1, SameCandidates DEF Presentable
<1>4. ReadsAs(readings, Candidates(asked, c))
  BY <1>1, <1>3, ReadingsOfPaces, ReadingsOfLimits
<1>5. Chosen(asked, c, selection)
  BY <1>2, SelectValueAnswer
<1>6. Value(o, c, now) =
        CASE o.outcome = "unavailable" -> Refusal({"unavailable"})
          [] o.outcome # "unavailable" /\ selection.error # Nil -> Refusal(selection.error)
          [] o.outcome # "unavailable" /\ selection.error = Nil ->
                [Silence EXCEPT !.text = selection.text, !.error = PartialError(asked)]
  BY DEF Value
<1>7. PartialError(asked) = PartialError(o)
  BY <1>2 DEF PartialError
<1> HIDE DEF p, asked, selection, readings
<1>8. CASE o.outcome = "unavailable"
  BY <1>6, <1>8 DEF Valued, RefusalNames
<1>9. CASE o.outcome # "unavailable" /\ selection.error \in {{"stale"}, {"wrong_account"}}
  <2>1. Value(o, c, now) = Refusal(selection.error)
    BY <1>6, <1>9 DEF Nil
  <2> QED
    BY <1>9, <2>1 DEF Valued, RefusalNames
<1>10. CASE o.outcome # "unavailable" /\ selection.error = {"no_match"} /\ DOMAIN Candidates(asked, c) = {}
  <2>1. Value(o, c, now) = Refusal({"no_match"})
    BY <1>6, <1>10 DEF Nil
  <2>2. readings = Nil
    BY <1>4, <1>10 DEF ReadsAs
  <2> QED
    BY <2>1, <2>2 DEF Valued, readings, p
<1>11. ASSUME NEW x \in DOMAIN Candidates(asked, c), DOMAIN Candidates(asked, c) = {x},
              o.outcome # "unavailable",
              selection.error = {"undefined"}, Candidates(asked, c)[x] = Nil
       PROVE  Valued(o, c, now, Value(o, c, now))
  <2>1. Value(o, c, now) = Refusal({"undefined"})
    BY <1>6, <1>11 DEF Nil
  <2>2. readings \subseteq Undefined
    BY <1>4, <1>11 DEF ReadsAs, SaysTheSame
  <2> QED
    BY <2>1, <2>2 DEF Valued, readings, p
<1>12. ASSUME NEW x \in DOMAIN Candidates(asked, c), DOMAIN Candidates(asked, c) = {x},
              o.outcome # "unavailable",
              selection.error = Nil, Candidates(asked, c)[x] # Nil,
              selection.text = Candidates(asked, c)[x]
       PROVE  Valued(o, c, now, Value(o, c, now))
  <2>1. Value(o, c, now) = [Silence EXCEPT !.text = selection.text, !.error = PartialError(o)]
    BY <1>6, <1>7, <1>12
  <2>2. readings = selection.text
    BY <1>4, <1>12 DEF ReadsAs, SaysTheSame
  <2> QED
    BY <1>12, <2>1, <2>2 DEF Valued, readings, p
<1> QED
  BY <1>5, <1>8, <1>9, <1>10, <1>11, <1>12 DEF Chosen

----------------------------------------------------------------------------
(* What a normalization puts together *)

IntPointer(p) == p = Nil \/ \E n \in Int : p = {n}

LEMMA IntPointers ==
    ASSUME NEW p \in Pointers(Int)
    PROVE  IntPointer(p)
BY PointerCases DEF IntPointer

LEMMA NumberIsAmount ==
    /\ \A n \in Int : Number(n) \in Amounts
    /\ \A p : IntPointer(p) => OptionalNumber(p) \in Amounts
    /\ Unknown \in Amounts /\ Unlimited \in Amounts /\ NotApplicable \in Amounts
<1>1. \A n \in Int : Number(n) \in Amounts
  BY DEF Amounts
<1>2. ASSUME NEW p, IntPointer(p)
      PROVE  OptionalNumber(p) \in Amounts
  <2>1. CASE p = Nil
    BY <2>1 DEF OptionalNumber, Amounts
  <2>2. CASE p # Nil
    <3>1. PICK n \in Int : p = {n}
      BY <1>2, <2>2 DEF IntPointer
    <3>2. OptionalNumber(p) = Number(n)
      BY <2>2, <3>1, TheOnly DEF OptionalNumber
    <3> QED
      BY <1>1, <3>2
  <2> QED
    BY <2>1, <2>2
<1> QED
  BY <1>1, <1>2 DEF Amounts

LEMMA LimitIsOne ==
    ASSUME NEW id, NEW f \in {"used", "remaining", "limit"}, NEW v \in Amounts
    PROVE  Limit(id, f, v) \in Limits(id)
BY DEF Limits

LEMMA TimeLimits ==
    ASSUME NEW id, NEW p, IntPointer(p)
    PROVE  /\ ResetLimits(id, p) \in Seq(Limits(id))
           /\ DurationLimits(id, p) \in Seq(Limits(id))
<1>1. CASE p = Nil
  BY <1>1 DEF ResetLimits, DurationLimits
<1>2. CASE p # Nil
  <2>1. PICK n \in Int : p = {n}
    BY <1>2 DEF IntPointer
  <2> DEFINE r == Limit(id, "reset", Unknown)
             d == Limit(id, "duration", Unknown)
             reset == [r EXCEPT !.resetAt = p]
             duration == [d EXCEPT !.duration = p]
             values == {Limit(id, f, v) : f \in {"used", "remaining", "limit"}, v \in Amounts}
             resets == {[r EXCEPT !.resetAt = {t}] : t \in Int}
             durations == {[d EXCEPT !.duration = {t}] : t \in Int}
  <2>2. reset \in Limits(id) /\ duration \in Limits(id)
    <3>1. Limits(id) = values \cup resets \cup durations
      BY DEF Limits
    <3> HIDE DEF r, d, values
    <3>2. reset \in resets
      BY <2>1
    <3>3. duration \in durations
      BY <2>1
    <3> HIDE DEF reset, duration, resets, durations
    <3> QED
      BY <3>1, <3>2, <3>3
  <2>3. ResetLimits(id, p) = <<reset>> /\ DurationLimits(id, p) = <<duration>>
    BY <1>2 DEF ResetLimits, DurationLimits
  <2> HIDE DEF reset, duration
  <2> QED
    BY <2>2, <2>3
<1> QED
  BY <1>1, <1>2

\* A window as a normalization makes it, without a pace.
Plain(w) == ShapedWindow(w) /\ w.pace = Nil

LEMMA PlainWindow ==
    ASSUME NEW id, NEW scope, NEW unit, NEW limits \in Seq(Limits(id))
    PROVE  LET w == Window(id, scope, unit, limits)
           IN  /\ Plain(w)
               /\ w.id = id /\ w.scope = scope /\ w.unit = unit /\ w.limits = limits
<1> DEFINE w == Window(id, scope, unit, limits)
<1>1. w = [id |-> id, scope |-> scope, unit |-> unit, limits |-> limits, pace |-> Nil]
  BY DEF Window
<1> HIDE DEF w
<1>2. w.id = id /\ w.scope = scope /\ w.unit = unit /\ w.limits = limits /\ w.pace = Nil
  BY <1>1
<1>3. w = [id |-> w.id, scope |-> w.scope, unit |-> w.unit, limits |-> w.limits, pace |-> w.pace]
  BY <1>1, <1>2
<1> QED
  BY <1>2, <1>3 DEF Plain, ShapedWindow, w

\* What the cache and the commands may rely on, whatever the provider.
Collected(p, now, evidences) ==
    \A o \in evidences : Evident(o) /\ o.provider = p /\ o.observedAt = now

LEMMA ValidObservation ==
    ASSUME NEW p, NEW account, NEW binding, NEW now \in Int, NEW outcome, NEW windows,
           windows = [i \in DOMAIN windows |-> windows[i]],
           \A i \in DOMAIN windows : Plain(windows[i])
    PROVE  LET o == Observation(p, account, binding, now, outcome, windows)
           IN  /\ o.provider = p /\ o.observedAt = now /\ o.windows = windows
               /\ o.outcome = outcome
               /\ Collected(p, now, {q \in {o} : Valid(q)})
<1> DEFINE o == Observation(p, account, binding, now, outcome, windows)
<1>1. o = [provider |-> p, account |-> [lastObserved |-> account, binding |-> binding],
           observedAt |-> now, freshness |-> "fresh", outcome |-> outcome, windows |-> windows]
  BY DEF Observation
<1> HIDE DEF o
<1>2. /\ o.provider = p /\ o.account = [lastObserved |-> account, binding |-> binding]
      /\ o.observedAt = now /\ o.freshness = "fresh" /\ o.outcome = outcome
      /\ o.windows = windows
  BY <1>1
<1>3. o.account = [lastObserved |-> o.account.lastObserved, binding |-> o.account.binding]
  BY <1>2
<1>4. o = [provider |-> o.provider, account |-> o.account, observedAt |-> o.observedAt,
           freshness |-> o.freshness, outcome |-> o.outcome, windows |-> o.windows]
  BY <1>1, <1>2
<1>5. ShapedObservation(o)
  BY <1>2, <1>3, <1>4 DEF ShapedObservation, Plain
<1>6. Collected(p, now, {q \in {o} : Valid(q)})
  BY <1>2, <1>5 DEF Collected, Evident, Plain
<1> QED
  BY <1>2, <1>6 DEF o

LEMMA Concatenation ==
    ASSUME NEW S, NEW s \in Seq(S), NEW t \in Seq(S)
    PROVE  /\ s \o t \in Seq(S)
           /\ Len(s \o t) = Len(s) + Len(t)
           /\ \A i \in 1..Len(s) : (s \o t)[i] = s[i]
           /\ \A i \in 1..Len(t) : (s \o t)[Len(s) + i] = t[i]
OBVIOUS

\* The items of two lists one after the other.
LEMMA Appended ==
    ASSUME NEW S, NEW s \in Seq(S), NEW t \in Seq(S)
    PROVE  /\ s \o t \in Seq(S)
           /\ \A x : x \in ToSet(s \o t) <=> x \in ToSet(s) \/ x \in ToSet(t)
<1>1. s \o t \in Seq(S)
  OBVIOUS
<1>2. /\ DOMAIN s = 1..Len(s) /\ DOMAIN t = 1..Len(t) /\ Len(s) \in Nat /\ Len(t) \in Nat
      /\ DOMAIN (s \o t) = 1..(Len(s) + Len(t))
      /\ \A i \in 1..Len(s) : (s \o t)[i] = s[i]
      /\ \A i \in 1..Len(t) : (s \o t)[Len(s) + i] = t[i]
  OBVIOUS
<1>3. ASSUME NEW i \in DOMAIN s
      PROVE  i \in DOMAIN (s \o t) /\ (s \o t)[i] = s[i]
  BY <1>2
<1>4. ASSUME NEW i \in DOMAIN t
      PROVE  Len(s) + i \in DOMAIN (s \o t) /\ (s \o t)[Len(s) + i] = t[i]
  BY <1>2
<1>5. ASSUME NEW j \in DOMAIN (s \o t)
      PROVE  \/ \E i \in DOMAIN s : (s \o t)[j] = s[i]
             \/ \E i \in DOMAIN t : (s \o t)[j] = t[i]
  <2>1. CASE j <= Len(s)
    BY <1>2, <2>1
  <2>2. CASE ~(j <= Len(s))
    <3>1. j - Len(s) \in 1..Len(t) /\ Len(s) + (j - Len(s)) = j
      BY <1>2, <2>2
    <3> QED
      BY <1>2, <3>1
  <2> QED
    BY <2>1, <2>2
<1> DEFINE u == s \o t
<1>6. \A x : /\ x \in ToSet(s) <=> \E i \in DOMAIN s : x = s[i]
             /\ x \in ToSet(t) <=> \E i \in DOMAIN t : x = t[i]
             /\ x \in ToSet(u) <=> \E i \in DOMAIN u : x = u[i]
  BY DEF ToSet
<1> HIDE DEF u
<1>7. \A x : x \in ToSet(u) <=> x \in ToSet(s) \/ x \in ToSet(t)
  BY <1>3, <1>4, <1>5, <1>6 DEF u
<1> QED
  BY <1>1, <1>7 DEF u

LEMMA AppendedTwice ==
    ASSUME NEW S, NEW s \in Seq(S), NEW t \in Seq(S), NEW u \in Seq(S)
    PROVE  (s \o t) \o u = s \o (t \o u)
<1>1. /\ Len(s) \in Nat /\ Len(t) \in Nat /\ Len(u) \in Nat
      /\ (s \o t) \o u \in Seq(S) /\ s \o (t \o u) \in Seq(S)
      /\ Len((s \o t) \o u) = Len(s \o (t \o u))
  OBVIOUS
<1>2. \A i \in 1..Len((s \o t) \o u) : ((s \o t) \o u)[i] = (s \o (t \o u))[i]
  OBVIOUS
<1> QED
  BY <1>1, <1>2

\* The limits of a window that are not amounts.
NoMeter(rest) == \A l \in ToSet(rest) : l.field \notin {"used", "remaining"}
NoReset(limits) == \A l \in ToSet(limits) : l.resetAt = Nil

LEMMA CycleLimits ==
    ASSUME NEW id, NEW p, IntPointer(p), NEW q, IntPointer(q),
           NEW rest \in {ResetLimits(id, p) \o DurationLimits(id, q),
                         DurationLimits(id, q) \o ResetLimits(id, p)}
    PROVE  rest \in Seq(Limits(id)) /\ NoMeter(rest) /\ (NoReset(rest) <=> p = Nil)
<1> DEFINE r == ResetLimits(id, p)
           d == DurationLimits(id, q)
<1>1. r \in Seq(Limits(id)) /\ d \in Seq(Limits(id))
  BY TimeLimits
<1>2. /\ rest \in Seq(Limits(id))
      /\ \A l : l \in ToSet(rest) <=> l \in ToSet(r) \/ l \in ToSet(d)
  <2> HIDE DEF r, d
  <2>1. rest = r \o d \/ rest = d \o r
    BY DEF r, d
  <2> QED
    BY <1>1, <2>1, Appended
<1>3. /\ p = Nil => ToSet(r) = {}
      /\ p # Nil => \E l : ToSet(r) = {l} /\ l.field = "reset" /\ l.resetAt = p
  <2>1. CASE p = Nil
    BY <2>1 DEF ResetLimits, ToSet
  <2>2. CASE p # Nil
    <3> DEFINE b == Limit(id, "reset", Unknown)
               l == [b EXCEPT !.resetAt = p]
    <3>1. r = <<l>>
      BY <2>2 DEF ResetLimits
    <3>2. l.field = "reset" /\ l.resetAt = p
      BY DEF Limit
    <3> HIDE DEF l, r
    <3>3. ToSet(r) = {l}
      BY <3>1 DEF ToSet
    <3> QED
      BY <2>2, <3>2, <3>3 DEF r
  <2> QED
    BY <2>1, <2>2
<1>4. \A l \in ToSet(d) : l.field = "duration" /\ l.resetAt = Nil
  <2>1. CASE q = Nil
    BY <2>1 DEF DurationLimits, ToSet
  <2>2. CASE q # Nil
    <3> DEFINE b == Limit(id, "duration", Unknown)
               l == [b EXCEPT !.duration = q]
    <3>1. d = <<l>>
      BY <2>2 DEF DurationLimits
    <3>2. l.field = "duration" /\ l.resetAt = Nil
      BY DEF Limit
    <3> HIDE DEF l, d
    <3>3. ToSet(d) = {l}
      BY <3>1 DEF ToSet
    <3> QED
      BY <2>2, <3>2, <3>3 DEF d
  <2> QED
    BY <2>1, <2>2
<1> HIDE DEF r, d
<1> QED
  BY <1>2, <1>3, <1>4 DEF NoMeter, NoReset

\* A window that says how much is used and how much remains.
Meter(w, used, remaining) ==
    /\ Plain(w)
    /\ AmountOf(w, "used") = used.amount
    /\ AmountOf(w, "remaining") = remaining.amount
    /\ (\E l \in ToSet(w.limits) : l.field \in {"used", "remaining"} /\ l.value = Unknown)
          <=> used = Unknown \/ remaining = Unknown

LEMMA MeterWindow ==
    ASSUME NEW id, NEW scope, NEW unit, NEW used \in Amounts, NEW remaining \in Amounts,
           NEW rest \in Seq(Limits(id)), NoMeter(rest)
    PROVE  LET w == Window(id, scope, unit,
                           <<Limit(id, "used", used), Limit(id, "remaining", remaining)>> \o rest)
           IN  /\ Meter(w, used, remaining)
               /\ w.id = id /\ w.scope = scope /\ w.unit = unit
               /\ NoReset(w.limits) <=> NoReset(rest)
<1> DEFINE u == Limit(id, "used", used)
           r == Limit(id, "remaining", remaining)
           limits == <<u, r>> \o rest
           w == Window(id, scope, unit, limits)
<1>1. u \in Limits(id) /\ r \in Limits(id)
  BY LimitIsOne
<1>2. /\ u.field = "used" /\ u.value = used /\ u.resetAt = Nil
      /\ r.field = "remaining" /\ r.value = remaining /\ r.resetAt = Nil
  BY DEF Limit
<1> HIDE DEF u, r
<1>3. <<u, r>> \in Seq(Limits(id)) /\ ToSet(<<u, r>>) = {u, r}
  BY <1>1 DEF ToSet
<1>4. limits \in Seq(Limits(id)) /\ \A l : l \in ToSet(limits) <=> l \in {u, r} \/ l \in ToSet(rest)
  BY <1>3, Appended
<1> HIDE DEF limits
<1>5. Plain(w) /\ w.id = id /\ w.scope = scope /\ w.unit = unit /\ w.limits = limits
  BY <1>4, PlainWindow
<1> HIDE DEF w
<1>6. {k \in ToSet(w.limits) : k.field = "used"} = {u}
  BY <1>2, <1>4, <1>5 DEF NoMeter
<1>7. {k \in ToSet(w.limits) : k.field = "remaining"} = {r}
  BY <1>2, <1>4, <1>5 DEF NoMeter
<1>8. AmountOf(w, "used") = used.amount /\ AmountOf(w, "remaining") = remaining.amount
  BY <1>2, <1>6, <1>7 DEF AmountOf
<1>9. (\E l \in ToSet(w.limits) : l.field \in {"used", "remaining"} /\ l.value = Unknown)
          <=> used = Unknown \/ remaining = Unknown
  BY <1>2, <1>4, <1>5 DEF NoMeter
<1>10. NoReset(w.limits) <=> NoReset(rest)
  BY <1>2, <1>4, <1>5 DEF NoReset
<1> QED
  BY <1>5, <1>8, <1>9, <1>10 DEF Meter, w, limits, u, r

\* The lists of limits the sources put together for a window with a cycle.
CycleLists(id, used, remaining, resetAt, duration) ==
    LET pair == <<Limit(id, "used", used), Limit(id, "remaining", remaining)>>
        R == ResetLimits(id, resetAt)
        D == DurationLimits(id, duration)
    IN  {pair \o D \o R, pair \o R \o D, pair \o (R \o D)}

LEMMA CycleWindow ==
    ASSUME NEW id, NEW scope, NEW unit, NEW used \in Amounts, NEW remaining \in Amounts,
           NEW p, IntPointer(p), NEW q, IntPointer(q),
           NEW limits \in CycleLists(id, used, remaining, p, q)
    PROVE  LET w == Window(id, scope, unit, limits)
           IN  /\ Meter(w, used, remaining)
               /\ w.id = id /\ w.scope = scope /\ w.unit = unit
               /\ NoReset(w.limits) <=> p = Nil
<1> DEFINE pair == <<Limit(id, "used", used), Limit(id, "remaining", remaining)>>
           R == ResetLimits(id, p)
           D == DurationLimits(id, q)
<1>1. R \in Seq(Limits(id)) /\ D \in Seq(Limits(id))
  BY TimeLimits
<1>2. pair \in Seq(Limits(id))
  <2>1. Limit(id, "used", used) \in Limits(id) /\ Limit(id, "remaining", remaining) \in Limits(id)
    BY LimitIsOne
  <2> QED
    BY <2>1
<1>3. pair \o D \o R = pair \o (D \o R) /\ pair \o R \o D = pair \o (R \o D)
  <2> HIDE DEF pair, R, D
  <2> QED
    BY <1>1, <1>2, AppendedTwice
<1>4. ASSUME NEW rest \in {R \o D, D \o R}
      PROVE  LET w == Window(id, scope, unit, pair \o rest)
             IN  /\ Meter(w, used, remaining)
                 /\ w.id = id /\ w.scope = scope /\ w.unit = unit
                 /\ NoReset(w.limits) <=> p = Nil
  <2>1. rest \in Seq(Limits(id)) /\ NoMeter(rest) /\ (NoReset(rest) <=> p = Nil)
    BY CycleLimits
  <2> QED
    BY <2>1, MeterWindow
<1>5. limits \in {pair \o D \o R, pair \o R \o D, pair \o (R \o D)}
  BY DEF CycleLists
<1>6. limits \in {pair \o (R \o D), pair \o (D \o R)}
  <2> HIDE DEF pair, R, D
  <2> QED
    BY <1>3, <1>5
<1> HIDE DEF pair
<1> QED
  BY <1>4, <1>6

LEMMA AmountsOfNumbers ==
    /\ \A p : IntPointer(p) => OptionalNumber(p).amount = p
    /\ \A p : IntPointer(p) => (OptionalNumber(p) = Unknown <=> p = Nil)
    /\ \A n \in Int : Number(n) = OptionalNumber({n})
    /\ Unlimited # Unknown /\ NotApplicable # Unknown
<1>1. \A n \in Int : Number(n) = OptionalNumber({n})
  BY TheOnly DEF OptionalNumber, Nil
<1>2. ASSUME NEW p, IntPointer(p)
      PROVE  OptionalNumber(p).amount = p /\ (OptionalNumber(p) = Unknown <=> p = Nil)
  <2>1. CASE p = Nil
    BY <2>1 DEF OptionalNumber, Unknown
  <2>2. CASE p # Nil
    <3>1. PICK n \in Int : p = {n}
      BY <1>2, <2>2 DEF IntPointer
    <3>2. OptionalNumber(p) = Number(n)
      BY <2>2, <3>1, TheOnly DEF OptionalNumber
    <3>3. Number(n).amount = p
      BY <3>1 DEF Number
    <3>4. Number(n) # Unknown
      BY <3>3, <2>2 DEF Unknown
    <3> QED
      BY <2>2, <3>2, <3>3, <3>4
  <2> QED
    BY <2>1, <2>2
<1>3. Unlimited # Unknown /\ NotApplicable # Unknown
  BY DEF Unlimited, NotApplicable, Unknown
<1> QED
  BY <1>1, <1>2, <1>3

----------------------------------------------------------------------------
(* What windows show, one by one and together *)

IsList(s) == s \in Seq(ToSet(s))

Gap(windows) == \E w \in ToSet(windows) : VisibleGap(w)

\* Plain windows that show the percentages supplied, and no other.
Tells(windows, supplied) ==
    LET percents == {w \in ToSet(windows) : w.unit = "percent"}
    IN  /\ \A i \in DOMAIN windows : Plain(windows[i])
        /\ UNION {AmountOf(w, "used") : w \in percents} = supplied
        /\ \A w \in percents : AmountOf(w, "remaining") = {100 - u : u \in AmountOf(w, "used")}

LEMMA NoWindows == IsList(<<>>) /\ Tells(<<>>, Nil) /\ ~Gap(<<>>)
<1>1. ToSet(<<>>) = {} /\ DOMAIN <<>> = {}
  BY DEF ToSet
<1> QED
  BY <1>1 DEF IsList, Tells, Gap, Nil

LEMMA OneWindow ==
    ASSUME NEW w, Plain(w), NEW supplied,
           IF w.unit = "percent"
           THEN /\ AmountOf(w, "used") = supplied
                /\ AmountOf(w, "remaining") = {100 - u : u \in supplied}
           ELSE supplied = Nil
    PROVE  IsList(<<w>>) /\ Tells(<<w>>, supplied) /\ (Gap(<<w>>) <=> VisibleGap(w))
<1>1. ToSet(<<w>>) = {w} /\ DOMAIN <<w>> = {1} /\ <<w>>[1] = w
  BY DEF ToSet
<1>2. IsList(<<w>>)
  BY <1>1 DEF IsList
<1> DEFINE list == <<w>>
<1> HIDE DEF list
<1>3. Gap(list) <=> VisibleGap(w)
  BY <1>1 DEF Gap, list
<1>4. Tells(list, supplied)
  <2>1. \A i \in DOMAIN list : Plain(list[i])
    BY <1>1 DEF list
  <2>2. CASE w.unit = "percent"
    <3>1. {v \in ToSet(list) : v.unit = "percent"} = {w}
      BY <1>1, <2>2 DEF list
    <3> QED
      BY <2>1, <2>2, <3>1 DEF Tells
  <2>3. CASE w.unit # "percent"
    <3>1. {v \in ToSet(list) : v.unit = "percent"} = {}
      BY <1>1, <2>3 DEF list
    <3> QED
      BY <2>1, <2>3, <3>1 DEF Tells, Nil
  <2> QED
    BY <2>2, <2>3
<1> QED
  BY <1>2, <1>3, <1>4 DEF list

\* The lists of the family I, and what each of them tells, put together.
Together(all, total, I, list, supplied) ==
    /\ \A x : x \in ToSet(all) <=> \E k \in I : x \in ToSet(list[k])
    /\ \A n : n \in total <=> \E k \in I : n \in supplied[k]
    /\ \A k \in I : Tells(list[k], supplied[k])

LEMMA WindowsTogether ==
    ASSUME NEW all, NEW total, NEW I, NEW list, NEW supplied,
           Together(all, total, I, list, supplied)
    PROVE  Tells(all, total)
<1> USE DEF Together
<1>1. \A k \in I : \A x \in ToSet(list[k]) : Plain(x)
  BY DEF Tells, ToSet
<1>2. \A i \in DOMAIN all : Plain(all[i])
  <2>1. \A i \in DOMAIN all : all[i] \in ToSet(all)
    BY DEF ToSet
  <2> QED
    BY <1>1, <2>1
<1> DEFINE P(s) == {w \in ToSet(s) : w.unit = "percent"}
           used(s) == UNION {AmountOf(w, "used") : w \in P(s)}
<1>3. \A k \in I : /\ used(list[k]) = supplied[k]
                   /\ \A w \in P(list[k]) :
                          AmountOf(w, "remaining") = {100 - u : u \in AmountOf(w, "used")}
  BY DEF Tells
<1>4. \A w : w \in P(all) <=> \E k \in I : w \in P(list[k])
  OBVIOUS
<1>5. \A n : n \in used(all) <=> \E k \in I : n \in used(list[k])
  BY <1>4
<1>6. used(all) = total
  <2> HIDE DEF used
  <2>1. \A n : n \in used(all) <=> n \in total
    BY <1>3, <1>5
  <2> QED
    BY <2>1
<1>7. \A w \in P(all) : AmountOf(w, "remaining") = {100 - u : u \in AmountOf(w, "used")}
  BY <1>3, <1>4
<1> QED
  BY <1>2, <1>6, <1>7 DEF Tells

LEMMA FlattenTells ==
    ASSUME NEW lists, NEW supplied, \A i \in DOMAIN lists : Tells(lists[i], supplied[i])
    PROVE  /\ Tells(Flatten(lists), UNION {supplied[i] : i \in DOMAIN lists})
           /\ Gap(Flatten(lists)) <=> \E i \in DOMAIN lists : Gap(lists[i])
           /\ Flatten(lists) = [x \in DOMAIN Flatten(lists) |-> Flatten(lists)[x]]
<1>1. \A x : x \in ToSet(Flatten(lists)) <=> \E i \in DOMAIN lists : x \in ToSet(lists[i])
  BY FlattenedItems
<1>2. Tells(Flatten(lists), UNION {supplied[i] : i \in DOMAIN lists})
  <2> DEFINE all == Flatten(lists)
             total == UNION {supplied[i] : i \in DOMAIN lists}
  <2>1. \A n : n \in total <=> \E i \in DOMAIN lists : n \in supplied[i]
    OBVIOUS
  <2>2. Together(all, total, DOMAIN lists, lists, supplied)
    BY <1>1, <2>1 DEF Together
  <2> HIDE DEF all, total
  <2> QED
    BY <2>2, WindowsTogether DEF all, total
<1>3. Gap(Flatten(lists)) <=> \E i \in DOMAIN lists : Gap(lists[i])
  BY <1>1 DEF Gap
<1>4. Flatten(lists) = [x \in DOMAIN Flatten(lists) |-> Flatten(lists)[x]]
  BY DEF Flatten
<1> QED
  BY <1>2, <1>3, <1>4

LEMMA AppendTells ==
    ASSUME NEW s, NEW t, IsList(s), IsList(t), NEW a, NEW b, Tells(s, a), Tells(t, b)
    PROVE  IsList(s \o t) /\ Tells(s \o t, a \cup b)
<1> DEFINE S == ToSet(s) \cup ToSet(t)
           u == s \o t
<1>1. s \in Seq(S) /\ t \in Seq(S)
  BY DEF IsList
<1>2. u \in Seq(S) /\ \A x : x \in ToSet(u) <=> x \in ToSet(s) \/ x \in ToSet(t)
  <2> HIDE DEF S
  <2> QED
    BY <1>1, Appended
<1> HIDE DEF u
<1>3. ToSet(u) = S
  BY <1>2
<1>4. IsList(u)
  BY <1>2, <1>3 DEF IsList
<1> DEFINE list == <<s, t>>
           supplied == <<a, b>>
<1>5. /\ list[1] = s /\ list[2] = t
      /\ supplied[1] = a /\ supplied[2] = b
  OBVIOUS
<1> HIDE DEF list, supplied
<1>6. \A x : x \in ToSet(u) <=> \E k \in {1, 2} : x \in ToSet(list[k])
  BY <1>2, <1>5
<1>7. \A k \in {1, 2} : Tells(list[k], supplied[k])
  BY <1>5
<1>8. \A n : n \in a \cup b <=> \E k \in {1, 2} : n \in supplied[k]
  BY <1>5
<1> DEFINE both == {1, 2}
           total == a \cup b
<1>9. Together(u, total, both, list, supplied)
  BY <1>6, <1>7, <1>8 DEF Together
<1> HIDE DEF both, total
<1>10. Tells(u, total)
  BY <1>9, WindowsTogether
<1> QED
  BY <1>4, <1>10 DEF u, total

----------------------------------------------------------------------------
(* Devin *)

\* A part is refused, or its windows have a gap when it says so.
PartTells(part, supplied) ==
    \/ part = Nil
    \/ \E q : /\ part = {q}
              /\ IsList(q.windows)
              /\ Tells(q.windows, supplied)
              /\ q.partial \in BOOLEAN
              /\ q.partial <=> Gap(q.windows)

LEMMA NoPartTells == PartTells(NoPart, Nil)
<1> DEFINE q == [windows |-> <<>>, partial |-> FALSE]
<1>1. q.windows = <<>> /\ q.partial = FALSE
  OBVIOUS
<1>2. NoPart = {q}
  BY DEF NoPart
<1> HIDE DEF q
<1> QED
  BY <1>1, <1>2, NoWindows DEF PartTells

LEMMA OnePartTells ==
    ASSUME NEW w, Plain(w), NEW gap \in BOOLEAN, gap <=> VisibleGap(w), NEW supplied,
           IF w.unit = "percent"
           THEN /\ AmountOf(w, "used") = supplied
                /\ AmountOf(w, "remaining") = {100 - u : u \in supplied}
           ELSE supplied = Nil
    PROVE  PartTells(Part(w, gap), supplied)
<1> DEFINE list == <<w>>
           q == [windows |-> list, partial |-> gap]
<1>1. IsList(list) /\ Tells(list, supplied) /\ (Gap(list) <=> VisibleGap(w))
  BY OneWindow
<1>2. q.windows = list /\ q.partial = gap
  OBVIOUS
<1>3. Part(w, gap) = {q}
  BY DEF Part
<1> HIDE DEF list, q
<1> QED
  BY <1>1, <1>2, <1>3 DEF PartTells

LEMMA WholeOfPercent ==
    ASSUME NEW p, IntPointer(p)
    PROVE  LET rest == {100 - x : x \in p}
           IN  IntPointer(rest) /\ (rest = Nil <=> p = Nil) /\ {100 - u : u \in rest} = p
<1>1. CASE p = Nil
  BY <1>1 DEF IntPointer, Nil
<1>2. CASE p # Nil
  <2>1. PICK n \in Int : p = {n}
    BY <1>2 DEF IntPointer
  <2>2. {100 - x : x \in p} = {100 - n}
    BY <2>1
  <2>3. {100 - u : u \in {100 - n}} = {n}
    BY <2>1
  <2> QED
    BY <1>2, <2>1, <2>2, <2>3 DEF IntPointer, Nil
<1> QED
  BY <1>1, <1>2

LEMMA QuotaTells ==
    ASSUME NEW name \in {"daily", "weekly"}, NEW percent, IntPointer(percent),
           NEW reset, IntPointer(reset), NEW duration \in Int
    PROVE  PartTells(QuotaWindow(name, percent, reset, duration), {100 - p : p \in percent})
<1> DEFINE id == <<"", name>>
           spent == {100 - p : p \in percent}
           used == OptionalNumber(spent)
           remaining == OptionalNumber(percent)
           pair == <<Limit(id, "used", used), Limit(id, "remaining", remaining)>>
           D == DurationLimits(id, {duration})
           R == ResetLimits(id, reset)
           limits == pair \o D \o R
           w == Window(id, "account", "percent", limits)
           gap == percent = Nil \/ reset = Nil
<1>1. QuotaWindow(name, percent, reset, duration) =
         IF percent = Nil /\ reset = Nil THEN NoPart
         ELSE IF ~percent \subseteq 0..100 THEN Nil ELSE Part(w, gap)
  BY DEF QuotaWindow
<1>15. id \in {<<"", "daily">>, <<"", "weekly">>, <<"", "acu">>}
  OBVIOUS
<1> HIDE DEF id
<1>2. IntPointer(spent) /\ (spent = Nil <=> percent = Nil) /\ {100 - u : u \in spent} = percent
  BY WholeOfPercent
<1>3. IntPointer({duration})
  BY DEF IntPointer
<1> HIDE DEF spent
<1>4. used \in Amounts /\ remaining \in Amounts
  BY <1>2, NumberIsAmount
<1>5. /\ used.amount = spent /\ remaining.amount = percent
      /\ used = Unknown <=> percent = Nil
      /\ remaining = Unknown <=> percent = Nil
  BY <1>2, AmountsOfNumbers
<1>16. limits \in CycleLists(id, used, remaining, reset, {duration})
  BY DEF CycleLists
<1> HIDE DEF used, remaining, limits
<1>9. /\ Meter(w, used, remaining) /\ w.id = id /\ w.unit = "percent"
      /\ NoReset(w.limits) <=> reset = Nil
  BY <1>3, <1>4, <1>16, CycleWindow
<1> HIDE DEF w
<1>10. w.id \in {<<"", "daily">>, <<"", "weekly">>, <<"", "acu">>}
  BY <1>9, <1>15
<1>11. gap <=> VisibleGap(w)
  BY <1>5, <1>9, <1>10 DEF Meter, VisibleGap, NoReset
<1>12. PartTells(Part(w, gap), spent)
  <2>1. AmountOf(w, "used") = spent /\ AmountOf(w, "remaining") = {100 - u : u \in spent}
    BY <1>2, <1>5, <1>9 DEF Meter
  <2>2. gap \in BOOLEAN
    OBVIOUS
  <2> HIDE DEF gap
  <2> QED
    BY <1>9, <1>11, <2>1, <2>2, OnePartTells DEF Meter
<1>13. CASE percent = Nil /\ reset = Nil
  BY <1>1, <1>2, <1>13, NoPartTells DEF spent
<1>14. CASE ~(percent = Nil /\ reset = Nil)
  BY <1>1, <1>12, <1>14 DEF spent, PartTells
<1> QED
  BY <1>13, <1>14

LEMMA SmallerPointers ==
    ASSUME NEW p, IntPointer(p), NEW q, IntPointer(q)
    PROVE  /\ \A s \in SUBSET p : IntPointer(s)
           /\ \A s \in SUBSET {x - y : x \in p, y \in q} : IntPointer(s)
<1>1. \A s \in SUBSET p : IntPointer(s)
  BY DEF IntPointer, Nil
<1>2. \A s \in SUBSET {x - y : x \in p, y \in q} : IntPointer(s)
  <2>1. CASE p = Nil \/ q = Nil
    <3>1. {x - y : x \in p, y \in q} = {}
      BY <2>1 DEF Nil
    <3> QED
      BY <3>1 DEF IntPointer, Nil
  <2>2. CASE p # Nil /\ q # Nil
    <3>1. PICK n \in Int : p = {n}
      BY <2>2 DEF IntPointer
    <3>2. PICK m \in Int : q = {m}
      BY <2>2 DEF IntPointer
    <3>3. {x - y : x \in p, y \in q} = {n - m}
      BY <3>1, <3>2
    <3>4. n - m \in Int
      OBVIOUS
    <3> DEFINE k == n - m
    <3> HIDE DEF k
    <3>5. \A s \in SUBSET {k} : s = Nil \/ s = {k}
      BY DEF Nil
    <3> QED
      BY <3>3, <3>4, <3>5 DEF IntPointer, k
  <2> QED
    BY <2>1, <2>2
<1> QED
  BY <1>1, <1>2

\* Any set of spans between two times is one.
LEMMA ElapsedPointers ==
    ASSUME NEW p, IntPointer(p), NEW q, IntPointer(q),
           NEW s \in SUBSET {Elapsed(x, y) : x \in p, y \in q}
    PROVE  IntPointer(s)
<1>1. CASE p = Nil \/ q = Nil
  <2>1. {Elapsed(x, y) : x \in p, y \in q} = {}
    BY <1>1 DEF Nil
  <2> QED
    BY <2>1 DEF IntPointer, Nil
<1>2. CASE p # Nil /\ q # Nil
  <2>1. PICK n \in Int : p = {n}
    BY <1>2 DEF IntPointer
  <2>2. PICK m \in Int : q = {m}
    BY <1>2 DEF IntPointer
  <2> DEFINE k == Elapsed(n, m)
  <2>3. k \in Int
    BY DEF Elapsed, MaxDuration
  <2>4. {Elapsed(x, y) : x \in p, y \in q} = {k}
    BY <2>1, <2>2
  <2> HIDE DEF k
  <2>5. s = Nil \/ s = {k}
    BY <2>4 DEF Nil
  <2> QED
    BY <2>3, <2>5 DEF IntPointer
<1> QED
  BY <1>1, <1>2

LEMMA AcuTells ==
    ASSUME NEW status, IntPointer(status.acuConsumed), IntPointer(status.acuLimit),
           IntPointer(status.planStart), IntPointer(status.planEnd)
    PROVE  PartTells(AcuWindow(status), Nil)
<1> DEFINE id == <<"", "acu">>
           used == {n \in status.acuConsumed : n >= 0}
           unlimited == \E l \in status.acuLimit : l < 0
           rest == {l - n : l \in status.acuLimit, n \in used} \cap Nat
           remaining == CASE unlimited -> Unlimited
                          [] ~unlimited /\ rest # Nil -> Number(The(rest))
                          [] ~unlimited /\ rest = Nil -> Unknown
           cycle == {Elapsed(s, e) : s \in status.planStart, e \in status.planEnd} \cap (Nat \ {0})
           value == IF used = Nil THEN Unknown ELSE Number(The(used))
           pair == <<Limit(id, "used", value), Limit(id, "remaining", remaining)>>
           limits == pair \o ResetLimits(id, status.planEnd) \o DurationLimits(id, cycle)
           w == Window(id, "account", "acu", limits)
           gap == used = Nil \/ remaining = Unknown \/ status.planEnd = Nil
<1>1. AcuWindow(status) =
         IF status.acuConsumed = Nil /\ status.acuLimit = Nil THEN NoPart ELSE Part(w, gap)
  BY DEF AcuWindow
<1>2. id \in {<<"", "daily">>, <<"", "weekly">>, <<"", "acu">>}
  OBVIOUS
<1> HIDE DEF id
<1>3. IntPointer(used) /\ IntPointer(cycle)
  <2>1. used \in SUBSET status.acuConsumed
    OBVIOUS
  <2>2. cycle \in SUBSET {Elapsed(s, e) : s \in status.planStart, e \in status.planEnd}
    OBVIOUS
  <2> HIDE DEF used, cycle
  <2>3. IntPointer(used)
    BY <2>1, SmallerPointers
  <2>4. IntPointer(cycle)
    BY <2>2, ElapsedPointers
  <2> QED
    BY <2>3, <2>4
<1>4. IntPointer(rest)
  <2>1. rest \in SUBSET {l - n : l \in status.acuLimit, n \in used}
    OBVIOUS
  <2> HIDE DEF used, rest
  <2> QED
    BY <1>3, <2>1, SmallerPointers
<1> HIDE DEF used, rest, cycle, unlimited
<1>5. value = OptionalNumber(used)
  BY DEF OptionalNumber
<1>6. value \in Amounts /\ (value = Unknown <=> used = Nil)
  BY <1>3, <1>5, NumberIsAmount, AmountsOfNumbers
<1>7. remaining \in {Unlimited, Unknown, OptionalNumber(rest)}
  <2>1. CASE unlimited
    BY <2>1
  <2>2. CASE ~unlimited /\ rest # Nil
    BY <2>2 DEF OptionalNumber
  <2>3. CASE ~unlimited /\ rest = Nil
    BY <2>3
  <2> QED
    BY <2>1, <2>2, <2>3
<1>8. remaining \in Amounts
  BY <1>4, <1>7, NumberIsAmount
<1>14. limits \in CycleLists(id, value, remaining, status.planEnd, cycle)
  BY DEF CycleLists
<1> HIDE DEF value, remaining, limits
<1>9. /\ Meter(w, value, remaining) /\ w.id = id /\ w.unit = "acu"
      /\ NoReset(w.limits) <=> status.planEnd = Nil
  BY <1>3, <1>6, <1>8, <1>14, CycleWindow
<1> HIDE DEF w
<1>10. gap <=> VisibleGap(w)
  BY <1>2, <1>6, <1>9 DEF Meter, VisibleGap, NoReset
<1>11. PartTells(Part(w, gap), Nil)
  <2>1. gap \in BOOLEAN
    OBVIOUS
  <2> HIDE DEF gap
  <2> QED
    BY <1>9, <1>10, <2>1, OnePartTells DEF Meter
<1>12. CASE status.acuConsumed = Nil /\ status.acuLimit = Nil
  BY <1>1, <1>12, NoPartTells
<1>13. CASE ~(status.acuConsumed = Nil /\ status.acuLimit = Nil)
  BY <1>1, <1>11, <1>13
<1> QED
  BY <1>12, <1>13

LEMMA CreditTells ==
    ASSUME NEW name \in {"prompt_credits", "flow_credits", "flex_credits"},
           NEW used, IntPointer(used), NEW available, IntPointer(available),
           NEW monthly, IntPointer(monthly)
    PROVE  PartTells(CreditWindow(name, used, available, monthly), Nil)
<1> DEFINE id == <<"", name>>
           unlimited == \E a \in available : a < 0
           usedValue ==
             CASE used = Nil /\ unlimited -> NotApplicable
               [] used = Nil /\ ~unlimited -> Unknown
               [] used # Nil -> IF The(used) < 0 THEN Unknown ELSE Number(The(used))
           remaining == IF available = Nil THEN Unknown ELSE AmountValue(The(available))
           most == Limit(id, "limit", AmountValue(The(monthly)))
           ceiling == IF monthly = Nil THEN <<>> ELSE <<most>>
           pair == <<Limit(id, "used", usedValue), Limit(id, "remaining", remaining)>>
           w == Window(id, "account", "credits", pair \o ceiling)
           gap == usedValue = Unknown \/ remaining = Unknown
<1>1. CreditWindow(name, used, available, monthly) =
         IF used = Nil /\ available = Nil /\ monthly = Nil THEN NoPart ELSE Part(w, gap)
  BY DEF CreditWindow
<1>2. id \notin {<<"", "daily">>, <<"", "weekly">>, <<"", "acu">>}
  <2>1. name \notin {"daily", "weekly", "acu"}
    OBVIOUS
  <2> QED
    BY <2>1
<1> HIDE DEF id, unlimited
<1>3. \A p : p # Nil /\ IntPointer(p) => The(p) \in Int /\ AmountValue(The(p)) \in Amounts
  <2> SUFFICES ASSUME NEW p, p # Nil, IntPointer(p)
               PROVE  The(p) \in Int /\ AmountValue(The(p)) \in Amounts
    OBVIOUS
  <2>1. The(p) \in Int
    BY TheOnly DEF IntPointer
  <2> QED
    BY <2>1, NumberIsAmount DEF AmountValue
<1>4. usedValue \in Amounts
  BY <1>3, NumberIsAmount
<1>5. remaining \in Amounts
  BY <1>3, NumberIsAmount
<1>6. ceiling \in Seq(Limits(id)) /\ NoMeter(ceiling)
  <2>1. CASE monthly = Nil
    BY <2>1 DEF NoMeter, ToSet
  <2>2. CASE monthly # Nil
    <3>1. most \in Limits(id)
      BY <1>3, <2>2, LimitIsOne
    <3>2. most.field = "limit"
      BY DEF Limit
    <3> HIDE DEF most
    <3> QED
      BY <2>2, <3>1, <3>2 DEF NoMeter, ToSet
  <2> QED
    BY <2>1, <2>2
<1> HIDE DEF usedValue, remaining, ceiling
<1>7. Meter(w, usedValue, remaining) /\ w.id = id /\ w.unit = "credits"
  BY <1>4, <1>5, <1>6, MeterWindow
<1> HIDE DEF w
<1>8. gap <=> VisibleGap(w)
  BY <1>2, <1>7 DEF Meter, VisibleGap
<1>9. PartTells(Part(w, gap), Nil)
  <2>1. gap \in BOOLEAN
    OBVIOUS
  <2> HIDE DEF gap
  <2> QED
    BY <1>7, <1>8, <2>1, OnePartTells DEF Meter
<1>10. CASE used = Nil /\ available = Nil /\ monthly = Nil
  BY <1>1, <1>10, NoPartTells
<1>11. CASE ~(used = Nil /\ available = Nil /\ monthly = Nil)
  BY <1>1, <1>9, <1>11
<1> QED
  BY <1>10, <1>11

\* What a normalization gives: at most one observation, of its windows.
Accepted(evidences, p, now, outcome, windows, supplied) ==
    \A o \in evidences :
        /\ evidences = {o}
        /\ Evident(o)
        /\ o.provider = p /\ o.observedAt = now /\ o.outcome = outcome
        /\ o.windows = windows /\ Tells(o.windows, supplied)

LEMMA ObservationAccepted ==
    ASSUME NEW p, NEW account, NEW binding, NEW now \in Int, NEW outcome, NEW windows,
           NEW supplied,
           windows = [i \in DOMAIN windows |-> windows[i]], Tells(windows, supplied)
    PROVE  Accepted({q \in {Observation(p, account, binding, now, outcome, windows)} : Valid(q)},
                    p, now, outcome, windows, supplied)
<1> DEFINE o == Observation(p, account, binding, now, outcome, windows)
<1>1. /\ o.provider = p /\ o.observedAt = now /\ o.windows = windows /\ o.outcome = outcome
      /\ Collected(p, now, {q \in {o} : Valid(q)})
  BY ValidObservation DEF Tells
<1> HIDE DEF o
<1>2. \A q \in {r \in {o} : Valid(r)} : q = o /\ {r \in {o} : Valid(r)} = {q}
  OBVIOUS
<1> QED
  BY <1>1, <1>2 DEF Accepted, Collected, o

LEMMA ListIsFunction ==
    ASSUME NEW s, IsList(s)
    PROVE  s = [i \in DOMAIN s |-> s[i]]
BY DEF IsList

LEMMA DevinParts ==
    ASSUME NEW a \in DevinResponse
    PROVE  LET s == a.status
           IN  /\ PartTells(QuotaWindow("daily", s.dailyPercent, s.dailyReset, 24),
                            {100 - p : p \in s.dailyPercent})
               /\ PartTells(QuotaWindow("weekly", s.weeklyPercent, s.weeklyReset, 168),
                            {100 - p : p \in s.weeklyPercent})
               /\ PartTells(AcuWindow(s), Nil)
               /\ PartTells(CreditWindow("prompt_credits", s.usedPrompt, s.availablePrompt,
                                         MonthlyValue(a, "prompt")), Nil)
               /\ PartTells(CreditWindow("flow_credits", s.usedFlow, s.availableFlow,
                                         MonthlyValue(a, "flow")), Nil)
               /\ PartTells(CreditWindow("flex_credits", s.usedFlex, s.availableFlex, Nil), Nil)
<1> DEFINE s == a.status
<1>1. s \in PlanStatus /\ a.planInfo \in Pointers(PlanInfo)
  BY DEF DevinResponse
<1>2. s.planInfo \in Pointers(PlanInfo)
  BY <1>1 DEF PlanStatus
<1>3. /\ IntPointer(s.dailyPercent) /\ IntPointer(s.dailyReset)
      /\ IntPointer(s.weeklyPercent) /\ IntPointer(s.weeklyReset)
      /\ IntPointer(s.acuConsumed) /\ IntPointer(s.acuLimit)
      /\ IntPointer(s.planStart) /\ IntPointer(s.planEnd)
      /\ IntPointer(s.usedPrompt) /\ IntPointer(s.availablePrompt)
      /\ IntPointer(s.usedFlow) /\ IntPointer(s.availableFlow)
      /\ IntPointer(s.usedFlex) /\ IntPointer(s.availableFlex)
  BY <1>1, IntPointers DEF PlanStatus
<1>4. ASSUME NEW family \in {"prompt", "flow"}
      PROVE  IntPointer(MonthlyValue(a, family))
  <2> DEFINE plan == IF s.planInfo # Nil THEN s.planInfo ELSE a.planInfo
  <2>1. plan \in Pointers(PlanInfo)
    BY <1>1, <1>2
  <2>2. MonthlyValue(a, family) = UNION {p[family] : p \in plan}
    BY DEF MonthlyValue
  <2> HIDE DEF plan
  <2>3. CASE plan = Nil
    BY <2>2, <2>3 DEF IntPointer, Nil
  <2>4. CASE plan # Nil
    <3>1. PICK p \in PlanInfo : plan = {p}
      BY <2>1, <2>4, PointerCases
    <3>2. UNION {q[family] : q \in plan} = p[family]
      BY <3>1
    <3>3. p[family] \in Pointers(Int)
      BY DEF PlanInfo
    <3> QED
      BY <2>2, <3>2, <3>3, IntPointers
  <2> QED
    BY <2>3, <2>4
<1>5. IntPointer(Nil) /\ 24 \in Int /\ 168 \in Int
  BY DEF IntPointer
<1> HIDE DEF s
<1>6. /\ PartTells(QuotaWindow("daily", s.dailyPercent, s.dailyReset, 24),
                   {100 - p : p \in s.dailyPercent})
      /\ PartTells(QuotaWindow("weekly", s.weeklyPercent, s.weeklyReset, 168),
                   {100 - p : p \in s.weeklyPercent})
  BY <1>3, <1>5, QuotaTells
<1>7. PartTells(AcuWindow(s), Nil)
  BY <1>3, AcuTells
<1>8. PartTells(CreditWindow("prompt_credits", s.usedPrompt, s.availablePrompt,
                             MonthlyValue(a, "prompt")), Nil)
  BY <1>3, <1>4, CreditTells
<1>9. PartTells(CreditWindow("flow_credits", s.usedFlow, s.availableFlow,
                             MonthlyValue(a, "flow")), Nil)
  BY <1>3, <1>4, CreditTells
<1>10. PartTells(CreditWindow("flex_credits", s.usedFlex, s.availableFlex, Nil), Nil)
  BY <1>3, <1>5, CreditTells
<1> QED
  BY <1>6, <1>7, <1>8, <1>9, <1>10 DEF s

\* Devin's evidence shows what was supplied, and is partial with a gap.
LEMMA DevinTells ==
    ASSUME NEW a \in DevinResponse, NEW account, NEW now \in Int
    PROVE  \A o \in NormalizeDevin(a, account, now) :
              /\ NormalizeDevin(a, account, now) = {o}
              /\ Evident(o) /\ o.provider = "devin" /\ o.observedAt = now
              /\ Tells(o.windows, SuppliedByDevin(a))
              /\ o.outcome = "partial" <=> Gap(o.windows)
<1> DEFINE s == a.status
           part1 == QuotaWindow("daily", s.dailyPercent, s.dailyReset, 24)
           part2 == QuotaWindow("weekly", s.weeklyPercent, s.weeklyReset, 168)
           part3 == AcuWindow(s)
           part4 == CreditWindow("prompt_credits", s.usedPrompt, s.availablePrompt,
                                 MonthlyValue(a, "prompt"))
           part5 == CreditWindow("flow_credits", s.usedFlow, s.availableFlow,
                                 MonthlyValue(a, "flow"))
           part6 == CreditWindow("flex_credits", s.usedFlex, s.availableFlex, Nil)
           daily == {100 - p : p \in s.dailyPercent}
           weekly == {100 - p : p \in s.weeklyPercent}
           parts == <<part1, part2, part3, part4, part5, part6>>
           supplied == <<daily, weekly, Nil, Nil, Nil, Nil>>
           lists == [i \in DOMAIN parts |-> The(parts[i]).windows]
           windows == Flatten(lists)
           partial == \E i \in DOMAIN parts : The(parts[i]).partial
           binding == IF a.account = "" THEN "unknown" ELSE "verified"
           outcome == IF partial THEN "partial" ELSE "complete"
           refused == \/ account \notin {"", a.account}
                      \/ \E i \in DOMAIN parts : parts[i] = Nil
                      \/ DOMAIN windows = {}
           found == {o \in {Observation("devin", a.account, binding, now, outcome, windows)} : Valid(o)}
<1>1. NormalizeDevin(a, account, now) = IF refused THEN Nil ELSE found
  BY DEF NormalizeDevin
<1> HIDE DEF refused, found
<1> SUFFICES ASSUME ~refused
             PROVE  \A o \in found : /\ found = {o}
                                     /\ Evident(o) /\ o.provider = "devin" /\ o.observedAt = now
                                     /\ Tells(o.windows, SuppliedByDevin(a))
                                     /\ o.outcome = "partial" <=> Gap(o.windows)
  BY <1>1 DEF Nil
<1>2. \A i \in DOMAIN parts : parts[i] # Nil
  BY DEF refused
<1>3. /\ PartTells(part1, daily) /\ PartTells(part2, weekly)
      /\ PartTells(part3, Nil) /\ PartTells(part4, Nil)
      /\ PartTells(part5, Nil) /\ PartTells(part6, Nil)
  BY DevinParts
<1>4. UNION {daily, weekly, Nil} = SuppliedByDevin(a)
  BY DEF SuppliedByDevin, Nil
<1> HIDE DEF part1, part2, part3, part4, part5, part6, daily, weekly, binding
<1>5. DOMAIN parts = 1..6 /\ \A i \in 1..6 : PartTells(parts[i], supplied[i])
  BY <1>3
<1>6. UNION {supplied[i] : i \in 1..6} = SuppliedByDevin(a)
  <2>1. /\ supplied[1] = daily /\ supplied[2] = weekly
        /\ \A i \in 1..6 : supplied[i] \in {daily, weekly, Nil}
    OBVIOUS
  <2> HIDE DEF supplied
  <2>2. UNION {supplied[i] : i \in 1..6} = daily \cup weekly
    BY <2>1 DEF Nil
  <2>3. UNION {daily, weekly, Nil} = daily \cup weekly
    BY DEF Nil
  <2> QED
    BY <1>4, <2>2, <2>3
<1> HIDE DEF parts, supplied
<1>7. ASSUME NEW i \in 1..6
      PROVE  /\ Tells(lists[i], supplied[i])
             /\ The(parts[i]).partial <=> Gap(lists[i])
  <2>1. PICK q : /\ parts[i] = {q}
                 /\ Tells(q.windows, supplied[i])
                 /\ q.partial <=> Gap(q.windows)
    BY <1>2, <1>5 DEF PartTells
  <2>2. The(parts[i]) = q
    BY <2>1, TheOnly
  <2>3. lists[i] = q.windows
    BY <1>5, <2>2
  <2> QED
    BY <2>1, <2>2, <2>3
<1>8. DOMAIN lists = 1..6
  BY <1>5
<1> HIDE DEF lists
<1>9. /\ Tells(windows, SuppliedByDevin(a))
      /\ Gap(windows) <=> \E i \in 1..6 : Gap(lists[i])
      /\ windows = [x \in DOMAIN windows |-> windows[x]]
  <2>1. /\ Tells(windows, UNION {supplied[i] : i \in DOMAIN lists})
        /\ Gap(windows) <=> \E i \in DOMAIN lists : Gap(lists[i])
        /\ windows = [x \in DOMAIN windows |-> windows[x]]
    BY <1>7, <1>8, FlattenTells
  <2> QED
    BY <1>6, <1>8, <2>1
<1>10. partial <=> Gap(windows)
  BY <1>5, <1>7, <1>9
<1>11. outcome = "partial" <=> Gap(windows)
  BY <1>10
<1> HIDE DEF windows, outcome
<1>12. Accepted(found, "devin", now, outcome, windows, SuppliedByDevin(a))
  BY <1>9, ObservationAccepted DEF found
<1> QED
  BY <1>11, <1>12 DEF Accepted

----------------------------------------------------------------------------
(* Claude *)

\* A window in percent with the percentage used, if it is known.
PercentMeter(w, used) ==
    /\ Plain(w) /\ w.unit = "percent"
    /\ AmountOf(w, "used") = used
    /\ AmountOf(w, "remaining") = {100 - u : u \in used}
    /\ (\E l \in ToSet(w.limits) : l.field \in {"used", "remaining"} /\ l.value = Unknown)
          <=> used = Nil

PercentLists(id, used, resetAt, duration) ==
    CycleLists(id, OptionalNumber(used), OptionalNumber({100 - u : u \in used}), resetAt, duration)

LEMMA PercentWindow ==
    ASSUME NEW id, NEW scope, NEW used, IntPointer(used),
           NEW p, IntPointer(p), NEW q, IntPointer(q), NEW limits \in PercentLists(id, used, p, q)
    PROVE  LET w == Window(id, scope, "percent", limits)
           IN  PercentMeter(w, used) /\ w.id = id
<1> DEFINE rest == {100 - u : u \in used}
           U == OptionalNumber(used)
           L == OptionalNumber(rest)
           unit == "percent"
           w == Window(id, scope, unit, limits)
<1>1. IntPointer(rest) /\ (rest = Nil <=> used = Nil)
  BY WholeOfPercent
<1>2. /\ U \in Amounts /\ U.amount = used /\ (U = Unknown <=> used = Nil)
      /\ L \in Amounts /\ L.amount = rest /\ (L = Unknown <=> rest = Nil)
  <2> HIDE DEF rest
  <2> QED
    BY <1>1, NumberIsAmount, AmountsOfNumbers
<1>3. limits \in CycleLists(id, U, L, p, q)
  BY DEF PercentLists
<1> HIDE DEF U, L, unit
<1>4. Meter(w, U, L) /\ w.id = id /\ w.unit = unit
  BY <1>2, <1>3, CycleWindow
<1> HIDE DEF w
<1>5. PercentMeter(w, used) /\ w.id = id
  BY <1>1, <1>2, <1>4 DEF PercentMeter, Meter, unit
<1> QED
  BY <1>5 DEF w, unit

\* A pointer to a window: refused, or the window of the percentages.
Entry(x, supplied) ==
    x = Nil \/ \E w : /\ x = {w}
                      /\ Plain(w)
                      /\ IF w.unit = "percent"
                         THEN /\ AmountOf(w, "used") = supplied
                              /\ AmountOf(w, "remaining") = {100 - u : u \in supplied}
                         ELSE supplied = Nil

LEMMA ClaudeWindowTells ==
    ASSUME NEW id, NEW scope, NEW percent, IntPointer(percent), NEW reset, IntPointer(reset),
           NEW duration, IntPointer(duration)
    PROVE  Entry(ClaudeWindow(id, scope, percent, reset, duration), percent)
<1> DEFINE name == <<"", id>>
           pair == <<Limit(name, "used", OptionalNumber(percent)),
                     Limit(name, "remaining", OptionalNumber({100 - p : p \in percent}))>>
           limits == pair \o ResetLimits(name, reset) \o DurationLimits(name, duration)
           w == Window(name, scope, "percent", limits)
<1>1. ClaudeWindow(id, scope, percent, reset, duration) \in {Nil, {w}}
  BY DEF ClaudeWindow
<1> HIDE DEF name
<1>2. PercentMeter(w, percent)
  <2>1. limits \in PercentLists(name, percent, reset, duration)
    BY DEF PercentLists, CycleLists
  <2> HIDE DEF limits
  <2> QED
    BY <2>1, PercentWindow
<1> HIDE DEF w
<1> QED
  BY <1>1, <1>2 DEF Entry, PercentMeter

LEMMA ScopedTells ==
    ASSUME NEW raw, IntPointer(raw.percent), IntPointer(raw.resetsAt)
    PROVE  Entry(ScopedLimit(raw), raw.percent)
<1>1. IntPointer(GroupDuration(raw.group))
  BY DEF GroupDuration, IntPointer
<1> QED
  BY <1>1, ClaudeWindowTells DEF ScopedLimit

LEMMA LegacyTells ==
    ASSUME NEW id, NEW scope, NEW window \in Pointers(LegacyWindow), NEW duration \in Int
    PROVE  Entry(ClaudeWindow(id, scope, UNION {w.utilization : w \in window},
                              UNION {w.resetsAt : w \in window}, {duration}),
                 UNION {w.utilization : w \in window})
<1>1. /\ IntPointer(UNION {w.utilization : w \in window})
      /\ IntPointer(UNION {w.resetsAt : w \in window})
  <2>1. CASE window = Nil
    BY <2>1 DEF IntPointer, Nil
  <2>2. CASE window # Nil
    <3>1. PICK v \in LegacyWindow : window = {v}
      BY <2>2, PointerCases
    <3>2. /\ UNION {w.utilization : w \in window} = v.utilization
          /\ UNION {w.resetsAt : w \in window} = v.resetsAt
      BY <3>1
    <3>3. v.utilization \in Pointers(Int) /\ v.resetsAt \in Pointers(Int)
      BY DEF LegacyWindow
    <3> QED
      BY <3>2, <3>3, IntPointers
  <2> QED
    BY <2>1, <2>2
<1>2. IntPointer({duration})
  BY DEF IntPointer
<1> QED
  BY <1>1, <1>2, ClaudeWindowTells

LEMMA ExtraTells ==
    ASSUME NEW raw, IntPointer(raw.used), IntPointer(raw.limit)
    PROVE  Entry(ExtraUsage(raw), Nil)
<1> DEFINE id == <<"", "extra_usage">>
           amounts == raw.used \cup raw.limit
           rest == {l - u : l \in raw.limit, u \in raw.used} \cap Nat
           unit == IF amounts # Nil /\ raw.places = Nil THEN "credits_native" ELSE "credits"
           used == Limit(id, "used", OptionalNumber(raw.used))
           limit == Limit(id, "limit", OptionalNumber(raw.limit))
           remaining == Limit(id, "remaining", OptionalNumber(rest))
           limits == <<used, limit, remaining>>
           w == Window(id, "account", unit, limits)
<1>1. ExtraUsage(raw) \in {Nil, {w}}
  BY DEF ExtraUsage
<1>2. IntPointer(rest)
  <2>1. rest \in SUBSET {l - u : l \in raw.limit, u \in raw.used}
    OBVIOUS
  <2> HIDE DEF rest
  <2> QED
    BY <2>1, SmallerPointers
<1>3. unit # "percent"
  OBVIOUS
<1> HIDE DEF id, rest, unit
<1>4. used \in Limits(id) /\ limit \in Limits(id) /\ remaining \in Limits(id)
  BY <1>2, NumberIsAmount, LimitIsOne
<1> HIDE DEF used, limit, remaining
<1>5. limits \in Seq(Limits(id))
  BY <1>4
<1> HIDE DEF limits
<1>6. Plain(w) /\ w.unit = unit
  BY <1>5, PlainWindow
<1> HIDE DEF w
<1> QED
  BY <1>1, <1>3, <1>6 DEF Entry

EntryUsed(x) == IF The(x).unit = "percent" THEN AmountOf(The(x), "used") ELSE Nil

\* A list of entries; when none of them is refused, the total is what they show.
Entries(list, total) ==
    /\ IsList(list)
    /\ \A x \in ToSet(list) : \E s : Entry(x, s)
    /\ (\A x \in ToSet(list) : x # Nil) =>
            \A n : n \in total <=> \E x \in ToSet(list) : n \in EntryUsed(x)

LEMMA UsedOfEntry ==
    ASSUME NEW x, NEW s, Entry(x, s), x # Nil
    PROVE  EntryUsed(x) = s
BY TheOnly DEF Entry, EntryUsed

LEMMA EntriesTell ==
    ASSUME NEW list, NEW total, Entries(list, total), \A i \in DOMAIN list : list[i] # Nil
    PROVE  Tells([i \in DOMAIN list |-> The(list[i])], total)
<1> DEFINE I == ToSet(list)
           all == [i \in DOMAIN list |-> The(list[i])]
           one == [x \in I |-> <<The(x)>>]
           supplied == [x \in I |-> EntryUsed(x)]
<1>1. \A x : x \in I <=> \E i \in DOMAIN list : x = list[i]
  BY DEF ToSet
<1>2. \A w : w \in ToSet(all) <=> \E x \in I : w \in ToSet(one[x])
  <2>1. \A w : w \in ToSet(all) <=> \E i \in DOMAIN list : w = The(list[i])
    BY DEF ToSet
  <2>2. \A x \in I : ToSet(one[x]) = {The(x)}
    <3>1. \A w : ToSet(<<w>>) = {w}
      BY DEF ToSet
    <3> QED
      BY <3>1
  <2> HIDE DEF I, all, one
  <2> QED
    BY <1>1, <2>1, <2>2
<1>3. \A n : n \in total <=> \E x \in I : n \in supplied[x]
  BY <1>1 DEF Entries
<1>4. ASSUME NEW x \in I
      PROVE  Tells(one[x], supplied[x])
  <2>1. PICK s : Entry(x, s)
    BY DEF Entries
  <2>2. x # Nil
    BY <1>1
  <2>3. PICK w : /\ x = {w}
                 /\ Plain(w)
                 /\ IF w.unit = "percent"
                    THEN /\ AmountOf(w, "used") = s
                         /\ AmountOf(w, "remaining") = {100 - u : u \in s}
                    ELSE s = Nil
    BY <2>1, <2>2 DEF Entry
  <2>4. supplied[x] = s
    BY <2>1, <2>2, UsedOfEntry
  <2>5. one[x] = <<w>>
    BY <2>3, TheOnly
  <2> HIDE DEF supplied, one
  <2>6. Tells(<<w>>, s)
    BY <2>3, OneWindow
  <2> QED
    BY <2>4, <2>5, <2>6
<1> HIDE DEF all, one, supplied, I
<1>5. Together(all, total, I, one, supplied)
  BY <1>2, <1>3, <1>4 DEF Together
<1> QED
  BY <1>5, WindowsTogether DEF all

LEMMA AppendEntries ==
    ASSUME NEW s, NEW t, NEW a, NEW b, Entries(s, a), Entries(t, b)
    PROVE  Entries(s \o t, a \cup b)
<1> DEFINE S == ToSet(s) \cup ToSet(t)
           u == s \o t
           total == a \cup b
<1>1. s \in Seq(S) /\ t \in Seq(S)
  BY DEF Entries, IsList
<1>2. u \in Seq(S) /\ \A x : x \in ToSet(u) <=> x \in ToSet(s) \/ x \in ToSet(t)
  <2> HIDE DEF S
  <2> QED
    BY <1>1, Appended
<1>3. \A n : n \in total <=> n \in a \/ n \in b
  OBVIOUS
<1> HIDE DEF u, total
<1>4. ToSet(u) = S
  BY <1>2
<1>5. IsList(u)
  BY <1>2, <1>4 DEF IsList
<1>6. \A x \in ToSet(u) : \E z : Entry(x, z)
  BY <1>2 DEF Entries
<1>7. (\A x \in ToSet(u) : x # Nil) =>
          \A n : n \in total <=> \E x \in ToSet(u) : n \in EntryUsed(x)
  BY <1>2, <1>3 DEF Entries
<1> QED
  BY <1>5, <1>6, <1>7 DEF Entries, u, total

LEMMA OneEntry ==
    /\ Entries(<<>>, Nil)
    /\ \A x, s : Entry(x, s) => Entries(<<x>>, s)
<1>1. Entries(<<>>, Nil)
  <2>1. ToSet(<<>>) = {}
    BY DEF ToSet
  <2> QED
    BY <2>1 DEF Entries, IsList, Nil
<1>2. ASSUME NEW x, NEW s, Entry(x, s)
      PROVE  Entries(<<x>>, s)
  <2> DEFINE list == <<x>>
  <2>1. ToSet(list) = {x} /\ list \in Seq({x})
    BY DEF ToSet
  <2> HIDE DEF list
  <2>2. x # Nil => EntryUsed(x) = s
    BY <1>2, UsedOfEntry
  <2> QED
    BY <1>2, <2>1, <2>2 DEF Entries, IsList, list
<1> QED
  BY <1>1, <1>2

LEMMA TwoItems == \A x, y : <<x, y>> = <<x>> \o <<y>>
<1> SUFFICES ASSUME NEW x, NEW y
             PROVE  <<x, y>> = <<x>> \o <<y>>
  OBVIOUS
<1> DEFINE S == {x, y}
           s == <<x>>
           t == <<y>>
           v == <<x, y>>
<1>1. /\ s \in Seq(S) /\ Len(s) = 1 /\ s[1] = x
      /\ t \in Seq(S) /\ Len(t) = 1 /\ t[1] = y
      /\ v \in Seq(S) /\ Len(v) = 2 /\ v[1] = x /\ v[2] = y
  OBVIOUS
<1> HIDE DEF S, s, t, v
<1>2. /\ s \o t \in Seq(S) /\ Len(s \o t) = 2
      /\ (s \o t)[1] = x /\ (s \o t)[2] = y
  <2>1. /\ s \o t \in Seq(S)
        /\ Len(s \o t) = Len(s) + Len(t)
        /\ \A i \in 1..Len(s) : (s \o t)[i] = s[i]
        /\ \A i \in 1..Len(t) : (s \o t)[Len(s) + i] = t[i]
    BY <1>1, Concatenation
  <2>2. 1 \in 1..Len(s)
    BY <1>1
  <2>4. (s \o t)[1] = x
    BY <1>1, <2>1, <2>2
  <2>5. 1 \in 1..Len(t) /\ Len(s) + 1 = 2
    BY <1>1
  <2>6. (s \o t)[2] = y
    BY <1>1, <2>1, <2>5
  <2> QED
    BY <1>1, <2>1, <2>4, <2>6
<1>3. v = s \o t
  BY <1>1, <1>2
<1> QED
  BY <1>3 DEF s, t, v

ScopedRows == [kind : STRING, model : STRING, group : STRING,
               percent : Pointers(Int), resetsAt : Pointers(Int)]

LEMMA ClaudeLimits ==
    ASSUME NEW a \in ClaudeResponse
    PROVE  Entries(IF a.limits = Nil THEN LegacyWindows(a)
                   ELSE [i \in DOMAIN The(a.limits) |-> ScopedLimit(The(a.limits)[i])],
                   SuppliedByClaude(a))
<1>1. CASE a.limits = Nil
  <2> DEFINE used(window) == UNION {w.utilization : w \in window}
             Legacy(id, scope, window, duration) ==
                ClaudeWindow(id, scope, used(window), UNION {w.resetsAt : w \in window}, {duration})
             five == Legacy("five_hour", "account", a.fiveHour, 5)
             seven == Legacy("weekly", "account", a.sevenDay, 168)
             opus == Legacy("model_opus", "model", a.opus, 168)
             last == IF a.opus = Nil THEN <<>> ELSE <<opus>>
  <2>1. /\ a.fiveHour \in Pointers(LegacyWindow)
        /\ a.sevenDay \in Pointers(LegacyWindow)
        /\ a.opus \in Pointers(LegacyWindow)
    BY DEF ClaudeResponse
  <2>2. /\ Entry(five, used(a.fiveHour)) /\ Entry(seven, used(a.sevenDay))
        /\ Entry(opus, used(a.opus))
    BY <2>1, LegacyTells
  <2>3. a.opus = Nil => used(a.opus) = Nil
    BY DEF Nil
  <2>4. LegacyWindows(a) = <<five, seven>> \o last
    BY DEF LegacyWindows
  <2>5. SuppliedByClaude(a) = (used(a.fiveHour) \cup used(a.sevenDay)) \cup used(a.opus)
    BY <1>1 DEF SuppliedByClaude
  <2> HIDE DEF five, seven, opus, used
  <2>6. <<five, seven>> = <<five>> \o <<seven>>
    BY TwoItems
  <2>7. Entries(<<five, seven>>, used(a.fiveHour) \cup used(a.sevenDay))
    <3>1. Entries(<<five>>, used(a.fiveHour)) /\ Entries(<<seven>>, used(a.sevenDay))
      BY <2>2, OneEntry
    <3>2. Entries(<<five>> \o <<seven>>, used(a.fiveHour) \cup used(a.sevenDay))
      BY <3>1, AppendEntries
    <3> QED
      BY <2>6, <3>2
  <2>8. Entries(last, used(a.opus))
    BY <2>2, <2>3, OneEntry
  <2> HIDE DEF last
  <2>9. Entries(<<five, seven>> \o last, (used(a.fiveHour) \cup used(a.sevenDay)) \cup used(a.opus))
    BY <2>7, <2>8, AppendEntries
  <2> QED
    BY <1>1, <2>4, <2>5, <2>9
<1>2. CASE a.limits # Nil
  <2>1. a.limits \in Pointers(Seq(ScopedRows))
    BY DEF ClaudeResponse, ScopedRows
  <2>2. PICK L \in Seq(ScopedRows) : a.limits = {L} /\ The(a.limits) = L
    BY <1>2, <2>1, PointerCases
  <2> DEFINE list == [i \in DOMAIN L |-> ScopedLimit(L[i])]
             total == UNION {l.percent : l \in ToSet(L)}
  <2>3. \A i \in DOMAIN L : L[i] \in ScopedRows
    OBVIOUS
  <2>4. \A i \in DOMAIN L : Entry(ScopedLimit(L[i]), L[i].percent)
    <3>1. \A l \in ScopedRows : IntPointer(l.percent) /\ IntPointer(l.resetsAt)
      BY IntPointers DEF ScopedRows
    <3> QED
      BY <2>3, <3>1, ScopedTells
  <2>5. DOMAIN list = DOMAIN L /\ \A i \in DOMAIN L : list[i] = ScopedLimit(L[i])
    OBVIOUS
  <2>6. \A n : n \in total <=> \E i \in DOMAIN L : n \in L[i].percent
    BY DEF ToSet
  <2>7. \A x : x \in ToSet(list) <=> \E i \in DOMAIN list : x = list[i]
    BY DEF ToSet
  <2>8. IsList(list)
    <3>1. list \in Seq(ToSet(list))
      <4>1. DOMAIN L = 1..Len(L) /\ Len(L) \in Nat
        OBVIOUS
      <4>2. list = [i \in 1..Len(L) |-> list[i]] /\ \A i \in 1..Len(L) : list[i] \in ToSet(list)
        BY <2>5, <2>7, <4>1
      <4> HIDE DEF list
      <4> QED
        BY <4>1, <4>2
    <3> QED
      BY <3>1 DEF IsList
  <2> HIDE DEF list, total
  <2>9. \A x \in ToSet(list) : \E s : Entry(x, s)
    BY <2>4, <2>5, <2>7
  <2>10. ASSUME \A x \in ToSet(list) : x # Nil
         PROVE  \A n : n \in total <=> \E x \in ToSet(list) : n \in EntryUsed(x)
    <3>1. \A i \in DOMAIN L : EntryUsed(list[i]) = L[i].percent
      BY <2>4, <2>5, <2>7, <2>10, UsedOfEntry
    <3> QED
      BY <2>5, <2>6, <2>7, <3>1
  <2>11. Entries(list, total)
    BY <2>8, <2>9, <2>10 DEF Entries
  <2>12. SuppliedByClaude(a) = total
    BY <1>2, <2>2 DEF SuppliedByClaude, total
  <2> QED
    BY <1>2, <2>2, <2>11, <2>12 DEF list
<1> QED
  BY <1>1, <1>2

\* Claude's evidence shows what was supplied.
LEMMA ClaudeTells ==
    ASSUME NEW a \in ClaudeResponse, NEW account, NEW now \in Int
    PROVE  \A o \in NormalizeClaude(a, account, now) :
              /\ NormalizeClaude(a, account, now) = {o}
              /\ Evident(o) /\ o.provider = "claude" /\ o.observedAt = now
              /\ Tells(o.windows, SuppliedByClaude(a))
<1> DEFINE limits == IF a.limits = Nil THEN LegacyWindows(a)
                     ELSE [i \in DOMAIN The(a.limits) |-> ScopedLimit(The(a.limits)[i])]
           enabled == {e \in a.extra : e.enabled}
           extra == IF enabled = Nil THEN <<>> ELSE <<ExtraUsage(The(enabled))>>
           windows == limits \o extra
           all == [i \in DOMAIN windows |-> The(windows[i])]
           found == {o \in {Observation("claude", account, "verified", now, "complete", all)} : Valid(o)}
           refused == windows = <<>> \/ \E i \in DOMAIN windows : windows[i] = Nil
<1>1. NormalizeClaude(a, account, now) = IF refused THEN Nil ELSE found
  BY DEF NormalizeClaude
<1> HIDE DEF refused, found
<1> SUFFICES ASSUME ~refused
             PROVE  \A o \in found : /\ found = {o}
                                     /\ Evident(o) /\ o.provider = "claude" /\ o.observedAt = now
                                     /\ Tells(o.windows, SuppliedByClaude(a))
  BY <1>1 DEF Nil
<1>2. Entries(limits, SuppliedByClaude(a))
  BY ClaudeLimits
<1>3. Entries(extra, Nil)
  <2> DEFINE Extras == [enabled : BOOLEAN, used : Pointers(Int), limit : Pointers(Int),
                        places : Pointers(Int)]
  <2>1. a.extra \in Pointers(Extras)
    BY DEF ClaudeResponse
  <2> HIDE DEF Extras
  <2>2. CASE enabled = Nil
    BY <2>2, OneEntry
  <2>3. CASE enabled # Nil
    <3>1. PICK e \in Extras : a.extra = {e}
      BY <2>1, <2>3, PointerCases DEF Nil
    <3>2. enabled = {e}
      BY <2>3, <3>1 DEF Nil
    <3>3. The(enabled) = e
      BY <3>2, TheOnly
    <3>4. IntPointer(e.used) /\ IntPointer(e.limit)
      BY IntPointers DEF Extras
    <3>5. Entry(ExtraUsage(e), Nil)
      BY <3>4, ExtraTells
    <3> QED
      BY <2>3, <3>3, <3>5, OneEntry
  <2> QED
    BY <2>2, <2>3
<1>4. SuppliedByClaude(a) \cup Nil = SuppliedByClaude(a)
  BY DEF Nil
<1> HIDE DEF limits, extra
<1>5. Entries(windows, SuppliedByClaude(a))
  BY <1>2, <1>3, <1>4, AppendEntries
<1>6. \A i \in DOMAIN windows : windows[i] # Nil
  BY DEF refused
<1> HIDE DEF windows
<1>7. Tells(all, SuppliedByClaude(a)) /\ all = [i \in DOMAIN all |-> all[i]]
  BY <1>5, <1>6, EntriesTell
<1> HIDE DEF all
<1>8. Accepted(found, "claude", now, "complete", all, SuppliedByClaude(a))
  BY <1>7, ObservationAccepted DEF found
<1> QED
  BY <1>8 DEF Accepted

----------------------------------------------------------------------------
(* Cursor *)

LEMMA DecodedPointers ==
    ASSUME NEW a \in CursorResponse
    PROVE  /\ IntPointer(Decoded(a.plan).start) /\ IntPointer(Decoded(a.plan).end)
           /\ IntPointer(Decoded(a.sand).usage)
           /\ IntPointer(Decoded(a.sand).start) /\ IntPointer(Decoded(a.sand).reset)
<1>1. IntPointer({0}) /\ IntPointer({ZeroTime})
  BY DEF IntPointer, ZeroTime
<1>2. /\ Zero("usage") = 0
      /\ Zero("start") = ZeroTime /\ Zero("end") = ZeroTime /\ Zero("reset") = ZeroTime
  BY DEF Zero
<1>3. a.plan.body \in PlanCycle /\ a.sand.body \in SandStatus
  BY DEF CursorResponse, Supplements
<1>4. /\ DOMAIN a.plan.body = {"start", "end"}
      /\ IntPointer(a.plan.body.start) /\ IntPointer(a.plan.body.end)
      /\ DOMAIN a.sand.body = {"pooled", "usage", "start", "reset"}
      /\ IntPointer(a.sand.body.usage) /\ IntPointer(a.sand.body.start)
      /\ IntPointer(a.sand.body.reset)
  BY <1>3, IntPointers DEF PlanCycle, SandStatus
<1>5. /\ Decoded(a.plan).start \in {{Zero("start")}, a.plan.body.start}
      /\ Decoded(a.plan).end \in {{Zero("end")}, a.plan.body.end}
  BY <1>4 DEF Decoded
<1>6. /\ Decoded(a.sand).usage \in {{Zero("usage")}, a.sand.body.usage}
      /\ Decoded(a.sand).start \in {{Zero("start")}, a.sand.body.start}
      /\ Decoded(a.sand).reset \in {{Zero("reset")}, a.sand.body.reset}
  BY <1>4 DEF Decoded
<1> QED
  BY <1>1, <1>2, <1>4, <1>5, <1>6

LEMMA ClampedPointer ==
    ASSUME NEW p, IntPointer(p)
    PROVE  LET used == {Clamped(u) : u \in p}
           IN  IntPointer(used) /\ {100 - Clamped(u) : u \in p} = {100 - u : u \in used}
<1>1. CASE p = Nil
  BY <1>1 DEF IntPointer, Nil
<1>2. CASE p # Nil
  <2>1. PICK n \in Int : p = {n}
    BY <1>2 DEF IntPointer
  <2>2. Clamped(n) \in Int
    BY DEF Clamped
  <2>3. {Clamped(u) : u \in p} = {Clamped(n)} /\ {100 - Clamped(u) : u \in p} = {100 - Clamped(n)}
    BY <2>1
  <2> QED
    BY <2>2, <2>3 DEF IntPointer
<1> QED
  BY <1>1, <1>2

LEMMA CursorWindowTells ==
    ASSUME NEW name, NEW percent, IntPointer(percent), NEW start, IntPointer(start),
           NEW end, IntPointer(end)
    PROVE  LET w == CursorWindow(name, percent, start, end)
               used == {Clamped(u) : u \in percent}
           IN  IsList(<<w>>) /\ Tells(<<w>>, used)
<1> DEFINE id == <<"", name>>
           used == {Clamped(u) : u \in percent}
           duration == {e - s : e \in end, s \in start} \cap 1..MaxDuration
           pair == <<Limit(id, "used", OptionalNumber(used)),
                     Limit(id, "remaining", OptionalNumber({100 - Clamped(u) : u \in percent}))>>
           limits == pair \o CursorCycle(id, start, end)
           w == Window(id, "account", "percent", limits)
<1>1. CursorWindow(name, percent, start, end) = w
  BY DEF CursorWindow
<1>2. IntPointer(used) /\ {100 - Clamped(u) : u \in percent} = {100 - u : u \in used}
  BY ClampedPointer
<1>3. IntPointer(duration)
  <2>1. duration \in SUBSET {e - s : e \in end, s \in start}
    OBVIOUS
  <2> HIDE DEF duration
  <2> QED
    BY <2>1, SmallerPointers
<1>4. CursorCycle(id, start, end) = ResetLimits(id, end) \o DurationLimits(id, duration)
  BY DEF CursorCycle
<1> HIDE DEF id, used, duration
<1>5. limits \in PercentLists(id, used, end, duration)
  BY <1>2, <1>4 DEF PercentLists, CycleLists
<1> HIDE DEF limits
<1>6. PercentMeter(w, used)
  BY <1>2, <1>3, <1>5, PercentWindow
<1> HIDE DEF w
<1>7. IsList(<<w>>) /\ Tells(<<w>>, used)
  BY <1>6, OneWindow DEF PercentMeter
<1> QED
  BY <1>1, <1>7 DEF used

LEMMA SpendTells ==
    ASSUME NEW spend \in SpendLimit, NEW start, IntPointer(start), NEW end, IntPointer(end),
           SpendWindow(spend, start, end) # Nil
    PROVE  IsList(<<The(SpendWindow(spend, start, end))>>)
           /\ Tells(<<The(SpendWindow(spend, start, end))>>, Nil)
<1> DEFINE id == <<"", "spend_limit">>
           duration == {e - s : e \in end, s \in start} \cap 1..MaxDuration
           limit == Limit(id, "limit", OptionalNumber(spend.limit))
           remaining == Limit(id, "remaining", OptionalNumber(spend.remaining))
           used == Limit(id, "used", OptionalNumber(spend.used))
           R == ResetLimits(id, end)
           D == DurationLimits(id, duration)
           list == <<limit, remaining, used>>
           limits == list \o CursorCycle(id, start, end)
           w == Window(id, "account", "usd_cents", limits)
<1>1. SpendWindow(spend, start, end) = {w}
  BY DEF SpendWindow
<1>2. CursorCycle(id, start, end) = R \o D
  BY DEF CursorCycle
<1>3. IntPointer(duration)
  <2>1. duration \in SUBSET {e - s : e \in end, s \in start}
    OBVIOUS
  <2> HIDE DEF duration
  <2> QED
    BY <2>1, SmallerPointers
<1> HIDE DEF id, duration
<1>4. IntPointer(spend.limit) /\ IntPointer(spend.remaining) /\ IntPointer(spend.used)
  BY IntPointers DEF SpendLimit
<1>5. limit \in Limits(id) /\ remaining \in Limits(id) /\ used \in Limits(id)
  BY <1>4, NumberIsAmount, LimitIsOne
<1> HIDE DEF limit, remaining, used
<1>6. list \in Seq(Limits(id))
  BY <1>5
<1>7. R \in Seq(Limits(id)) /\ D \in Seq(Limits(id))
  BY <1>3, TimeLimits
<1> HIDE DEF list, R, D
<1>8. limits \in Seq(Limits(id))
  BY <1>2, <1>6, <1>7
<1> HIDE DEF limits
<1>9. Plain(w) /\ w.unit = "usd_cents"
  BY <1>8, PlainWindow
<1> HIDE DEF w
<1>10. The(SpendWindow(spend, start, end)) = w
  BY <1>1, TheOnly
<1>11. IsList(<<w>>) /\ Tells(<<w>>, Nil)
  BY <1>9, OneWindow
<1> QED
  BY <1>10, <1>11

LEMMA ThreeTell ==
    ASSUME NEW x, NEW y, NEW z, NEW a, NEW b, NEW c,
           Tells(<<x>>, a), Tells(<<y>>, b), Tells(<<z>>, c)
    PROVE  IsList(<<x, y, z>>) /\ Tells(<<x, y, z>>, (a \cup b) \cup c)
<1> DEFINE all == <<x, y, z>>
           one == <<x>>
           two == <<y>>
           three == <<z>>
           list == <<one, two, three>>
           supplied == <<a, b, c>>
           total == (a \cup b) \cup c
           I == 1..3
<1>1. ToSet(all) = {x, y, z} /\ ToSet(one) = {x} /\ ToSet(two) = {y} /\ ToSet(three) = {z}
  <2>1. DOMAIN all = {1, 2, 3} /\ all[1] = x /\ all[2] = y /\ all[3] = z
    OBVIOUS
  <2>2. ToSet(one) = {x} /\ ToSet(two) = {y} /\ ToSet(three) = {z}
    <3>1. \A w : ToSet(<<w>>) = {w}
      BY DEF ToSet
    <3> QED
      BY <3>1
  <2> HIDE DEF all
  <2>3. ToSet(all) = {x, y, z}
    BY <2>1 DEF ToSet
  <2> QED
    BY <2>2, <2>3
<1>2. IsList(all)
  BY <1>1 DEF IsList
<1>3. Tells(one, a) /\ Tells(two, b) /\ Tells(three, c)
  OBVIOUS
<1> HIDE DEF all, one, two, three
<1>4. /\ list[1] = one /\ list[2] = two /\ list[3] = three
      /\ supplied[1] = a /\ supplied[2] = b /\ supplied[3] = c
      /\ \A k : k \in I <=> k = 1 \/ k = 2 \/ k = 3
  OBVIOUS
<1>5. \A n : n \in total <=> n \in a \/ n \in b \/ n \in c
  OBVIOUS
<1> HIDE DEF list, supplied, total, I
<1>6. \A w : w \in ToSet(all) <=> \E k \in I : w \in ToSet(list[k])
  BY <1>1, <1>4
<1>7. \A n : n \in total <=> \E k \in I : n \in supplied[k]
  BY <1>4, <1>5
<1>8. \A k \in I : Tells(list[k], supplied[k])
  BY <1>3, <1>4
<1>9. Together(all, total, I, list, supplied)
  BY <1>6, <1>7, <1>8 DEF Together
<1>10. Tells(all, total)
  BY <1>9, WindowsTogether
<1> QED
  BY <1>2, <1>10 DEF all, total

\* What the meters of a plan show.
PlanShown(planUsage) ==
    {Clamped(u) : u \in UNION {p.total \cup p.auto \cup p.api : p \in planUsage}}

LEMMA PlanTells ==
    ASSUME NEW plan \in PlanUsage, NEW start, IntPointer(start), NEW end, IntPointer(end)
    PROVE  LET list == <<CursorWindow("included_usage", plan.total, start, end),
                         CursorWindow("auto_usage", plan.auto, start, end),
                         CursorWindow("api_usage", plan.api, start, end)>>
           IN  IsList(list) /\ Tells(list, PlanShown({plan}))
<1> DEFINE total == {Clamped(u) : u \in plan.total}
           auto == {Clamped(u) : u \in plan.auto}
           api == {Clamped(u) : u \in plan.api}
           x == CursorWindow("included_usage", plan.total, start, end)
           y == CursorWindow("auto_usage", plan.auto, start, end)
           z == CursorWindow("api_usage", plan.api, start, end)
<1>1. IntPointer(plan.total) /\ IntPointer(plan.auto) /\ IntPointer(plan.api)
  BY IntPointers DEF PlanUsage
<1>2. Tells(<<x>>, total) /\ Tells(<<y>>, auto) /\ Tells(<<z>>, api)
  BY <1>1, CursorWindowTells
<1>3. PlanShown({plan}) = (total \cup auto) \cup api
  BY DEF PlanShown
<1> HIDE DEF total, auto, api, x, y, z
<1>4. IsList(<<x, y, z>>) /\ Tells(<<x, y, z>>, (total \cup auto) \cup api)
  BY <1>2, ThreeTell
<1> QED
  BY <1>3, <1>4 DEF x, y, z

\* What the window of the second supplement shows, and what was in its answer.
BotShown(sand) ==
    IF sand.pooled = {TRUE} \/ sand.usage = Nil THEN Nil ELSE {Clamped(u) : u \in sand.usage}

BotSupplied(sand) ==
    {Clamped(u) : u \in {v \in sand.body.usage : sand.body.pooled # {TRUE}}}

LEMMA BotTells ==
    ASSUME NEW a \in CursorResponse
    PROVE  /\ IsList(GrokBotWindows(Decoded(a.sand)))
           /\ Tells(GrokBotWindows(Decoded(a.sand)), BotShown(Decoded(a.sand)))
           /\ \/ BotShown(Decoded(a.sand)) = BotSupplied(a.sand)
              \/ /\ a.sand.broken = "usage" /\ BotSupplied(a.sand) = Nil
                 /\ BotShown(Decoded(a.sand)) \subseteq {0}
<1> DEFINE sand == a.sand
           d == Decoded(sand)
<1>1. /\ IntPointer(d.usage) /\ IntPointer(d.start) /\ IntPointer(d.reset)
  BY DecodedPointers
<1>2. /\ IsList(GrokBotWindows(d))
      /\ Tells(GrokBotWindows(d), BotShown(d))
  <2> HIDE DEF d
  <2>1. CASE d.pooled = {TRUE} \/ d.usage = Nil
    BY <2>1, NoWindows DEF GrokBotWindows, BotShown
  <2>2. CASE ~(d.pooled = {TRUE} \/ d.usage = Nil)
    <3> DEFINE name == "grok_bot"
               w == CursorWindow(name, d.usage, d.start, d.reset)
               used == {Clamped(u) : u \in d.usage}
    <3>1. IsList(<<w>>) /\ Tells(<<w>>, used)
      BY <1>1, CursorWindowTells
    <3> QED
      BY <2>2, <3>1 DEF GrokBotWindows, BotShown
  <2> QED
    BY <2>1, <2>2
<1>3. /\ sand.body \in SandStatus
      /\ sand.broken \in DOMAIN sand.body => sand.body[sand.broken] = Nil
  BY DEF CursorResponse, Supplements
<1>4. /\ DOMAIN sand.body = {"pooled", "usage", "start", "reset"}
      /\ sand.body.pooled \in Pointers(BOOLEAN)
  BY <1>3 DEF SandStatus
<1>5. /\ d.pooled = IF sand.broken = "pooled" THEN {FALSE} ELSE sand.body.pooled
      /\ d.usage = IF sand.broken = "usage" THEN {0} ELSE sand.body.usage
  BY <1>4 DEF Decoded, Zero
<1>6. BotSupplied(sand) =
         IF sand.body.pooled = {TRUE} THEN Nil ELSE {Clamped(u) : u \in sand.body.usage}
  BY DEF BotSupplied, Nil
<1>7. BotShown(d) = IF d.pooled = {TRUE} THEN Nil ELSE {Clamped(u) : u \in d.usage}
  BY DEF BotShown, Nil
<1> HIDE DEF d
<1>8. CASE sand.broken = "usage"
  <2>1. sand.body.usage = Nil /\ d.usage = {0}
    BY <1>3, <1>4, <1>5, <1>8
  <2>2. {Clamped(u) : u \in {0}} = {0}
    BY DEF Clamped
  <2>3. BotShown(d) \subseteq {0}
    BY <1>7, <2>1, <2>2 DEF Nil
  <2>4. BotSupplied(sand) = Nil
    BY <1>6, <2>1 DEF Nil
  <2> QED
    BY <1>2, <1>8, <2>3, <2>4 DEF d
<1>9. CASE sand.broken = "pooled"
  <2>1. sand.body.pooled = Nil /\ d.pooled = {FALSE} /\ d.usage = sand.body.usage
    BY <1>3, <1>4, <1>5, <1>9
  <2>2. {FALSE} # {TRUE} /\ Nil # {TRUE}
    BY DEF Nil
  <2>3. BotShown(d) = BotSupplied(sand)
    BY <1>6, <1>7, <2>1, <2>2
  <2> QED
    BY <1>2, <2>3 DEF d
<1>10. CASE sand.broken \notin {"pooled", "usage"}
  <2>1. BotShown(d) = BotSupplied(sand)
    BY <1>5, <1>6, <1>7, <1>10
  <2> QED
    BY <1>2, <2>1 DEF d
<1> QED
  BY <1>8, <1>9, <1>10

\* What is shown is what was supplied, or has a zero from a broken supplement.
CursorShows(a, outcome, shown) ==
    /\ SuppliedByCursor(a) \subseteq shown
    /\ \/ shown \subseteq SuppliedByCursor(a)
       \/ /\ a.sand.broken = "usage" /\ outcome = "partial"
          /\ shown \subseteq SuppliedByCursor(a) \cup {0}

LEMMA CursorSupply ==
    ASSUME NEW a, NEW shown, NEW bot, NEW outcome,
           shown = (PlanShown(a.usage.planUsage) \cup Nil) \cup bot,
           \/ bot = BotSupplied(a.sand)
           \/ a.sand.broken = "usage" /\ BotSupplied(a.sand) = Nil /\ bot \subseteq {0},
           a.sand.broken = "usage" => outcome = "partial"
    PROVE  CursorShows(a, outcome, shown)
<1> DEFINE plan == PlanShown(a.usage.planUsage)
           sent == BotSupplied(a.sand)
<1>1. SuppliedByCursor(a) = plan \cup sent
  BY DEF SuppliedByCursor, PlanShown, BotSupplied
<1> HIDE DEF plan, sent
<1>2. shown = plan \cup bot
  BY DEF Nil, plan
<1>3. CASE bot = sent
  BY <1>1, <1>2, <1>3 DEF CursorShows
<1>4. CASE a.sand.broken = "usage" /\ sent = Nil /\ bot \subseteq {0}
  BY <1>1, <1>2, <1>4 DEF CursorShows, Nil
<1> QED
  BY <1>3, <1>4 DEF sent

\* Cursor's evidence shows what was supplied, but for that zero.
LEMMA CursorTells ==
    ASSUME NEW a \in CursorResponse, NEW now \in Int
    PROVE  \A o \in NormalizeCursor(a, now) :
              /\ NormalizeCursor(a, now) = {o}
              /\ Evident(o) /\ o.provider = "cursor" /\ o.observedAt = now
              /\ \E shown : Tells(o.windows, shown) /\ CursorShows(a, o.outcome, shown)
<1> DEFINE usage == a.usage
           cycle == Decoded(a.plan)
           start == IF usage.start # Nil THEN usage.start ELSE cycle.start
           end == IF usage.end # Nil THEN usage.end ELSE cycle.end
           meters == IF usage.planUsage = Nil THEN <<>>
                     ELSE LET plan == The(usage.planUsage)
                          IN  <<CursorWindow("included_usage", plan.total, start, end),
                                CursorWindow("auto_usage", plan.auto, start, end),
                                CursorWindow("api_usage", plan.api, start, end)>>
           spend == [s \in usage.spendLimit |-> SpendWindow(s, start, end)]
           refused == \E s \in usage.spendLimit : spend[s] = Nil
           spent == IF usage.spendLimit = Nil THEN <<>> ELSE <<The(spend[The(usage.spendLimit)])>>
           bot == GrokBotWindows(Decoded(a.sand))
           outcome == IF Failed(a.plan) \/ Failed(a.sand) THEN "partial" ELSE "complete"
           windows == meters \o spent \o bot
           account == ""
           found == {o \in {Observation("cursor", account, "unknown", now, outcome, windows)} : Valid(o)}
           planShown == PlanShown(usage.planUsage)
           botShown == BotShown(Decoded(a.sand))
           shown == (planShown \cup Nil) \cup botShown
<1>1. NormalizeCursor(a, now) = IF ~UsageDecodes(usage) \/ refused THEN Nil ELSE found
  BY DEF NormalizeCursor
<1>2. a.sand.broken = "usage" => outcome = "partial"
  BY DEF Failed
<1> HIDE DEF outcome, account, found
<1>3. CASE ~UsageDecodes(usage) \/ refused
  BY <1>1, <1>3 DEF Nil
<1>4. CASE UsageDecodes(usage) /\ ~refused
  <2>1. /\ usage.planUsage \in Pointers(PlanUsage) /\ usage.spendLimit \in Pointers(SpendLimit)
        /\ IntPointer(usage.start) /\ IntPointer(usage.end)
    BY IntPointers DEF CursorResponse
  <2>2. IntPointer(start) /\ IntPointer(end)
    BY <2>1, DecodedPointers
  <2> HIDE DEF start, end, cycle
  <2>3. IsList(meters) /\ Tells(meters, planShown)
    <3>1. CASE usage.planUsage = Nil
      BY <3>1, NoWindows DEF PlanShown, Nil
    <3>2. CASE usage.planUsage # Nil
      <4>1. PICK plan \in PlanUsage : usage.planUsage = {plan} /\ The(usage.planUsage) = plan
        BY <2>1, <3>2, PointerCases
      <4> QED
        BY <2>2, <3>2, <4>1, PlanTells
    <3> QED
      BY <3>1, <3>2
  <2>4. IsList(spent) /\ Tells(spent, Nil)
    <3>1. CASE usage.spendLimit = Nil
      BY <3>1, NoWindows
    <3>2. CASE usage.spendLimit # Nil
      <4>1. PICK s \in SpendLimit : usage.spendLimit = {s} /\ The(usage.spendLimit) = s
        BY <2>1, <3>2, PointerCases
      <4>2. spend[s] = SpendWindow(s, start, end)
        BY <4>1
      <4>3. SpendWindow(s, start, end) # Nil
        BY <1>4, <4>1, <4>2
      <4> HIDE DEF spend
      <4>4. spent = <<The(SpendWindow(s, start, end))>>
        BY <3>2, <4>1, <4>2
      <4> QED
        BY <2>2, <4>3, <4>4, SpendTells
    <3> QED
      BY <3>1, <3>2
  <2>5. /\ IsList(bot) /\ Tells(bot, botShown)
        /\ \/ botShown = BotSupplied(a.sand)
           \/ a.sand.broken = "usage" /\ BotSupplied(a.sand) = Nil /\ botShown \subseteq {0}
    BY BotTells
  <2>6. shown = (PlanShown(a.usage.planUsage) \cup Nil) \cup botShown
    OBVIOUS
  <2> HIDE DEF meters, spent, bot, planShown, botShown
  <2>7. IsList(windows) /\ Tells(windows, shown)
    <3>1. IsList(meters \o spent) /\ Tells(meters \o spent, planShown \cup Nil)
      BY <2>3, <2>4, AppendTells
    <3> QED
      BY <2>5, <3>1, AppendTells
  <2> HIDE DEF windows, shown
  <2>8. CursorShows(a, outcome, shown)
    BY <1>2, <2>5, <2>6, CursorSupply
  <2>9. Accepted(found, "cursor", now, outcome, windows, shown)
    <3>1. windows = [i \in DOMAIN windows |-> windows[i]]
      BY <2>7, ListIsFunction
    <3> QED
      BY <2>7, <3>1, ObservationAccepted DEF found
  <2>10. NormalizeCursor(a, now) = found
    BY <1>1, <1>4
  <2> QED
    BY <2>8, <2>9, <2>10 DEF Accepted
<1> QED
  BY <1>3, <1>4

----------------------------------------------------------------------------
(* Codex *)

LEMMA RateWindowTells ==
    ASSUME NEW raw \in RateWindow, NEW prefix, NEW fallback, NEW scope, NEW now \in Int
    PROVE  Entry(NormalizeWindow(raw, prefix, fallback, scope, now), raw.used)
<1> DEFINE length == IF raw.length = Nil THEN 0 ELSE The(raw.length)
           id == WindowId(prefix, fallback, length)
           whole == IF length > 0 THEN {length \div Resolution} ELSE Nil
           reset == ResetTime(raw, now)
           D == DurationLimits(id, whole)
           R == ResetLimits(id, reset)
           list == <<Limit(id, "used", Number(The(raw.used))),
                     Limit(id, "remaining", Number(100 - The(raw.used)))>>
           limits == list \o D \o R
           unit == "percent"
           w == Window(id, scope, unit, limits)
           refused == \/ ~WindowDecodes(raw)
                      \/ raw.used = Nil \/ ~raw.used \subseteq 0..100
                      \/ length \notin 0..MaxLength
                      \/ raw.resetAt = Nil /\ ~raw.resetAfter \subseteq 0..MaxDelay
<1>1. NormalizeWindow(raw, prefix, fallback, scope, now) = IF refused THEN Nil ELSE {w}
  BY DEF NormalizeWindow
<1>2. CASE refused
  BY <1>1, <1>2 DEF Entry
<1>3. CASE ~refused
  <2>1. /\ IntPointer(raw.used) /\ IntPointer(raw.length) /\ IntPointer(raw.resetAfter)
        /\ raw.resetAt \in Pointers(RawReset)
    BY IntPointers DEF RateWindow
  <2>2. PICK n \in Int : raw.used = {n}
    BY <1>3, <2>1 DEF IntPointer
  <2>3. length \in Int
    BY <1>3
  <2>4. IntPointer(whole)
    <3>1. CASE length > 0
      <4>1. length \div Resolution \in Int
        BY <2>3 DEF Resolution
      <4> HIDE DEF length
      <4> QED
        BY <3>1, <4>1 DEF IntPointer
    <3>2. CASE ~(length > 0)
      BY <3>2 DEF IntPointer
    <3> QED
      BY <3>1, <3>2
  <2>5. IntPointer(reset)
    <3>1. IntPointer({now + delay : delay \in raw.resetAfter})
      <4>1. CASE raw.resetAfter = Nil
        BY <4>1 DEF IntPointer, Nil
      <4>2. CASE raw.resetAfter # Nil
        <5>1. PICK m \in Int : raw.resetAfter = {m}
          BY <2>1, <4>2 DEF IntPointer
        <5>2. {now + delay : delay \in {m}} = {now + m} /\ now + m \in Int
          OBVIOUS
        <5> QED
          BY <5>1, <5>2 DEF IntPointer
      <4> QED
        BY <4>1, <4>2
    <3>2. IntPointer({r.time : r \in raw.resetAt})
      <4>1. CASE raw.resetAt = Nil
        BY <4>1 DEF IntPointer, Nil
      <4>2. CASE raw.resetAt # Nil
        <5>1. PICK r \in RawReset : raw.resetAt = {r}
          BY <2>1, <4>2, PointerCases
        <5>2. {x.time : x \in {r}} = {r.time} /\ r.time \in Int
          BY DEF RawReset
        <5> QED
          BY <5>1, <5>2 DEF IntPointer
      <4> QED
        BY <4>1, <4>2
    <3>3. \E p : IntPointer(p) /\ reset \in SUBSET p
      <4>1. CASE raw.resetAt = Nil
        BY <3>1, <4>1 DEF ResetTime
      <4>2. CASE raw.resetAt # Nil
        BY <3>2, <4>2 DEF ResetTime
      <4> QED
        BY <4>1, <4>2
    <3> HIDE DEF reset
    <3> QED
      BY <3>3, SmallerPointers
  <2>6. limits \in PercentLists(id, raw.used, reset, whole)
    <3>1. The(raw.used) = n
      BY <2>2, TheOnly
    <3>2. {100 - u : u \in raw.used} = {100 - n}
      BY <2>2
    <3>3. /\ Number(n) = OptionalNumber(raw.used)
          /\ Number(100 - n) = OptionalNumber({100 - u : u \in raw.used})
      <4>1. 100 - n \in Int
        OBVIOUS
      <4> QED
        BY <2>2, <3>2, <4>1, AmountsOfNumbers
    <3>4. list = <<Limit(id, "used", OptionalNumber(raw.used)),
                   Limit(id, "remaining", OptionalNumber({100 - u : u \in raw.used}))>>
      BY <3>1, <3>3
    <3> HIDE DEF id, whole, reset, list
    <3> QED
      BY <3>4 DEF PercentLists, CycleLists
  <2> HIDE DEF id, whole, reset, limits, unit
  <2>7. PercentMeter(w, raw.used)
    BY <2>1, <2>4, <2>5, <2>6, PercentWindow DEF unit
  <2> HIDE DEF w, refused
  <2> QED
    BY <1>1, <1>3, <2>7 DEF Entry, PercentMeter
<1> QED
  BY <1>2, <1>3

MissingWindow(id, scope) == Window(id, scope, "percent", <<Limit(id, "remaining", Unknown)>>)

LEMMA MissingTells ==
    ASSUME NEW id, NEW scope
    PROVE  Entry({MissingWindow(id, scope)}, Nil)
<1> DEFINE l == Limit(id, "remaining", Unknown)
           list == <<l>>
           w == MissingWindow(id, scope)
<1>1. l \in Limits(id)
  BY NumberIsAmount, LimitIsOne
<1>2. l.field = "remaining" /\ l.value = Unknown
  BY DEF Limit
<1> HIDE DEF l
<1>3. list \in Seq(Limits(id)) /\ ToSet(list) = {l}
  BY <1>1 DEF ToSet
<1> HIDE DEF list
<1>4. Plain(w) /\ w.limits = list /\ w.unit = "percent"
  BY <1>3, PlainWindow DEF MissingWindow, list, l
<1> HIDE DEF w
<1>5. AmountOf(w, "used") = Nil
  <2>1. {k \in ToSet(w.limits) : k.field = "used"} = {}
    BY <1>2, <1>3, <1>4
  <2> QED
    BY <2>1 DEF AmountOf, Nil
<1>6. AmountOf(w, "remaining") = Nil
  <2>1. {k \in ToSet(w.limits) : k.field = "remaining"} = {l}
    BY <1>2, <1>3, <1>4
  <2>2. Unknown.amount = Nil
    BY DEF Unknown
  <2> QED
    BY <1>2, <2>1, <2>2 DEF AmountOf, Nil
<1>7. {100 - u : u \in Nil} = Nil
  BY DEF Nil
<1> QED
  BY <1>4, <1>5, <1>6, <1>7 DEF Entry, w

\* No list of windows, or the one that shows the percentages.
Group(x, supplied) == x = Nil \/ \E list : x = {list} /\ Tells(list, supplied)

\* The percentages of a rate limit, if there is one.
RateUsed(limit) == UNION {w.used : w \in UNION {l.primary \cup l.secondary : l \in limit}}

LEMMA RateTells ==
    ASSUME NEW limit \in RateLimit, NEW prefix, NEW scope, NEW now \in Int
    PROVE  Group(RateWindows(limit, prefix, scope, now), RateUsed({limit}))
<1> DEFINE raw == <<limit.primary, limit.secondary>>
           parsed == [i \in 1..2 |->
               UNION {NormalizeWindow(w, prefix, Fallbacks[i], scope, now) : w \in raw[i]}]
           Taken(id) == \E i \in 1..2 : \E w \in parsed[i] : w.id = id
           Name(i) == <<prefix, Fallbacks[IF Taken(<<prefix, Fallbacks[i]>>) THEN 3 - i ELSE i]>>
           Missing(i) == MissingWindow(Name(i), scope)
           all == [i \in 1..2 |-> IF parsed[i] = Nil THEN Missing(i) ELSE The(parsed[i])]
           refused == \E i \in 1..2 : raw[i] # Nil /\ parsed[i] = Nil
           supplied == [i \in 1..2 |-> UNION {w.used : w \in raw[i]}]
           list == [i \in 1..2 |-> <<all[i]>>]
           total == RateUsed({limit})
           I == 1..2
<1>1. RateWindows(limit, prefix, scope, now) = IF refused THEN Nil ELSE {all}
  BY DEF RateWindows, MissingWindow
<1>2. CASE refused
  BY <1>1, <1>2 DEF Group
<1>3. CASE ~refused
  <2>1. \A i \in 1..2 : raw[i] \in Pointers(RateWindow)
    BY DEF RateLimit
  <2>2. total = supplied[1] \cup supplied[2]
    BY DEF RateUsed
  <2>3. \A n : n \in total <=> \E k \in I : n \in supplied[k]
    <3>1. \A k : k \in I <=> k = 1 \/ k = 2
      OBVIOUS
    <3> HIDE DEF total, supplied, I
    <3> QED
      BY <2>2, <3>1
  <2>4. \A x : x \in ToSet(all) <=> \E k \in I : x \in ToSet(list[k])
    <3>1. \A w : ToSet(<<w>>) = {w}
      BY DEF ToSet
    <3>2. \A k \in I : ToSet(list[k]) = {all[k]}
      BY <3>1
    <3>3. DOMAIN all = I
      OBVIOUS
    <3> HIDE DEF all, list, I
    <3> QED
      BY <3>2, <3>3 DEF ToSet
  <2>5. ASSUME NEW k \in I
        PROVE  Tells(list[k], supplied[k])
    <3>1. \E x : x = {all[k]} /\ Entry(x, supplied[k])
      <4>1. CASE raw[k] = Nil
        <5>1. parsed[k] = Nil /\ supplied[k] = Nil
          <6>1. parsed[k] = UNION {NormalizeWindow(w, prefix, Fallbacks[k], scope, now) : w \in raw[k]}
            OBVIOUS
          <6>2. supplied[k] = UNION {w.used : w \in raw[k]}
            OBVIOUS
          <6> HIDE DEF parsed, supplied, raw
          <6> QED
            BY <4>1, <6>1, <6>2 DEF Nil
        <5>2. all[k] = Missing(k)
          BY <5>1
        <5>3. Entry({Missing(k)}, Nil)
          <6> HIDE DEF Name
          <6> QED
            BY MissingTells
        <5> HIDE DEF Missing, all, supplied
        <5> QED
          BY <5>1, <5>2, <5>3
      <4>2. CASE raw[k] # Nil
        <5>1. PICK v \in RateWindow : raw[k] = {v}
          BY <2>1, <4>2, PointerCases
        <5> DEFINE x == NormalizeWindow(v, prefix, Fallbacks[k], scope, now)
        <5>2. parsed[k] = x /\ supplied[k] = v.used
          <6>1. parsed[k] = UNION {NormalizeWindow(w, prefix, Fallbacks[k], scope, now) : w \in raw[k]}
            OBVIOUS
          <6>2. supplied[k] = UNION {w.used : w \in raw[k]}
            OBVIOUS
          <6> HIDE DEF parsed, supplied, raw
          <6> QED
            BY <5>1, <6>1, <6>2
        <5>3. parsed[k] # Nil
          BY <1>3, <4>2
        <5>4. all[k] = The(parsed[k])
          BY <5>3
        <5>5. Entry(x, v.used)
          BY RateWindowTells
        <5> HIDE DEF x, all, parsed, supplied
        <5>6. PICK w : x = {w}
          BY <5>2, <5>3, <5>5 DEF Entry
        <5>7. all[k] = w
          BY <5>2, <5>4, <5>6, TheOnly
        <5> QED
          BY <5>2, <5>5, <5>6, <5>7
      <4> QED
        BY <4>1, <4>2
    <3>2. list[k] = <<all[k]>>
      OBVIOUS
    <3> DEFINE s == supplied[k]
               v == all[k]
    <3> HIDE DEF all, supplied, list
    <3>3. /\ Plain(v)
          /\ IF v.unit = "percent"
             THEN /\ AmountOf(v, "used") = s
                  /\ AmountOf(v, "remaining") = {100 - u : u \in s}
             ELSE s = Nil
      BY <3>1 DEF Entry, Nil
    <3> HIDE DEF v, s
    <3>4. Tells(<<v>>, s)
      BY <3>3, OneWindow
    <3> QED
      BY <3>2, <3>4 DEF v, s
  <2> HIDE DEF total, supplied, list, all, I
  <2>6. Together(all, total, I, list, supplied)
    BY <2>3, <2>4, <2>5 DEF Together
  <2>7. Tells(all, total)
    BY <2>6, WindowsTogether
  <2> QED
    BY <1>1, <1>3, <2>7 DEF Group, total
<1> QED
  BY <1>2, <1>3

GroupUsed(x) ==
    UNION {AmountOf(w, "used") : w \in {v \in ToSet(The(x)) : v.unit = "percent"}}

\* A list of groups; when none of them is refused, the total is what they show.
Groups(list, total) ==
    /\ IsList(list)
    /\ \A x \in ToSet(list) : \E s : Group(x, s)
    /\ (\A x \in ToSet(list) : x # Nil) =>
            \A n : n \in total <=> \E x \in ToSet(list) : n \in GroupUsed(x)

LEMMA UsedOfGroup ==
    ASSUME NEW x, NEW s, Group(x, s), x # Nil
    PROVE  GroupUsed(x) = s /\ Tells(The(x), s)
<1>1. PICK list : x = {list} /\ Tells(list, s)
  BY DEF Group
<1>2. The(x) = list
  BY <1>1, TheOnly
<1> QED
  BY <1>1, <1>2 DEF GroupUsed, Tells

LEMMA AppendGroups ==
    ASSUME NEW s, NEW t, NEW a, NEW b, Groups(s, a), Groups(t, b)
    PROVE  Groups(s \o t, a \cup b)
<1> DEFINE S == ToSet(s) \cup ToSet(t)
           u == s \o t
           total == a \cup b
<1>1. s \in Seq(S) /\ t \in Seq(S)
  BY DEF Groups, IsList
<1>2. u \in Seq(S) /\ \A x : x \in ToSet(u) <=> x \in ToSet(s) \/ x \in ToSet(t)
  <2> HIDE DEF S
  <2> QED
    BY <1>1, Appended
<1>3. \A n : n \in total <=> n \in a \/ n \in b
  OBVIOUS
<1> HIDE DEF u, total
<1>4. ToSet(u) = S
  BY <1>2
<1>5. IsList(u)
  BY <1>2, <1>4 DEF IsList
<1>6. \A x \in ToSet(u) : \E z : Group(x, z)
  BY <1>2 DEF Groups
<1>7. (\A x \in ToSet(u) : x # Nil) =>
          \A n : n \in total <=> \E x \in ToSet(u) : n \in GroupUsed(x)
  BY <1>2, <1>3 DEF Groups
<1> QED
  BY <1>5, <1>6, <1>7 DEF Groups, u, total

LEMMA OneGroup ==
    ASSUME NEW x, NEW s, Group(x, s)
    PROVE  Groups(<<x>>, s)
<1> DEFINE list == <<x>>
<1>1. ToSet(list) = {x} /\ list \in Seq({x})
  BY DEF ToSet
<1> HIDE DEF list
<1>2. x # Nil => GroupUsed(x) = s
  BY UsedOfGroup
<1> QED
  BY <1>1, <1>2 DEF Groups, IsList, list

LEMMA GroupsTell ==
    ASSUME NEW parts, NEW total, Groups(parts, total)
    PROVE  \/ AllWindows(parts) = Nil
           \/ \E windows : /\ AllWindows(parts) = {windows}
                           /\ windows = [x \in DOMAIN windows |-> windows[x]]
                           /\ Tells(windows, total)
<1> DEFINE lists == [i \in DOMAIN parts |-> The(parts[i])]
           supplied == [i \in DOMAIN parts |-> GroupUsed(parts[i])]
           windows == Flatten(lists)
<1>1. CASE \E i \in DOMAIN parts : parts[i] = Nil
  BY <1>1 DEF AllWindows
<1>2. CASE ~\E i \in DOMAIN parts : parts[i] = Nil
  <2>1. AllWindows(parts) = {windows}
    BY <1>2 DEF AllWindows
  <2>2. \A x : x \in ToSet(parts) <=> \E i \in DOMAIN parts : x = parts[i]
    BY DEF ToSet
  <2>3. ASSUME NEW i \in DOMAIN lists
        PROVE  Tells(lists[i], supplied[i])
    <3>1. PICK s : Group(parts[i], s)
      BY <2>2 DEF Groups
    <3>2. GroupUsed(parts[i]) = s /\ Tells(The(parts[i]), s)
      BY <1>2, <3>1, UsedOfGroup
    <3> QED
      BY <3>2
  <2>4. DOMAIN lists = DOMAIN parts /\ \A i \in DOMAIN parts : supplied[i] = GroupUsed(parts[i])
    OBVIOUS
  <2>5. UNION {supplied[i] : i \in DOMAIN lists} = total
    <3>1. \A n : n \in total <=> \E x \in ToSet(parts) : n \in GroupUsed(x)
      BY <1>2, <2>2 DEF Groups
    <3>2. \A n : n \in total <=> \E i \in DOMAIN parts : n \in supplied[i]
      BY <2>2, <2>4, <3>1
    <3> HIDE DEF lists, supplied
    <3> QED
      BY <2>4, <3>2
  <2> HIDE DEF lists, supplied
  <2>6. /\ Tells(windows, UNION {supplied[i] : i \in DOMAIN lists})
        /\ windows = [x \in DOMAIN windows |-> windows[x]]
    BY <2>3, FlattenTells
  <2> HIDE DEF windows
  <2> QED
    BY <2>1, <2>5, <2>6
<1> QED
  BY <1>1, <1>2

LEMMA OptionalTells ==
    ASSUME NEW limit \in Pointers(RateLimit), NEW prefix, NEW scope, NEW now \in Int
    PROVE  Group(OptionalWindows(limit, prefix, scope, now), RateUsed(limit))
<1>1. CASE limit = Nil
  <2>1. OptionalWindows(limit, prefix, scope, now) = {<<>>}
    BY <1>1 DEF OptionalWindows
  <2>2. RateUsed(limit) = Nil
    BY <1>1 DEF RateUsed, Nil
  <2> QED
    BY <2>1, <2>2, NoWindows DEF Group
<1>2. CASE limit # Nil
  <2>1. PICK l \in RateLimit : limit = {l} /\ The(limit) = l
    BY <1>2, PointerCases
  <2> QED
    BY <1>2, <2>1, RateTells DEF OptionalWindows
<1> QED
  BY <1>1, <1>2

FeatureRows == [feature : STRING, limit : Pointers(RateLimit)]

LEMMA AdditionalTells ==
    ASSUME NEW row \in FeatureRows, NEW now \in Int
    PROVE  Group(AdditionalWindows(row, now), RateUsed(row.limit))
<1> DEFINE prefix == "model_" \o FeatureId(row.feature) \o "_"
           windows == RateWindows(The(row.limit), prefix, "model", now)
<1>1. AdditionalWindows(row, now) \in {Nil, windows}
  BY DEF AdditionalWindows
<1>2. row.limit = Nil => AdditionalWindows(row, now) = Nil
  BY DEF AdditionalWindows
<1> HIDE DEF prefix
<1>3. row.limit \in Pointers(RateLimit)
  BY DEF FeatureRows
<1>4. CASE row.limit = Nil
  BY <1>2, <1>4 DEF Group
<1>5. CASE row.limit # Nil
  <2>1. PICK l \in RateLimit : row.limit = {l} /\ The(row.limit) = l
    BY <1>3, <1>5, PointerCases
  <2>2. Group(windows, RateUsed(row.limit))
    BY <2>1, RateTells
  <2> HIDE DEF windows
  <2> QED
    BY <1>1, <2>2 DEF Group
<1> QED
  BY <1>4, <1>5

LEMMA CreditsTell ==
    ASSUME NEW credits, IntPointer(credits.balance), credits.unlimited \in Pointers(BOOLEAN)
    PROVE  Group(CreditWindows(credits), Nil)
<1> DEFINE id == <<"", "credits">>
           Credits(value) == <<Window(id, "account", "credits", <<Limit(id, "remaining", value)>>)>>
<1>1. CreditWindows(credits) =
         CASE credits.unlimited = {TRUE} -> {Credits(Unlimited)}
           [] credits.unlimited # {TRUE} /\ credits.balance # Nil ->
                 {Credits(v) : v \in NumericValue(The(credits.balance), FALSE)}
           [] credits.unlimited = {FALSE} /\ credits.balance = Nil -> {Credits(Unknown)}
           [] credits.unlimited = Nil /\ credits.balance = Nil -> {<<>>}
  BY DEF CreditWindows
<1> HIDE DEF id
<1>2. ASSUME NEW v \in Amounts
      PROVE  Tells(Credits(v), Nil)
  <2> DEFINE l == Limit(id, "remaining", v)
             list == <<l>>
             w == Window(id, "account", "credits", list)
  <2>1. l \in Limits(id)
    BY LimitIsOne
  <2> HIDE DEF l
  <2>2. list \in Seq(Limits(id))
    BY <2>1
  <2> HIDE DEF list
  <2>3. Plain(w) /\ w.unit = "credits"
    BY <2>2, PlainWindow
  <2> HIDE DEF w
  <2>4. Tells(<<w>>, Nil)
    BY <2>3, OneWindow
  <2> QED
    BY <2>4 DEF w, list, l
<1> HIDE DEF Credits
<1> DEFINE Yes == {TRUE}
           No == {FALSE}
<1>7. Yes # No /\ Nil # Yes /\ Nil # No
  BY DEF Nil
<1> HIDE DEF Yes, No
<1>8. /\ credits.unlimited = Yes => CreditWindows(credits) = {Credits(Unlimited)}
      /\ credits.unlimited = No /\ credits.balance = Nil => CreditWindows(credits) = {Credits(Unknown)}
      /\ credits.unlimited = Nil /\ credits.balance = Nil => CreditWindows(credits) = {<<>>}
      /\ credits.unlimited # Yes /\ credits.balance # Nil =>
            CreditWindows(credits) = {Credits(v) : v \in NumericValue(The(credits.balance), FALSE)}
  <2>1. CreditWindows(credits) =
         CASE credits.unlimited = Yes -> {Credits(Unlimited)}
           [] credits.unlimited # Yes /\ credits.balance # Nil ->
                 {Credits(v) : v \in NumericValue(The(credits.balance), FALSE)}
           [] credits.unlimited = No /\ credits.balance = Nil -> {Credits(Unknown)}
           [] credits.unlimited = Nil /\ credits.balance = Nil -> {<<>>}
    BY <1>1 DEF Yes, No
  <2> QED
    BY <1>7, <2>1
<1>3. CASE credits.unlimited = Yes
  BY <1>2, <1>3, <1>8, NumberIsAmount DEF Group
<1>4. CASE credits.unlimited # Yes /\ credits.balance # Nil
  <2>1. PICK n \in Int : credits.balance = {n}
    BY <1>4 DEF IntPointer
  <2>2. NumericValue(The(credits.balance), FALSE) \in {Nil, {Number(n)}}
    BY <2>1, TheOnly DEF NumericValue
  <2>3. CreditWindows(credits) = {Credits(v) : v \in NumericValue(The(credits.balance), FALSE)}
    BY <1>4, <1>8
  <2>4. CreditWindows(credits) \in {Nil, {Credits(Number(n))}}
    BY <2>2, <2>3 DEF Nil
  <2> QED
    BY <1>2, <2>4, NumberIsAmount DEF Group
<1>5. CASE credits.unlimited = No /\ credits.balance = Nil
  BY <1>2, <1>5, <1>8, NumberIsAmount DEF Group
<1>6. CASE credits.unlimited = Nil /\ credits.balance = Nil
  BY <1>6, <1>8, NoWindows DEF Group
<1>9. credits.unlimited \in {Nil, Yes, No}
  <2>1. credits.unlimited = Nil \/ \E b \in BOOLEAN : credits.unlimited = {b}
    BY PointerCases
  <2> QED
    BY <2>1 DEF Yes, No
<1> QED
  BY <1>3, <1>4, <1>5, <1>6, <1>9

LEMMA FeaturesTell ==
    ASSUME NEW L \in Seq(FeatureRows), NEW now \in Int
    PROVE  Groups([i \in DOMAIN L |-> AdditionalWindows(L[i], now)],
                  UNION {RateUsed(f.limit) : f \in ToSet(L)})
<1> DEFINE list == [i \in DOMAIN L |-> AdditionalWindows(L[i], now)]
           total == UNION {RateUsed(f.limit) : f \in ToSet(L)}
<1>1. \A i \in DOMAIN L : L[i] \in FeatureRows
  OBVIOUS
<1>2. \A i \in DOMAIN L : Group(AdditionalWindows(L[i], now), RateUsed(L[i].limit))
  BY <1>1, AdditionalTells
<1>3. DOMAIN list = DOMAIN L /\ \A i \in DOMAIN L : list[i] = AdditionalWindows(L[i], now)
  OBVIOUS
<1>4. \A n : n \in total <=> \E i \in DOMAIN L : n \in RateUsed(L[i].limit)
  BY DEF ToSet
<1>5. \A x : x \in ToSet(list) <=> \E i \in DOMAIN list : x = list[i]
  BY DEF ToSet
<1>6. IsList(list)
  <2>1. DOMAIN L = 1..Len(L) /\ Len(L) \in Nat
    OBVIOUS
  <2>2. list = [i \in 1..Len(L) |-> list[i]] /\ \A i \in 1..Len(L) : list[i] \in ToSet(list)
    BY <1>3, <1>5, <2>1
  <2> HIDE DEF list
  <2>3. list \in Seq(ToSet(list))
    BY <2>1, <2>2
  <2> QED
    BY <2>3 DEF IsList
<1> HIDE DEF list, total
<1>7. \A x \in ToSet(list) : \E s : Group(x, s)
  BY <1>2, <1>3, <1>5
<1>8. ASSUME \A x \in ToSet(list) : x # Nil
      PROVE  \A n : n \in total <=> \E x \in ToSet(list) : n \in GroupUsed(x)
  <2>1. \A i \in DOMAIN L : GroupUsed(list[i]) = RateUsed(L[i].limit)
    BY <1>2, <1>3, <1>5, <1>8, UsedOfGroup
  <2> QED
    BY <1>3, <1>4, <1>5, <2>1
<1>9. Groups(list, total)
  BY <1>6, <1>7, <1>8 DEF Groups
<1> QED
  BY <1>9 DEF list, total

\* Codex's evidence shows what was supplied.
LEMMA CodexTells ==
    ASSUME NEW a \in CodexResponse, NEW account, NEW now \in Int
    PROVE  \A o \in NormalizeCodex(a, account, now) :
              /\ NormalizeCodex(a, account, now) = {o}
              /\ Evident(o) /\ o.provider = "codex" /\ o.observedAt = now
              /\ Tells(o.windows, SuppliedByCodex(a))
<1> DEFINE none == ""
           rate == OptionalWindows(a.rateLimit, none, "account", now)
           review == OptionalWindows(a.codeReview, "code_review_", "code_review", now)
           additional == [i \in DOMAIN a.additional |-> AdditionalWindows(a.additional[i], now)]
           credits == CreditWindows(a.credits)
           parts == <<rate, review>> \o additional \o <<credits>>
           binding == IF a.account = account THEN "verified" ELSE "historical"
           observations == {Observation("codex", account, binding, now, "complete", w) :
                               w \in AllWindows(parts)}
           refused == a.account \notin {none, account} \/ a.rateLimit = Nil
           found == {o \in observations : Valid(o)}
           rateUsed == RateUsed(a.rateLimit)
           reviewUsed == RateUsed(a.codeReview)
           featuresUsed == UNION {RateUsed(f.limit) : f \in ToSet(a.additional)}
           total == ((rateUsed \cup reviewUsed) \cup featuresUsed) \cup Nil
<1>1. NormalizeCodex(a, account, now) = IF refused THEN Nil ELSE found
  BY DEF NormalizeCodex
<1>2. /\ a.rateLimit \in Pointers(RateLimit) /\ a.codeReview \in Pointers(RateLimit)
      /\ a.additional \in Seq(FeatureRows)
      /\ IntPointer(a.credits.balance) /\ a.credits.unlimited \in Pointers(BOOLEAN)
  BY IntPointers DEF CodexResponse, FeatureRows
<1> HIDE DEF none, binding, refused
<1>3. Group(rate, rateUsed) /\ Group(review, reviewUsed)
  BY <1>2, OptionalTells
<1>4. Groups(additional, featuresUsed)
  BY <1>2, FeaturesTell
<1>5. Group(credits, Nil)
  BY <1>2, CreditsTell
<1>6. SuppliedByCodex(a) = total
  <2>1. total = rateUsed \cup reviewUsed \cup featuresUsed
    BY DEF Nil
  <2> DEFINE limits == a.rateLimit \cup a.codeReview
                       \cup UNION {f.limit : f \in ToSet(a.additional)}
  <2>2. SuppliedByCodex(a) = RateUsed(limits)
    BY DEF SuppliedByCodex, RateUsed
  <2>3. RateUsed(limits) = rateUsed \cup reviewUsed \cup featuresUsed
    <3>1. \A s, n : n \in RateUsed(s) <=>
             \E l \in s : \E w \in l.primary \cup l.secondary : n \in w.used
      BY DEF RateUsed
    <3>2. \A l : l \in limits <=> \/ l \in a.rateLimit \/ l \in a.codeReview
                                   \/ \E f \in ToSet(a.additional) : l \in f.limit
      OBVIOUS
    <3>3. \A n : n \in featuresUsed <=> \E f \in ToSet(a.additional) : n \in RateUsed(f.limit)
      OBVIOUS
    <3> HIDE DEF limits, featuresUsed
    <3>4. \A n : n \in RateUsed(limits) <=>
                    n \in rateUsed \/ n \in reviewUsed \/ n \in featuresUsed
      BY <3>1, <3>2, <3>3
    <3> HIDE DEF rateUsed, reviewUsed
    <3> QED
      BY <3>4
  <2> QED
    BY <2>1, <2>2, <2>3
<1> HIDE DEF rate, review, additional, credits, rateUsed, reviewUsed, featuresUsed
<1>7. Groups(parts, total)
  <2>1. Groups(<<rate>>, rateUsed) /\ Groups(<<review>>, reviewUsed) /\ Groups(<<credits>>, Nil)
    BY <1>3, <1>5, OneGroup
  <2>2. Groups(<<rate>> \o <<review>>, rateUsed \cup reviewUsed)
    BY <2>1, AppendGroups
  <2>3. <<rate, review>> = <<rate>> \o <<review>>
    BY TwoItems
  <2> DEFINE two == <<rate, review>>
             used == rateUsed \cup reviewUsed
             last == <<credits>>
  <2>4. Groups(two, used)
    BY <2>2, <2>3
  <2> HIDE DEF two, used
  <2>5. Groups(two \o additional, used \cup featuresUsed)
    BY <1>4, <2>4, AppendGroups
  <2> DEFINE three == two \o additional
             sum == used \cup featuresUsed
  <2>6. Groups(last, Nil)
    BY <2>1
  <2> HIDE DEF three, sum, last
  <2>7. Groups(three \o last, sum \cup Nil)
    BY <2>5, <2>6, AppendGroups DEF three, sum
  <2> QED
    BY <2>7 DEF three, sum, last, two, used
<1> HIDE DEF parts, total
<1>8. CASE refused \/ AllWindows(parts) = Nil
  BY <1>1, <1>8 DEF Nil
<1>9. CASE ~(refused \/ AllWindows(parts) = Nil)
  <2>1. PICK windows : /\ AllWindows(parts) = {windows}
                       /\ windows = [x \in DOMAIN windows |-> windows[x]]
                       /\ Tells(windows, total)
    BY <1>7, <1>9, GroupsTell
  <2> DEFINE one == {o \in {Observation("codex", account, binding, now, "complete", windows)} : Valid(o)}
  <2>2. found = one
    BY <2>1
  <2>3. Accepted(one, "codex", now, "complete", windows, total)
    BY <2>1, ObservationAccepted
  <2> HIDE DEF found, one
  <2>4. NormalizeCodex(a, account, now) = one
    BY <1>1, <1>9, <2>2
  <2> QED
    BY <1>6, <2>3, <2>4 DEF Accepted
<1> QED
  BY <1>8, <1>9

----------------------------------------------------------------------------
(* Grok *)

LEMMA FieldsAt ==
    ASSUME NEW contents, NEW fields \in Messages(contents), NEW number
    PROVE  /\ IntPointer(ScalarAt(fields, number))
           /\ MessageAt(fields, number) = Nil \/ \E m \in contents : MessageAt(fields, number) = {m}
           /\ ScalarAt(fields, number) = Nil <=> MessageAt(fields, number) = Nil
<1> DEFINE Field == [number : Nat, wire : Nat, scalar : Int, fields : contents]
           found == AllAt(fields, number)
<1>1. CASE found = {}
  BY <1>1 DEF ScalarAt, MessageAt, IntPointer, Nil
<1>2. CASE found # {}
  <2>1. fields \in Seq(Field)
    BY DEF Messages
  <2>2. found \subseteq DOMAIN fields /\ DOMAIN fields = 1..Len(fields) /\ Len(fields) \in Nat
    BY <2>1 DEF AllAt
  <2>3. Max(found) \in found
    <3> HIDE DEF found
    <3>1. found \subseteq 1..Len(fields)
      BY <2>2
    <3> QED
      BY <1>2, <2>2, <3>1, MaxIsGreatest
  <2> DEFINE f == fields[Max(found)]
  <2>4. f \in Field
    <3>1. Max(found) \in DOMAIN fields
      BY <2>2, <2>3
    <3> HIDE DEF found, Field
    <3> QED
      BY <2>1, <3>1
  <2>5. f.scalar \in Int /\ f.fields \in contents
    BY <2>4
  <2>6. ScalarAt(fields, number) = {f.scalar} /\ MessageAt(fields, number) = {f.fields}
    BY <1>2 DEF ScalarAt, MessageAt
  <2> HIDE DEF f
  <2> QED
    BY <2>5, <2>6 DEF IntPointer, Nil
<1> QED
  BY <1>1, <1>2

LEMMA TimeOfPeriod ==
    ASSUME NEW raw \in Messages(Messages({<<>>})), ~PeriodRefused(raw), NEW end \in 2..3
    PROVE  TimeAt(raw, end) \in Int
<1> DEFINE none == <<>>
           Time == Messages({none})
<1>1. raw \in Messages(Time)
  OBVIOUS
<1> HIDE DEF none
<1> HIDE DEF Time
<1>2. MessageAt(raw, end) # Nil /\ \A time \in MessageAt(raw, end) : ~TimestampRefused(time)
  BY DEF PeriodRefused
<1>3. PICK time \in Time : MessageAt(raw, end) = {time}
  BY <1>1, <1>2, FieldsAt
<1>4. ScalarAt(time, 1) # Nil
  BY <1>2, <1>3 DEF TimestampRefused
<1>5. IntPointer(ScalarAt(time, 1))
  BY FieldsAt DEF Time
<1>6. PICK n \in Int : ScalarAt(time, 1) = {n}
  BY <1>4, <1>5 DEF IntPointer
<1> QED
  BY <1>3, <1>6, TheOnly DEF TimeAt

\* The cycle of an answer: none, or one with two times.
Timed(cycle) == cycle = Nil \/ \E c : cycle = {c} /\ c.start \in Int /\ c.reset \in Int

LEMMA CycleIsTimed ==
    ASSUME NEW a \in GrokResponse, ~CycleRefused(a)
    PROVE  LET cycle == {Period(raw) : raw \in MessageAt(a, 8)}
           IN  Timed(cycle) /\ (cycle = Nil <=> MessageAt(a, 8) = Nil)
<1> DEFINE Raw == Messages(Messages({<<>>}))
           cycle == {Period(raw) : raw \in MessageAt(a, 8)}
<1>1. a \in Messages(Raw)
  BY DEF GrokResponse
<1>2. CASE MessageAt(a, 8) = Nil
  BY <1>2 DEF Timed, Nil
<1>3. CASE MessageAt(a, 8) # Nil
  <2>1. PICK raw \in Raw : MessageAt(a, 8) = {raw}
    <3> HIDE DEF Raw
    <3> QED
      BY <1>1, <1>3, FieldsAt
  <2>2. ~PeriodRefused(raw)
    BY <2>1 DEF CycleRefused
  <2>3. TimeAt(raw, 2) \in Int /\ TimeAt(raw, 3) \in Int
    BY <2>2, TimeOfPeriod
  <2>4. Period(raw).start = TimeAt(raw, 2) /\ Period(raw).reset = TimeAt(raw, 3)
    BY DEF Period
  <2>5. cycle = {Period(raw)}
    BY <2>1
  <2> DEFINE period == Period(raw)
  <2> HIDE DEF period
  <2>6. cycle = {period} /\ period.start \in Int /\ period.reset \in Int
    BY <2>3, <2>4, <2>5 DEF period
  <2> HIDE DEF cycle
  <2>7. Timed(cycle)
    BY <2>6 DEF Timed
  <2>8. cycle # Nil
    BY <2>6 DEF Nil
  <2> QED
    BY <1>3, <2>7, <2>8 DEF cycle
<1> QED
  BY <1>2, <1>3

LEMMA GrokWindowTells ==
    ASSUME NEW id, NEW scope, NEW used, IntPointer(used), NEW cycle, Timed(cycle)
    PROVE  LET w == GrokWindow(id, scope, used, cycle)
           IN  PercentMeter(w, used) /\ w.id = id
<1> DEFINE whole == {c.reset - c.start : c \in cycle}
           reset == {c.reset : c \in cycle}
           pair == <<Limit(id, "used", OptionalNumber(used)),
                     Limit(id, "remaining", OptionalNumber({100 - u : u \in used}))>>
           limits == pair \o DurationLimits(id, whole) \o ResetLimits(id, reset)
           unit == "percent"
           w == Window(id, scope, unit, limits)
<1>1. GrokWindow(id, scope, used, cycle) = w
  BY DEF GrokWindow
<1>2. IntPointer(whole) /\ IntPointer(reset)
  <2>1. CASE cycle = Nil
    BY <2>1 DEF IntPointer, Nil
  <2>2. CASE cycle # Nil
    <3>1. PICK c : cycle = {c} /\ c.start \in Int /\ c.reset \in Int
      BY <2>2 DEF Timed
    <3>2. whole = {c.reset - c.start} /\ reset = {c.reset}
      BY <3>1
    <3> QED
      BY <3>1, <3>2 DEF IntPointer
  <2> QED
    BY <2>1, <2>2
<1>3. limits \in PercentLists(id, used, reset, whole)
  BY DEF PercentLists, CycleLists
<1> HIDE DEF limits, whole, reset, unit
<1>4. PercentMeter(w, used) /\ w.id = id
  BY <1>2, <1>3, PercentWindow DEF unit
<1> QED
  BY <1>1, <1>4

LEMMA OmittedIsPointer ==
    ASSUME NEW used, IntPointer(used), NEW cycle
    PROVE  IntPointer(Omitted(used, cycle))
BY DEF Omitted, IntPointer

\* The windows that must say until when.
Dated == {<<"", "daily">>, <<"", "weekly">>, <<"", "acu">>}

LEMMA NotDated ==
    /\ \A name \in {"credits", "prepaid"} : <<"", name>> \notin Dated
    /\ \A kind : <<"", "product", kind>> \notin Dated
<1> DEFINE e == ""
<1>1. Dated = {<<e, "daily">>, <<e, "weekly">>, <<e, "acu">>}
  BY DEF Dated
<1> HIDE DEF e
<1>2. \A name \in {"credits", "prepaid"} : <<e, name>> \notin Dated
  BY <1>1
<1>3. \A kind : <<e, "product", kind>> \notin Dated
  <2> SUFFICES ASSUME NEW kind
               PROVE  <<e, "product", kind>> \notin Dated
    OBVIOUS
  <2> DEFINE id == <<e, "product", kind>>
  <2>1. id[2] = "product"
    OBVIOUS
  <2>2. \A x \in Dated : x[2] \in {"daily", "weekly", "acu"}
    BY <1>1
  <2> HIDE DEF id
  <2> QED
    BY <2>1, <2>2 DEF id
<1> QED
  BY <1>2, <1>3 DEF e

\* A window of Grok has a gap when its percentage is unknown.
GapOfMeter(w, used) == PercentMeter(w, used) /\ (VisibleGap(w) <=> used = Nil)

LEMMA MeterHasGap ==
    ASSUME NEW w, NEW used, PercentMeter(w, used),
           w.id \notin Dated
    PROVE  GapOfMeter(w, used)
BY DEF GapOfMeter, PercentMeter, VisibleGap, Dated

LEMMA ProductTells ==
    ASSUME NEW product, IntPointer(ScalarAt(product, 2)), NEW cycle, Timed(cycle)
    PROVE  GapOfMeter(ProductWindow(product, cycle), Omitted(ScalarAt(product, 2), cycle))
<1> DEFINE kind == ProductKind(product)
           id == <<"", "product", kind>>
           scope == "product:" \o ToString(kind)
           used == Omitted(ScalarAt(product, 2), cycle)
           w == GrokWindow(id, scope, used, cycle)
<1>1. ProductWindow(product, cycle) = w
  BY DEF ProductWindow
<1>2. IntPointer(used)
  BY OmittedIsPointer
<1>3. id \notin Dated
  BY NotDated
<1> HIDE DEF id, scope, used
<1>4. PercentMeter(w, used) /\ w.id = id
  BY <1>2, GrokWindowTells
<1> HIDE DEF w
<1>5. GapOfMeter(w, used)
  BY <1>3, <1>4, MeterHasGap
<1> QED
  BY <1>1, <1>5 DEF used

LEMMA ProductsTell ==
    ASSUME NEW I, NEW percents, \A i \in I : IntPointer(percents[i]),
           NEW all, all = [i \in I |-> all[i]], \A i \in I : GapOfMeter(all[i], percents[i])
    PROVE  /\ Tells(all, UNION {percents[i] : i \in I})
           /\ Gap(all) <=> \E i \in I : percents[i] = Nil
<1> DEFINE list == [i \in I |-> <<all[i]>>]
           total == UNION {percents[i] : i \in I}
<1>1. \A x : x \in ToSet(all) <=> \E i \in I : x = all[i]
  <2>1. DOMAIN all = I
    OBVIOUS
  <2> QED
    BY <2>1 DEF ToSet
<1>2. \A i \in I : list[i] = <<all[i]>>
  OBVIOUS
<1>3. \A i \in I : ToSet(list[i]) = {all[i]}
  <2>1. \A w : ToSet(<<w>>) = {w}
    BY DEF ToSet
  <2> QED
    BY <1>2, <2>1
<1>4. \A n : n \in total <=> \E i \in I : n \in percents[i]
  OBVIOUS
<1> HIDE DEF list, total
<1>5. \A x : x \in ToSet(all) <=> \E i \in I : x \in ToSet(list[i])
  BY <1>1, <1>3
<1>6. ASSUME NEW i \in I
      PROVE  Tells(list[i], percents[i])
  <2> DEFINE w == all[i]
             used == percents[i]
  <2>1. PercentMeter(w, used)
    BY DEF GapOfMeter
  <2>2. list[i] = <<w>>
    BY <1>2
  <2> HIDE DEF w, used
  <2>3. Tells(<<w>>, used)
    BY <2>1, OneWindow DEF PercentMeter
  <2> QED
    BY <2>2, <2>3 DEF used
<1>7. Together(all, total, I, list, percents)
  BY <1>4, <1>5, <1>6 DEF Together
<1>8. Tells(all, total)
  BY <1>7, WindowsTogether
<1>9. Gap(all) <=> \E i \in I : percents[i] = Nil
  BY <1>1 DEF Gap, GapOfMeter
<1> QED
  BY <1>8, <1>9 DEF total

LEMMA SharedTells ==
    ASSUME NEW used, IntPointer(used), used # Nil, NEW cycle, Timed(cycle)
    PROVE  LET list == <<GrokWindow(<<"", "credits">>, "account", used, cycle)>>
           IN  Tells(list, used) /\ ~Gap(list)
<1> DEFINE id == <<"", "credits">>
           w == GrokWindow(id, "account", used, cycle)
<1>1. id \notin Dated
  BY NotDated
<1> HIDE DEF id
<1>2. PercentMeter(w, used) /\ w.id = id
  BY GrokWindowTells
<1> HIDE DEF w
<1>3. ~VisibleGap(w)
  BY <1>1, <1>2, MeterHasGap DEF GapOfMeter
<1>4. Tells(<<w>>, used) /\ ~Gap(<<w>>)
  BY <1>2, <1>3, OneWindow DEF PercentMeter
<1> QED
  BY <1>4 DEF w, id

LEMMA PrepaidTells ==
    ASSUME NEW prepaid, IntPointer(ScalarAt(prepaid, 1))
    PROVE  Tells(<<PrepaidWindow(prepaid)>>, Nil) /\ ~Gap(<<PrepaidWindow(prepaid)>>)
<1> DEFINE id == <<"", "prepaid">>
           balance == IF ScalarAt(prepaid, 1) = Nil THEN 0 ELSE The(ScalarAt(prepaid, 1))
           l == Limit(id, "remaining", Number(balance))
           list == <<l>>
           w == Window(id, "account", "credits", list)
<1>1. PrepaidWindow(prepaid) = w
  BY DEF PrepaidWindow
<1>2. id \notin Dated
  BY NotDated
<1>3. balance \in Int
  <2>1. CASE ScalarAt(prepaid, 1) = Nil
    BY <2>1
  <2>2. CASE ScalarAt(prepaid, 1) # Nil
    <3>1. PICK n \in Int : ScalarAt(prepaid, 1) = {n}
      BY <2>2 DEF IntPointer
    <3> QED
      BY <2>2, <3>1, TheOnly
  <2> QED
    BY <2>1, <2>2
<1> HIDE DEF id, balance
<1>4. Number(balance) \in Amounts /\ Number(balance) # Unknown
  <2>1. Number(balance).amount = {balance} /\ Unknown.amount = Nil
    BY DEF Number, Unknown
  <2> QED
    BY <1>3, <2>1, NumberIsAmount DEF Nil
<1>5. l \in Limits(id) /\ l.value = Number(balance)
  <2>1. l \in Limits(id)
    BY <1>4, LimitIsOne
  <2> QED
    BY <2>1 DEF Limit
<1> HIDE DEF l
<1>6. list \in Seq(Limits(id)) /\ ToSet(list) = {l}
  BY <1>5 DEF ToSet
<1> HIDE DEF list
<1>7. Plain(w) /\ w.id = id /\ w.unit = "credits" /\ w.limits = list
  BY <1>6, PlainWindow
<1> HIDE DEF w
<1>8. ~VisibleGap(w)
  BY <1>2, <1>4, <1>5, <1>6, <1>7 DEF VisibleGap, Dated
<1>9. Tells(<<w>>, Nil) /\ ~Gap(<<w>>)
  BY <1>7, <1>8, OneWindow
<1> QED
  BY <1>1, <1>9

\* Grok's evidence shows what was supplied, and is partial with a gap.
LEMMA GrokTells ==
    ASSUME NEW a \in GrokResponse, NEW now \in Int
    PROVE  \A o \in NormalizeGrok(a, now) :
              /\ NormalizeGrok(a, now) = {o}
              /\ Evident(o) /\ o.provider = "grok" /\ o.observedAt = now
              /\ Tells(o.windows, SuppliedByGrok(a))
              /\ o.outcome = "partial" <=> Gap(o.windows)
<1> DEFINE cycle == {Period(raw) : raw \in MessageAt(a, 8)}
           shared == Omitted(ScalarAt(a, 1), cycle)
           I == AllAt(a, 7)
           products == [i \in I |-> a[i].fields]
           credits == IF shared = Nil THEN <<>>
                      ELSE <<GrokWindow(<<"", "credits">>, "account", shared, cycle)>>
           middle == [i \in DOMAIN products |-> ProductWindow(products[i], cycle)]
           prepaid == IF MessageAt(a, 12) = Nil THEN <<>>
                      ELSE <<PrepaidWindow(The(MessageAt(a, 12)))>>
           lists == <<credits, middle, prepaid>>
           windows == Flatten(lists)
           partial == \E p \in ToSet(products) : Omitted(ScalarAt(p, 2), cycle) = Nil
           refused == \/ CycleRefused(a)
                      \/ Misread(a, 1, Fixed32) \/ ~ScalarAt(a, 1) \subseteq 0..100
                      \/ \E i \in AllAt(a, 7) : a[i].wire # Bytes
                      \/ \E p \in ToSet(products) : ProductRefused(p)
                      \/ Misread(a, 12, Bytes)
                      \/ \E p \in MessageAt(a, 12) : Misread(p, 1, Varint)
           empty == refused \/ DOMAIN windows = {}
           outcome == IF partial THEN "partial" ELSE "complete"
           account == ""
           found == {o \in {Observation("grok", account, "unknown", now, outcome, windows)} : Valid(o)}
           percents == [i \in I |-> Omitted(ScalarAt(a[i].fields, 2), cycle)]
           shown == UNION {percents[i] : i \in I}
           none == Nil
           supplied == <<shared, shown, none>>
<1>1. NormalizeGrok(a, now) = IF empty THEN Nil ELSE found
  BY DEF NormalizeGrok
<1>2. ~empty => ~CycleRefused(a)
  OBVIOUS
<1> HIDE DEF empty, found, refused, account
<1> SUFFICES ASSUME ~empty
             PROVE  \A o \in found : /\ found = {o}
                                     /\ Evident(o) /\ o.provider = "grok" /\ o.observedAt = now
                                     /\ Tells(o.windows, SuppliedByGrok(a))
                                     /\ o.outcome = "partial" <=> Gap(o.windows)
  BY <1>1 DEF Nil
<1> DEFINE Product == Messages(Messages({<<>>}))
           Field == [number : Nat, wire : Nat, scalar : Int, fields : Product]
<1>3. a \in Messages(Product) /\ a \in Seq(Field)
  BY DEF GrokResponse, Messages
<1>4. Timed(cycle) /\ (cycle = Nil <=> MessageAt(a, 8) = Nil)
  BY <1>2, CycleIsTimed
<1> HIDE DEF Product
<1>5. IntPointer(ScalarAt(a, 1))
  BY <1>3, FieldsAt
<1>6. ASSUME NEW p \in Product, NEW number
      PROVE  IntPointer(ScalarAt(p, number))
  BY FieldsAt DEF Product
<1>7. ASSUME NEW i \in I
      PROVE  a[i].fields \in Product
  <2>1. i \in DOMAIN a
    BY DEF AllAt
  <2>2. a[i] \in Field
    <3> HIDE DEF Field
    <3> QED
      BY <1>3, <2>1
  <2> QED
    BY <2>2
<1> HIDE DEF cycle, Field
<1>8. Tells(credits, shared) /\ ~Gap(credits)
  <2>1. IntPointer(shared)
    BY <1>5, OmittedIsPointer
  <2> HIDE DEF shared
  <2>2. CASE shared = Nil
    BY <2>2, NoWindows
  <2>3. CASE shared # Nil
    BY <1>4, <2>1, <2>3, SharedTells
  <2> QED
    BY <2>2, <2>3
<1>9. Tells(middle, shown) /\ (Gap(middle) <=> \E i \in I : percents[i] = Nil)
  <2>1. \A i \in I : IntPointer(ScalarAt(a[i].fields, 2))
    BY <1>6, <1>7
  <2>2. ASSUME NEW i \in I
        PROVE  IntPointer(percents[i])
    BY <2>1, OmittedIsPointer
  <2>3. ASSUME NEW i \in I
        PROVE  GapOfMeter(middle[i], percents[i])
    <3>1. middle[i] = ProductWindow(a[i].fields, cycle)
      OBVIOUS
    <3>2. percents[i] = Omitted(ScalarAt(a[i].fields, 2), cycle)
      OBVIOUS
    <3> HIDE DEF middle, percents
    <3> QED
      BY <1>4, <2>1, <3>1, <3>2, ProductTells
  <2>4. middle = [i \in I |-> middle[i]]
    OBVIOUS
  <2> HIDE DEF middle, percents, I
  <2> QED
    BY <2>2, <2>3, <2>4, ProductsTell
<1>10. Tells(prepaid, none) /\ ~Gap(prepaid)
  <2>1. CASE MessageAt(a, 12) = Nil
    BY <2>1, NoWindows
  <2>2. CASE MessageAt(a, 12) # Nil
    <3>1. PICK p \in Product : MessageAt(a, 12) = {p}
      BY <1>3, <2>2, FieldsAt
    <3> QED
      BY <1>6, <2>2, <3>1, TheOnly, PrepaidTells
  <2> QED
    BY <2>1, <2>2
<1>11. partial <=> \E i \in I : percents[i] = Nil
  <2>1. \A p : p \in ToSet(products) <=> \E i \in I : p = a[i].fields
    BY DEF ToSet
  <2> QED
    BY <2>1
<1>12. SuppliedByGrok(a) = shared \cup shown
  <2> DEFINE omitted == IF MessageAt(a, 8) = Nil THEN Nil ELSE {0}
             S == {ScalarAt(a, 1)} \cup {ScalarAt(a[i].fields, 2) : i \in AllAt(a, 7)}
  <2>1. SuppliedByGrok(a) = UNION {IF p = Nil THEN omitted ELSE p : p \in S}
    BY DEF SuppliedByGrok
  <2>2. \A p : Omitted(p, cycle) = IF p = Nil THEN omitted ELSE p
    BY <1>4 DEF Omitted
  <2>3. SuppliedByGrok(a) = UNION {Omitted(p, cycle) : p \in S}
    <3> HIDE DEF omitted, S
    <3> QED
      BY <2>1, <2>2
  <2>4. UNION {Omitted(p, cycle) : p \in S} = shared \cup shown
    <3>1. \A n : n \in shown <=> \E i \in I : n \in Omitted(ScalarAt(a[i].fields, 2), cycle)
      OBVIOUS
    <3> HIDE DEF shown
    <3>2. \A n : n \in UNION {Omitted(p, cycle) : p \in S} <=> n \in shared \cup shown
      BY <3>1
    <3> QED
      BY <3>2
  <2> QED
    BY <2>3, <2>4
<1> HIDE DEF credits, middle, prepaid, shared, shown, partial, percents
<1>13. /\ Tells(windows, SuppliedByGrok(a))
       /\ windows = [x \in DOMAIN windows |-> windows[x]]
       /\ Gap(windows) <=> partial
  <2>1. /\ DOMAIN lists = 1..3 /\ lists[1] = credits /\ lists[2] = middle /\ lists[3] = prepaid
        /\ supplied[1] = shared /\ supplied[2] = shown /\ supplied[3] = none
    OBVIOUS
  <2> HIDE DEF lists, supplied, none
  <2>2. \A i \in DOMAIN lists : Tells(lists[i], supplied[i])
    BY <1>8, <1>9, <1>10, <2>1
  <2>3. /\ Tells(windows, UNION {supplied[i] : i \in DOMAIN lists})
        /\ windows = [x \in DOMAIN windows |-> windows[x]]
        /\ Gap(windows) <=> \E i \in DOMAIN lists : Gap(lists[i])
    BY <2>2, FlattenTells
  <2>4. UNION {supplied[i] : i \in DOMAIN lists} = shared \cup shown
    BY <2>1 DEF none, Nil
  <2>5. Gap(windows) <=> Gap(middle)
    BY <1>8, <1>10, <2>1, <2>3
  <2> HIDE DEF windows
  <2> QED
    BY <1>9, <1>11, <1>12, <2>3, <2>4, <2>5
<1>14. outcome = "partial" <=> partial
  OBVIOUS
<1> HIDE DEF windows, outcome
<1>15. Accepted(found, "grok", now, outcome, windows, SuppliedByGrok(a))
  BY <1>13, ObservationAccepted DEF found
<1> QED
  BY <1>13, <1>14, <1>15 DEF Accepted

----------------------------------------------------------------------------
(* The pace another hour gives *)

LEMMA SameKnownPaces ==
    ASSUME NEW o, NEW h, SameEvidence(o, h), NEW inputs, NEW now, NEW later
    PROVE  KnownPace(h, inputs, later) = KnownPace(o, inputs, now)
BY DEF KnownPace, TimeLeft, SameEvidence

\* The pace the value command prints is a known one.
LEMMA PaceValue ==
    ASSUME NEW o, NEW c, NEW now \in Int, Evident(o),
           c.provider = o.provider, c.provider \in Providers, Exact(c), c.field = "pace",
           Value(o, c, now).text # Nil
    PROVE  \E i \in Matching(o, c) :
              Value(o, c, now).text =
                  {<<"pace", KnownPace(o, PaceInputs(o.windows[i]), now).status>>}
<1> DEFINE p == WithPace(o, now)
           selection == SelectValue(p, c, c.freshness)
<1>1. Presentable(p) /\ Repaced(o, p)
  BY WithPaceIsPresentable, WithPaceIsValid
<1>2. Chosen(p, c, selection)
  BY <1>1, SelectValueAnswer DEF Repaced
<1>3. Value(o, c, now) =
        CASE o.outcome = "unavailable" -> Refusal({"unavailable"})
          [] o.outcome # "unavailable" /\ selection.error # Nil -> Refusal(selection.error)
          [] o.outcome # "unavailable" /\ selection.error = Nil ->
                [Silence EXCEPT !.text = selection.text, !.error = PartialError(p)]
  BY DEF Value
<1>4. \A e : Refusal(e).text = Nil
  BY DEF Refusal, Silence
<1>5. \A t, e : [Silence EXCEPT !.text = t, !.error = e].text = t
  BY DEF Silence
<1>6. \A i \in DOMAIN o.windows : p.windows[i].pace = DerivePace(o, o.windows[i], now)
  BY WithPaceIsValid
<1> HIDE DEF p, selection
<1>7. selection.error = Nil /\ Value(o, c, now).text = selection.text
  BY <1>3, <1>4, <1>5
<1>8. PICK x \in DOMAIN Candidates(p, c) :
         Candidates(p, c)[x] # Nil /\ selection.text = Candidates(p, c)[x]
  BY <1>2, <1>7 DEF Chosen, Nil
<1>9. x \in Matching(o, c) /\ Candidates(p, c)[x] = PaceText(DerivePace(o, o.windows[x], now))
  <2>1. DOMAIN Candidates(p, c) = Matching(p, c) /\ Candidates(p, c)[x] = PaceText(p.windows[x].pace)
    BY <1>1, <1>8, CandidatesOfPaces DEF Presentable
  <2>2. Matching(p, c) = Matching(o, c) /\ Matching(o, c) \subseteq DOMAIN o.windows
    BY <1>1, SameMatches DEF Matching
  <2> QED
    BY <1>6, <1>8, <2>1, <2>2
<1> DEFINE w == o.windows[x]
<1>10. w.unit = "percent"
  <2>1. CASE w.unit # "percent"
    <3>1. DerivePace(o, w, now) = Nil
      BY <2>1 DEF DerivePace
    <3>2. PaceText(Nil) = Nil
      BY DEF PaceText, Nil
    <3> QED
      BY <1>8, <1>9, <3>1, <3>2
  <2> QED
    BY <2>1
<1>11. PICK q : DerivePace(o, w, now) = {q} /\ Derived(o, w, now, q)
  BY <1>10, PaceDerived
<1>12. PaceText({q}) = IF q.status \in {"unknown", "not_applicable"} THEN Nil
                       ELSE {<<"pace", q.status>>}
  BY DEF PaceText, Nil
<1>13. q.status # "unknown"
  BY <1>8, <1>9, <1>11, <1>12
<1>14. q.status = KnownPace(o, PaceInputs(w), now).status
  BY <1>11, <1>13 DEF Derived
<1>15. PaceText({q}) = {<<"pace", q.status>>}
  BY <1>8, <1>9, <1>11, <1>12
<1> QED
  BY <1>7, <1>8, <1>9, <1>11, <1>14, <1>15

LEMMA PaceValueStays ==
    ASSUME NEW o, NEW h, NEW c, NEW now \in Int, NEW later \in Int,
           Evident(o), Evident(h), SameEvidence(o, h),
           c.provider = o.provider, c.provider \in Providers, Exact(c), c.field = "pace",
           Value(o, c, now).text # Nil, Value(h, c, later).text # Nil
    PROVE  Value(o, c, now).text = Value(h, c, later).text
<1>1. PICK i \in Matching(o, c) :
         Value(o, c, now).text = {<<"pace", KnownPace(o, PaceInputs(o.windows[i]), now).status>>}
  BY PaceValue
<1>2. PICK j \in Matching(h, c) :
         Value(h, c, later).text = {<<"pace", KnownPace(h, PaceInputs(h.windows[j]), later).status>>}
  BY PaceValue DEF SameEvidence
<1>3. h.windows = o.windows /\ Matching(h, c) = Matching(o, c)
  BY DEF SameEvidence, Matching
<1>4. i = j
  BY <1>1, <1>2, <1>3, ExactWindow, EvidentIsPresentable DEF Exact
<1>5. KnownPace(h, PaceInputs(o.windows[i]), later) = KnownPace(o, PaceInputs(o.windows[i]), now)
  BY SameKnownPaces
<1> QED
  BY <1>1, <1>2, <1>3, <1>4, <1>5

\* A known pace of a window, as a report tells it.
PaceTold(o, i, now, x) ==
    LET w == o.windows[i]
        known == KnownPace(o, PaceInputs(w), now)
    IN  /\ w.unit = "percent"
        /\ Known(o, PaceInputs(w), now)
        /\ x = <<w.id, known.status, known.timeRemaining, known.reserve>>

\* A window in a document has its identifier and its pace.
LEMMA PrintedWindows ==
    ASSUME NEW s, ShapedObservation(s), NEW c, c.format \in {"json", "compact"}, NEW now
    PROVE  LET shown == UNION {d.windows : d \in Outputs(Printed(s, c, now))}
           IN  /\ \A w \in shown : \E i \in DOMAIN s.windows :
                      w.id = s.windows[i].id /\ w.pace = s.windows[i].pace
               /\ \A i \in DOMAIN s.windows : \E w \in shown :
                      w.id = s.windows[i].id /\ w.pace = s.windows[i].pace
<1> DEFINE Rendered(w) == {RenderLimit(l) : l \in ToSet(w.limits)}
           Formatted(w) == {FormatLimit(l) : l \in ToSet(w.limits)}
           doc == Document(s)
           com == Compact(s, now)
           r == Printed(s, c, now)
           Same(w, i) == w.id = s.windows[i].id /\ w.pace = s.windows[i].pace
<1>1. ASSUME NEW i \in DOMAIN s.windows, NEW L
      PROVE  Same([s.windows[i] EXCEPT !.limits = L], i)
  <2> DEFINE w == s.windows[i]
             v == [w EXCEPT !.limits = L]
  <2>1. ShapedWindow(w)
    BY DEF ShapedObservation
  <2> HIDE DEF w
  <2>2. v = [id |-> w.id, scope |-> w.scope, unit |-> w.unit, limits |-> L, pace |-> w.pace]
    BY <2>1 DEF ShapedWindow
  <2>3. v.id = w.id /\ v.pace = w.pace
    BY <2>2
  <2> QED
    BY <2>3 DEF w
<1>2. \A w : w \in ToSet(s.windows) <=> \E i \in DOMAIN s.windows : w = s.windows[i]
  BY DEF ToSet
<1>3. \A x : x \in doc.windows <=>
             \E i \in DOMAIN s.windows :
                 x = [s.windows[i] EXCEPT !.limits = Rendered(s.windows[i])]
  <2>1. \A x : x \in doc.windows <=> \E i \in DOMAIN s.windows : x = RenderWindow(s.windows[i])
    BY DocumentShape
  <2> QED
    BY <2>1 DEF RenderWindow
<1>4. \A x : x \in com.windows <=>
             \E i \in DOMAIN s.windows :
                 x = [s.windows[i] EXCEPT !.limits = Formatted(s.windows[i])]
  <2>1. com.windows = {[w EXCEPT !.limits = Formatted(w)] : w \in ToSet(s.windows)}
    BY DEF Compact
  <2> HIDE DEF com, Formatted
  <2> QED
    BY <1>2, <2>1
<1> HIDE DEF Rendered, Formatted, doc, com, Same
<1>5. ASSUME NEW d \in {doc, com}
      PROVE  /\ \A w \in d.windows : \E i \in DOMAIN s.windows : Same(w, i)
             /\ \A i \in DOMAIN s.windows : \E w \in d.windows : Same(w, i)
  <2> DEFINE R(i) == [s.windows[i] EXCEPT !.limits = Rendered(s.windows[i])]
             F(i) == [s.windows[i] EXCEPT !.limits = Formatted(s.windows[i])]
  <2>1. \A i \in DOMAIN s.windows : Same(R(i), i) /\ Same(F(i), i)
    BY <1>1
  <2>2. /\ \A x : x \in doc.windows <=> \E i \in DOMAIN s.windows : x = R(i)
        /\ \A x : x \in com.windows <=> \E i \in DOMAIN s.windows : x = F(i)
    BY <1>3, <1>4
  <2> HIDE DEF R, F
  <2>3. CASE d = doc
    BY <2>1, <2>2, <2>3
  <2>4. CASE d = com
    BY <2>1, <2>2, <2>4
  <2> QED
    BY <2>3, <2>4
<1>6. \E d \in {doc, com} : Outputs(r) = {d}
  <2>1. Printed(s, c, now).document = IF c.format = "json" THEN {doc} ELSE Nil
    BY DEF Printed, doc
  <2>2. Printed(s, c, now).compact = IF c.format = "compact" THEN {com} ELSE Nil
    BY DEF Printed, com
  <2> QED
    BY <2>1, <2>2 DEF Outputs, Nil
<1>7. PICK d \in {doc, com} : UNION {e.windows : e \in Outputs(r)} = d.windows
  BY <1>6
<1> QED
  BY <1>5, <1>7 DEF Same

LEMMA PacesOfReport ==
    ASSUME NEW o, NEW c, NEW now \in Int, Evident(o), c.format \in {"json", "compact"}
    PROVE  \A x : x \in Paces(Printed(SelectWindows(WithPace(o, now), c), c, now)) <=>
                     \E i \in Matching(o, c) : PaceTold(o, i, now, x)
<1> DEFINE p == WithPace(o, now)
           s == SelectWindows(p, c)
           r == Printed(s, c, now)
           shown == UNION {d.windows : d \in Outputs(r)}
<1>1. Presentable(p) /\ Repaced(o, p)
  BY WithPaceIsPresentable, WithPaceIsValid
<1>2. \A i \in DOMAIN o.windows : p.windows[i].pace = DerivePace(o, o.windows[i], now)
  BY WithPaceIsValid
<1> HIDE DEF p
<1>3. ShapedObservation(s) /\ \A i \in DOMAIN s.windows : s.windows[i] = p.windows[i]
  BY <1>1, SelectWindowsParts DEF PartOf, Presentable
<1>4. DOMAIN s.windows = Matching(o, c) /\ Matching(o, c) \subseteq DOMAIN o.windows
  <2>1. DOMAIN s.windows = Matching(p, c)
    BY <1>1, SelectWindowsParts DEF Presentable
  <2>2. Matching(p, c) = Matching(o, c)
    BY <1>1, SameMatches
  <2>3. Matching(o, c) \subseteq DOMAIN o.windows
    BY DEF Matching
  <2> QED
    BY <2>1, <2>2, <2>3
<1> HIDE DEF s
<1>5. /\ \A w \in shown : \E i \in DOMAIN s.windows :
             w.id = s.windows[i].id /\ w.pace = s.windows[i].pace
      /\ \A i \in DOMAIN s.windows : \E w \in shown :
             w.id = s.windows[i].id /\ w.pace = s.windows[i].pace
  BY <1>3, PrintedWindows
<1>6. \A i \in Matching(o, c) :
          /\ s.windows[i].id = o.windows[i].id
          /\ s.windows[i].pace = DerivePace(o, o.windows[i], now)
  BY <1>1, <1>2, <1>3, <1>4 DEF Repaced
<1> DEFINE Told(w, q) == <<w.id, q.status, q.timeRemaining, q.reserve>>
<1>7. \A x : x \in Paces(r) <=>
             \E w \in shown : \E q \in w.pace : q.status # "unknown" /\ x = Told(w, q)
  <2>1. Paces(r) = UNION {{<<w.id, q.status, q.timeRemaining, q.reserve>> :
                              q \in {e \in w.pace : e.status # "unknown"}} : w \in shown}
    BY DEF Paces
  <2> HIDE DEF shown
  <2> QED
    BY <2>1
<1> HIDE DEF shown, r
<1>8. \A x : x \in Paces(r) <=>
             \E i \in Matching(o, c) : \E q \in DerivePace(o, o.windows[i], now) :
                 q.status # "unknown" /\ x = Told(o.windows[i], q)
  <2>1. ASSUME NEW x, NEW w \in shown, NEW q \in w.pace, q.status # "unknown", x = Told(w, q)
        PROVE  \E i \in Matching(o, c) : \E e \in DerivePace(o, o.windows[i], now) :
                  e.status # "unknown" /\ x = Told(o.windows[i], e)
    BY <1>4, <1>5, <1>6, <2>1
  <2>2. ASSUME NEW x, NEW i \in Matching(o, c), NEW q \in DerivePace(o, o.windows[i], now),
               q.status # "unknown", x = Told(o.windows[i], q)
        PROVE  \E w \in shown : \E e \in w.pace : e.status # "unknown" /\ x = Told(w, e)
    BY <1>4, <1>5, <1>6, <2>2
  <2> QED
    BY <1>7, <2>1, <2>2
<1>9. ASSUME NEW i \in Matching(o, c), NEW x
      PROVE  (\E q \in DerivePace(o, o.windows[i], now) :
                 q.status # "unknown" /\ x = Told(o.windows[i], q)) <=> PaceTold(o, i, now, x)
  <2> DEFINE w == o.windows[i]
             inputs == PaceInputs(w)
             known == KnownPace(o, inputs, now)
  <2>1. ShapedWindow(w) /\ o.observedAt \in Int
    BY <1>4 DEF Evident, ShapedObservation
  <2>2. CASE w.unit # "percent"
    <3>1. DerivePace(o, w, now) = {}
      BY <2>2 DEF DerivePace, Nil
    <3> QED
      BY <2>2, <3>1 DEF PaceTold
  <2>3. CASE w.unit = "percent"
    <3>1. PICK q : DerivePace(o, w, now) = {q} /\ Derived(o, w, now, q)
      BY <2>3, PaceDerived
    <3>2. CASE Known(o, inputs, now)
      <4>1. /\ q.status = known.status /\ q.timeRemaining = known.timeRemaining
            /\ q.reserve = known.reserve
        BY <3>1, <3>2 DEF Derived
      <4>2. known.status # "unknown"
        BY <2>1, <3>2, KnownPaceShape DEF KnownStatuses
      <4>3. PaceTold(o, i, now, x) <=> x = <<w.id, known.status, known.timeRemaining, known.reserve>>
        BY <2>3, <3>2 DEF PaceTold
      <4>4. Told(w, q) = <<w.id, known.status, known.timeRemaining, known.reserve>>
        BY <4>1
      <4> HIDE DEF known, w, Told
      <4> QED
        BY <3>1, <4>1, <4>2, <4>3, <4>4 DEF w
    <3>3. CASE ~Known(o, inputs, now)
      <4>1. q.status = "unknown"
        BY <3>1, <3>3 DEF Derived
      <4> QED
        BY <3>1, <3>3, <4>1 DEF PaceTold
    <3> QED
      BY <3>2, <3>3
  <2> QED
    BY <2>2, <2>3
<1> HIDE DEF Told
<1> QED
  BY <1>8, <1>9 DEF r, s, p

\* The reset a pace was calculated from is the reset of the window.
LEMMA InputIsReset ==
    ASSUME NEW o, Evident(o), NEW i \in DOMAIN o.windows,
           NEW t \in PaceInputs(o.windows[i]).resetAt
    PROVE  t \in ResetOf(o, o.windows[i].id)
<1> DEFINE w == o.windows[i]
           lists == [k \in DOMAIN o.windows |-> o.windows[k].limits]
<1>1. ShapedWindow(w)
  BY DEF Evident, ShapedObservation
<1>2. PICK k \in DOMAIN w.limits : PaceInputs(w).resetAt = w.limits[k].resetAt
  BY <1>1, PaceInputsOfWindow DEF InputsFrom, Nil
<1> DEFINE l == w.limits[k]
<1>3. l \in Limits(w.id)
  <2>1. w.limits \in Seq(Limits(w.id))
    BY <1>1 DEF ShapedWindow
  <2> HIDE DEF w
  <2> QED
    BY <2>1
<1>4. LimitShape(w.id, l)
  BY <1>3, LimitCases
<1>5. t \in l.resetAt
  BY <1>2
<1>6. l.id = <<w.id, "reset">>
  <2>1. l.field = "reset"
    BY <1>4, <1>5 DEF LimitShape, Nil
  <2> QED
    BY <1>4, <2>1, LimitName
<1>7. l \in ToSet(LimitsOf(o))
  <2>1. l \in ToSet(lists[i])
    BY DEF ToSet
  <2>2. LimitsOf(o) = Flatten(lists) /\ DOMAIN lists = DOMAIN o.windows
    BY DEF LimitsOf
  <2> HIDE DEF lists, l
  <2> QED
    BY <2>1, <2>2, FlattenedItems
<1> HIDE DEF l, w
<1> QED
  BY <1>5, <1>6, <1>7 DEF ResetOf, w

\* At a later hour a known pace is the same, or its cycle is over.
LEMMA KnownPaceStays ==
    ASSUME NEW o, NEW h, Evident(o), SameEvidence(o, h), h.freshness = o.freshness,
           NEW now \in Int, NEW later \in Int, later >= o.observedAt,
           NEW i \in DOMAIN o.windows, NEW x, PaceTold(o, i, now, x)
    PROVE  PaceTold(h, i, later, x) \/ \E t \in ResetOf(o, x[1]) : t <= later
<1> DEFINE w == o.windows[i]
           inputs == PaceInputs(w)
<1>1. h.windows[i] = w /\ h.observedAt = o.observedAt /\ o.observedAt \in Int
  BY DEF SameEvidence, Evident, ShapedObservation
<1>2. KnownPace(h, inputs, later) = KnownPace(o, inputs, now)
  BY SameKnownPaces
<1>3. Known(o, inputs, now) /\ w.unit = "percent"
  BY DEF PaceTold
<1>4. x = <<w.id, KnownPace(o, inputs, now).status, KnownPace(o, inputs, now).timeRemaining,
            KnownPace(o, inputs, now).reserve>>
  BY DEF PaceTold
<1>5. x[1] = w.id
  BY <1>4
<1>6. CASE Known(h, inputs, later)
  <2>1. PaceTold(h, i, later, x)
    BY <1>1, <1>2, <1>3, <1>4, <1>6 DEF PaceTold
  <2> QED
    BY <2>1
<1>7. CASE ~Known(h, inputs, later)
  <2>1. ~(later < h.observedAt)
    BY <1>1
  <2>2. \E t \in inputs.resetAt : t <= later
    BY <1>1, <1>3, <1>7, <2>1 DEF Known
  <2> QED
    BY <1>5, <2>2, InputIsReset
<1> QED
  BY <1>6, <1>7

LEMMA ReportStays ==
    ASSUME NEW o, NEW h, NEW c, Evident(o), Evident(h), SameEvidence(o, h),
           h.freshness = o.freshness,
           NEW now \in Int, NEW later \in Int, later >= o.observedAt,
           c.provider = o.provider, c.format \in {"json", "compact"}
    PROVE  \A x \in Paces(Report(o, c, now)) :
              x \in Paces(Report(h, c, later)) \/ \E t \in ResetOf(o, x[1]) : t <= later
<1> SUFFICES ASSUME NEW x \in Paces(Report(o, c, now))
             PROVE  x \in Paces(Report(h, c, later)) \/ \E t \in ResetOf(o, x[1]) : t <= later
  OBVIOUS
<1>1. Reported(o, c, now, Report(o, c, now)) /\ Reported(h, c, later, Report(h, c, later))
  BY ReportAnswer DEF SameEvidence
<1>2. \A e : Paces(Refusal(e)) = {}
  <2>1. \A e : Refusal(e).document = Nil /\ Refusal(e).compact = Nil
    BY DEF Refusal, Silence
  <2>2. \A e : Outputs(Refusal(e)) = {}
    BY <2>1 DEF Outputs, Nil
  <2> QED
    BY <2>2 DEF Paces
<1>3. ~Unreported(o, c)
  BY <1>1, <1>2 DEF Reported
<1>4. h.windows = o.windows /\ Matching(h, c) = Matching(o, c)
  BY DEF SameEvidence, Matching
<1>5. ~Unreported(h, c)
  BY <1>3, <1>4 DEF Unreported, SameEvidence, AccountDiffers
<1>6. PICK i \in Matching(o, c) : PaceTold(o, i, now, x)
  BY <1>1, <1>3, PacesOfReport DEF Reported
<1>7. i \in DOMAIN o.windows
  BY DEF Matching
<1>8. PaceTold(h, i, later, x) \/ \E t \in ResetOf(o, x[1]) : t <= later
  BY <1>6, <1>7, KnownPaceStays
<1>9. PaceTold(h, i, later, x) => x \in Paces(Report(h, c, later))
  BY <1>1, <1>4, <1>5, PacesOfReport DEF Reported
<1> QED
  BY <1>8, <1>9

----------------------------------------------------------------------------
(* What a command prints *)

\* What is promised of every reply about the observation.
Sound(o, r) ==
    /\ r.error # {"invalid"}
    /\ \A d \in r.document : \E e \in ParseJSON(d) : RenderJSON(e) = {d}
    /\ r.error \in {Nil, {"partial"}} <=> Outputs(r) \cup r.text # Nil
    /\ Outputs(r) \cup r.text # Nil => (r.error = {"partial"} <=> o.outcome = "partial")

LEMMA RefusalFields ==
    ASSUME NEW e
    PROVE  /\ Refusal(e).error = e /\ Refusal(e).document = Nil /\ Refusal(e).compact = Nil
           /\ Refusal(e).text = Nil
BY DEF Refusal, Silence

LEMMA RefusalSound ==
    ASSUME NEW o, NEW e \in RefusalNames
    PROVE  Sound(o, Refusal({e}))
<1>1. {e} # Nil /\ {e} # {"partial"} /\ {e} # {"invalid"}
  BY DEF RefusalNames, Nil
<1>2. Outputs(Refusal({e})) \cup Refusal({e}).text = Nil
  BY RefusalFields DEF Outputs, Nil
<1> QED
  BY <1>1, <1>2, RefusalFields DEF Sound, Nil

LEMMA PartialErrors ==
    ASSUME NEW o
    PROVE  /\ PartialError(o) \in {Nil, {"partial"}} /\ PartialError(o) # {"invalid"}
           /\ PartialError(o) = {"partial"} <=> o.outcome = "partial"
BY DEF PartialError, Nil

LEMMA PrintedSound ==
    ASSUME NEW o, NEW s, Presentable(s), s.outcome = o.outcome,
           NEW c, c.format \in {"json", "compact"}, NEW now
    PROVE  Sound(o, Printed(s, c, now))
<1> DEFINE doc == Document(s)
           com == Compact(s, now)
           document == IF c.format = "json" THEN {doc} ELSE Nil
           compact == IF c.format = "compact" THEN {com} ELSE Nil
           error == PartialError(s)
           r == Printed(s, c, now)
<1>1. r = [document |-> document, compact |-> compact, text |-> Nil, error |-> error]
  BY DEF Printed
<1>2. \E e \in ParseJSON(doc) : RenderJSON(e) = {doc}
  BY DocumentReadsBack DEF Presentable, Nil
<1>3. document \in {Nil, {doc}} /\ document \cup compact # Nil
  BY DEF Nil
<1>4. /\ error \in {Nil, {"partial"}} /\ error # {"invalid"}
      /\ error = {"partial"} <=> o.outcome = "partial"
  BY PartialErrors DEF PartialError
<1> HIDE DEF doc, document, compact, error, r
<1>5. r.document = document /\ r.compact = compact /\ r.text = Nil /\ r.error = error
  BY <1>1
<1>6. Outputs(r) \cup r.text # Nil
  BY <1>3, <1>5 DEF Outputs, Nil
<1> QED
  BY <1>2, <1>3, <1>4, <1>5, <1>6 DEF Sound, Nil, r

LEMMA TextSound ==
    ASSUME NEW o, NEW text, text # Nil
    PROVE  Sound(o, [Silence EXCEPT !.text = text, !.error = PartialError(o)])
<1> DEFINE error == PartialError(o)
           r == [Silence EXCEPT !.text = text, !.error = error]
<1>1. error \in {Nil, {"partial"}} /\ error # {"invalid"} /\ (error = {"partial"} <=> o.outcome = "partial")
  BY PartialErrors
<1> HIDE DEF error
<1>2. r.document = Nil /\ r.compact = Nil /\ r.text = text /\ r.error = error
  BY DEF Silence
<1> HIDE DEF r
<1>3. Outputs(r) \cup r.text # Nil
  BY <1>2 DEF Outputs, Nil
<1> QED
  BY <1>1, <1>2, <1>3 DEF Sound, Nil, r, error

\* What the value command prints, and what the report holds.
AgreesWith(readings, r) ==
    /\ r.text # Nil => readings = r.text
    /\ r.error = {"no_match"} => readings = Nil
    /\ r.error = {"undefined"} => readings \subseteq Undefined
    /\ r.error # {"ambiguous"}

Agrees(o, c, now, r) == AgreesWith(Readings(The(RenderJSON(WithPace(o, now))), c), r)

LEMMA RefusalAgrees ==
    ASSUME NEW readings, NEW e, e # "ambiguous",
           e = "no_match" => readings = Nil,
           e = "undefined" => readings \subseteq Undefined
    PROVE  AgreesWith(readings, Refusal({e}))
<1>1. \A x : {e} = {x} <=> e = x
  OBVIOUS
<1> QED
  BY <1>1, RefusalFields DEF AgreesWith

LEMMA TextAgrees ==
    ASSUME NEW readings, NEW r, r.text = readings, r.error \in {Nil, {"partial"}}
    PROVE  AgreesWith(readings, r)
<1>1. \A x : x # "partial" => {x} \notin {Nil, {"partial"}}
  BY DEF Nil
<1>2. r.error \notin {{"no_match"}, {"undefined"}, {"ambiguous"}}
  BY <1>1
<1> QED
  BY <1>2 DEF AgreesWith

LEMMA ValueSound ==
    ASSUME NEW o, NEW c, NEW now \in Int, Evident(o),
           c.provider = o.provider, c.provider \in Providers, Exact(c)
    PROVE  Sound(o, Value(o, c, now)) /\ Agrees(o, c, now, Value(o, c, now))
<1> DEFINE r == Value(o, c, now)
           p == WithPace(o, now)
           readings == Readings(Document(p), c)
<1>1. \/ \E e \in RefusalNames \ {"no_match", "undefined", "ambiguous"} : r = Refusal({e})
      \/ r = Refusal({"no_match"}) /\ readings = Nil
      \/ r = Refusal({"undefined"}) /\ readings \subseteq Undefined
      \/ /\ readings # Nil
         /\ r = [Silence EXCEPT !.text = readings, !.error = PartialError(o)]
  BY ValueAnswer DEF Valued
<1>2. The(RenderJSON(p)) = Document(p)
  <2>1. Valid(p)
    BY WithPaceIsValid
  <2> QED
    BY <2>1, RenderAndParse, TheOnly
<1>3. Agrees(o, c, now, r) <=> AgreesWith(readings, r)
  BY <1>2 DEF Agrees
<1> SUFFICES Sound(o, r) /\ AgreesWith(readings, r)
  BY <1>3
<1> HIDE DEF r, readings, p
<1>4. ASSUME NEW e \in RefusalNames \ {"no_match", "undefined", "ambiguous"}, r = Refusal({e})
      PROVE  Sound(o, r) /\ AgreesWith(readings, r)
  BY <1>4, RefusalSound, RefusalAgrees
<1>5. CASE r = Refusal({"no_match"}) /\ readings = Nil
  <2>1. "no_match" \in RefusalNames
    BY DEF RefusalNames
  <2> QED
    BY <1>5, <2>1, RefusalSound, RefusalAgrees
<1>6. CASE r = Refusal({"undefined"}) /\ readings \subseteq Undefined
  <2>1. "undefined" \in RefusalNames
    BY DEF RefusalNames
  <2> QED
    BY <1>6, <2>1, RefusalSound, RefusalAgrees
<1>7. CASE readings # Nil /\ r = [Silence EXCEPT !.text = readings, !.error = PartialError(o)]
  <2>1. Sound(o, r)
    BY <1>7, TextSound
  <2>2. r.text = readings /\ r.error = PartialError(o)
    BY <1>7 DEF Silence
  <2>3. r.error \in {Nil, {"partial"}}
    BY <2>2, PartialErrors
  <2> QED
    BY <2>1, <2>2, <2>3, TextAgrees
<1> QED
  BY <1>1, <1>4, <1>5, <1>6, <1>7

\* Every command about the evidence has a sound reply.
LEMMA ReplySound ==
    ASSUME NEW o, NEW c, NEW now \in Int, Evident(o), o.provider \in Providers,
           IsCommand(c, o.provider)
    PROVE  /\ Sound(o, Reply(o, c, now))
           /\ c.kind = "value" /\ ~UsageError(c) => Agrees(o, c, now, Reply(o, c, now))
<1>1. c.kind \in {"report", "value"} /\ c.format \in {"json", "compact"} /\ c.provider = o.provider
  BY DEF IsCommand
<1>2. CASE UsageError(c)
  <2>1. Reply(o, c, now) = Refusal({"usage"})
    BY <1>2 DEF Reply
  <2> QED
    BY <1>2, <2>1, RefusalSound DEF RefusalNames
<1>3. CASE ~UsageError(c) /\ c.kind = "report"
  <2>1. Reply(o, c, now) = Report(o, c, now)
    BY <1>3 DEF Reply
  <2>2. Reported(o, c, now, Report(o, c, now))
    BY <1>1, ReportAnswer
  <2> DEFINE p == WithPace(o, now)
             s == SelectWindows(p, c)
  <2>3. Presentable(p) /\ Repaced(o, p)
    BY WithPaceIsPresentable, WithPaceIsValid
  <2> HIDE DEF p
  <2>4. Presentable(s) /\ s.outcome = o.outcome
    BY <2>3, SelectionIsPresentable DEF PartOf, Repaced
  <2>5. Sound(o, Report(o, c, now))
    <3>1. CASE Unreported(o, c)
      BY <2>2, <3>1, RefusalSound DEF Reported
    <3>2. CASE ~Unreported(o, c)
      <4>1. Report(o, c, now) = Printed(s, c, now)
        BY <2>2, <3>2 DEF Reported, p
      <4> HIDE DEF s
      <4> QED
        BY <1>1, <2>4, <4>1, PrintedSound
    <3> QED
      BY <3>1, <3>2
  <2> QED
    BY <1>3, <2>1, <2>5
<1>4. CASE ~UsageError(c) /\ c.kind = "value"
  <2>1. Reply(o, c, now) = Value(o, c, now)
    BY <1>4 DEF Reply
  <2>2. Exact(c)
    BY <1>4 DEF UsageError, SelectorMissing, Exact
  <2> QED
    BY <1>1, <2>1, <2>2, ValueSound
<1> QED
  BY <1>1, <1>2, <1>3, <1>4

----------------------------------------------------------------------------
(* What the program may hold after an answer *)

LEMMA NormalizeCases ==
    ASSUME NEW a
    PROVE  /\ Normalize("codex", a) = NormalizeCodex(a, SelectedAccount, ObservedAt)
           /\ Normalize("claude", a) = NormalizeClaude(a, SelectedAccount, ObservedAt)
           /\ Normalize("cursor", a) = NormalizeCursor(a, ObservedAt)
           /\ \E account : Normalize("devin", a) = NormalizeDevin(a, account, ObservedAt)
           /\ Normalize("grok", a) = NormalizeGrok(a, ObservedAt)
<1>1. Normalize("codex", a) = NormalizeCodex(a, SelectedAccount, ObservedAt)
  BY Zenon DEF Normalize
<1>2. Normalize("claude", a) = NormalizeClaude(a, SelectedAccount, ObservedAt)
  BY Zenon DEF Normalize
<1>3. Normalize("cursor", a) = NormalizeCursor(a, ObservedAt)
  BY Zenon DEF Normalize
<1>4. \E account : Normalize("devin", a) = NormalizeDevin(a, account, ObservedAt)
  <2>1. Normalize("devin", a) = NormalizeDevin(a, "", ObservedAt)
    BY Zenon DEF Normalize
  <2> QED
    BY <2>1, Zenon
<1>5. Normalize("grok", a) = NormalizeGrok(a, ObservedAt)
  BY Zenon DEF Normalize
<1> QED
  BY <1>1, <1>2, <1>3, <1>4, <1>5, Zenon

LEMMA ResponseCases ==
    /\ Responses("codex") = CodexResponse
    /\ Responses("claude") = ClaudeResponse
    /\ Responses("cursor") = CursorResponse
    /\ Responses("devin") = DevinResponse
    /\ Responses("grok") = GrokResponse
BY DEF Responses

\* Supplied, of a provider.
SuppliedFor(p, a) ==
    CASE p = "codex" -> SuppliedByCodex(a)
      [] p = "claude" -> SuppliedByClaude(a)
      [] p = "cursor" -> SuppliedByCursor(a)
      [] p = "devin" -> SuppliedByDevin(a)
      [] p = "grok" -> SuppliedByGrok(a)

LEMMA SuppliedCases ==
    ASSUME NEW a
    PROVE  /\ SuppliedFor("codex", a) = SuppliedByCodex(a)
           /\ SuppliedFor("claude", a) = SuppliedByClaude(a)
           /\ SuppliedFor("cursor", a) = SuppliedByCursor(a)
           /\ SuppliedFor("devin", a) = SuppliedByDevin(a)
           /\ SuppliedFor("grok", a) = SuppliedByGrok(a)
BY DEF SuppliedFor

Shows(p, a, o, shown) ==
    /\ SuppliedFor(p, a) \subseteq shown
    /\ \/ shown \subseteq SuppliedFor(p, a)
       \/ /\ p = "cursor" /\ a.sand.broken = "usage" /\ o.outcome = "partial"
          /\ shown \subseteq SuppliedFor(p, a) \cup {0}

\* The evidence that the answer a of the provider p may lead to.
Informed(p, a, o) ==
    /\ Evident(o) /\ o.provider = p /\ o.observedAt = ObservedAt
    /\ p \in {"devin", "grok"} => (o.outcome = "partial" <=> Gap(o.windows))
    /\ \E shown : Tells(o.windows, shown) /\ Shows(p, a, o, shown)

LEMMA NormalizeInforms ==
    ASSUME NEW p \in Providers, NEW a \in Answers(p), NEW o \in Normalize(p, a)
    PROVE  Normalize(p, a) = {o} /\ Informed(p, a, o)
<1>1. ObservedAt \in Int /\ a \in Responses(p)
  BY ReportingAssumption
<1>2. \/ p = "codex" \/ p = "claude" \/ p = "cursor" \/ p = "devin" \/ p = "grok"
  BY DEF Providers
<1>3. CASE p = "codex"
  <2>1. /\ Normalize(p, a) = {o} /\ Evident(o) /\ o.provider = "codex" /\ o.observedAt = ObservedAt
        /\ Tells(o.windows, SuppliedByCodex(a))
    BY <1>1, <1>3, NormalizeCases, ResponseCases, CodexTells
  <2> QED
    BY <1>3, <2>1, SuppliedCases DEF Informed, Shows
<1>4. CASE p = "claude"
  <2>1. /\ Normalize(p, a) = {o} /\ Evident(o) /\ o.provider = "claude" /\ o.observedAt = ObservedAt
        /\ Tells(o.windows, SuppliedByClaude(a))
    BY <1>1, <1>4, NormalizeCases, ResponseCases, ClaudeTells
  <2> QED
    BY <1>4, <2>1, SuppliedCases DEF Informed, Shows
<1>5. CASE p = "cursor"
  <2>1. /\ Normalize(p, a) = {o} /\ Evident(o) /\ o.provider = "cursor" /\ o.observedAt = ObservedAt
        /\ \E shown : Tells(o.windows, shown) /\ CursorShows(a, o.outcome, shown)
    BY <1>1, <1>5, NormalizeCases, ResponseCases, CursorTells
  <2> QED
    BY <1>5, <2>1, SuppliedCases DEF Informed, Shows, CursorShows
<1>6. CASE p = "devin"
  <2>1. /\ Normalize(p, a) = {o} /\ Evident(o) /\ o.provider = "devin" /\ o.observedAt = ObservedAt
        /\ Tells(o.windows, SuppliedByDevin(a))
        /\ o.outcome = "partial" <=> Gap(o.windows)
    BY <1>1, <1>6, NormalizeCases, ResponseCases, DevinTells
  <2> QED
    BY <1>6, <2>1, SuppliedCases DEF Informed, Shows
<1>7. CASE p = "grok"
  <2>1. /\ Normalize(p, a) = {o} /\ Evident(o) /\ o.provider = "grok" /\ o.observedAt = ObservedAt
        /\ Tells(o.windows, SuppliedByGrok(a))
        /\ o.outcome = "partial" <=> Gap(o.windows)
    BY <1>1, <1>7, NormalizeCases, ResponseCases, GrokTells
  <2> QED
    BY <1>7, <2>1, SuppliedCases DEF Informed, Shows
<1> QED
  BY <1>2, <1>3, <1>4, <1>5, <1>6, <1>7

LEMMA SameIsInformed ==
    ASSUME NEW p, NEW a, NEW o, NEW h, Informed(p, a, o), Evident(h), SameEvidence(o, h)
    PROVE  Informed(p, a, h)
BY DEF Informed, SameEvidence, Shows

\* The cache adds nothing to what an answer tells.
LEMMA EvidencesInform ==
    ASSUME NEW p \in Providers, NEW a \in Answers(p), NEW o \in Evidences(p, a)
    PROVE  /\ Informed(p, a, o)
           /\ AsCached(o) \in Evidences(p, a) /\ AsStale(o) \in Evidences(p, a)
<1>1. PICK n \in Normalize(p, a) : o \in {n, AsCached(n), AsStale(n)}
  BY DEF Evidences
<1>2. Informed(p, a, n) /\ Evident(n)
  BY NormalizeInforms DEF Informed
<1>3. {n, AsCached(n), AsStale(n)} \subseteq Evidences(p, a)
  BY DEF Evidences
<1>4. /\ Informed(p, a, AsCached(n)) /\ Informed(p, a, AsStale(n))
      /\ AsCached(AsCached(n)) = AsCached(n) /\ AsStale(AsCached(n)) = AsStale(n)
      /\ AsCached(AsStale(n)) = AsStale(n) /\ AsStale(AsStale(n)) = AsStale(n)
  BY <1>2, AsCachedKeeps, SameIsInformed
<1> QED
  BY <1>1, <1>2, <1>3, <1>4

----------------------------------------------------------------------------
(* The inductive invariant *)

Stages ==
    /\ clock \in Clocks
    /\ provider \in Providers
    /\ stage \in {"idle", "collected", "refused", "answered"}

\* The evidence is one that an answer of the provider leads to.
HoldsEvidence ==
    /\ stage \in {"idle", "refused"} => evidence = Nil
    /\ stage \in {"collected", "answered"} =>
            \E a \in Answers(provider) : \E o \in Evidences(provider, a) :
                answer = {a} /\ evidence = {o}

\* The reply is the one to the command, about the evidence the program still
\* holds, at the hour it still is.
HoldsReply ==
    /\ stage # "answered" => command = Nil /\ reply = Silence
    /\ stage = "answered" =>
            \E o \in evidence : \E c :
                command = {c} /\ IsCommand(c, provider) /\ reply = Reply(o, c, clock)

Inv == Stages /\ HoldsEvidence /\ HoldsReply

LEMMA InvInit == Init => Inv
BY ReportingAssumption DEF Init, Inv, Stages, HoldsEvidence, HoldsReply

LEMMA InvCollect ==
    ASSUME Inv, Collect
    PROVE  Inv'
<1>1. PICK a \in Answers(provider) :
         /\ answer' = {a} /\ evidence' = Normalize(provider, a)
         /\ stage' = IF evidence' = Nil THEN "refused" ELSE "collected"
  BY DEF Collect
<1>2. /\ stage = "idle" /\ provider \in Providers
      /\ UNCHANGED <<clock, provider, command, reply>>
  BY DEF Collect, Inv, Stages
<1>3. Stages' /\ HoldsReply'
  BY <1>1, <1>2 DEF Inv, Stages, HoldsReply
<1>4. CASE evidence' = Nil
  BY <1>1, <1>2, <1>3, <1>4 DEF Inv, HoldsEvidence
<1>5. CASE evidence' # Nil
  <2>1. PICK o \in Normalize(provider, a) : TRUE
    BY <1>1, <1>5 DEF Nil
  <2>2. evidence' = {o} /\ o \in Evidences(provider, a)
    BY <1>1, <1>2, <2>1, NormalizeInforms DEF Evidences
  <2> QED
    BY <1>1, <1>2, <1>3, <1>5, <2>2 DEF Inv, HoldsEvidence
<1> QED
  BY <1>4, <1>5

LEMMA InvCached ==
    ASSUME Inv, Cached
    PROVE  Inv'
<1>1. /\ stage = "collected" /\ provider \in Providers
      /\ UNCHANGED <<clock, stage, provider, answer, command, reply>>
  BY DEF Cached, Inv, Stages
<1>2. PICK a \in Answers(provider) : \E o \in Evidences(provider, a) : answer = {a} /\ evidence = {o}
  BY <1>1 DEF Inv, HoldsEvidence
<1>3. PICK o \in Evidences(provider, a) : answer = {a} /\ evidence = {o}
  BY <1>2
<1>4. \E h \in Evidences(provider, a) : evidence' = {h}
  <2>1. evidence' = {AsCached(o)} \/ evidence' = {AsStale(o)}
    BY <1>3 DEF Cached
  <2> QED
    BY <1>1, <1>3, <2>1, EvidencesInform
<1>5. Stages' /\ HoldsReply'
  BY <1>1 DEF Inv, Stages, HoldsReply
<1>6. HoldsEvidence'
  BY <1>1, <1>3, <1>4 DEF HoldsEvidence
<1> QED
  BY <1>5, <1>6 DEF Inv

LEMMA InvClockMoves ==
    ASSUME Inv, ClockMoves
    PROVE  Inv'
BY DEF ClockMoves, Inv, Stages, HoldsEvidence, HoldsReply

LEMMA InvAsk ==
    ASSUME Inv, Ask
    PROVE  Inv'
<1>1. /\ stage = "collected" /\ stage' = "answered" /\ provider \in Providers
      /\ UNCHANGED <<clock, provider, answer, evidence>>
  BY DEF Ask, Inv, Stages
<1>2. PICK a \in Answers(provider) : \E o \in Evidences(provider, a) : answer = {a} /\ evidence = {o}
  BY <1>1 DEF Inv, HoldsEvidence
<1>3. PICK o \in Evidences(provider, a) : answer = {a} /\ evidence = {o}
  BY <1>2
<1>4. PICK c \in Commands(o) : command' = {c} /\ reply' = Reply(o, c, clock)
  BY <1>3 DEF Ask
<1>5. IsCommand(c, provider)
  BY <1>1, <1>3, <1>4, CommandsAssumption
<1>6. Stages' /\ HoldsEvidence'
  BY <1>1, <1>3 DEF Inv, Stages, HoldsEvidence
<1>7. HoldsReply'
  BY <1>1, <1>3, <1>4, <1>5 DEF HoldsReply
<1> QED
  BY <1>6, <1>7 DEF Inv

\* What a second command finds.
LEMMA SecondAnswer ==
    ASSUME Inv, AskAgain
    PROVE  \E a \in Answers(provider) : \E o \in Evidences(provider, a) : \E c :
              /\ answer = {a} /\ evidence = {o}
              /\ command = {c} /\ IsCommand(c, provider)
              /\ reply = Reply(o, c, clock)
              /\ clock' \in Clocks /\ clock' >= o.observedAt
              /\ evidence' = {AsCached(o)}
              /\ reply' = Reply(AsCached(o), c, clock')
<1>1. stage = "answered"
  BY DEF AskAgain
<1>2. PICK a \in Answers(provider) : \E o \in Evidences(provider, a) : answer = {a} /\ evidence = {o}
  BY <1>1 DEF Inv, HoldsEvidence
<1>3. PICK o \in Evidences(provider, a) : answer = {a} /\ evidence = {o}
  BY <1>2
<1>4. PICK c : command = {c} /\ IsCommand(c, provider) /\ reply = Reply(o, c, clock)
  BY <1>1, <1>3 DEF Inv, HoldsReply
<1>5. /\ clock' \in Clocks /\ clock' >= o.observedAt
      /\ evidence' = {AsCached(o)}
      /\ reply' = Reply(AsCached(o), c, clock')
  BY <1>3, <1>4 DEF AskAgain
<1> QED
  BY <1>3, <1>4, <1>5

LEMMA InvAskAgain ==
    ASSUME Inv, AskAgain
    PROVE  Inv'
<1>1. /\ stage = "answered" /\ provider \in Providers
      /\ UNCHANGED <<stage, provider, answer, command>>
  BY DEF AskAgain, Inv, Stages
<1>2. PICK a \in Answers(provider) : \E o \in Evidences(provider, a) : \E c :
         /\ answer = {a} /\ evidence = {o}
         /\ command = {c} /\ IsCommand(c, provider)
         /\ clock' \in Clocks
         /\ evidence' = {AsCached(o)}
         /\ reply' = Reply(AsCached(o), c, clock')
  BY SecondAnswer
<1>3. PICK o \in Evidences(provider, a) : \E c :
         /\ answer = {a} /\ evidence = {o}
         /\ command = {c} /\ IsCommand(c, provider)
         /\ clock' \in Clocks
         /\ evidence' = {AsCached(o)}
         /\ reply' = Reply(AsCached(o), c, clock')
  BY <1>2
<1>4. AsCached(o) \in Evidences(provider, a)
  BY <1>1, EvidencesInform
<1>5. Stages' /\ HoldsEvidence'
  BY <1>1, <1>3, <1>4 DEF Inv, Stages, HoldsEvidence
<1>6. HoldsReply'
  BY <1>1, <1>3 DEF HoldsReply
<1> QED
  BY <1>5, <1>6 DEF Inv

LEMMA InvStep == Inv /\ [Next]_vars => Inv'
<1>1. ASSUME Inv, UNCHANGED vars PROVE Inv'
  BY <1>1 DEF vars, Inv, Stages, HoldsEvidence, HoldsReply
<1> QED
  BY <1>1, InvCollect, InvCached, InvClockMoves, InvAsk, InvAskAgain DEF Next

\* What the program holds is always what an answer of the provider leads to,
\* and the reply is the one to the last command.
THEOREM InvAlways == Spec => []Inv
BY InvInit, InvStep, PTL DEF Spec

----------------------------------------------------------------------------
(* The properties *)

\* What the invariant says of the evidence and of the reply.
LEMMA InvInforms ==
    ASSUME Inv, NEW o \in evidence
    PROVE  \E a \in Answers(provider) :
              answer = {a} /\ evidence = {o} /\ Informed(provider, a, o)
<1>1. stage \in {"collected", "answered"} /\ provider \in Providers
  BY DEF Inv, Stages, HoldsEvidence, Nil
<1>2. PICK a \in Answers(provider) : \E h \in Evidences(provider, a) : answer = {a} /\ evidence = {h}
  BY <1>1 DEF Inv, HoldsEvidence
<1>3. o \in Evidences(provider, a) /\ evidence = {o}
  BY <1>2
<1> QED
  BY <1>1, <1>2, <1>3, EvidencesInform

LEMMA InvReplies ==
    ASSUME Inv
    PROVE  \/ command = Nil /\ reply = Silence /\ stage # "answered"
           \/ \E o, c : /\ stage = "answered"
                        /\ evidence = {o} /\ command = {c} /\ IsCommand(c, provider)
                        /\ reply = Reply(o, c, clock)
                        /\ Sound(o, reply)
                        /\ c.kind = "value" /\ ~UsageError(c) => Agrees(o, c, clock, reply)
<1>1. CASE stage # "answered"
  BY <1>1 DEF Inv, HoldsReply
<1>2. CASE stage = "answered"
  <2>1. PICK o \in evidence : \E c :
           command = {c} /\ IsCommand(c, provider) /\ reply = Reply(o, c, clock)
    BY <1>2 DEF Inv, HoldsReply
  <2>2. PICK c : command = {c} /\ IsCommand(c, provider) /\ reply = Reply(o, c, clock)
    BY <2>1
  <2>3. evidence = {o} /\ Evident(o) /\ o.provider = provider /\ provider \in Providers
    BY InvInforms DEF Informed, Inv, Stages
  <2>4. clock \in Int
    BY ReportingAssumption DEF Inv, Stages
  <2>5. /\ Sound(o, reply)
        /\ c.kind = "value" /\ ~UsageError(c) => Agrees(o, c, clock, reply)
    BY <2>2, <2>3, <2>4, ReplySound
  <2> QED
    BY <1>2, <2>2, <2>3, <2>5
<1> QED
  BY <1>1, <1>2

LEMMA SilenceFields ==
    /\ Silence.document = Nil /\ Silence.compact = Nil /\ Silence.text = Nil
    /\ Silence.error = Nil
    /\ Outputs(Silence) \cup Silence.text = Nil
BY DEF Silence, Outputs, Nil

\* TypeOK: whatever a provider answered, the evidence passes Observation.Validate,
\* no report of it fails at rendering, every JSON document is read back and
\* rendered to itself, and a command prints exactly when it does not fail.
THEOREM TypeIsOK == Spec => []TypeOK
<1>1. ASSUME Inv PROVE TypeOK
  <2>1. \A o \in evidence : Valid(o) /\ o.provider = provider
    BY <1>1, InvInforms DEF Informed, Evident
  <2>2. stage \in {"idle", "refused"} <=> evidence = Nil
    BY <1>1 DEF Inv, Stages, HoldsEvidence, Nil
  <2>3. /\ reply.error # {"invalid"}
        /\ \A d \in reply.document : \E o \in ParseJSON(d) : RenderJSON(o) = {d}
        /\ stage = "answered" =>
              (reply.error \in {Nil, {"partial"}} <=> Outputs(reply) \cup reply.text # Nil)
    <3>1. CASE reply = Silence /\ stage # "answered"
      BY <3>1, SilenceFields DEF Nil
    <3>2. CASE \E o : Sound(o, reply)
      BY <3>2 DEF Sound
    <3> QED
      BY <1>1, <3>1, <3>2, InvReplies
  <2> QED
    BY <1>1, <2>1, <2>2, <2>3 DEF TypeOK, Inv, Stages
<1> QED
  BY <1>1, InvAlways, PTL

\* ScalarMatchesReport: what the value command prints is what the JSON report of
\* the same evidence at the same hour holds, for every selector and field.
THEOREM ScalarsMatchReports == Spec => []ScalarMatchesReport
<1>1. ASSUME Inv PROVE ScalarMatchesReport
  <2>1. ASSUME NEW o \in evidence, NEW c \in command, c.kind = "value", ~UsageError(c)
        PROVE  AgreesWith(Readings(The(RenderJSON(WithPace(o, clock))), c), reply)
    <3>1. Agrees(o, c, clock, reply)
      BY <1>1, <2>1, InvReplies DEF Nil
    <3> QED
      BY <3>1 DEF Agrees
  <2> QED
    BY <2>1 DEF ScalarMatchesReport, AgreesWith
<1> QED
  BY <1>1, InvAlways, PTL

\* GapsAreMarked: the evidence of Devin and Grok is partial exactly when a window
\* has a gap, and a reply about partial evidence carries the error of it.
THEOREM AllGapsAreMarked == Spec => []GapsAreMarked
<1>1. ASSUME Inv PROVE GapsAreMarked
  <2>1. ASSUME NEW o \in evidence, provider \in {"devin", "grok"}
        PROVE  o.outcome = "partial" <=> \E w \in ToSet(o.windows) : VisibleGap(w)
    BY <1>1, <2>1, InvInforms DEF Informed, Gap
  <2>2. ASSUME NEW o \in evidence, Outputs(reply) \cup reply.text # Nil
        PROVE  reply.error = {"partial"} <=> o.outcome = "partial"
    <3>1. Sound(o, reply)
      BY <1>1, <2>2, InvReplies, SilenceFields
    <3> QED
      BY <2>2, <3>1 DEF Sound
  <2> QED
    BY <2>1, <2>2 DEF GapsAreMarked
<1> QED
  BY <1>1, InvAlways, PTL

\* SuppliedIsShown: the percentages of the evidence are those of the answer, for
\* every answer of every provider.
THEOREM AllSuppliedIsShown == Spec => []SuppliedIsShown
<1>1. ASSUME Inv PROVE SuppliedIsShown
  <2> SUFFICES ASSUME NEW o \in evidence, NEW a \in answer
               PROVE  LET windows == {w \in ToSet(o.windows) : w.unit = "percent"}
                          shown == UNION {AmountOf(w, "used") : w \in windows}
                      IN  /\ Supplied(a) \subseteq shown
                          /\ \/ shown \subseteq Supplied(a)
                             \/ /\ provider = "cursor" /\ a.sand.broken = "usage"
                                /\ o.outcome = "partial"
                                /\ shown \subseteq Supplied(a) \cup {0}
                          /\ \A w \in windows :
                                AmountOf(w, "remaining") = {100 - u : u \in AmountOf(w, "used")}
    BY DEF SuppliedIsShown
  <2> DEFINE windows == {w \in ToSet(o.windows) : w.unit = "percent"}
  <2>1. Informed(provider, a, o)
    BY <1>1, InvInforms
  <2>2. PICK shown : Tells(o.windows, shown) /\ Shows(provider, a, o, shown)
    BY <2>1 DEF Informed
  <2>3. /\ UNION {AmountOf(w, "used") : w \in windows} = shown
        /\ \A w \in windows : AmountOf(w, "remaining") = {100 - u : u \in AmountOf(w, "used")}
    BY <2>2 DEF Tells
  <2>4. Supplied(a) = SuppliedFor(provider, a)
    BY DEF Supplied, SuppliedFor
  <2> HIDE DEF windows
  <2>5. /\ Supplied(a) \subseteq shown
        /\ \/ shown \subseteq Supplied(a)
           \/ /\ provider = "cursor" /\ a.sand.broken = "usage" /\ o.outcome = "partial"
              /\ shown \subseteq Supplied(a) \cup {0}
    BY <2>2, <2>4 DEF Shows
  <2> QED
    BY <2>3, <2>5 DEF windows
<1> QED
  BY <1>1, InvAlways, PTL

LEMMA SilentPaces ==
    ASSUME NEW r, r.document = Nil, r.compact = Nil
    PROVE  Paces(r) = {}
BY DEF Paces, Outputs, Nil

LEMMA ValuePaces ==
    ASSUME NEW o, NEW c, NEW now \in Int, Evident(o),
           c.provider = o.provider, c.provider \in Providers, Exact(c)
    PROVE  Paces(Value(o, c, now)) = {}
<1> DEFINE r == Value(o, c, now)
           p == WithPace(o, now)
           readings == Readings(Document(p), c)
           error == PartialError(o)
<1>1. \/ \E e \in RefusalNames \ {"no_match", "undefined", "ambiguous"} : r = Refusal({e})
      \/ r = Refusal({"no_match"}) /\ readings = Nil
      \/ r = Refusal({"undefined"}) /\ readings \subseteq Undefined
      \/ /\ readings # Nil
         /\ r = [Silence EXCEPT !.text = readings, !.error = error]
  BY ValueAnswer DEF Valued
<1> HIDE DEF readings, error, p
<1>2. r.document = Nil /\ r.compact = Nil
  <2> HIDE DEF r
  <2> QED
    BY <1>1, RefusalFields DEF Silence
<1> QED
  BY <1>2, SilentPaces

LEMMA ReportText ==
    ASSUME NEW o, NEW c, NEW now \in Int, Evident(o),
           c.provider = o.provider, c.format \in {"json", "compact"}
    PROVE  Report(o, c, now).text = Nil
<1>1. Reported(o, c, now, Report(o, c, now))
  BY ReportAnswer
<1>2. \A s : Printed(s, c, now).text = Nil
  BY DEF Printed
<1> QED
  BY <1>1, <1>2, RefusalFields DEF Reported

\* A reply to a second command tells the paces the first one did.
LEMMA PacesStay ==
    ASSUME Inv, AskAgain
    PROVE  PaceStays
<1>1. PICK a \in Answers(provider) : \E o \in Evidences(provider, a) : \E c :
         /\ answer = {a} /\ evidence = {o}
         /\ command = {c} /\ IsCommand(c, provider)
         /\ reply = Reply(o, c, clock)
         /\ clock' \in Clocks /\ clock' >= o.observedAt
         /\ reply' = Reply(AsCached(o), c, clock')
  BY SecondAnswer
<1>2. PICK o : \E c :
         /\ evidence = {o}
         /\ command = {c} /\ IsCommand(c, provider)
         /\ reply = Reply(o, c, clock)
         /\ clock' \in Clocks /\ clock' >= o.observedAt
         /\ reply' = Reply(AsCached(o), c, clock')
  BY <1>1
<1>3. PICK c :
         /\ evidence = {o}
         /\ command = {c} /\ IsCommand(c, provider)
         /\ reply = Reply(o, c, clock)
         /\ clock' \in Clocks /\ clock' >= o.observedAt
         /\ reply' = Reply(AsCached(o), c, clock')
  BY <1>2
<1> DEFINE h == AsCached(o)
           now == clock
           later == clock'
<1>4. Evident(o) /\ o.provider = provider /\ provider \in Providers
  BY <1>3, InvInforms DEF Informed, Inv, Stages
<1>5. now \in Int /\ later \in Int /\ later >= o.observedAt
  BY <1>3, ReportingAssumption DEF Inv, Stages
<1>6. Evident(h) /\ SameEvidence(o, h) /\ h.freshness = o.freshness /\ h.provider = provider
  BY <1>4, AsCachedKeeps DEF SameEvidence
<1>7. c.kind \in {"report", "value"} /\ c.format \in {"json", "compact"} /\ c.provider = provider
  BY <1>3 DEF IsCommand
<1>8. reply = Reply(o, c, now) /\ reply' = Reply(h, c, later) /\ command = {c} /\ evidence = {o}
  BY <1>3
<1> HIDE DEF h, now, later
<1>9. CASE UsageError(c)
  <2>1. reply = Refusal({"usage"})
    BY <1>8, <1>9 DEF Reply
  <2> QED
    BY <1>8, <2>1, SilentPaces, RefusalFields DEF PaceStays
<1>10. CASE ~UsageError(c) /\ c.kind = "value"
  <2>1. reply = Value(o, c, now) /\ reply' = Value(h, c, later) /\ Exact(c)
    BY <1>8, <1>10 DEF Reply, UsageError, SelectorMissing, Exact
  <2>2. Paces(reply) = {}
    BY <1>4, <1>5, <1>7, <2>1, ValuePaces
  <2>3. c.field = "pace" /\ reply.text # Nil /\ reply'.text # Nil => reply.text = reply'.text
    BY <1>4, <1>5, <1>6, <1>7, <2>1, PaceValueStays
  <2> QED
    BY <1>8, <2>2, <2>3 DEF PaceStays
<1>11. CASE ~UsageError(c) /\ c.kind = "report"
  <2>1. reply = Report(o, c, now) /\ reply' = Report(h, c, later)
    BY <1>8, <1>11 DEF Reply
  <2>2. reply.text = Nil
    BY <1>4, <1>5, <1>7, <2>1, ReportText
  <2>3. \A x \in Paces(reply) : x \in Paces(reply') \/ \E t \in ResetOf(o, x[1]) : t <= later
    BY <1>4, <1>5, <1>6, <1>7, <2>1, ReportStays
  <2> QED
    BY <1>8, <2>2, <2>3 DEF PaceStays, later
<1> QED
  BY <1>7, <1>9, <1>10, <1>11

\* PaceIsStable: the same command at a later hour, with the evidence from the
\* cache, tells the same pace or none, and none only after the reset.
THEOREM PacesAreStable == Spec => PaceIsStable
<1>1. Inv /\ [Next]_vars => [stage = "answered" => PaceStays]_vars
  BY PacesStay DEF Next, Collect, Cached, ClockMoves, Ask
<1> QED
  BY <1>1, InvAlways, PTL DEF Spec, PaceIsStable

=============================================================================
