---------------------------- MODULE GrokEvidence ----------------------------
(***************************************************************************)
(* The credits config Grok answers with, a sequence of protocol buffer     *)
(* fields, and its normalization.  A field is its number, its wire type    *)
(* and its content: a scalar, or the fields of a message.  Proto3 leaves a *)
(* scalar that is zero out, so a percentage that is missing is zero, once  *)
(* there is a period to say that the limit is in force.                    *)
(***************************************************************************)
EXTENDS Evidence

Varint == 0
Bytes == 2
Fixed32 == 5
Scalar(number, wire, value) ==
    [number |-> number, wire |-> wire, scalar |-> value, fields |-> <<>>]
Message(number, fields) ==
    [number |-> number, wire |-> Bytes, scalar |-> 0, fields |-> fields]

\* A response with periods in it, and the times of a period in them.
Messages(contents) == Seq([number : Nat, wire : Nat, scalar : Int, fields : contents])
GrokResponse == Messages(Messages(Messages({<<>>})))

\* Where the fields of a message with the number are.
AllAt(fields, number) == {i \in DOMAIN fields : fields[i].number = number}

\* Refused when the wire type is not the expected one, or the field comes twice.
Misread(fields, number, wire) ==
    LET found == AllAt(fields, number)
    IN  ~AtMostOne(found) \/ \E i \in found : fields[i].wire # wire

\* Its content, or Nil when it is missing.
ScalarAt(fields, number) ==
    LET found == AllAt(fields, number)
    IN  IF found = {} THEN Nil ELSE {fields[Max(found)].scalar}

MessageAt(fields, number) ==
    LET found == AllAt(fields, number)
    IN  IF found = {} THEN Nil ELSE {fields[Max(found)].fields}

MaxNanos == 999999999

\* Field 1 is the hour, which a varint below 1970 takes beyond an int64, and
\* field 2 the nanoseconds, which the clock is too coarse for.
TimestampRefused(fields) ==
    \/ Misread(fields, 1, Varint) \/ ScalarAt(fields, 1) = Nil
    \/ ~ScalarAt(fields, 1) \subseteq 0..LastHour
    \/ Misread(fields, 2, Varint) \/ ~ScalarAt(fields, 2) \subseteq 0..MaxNanos

\* periodAt: an unsupported period refuses the response; none at all is fine.
PeriodRefused(fields) ==
    \/ Misread(fields, 1, Varint) \/ ScalarAt(fields, 1) \notin {{1}, {2}}
    \/ \E end \in 2..3 : \/ Misread(fields, end, Bytes) \/ MessageAt(fields, end) = Nil
                         \/ \E time \in MessageAt(fields, end) : TimestampRefused(time)

TimeAt(fields, number) == The(ScalarAt(The(MessageAt(fields, number)), 1))

Period(fields) == [start |-> TimeAt(fields, 2), reset |-> TimeAt(fields, 3)]

CycleRefused(config) ==
    \/ Misread(config, 8, Bytes)
    \/ \E raw \in MessageAt(config, 8) :
            \/ PeriodRefused(raw)
            \/ Period(raw).reset - Period(raw).start \notin 1..MaxDuration

GrokWindow(id, scope, used, cycle) ==
    Window(id, scope, "percent",
               <<Limit(id, "used", OptionalNumber(used)),
                 Limit(id, "remaining", OptionalNumber({100 - u : u \in used}))>>
               \o DurationLimits(id, {c.reset - c.start : c \in cycle})
               \o ResetLimits(id, {c.reset : c \in cycle}))

\* Takes a missing percentage for zero with or without a period.
BugOmitted(used, cycle) == IF used = Nil THEN {0} ELSE used

Omitted(used, cycle) == IF used = Nil /\ cycle # Nil THEN {0} ELSE used

\* An unnamed product is kind 0.
ProductKind(product) ==
    IF ScalarAt(product, 1) = Nil THEN 0 ELSE The(ScalarAt(product, 1))

\* The identifier and the scope of a product are its kind.
ProductWindow(product, cycle) ==
    LET kind == ProductKind(product)
    IN  GrokWindow(<<"", "product", kind>>, "product:" \o ToString(kind),
                   Omitted(ScalarAt(product, 2), cycle), cycle)

ProductRefused(product) ==
    \/ Misread(product, 1, Varint) \/ Misread(product, 2, Fixed32)
    \/ ~ScalarAt(product, 2) \subseteq 0..100

PrepaidWindow(prepaid) ==
    LET id == <<"", "prepaid">>
        balance == IF ScalarAt(prepaid, 1) = Nil THEN 0 ELSE The(ScalarAt(prepaid, 1))
    IN  Window(id, "account", "credits", <<Limit(id, "remaining", Number(balance))>>)

\* normalize: the config is field 1 of the response.
NormalizeGrok(config, now) ==
    LET cycle == {Period(raw) : raw \in MessageAt(config, 8)}
        shared == Omitted(ScalarAt(config, 1), cycle)
        products == [i \in AllAt(config, 7) |-> config[i].fields]
        credits == IF shared = Nil THEN <<>>
                   ELSE <<GrokWindow(<<"", "credits">>, "account", shared, cycle)>>
        prepaid == IF MessageAt(config, 12) = Nil THEN <<>>
                   ELSE <<PrepaidWindow(The(MessageAt(config, 12)))>>
        windows == Flatten(<<credits, [i \in DOMAIN products |-> ProductWindow(products[i], cycle)],
                             prepaid>>)
        partial == \E p \in ToSet(products) : Omitted(ScalarAt(p, 2), cycle) = Nil
        refused == \/ CycleRefused(config)
                   \/ Misread(config, 1, Fixed32) \/ ~ScalarAt(config, 1) \subseteq 0..100
                   \/ \E i \in AllAt(config, 7) : config[i].wire # Bytes
                   \/ \E p \in ToSet(products) : ProductRefused(p)
                   \/ Misread(config, 12, Bytes)
                   \/ \E p \in MessageAt(config, 12) : Misread(p, 1, Varint)
        outcome == IF partial THEN "partial" ELSE "complete"
    IN  IF refused \/ DOMAIN windows = {} THEN Nil
        ELSE {o \in {Observation("grok", "", "unknown", now, outcome, windows)} : Valid(o)}

=============================================================================
