---------------------------- MODULE CollectionProofs ---------------------------
(***************************************************************************)
(* Theorems about Collection, for any providers, deadline and ages.        *)
(***************************************************************************)
EXTENDS Collection, ProviderErrorsProofs, TLAPS

----------------------------------------------------------------------------
(* The tables *)

\* What a command that collected every provider exits with.
LEMMA ExitCodeValues ==
    ASSUME NEW i \in BOOLEAN
    PROVE  /\ ExitCode(NoError, i) = IF i THEN 130 ELSE 0
           /\ ExitCode({"unavailable"}, i) = 1
           /\ ExitCode({"partial"}, i) = 3
           /\ ExitCode({"canceled"}, i) = 130
<1>1. ExitCodes[2][1] = {"unavailable", "cache_unavailable", "lock_timeout", "backoff",
                         "deadline", "provider_unavailable"}
  BY DEF ExitCodes
<1> QED
  BY <1>1, ExitCodeOfError DEF ExitCode, NoError

\* The value of a table is its default or that of a case that holds.
LEMMA FirstOfRange ==
    ASSUME NEW checks, NEW default, DOMAIN checks \subseteq {1, 2, 3, 4, 5}
    PROVE  \/ FirstOf(checks, default) = default
           \/ \E i \in DOMAIN checks :
                 checks[i][1] /\ FirstOf(checks, default) = checks[i][2]
<1> DEFINE First(i) == /\ i \in DOMAIN checks /\ checks[i][1]
                       /\ \A j \in DOMAIN checks : checks[j][1] => i <= j
<1>1. CASE \E i \in DOMAIN checks : checks[i][1]
  <2> DEFINE holding == {i \in DOMAIN checks : checks[i][1]}
  <2>1. holding \subseteq {1, 2, 3, 4, 5} /\ holding # {}
    BY <1>1
  <2> HIDE DEF holding
  <2>2. \E i \in holding : \A j \in holding : i <= j
    <3>1. CASE 1 \in holding
      BY <2>1, <3>1
    <3>2. CASE 1 \notin holding /\ 2 \in holding
      BY <2>1, <3>2
    <3>3. CASE 1 \notin holding /\ 2 \notin holding /\ 3 \in holding
      BY <2>1, <3>3
    <3>4. CASE 1 \notin holding /\ 2 \notin holding /\ 3 \notin holding /\ 4 \in holding
      BY <2>1, <3>4
    <3>5. CASE 1 \notin holding /\ 2 \notin holding /\ 3 \notin holding /\ 4 \notin holding
      <4>1. 5 \in holding /\ \A j \in holding : 5 <= j
        <5>1. \A j \in holding : j = 5
          BY <2>1, <3>5
        <5>2. PICK j \in holding : TRUE
          BY <2>1
        <5> QED
          BY <5>1, <5>2
      <4> QED
        BY <4>1
    <3> QED
      BY <3>1, <3>2, <3>3, <3>4, <3>5
  <2>3. PICK i : First(i)
    BY <2>2 DEF holding
  <2>4. DOMAIN checks \subseteq Nat
    OBVIOUS
  <2>5. FirstOf(checks, default) = checks[i][2]
    BY <2>3, <2>4, FirstOfHolding
  <2> QED
    BY <2>3, <2>5
<1>2. CASE ~ \E i \in DOMAIN checks : checks[i][1]
  BY <1>2, FirstOfNone
<1> QED
  BY <1>1, <1>2

\* A failure is shown as one of the messages, which no provider's state is.
LEMMA MessageType ==
    ASSUME NEW err
    PROVE  FailureMessage(err) \in FailureMessages /\ FailureMessage(err) \notin Reported
<1> DEFINE checks(e) == [k \in DOMAIN Messages |->
                            <<Messages[k][1] \cap e # {}, Messages[k][2]>>]
           default == "quota is unavailable"
<1>1. /\ DOMAIN Messages = {1, 2, 3, 4, 5}
      /\ Messages[1][2] = "quota collection timed out"
      /\ Messages[2][2] = "cached quota evidence is unavailable"
      /\ Messages[3][2] = "quota evidence is stale"
      /\ Messages[4][2] = "quota account does not match"
      /\ Messages[5][2] = "requested quota evidence is unavailable"
  BY DEF Messages
<1>2. \A e : /\ DOMAIN checks(e) = {1, 2, 3, 4, 5}
             /\ \A k \in {1, 2, 3, 4, 5} : /\ checks(e)[k][1] <=> Messages[k][1] \cap e # {}
                                /\ checks(e)[k][2] = Messages[k][2]
             /\ FailureMessage(e) = FirstOf(checks(e), default)
  BY <1>1 DEF FailureMessage, FirstMatch
<1> HIDE DEF checks, default
<1>3. FailureMessage({}) = default
  <2>1. \A k \in DOMAIN checks({}) : ~checks({})[k][1]
    BY <1>2
  <2>2. FirstOf(checks({}), default) = default
    BY <2>1, FirstOfNone
  <2> QED
    BY <1>2, <2>2
<1>4. \/ FailureMessage(err) = default
      \/ \E k \in {1, 2, 3, 4, 5} : FailureMessage(err) = Messages[k][2]
  <2>1. DOMAIN checks(err) \subseteq {1, 2, 3, 4, 5}
    BY <1>2
  <2>2. \/ FirstOf(checks(err), default) = default
        \/ \E k \in DOMAIN checks(err) :
              checks(err)[k][1] /\ FirstOf(checks(err), default) = checks(err)[k][2]
    BY <2>1, FirstOfRange
  <2>3. FailureMessage(err) = FirstOf(checks(err), default)
    BY <1>2
  <2>4. \A k \in {1, 2, 3, 4, 5} : checks(err)[k][2] = Messages[k][2]
    BY <1>2
  <2>5. DOMAIN checks(err) = {1, 2, 3, 4, 5}
    BY <1>2
  <2> QED
    BY <2>2, <2>3, <2>4, <2>5
<1>5. \A k \in {1, 2, 3, 4, 5} : Messages[k][2] \notin Reported /\ Messages[k][2] \in FailureMessages
  BY <1>1 DEF Reported, FailureMessages
<1>6. default \notin Reported /\ default \in FailureMessages
  BY <1>3 DEF Reported, FailureMessages, default
<1> QED
  BY <1>4, <1>5, <1>6

\* An entry of the report is evidence, selected and not expired by now, or a
\* message.
LEMMA EntryValues ==
    ASSUME NEW r, NEW now
    PROVE  /\ Entry(r, now) \in Reported =>
                 /\ r.err = NoError /\ ~Outdated(r, now)
                 /\ options.freshOnly => r.freshness = "fresh"
           /\ r.outcome \in Outcomes \/ r.err # NoError =>
                 Entry(r, now) \in Reported \cup FailureMessages \cup {Expired}
<1> DEFINE checks == << <<Outdated(r, now), Expired>>,
                        <<options.freshOnly /\ r.freshness # "fresh", FailureMessage({"stale"})>>,
                        <<r.outcome = "lacking", FailureMessage({"no_match"})>> >>
<1>1. CASE r.err # NoError
  BY <1>1, MessageType DEF Entry
<1>2. CASE r.err = NoError
  <2>1. Entry(r, now) = FirstOf(checks, r.outcome)
    BY <1>2 DEF Entry
  <2>2. /\ DOMAIN checks = {1, 2, 3}
        /\ checks[1][1] <=> Outdated(r, now)
        /\ checks[2][1] <=> (options.freshOnly /\ r.freshness # "fresh")
        /\ checks[3][1] <=> r.outcome = "lacking"
        /\ checks[1][2] = Expired
        /\ checks[2][2] = FailureMessage({"stale"})
        /\ checks[3][2] = FailureMessage({"no_match"})
    <3>1. DOMAIN checks = {1, 2, 3}
      OBVIOUS
    <3>2. checks[1][1] <=> Outdated(r, now)
      OBVIOUS
    <3>3. checks[2][1] <=> (options.freshOnly /\ r.freshness # "fresh")
      OBVIOUS
    <3>4. checks[3][1] <=> r.outcome = "lacking"
      OBVIOUS
    <3>5. checks[1][2] = Expired
      OBVIOUS
    <3>6. checks[2][2] = FailureMessage({"stale"})
      OBVIOUS
    <3>7. checks[3][2] = FailureMessage({"no_match"})
      OBVIOUS
    <3> QED
      BY <3>1, <3>2, <3>3, <3>4, <3>5, <3>6, <3>7
  <2> HIDE DEF checks
  <2>3. Expired \notin Reported
    BY DEF Expired, Reported
  <2>4. \A k \in DOMAIN checks : /\ checks[k][2] \notin Reported
                                 /\ checks[k][2] \in FailureMessages \cup {Expired}
    BY <2>2, <2>3, MessageType
  <2>5. CASE \E k \in DOMAIN checks : checks[k][1]
    <3>1. PICK k \in DOMAIN checks :
             checks[k][1] /\ \A j \in DOMAIN checks : checks[j][1] => k <= j
      <4>1. CASE checks[1][1]
        BY <2>2, <4>1
      <4>2. CASE ~checks[1][1] /\ checks[2][1]
        BY <2>2, <4>2
      <4>3. CASE ~checks[1][1] /\ ~checks[2][1]
        BY <2>2, <2>5, <4>3
      <4> QED
        BY <4>1, <4>2, <4>3
    <3>2. DOMAIN checks \subseteq Nat
      BY <2>2
    <3>3. Entry(r, now) = checks[k][2]
      BY <2>1, <3>1, <3>2, FirstOfHolding
    <3> QED
      BY <2>4, <3>1, <3>3
  <2>6. CASE ~ \E k \in DOMAIN checks : checks[k][1]
    <3>1. Entry(r, now) = r.outcome
      BY <2>1, <2>6, FirstOfNone
    <3>2. /\ ~Outdated(r, now) /\ r.outcome # "lacking"
          /\ ~(options.freshOnly /\ r.freshness # "fresh")
      BY <2>2, <2>6
    <3> QED
      BY <1>2, <3>1, <3>2 DEF Outcomes
  <2> QED
    BY <2>5, <2>6
<1> QED
  BY <1>1, <1>2

\* The error of a report and what the report says.
LEMMA OutcomeValues ==
    ASSUME NEW entries
    PROVE  LET shown == {p \in Collected : entries[p] \in Reported}
           IN  /\ Outcome(entries) \in {NoError, {"unavailable"}, {"partial"}}
               /\ Outcome(entries) = NoError => \A p \in Collected : entries[p] = "complete"
               /\ Outcome(entries) = {"unavailable"} => shown = {}
               /\ Outcome(entries) = {"partial"} =>
                     shown # {} /\ \E p \in Collected : entries[p] # "complete"
<1> DEFINE shown == {p \in Collected : entries[p] \in Reported}
           lacking == \E p \in Collected : entries[p] # "complete"
           checks == << <<shown = {}, {"unavailable"}>>, <<lacking, {"partial"}>> >>
<1>1. Outcome(entries) = FirstOf(checks, NoError)
  BY DEF Outcome, FirstError
<1>3. ~lacking => \A p \in Collected : entries[p] = "complete"
  OBVIOUS
<1> HIDE DEF shown, lacking
<1>2. /\ DOMAIN checks = {1, 2}
      /\ checks[1][1] <=> shown = {}
      /\ checks[2][1] <=> lacking
      /\ checks[1][2] = {"unavailable"} /\ checks[2][2] = {"partial"}
  <2>1. DOMAIN checks = {1, 2}
    OBVIOUS
  <2>2. checks[1][1] <=> shown = {}
    OBVIOUS
  <2>3. checks[2][1] <=> lacking
    OBVIOUS
  <2>4. checks[1][2] = {"unavailable"}
    OBVIOUS
  <2>5. checks[2][2] = {"partial"}
    OBVIOUS
  <2> QED
    BY <2>1, <2>2, <2>3, <2>4, <2>5
<1> HIDE DEF checks
<1>4. /\ NoError # {"unavailable"} /\ NoError # {"partial"}
      /\ {"unavailable"} # {"partial"}
  BY DEF NoError
<1>5. CASE shown = {}
  BY <1>1, <1>2, <1>4, <1>5, FirstOfHolding DEF shown
<1>6. CASE shown # {} /\ lacking
  <2>1. Outcome(entries) = {"partial"}
    BY <1>1, <1>2, <1>6, FirstOfHolding
  <2> QED
    BY <1>4, <1>6, <2>1 DEF shown, lacking
<1>7. CASE shown # {} /\ ~lacking
  <2>1. Outcome(entries) = NoError
    BY <1>1, <1>2, <1>7, FirstOfNone
  <2> QED
    BY <1>3, <1>4, <1>7, <2>1 DEF shown
<1> QED
  BY <1>5, <1>6, <1>7

----------------------------------------------------------------------------
(* What the goroutines leave behind *)

Results == Evidence \cup Failures \cup {Pending}

\* A result that p may return now: an end of its context has its cause, and
\* evidence of the cache is what the command line allows.
Sound(p, r) ==
    /\ r \in Results
    /\ "deadline" \in r.err => clock >= Deadline
    /\ "canceled" \in r.err => interrupted
    /\ r.err = NoError =>
          /\ r.cached \in BOOLEAN
          /\ r.at \in Int
          /\ r.outcome \in Outcomes
          /\ r.freshness = "stale" => r.cached /\ options.staleOnError
          /\ r.freshness = "fresh" /\ r.cached /\ options.refresh => renewed[p]
          /\ options.mode = "only" => r.cached

ContextHasCause ==
    /\ context = "deadline" => clock >= Deadline
    /\ context = "canceled" => interrupted

Collecting ==
    \A p \in Collected :
        /\ Sound(p, result[p])
        /\ pc[p] # "done" => result[p] = Pending
        /\ options.mode = "only" => pc[p] \in {"bind", "consult", "done"}

\* Until the report is made, and after an interrupt, there is none; afterwards
\* it is what the results say at its time.
Reporting ==
    /\ phase = "collecting" => evaluatedAt = NoTime /\ returned = NoError
    /\ evaluatedAt = NoTime => \A p \in Collected : report[p] = "none"
    /\ phase # "collecting" /\ evaluatedAt = NoTime => returned = {"canceled"}
    /\ evaluatedAt # NoTime =>
          /\ Done
          /\ \A p \in Collected : report[p] = Entry(result[p], evaluatedAt)
          /\ returned = Outcome(report)
    /\ phase = "exited" => exit \in {ExitCode(returned, TRUE), ExitCode(returned, FALSE)}

CollectionInv ==
    /\ TypeOK
    /\ result \in [Collected -> Results]
    /\ ContextHasCause
    /\ Collecting
    /\ Reporting

LEMMA NoErrorIsNoFailure == NoError \notin Errors /\ Pending.err # NoError
BY DEF NoError, Errors, Sentinels, ContextErrors, Pending

LEMMA FailureIsSound ==
    ASSUME NEW p \in Collected, NEW error \in Errors,
           "deadline" \in error => clock >= Deadline,
           "canceled" \in error => interrupted
    PROVE  Sound(p, [err |-> error])
<1>1. [err |-> error] \in Failures
  BY DEF Failures
<1>2. error # NoError
  BY NoErrorIsNoFailure
<1> QED
  BY <1>1, <1>2 DEF Sound, Results

LEMMA CachedIsSound ==
    ASSUME TypeOK, NEW p \in Collected, NEW outcome \in Outcomes,
           NEW freshness \in {"fresh", "stale"},
           freshness = "stale" => options.staleOnError,
           freshness = "fresh" /\ options.refresh => renewed[p]
    PROVE  Sound(p, [err |-> NoError, at |-> stored[p], cached |-> TRUE,
                     freshness |-> freshness, outcome |-> outcome])
<1> DEFINE r == [err |-> NoError, at |-> stored[p], cached |-> TRUE,
                 freshness |-> freshness, outcome |-> outcome]
<1>1. stored[p] \in Times \cup {NoTime} /\ stored[p] \in Int
  BY CollectionAssumption DEF TypeOK, Times, NoTime
<1>2. r \in Evidence
  BY <1>1 DEF Evidence
<1>3. /\ r.err = NoError /\ r.at = stored[p] /\ r.cached
      /\ r.freshness = freshness /\ r.outcome = outcome
  OBVIOUS
<1>4. "deadline" \notin NoError /\ "canceled" \notin NoError
  BY DEF NoError
<1>5. r.cached \in BOOLEAN
  OBVIOUS
<1> HIDE DEF r
<1>6. Sound(p, r)
  BY <1>1, <1>2, <1>3, <1>4, <1>5 DEF Sound, Results
<1> QED
  BY <1>6 DEF r

LEMMA AnswerIsSound ==
    ASSUME options.mode # "only", NEW p \in Collected, NEW outcome \in Outcomes
    PROVE  Sound(p, [err |-> NoError, at |-> NoTime, cached |-> FALSE,
                     freshness |-> "fresh", outcome |-> outcome])
<1> DEFINE r == [err |-> NoError, at |-> NoTime, cached |-> FALSE,
                 freshness |-> "fresh", outcome |-> outcome]
<1>1. r \in Evidence
  BY DEF Evidence
<1>2. /\ r.err = NoError /\ r.at = NoTime /\ ~r.cached
      /\ r.freshness = "fresh" /\ r.outcome = outcome
  OBVIOUS
<1>3. "deadline" \notin NoError /\ "canceled" \notin NoError /\ NoTime \in Int
  BY DEF NoError, NoTime
<1>4. r.cached \in BOOLEAN
  OBVIOUS
<1> HIDE DEF r
<1>5. Sound(p, r)
  BY <1>1, <1>2, <1>3, <1>4 DEF Sound, Results
<1> QED
  BY <1>5 DEF r

Works(p) ==
    \/ Bind(p) \/ Consult(p) \/ LockFails(p) \/ Review(p) \/ GiveUp(p)
    \/ Answer(p) \/ Refused(p)

\* p goes on, or returns what it may return.
Moves(p) ==
    \/ \E next \in {"consult", "lock", "call", "direct"} :
          /\ options.mode = "only" => next = "consult"
          /\ Proceed(p, next)
    \/ \E r : Sound(p, r) /\ Finish(p, r)

LEMMA FromCacheMoves ==
    ASSUME TypeOK, NEW p \in Collected, NEW freshness \in {"fresh", "stale"},
           freshness = "stale" => options.staleOnError,
           freshness = "fresh" /\ options.refresh => renewed[p],
           FromCache(p, freshness)
    PROVE  Moves(p)
BY CachedIsSound DEF FromCache, Moves

LEMMA FailMoves ==
    ASSUME NEW p \in Collected, NEW error \in Errors,
           "deadline" \in error => clock >= Deadline,
           "canceled" \in error => interrupted,
           Fail(p, error)
    PROVE  Moves(p)
BY FailureIsSound DEF Fail, Moves

\* The failures the code returns itself, without the context.
LEMMA OwnFailures ==
    /\ \A e \in {"cache_unavailable", "lock_timeout", "backoff", "provider_unavailable"} :
          {e} \in Errors /\ "deadline" \notin {e} /\ "canceled" \notin {e}
    /\ \A error \in ProviderFailures, why \in ContextErrors :
          /\ error \in Errors /\ error \cup {why} \in Errors
          /\ "deadline" \notin error /\ "canceled" \notin error
BY DEF Errors, Sentinels, ContextErrors, ProviderFailures

LEMMA ContextFailures ==
    ASSUME ContextHasCause, TypeOK, context # "live", NEW p \in Collected,
           NEW error \in ProviderFailures \cup {{}}
    PROVE  /\ error \cup {context} \in Errors
           /\ "deadline" \in error \cup {context} => clock >= Deadline
           /\ "canceled" \in error \cup {context} => interrupted
BY DEF ContextHasCause, TypeOK, Errors, Sentinels, ContextErrors, ProviderFailures

LEMMA BackedOffMoves ==
    ASSUME TypeOK, NEW p \in Collected, BackedOff(p)
    PROVE  Moves(p)
<1>1. CASE StaleAllowed(p)
  BY <1>1, FromCacheMoves DEF BackedOff, StaleAllowed
<1>2. CASE ~StaleAllowed(p)
  BY <1>2, FailMoves, OwnFailures DEF BackedOff
<1> QED
  BY <1>1, <1>2

LEMMA RefuseMoves ==
    ASSUME TypeOK, NEW p \in Collected, NEW error \in Errors,
           "deadline" \in error => clock >= Deadline,
           "canceled" \in error => interrupted,
           Refuse(p, error)
    PROVE  Moves(p)
<1>1. CASE Fail(p, error)
  BY <1>1, FailMoves
<1>2. CASE StaleAllowed(p) /\ FromCache(p, "stale")
  BY <1>2, FromCacheMoves DEF StaleAllowed
<1> QED
  BY <1>1, <1>2 DEF Refuse

LEMMA WorkMoves ==
    ASSUME CollectionInv, NEW p \in Collected, Works(p)
    PROVE  /\ Moves(p) /\ pc[p] # "done"
           /\ UNCHANGED <<source, clock, cache, output>>
<1> USE DEF CollectionInv
<1>1. TypeOK /\ ContextHasCause
  OBVIOUS
<1>2. options.mode = "only" => pc[p] \in {"bind", "consult", "done"}
  BY DEF Collecting
<1>3. \A error : error = {} \cup error
  OBVIOUS
<1>4. UNCHANGED <<source, clock, cache, output>> /\ pc[p] # "done"
  BY DEF Works, Bind, Consult, LockFails, Review, GiveUp, Answer, Refused, Asking
<1> SUFFICES Moves(p)
  BY <1>4
<1>5. CASE Bind(p)
  <2>1. CASE options.mode = "off"
    <3>1. Proceed(p, "direct")
      BY <1>5, <2>1 DEF Bind
    <3>2. options.mode # "only"
      BY <2>1
    <3> QED
      BY <3>1, <3>2 DEF Moves
  <2>2. CASE options.mode # "off" /\ context # "live"
    <3>1. Fail(p, {context})
      BY <1>5, <2>2 DEF Bind
    <3> QED
      BY <1>1, <1>3, <2>2, <3>1, FailMoves, ContextFailures
  <2>3. CASE options.mode # "off" /\ context = "live"
    <3>1. Proceed(p, "consult") \/ Beside(p)
      BY <1>5, <2>3 DEF Bind
    <3>2. CASE Proceed(p, "consult")
      BY <3>2 DEF Moves
    <3>3. CASE Beside(p) /\ options.mode = "only"
      BY <3>3, FailMoves, OwnFailures DEF Beside
    <3>4. CASE Beside(p) /\ options.mode # "only"
      BY <3>4 DEF Beside, Moves
    <3> QED
      BY <3>1, <3>2, <3>3, <3>4
  <2> QED
    BY <2>1, <2>2, <2>3
<1>6. CASE Consult(p)
  <2>1. CASE Eligible(p) /\ ~options.refresh
    <3>1. FromCache(p, "fresh")
      BY <1>6, <2>1 DEF Consult
    <3> QED
      BY <1>1, <2>1, <3>1, FromCacheMoves
  <2>2. CASE ~(Eligible(p) /\ ~options.refresh) /\ options.mode = "only"
    <3>1. Fail(p, {"cache_unavailable"})
      BY <1>6, <2>2 DEF Consult
    <3> QED
      BY <3>1, FailMoves, OwnFailures
  <2>3. CASE ~(Eligible(p) /\ ~options.refresh) /\ options.mode # "only"
    <3>1. Proceed(p, "lock") \/ Proceed(p, "direct") \/ BackedOff(p)
      BY <1>6, <2>3 DEF Consult
    <3>2. CASE BackedOff(p)
      BY <1>1, <3>2, BackedOffMoves
    <3>3. CASE Proceed(p, "lock") \/ Proceed(p, "direct")
      BY <2>3, <3>3 DEF Moves
    <3> QED
      BY <3>1, <3>2, <3>3
  <2> QED
    BY <2>1, <2>2, <2>3
<1>7. CASE LockFails(p)
  <2>1. options.mode # "only"
    BY <1>2, <1>7 DEF LockFails
  <2>2. Fail(p, {"lock_timeout"}) \/ Proceed(p, "direct")
    BY <1>7 DEF LockFails
  <2> QED
    BY <2>1, <2>2, FailMoves, OwnFailures DEF Moves
<1>8. CASE Review(p)
  <2>1. options.mode # "only"
    BY <1>2, <1>8 DEF Review
  <2>2. \/ BackedOff(p)
        \/ FromCache(p, "fresh") /\ (options.refresh => renewed[p])
        \/ Proceed(p, "call")
    BY <1>8 DEF Review
  <2> QED
    BY <1>1, <2>1, <2>2, BackedOffMoves, FromCacheMoves DEF Moves
<1>9. CASE Answer(p)
  <2>1. options.mode # "only"
    BY <1>2, <1>9 DEF Answer, Asking
  <2> QED
    BY <1>9, <2>1, AnswerIsSound DEF Answer, Moves
<1>10. CASE Refused(p)
  <2>1. PICK error \in ProviderFailures : Refuse(p, error)
    BY <1>10 DEF Refused
  <2>2. error \in Errors /\ "deadline" \notin error /\ "canceled" \notin error
    BY OwnFailures DEF ContextErrors
  <2> QED
    BY <1>1, <2>1, <2>2, RefuseMoves
<1>11. CASE GiveUp(p)
  <2>1. CASE \E wrapping \in ProviderFailures : Refuse(p, wrapping \cup {context})
    BY <1>1, <1>11, <2>1, RefuseMoves, ContextFailures DEF GiveUp
  <2>2. CASE Fail(p, {context})
    BY <1>1, <1>3, <1>11, <2>2, FailMoves, ContextFailures DEF GiveUp
  <2> QED
    BY <1>11, <2>1, <2>2 DEF GiveUp
<1> QED
  BY <1>5, <1>6, <1>7, <1>8, <1>9, <1>10, <1>11 DEF Works

----------------------------------------------------------------------------
(* The invariant *)

LEMMA MovesType ==
    ASSUME CollectionInv, NEW p \in Collected, Moves(p)
    PROVE  /\ pc' \in [Collected -> {"bind", "consult", "lock", "call", "direct", "done"}]
           /\ result' \in [Collected -> Results]
<1> USE DEF CollectionInv
<1>1. /\ pc \in [Collected -> {"bind", "consult", "lock", "call", "direct", "done"}]
      /\ result \in [Collected -> Results]
  BY DEF TypeOK
<1>2. CASE \E next \in {"consult", "lock", "call", "direct"} : Proceed(p, next)
  BY <1>1, <1>2 DEF Proceed
<1>3. CASE \E r : Sound(p, r) /\ Finish(p, r)
  BY <1>1, <1>3 DEF Finish, Sound
<1> QED
  BY <1>2, <1>3 DEF Moves

LEMMA WorkStep ==
    ASSUME CollectionInv, NEW p \in Collected, Works(p)
    PROVE  CollectionInv'
<1> USE DEF CollectionInv
<1>1. /\ Moves(p) /\ pc[p] # "done"
      /\ UNCHANGED <<source, clock, cache, output>>
  BY WorkMoves
<1>2. /\ UNCHANGED <<options, interrupted, context, clock, stored, renewed>>
      /\ UNCHANGED <<phase, evaluatedAt, report, returned, exit>>
  BY <1>1 DEF source, cache, output
<1>3. /\ pc' \in [Collected -> {"bind", "consult", "lock", "call", "direct", "done"}]
      /\ result' \in [Collected -> Results]
  BY <1>1, MovesType
<1>4. TypeOK'
  BY <1>2, <1>3 DEF TypeOK, Results
<1>5. ContextHasCause'
  BY <1>2 DEF ContextHasCause
<1>6. Collecting'
  <2>2. \A q \in Collected \ {p} : pc'[q] = pc[q] /\ result'[q] = result[q]
    BY <1>1, <1>3 DEF Moves, Proceed, Finish, TypeOK
  <2>3. /\ Sound(p, result[p])'
        /\ pc'[p] # "done" => result'[p] = Pending
        /\ options.mode = "only" => pc'[p] \in {"bind", "consult", "done"}
    <3>1. CASE \E next \in {"consult", "lock", "call", "direct"} :
                  /\ options.mode = "only" => next = "consult"
                  /\ Proceed(p, next)
      <4>1. result' = result
        BY <3>1 DEF Proceed
      <4>2. /\ pc'[p] # "done"
            /\ options.mode = "only" => pc'[p] = "consult"
        BY <3>1 DEF Proceed, TypeOK
      <4>3. Sound(p, result[p]) /\ result[p] = Pending
        BY <1>1 DEF Collecting
      <4>4. Sound(p, result[p])'
        BY <1>2, <4>1, <4>3 DEF Sound
      <4> QED
        BY <4>1, <4>2, <4>3, <4>4
    <3>2. CASE \E r : Sound(p, r) /\ Finish(p, r)
      <4>1. PICK r : Sound(p, r) /\ Finish(p, r)
        BY <3>2
      <4>2. pc'[p] = "done" /\ result'[p] = r
        BY <4>1 DEF Finish, TypeOK
      <4>3. Sound(p, result[p])'
        BY <1>2, <4>1, <4>2 DEF Sound
      <4> QED
        BY <4>2, <4>3
    <3> QED
      BY <1>1, <3>1, <3>2 DEF Moves
  <2>4. ASSUME NEW q \in Collected
        PROVE  /\ Sound(q, result[q])'
               /\ pc'[q] # "done" => result'[q] = Pending
               /\ options'.mode = "only" => pc'[q] \in {"bind", "consult", "done"}
    <3>1. CASE q = p
      BY <1>2, <2>3, <3>1
    <3>2. CASE q # p
      <4>1. pc'[q] = pc[q] /\ result'[q] = result[q]
        BY <2>2, <3>2
      <4>2. Sound(q, result[q])'
        BY <1>2, <4>1 DEF Sound, Collecting
      <4> QED
        BY <1>2, <4>1, <4>2 DEF Collecting
    <3> QED
      BY <3>1, <3>2
  <2> QED
    BY <2>4 DEF Collecting
<1>7. Reporting'
  <2>1. ~Done /\ evaluatedAt = NoTime
    BY <1>1 DEF Done, Reporting
  <2> QED
    BY <1>2, <2>1 DEF Reporting
<1> QED
  BY <1>3, <1>4, <1>5, <1>6, <1>7

LEMMA EnvironmentStep ==
    ASSUME CollectionInv,
           \/ \E p \in Collected : OthersRefresh(p)
           \/ Interrupt
           \/ Tick
           \/ UNCHANGED vars
    PROVE  CollectionInv'
<1> USE DEF CollectionInv
<1>1. /\ UNCHANGED <<options, pc, result, phase, evaluatedAt, report, returned, exit>>
      /\ clock' \in Nat /\ clock' >= clock /\ clock \in Nat
      /\ interrupted => interrupted'
  BY CollectionAssumption
     DEF OthersRefresh, Interrupt, Tick, vars, source, cache, output, TypeOK, Times
<1>2. /\ clock' \in Times
      /\ interrupted' \in BOOLEAN
      /\ context' \in ContextErrors \cup {"live"}
      /\ stored' \in [Collected -> Times \cup {NoTime}]
      /\ renewed' \in [Collected -> BOOLEAN]
  <2>1. CASE \E p \in Collected : OthersRefresh(p)
    BY <2>1 DEF OthersRefresh, source, TypeOK
  <2>2. CASE Interrupt
    BY <2>2 DEF Interrupt, EndAs, cache, TypeOK, ContextErrors
  <2>3. CASE Tick
    BY <2>3, CollectionAssumption DEF Tick, EndAs, cache, TypeOK, ContextErrors, Times
  <2>4. CASE UNCHANGED vars
    BY <2>4 DEF vars, source, cache, TypeOK
  <2> QED
    BY <2>1, <2>2, <2>3, <2>4
<1>3. TypeOK'
  BY <1>1, <1>2 DEF TypeOK
<1>4. ContextHasCause'
  <2>1. CASE Interrupt
    BY <2>1 DEF Interrupt, EndAs, ContextHasCause
  <2>2. CASE Tick
    BY <1>1, <2>2, CollectionAssumption DEF Tick, EndAs, ContextHasCause
  <2>3. CASE UNCHANGED <<clock, interrupted, context>>
    BY <2>3 DEF ContextHasCause
  <2> QED
    BY <2>1, <2>2, <2>3 DEF OthersRefresh, vars, source
<1>5. Collecting'
  <2> SUFFICES ASSUME NEW p \in Collected
               PROVE  Sound(p, result[p])'
    BY <1>1 DEF Collecting
  <2>1. Sound(p, result[p]) /\ (pc[p] # "done" => result[p] = Pending)
    BY DEF Collecting
  <2>2. CASE pc[p] # "done"
    BY <1>1, <2>1, <2>2, NoErrorIsNoFailure DEF Sound, Pending
  <2>3. CASE pc[p] = "done"
    <3>1. renewed'[p] = renewed[p]
      BY <2>3 DEF OthersRefresh, Interrupt, Tick, vars, cache, TypeOK
    <3>2. "deadline" \in result[p].err => clock' >= Deadline
      BY <1>1, <2>1, CollectionAssumption DEF Sound
    <3> QED
      BY <1>1, <2>1, <3>1, <3>2 DEF Sound
  <2> QED
    BY <2>2, <2>3
<1>6. Reporting'
  BY <1>1 DEF Reporting, Done, Collecting, Entry, Outdated
<1> QED
  BY <1>1, <1>3, <1>4, <1>5, <1>6

\* The entries of a report, whatever was collected.
LEMMA EntryType ==
    ASSUME CollectionInv, NEW p \in Collected, NEW now
    PROVE  Entry(result[p], now) \in Reported \cup FailureMessages \cup {Expired}
<1>1. Sound(p, result[p])
  BY DEF CollectionInv, Collecting
<1> QED
  BY <1>1, EntryValues DEF Sound

LEMMA AssembleStep == CollectionInv /\ Assemble => CollectionInv'
<1> SUFFICES ASSUME CollectionInv, Assemble PROVE CollectionInv'
  OBVIOUS
<1> USE DEF CollectionInv
<1>1. /\ UNCHANGED <<options, interrupted, context, clock, pc, stored, renewed, result, exit>>
      /\ phase = "collecting" /\ phase' = "reported" /\ Done
      /\ evaluatedAt = NoTime /\ \A p \in Collected : report[p] = "none"
  BY DEF Assemble, source, cache, Reporting
<1>2. CASE interrupted
  <2>1. returned' = {"canceled"} /\ UNCHANGED <<evaluatedAt, report>>
    BY <1>2 DEF Assemble
  <2>2. {"canceled"} \in IsErrors
    BY DEF IsErrors, Errors, Sentinels, ContextErrors
  <2>3. TypeOK'
    BY <1>1, <2>1, <2>2 DEF TypeOK
  <2>4. Reporting'
    BY <1>1, <2>1 DEF Reporting
  <2> QED
    BY <1>1, <2>3, <2>4 DEF ContextHasCause, Collecting, Sound
<1>3. CASE ~interrupted
  <2> DEFINE entries == [p \in Collected |-> Entry(result[p], clock)]
  <2>1. evaluatedAt' = clock /\ report' = entries /\ returned' = Outcome(entries)
    BY <1>3 DEF Assemble, Report
  <2>2. entries \in [Collected -> Reported \cup FailureMessages \cup {Expired, "none"}]
    BY EntryType
  <2>3. \A p \in Collected : entries[p] = Entry(result[p], clock)
    OBVIOUS
  <2> HIDE DEF entries
  <2>4. {"unavailable"} \in IsErrors /\ {"partial"} \in IsErrors /\ NoError \in IsErrors
    BY DEF IsErrors, Errors, Sentinels, ContextErrors
  <2>5. Outcome(entries) \in IsErrors
    BY <2>4, OutcomeValues
  <2>6. clock \in Times /\ clock # NoTime
    BY DEF TypeOK, Times, NoTime
  <2>7. TypeOK'
    BY <1>1, <2>1, <2>2, <2>5, <2>6 DEF TypeOK
  <2>8. Reporting'
    <3>1. \A p \in Collected : report'[p] = Entry(result[p], evaluatedAt)'
      BY <1>1, <2>1, <2>3 DEF Entry, Outdated
    <3>2. Done'
      BY <1>1 DEF Done
    <3>3. returned' = Outcome(report')
      BY <2>1
    <3> QED
      BY <1>1, <2>1, <2>6, <3>1, <3>2, <3>3 DEF Reporting
  <2> QED
    BY <1>1, <2>7, <2>8 DEF ContextHasCause, Collecting, Sound
<1> QED
  BY <1>2, <1>3

LEMMA ReturnedValues ==
    CollectionInv => returned \in {NoError, {"unavailable"}, {"partial"}, {"canceled"}}
BY OutcomeValues DEF CollectionInv, Reporting

LEMMA ExitStep == CollectionInv /\ Exit => CollectionInv'
<1> SUFFICES ASSUME CollectionInv, Exit PROVE CollectionInv'
  OBVIOUS
<1> USE DEF CollectionInv
<1>1. /\ UNCHANGED <<options, interrupted, context, clock, pc, stored, renewed, result,
                     evaluatedAt, report, returned>>
      /\ phase = "reported" /\ phase' = "exited"
      /\ exit' = ExitCode(returned, interrupted)
  BY DEF Exit, source, cache
<1>2. interrupted \in BOOLEAN
  BY DEF TypeOK
<1>3. exit' \in {0, 1, 3, 130}
  BY <1>1, <1>2, ReturnedValues, ExitCodeValues
<1>4. TypeOK'
  BY <1>1, <1>3 DEF TypeOK
<1>5. Reporting'
  BY <1>1, <1>2 DEF Reporting, Done, Entry, Outdated
<1> QED
  BY <1>1, <1>4, <1>5 DEF ContextHasCause, Collecting, Sound

LEMMA CollectionInvInit == Init => CollectionInv
<1> SUFFICES ASSUME Init PROVE CollectionInv
  OBVIOUS
<1>1. /\ Pending \in Results /\ result = [p \in Collected |-> Pending]
      /\ pc = [p \in Collected |-> "bind"] /\ context = "live" /\ phase = "collecting"
      /\ report = [p \in Collected |-> "none"] /\ evaluatedAt = NoTime /\ returned = NoError
  BY DEF Init, Results
<1>2. TypeOK
  <2>1. stored \in [Collected -> Times \cup {NoTime}]
    <3>1. {NoTime, 0, 1} \subseteq Times \cup {NoTime}
      BY CollectionAssumption DEF Times
    <3> QED
      BY <3>1 DEF Init
  <2>2. 0 \in Times
    BY CollectionAssumption DEF Times
  <2>3. NoError \in IsErrors
    BY DEF IsErrors
  <2> QED
    BY <1>1, <2>1, <2>2, <2>3 DEF TypeOK, Init, Results
<1>3. ContextHasCause /\ Reporting
  BY <1>1 DEF ContextHasCause, Reporting
<1>4. Collecting
  BY <1>1, NoErrorIsNoFailure DEF Collecting, Sound, Pending
<1> QED
  BY <1>1, <1>2, <1>3, <1>4 DEF CollectionInv, Init

LEMMA CollectionInvStep == CollectionInv /\ [Next]_vars => CollectionInv'
<1> SUFFICES ASSUME CollectionInv, [Next]_vars PROVE CollectionInv'
  OBVIOUS
<1>1. CASE \E p \in Collected : Works(p)
  BY <1>1, WorkStep
<1>2. CASE \/ \E p \in Collected : OthersRefresh(p)
           \/ Interrupt
           \/ Tick
           \/ UNCHANGED vars
  BY <1>2, EnvironmentStep
<1>3. CASE Assemble
  BY <1>3, AssembleStep
<1>4. CASE Exit
  BY <1>4, ExitStep
<1> QED
  BY <1>1, <1>2, <1>3, <1>4 DEF Next, Work, Works

LEMMA CollectionInvariant == Spec => []CollectionInv
BY CollectionInvInit, CollectionInvStep, PTL DEF Spec

----------------------------------------------------------------------------
(* The theorems *)

\* The state of a collection is well typed, for any set of providers.
THEOREM CollectionTypeCorrect == Spec => []TypeOK
BY CollectionInvariant, PTL DEF CollectionInv

\* No provider's failure, delay or lock ends another's collection, for any
\* number of them in any order.
THEOREM ProvidersAreIndependent == Spec => []NoProviderCostsAnother
<1>1. CollectionInv => NoProviderCostsAnother
  BY DEF CollectionInv, Collecting, Sound, NoProviderCostsAnother
<1> QED
  BY <1>1, CollectionInvariant, PTL

\* --cache only reaches no provider and no lock.
THEOREM CacheOnlyStaysLocal == Spec => []OnlyStaysLocal
<1>1. CollectionInv => OnlyStaysLocal
  BY DEF CollectionInv, Collecting, Sound, OnlyStaysLocal
<1> QED
  BY <1>1, CollectionInvariant, PTL

\* The report is current at the time it is made, however long the slowest
\* provider took.
THEOREM ReportIsCurrentAlways == Spec => []ReportIsCurrent
<1>1. CollectionInv => ReportIsCurrent
  <2> SUFFICES ASSUME CollectionInv, NEW p \in Shown
               PROVE  LET r == result[p]
                      IN  /\ options.freshOnly => r.freshness = "fresh"
                          /\ r.freshness = "stale" =>
                                options.staleOnError /\ evaluatedAt >= r.at
                          /\ r.cached /\ r.freshness = "fresh" =>
                                /\ evaluatedAt - r.at \in 0..options.maxAge
                                /\ options.refresh => renewed[p]
    BY DEF ReportIsCurrent
  <2> DEFINE r == result[p]
  <2>1. p \in Collected /\ report[p] \in Reported
    BY DEF Shown
  <2>2. evaluatedAt # NoTime
    BY <2>1 DEF CollectionInv, Reporting, Reported
  <2>3. report[p] = Entry(r, evaluatedAt)
    BY <2>1, <2>2 DEF CollectionInv, Reporting
  <2>4. /\ r.err = NoError /\ ~Outdated(r, evaluatedAt)
        /\ options.freshOnly => r.freshness = "fresh"
    BY <2>1, <2>3, EntryValues
  <2>5. Sound(p, r)
    BY <2>1 DEF CollectionInv, Collecting
  <2>6. evaluatedAt \in Nat /\ options.maxAge \in Nat
    <3>1. evaluatedAt \in Times \cup {NoTime} /\ options \in Options
      BY DEF CollectionInv, TypeOK
    <3>2. evaluatedAt \in Nat
      BY <2>2, <3>1, CollectionAssumption DEF Times
    <3>3. options.maxAge \in MaxAges
      BY <3>1 DEF Options
    <3> QED
      BY <3>2, <3>3, CollectionAssumption
  <2>7. r.at \in Int /\ (r.freshness = "stale" => r.cached /\ options.staleOnError)
    BY <2>4, <2>5 DEF Sound
  <2>8. r.freshness = "fresh" /\ r.cached /\ options.refresh => renewed[p]
    BY <2>4, <2>5 DEF Sound
  <2> HIDE DEF r
  <2>9. r.cached => r.at <= evaluatedAt
    BY <2>4, <2>6, <2>7 DEF Outdated
  <2>10. r.cached /\ r.freshness = "fresh" => evaluatedAt - r.at <= options.maxAge
    BY <2>4, <2>6, <2>7 DEF Outdated
  <2>11. r.cached /\ r.freshness = "fresh" => evaluatedAt - r.at \in 0..options.maxAge
    BY <2>6, <2>7, <2>9, <2>10
  <2> QED
    BY <2>4, <2>6, <2>7, <2>8, <2>9, <2>11 DEF r
<1> QED
  BY <1>1, CollectionInvariant, PTL

\* The exit code counts the providers that are missing from the report.
THEOREM ExitCodeIsComplete == Spec => []ExitCountsEveryProvider
<1>1. CollectionInv => ExitCountsEveryProvider
  <2> SUFFICES ASSUME CollectionInv, phase = "exited"
               PROVE  /\ exit = 0 => \A p \in Collected : report[p] = "complete"
                      /\ exit = 3 => Shown # {} /\ \E p \in Collected : report[p] # "complete"
                      /\ exit = 1 => Shown = {}
    BY DEF ExitCountsEveryProvider
  <2>1. exit \in {ExitCode(returned, TRUE), ExitCode(returned, FALSE)}
    BY DEF CollectionInv, Reporting
  <2>2. CASE evaluatedAt = NoTime
    <3>1. returned = {"canceled"}
      BY <2>2 DEF CollectionInv, Reporting
    <3>2. exit = 130
      BY <2>1, <3>1, ExitCodeValues
    <3> QED
      BY <3>2
  <2>3. CASE evaluatedAt # NoTime
    <3>1. returned = Outcome(report)
      BY <2>3 DEF CollectionInv, Reporting
    <3>2. /\ returned \in {NoError, {"unavailable"}, {"partial"}}
          /\ returned = NoError => \A p \in Collected : report[p] = "complete"
          /\ returned = {"unavailable"} => Shown = {}
          /\ returned = {"partial"} =>
                Shown # {} /\ \E p \in Collected : report[p] # "complete"
      BY <3>1, OutcomeValues DEF Shown
    <3>3. /\ returned = NoError => exit \in {0, 130}
          /\ returned = {"unavailable"} => exit = 1
          /\ returned = {"partial"} => exit = 3
      BY <2>1, ExitCodeValues
    <3> QED
      BY <3>2, <3>3
  <2> QED
    BY <2>2, <2>3
<1> QED
  BY <1>1, CollectionInvariant, PTL

\* An interrupt before the report leaves nothing but exit code 130.
THEOREM InterruptsAreSilent == Spec => InterruptReportsNothing
<1>1. CollectionInv /\ [Next]_vars => [interrupted /\ phase = "collecting" => Shown' = {}]_vars
  <2> SUFFICES ASSUME CollectionInv, Next, interrupted, phase = "collecting"
               PROVE  Shown' = {}
    OBVIOUS
  <2>1. \A p \in Collected : report[p] = "none"
    BY DEF CollectionInv, Reporting
  <2>2. CASE Assemble
    BY <2>1, <2>2 DEF Assemble, Shown, Reported
  <2>3. CASE UNCHANGED report
    BY <2>1, <2>3 DEF Shown, Reported
  <2>4. UNCHANGED report \/ Assemble
    BY DEF Next, Work, Bind, Consult, LockFails, Review, GiveUp, Answer, Refused,
           OthersRefresh, Interrupt, Tick, Exit, output
  <2> QED
    BY <2>2, <2>3, <2>4
<1>2. CollectionInv => (phase = "exited" /\ evaluatedAt = NoTime => exit = 130)
  BY ExitCodeValues DEF CollectionInv, Reporting
<1> QED
  BY <1>1, <1>2, CollectionInvariant, PTL DEF Spec, InterruptReportsNothing
=============================================================================
