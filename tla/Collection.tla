----------------------------- MODULE Collection -----------------------------
(***************************************************************************)
(* One --all run: ObserveAll collects from every provider at once under    *)
(* one deadline, each through the runtime adapter and the cache, and       *)
(* assembleMixed makes one report of what they returned.                   *)
(*                                                                         *)
(* The cache of a provider shows only what Resolve may answer from it: the *)
(* time of its usable evidence, and whether another process renewed it     *)
(* while this one waited for the lock.  CacheStore has the rest.           *)
(* Definitions named Bug... are mistakes one could make in the definition  *)
(* that follows them.                                                      *)
(***************************************************************************)
EXTENDS ProviderErrors

CONSTANTS
    Collected,   \* allRequests: the platform decides on Cursor
    Deadline,    \* allCollectionTimeout
    MaxClock,    \* bound of the clock
    MaxAges      \* the values of --max-age

ASSUME CollectionAssumption ==
    /\ Collected \subseteq Providers
    /\ Deadline \in Nat \ {0}
    /\ MaxClock \in Nat
    /\ Deadline <= MaxClock
    /\ MaxAges \subseteq Nat

VARIABLES
    options,      \* what the command line chose
    clock,
    interrupted,  \* SIGINT reached the context of the command
    context,      \* the context of the collection: live, or why it ended
    pc,           \* where each provider's goroutine is
    stored,       \* the time of each provider's usable cached evidence
    renewed,      \* another process stored it during our wait for the lock
    result,       \* results[index] of ObserveAll
    phase,        \* collecting, reported, exited
    evaluatedAt,  \* when the report was assembled
    report,       \* what the report says of each provider
    returned,     \* what the command returned to its caller
    exit          \* the exit code, -1 before the end

source == <<options, interrupted, context>>
cache == <<stored, renewed>>
output == <<phase, evaluatedAt, report, returned, exit>>
vars == <<source, clock, pc, cache, result, output>>

NoTime == -1
Times == 0..MaxClock

\* readCachePolicy, Policy.Validate and --freshness.
Options ==
    {o \in [mode : {"auto", "off", "only"}, maxAge : MaxAges, refresh : BOOLEAN,
            staleOnError : BOOLEAN, freshOnly : BOOLEAN] :
        /\ o.mode # "auto" => ~o.refresh /\ ~o.staleOnError
        /\ o.mode = "off" => o.maxAge = 0}

Reported == {"complete", "partial"}

\* Evidence, as its selection will find it: with the selected window and scope
\* or lacking them.
Outcomes == Reported \cup {"lacking"}

\* The time of evidence matters to the report only if it comes from the cache.
Evidence ==
    [err : {NoError}, at : Times \cup {NoTime}, cached : BOOLEAN,
     freshness : {"fresh", "stale"}, outcome : Outcomes]

Failures == [err : Errors]

Pending == [err |-> {"pending"}]

\* What an adapter may return in place of evidence, a deadline apart.
ProviderFailures == {{"provider_unavailable"}, {"provider_unavailable", "transient"}}

FailureMessages == {Messages[i][2] : i \in DOMAIN Messages} \cup {FailureMessage({})}

Expired == "cached quota evidence exceeded max-age"

Init ==
    /\ options \in Options
    /\ clock = 0
    /\ interrupted = FALSE
    /\ context = "live"
    /\ pc = [p \in Collected |-> "bind"]
    /\ stored \in [Collected -> {NoTime, 0, 1}]
    /\ renewed = [p \in Collected |-> FALSE]
    /\ result = [p \in Collected |-> Pending]
    /\ phase = "collecting"
    /\ evaluatedAt = NoTime
    /\ report = [p \in Collected |-> "none"]
    /\ returned = NoError
    /\ exit = -1

----------------------------------------------------------------------------
(* One goroutine of ObserveAll *)

Finish(p, outcome) ==
    /\ pc' = [pc EXCEPT ![p] = "done"]
    /\ result' = [result EXCEPT ![p] = outcome]

Fail(p, error) == Finish(p, [err |-> error])

Proceed(p, next) ==
    /\ pc' = [pc EXCEPT ![p] = next]
    /\ UNCHANGED result

\* What the record holds is not kept in the state.
FromCache(p, freshness) ==
    \E outcome \in Outcomes :
        Finish(p, [err |-> NoError, at |-> stored[p], cached |-> TRUE,
                   freshness |-> freshness, outcome |-> outcome])

BugBeside(p) == Proceed(p, "direct")

\* Without a binding or a store there is only the provider.
Beside(p) ==
    IF options.mode = "only"
       THEN Fail(p, {"cache_unavailable"})
       ELSE Proceed(p, "direct")

\* ObserveWithCache up to Resolve.
Bind(p) ==
    /\ pc[p] = "bind"
    /\ IF options.mode = "off"
          THEN Proceed(p, "direct")
          ELSE IF context # "live"
                  THEN Fail(p, {context})
                  ELSE Proceed(p, "consult") \/ Beside(p)
    /\ UNCHANGED <<source, clock, cache, output>>

Eligible(p) ==
    /\ stored[p] # NoTime
    /\ clock - stored[p] \in 0..options.maxAge

\* Evidence that has expired answers after a transient failure only.
StaleAllowed(p) == options.staleOnError /\ stored[p] # NoTime

BackedOff(p) == IF StaleAllowed(p) THEN FromCache(p, "stale") ELSE Fail(p, {"backoff"})

\* Resolve before the lock; whether the record backs off is not modelled.
Consult(p) ==
    /\ pc[p] = "consult"
    /\ IF Eligible(p) /\ ~options.refresh
          THEN FromCache(p, "fresh")
          ELSE IF options.mode = "only"
                  THEN Fail(p, {"cache_unavailable"})
                  ELSE Proceed(p, "lock") \/ Proceed(p, "direct") \/ BackedOff(p)
    /\ UNCHANGED <<source, clock, cache, output>>

\* acquireLock gives up, or fails and leaves the cache out of it.
LockFails(p) ==
    /\ pc[p] = "lock"
    /\ \/ Fail(p, {"lock_timeout"})
       \/ Proceed(p, "direct")
    /\ UNCHANGED <<source, clock, cache, output>>

\* Resolve under the lock, up to the fetch: a backoff is looked for first.
Review(p) ==
    /\ pc[p] = "lock"
    /\ \/ BackedOff(p)
       \/ IF Eligible(p) /\ (options.refresh => renewed[p])
             THEN FromCache(p, "fresh")
             ELSE Proceed(p, "call")
    /\ UNCHANGED <<source, clock, cache, output>>

Asking(p) == pc[p] \in {"call", "direct"}

Answer(p) ==
    /\ Asking(p)
    /\ \E outcome \in Outcomes :
          Finish(p, [err |-> NoError, at |-> NoTime, cached |-> FALSE,
                     freshness |-> "fresh", outcome |-> outcome])
    /\ UNCHANGED <<source, clock, cache, output>>

\* handleFailure, which only a call under the lock comes to; the failure may
\* prove impossible to write.
Refuse(p, error) ==
    \/ Fail(p, error)
    \/ /\ pc[p] = "call"
       /\ Failure(p, error) = "transient"
       /\ StaleAllowed(p)
       /\ FromCache(p, "stale")

\* A failure cancels the group, as with an errgroup.
BugRefused(p) ==
    /\ Asking(p)
    /\ \E error \in ProviderFailures : Refuse(p, error)
    /\ context' = IF context = "live" THEN "canceled" ELSE context
    /\ UNCHANGED <<options, interrupted, clock, cache, output>>

Refused(p) ==
    /\ Asking(p)
    /\ \E error \in ProviderFailures : Refuse(p, error)
    /\ UNCHANGED <<source, clock, cache, output>>

\* Without a deadline of their own the calls would wait for the interrupt only.
BugGiveUp(p) ==
    /\ interrupted
    /\ Asking(p)
    /\ Fail(p, {context})
    /\ UNCHANGED <<source, clock, cache, output>>

\* An adapter may report the end of its context in any of these ways; only a
\* lock that is still held waits for it.
GiveUp(p) ==
    /\ context # "live"
    /\ \/ /\ Asking(p)
          /\ \E wrapping \in ProviderFailures : Refuse(p, wrapping \cup {context})
       \/ /\ pc[p] = "lock"
          /\ Fail(p, {context})
    /\ UNCHANGED <<source, clock, cache, output>>

----------------------------------------------------------------------------
(* The environment *)

\* Another process refreshes the evidence of a provider.
OthersRefresh(p) ==
    /\ pc[p] \in {"bind", "consult", "lock"}
    /\ stored' = [stored EXCEPT ![p] = clock]
    /\ renewed' = [renewed EXCEPT ![p] = pc[p] = "lock"]
    /\ UNCHANGED <<source, clock, pc, result, output>>

EndAs(why) == IF context = "live" THEN why ELSE context

Interrupt ==
    /\ ~interrupted
    /\ phase # "exited"
    /\ interrupted' = TRUE
    /\ context' = EndAs("canceled")
    /\ UNCHANGED <<options, clock, pc, cache, result, output>>

Tick ==
    /\ clock < MaxClock
    /\ phase # "exited"
    /\ clock' = clock + 1
    /\ context' = IF clock' >= Deadline THEN EndAs("deadline") ELSE context
    /\ UNCHANGED <<options, interrupted, pc, cache, result, output>>

----------------------------------------------------------------------------
(* The report *)

Done == \A p \in Collected : pc[p] = "done"

\* Trusts the age that Resolve has checked.
BugOutdated(r, now) == r.cached /\ r.at > now

\* Evidence that is from the future, or older than --max-age by now.
Outdated(r, now) ==
    r.cached /\ (r.at > now \/ (r.freshness = "fresh" /\ now - r.at > options.maxAge))

\* One round of the loop of assembleMixed.
Entry(r, now) ==
    IF r.err # NoError
       THEN FailureMessage(r.err)
       ELSE FirstOf(<< <<Outdated(r, now), Expired>>,
                       <<options.freshOnly /\ r.freshness # "fresh", FailureMessage({"stale"})>>,
                       <<r.outcome = "lacking", FailureMessage({"no_match"})>> >>,
                    r.outcome)

\* Counts the failures of those that answered only.
BugOutcome(entries) ==
    LET shown == {p \in Collected : entries[p] \in Reported}
    IN  FirstError(<< <<shown = {}, {"unavailable"}>>,
                      <<\E p \in shown : entries[p] = "partial", {"partial"}>> >>)

Outcome(entries) ==
    LET shown == {p \in Collected : entries[p] \in Reported}
    IN  FirstError(<< <<shown = {}, {"unavailable"}>>,
                      <<\E p \in Collected : entries[p] # "complete", {"partial"}>> >>)

Report(entries) ==
    /\ evaluatedAt' = clock
    /\ report' = entries
    /\ returned' = Outcome(entries)

\* Reports what was collected before the interrupt.
BugAssemble ==
    /\ phase = "collecting"
    /\ Done
    /\ Report([p \in Collected |-> Entry(result[p], clock)])
    /\ phase' = "reported"
    /\ UNCHANGED <<source, clock, pc, cache, result, exit>>

\* runAllReport, once every goroutine has returned.
Assemble ==
    /\ phase = "collecting"
    /\ Done
    /\ IF interrupted
          THEN /\ returned' = {"canceled"}
               /\ UNCHANGED <<evaluatedAt, report>>
          ELSE Report([p \in Collected |-> Entry(result[p], clock)])
    /\ phase' = "reported"
    /\ UNCHANGED <<source, clock, pc, cache, result, exit>>

Exit ==
    /\ phase = "reported"
    /\ exit' = ExitCode(returned, interrupted)
    /\ phase' = "exited"
    /\ UNCHANGED <<source, clock, pc, cache, result, evaluatedAt, report, returned>>

Work ==
    \/ \E p \in Collected : Bind(p) \/ Consult(p) \/ LockFails(p) \/ Review(p) \/ GiveUp(p)
    \/ Assemble
    \/ Exit

Next ==
    \/ Work
    \/ \E p \in Collected : Answer(p) \/ Refused(p) \/ OthersRefresh(p)
    \/ Interrupt
    \/ Tick

Spec == Init /\ [][Next]_vars

\* Goroutines run, a lock is waited for a bounded time and time passes; neither
\* providers nor other processes promise anything.
FairSpec == Spec /\ WF_vars(Work) /\ WF_vars(Tick)

----------------------------------------------------------------------------
(* Properties *)

TypeOK ==
    /\ options \in Options
    /\ clock \in Times
    /\ interrupted \in BOOLEAN
    /\ context \in ContextErrors \cup {"live"}
    /\ pc \in [Collected -> {"bind", "consult", "lock", "call", "direct", "done"}]
    /\ stored \in [Collected -> Times \cup {NoTime}]
    /\ renewed \in [Collected -> BOOLEAN]
    /\ \A p \in Collected : result[p] \in Evidence \cup Failures \cup {Pending}
    /\ phase \in {"collecting", "reported", "exited"}
    /\ evaluatedAt \in Times \cup {NoTime}
    /\ report \in [Collected -> Reported \cup FailureMessages \cup {Expired, "none"}]
    /\ returned \in IsErrors
    /\ exit \in {-1, 0, 1, 3, 130}

Shown == {p \in Collected : report[p] \in Reported}

\* What is reported is what was asked for at the moment of the report and not
\* only when the cache decided: cached evidence is no older than --max-age, or
\* is stale and --stale-on-error was given; --refresh shows no record of an
\* earlier time as fresh (mixed.go:167-177, store.go:69,110).
ReportIsCurrent ==
    \A p \in Shown :
        LET r == result[p]
        IN  /\ options.freshOnly => r.freshness = "fresh"
            /\ r.freshness = "stale" => options.staleOnError /\ evaluatedAt >= r.at
            /\ r.cached /\ r.freshness = "fresh" =>
                  /\ evaluatedAt - r.at \in 0..options.maxAge
                  /\ options.refresh => renewed[p]

\* Providers are collected independently: one ends for lack of time only when
\* the time of the run is over, and is cancelled only by the interrupt,
\* whatever becomes of the others (mixed.go:71-92).
NoProviderCostsAnother ==
    \A p \in Collected :
        /\ "deadline" \in result[p].err => clock >= Deadline
        /\ "canceled" \in result[p].err => interrupted

\* The exit code accounts for every provider that was asked, also for those
\* that are missing from the report (mixed.go:119-147, run.go:71-104).
ExitCountsEveryProvider ==
    phase = "exited" =>
        /\ exit = 0 => \A p \in Collected : report[p] = "complete"
        /\ exit = 3 => Shown # {} /\ \E p \in Collected : report[p] # "complete"
        /\ exit = 1 => Shown = {}

\* --cache only never waits for a lock or a provider, whatever is missing
\* (cache_adapter.go:75-86, store.go:72-74).
OnlyStaysLocal ==
    options.mode = "only" =>
        \A p \in Collected :
            /\ pc[p] \in {"bind", "consult", "done"}
            /\ result[p].err = NoError => result[p].cached

\* After an interrupt nothing collected is reported, and the exit code is 130
\* (mixed.go:110-112, run.go:78-82).
InterruptReportsNothing ==
    /\ [][interrupted /\ phase = "collecting" => Shown' = {}]_vars
    /\ [](phase = "exited" /\ evaluatedAt = NoTime => exit = 130)

\* The run ends although no provider ever answers and no lock is released.
RunEnds == <>(phase = "exited")
=============================================================================
