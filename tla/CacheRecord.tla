---------------------------- MODULE CacheRecord ----------------------------
(***************************************************************************)
(* The values of the evidence cache and the pure functions on them:        *)
(* internal/cache/{types,record,io,backoff,store}.go.                      *)
(*                                                                         *)
(* One cache binding (provider, profile, source, credential fingerprint)   *)
(* owns one directory with one snapshot file and one lock file; a file is  *)
(* what the snapshot path holds, a loaded record what readRecord makes of  *)
(* it.  Quota windows are not kept: what the cache does with an            *)
(* observation depends on its account, identity binding, freshness and     *)
(* time alone.  A generation (128 random bits in the code) is a positive   *)
(* number drawn once; 0 is the absent generation "".                       *)
(*                                                                         *)
(* Definitions named Bug... are mistakes one could make in the definition  *)
(* that follows them; no model uses them.  PROJECT.json names the property *)
(* that tells each one from the code.                                      *)
(***************************************************************************)
EXTENDS Integers

CONSTANTS
    Accounts,       \* account identifiers a provider can report
    NoAccount,      \* the empty account: none expected, or none reported
    NoObservation,  \* record.Observation = nil
    NoFile,         \* the snapshot path does not exist
    Garbage,        \* a file that is not a decodable v1 record
    Foreign,        \* a file with another schema_version
    LocalBackoff,   \* Options.LocalBackoff
    MaxBackoff      \* Options.MaxBackoff

\* withDefaults makes both delays positive and clamps the local one.
ASSUME BackoffAssumption ==
    /\ LocalBackoff \in Nat \ {0}
    /\ MaxBackoff \in Nat \ {0}
    /\ LocalBackoff <= MaxBackoff

ASSUME AccountAssumption == NoAccount \notin Accounts

NoTime == -1
Times == Nat \cup {NoTime}

----------------------------------------------------------------------------
(* Policies *)

Modes == {"auto", "off", "only"}

Policies ==
    [mode: Modes, maxAge: Int, refresh: BOOLEAN, staleOnError: BOOLEAN]

\* Policy.Validate
ValidPolicy(policy) ==
    /\ policy.maxAge >= 0
    /\ policy.mode = "only" => ~policy.refresh /\ ~policy.staleOnError
    /\ policy.mode = "off" =>
          ~policy.refresh /\ ~policy.staleOnError /\ policy.maxAge = 0

----------------------------------------------------------------------------
(* Observations, records, files *)

Identities == {"verified", "historical", "unknown"}
Freshnesses == {"fresh", "stale"}

Observations ==
    [account: Accounts \cup {NoAccount}, identity: Identities,
     at: Nat, freshness: Freshnesses]

ASSUME NoObservationAssumption == NoObservation \notin Observations

FailureKinds ==
    {"none", "transient", "permanent", "revoked", "account_mismatch"}

Records ==
    [generation: Nat, observation: Observations \cup {NoObservation},
     attemptAt: Times, retryAt: Times, lastFailure: FailureKinds,
     revoked: BOOLEAN]

EmptyRecord ==
    [generation |-> 0, observation |-> NoObservation, attemptAt |-> NoTime,
     retryAt |-> NoTime, lastFailure |-> "none", revoked |-> FALSE]

ASSUME FileAssumption ==
    /\ NoFile # Garbage /\ NoFile # Foreign /\ Garbage # Foreign
    /\ {NoFile, Garbage, Foreign} \cap Records = {}

Files == Records \cup {NoFile, Garbage, Foreign}

RecordStates == {"missing", "supported", "corrupt", "unknown", "unavailable"}

LoadedRecords == [state: RecordStates, record: Records]

Loaded(state) == [state |-> state, record |-> EmptyRecord]

----------------------------------------------------------------------------
(* readRecord *)

\* The consistency of generation, failure, revocation and retry fields that
\* readRecord demands of a decoded record; one that fails it is corrupt.
ValidRecord(r) ==
    /\ (r.observation # NoObservation) <=> (r.generation # 0)
    /\ r.revoked => r.lastFailure # "none"
    /\ IF r.lastFailure = "none"
          THEN r.attemptAt = NoTime /\ r.retryAt = NoTime /\ ~r.revoked
          ELSE r.attemptAt # NoTime
    /\ r.retryAt # NoTime => r.lastFailure = "transient"

ReadRecord(file) ==
    CASE file = NoFile  -> Loaded("missing")
      [] file = Foreign -> Loaded("unknown")
      [] file = Garbage -> Loaded("corrupt")
      [] OTHER ->
            IF ValidRecord(file)
               THEN [state |-> "supported", record |-> file]
               ELSE Loaded("corrupt")

----------------------------------------------------------------------------
(* What a loaded record may answer *)

HasObservation(loaded) ==
    loaded.state = "supported" /\ loaded.record.observation # NoObservation

\* The expected account is absent, or it is the one observed.
AccountMatches(expected, observation) ==
    expected = NoAccount \/ observation.account = expected

\* A stored identity was verified when it was observed, which is history now.
AsCached(observation) ==
    [observation EXCEPT !.identity = IF @ = "verified" THEN "historical" ELSE @]

AsStale(observation) == [AsCached(observation) EXCEPT !.freshness = "stale"]

\* Serves a revoked record.
BugEligibleRevoked(loaded, expected, maxAge, now) ==
    /\ HasObservation(loaded)
    /\ AccountMatches(expected, loaded.record.observation)
    /\ now - loaded.record.observation.at \in 0 .. maxAge

\* Serves another account's evidence.
BugEligibleAccount(loaded, expected, maxAge, now) ==
    /\ HasObservation(loaded)
    /\ ~loaded.record.revoked
    /\ now - loaded.record.observation.at \in 0 .. maxAge

\* The second result of eligible.
Eligible(loaded, expected, maxAge, now) ==
    /\ HasObservation(loaded)
    /\ ~loaded.record.revoked
    /\ AccountMatches(expected, loaded.record.observation)
    /\ now - loaded.record.observation.at \in 0 .. maxAge

\* A forced request never shares another's refresh.
BugReusableNever(before, loaded, expected, policy, now) ==
    ~policy.refresh /\ Eligible(loaded, expected, policy.maxAge, now)

\* A forced request takes what was there before it.
BugReusableAlways(before, loaded, expected, policy, now) ==
    Eligible(loaded, expected, policy.maxAge, now)

\* The second result of reuseAfterLock: under --refresh only a generation
\* other than the one read before the lock will do.
Reusable(before, loaded, expected, policy, now) ==
    /\ Eligible(loaded, expected, policy.maxAge, now)
    /\ policy.refresh =>
          loaded.record.generation # before.record.generation

\* The third result of backoffResult: the record forbids a refresh for now.
BackedOff(loaded, now) ==
    /\ loaded.state = "supported"
    /\ loaded.record.lastFailure = "transient"
    /\ loaded.record.retryAt # NoTime
    /\ now < loaded.record.retryAt

\* A backed-off record answers with its stale observation instead of an error.
StaleAllowed(loaded, expected, policy) ==
    /\ ~loaded.record.revoked
    /\ policy.staleOnError
    /\ loaded.record.observation # NoObservation
    /\ AccountMatches(expected, loaded.record.observation)

----------------------------------------------------------------------------
(* What a locked refresh writes *)

\* Believes any provider deadline.
BugRetryDeadline(now, providerRetryAt) ==
    IF providerRetryAt <= now THEN now + LocalBackoff ELSE providerRetryAt

\* retryDeadline: an absent or elapsed provider deadline becomes the local
\* delay, a late one is capped.
RetryDeadline(now, providerRetryAt) ==
    IF providerRetryAt <= now THEN now + LocalBackoff
    ELSE IF providerRetryAt > now + MaxBackoff THEN now + MaxBackoff
    ELSE providerRetryAt

\* The record of putLocked: a success clears failure, retry and revocation.
SuccessRecord(generation, observation) ==
    [EmptyRecord EXCEPT !.generation = generation, !.observation = observation]

\* Overwrites another schema.
BugPutRefusedForeign(loaded, observation) ==
    HasObservation(loaded) /\ loaded.record.observation.at > observation.at

\* Overwrites newer evidence.
BugPutRefusedOlder(loaded, observation) == loaded.state = "unknown"

\* The errors of putLocked that depend on the record under the lock.
PutRefused(loaded, observation) ==
    \/ loaded.state = "unknown"
    \/ HasObservation(loaded) /\ loaded.record.observation.at > observation.at

\* What handleFailure builds on: any unreadable record counts as none.
BaseRecord(loaded) ==
    IF loaded.state = "supported" THEN loaded.record ELSE EmptyRecord

\* The last failure alone decides whether the record is revoked.
BugFailureRecordClears(loaded, kind, providerRetryAt, now) ==
    [BaseRecord(loaded) EXCEPT
        !.attemptAt = now,
        !.lastFailure = kind,
        !.revoked = kind \in {"revoked", "account_mismatch"},
        !.retryAt = IF kind = "transient"
                       THEN RetryDeadline(now, providerRetryAt)
                       ELSE NoTime]

\* An account mismatch is not a revocation.
BugFailureRecordMismatch(loaded, kind, providerRetryAt, now) ==
    [BaseRecord(loaded) EXCEPT
        !.attemptAt = now,
        !.lastFailure = kind,
        !.revoked = @ \/ kind = "revoked",
        !.retryAt = IF kind = "transient"
                       THEN RetryDeadline(now, providerRetryAt)
                       ELSE NoTime]

\* The record of handleFailure: the observation and its generation stay, and
\* a revocation is never taken back.
FailureRecord(loaded, kind, providerRetryAt, now) ==
    [BaseRecord(loaded) EXCEPT
        !.attemptAt = now,
        !.lastFailure = kind,
        !.revoked = @ \/ kind \in {"revoked", "account_mismatch"},
        !.retryAt = IF kind = "transient"
                       THEN RetryDeadline(now, providerRetryAt)
                       ELSE NoTime]
=============================================================================
