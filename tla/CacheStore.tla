----------------------------- MODULE CacheStore -----------------------------
(***************************************************************************)
(* internal/cache/{store,io,lock}.go: Store.Resolve and Store.Put run by   *)
(* one-shot processes that share the directory of one binding.             *)
(*                                                                         *)
(* A process reads the snapshot without the lock, may answer from it, else *)
(* takes the flock, reads the snapshot again, fetches, and replaces the    *)
(* snapshot through a synced temporary file, a rename and a directory      *)
(* sync.  Every file access, clock reading and lock attempt is a step of   *)
(* its own.  Faults names what may go wrong; without any the environment   *)
(* only ticks the clock.  Definitions named Bug... are mistakes in the     *)
(* definition that follows them, used by no specification.                 *)
(***************************************************************************)
EXTENDS CacheRecord

CONSTANTS
    Processes,      \* slots for processes running at once
    NoProcess,
    Requests,       \* the requests a process may be launched with
    ReportedAccounts, \* accounts the provider reports
    RetryHints,     \* provider Retry-After delays, 0 for absent or elapsed
    InitialFiles,   \* what the first process may find
    Faults,         \* subset of FaultKinds that may happen
    MaxLaunches,    \* bound: processes launched in all
    MaxClock        \* bound: the clock

FaultKinds ==
    {"storage",     \* a file system call fails
     "random",      \* the random source fails
     "read",        \* a snapshot read fails for a moment
     "crash",       \* a process is killed
     "power",       \* the machine loses power
     "foreign",     \* another version of the program writes the snapshot
     "clock"}       \* the wall clock is set back

AllRequests ==
    [op: {"resolve", "put"}, policy: Policies, account: Accounts \cup {NoAccount}]

ASSUME StoreAssumption ==
    /\ NoProcess \notin Processes
    /\ Requests \subseteq AllRequests
    /\ \A r \in Requests : ValidPolicy(r.policy)
    /\ ReportedAccounts \subseteq Accounts \cup {NoAccount}
    /\ RetryHints \subseteq Nat
    /\ InitialFiles \subseteq {NoFile, Garbage, Foreign}
    /\ Faults \subseteq FaultKinds
    /\ MaxLaunches \in Nat /\ MaxClock \in Nat

VARIABLES
    visible,    \* what the snapshot path holds
    durable,    \* what it would hold after a power loss
    settled,    \* the data behind the visible name is on disk
    lock,       \* the process holding the flock on refresh.lock
    clock,      \* the wall clock of Options.Now
    nextGeneration, \* the next random generation
    launches,   \* processes launched so far
    pc,         \* where each process is
    request,    \* what it was asked
    startFile,  \* history: the snapshot when it was launched
    initial,    \* the record it read before the lock
    current,    \* the record it read under the lock
    fetched,    \* what its fetch returned
    pending,    \* the temporary file it is writing
    result      \* what it returned

storeVars == <<visible, durable, settled>>
envVars == <<clock, nextGeneration, launches>>
localVars == <<initial, current, fetched, pending>>
vars == <<visible, durable, settled, lock, clock, nextGeneration, launches, pc,
          request, startFile, initial, current, fetched, pending, result>>

----------------------------------------------------------------------------
(* Values of the process-local variables *)

IdlePcs == {"idle", "done"}
LockedPcs == {"locked", "review", "fetching", "fetched", "write", "sync",
              "rename", "dirsync", "unlock"}
UnlockedPcs == {"consult", "prepare", "contend", "wait", "bypass", "live"}
Pcs == IdlePcs \cup LockedPcs \cup UnlockedPcs

\* From the locked read to the rename a process acts on what it read.
HoldingView == {"review", "fetching", "fetched", "write", "sync", "rename"}

Errors == {"none", "unavailable", "corrupt", "unknown_schema", "backoff",
           "lock_wait", "fetch", "wrong_account", "store"}

Results ==
    [error: Errors, observation: Observations \cup {NoObservation},
     generation: Nat, fromCache: BOOLEAN, warning: BOOLEAN]

Fetches ==
    [failure: FailureKinds, observation: Observations \cup {NoObservation},
     retryAt: Times]

PendingFiles == [record: Records, synced: BOOLEAN]

Failed(error) ==
    [error |-> error, observation |-> NoObservation, generation |-> 0,
     fromCache |-> FALSE, warning |-> FALSE]

Live(observation, generation, warning) ==
    [error |-> "none", observation |-> observation, generation |-> generation,
     fromCache |-> FALSE, warning |-> warning]

Cached(observation, generation) ==
    [error |-> "none", observation |-> observation, generation |-> generation,
     fromCache |-> TRUE, warning |-> FALSE]

NoRequest ==
    [op |-> "put", account |-> NoAccount,
     policy |-> [mode |-> "auto", maxAge |-> 0, refresh |-> FALSE,
                 staleOnError |-> FALSE]]
NoFetch == [failure |-> "none", observation |-> NoObservation, retryAt |-> NoTime]
NoPending == [record |-> EmptyRecord, synced |-> FALSE]
NoResult == Failed("none")
----------------------------------------------------------------------------
(* Effects of the calls a process makes *)

\* readRecord: one atomic look at the snapshot, which a rename replaces whole.
Reads ==
    {ReadRecord(visible)} \cup
    (IF "read" \in Faults THEN {Loaded("unavailable")} ELSE {})

\* What the provider adapters report: a fresh observation stamped now, whose
\* identity is verified when the response names the account, or a classified
\* failure with a retry time when it is transient.
FetchOutcomes ==
    [failure: {"none"}, retryAt: {NoTime},
     observation:
        {[account |-> a, at |-> clock, freshness |-> "fresh",
          identity |-> IF a = NoAccount THEN "unknown" ELSE "verified"] :
             a \in ReportedAccounts}]
    \cup [failure: {"permanent", "revoked", "account_mismatch"},
          retryAt: {NoTime}, observation: {NoObservation}]
    \cup [failure: {"transient"}, observation: {NoObservation},
          retryAt: {clock + hint : hint \in RetryHints}]

\* The result part of backoffResult.
BackoffAnswer(loaded, p) ==
    IF StaleAllowed(loaded, request[p].account, request[p].policy)
       THEN Cached(AsStale(loaded.record.observation), loaded.record.generation)
       ELSE Failed("backoff")

\* Leaks the state of the record as the error.
BugCachedOnlyError(loaded) == loaded.state

CachedOnlyError(loaded) ==
    CASE loaded.state = "corrupt" -> "corrupt"
      [] loaded.state = "unknown" -> "unknown_schema"
      [] OTHER -> "unavailable"

\* resolveLive and its callers: nothing is read from or written to the store.
LiveAnswer(p, fetch, warning) ==
    IF fetch.failure # "none"
       THEN [Failed("fetch") EXCEPT !.warning = warning]
    ELSE IF ~AccountMatches(request[p].account, fetch.observation)
       THEN [Failed("wrong_account") EXCEPT !.warning = warning]
    ELSE Live(fetch.observation, 0, warning)

\* A failure that could not be stored answers with the evidence it had.
BugUnstoredAnswer(p) ==
    IF request[p].op = "put" THEN Failed("store")
    ELSE IF fetched[p].failure # "none"
       THEN IF StaleAllowed(current[p], request[p].account, request[p].policy)
               THEN Cached(AsStale(current[p].record.observation),
                           current[p].record.generation)
               ELSE Failed("fetch")
    ELSE Live(fetched[p].observation, 0, TRUE)

\* What a process returns when its record did not reach the store: Resolve
\* keeps the live evidence and warns, Put fails.
UnstoredAnswer(p) ==
    IF request[p].op = "put" THEN Failed("store")
    ELSE IF fetched[p].failure # "none" THEN Failed("fetch")
    ELSE Live(fetched[p].observation, 0, TRUE)

\* What it returns once its record is stored; a failure that left a backoff
\* may answer with the evidence it kept.
StoredAnswer(p) ==
    LET stored == [state |-> "supported", record |-> pending[p].record]
    IN IF fetched[p].failure = "none"
          THEN Live(fetched[p].observation, stored.record.generation, FALSE)
       ELSE IF /\ BackedOff(stored, clock)
               /\ StaleAllowed(stored, request[p].account, request[p].policy)
          THEN BackoffAnswer(stored, p)
       ELSE Failed("fetch")

Goto(p, label) == pc' = [pc EXCEPT ![p] = label]

Return(p, label, value) ==
    Goto(p, label) /\ result' = [result EXCEPT ![p] = value]

\* A process's memory is gone with it; its answer stays with its caller.
Forget(p) ==
    /\ initial' = [initial EXCEPT ![p] = Loaded("missing")]
    /\ current' = [current EXCEPT ![p] = Loaded("missing")]
    /\ fetched' = [fetched EXCEPT ![p] = NoFetch]
    /\ pending' = [pending EXCEPT ![p] = NoPending]

Finish(p, value) == Return(p, "done", value) /\ Forget(p)

----------------------------------------------------------------------------
(* Before the lock *)

Launch(p, r) ==
    /\ pc[p] \in IdlePcs
    /\ launches < MaxLaunches
    /\ launches' = launches + 1
    /\ request' = [request EXCEPT ![p] = r]
    /\ startFile' = [startFile EXCEPT ![p] = visible]
    /\ result' = [result EXCEPT ![p] = NoResult]
    /\ UNCHANGED <<storeVars, lock, clock, nextGeneration, current, pending>>

\* Entry of Resolve up to the first read of the snapshot; --cache off goes
\* straight to the provider.
LaunchResolve(p) ==
    \E r \in Requests :
        /\ r.op = "resolve"
        /\ Launch(p, r)
        /\ \/ /\ r.policy.mode = "off"
              /\ Goto(p, "live")
              /\ UNCHANGED initial
           \/ /\ r.policy.mode # "off"
              /\ Goto(p, "consult")
              /\ \E loaded \in Reads :
                    initial' = [initial EXCEPT ![p] = loaded]
        /\ UNCHANGED fetched

\* Entry of Put: its observation was made now or one unit ago.
LaunchPut(p) ==
    \E r \in Requests, fetch \in FetchOutcomes, age \in {0, 1} :
        /\ r.op = "put"
        /\ fetch.failure = "none" /\ age <= clock
        /\ Launch(p, r)
        /\ Goto(p, "prepare")
        /\ fetched' = [fetched EXCEPT ![p] =
                         [fetch EXCEPT !.observation.at = clock - age]]
        /\ UNCHANGED initial

\* The lock-free answers of Resolve: hit, miss under --cache only, backoff;
\* a request with none of them goes for the lock.
Consult(p) ==
    LET policy == request[p].policy
        account == request[p].account
    IN
    /\ pc[p] = "consult"
    /\ \/ /\ ~policy.refresh
          /\ Eligible(initial[p], account, policy.maxAge, clock)
          /\ Finish(p, Cached(AsCached(initial[p].record.observation),
                              initial[p].record.generation))
       \/ /\ policy.refresh \/ ~Eligible(initial[p], account, policy.maxAge, clock)
          /\ \/ /\ policy.mode = "only"
                /\ Finish(p, Failed(CachedOnlyError(initial[p])))
             \/ /\ policy.mode # "only" /\ BackedOff(initial[p], clock)
                /\ Finish(p, BackoffAnswer(initial[p], p))
             \/ /\ policy.mode # "only" /\ ~BackedOff(initial[p], clock)
                /\ Goto(p, "prepare")
                /\ UNCHANGED <<result, localVars>>
    /\ UNCHANGED <<storeVars, lock, envVars, request, startFile>>

\* prepare and the opening of refresh.lock.
OpenLock(p) ==
    /\ pc[p] = "prepare"
    /\ Goto(p, "contend")
    /\ UNCHANGED <<storeVars, lock, envVars, request, startFile, localVars, result>>

\* prepare fails, or acquireLock fails for another reason than waiting:
\* Resolve collects live beside the store, Put reports the error.
LockUnusable(p) ==
    /\ "storage" \in Faults
    /\ pc[p] \in {"prepare", "contend", "wait"}
    /\ IF request[p].op = "put"
          THEN Finish(p, Failed("store"))
          ELSE Goto(p, "bypass") /\ UNCHANGED <<result, localVars>>
    /\ UNCHANGED <<storeVars, lock, envVars, request, startFile>>

Contended(p) ==
    /\ pc[p] = "contend"
    /\ lock # NoProcess
    /\ Goto(p, "wait")
    /\ UNCHANGED <<storeVars, lock, envVars, request, startFile, localVars, result>>

\* Takes a shared lock.
BugAcquire(p) ==
    /\ pc[p] \in {"contend", "wait"}
    /\ lock' = p
    /\ Goto(p, "locked")
    /\ UNCHANGED <<storeVars, envVars, request, startFile, localVars, result>>

\* The non-blocking flock, tried first and then after every poll delay.
Acquire(p) ==
    /\ pc[p] \in {"contend", "wait"}
    /\ lock = NoProcess
    /\ lock' = p
    /\ Goto(p, "locked")
    /\ UNCHANGED <<storeVars, envVars, request, startFile, localVars, result>>

\* The wait ends without the lock: LockWait or the operation timeout runs
\* out, or the caller cancels.
GiveUp(p) ==
    /\ pc[p] = "wait"
    /\ Finish(p, Failed("lock_wait"))
    /\ UNCHANGED <<storeVars, lock, envVars, request, startFile>>

\* resolveLive, for --cache off and for a store that cannot be locked.
CollectLive(p) ==
    /\ pc[p] \in {"live", "bypass"}
    /\ \E fetch \in FetchOutcomes :
          Finish(p, LiveAnswer(p, fetch, pc[p] = "bypass"))
    /\ UNCHANGED <<storeVars, lock, envVars, request, startFile>>

----------------------------------------------------------------------------
(* Under the lock *)

\* Goes on with the record read before the lock.
BugReadLocked(p) ==
    /\ pc[p] = "locked"
    /\ Goto(p, IF request[p].op = "put" THEN "fetched" ELSE "review")
    /\ current' = [current EXCEPT ![p] = initial[p]]
    /\ UNCHANGED <<storeVars, lock, envVars, request, startFile, initial,
                   fetched, pending, result>>

ReadLocked(p) ==
    /\ pc[p] = "locked"
    /\ Goto(p, IF request[p].op = "put" THEN "fetched" ELSE "review")
    /\ \E loaded \in Reads : current' = [current EXCEPT ![p] = loaded]
    /\ UNCHANGED <<storeVars, lock, envVars, request, startFile, initial,
                   fetched, pending, result>>

\* Another process may have refreshed or failed while this one waited.
Review(p) ==
    LET policy == request[p].policy
        account == request[p].account
        reusable == Reusable(initial[p], current[p], account, policy, clock)
    IN
    /\ pc[p] = "review"
    /\ \/ /\ BackedOff(current[p], clock)
          /\ Return(p, "unlock", BackoffAnswer(current[p], p))
       \/ /\ ~BackedOff(current[p], clock) /\ reusable
          /\ Return(p, "unlock", Cached(AsCached(current[p].record.observation),
                                        current[p].record.generation))
       \/ /\ ~BackedOff(current[p], clock) /\ ~reusable
          /\ Goto(p, "fetching")
          /\ UNCHANGED result
    /\ UNCHANGED <<storeVars, lock, envVars, request, startFile, localVars>>

\* Nothing bounds the provider call.
BugFetch(p) == pc[p] = "fetching" /\ UNCHANGED vars

\* The provider answers, or the operation timeout or the caller ends the call.
Fetch(p) ==
    /\ pc[p] = "fetching"
    /\ Goto(p, "fetched")
    /\ \E fetch \in FetchOutcomes : fetched' = [fetched EXCEPT ![p] = fetch]
    /\ UNCHANGED <<storeVars, lock, envVars, request, startFile,
                   initial, current, pending, result>>

\* handleFailure up to its write.
KeepFailure(p) ==
    /\ pc[p] = "fetched" /\ fetched[p].failure # "none"
    /\ IF current[p].state = "unknown"
          THEN Return(p, "unlock", Failed("fetch")) /\ UNCHANGED pending
          ELSE /\ pending' = [pending EXCEPT ![p].record =
                    FailureRecord(current[p], fetched[p].failure,
                                  fetched[p].retryAt, clock)]
               /\ Goto(p, "write")
               /\ UNCHANGED result
    /\ UNCHANGED <<storeVars, lock, envVars, request, startFile, initial,
                   current, fetched>>

\* validateObservation and putLocked up to its write.  Put passes no expected
\* account.
KeepSuccess(p) ==
    LET observation == fetched[p].observation
    IN
    /\ pc[p] = "fetched" /\ fetched[p].failure = "none"
    /\ \/ /\ request[p].op = "resolve"
          /\ ~AccountMatches(request[p].account, observation)
          /\ Return(p, "unlock", Failed("wrong_account"))
          /\ UNCHANGED <<pending, nextGeneration>>
       \/ /\ request[p].op = "put" \/ AccountMatches(request[p].account, observation)
          /\ PutRefused(current[p], observation) \/ "random" \in Faults
          /\ Return(p, "unlock", UnstoredAnswer(p))
          /\ UNCHANGED <<pending, nextGeneration>>
       \/ /\ request[p].op = "put" \/ AccountMatches(request[p].account, observation)
          /\ ~PutRefused(current[p], observation)
          /\ pending' = [pending EXCEPT ![p].record =
                           SuccessRecord(nextGeneration, observation)]
          /\ nextGeneration' = nextGeneration + 1
          /\ Goto(p, "write")
          /\ UNCHANGED result
    /\ UNCHANGED <<storeVars, lock, clock, launches, request, startFile,
                   initial, current, fetched>>

\* The temporary file is renamed before it is synced.
BugWriteTemporary(p) ==
    /\ pc[p] = "write"
    /\ Goto(p, "rename")
    /\ UNCHANGED <<storeVars, lock, envVars, request, startFile, localVars, result>>

\* writeRecord: the temporary file is created and written,
WriteTemporary(p) ==
    /\ pc[p] = "write"
    /\ Goto(p, "sync")
    /\ UNCHANGED <<storeVars, lock, envVars, request, startFile, localVars, result>>

\* synced and closed,
SyncTemporary(p) ==
    /\ pc[p] = "sync"
    /\ pending' = [pending EXCEPT ![p].synced = TRUE]
    /\ Goto(p, "rename")
    /\ UNCHANGED <<storeVars, lock, envVars, request, startFile,
                   initial, current, fetched, result>>

\* renamed over the snapshot,
Rename(p) ==
    /\ pc[p] = "rename"
    /\ visible' = pending[p].record
    /\ settled' = pending[p].synced
    /\ Goto(p, "dirsync")
    /\ UNCHANGED <<durable, lock, envVars, request, startFile, localVars, result>>

OnDisk == IF settled THEN visible ELSE Garbage

\* The directory is not synced.
BugSyncDirectory(p) ==
    /\ pc[p] = "dirsync"
    /\ Return(p, "unlock", StoredAnswer(p))
    /\ UNCHANGED <<storeVars, lock, envVars, request, startFile, localVars>>

\* and its name is synced with the directory, which ends Resolve and Put.
SyncDirectory(p) ==
    /\ pc[p] = "dirsync"
    /\ durable' = OnDisk
    /\ Return(p, "unlock", StoredAnswer(p))
    /\ UNCHANGED <<visible, settled, lock, envVars, request, startFile, localVars>>

\* Any of these calls may fail, the last one after the snapshot was replaced.
WriteFails(p) ==
    /\ "storage" \in Faults
    /\ pc[p] \in {"write", "sync", "rename", "dirsync"}
    /\ Return(p, "unlock", UnstoredAnswer(p))
    /\ UNCHANGED <<storeVars, lock, envVars, request, startFile, localVars>>

\* Keeps the lock.
BugUnlock(p) ==
    /\ pc[p] = "unlock"
    /\ Finish(p, result[p])
    /\ UNCHANGED <<storeVars, lock, envVars, request, startFile>>

Unlock(p) ==
    /\ pc[p] = "unlock"
    /\ lock' = NoProcess
    /\ Goto(p, "done")
    /\ Forget(p)
    /\ UNCHANGED <<storeVars, envVars, request, startFile, result>>

----------------------------------------------------------------------------
(* The environment *)

\* A killed process runs no deferred call; the kernel closes its lock file.
Crash(p) ==
    /\ "crash" \in Faults
    /\ pc[p] \notin IdlePcs
    /\ Goto(p, "idle")
    /\ lock' = IF lock = p THEN NoProcess ELSE lock
    /\ Forget(p)
    /\ UNCHANGED <<storeVars, envVars, request, startFile, result>>

PowerLoss ==
    /\ "power" \in Faults
    /\ visible' = durable
    /\ settled' = TRUE
    /\ lock' = NoProcess
    /\ pc' = [p \in Processes |-> IF pc[p] = "done" THEN "done" ELSE "idle"]
    /\ initial' = [p \in Processes |-> Loaded("missing")]
    /\ current' = [p \in Processes |-> Loaded("missing")]
    /\ fetched' = [p \in Processes |-> NoFetch]
    /\ pending' = [p \in Processes |-> NoPending]
    /\ UNCHANGED <<durable, envVars, request, startFile, result>>

\* The file system writes the directory back on its own.
WriteBack ==
    /\ "power" \in Faults
    /\ durable # OnDisk
    /\ durable' = OnDisk
    /\ UNCHANGED <<visible, settled, lock, envVars, pc, request, startFile,
                   localVars, result>>

\* A version of the program with another schema takes the lock and writes.
ForeignWrite ==
    /\ "foreign" \in Faults
    /\ lock = NoProcess
    /\ visible # Foreign
    /\ visible' = Foreign /\ durable' = Foreign /\ settled' = TRUE
    /\ UNCHANGED <<lock, envVars, pc, request, startFile, localVars, result>>

Tick ==
    /\ clock < MaxClock
    /\ clock' = clock + 1
    /\ UNCHANGED <<storeVars, lock, nextGeneration, launches, pc, request,
                   startFile, localVars, result>>

SetClockBack ==
    /\ "clock" \in Faults
    /\ clock > 0
    /\ clock' = clock - 1
    /\ UNCHANGED <<storeVars, lock, nextGeneration, launches, pc, request,
                   startFile, localVars, result>>

\* Everything the bounds allow has happened.
Quiescent ==
    /\ launches = MaxLaunches
    /\ \A p \in Processes : pc[p] \in IdlePcs
    /\ UNCHANGED vars

----------------------------------------------------------------------------

Init ==
    /\ visible \in InitialFiles
    /\ durable = visible
    /\ settled = TRUE
    /\ lock = NoProcess
    /\ clock = 0
    /\ nextGeneration = 1
    /\ launches = 0
    /\ pc = [p \in Processes |-> "idle"]
    /\ request = [p \in Processes |-> NoRequest]
    /\ startFile = [p \in Processes |-> NoFile]
    /\ initial = [p \in Processes |-> Loaded("missing")]
    /\ current = [p \in Processes |-> Loaded("missing")]
    /\ fetched = [p \in Processes |-> NoFetch]
    /\ pending = [p \in Processes |-> NoPending]
    /\ result = [p \in Processes |-> NoResult]

\* What process p does once launched, when no call fails.
Progress(p) ==
    \/ Consult(p) \/ OpenLock(p) \/ Contended(p) \/ Acquire(p) \/ GiveUp(p)
    \/ CollectLive(p) \/ ReadLocked(p) \/ Review(p) \/ Fetch(p)
    \/ KeepFailure(p) \/ KeepSuccess(p) \/ WriteTemporary(p)
    \/ SyncTemporary(p) \/ Rename(p) \/ SyncDirectory(p) \/ Unlock(p)

Environment ==
    PowerLoss \/ WriteBack \/ ForeignWrite \/ Tick \/ SetClockBack \/ Quiescent

Next ==
    \/ \E p \in Processes :
          \/ LaunchResolve(p) \/ LaunchPut(p) \/ Progress(p)
          \/ LockUnusable(p) \/ WriteFails(p) \/ Crash(p)
    \/ Environment

Spec == Init /\ [][Next]_vars

\* Every wait of a launched process is bounded: the lock by LockWait, the
\* provider by OperationTimeout, the rest is local file access.
FairSpec == Spec /\ \A p \in Processes : WF_vars(Progress(p))
----------------------------------------------------------------------------
(* Invariants *)

TypeOK ==
    /\ visible \in Files /\ durable \in Files /\ settled \in BOOLEAN
    /\ lock \in Processes \cup {NoProcess}
    /\ clock \in Nat /\ nextGeneration \in Nat \ {0} /\ launches \in Nat
    /\ pc \in [Processes -> Pcs]
    /\ request \in [Processes -> AllRequests]
    /\ startFile \in [Processes -> Files]
    /\ initial \in [Processes -> LoadedRecords]
    /\ current \in [Processes -> LoadedRecords]
    /\ fetched \in [Processes -> Fetches]
    /\ pending \in [Processes -> PendingFiles]
    /\ result \in [Processes -> Results]

\* Between its locked read and its rename a process works on what the
\* snapshot holds: no refresh overwrites a record it has not seen.
ViewIsCurrent ==
    \A p \in Processes :
        pc[p] \in HoldingView => current[p] = ReadRecord(visible)

\* The snapshot never reads back as corrupt unless it was found corrupt: every
\* record written, by a success or a failure of any kind, is one readRecord
\* accepts, and neither a crash nor a power loss exposes a partial file.
NeverPartial ==
    Garbage \notin InitialFiles =>
        \A file \in {visible, durable} : ReadRecord(file).state # "corrupt"

\* A backoff starts at the attempt that caused it and ends within MaxBackoff of
\* it, whatever deadline the provider sent; and unless the clock is set back,
\* no binding is suspended for longer than MaxBackoff from now.
BackoffBounded ==
    visible \in Records /\ visible.retryAt # NoTime =>
        /\ visible.retryAt \in (visible.attemptAt + 1) ..
                               (visible.attemptAt + MaxBackoff)
        /\ "clock" \notin Faults => visible.retryAt <= clock + MaxBackoff

Answered(p) == pc[p] = "done" /\ result[p].observation # NoObservation

\* An answer of any path (hit, stale, reuse after the lock, live, live beside
\* the store) names the account the request asked for, and one from the cache
\* never claims a verified login.
AnswerMatchesAccount ==
    \A p \in Processes :
        LET observation == result[p].observation
        IN  Answered(p) =>
                /\ request[p].op = "resolve" => AccountMatches(request[p].account, observation)
                /\ result[p].fromCache => observation.identity # "verified"

\* --refresh answers with a generation other than the one stored when the
\* process was launched, or, allowed by --stale-on-error, says it is stale.
RefreshIsNewer ==
    \A p \in Processes :
        /\ Answered(p) /\ request[p].policy.refresh /\ result[p].fromCache
        /\ result[p].observation.freshness = "fresh"
        /\ startFile[p] \in Records
        => result[p].generation # startFile[p].generation

\* A process launched after a 401, 403 or account mismatch was recorded never
\* answers with the revoked evidence, fresh or stale.
RevokedIsNotServed ==
    \A p \in Processes :
        /\ Answered(p) /\ result[p].fromCache
        /\ startFile[p] \in Records /\ startFile[p].revoked
        => result[p].generation # startFile[p].generation

\* A generation returned as stored survives a power loss: the directory was
\* synced before the process answered, and nothing later loses it.
AnsweredIsDurable ==
    \A p \in Processes :
        /\ Answered(p) /\ ~result[p].fromCache /\ result[p].generation # 0
        => \/ durable = Foreign
           \/ durable \in Records /\ durable.generation >= result[p].generation

----------------------------------------------------------------------------
(* What a step may never do *)

StoreSteps == \E p \in Processes : Rename(p)

\* A write never replaces evidence by none or by older evidence.
EvidenceNeverRegresses ==
    [][ StoreSteps /\ HasObservation(ReadRecord(visible)) =>
          /\ visible'.observation # NoObservation
          /\ visible'.observation.at >= visible.observation.at ]_vars

\* A record of another schema is never overwritten.
ForeignIsKept == [][ StoreSteps => visible # Foreign ]_vars

\* Only the evidence of a successful refresh clears a revocation.
RevocationIsSticky ==
    [][ StoreSteps /\ ReadRecord(visible).state = "supported"
          /\ visible.revoked
        => visible'.revoked \/ visible'.generation # visible.generation ]_vars

\* A process that was told the credentials are rejected or belong to another
\* account answers with the error, never with evidence, whichever call of its
\* write fails; and only a write that failed before its rename leaves the
\* rejection unrecorded.
RevocationIsRecorded ==
    [][ \A p \in Processes :
          /\ pc[p] # "unlock" /\ pc'[p] = "unlock"
          /\ fetched[p].failure \in {"revoked", "account_mismatch"}
          => /\ result'[p].observation = NoObservation
             /\ \/ pc[p] \in {"write", "sync", "rename"}
                \/ visible = Foreign
                \/ visible.revoked ]_vars

\* No process calls the provider for a binding whose record backs it off, or
\* when the record under the lock already answers its request.
NoNeedlessFetch ==
    [][ \A p \in Processes :
          pc[p] # "fetching" /\ pc'[p] = "fetching" =>
             /\ ~BackedOff(ReadRecord(visible), clock)
             /\ ~ /\ Eligible(ReadRecord(visible), request[p].account,
                              request[p].policy.maxAge, clock)
                  /\ request[p].policy.refresh =>
                        visible.generation #
                            ReadRecord(startFile[p]).record.generation ]_vars

\* At most one process at a time is calling the provider under the lock.
SingleFlight ==
    \A p, q \in Processes :
        pc[p] = "fetching" /\ pc[q] = "fetching" => p = q

\* The store implements a register of atomic read-modify-writes.
Register == INSTANCE QuotaRegister WITH register <- visible, stable <- durable
ImplementsRegister == Register!Spec

----------------------------------------------------------------------------
(* Liveness *)

\* A launched process answers or is killed.
RequestsFinish ==
    \A p \in Processes : pc[p] \notin IdlePcs ~> pc[p] \in IdlePcs

\* Whoever holds the lock lets it go.
LockIsReleased == lock # NoProcess ~> lock = NoProcess
=============================================================================
