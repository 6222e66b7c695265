-------------------------- MODULE CacheStoreProofs --------------------------
(***************************************************************************)
(* Theorems about CacheStore, for any processes, requests, faults, bounds  *)
(* and delays.  The first part types the helpers, the second the state;    *)
(* the third shows that the flock makes the locked read current until the  *)
(* rename.                                                                 *)
(***************************************************************************)
EXTENDS CacheStore, TLAPS

----------------------------------------------------------------------------
(* The values the helpers return *)

\* What a read returns is a loaded record, whatever the snapshot path holds.
LEMMA ReadRecordType ==
    /\ \A state \in RecordStates : Loaded(state) \in LoadedRecords
    /\ \A file \in Files : ReadRecord(file) \in LoadedRecords
<1>1. EmptyRecord \in Records
  BY DEF EmptyRecord, Records, Times, NoTime, FailureKinds
<1>2. \A state \in RecordStates : Loaded(state) \in LoadedRecords
  BY <1>1 DEF Loaded, LoadedRecords
<1>3. ASSUME NEW file \in Files
      PROVE  ReadRecord(file) \in LoadedRecords
  <2>1. CASE file = NoFile
    BY <2>1, <1>2, FileAssumption DEF ReadRecord, RecordStates
  <2>2. CASE file = Garbage
    BY <2>2, <1>2, FileAssumption DEF ReadRecord, RecordStates
  <2>3. CASE file = Foreign
    BY <2>3, <1>2, FileAssumption DEF ReadRecord, RecordStates
  <2>4. CASE file \in Records
    <3>1. ReadRecord(file) = IF ValidRecord(file)
                                THEN [state |-> "supported", record |-> file]
                                ELSE Loaded("corrupt")
      BY <2>4, FileAssumption DEF ReadRecord
    <3>2. [state |-> "supported", record |-> file] \in LoadedRecords
      BY <2>4 DEF LoadedRecords, RecordStates
    <3> QED
      BY <3>1, <3>2, <1>2 DEF RecordStates
  <2> QED
    BY <2>1, <2>2, <2>3, <2>4 DEF Files
<1> QED
  BY <1>2, <1>3

\* A cached observation is an observation.
LEMMA AsCachedType ==
    \A o \in Observations : AsCached(o) \in Observations /\ AsStale(o) \in Observations
BY DEF AsCached, AsStale, Observations, Identities, Freshnesses

\* A retry deadline is a time after the attempt, at most MaxBackoff later:
\* the provider cannot suspend a binding for longer, nor void the delay.
LEMMA RetryDeadlineBounds ==
    ASSUME NEW now \in Nat, NEW hint \in Int
    PROVE  RetryDeadline(now, hint) \in (now + 1) .. (now + MaxBackoff)
BY BackoffAssumption DEF RetryDeadline

\* Both records a refresh writes are records.
LEMMA WrittenRecordType ==
    /\ \A generation \in Nat, o \in Observations \cup {NoObservation} :
          SuccessRecord(generation, o) \in Records
    /\ \A loaded \in LoadedRecords, kind \in FailureKinds, at \in Times,
          now \in Nat :
          FailureRecord(loaded, kind, at, now) \in Records
<1>1. EmptyRecord \in Records
  BY DEF EmptyRecord, Records, Times, NoTime, FailureKinds
<1>2. ASSUME NEW generation \in Nat,
             NEW o \in Observations \cup {NoObservation}
      PROVE  SuccessRecord(generation, o) \in Records
  BY DEF SuccessRecord, EmptyRecord, Records, Times, NoTime, FailureKinds
<1>3. ASSUME NEW loaded \in LoadedRecords, NEW kind \in FailureKinds,
             NEW at \in Times, NEW now \in Nat
      PROVE  FailureRecord(loaded, kind, at, now) \in Records
  <2> DEFINE old == BaseRecord(loaded)
             retryAt == IF kind = "transient" THEN RetryDeadline(now, at)
                                              ELSE NoTime
             revoked == old.revoked \/ kind \in {"revoked", "account_mismatch"}
  <2>1. old \in Records
    BY <1>1 DEF LoadedRecords, BaseRecord
  <2>2. retryAt \in Times
    <3>1. at \in Int
      BY DEF Times, NoTime
    <3>2. RetryDeadline(now, at) \in Nat
      BY <3>1, RetryDeadlineBounds, BackoffAssumption
    <3> QED
      BY <3>2 DEF Times
  <2>3. revoked \in BOOLEAN
    OBVIOUS
  <2> HIDE DEF retryAt, revoked, old
  <2>4. [old EXCEPT !.attemptAt = now, !.lastFailure = kind,
                    !.revoked = revoked, !.retryAt = retryAt] \in Records
    BY <2>1, <2>2, <2>3 DEF Records, Times
  <2>5. FailureRecord(loaded, kind, at, now) =
          [old EXCEPT !.attemptAt = now, !.lastFailure = kind,
                      !.revoked = revoked, !.retryAt = retryAt]
    BY DEF FailureRecord, old, revoked, retryAt
  <2> QED
    BY <2>4, <2>5
<1> QED
  BY <1>2, <1>3

\* An eligible or backed-off record that answers has an observation.
LEMMA AnswerObservation ==
    \A loaded \in LoadedRecords :
        loaded.record.observation # NoObservation =>
            loaded.record.observation \in Observations
BY DEF LoadedRecords, Records

LEMMA ResultType ==
    /\ \A error \in Errors : Failed(error) \in Results
    /\ \A o \in Observations, g \in Nat : Cached(o, g) \in Results
    /\ \A o \in Observations \cup {NoObservation}, g \in Nat, w \in BOOLEAN :
          Live(o, g, w) \in Results
BY DEF Failed, Cached, Live, Results, Errors

\* The provider's outcomes are well typed at any time.
LEMMA FetchOutcomesType ==
    ASSUME clock \in Nat
    PROVE  /\ FetchOutcomes \subseteq Fetches
           /\ \A fetch \in FetchOutcomes :
                 fetch.failure = "none" <=> fetch.observation \in Observations
<1>1. ASSUME NEW fetch \in FetchOutcomes
      PROVE  /\ fetch \in Fetches
             /\ fetch.failure = "none" <=> fetch.observation \in Observations
  BY StoreAssumption, NoObservationAssumption
  DEF FetchOutcomes, Fetches, Observations, Identities, Freshnesses, FailureKinds, Times,
      NoTime
<1> QED
  BY <1>1
\* The values process-local variables start with and return to.
LEMMA DefaultsType ==
    /\ Loaded("missing") \in LoadedRecords
    /\ NoFetch \in Fetches
    /\ NoPending \in PendingFiles
    /\ NoResult \in Results
    /\ NoRequest \in AllRequests
<1>1. Loaded("missing") \in LoadedRecords
  BY ReadRecordType DEF RecordStates
<1>2. NoFetch \in Fetches
  BY DEF NoFetch, Fetches, FailureKinds, Times, NoTime
<1>3. NoPending \in PendingFiles
  BY DEF NoPending, PendingFiles, EmptyRecord, Records, Times, NoTime, FailureKinds
<1>4. NoResult \in Results
  BY ResultType DEF NoResult, Errors
<1>5. NoRequest \in AllRequests
  BY DEF NoRequest, AllRequests, Policies, Modes
<1> QED
  BY <1>1, <1>2, <1>3, <1>4, <1>5

\* Every answer a process can compute is a result.
LEMMA AnswerType ==
    ASSUME TypeOK, NEW p \in Processes
    PROVE  /\ \A loaded \in LoadedRecords : BackoffAnswer(loaded, p) \in Results
           /\ \A loaded \in LoadedRecords :
                 loaded.record.observation # NoObservation =>
                    Cached(AsCached(loaded.record.observation),
                           loaded.record.generation) \in Results
           /\ \A loaded : CachedOnlyError(loaded) \in Errors
           /\ \A fetch \in Fetches, warning \in BOOLEAN :
                 LiveAnswer(p, fetch, warning) \in Results
           /\ UnstoredAnswer(p) \in Results
           /\ StoredAnswer(p) \in Results
<1>1. \A loaded \in LoadedRecords : BackoffAnswer(loaded, p) \in Results
  <2> TAKE loaded \in LoadedRecords
  <2>1. CASE StaleAllowed(loaded, request[p].account, request[p].policy)
    <3>1. AsStale(loaded.record.observation) \in Observations
      BY <2>1, AnswerObservation, AsCachedType DEF StaleAllowed
    <3>2. loaded.record.generation \in Nat
      BY DEF LoadedRecords, Records
    <3> QED
      BY <2>1, <3>1, <3>2, ResultType DEF BackoffAnswer
  <2>2. CASE ~StaleAllowed(loaded, request[p].account, request[p].policy)
    BY <2>2, ResultType DEF BackoffAnswer, Errors
  <2> QED
    BY <2>1, <2>2
<1>2. ASSUME NEW loaded \in LoadedRecords,
             loaded.record.observation # NoObservation
      PROVE  Cached(AsCached(loaded.record.observation),
                    loaded.record.generation) \in Results
  <2>1. loaded.record.generation \in Nat
    BY DEF LoadedRecords, Records
  <2> QED
    BY <1>2, <2>1, AnswerObservation, AsCachedType, ResultType
<1>3. \A loaded : CachedOnlyError(loaded) \in Errors
  BY DEF CachedOnlyError, Errors
<1>4. ASSUME NEW fetch \in Fetches, NEW warning \in BOOLEAN
      PROVE  LiveAnswer(p, fetch, warning) \in Results
  <2>1. \A error \in Errors :
           [Failed(error) EXCEPT !.warning = warning] \in Results
    BY DEF Failed, Results, Errors
  <2>2. fetch.observation \in Observations \cup {NoObservation}
    BY DEF Fetches
  <2>3. Live(fetch.observation, 0, warning) \in Results
    BY <2>2, ResultType
  <2> QED
    BY <2>1, <2>3 DEF LiveAnswer, Errors
<1>5. fetched[p].observation \in Observations \cup {NoObservation}
  BY DEF TypeOK, Fetches
<1>6. UnstoredAnswer(p) \in Results
  BY <1>5, ResultType DEF UnstoredAnswer, Errors
<1>7. StoredAnswer(p) \in Results
  <2> DEFINE stored == [state |-> "supported", record |-> pending[p].record]
  <2>1. stored \in LoadedRecords /\ stored.record.generation \in Nat
    BY DEF TypeOK, PendingFiles, LoadedRecords, Records, RecordStates
  <2>2. Live(fetched[p].observation, stored.record.generation, FALSE) \in Results
    BY <1>5, <2>1, ResultType
  <2>3. BackoffAnswer(stored, p) \in Results
    BY <1>1, <2>1
  <2>4. Failed("fetch") \in Results
    BY ResultType DEF Errors
  <2> QED
    BY <2>2, <2>3, <2>4 DEF StoredAnswer
<1> QED
  BY <1>1, <1>2, <1>3, <1>4, <1>6, <1>7

----------------------------------------------------------------------------
(* Type correctness *)

LEMMA InitType == Init => TypeOK
<1> SUFFICES ASSUME Init PROVE TypeOK
  OBVIOUS
<1>1. visible \in Files /\ durable \in Files /\ NoFile \in Files
  BY StoreAssumption DEF Init, Files
<1> QED
  BY <1>1, DefaultsType DEF Init, TypeOK, Pcs, IdlePcs

\* Steps that a process takes before it holds the lock.
LEMMA TypeUnlocked ==
    ASSUME TypeOK, NEW p \in Processes,
           \/ LaunchResolve(p) \/ LaunchPut(p) \/ Consult(p) \/ OpenLock(p)
           \/ LockUnusable(p) \/ Contended(p) \/ Acquire(p) \/ GiveUp(p)
           \/ CollectLive(p)
    PROVE  TypeOK'
<1> USE DEF TypeOK, storeVars, envVars, localVars, Goto, Return, Finish, Forget,
            Pcs, IdlePcs, LockedPcs, UnlockedPcs
<1>1. CASE LaunchResolve(p)
  <2>1. PICK r \in Requests : Launch(p, r)
    BY <1>1 DEF LaunchResolve
  <2>2. r \in AllRequests
    BY StoreAssumption
  <2>3. Reads \subseteq LoadedRecords
    BY ReadRecordType DEF Reads, RecordStates
  <2>4. /\ UNCHANGED fetched
        /\ initial' \in [Processes -> LoadedRecords]
        /\ pc' \in [Processes -> Pcs]
    BY <1>1, <2>3 DEF LaunchResolve
  <2>5. /\ request' \in [Processes -> AllRequests]
        /\ startFile' \in [Processes -> Files]
        /\ result' \in [Processes -> Results]
        /\ launches' \in Nat
        /\ UNCHANGED <<storeVars, lock, clock, nextGeneration, current, pending>>
    BY <2>1, <2>2, DefaultsType DEF Launch
  <2> QED
    BY <2>4, <2>5
<1>2. CASE LaunchPut(p)
  <2>1. PICK r \in Requests, fetch \in FetchOutcomes, age \in {0, 1} :
           /\ fetch.failure = "none" /\ age <= clock
           /\ Launch(p, r) /\ Goto(p, "prepare")
           /\ fetched' = [fetched EXCEPT ![p] =
                            [fetch EXCEPT !.observation.at = clock - age]]
           /\ UNCHANGED initial
    BY <1>2 DEF LaunchPut
  <2>2. r \in AllRequests
    BY StoreAssumption
  <2>3. fetch \in Fetches /\ fetch.observation \in Observations
    BY <2>1, FetchOutcomesType
  <2>4. clock - age \in Nat
    BY <2>1
  <2>5. [fetch EXCEPT !.observation.at = clock - age] \in Fetches
    <3>1. [fetch.observation EXCEPT !.at = clock - age] \in Observations
      BY <2>3, <2>4 DEF Observations
    <3> QED
      BY <2>3, <3>1 DEF Fetches
  <2> QED
    BY <2>1, <2>2, <2>5, DefaultsType DEF Launch
<1>3. CASE Consult(p)
  <2>1. initial[p] \in LoadedRecords
    OBVIOUS
  <2>2. Eligible(initial[p], request[p].account, request[p].policy.maxAge, clock)
          => initial[p].record.observation # NoObservation
    BY DEF Eligible, HasObservation
  <2>3. \/ \E value \in Results : Finish(p, value)
        \/ Goto(p, "prepare") /\ UNCHANGED <<result, localVars>>
    <3>1. CASE Eligible(initial[p], request[p].account,
                        request[p].policy.maxAge, clock)
               /\ ~request[p].policy.refresh
      BY <1>3, <3>1, <2>1, <2>2, AnswerType DEF Consult
    <3>2. CASE ~ (/\ Eligible(initial[p], request[p].account,
                              request[p].policy.maxAge, clock)
                  /\ ~request[p].policy.refresh)
      BY <1>3, <3>2, <2>1, AnswerType, ResultType DEF Consult
    <3> QED
      BY <3>1, <3>2
  <2>4. UNCHANGED <<storeVars, lock, envVars, request, startFile>>
    BY <1>3 DEF Consult
  <2> QED
    BY <2>3, <2>4, DefaultsType
<1>4. CASE OpenLock(p)
  BY <1>4 DEF OpenLock
<1>5. CASE LockUnusable(p)
  BY <1>5, DefaultsType, ResultType DEF LockUnusable, Errors
<1>6. CASE Contended(p)
  BY <1>6 DEF Contended
<1>7. CASE Acquire(p)
  BY <1>7 DEF Acquire
<1>8. CASE GiveUp(p)
  BY <1>8, DefaultsType, ResultType DEF GiveUp, Errors
<1>9. CASE CollectLive(p)
  <2>1. PICK fetch \in FetchOutcomes :
           Finish(p, LiveAnswer(p, fetch, pc[p] = "bypass"))
    BY <1>9 DEF CollectLive
  <2>2. LiveAnswer(p, fetch, pc[p] = "bypass") \in Results
    BY AnswerType, FetchOutcomesType
  <2>3. UNCHANGED <<storeVars, lock, envVars, request, startFile>>
    BY <1>9 DEF CollectLive
  <2> QED
    BY <2>1, <2>2, <2>3, DefaultsType
<1> QED
  BY <1>1, <1>2, <1>3, <1>4, <1>5, <1>6, <1>7, <1>8, <1>9

\* Steps that a process takes with the lock.
LEMMA TypeLocked ==
    ASSUME TypeOK, NEW p \in Processes,
           \/ ReadLocked(p) \/ Review(p) \/ Fetch(p) \/ KeepFailure(p)
           \/ KeepSuccess(p) \/ WriteTemporary(p) \/ SyncTemporary(p)
           \/ Rename(p) \/ SyncDirectory(p) \/ WriteFails(p) \/ Unlock(p)
    PROVE  TypeOK'
<1> USE DEF TypeOK, storeVars, envVars, localVars, Goto, Return, Forget,
            Pcs, IdlePcs, LockedPcs, UnlockedPcs
<1>1. CASE ReadLocked(p)
  <2>1. Reads \subseteq LoadedRecords
    BY ReadRecordType DEF Reads, RecordStates
  <2> QED
    BY <1>1, <2>1 DEF ReadLocked
<1>2. CASE Review(p)
  <2>1. current[p] \in LoadedRecords
    OBVIOUS
  <2>2. Reusable(initial[p], current[p], request[p].account,
                 request[p].policy, clock)
          => current[p].record.observation # NoObservation
    BY DEF Reusable, Eligible, HasObservation
  <2>3. \/ \E value \in Results : Return(p, "unlock", value)
        \/ Goto(p, "fetching") /\ UNCHANGED result
    <3>1. CASE BackedOff(current[p], clock)
      BY <1>2, <3>1, <2>1, AnswerType DEF Review
    <3>2. CASE ~BackedOff(current[p], clock)
      BY <1>2, <3>2, <2>1, <2>2, AnswerType DEF Review
    <3> QED
      BY <3>1, <3>2
  <2>4. UNCHANGED <<storeVars, lock, envVars, request, startFile, localVars>>
    BY <1>2 DEF Review
  <2> QED
    BY <2>3, <2>4
<1>3. CASE Fetch(p)
  BY <1>3, FetchOutcomesType DEF Fetch
<1>4. CASE KeepFailure(p)
  <2> DEFINE written == FailureRecord(current[p], fetched[p].failure,
                                      fetched[p].retryAt, clock)
  <2>1. written \in Records
    <3>1. current[p] \in LoadedRecords /\ fetched[p].failure \in FailureKinds
          /\ fetched[p].retryAt \in Times
      BY DEF Fetches
    <3> QED
      BY <3>1, WrittenRecordType
  <2>2. Failed("fetch") \in Results
    BY ResultType DEF Errors
  <2>3. \/ Return(p, "unlock", Failed("fetch")) /\ UNCHANGED pending
        \/ /\ pending' = [pending EXCEPT ![p].record = written]
           /\ Goto(p, "write") /\ UNCHANGED result
    BY <1>4 DEF KeepFailure
  <2> HIDE DEF written
  <2>4. pending' \in [Processes -> PendingFiles]
    BY <2>1, <2>3 DEF PendingFiles
  <2>5. UNCHANGED <<storeVars, lock, envVars, request, startFile, initial,
                    current, fetched>>
    BY <1>4 DEF KeepFailure
  <2> QED
    BY <2>2, <2>3, <2>4, <2>5
<1>5. CASE KeepSuccess(p)
  <2> DEFINE written == SuccessRecord(nextGeneration, fetched[p].observation)
  <2>1. written \in Records
    BY WrittenRecordType DEF Fetches
  <2>2. Failed("wrong_account") \in Results /\ UnstoredAnswer(p) \in Results
    BY ResultType, AnswerType DEF Errors
  <2>3. \/ /\ \E value \in Results : Return(p, "unlock", value)
           /\ UNCHANGED <<pending, nextGeneration>>
        \/ /\ pending' = [pending EXCEPT ![p].record = written]
           /\ nextGeneration' = nextGeneration + 1
           /\ Goto(p, "write") /\ UNCHANGED result
    BY <1>5, <2>2 DEF KeepSuccess
  <2> HIDE DEF written
  <2>4. pending' \in [Processes -> PendingFiles]
    BY <2>1, <2>3 DEF PendingFiles
  <2>5. UNCHANGED <<storeVars, lock, clock, launches, request, startFile,
                    initial, current, fetched>>
    BY <1>5 DEF KeepSuccess
  <2> QED
    BY <2>3, <2>4, <2>5
<1>6. CASE WriteTemporary(p)
  BY <1>6 DEF WriteTemporary
<1>7. CASE SyncTemporary(p)
  BY <1>7 DEF SyncTemporary, PendingFiles
<1>8. CASE Rename(p)
  BY <1>8 DEF Rename, PendingFiles, Files
<1>9. CASE SyncDirectory(p)
  <2>1. OnDisk \in Files
    BY DEF OnDisk, Files
  <2> QED
    BY <1>9, <2>1, AnswerType DEF SyncDirectory
<1>10. CASE WriteFails(p)
  BY <1>10, AnswerType DEF WriteFails
<1>11. CASE Unlock(p)
  BY <1>11, DefaultsType DEF Unlock
<1> QED
  BY <1>1, <1>2, <1>3, <1>4, <1>5, <1>6, <1>7, <1>8, <1>9, <1>10, <1>11

\* Steps of the environment.
LEMMA TypeEnvironment ==
    ASSUME TypeOK, (\E p \in Processes : Crash(p)) \/ Environment
    PROVE  TypeOK'
<1> USE DEF TypeOK, storeVars, envVars, localVars, Goto, Return, Forget,
            Pcs, IdlePcs, LockedPcs, UnlockedPcs
<1>1. ASSUME NEW p \in Processes, Crash(p) PROVE TypeOK'
  BY <1>1, DefaultsType DEF Crash
<1>2. CASE PowerLoss
  BY <1>2, DefaultsType DEF PowerLoss
<1>3. CASE WriteBack
  BY <1>3 DEF WriteBack, OnDisk, Files
<1>4. CASE ForeignWrite
  BY <1>4 DEF ForeignWrite, Files
<1>5. CASE Tick
  BY <1>5 DEF Tick
<1>6. CASE SetClockBack
  BY <1>6 DEF SetClockBack
<1>7. CASE Quiescent
  BY <1>7 DEF Quiescent, vars
<1> QED
  BY <1>1, <1>2, <1>3, <1>4, <1>5, <1>6, <1>7 DEF Environment

LEMMA TypeStep == TypeOK /\ [Next]_vars => TypeOK'
<1> SUFFICES ASSUME TypeOK, [Next]_vars PROVE TypeOK'
  OBVIOUS
<1>1. CASE Next
  <2>1. ASSUME NEW p \in Processes, Progress(p) PROVE TypeOK'
    BY <2>1, TypeUnlocked, TypeLocked DEF Progress
  <2>2. ASSUME NEW p \in Processes,
               LaunchResolve(p) \/ LaunchPut(p) \/ LockUnusable(p)
        PROVE  TypeOK'
    BY <2>2, TypeUnlocked
  <2>3. ASSUME NEW p \in Processes, WriteFails(p) PROVE TypeOK'
    BY <2>3, TypeLocked
  <2> QED
    BY <1>1, <2>1, <2>2, <2>3, TypeEnvironment DEF Next
<1>2. CASE UNCHANGED vars
  BY <1>2 DEF vars, TypeOK
<1> QED
  BY <1>1, <1>2

\* The state is well typed under any faults: what the processes hold, write
\* and return never leaves the record and result types of the code.
THEOREM TypeCorrect == Spec => []TypeOK
<1>1. Init => TypeOK
  BY InitType
<1>2. TypeOK /\ [Next]_vars => TypeOK'
  BY TypeStep
<1> QED
  BY <1>1, <1>2, PTL DEF Spec

----------------------------------------------------------------------------
(* The lock *)

\* Whoever is past Acquire holds the lock.
LockHeld == \A p \in Processes : pc[p] \in LockedPcs => lock = p

LEMMA LockStep == TypeOK /\ LockHeld /\ [Next]_vars => LockHeld'
<1> SUFFICES ASSUME TypeOK, LockHeld, [Next]_vars PROVE LockHeld'
  OBVIOUS
<1> USE StoreAssumption
        DEF TypeOK, LockHeld, Goto, Return, Finish, Forget, IdlePcs, LockedPcs,
            UnlockedPcs
<1>1. ASSUME NEW p \in Processes, LaunchResolve(p) \/ LaunchPut(p)
      PROVE  LockHeld'
  BY <1>1 DEF LaunchResolve, LaunchPut, Launch
<1>2. ASSUME NEW p \in Processes,
             \/ Consult(p) \/ OpenLock(p) \/ LockUnusable(p) \/ Contended(p)
             \/ GiveUp(p) \/ CollectLive(p)
      PROVE  LockHeld'
  <2>1. /\ pc[p] \notin LockedPcs /\ UNCHANGED lock
        /\ \E label \in IdlePcs \cup UnlockedPcs : Goto(p, label)
    BY <1>2 DEF Consult, OpenLock, LockUnusable, Contended, GiveUp, CollectLive
  <2> QED
    BY <2>1
<1>3. ASSUME NEW p \in Processes, Acquire(p)
      PROVE  LockHeld'
  BY <1>3 DEF Acquire
<1>4. ASSUME NEW p \in Processes,
             \/ ReadLocked(p) \/ Review(p) \/ Fetch(p) \/ KeepFailure(p)
             \/ KeepSuccess(p) \/ WriteTemporary(p) \/ SyncTemporary(p)
             \/ Rename(p) \/ SyncDirectory(p) \/ WriteFails(p)
      PROVE  LockHeld'
  <2>1. /\ pc[p] \in LockedPcs /\ UNCHANGED lock
        /\ \E label \in LockedPcs : Goto(p, label)
    BY <1>4 DEF ReadLocked, Review, Fetch, KeepFailure, KeepSuccess,
                WriteTemporary, SyncTemporary, Rename, SyncDirectory, WriteFails
  <2> QED
    BY <2>1
<1>5. ASSUME NEW p \in Processes, Unlock(p) \/ Crash(p)
      PROVE  LockHeld'
  BY <1>5 DEF Unlock, Crash
<1>6. CASE PowerLoss
  BY <1>6 DEF PowerLoss
<1>7. CASE WriteBack \/ ForeignWrite \/ Tick \/ SetClockBack \/ Quiescent
           \/ UNCHANGED vars
  BY <1>7 DEF WriteBack, ForeignWrite, Tick, SetClockBack, Quiescent, vars
<1> QED
  BY <1>1, <1>2, <1>3, <1>4, <1>5, <1>6, <1>7 DEF Next, Progress, Environment

LEMMA LockInvariant == Spec => [](TypeOK /\ LockHeld)
<1>1. Init => LockHeld
  BY DEF Init, LockHeld, LockedPcs
<1> QED
  BY <1>1, LockStep, TypeCorrect, PTL DEF Spec

\* The flock admits one provider call at a time, with any number of processes
\* and whatever faults happen.
THEOREM OneFetchAtATime == Spec => []SingleFlight
<1>1. TypeOK /\ LockHeld => SingleFlight
  BY DEF LockHeld, SingleFlight, LockedPcs
<1> QED
  BY <1>1, LockInvariant, PTL

----------------------------------------------------------------------------
(* What was read under the lock stays true until the rename *)

LEMMA ViewStep ==
    ASSUME "read" \notin Faults
    PROVE  TypeOK /\ LockHeld /\ ViewIsCurrent /\ [Next]_vars => ViewIsCurrent'
<1> SUFFICES ASSUME TypeOK, LockHeld, ViewIsCurrent, [Next]_vars
             PROVE  ViewIsCurrent'
  OBVIOUS
<1> USE StoreAssumption
        DEF TypeOK, ViewIsCurrent, HoldingView, Goto, Return, Finish, Forget,
            IdlePcs, storeVars, localVars
<1>1. ASSUME NEW p \in Processes, LaunchResolve(p) \/ LaunchPut(p)
      PROVE  ViewIsCurrent'
  BY <1>1 DEF LaunchResolve, LaunchPut, Launch
<1>2. ASSUME NEW p \in Processes,
             \/ Consult(p) \/ OpenLock(p) \/ LockUnusable(p) \/ Contended(p)
             \/ Acquire(p) \/ GiveUp(p) \/ CollectLive(p) \/ Unlock(p) \/ Crash(p)
             \/ SyncDirectory(p) \/ WriteFails(p)
      PROVE  ViewIsCurrent'
  <2>1. /\ UNCHANGED visible
        /\ \E label \in Pcs \ HoldingView : Goto(p, label)
        /\ \A q \in Processes \ {p} : current'[q] = current[q]
    BY <1>2 DEF Consult, OpenLock, LockUnusable, Contended, Acquire, GiveUp,
                CollectLive, Unlock, Crash, SyncDirectory, WriteFails, Pcs,
                LockedPcs, UnlockedPcs
  <2> QED
    BY <2>1
<1>3. ASSUME NEW p \in Processes, ReadLocked(p)
      PROVE  ViewIsCurrent'
  BY <1>3 DEF ReadLocked, Reads
<1>4. ASSUME NEW p \in Processes,
             \/ Review(p) \/ Fetch(p) \/ KeepFailure(p) \/ KeepSuccess(p)
             \/ WriteTemporary(p) \/ SyncTemporary(p)
      PROVE  ViewIsCurrent'
  <2>1. /\ UNCHANGED <<visible, current>>
        /\ pc[p] \in HoldingView
        /\ \E label \in Pcs : Goto(p, label)
    BY <1>4 DEF Review, Fetch, KeepFailure, KeepSuccess, WriteTemporary,
                SyncTemporary, Pcs, LockedPcs
  <2> QED
    BY <2>1
<1>5. ASSUME NEW p \in Processes, Rename(p)
      PROVE  ViewIsCurrent'
  <2>1. \A q \in Processes \ {p} : pc[q] \notin HoldingView
    BY <1>5 DEF Rename, LockHeld, LockedPcs
  <2> QED
    BY <1>5, <2>1 DEF Rename
<1>6. CASE PowerLoss
  BY <1>6 DEF PowerLoss
<1>7. CASE ForeignWrite
  BY <1>7 DEF ForeignWrite, LockHeld, LockedPcs
<1>8. CASE WriteBack \/ Tick \/ SetClockBack \/ Quiescent \/ UNCHANGED vars
  BY <1>8 DEF WriteBack, Tick, SetClockBack, Quiescent, vars
<1> QED
  BY <1>1, <1>2, <1>3, <1>4, <1>5, <1>6, <1>7, <1>8 DEF Next, Progress, Environment

\* No lost update: as long as a read under the lock tells the truth, a
\* process that is about to write still knows what it replaces.
THEOREM LockedViewIsCurrent ==
    ASSUME "read" \notin Faults
    PROVE  Spec => []ViewIsCurrent
<1>1. Init => ViewIsCurrent
  BY DEF Init, ViewIsCurrent, HoldingView
<1>2. TypeOK /\ LockHeld /\ ViewIsCurrent /\ [Next]_vars => ViewIsCurrent'
  BY ViewStep
<1> QED
  BY <1>1, <1>2, LockInvariant, PTL DEF Spec
=============================================================================
