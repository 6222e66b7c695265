--------------------------- MODULE CacheAnswerProofs ---------------------------
(***************************************************************************)
(* What the answers of CacheStore promise, for any constants.              *)
(*                                                                         *)
(* AnswerKinds says where an answer can come from; each property of        *)
(* answers then has a short invariant that ties the process which answers  *)
(* to the snapshot: Accounted ties what it stores to its request, Origin   *)
(* what it read before the lock to the snapshot at its launch, Descends    *)
(* the snapshot at its launch to the one there now.                        *)
(***************************************************************************)
EXTENDS CacheRegisterProofs

----------------------------------------------------------------------------
(* Backoff *)

\* The record backs its binding off for at most MaxBackoff, from an attempt that
\* is in the past unless the clock was set back since.
Bounded(record, now) ==
    /\ record.retryAt # NoTime =>
          record.retryAt \in (record.attemptAt + 1) .. (record.attemptAt + MaxBackoff)
    /\ "clock" \notin Faults => record.attemptAt <= now

AllBounded ==
    /\ \A file \in {visible, durable} : file \in Records => Bounded(file, clock)
    /\ \A p \in Processes : Bounded(pending[p].record, clock)

LEMMA WrittenIsBounded ==
    /\ \A now \in Nat : Bounded(EmptyRecord, now)
    /\ \A generation, o : \A now \in Nat : Bounded(SuccessRecord(generation, o), now)
    /\ \A loaded \in LoadedRecords, kind \in FailureKinds, at \in Times, now \in Nat :
          Bounded(FailureRecord(loaded, kind, at, now), now)
<1>1. ASSUME NEW now \in Nat
      PROVE  Bounded(EmptyRecord, now)
  BY DEF Bounded, EmptyRecord, NoTime
<1>2. ASSUME NEW generation, NEW o, NEW now \in Nat
      PROVE  Bounded(SuccessRecord(generation, o), now)
  BY DEF Bounded, SuccessRecord, EmptyRecord, NoTime
<1>3. ASSUME NEW loaded \in LoadedRecords, NEW kind \in FailureKinds,
             NEW at \in Times, NEW now \in Nat
      PROVE  Bounded(FailureRecord(loaded, kind, at, now), now)
  <2> DEFINE new == FailureRecord(loaded, kind, at, now)
  <2>1. BaseRecord(loaded) \in Records
    BY BaseRecordType
  <2>2. /\ new.attemptAt = now
        /\ new.retryAt = IF kind = "transient" THEN RetryDeadline(now, at) ELSE NoTime
    BY <2>1 DEF FailureRecord, Records
  <2>3. RetryDeadline(now, at) \in (now + 1) .. (now + MaxBackoff)
    BY RetryDeadlineBounds DEF Times, NoTime
  <2> HIDE DEF new
  <2> QED
    BY <2>2, <2>3 DEF Bounded, new
<1> QED
  BY <1>1, <1>2, <1>3

\* Only SetClockBack takes the clock back.
LEMMA ClockAdvances ==
    ASSUME TypeOK, [Next]_vars, "clock" \notin Faults
    PROVE  clock <= clock'
<1>0. clock \in Nat
  BY DEF TypeOK
<1> USE DEF storeVars, envVars, localVars
<1>1. ASSUME NEW p \in Processes,
             \/ LaunchResolve(p) \/ LaunchPut(p) \/ Consult(p) \/ OpenLock(p)
             \/ LockUnusable(p) \/ Contended(p) \/ Acquire(p) \/ GiveUp(p)
             \/ CollectLive(p) \/ Unlock(p) \/ Crash(p)
      PROVE  UNCHANGED clock
  BY <1>1 DEF LaunchResolve, LaunchPut, Launch, Consult, OpenLock, LockUnusable,
     Contended, Acquire, GiveUp, CollectLive, Unlock, Crash
<1>2. ASSUME NEW p \in Processes,
             \/ ReadLocked(p) \/ Review(p) \/ Fetch(p) \/ KeepFailure(p)
             \/ KeepSuccess(p) \/ WriteTemporary(p) \/ SyncTemporary(p)
             \/ Rename(p) \/ SyncDirectory(p) \/ WriteFails(p)
      PROVE  UNCHANGED clock
  BY <1>2 DEF ReadLocked, Review, Fetch, KeepFailure, KeepSuccess,
     WriteTemporary, SyncTemporary, Rename, SyncDirectory, WriteFails
<1>3. CASE Environment \/ UNCHANGED vars
  BY <1>0, <1>3 DEF Environment, PowerLoss, WriteBack, ForeignWrite, Tick,
     SetClockBack, Quiescent, vars
<1> QED
  BY <1>0, <1>1, <1>2, <1>3 DEF Next, Progress

LEMMA BoundedStep == WriteInv /\ AllBounded /\ [Next]_vars => AllBounded'
<1> SUFFICES ASSUME WriteInv, AllBounded, [Next]_vars PROVE AllBounded'
  OBVIOUS
<1> DEFINE Within ==
      /\ \A file \in {visible', durable'} : file \in Records => Bounded(file, clock)
      /\ \A p \in Processes : Bounded(pending'[p].record, clock)
<1>0. /\ pending \in [Processes -> PendingFiles] /\ settled
      /\ TypeOK /\ clock \in Nat /\ Foreign \notin Records
  BY FileAssumption DEF WriteInv, TypeOK, Synced
<1>1. Bounded(NoPending.record, clock)
  BY <1>0, WrittenIsBounded DEF NoPending
<1> USE DEF AllBounded, Goto, Return, Forget, storeVars, envVars, localVars
<1>2. ASSUME NEW p \in Processes,
             \/ LaunchResolve(p) \/ LaunchPut(p) \/ ReadLocked(p) \/ Review(p)
             \/ Fetch(p) \/ WriteTemporary(p) \/ WriteFails(p)
      PROVE  Within
  BY <1>2 DEF LaunchResolve, LaunchPut, Launch, ReadLocked, Review, Fetch,
              WriteTemporary, WriteFails
<1>3. ASSUME NEW p \in Processes, Outside(p) PROVE Within
  <2>1. /\ UNCHANGED <<visible, durable>>
        /\ UNCHANGED pending \/ pending' = [pending EXCEPT ![p] = NoPending]
    BY <1>0, <1>3, OutsideFrame
  <2> QED
    BY <1>0, <1>1, <2>1
<1>4. ASSUME NEW p \in Processes, KeepFailure(p) \/ KeepSuccess(p)
      PROVE  Within
  <2>1. UNCHANGED <<visible, durable>>
    BY <1>4 DEF KeepFailure, KeepSuccess
  <2>2. \/ UNCHANGED pending
        \/ \E record : Bounded(record, clock) /\ pending' = [pending EXCEPT ![p].record = record]
    <3>1. /\ current[p] \in LoadedRecords /\ clock \in Nat
          /\ fetched[p].failure \in FailureKinds /\ fetched[p].retryAt \in Times
      BY <1>0 DEF TypeOK, Fetches
    <3> QED
      BY <1>4, <3>1, WrittenIsBounded DEF KeepFailure, KeepSuccess
  <2>3. \A q \in Processes : Bounded(pending'[q].record, clock)
    BY <1>0, <2>2 DEF PendingFiles
  <2> QED
    BY <2>1, <2>3
<1>5. ASSUME NEW p \in Processes, SyncTemporary(p) PROVE Within
  BY <1>0, <1>5 DEF SyncTemporary, PendingFiles
<1>6. ASSUME NEW p \in Processes, Rename(p) \/ SyncDirectory(p) PROVE Within
  BY <1>0, <1>6 DEF Rename, SyncDirectory, OnDisk
<1>7. ASSUME Environment \/ UNCHANGED vars PROVE Within
  <2>1. /\ visible' \in {visible, durable, Foreign}
        /\ durable' \in {visible, durable, Foreign}
        /\ UNCHANGED pending \/ pending' = [p \in Processes |-> NoPending]
    BY <1>0, <1>7, EnvironmentFrame DEF OnDisk
  <2>2. \A file \in {visible', durable'} : file \in Records => Bounded(file, clock)
    BY <1>0, <2>1
  <2>3. \A p \in Processes : Bounded(pending'[p].record, clock)
    BY <1>1, <2>1
  <2> QED
    BY <2>2, <2>3
<1> HIDE DEF Within
<1>8. Within
  BY <1>2, <1>3, <1>4, <1>5, <1>6, <1>7, StepKinds
<1>9. ASSUME NEW record \in Records, Bounded(record, clock)
      PROVE  Bounded(record, clock')
  <2>1. clock' \in Nat /\ ("clock" \notin Faults => clock <= clock')
    BY <1>0, ClockAdvances, TypeStep DEF TypeOK
  <2>2. record.attemptAt \in Int
    BY DEF Records, Times, NoTime
  <2> QED
    BY <1>0, <1>9, <2>1, <2>2 DEF Bounded
<1>10. \A p \in Processes : pending'[p].record \in Records
  BY <1>0, TypeStep DEF TypeOK, PendingFiles
<1> QED
  BY <1>8, <1>9, <1>10 DEF Within

\* No retry hint of a provider, crash or power loss leaves a record that
\* suspends the binding for more than MaxBackoff after the attempt, nor, unless
\* the clock is set back, for more than MaxBackoff from any later moment.
THEOREM NobodyIsLockedOut == Spec => []BackoffBounded
<1>1. Init => AllBounded
  BY WrittenIsBounded, StoreAssumption, FileAssumption DEF Init, AllBounded, NoPending
<1>2. WriteInv /\ AllBounded => BackoffBounded
  <2> SUFFICES ASSUME WriteInv, AllBounded, visible \in Records, visible.retryAt # NoTime
               PROVE  /\ visible.retryAt \in (visible.attemptAt + 1) ..
                                             (visible.attemptAt + MaxBackoff)
                      /\ "clock" \notin Faults => visible.retryAt <= clock + MaxBackoff
    BY DEF BackoffBounded
  <2>1. Bounded(visible, clock)
    BY DEF AllBounded
  <2>2. visible.attemptAt \in Int /\ visible.retryAt \in Int /\ MaxBackoff \in Int
    BY BackoffAssumption DEF Records, Times, NoTime
  <2>3. clock \in Nat
    BY DEF WriteInv, TypeOK
  <2> QED
    BY <2>1, <2>2, <2>3 DEF Bounded
<1> QED
  BY <1>1, <1>2, BoundedStep, WriteInvariant, PTL DEF Spec

----------------------------------------------------------------------------
(* Where an answer comes from *)

\* The record p answers from when it answers from the cache: the one read
\* before the lock, the one read under it, or the one it has just written.
Source(p) ==
    CASE pc[p] = "consult" -> initial[p]
      [] pc[p] = "review"  -> current[p]
      [] OTHER -> [state |-> "supported", record |-> pending[p].record]

AnswersFresh(p) ==
    LET loaded == Source(p)
        policy == request[p].policy
    IN  /\ pc[p] \in {"consult", "review"}
        /\ result'[p] = Cached(AsCached(loaded.record.observation),
                               loaded.record.generation)
        /\ Eligible(loaded, request[p].account, policy.maxAge, clock)
        /\ policy.refresh =>
              /\ pc[p] = "review"
              /\ loaded.record.generation # initial[p].record.generation

AnswersStale(p) ==
    LET loaded == Source(p)
    IN  /\ pc[p] \in {"consult", "review", "dirsync"}
        /\ pc[p] \in {"consult", "review"} => loaded.state = "supported"
        /\ result'[p] = Cached(AsStale(loaded.record.observation),
                               loaded.record.generation)
        /\ StaleAllowed(loaded, request[p].account, request[p].policy)

\* Beside the store, or because the store failed.
AnswersUnstored(p) ==
    \E o, warning :
        /\ result'[p] = Live(o, 0, warning)
        /\ request[p].op = "resolve" => AccountMatches(request[p].account, o)

AnswersStored(p) ==
    /\ SyncDirectory(p)
    /\ fetched[p].failure = "none"
    /\ result'[p] = Live(fetched[p].observation, pending[p].record.generation, FALSE)

\* An answer that holds no evidence.
Empty(value) == value.observation = NoObservation /\ value.generation = 0

\* A success that is being stored is of the account that was asked for.
Accounted ==
    \A p \in Processes :
        /\ pc[p] \in Writing \cup {"dirsync"}
        /\ fetched[p].failure = "none" /\ request[p].op = "resolve"
        => AccountMatches(request[p].account, fetched[p].observation)

LEMMA FailedIsEmpty == \A error : Empty(Failed(error))
BY DEF Failed, Empty

\* What backoffResult, resolveLive and the ends of a refresh can return.
LEMMA AnswerSources ==
    ASSUME NEW p \in Processes
    PROVE  /\ \A loaded :
                 \/ Empty(BackoffAnswer(loaded, p))
                 \/ /\ BackoffAnswer(loaded, p) =
                         Cached(AsStale(loaded.record.observation),
                                loaded.record.generation)
                    /\ StaleAllowed(loaded, request[p].account, request[p].policy)
           /\ \A fetch, warning :
                 \/ Empty(LiveAnswer(p, fetch, warning))
                 \/ /\ LiveAnswer(p, fetch, warning) =
                          Live(fetch.observation, 0, warning)
                    /\ AccountMatches(request[p].account, fetch.observation)
           /\ \/ Empty(UnstoredAnswer(p))
              \/ /\ UnstoredAnswer(p) = Live(fetched[p].observation, 0, TRUE)
                 /\ fetched[p].failure = "none"
<1>1. \A loaded :
         \/ Empty(BackoffAnswer(loaded, p))
         \/ /\ BackoffAnswer(loaded, p) =
                 Cached(AsStale(loaded.record.observation), loaded.record.generation)
            /\ StaleAllowed(loaded, request[p].account, request[p].policy)
  BY FailedIsEmpty DEF BackoffAnswer
<1>2. \A fetch, warning :
         \/ Empty(LiveAnswer(p, fetch, warning))
         \/ /\ LiveAnswer(p, fetch, warning) = Live(fetch.observation, 0, warning)
            /\ AccountMatches(request[p].account, fetch.observation)
  BY FailedIsEmpty DEF LiveAnswer, Failed, Empty
<1>3. \/ Empty(UnstoredAnswer(p))
      \/ /\ UnstoredAnswer(p) = Live(fetched[p].observation, 0, TRUE)
         /\ fetched[p].failure = "none"
  BY FailedIsEmpty DEF UnstoredAnswer
<1> QED
  BY <1>1, <1>2, <1>3

\* A step lets a process answer in one of five ways, or leaves its answer, its
\* request and the snapshot it started from alone, or is its launch.
LEMMA AnswerKinds ==
    ASSUME TypeOK, Accounted, [Next]_vars, NEW p \in Processes
    PROVE  \/ Empty(result'[p])
           \/ /\ UNCHANGED <<request[p], startFile[p]>>
              /\ \/ UNCHANGED result[p]
                 \/ AnswersFresh(p) \/ AnswersStale(p)
                 \/ AnswersUnstored(p) \/ AnswersStored(p)
<1>0. /\ pc \in [Processes -> Pcs] /\ result \in [Processes -> Results]
      /\ request \in [Processes -> AllRequests] /\ startFile \in [Processes -> Files]
      /\ initial[p] \in LoadedRecords /\ current[p] \in LoadedRecords
  BY DEF TypeOK
<1> DEFINE Kept == UNCHANGED <<result[p], request[p], startFile[p]>>
<1> USE DEF Goto, Return, Finish, storeVars, envVars, localVars
<1>1. ASSUME NEW q \in Processes, LaunchResolve(q) \/ LaunchPut(q)
      PROVE  Kept \/ Empty(result'[p])
  BY <1>0, <1>1 DEF LaunchResolve, LaunchPut, Launch, NoResult, Failed, Empty
<1>2. ASSUME NEW q \in Processes, q # p,
             \/ Outside(q) \/ ReadLocked(q) \/ Review(q) \/ Fetch(q)
             \/ KeepFailure(q) \/ KeepSuccess(q) \/ WriteTemporary(q)
             \/ SyncTemporary(q) \/ Rename(q) \/ SyncDirectory(q) \/ WriteFails(q)
      PROVE  Kept
  <2>1. /\ UNCHANGED <<request, startFile>>
        /\ UNCHANGED result \/ \E value : result' = [result EXCEPT ![q] = value]
    <3>1. CASE Outside(q)
      BY <3>1 DEF Outside, Consult, OpenLock, LockUnusable, Contended, Acquire,
         GiveUp, CollectLive, Unlock, Crash
    <3>2. CASE ~Outside(q)
      BY <1>2, <3>2 DEF ReadLocked, Review, Fetch, KeepFailure, KeepSuccess,
         WriteTemporary, SyncTemporary, Rename, SyncDirectory, WriteFails
    <3> QED
      BY <3>1, <3>2
  <2> QED
    BY <1>0, <1>2, <2>1
<1>3. ASSUME Consult(p)
      PROVE  Kept \/ Empty(result'[p]) \/ (UNCHANGED <<request[p], startFile[p]>> /\
                                  (AnswersFresh(p) \/ AnswersStale(p)))
  <2>1. pc[p] = "consult" /\ Source(p) = initial[p]
        /\ UNCHANGED <<request[p], startFile[p]>>
    BY <1>3 DEF Consult, Source
  <2>2. CASE /\ ~request[p].policy.refresh
             /\ Eligible(initial[p], request[p].account, request[p].policy.maxAge, clock)
    BY <1>0, <1>3, <2>1, <2>2 DEF Consult, AnswersFresh
  <2>3. CASE ~ /\ ~request[p].policy.refresh
               /\ Eligible(initial[p], request[p].account, request[p].policy.maxAge, clock)
    <3>1. CASE request[p].policy.mode = "only"
      <4>1. result'[p] = Failed(CachedOnlyError(initial[p]))
        BY <1>0, <1>3, <2>3, <3>1 DEF Consult
      <4> QED
        BY <4>1, FailedIsEmpty
    <3>2. CASE request[p].policy.mode # "only" /\ BackedOff(initial[p], clock)
      <4>1. result'[p] = BackoffAnswer(initial[p], p)
        BY <1>0, <1>3, <2>3, <3>2 DEF Consult
      <4>2. \/ Empty(result'[p])
            \/ AnswersStale(p)
        BY <2>1, <3>2, <4>1, AnswerSources DEF AnswersStale, BackedOff
      <4> QED
        BY <2>1, <4>2
    <3>3. CASE request[p].policy.mode # "only" /\ ~BackedOff(initial[p], clock)
      BY <1>0, <1>3, <2>3, <3>3 DEF Consult
    <3> QED
      BY <3>1, <3>2, <3>3
  <2> QED
    BY <2>2, <2>3
<1>4. ASSUME \/ OpenLock(p) \/ Contended(p) \/ Acquire(p) \/ Unlock(p) \/ Crash(p)
             \/ ReadLocked(p) \/ Fetch(p) \/ WriteTemporary(p)
             \/ SyncTemporary(p) \/ Rename(p)
      PROVE  Kept
  BY <1>4 DEF OpenLock, Contended, Acquire, Unlock, Crash, ReadLocked, Fetch,
     WriteTemporary, SyncTemporary, Rename
<1>5. ASSUME LockUnusable(p) \/ GiveUp(p)
      PROVE  Kept \/ Empty(result'[p])
  BY <1>0, <1>5, FailedIsEmpty DEF LockUnusable, GiveUp
<1>6. ASSUME CollectLive(p)
      PROVE  \/ Empty(result'[p])
             \/ UNCHANGED <<request[p], startFile[p]>> /\ AnswersUnstored(p)
  <2>1. /\ UNCHANGED <<request[p], startFile[p]>>
        /\ \E fetch \in FetchOutcomes :
              result'[p] = LiveAnswer(p, fetch, pc[p] = "bypass")
    BY <1>0, <1>6 DEF CollectLive
  <2>2. \E fetch \in FetchOutcomes, warning \in BOOLEAN :
           result'[p] = LiveAnswer(p, fetch, warning)
    <3>1. CASE pc[p] = "bypass"
      BY <2>1, <3>1
    <3>2. CASE pc[p] # "bypass"
      BY <2>1, <3>2
    <3> QED
      BY <3>1, <3>2
  <2>3. Empty(result'[p]) \/ AnswersUnstored(p)
    <3>1. PICK fetch, warning : result'[p] = LiveAnswer(p, fetch, warning)
      BY <2>2
    <3>2. CASE Empty(LiveAnswer(p, fetch, warning))
      BY <3>1, <3>2
    <3>3. CASE /\ LiveAnswer(p, fetch, warning) = Live(fetch.observation, 0, warning)
               /\ AccountMatches(request[p].account, fetch.observation)
      BY <3>1, <3>3 DEF AnswersUnstored
    <3> QED
      BY <3>2, <3>3, AnswerSources
  <2> QED
    BY <2>1, <2>3
<1>7. ASSUME Review(p)
      PROVE  Kept \/ Empty(result'[p]) \/ (UNCHANGED <<request[p], startFile[p]>> /\
                                  (AnswersFresh(p) \/ AnswersStale(p)))
  <2>1. pc[p] = "review" /\ Source(p) = current[p]
        /\ UNCHANGED <<request[p], startFile[p]>>
    BY <1>7 DEF Review, Source
  <2>2. CASE BackedOff(current[p], clock)
    <3>1. result'[p] = BackoffAnswer(current[p], p)
      BY <1>0, <1>7, <2>2 DEF Review
    <3>2. \/ Empty(result'[p])
          \/ AnswersStale(p)
      BY <2>1, <2>2, <3>1, AnswerSources DEF AnswersStale, BackedOff
    <3> QED
      BY <2>1, <3>2
  <2>3. CASE /\ ~BackedOff(current[p], clock)
             /\ Reusable(initial[p], current[p], request[p].account,
                         request[p].policy, clock)
    <3>1. result'[p] = Cached(AsCached(current[p].record.observation),
                              current[p].record.generation)
      BY <1>0, <1>7, <2>3 DEF Review
    <3> QED
      BY <2>1, <2>3, <3>1 DEF AnswersFresh, Reusable
  <2>4. CASE /\ ~BackedOff(current[p], clock)
             /\ ~Reusable(initial[p], current[p], request[p].account,
                          request[p].policy, clock)
    BY <1>0, <1>7, <2>4 DEF Review
  <2> QED
    BY <2>2, <2>3, <2>4
<1>8. ASSUME KeepFailure(p)
      PROVE  Kept \/ Empty(result'[p])
  BY <1>0, <1>8, FailedIsEmpty DEF KeepFailure
<1>9. ASSUME KeepSuccess(p) \/ WriteFails(p)
      PROVE  Kept \/ Empty(result'[p]) \/ (UNCHANGED <<request[p], startFile[p]>>
                                  /\ AnswersUnstored(p))
  <2>1. \/ Kept
        \/ Empty(result'[p])
        \/ /\ result'[p] = UnstoredAnswer(p)
           /\ fetched[p].failure = "none" /\ request[p].op = "resolve" =>
                 AccountMatches(request[p].account, fetched[p].observation)
    <3>1. CASE KeepSuccess(p)
      BY <1>0, <3>1, FailedIsEmpty DEF KeepSuccess, AllRequests
    <3>2. CASE WriteFails(p)
      BY <1>0, <3>2 DEF WriteFails, Accounted, Writing
    <3> QED
      BY <1>9, <3>1, <3>2
  <2>2. UNCHANGED <<request[p], startFile[p]>>
    BY <1>9 DEF KeepSuccess, WriteFails
  <2>3. \/ Kept
        \/ Empty(result'[p])
        \/ AnswersUnstored(p)
    BY <2>1, AnswerSources DEF AnswersUnstored
  <2> QED
    BY <2>2, <2>3
<1>10. ASSUME SyncDirectory(p)
       PROVE  Empty(result'[p]) \/ (UNCHANGED <<request[p], startFile[p]>> /\
                           (AnswersStale(p) \/ AnswersStored(p)))
  <2> DEFINE stored == [state |-> "supported", record |-> pending[p].record]
  <2>1. /\ pc[p] = "dirsync" /\ Source(p) = stored
        /\ result'[p] = StoredAnswer(p)
        /\ UNCHANGED <<request[p], startFile[p]>>
    BY <1>0, <1>10 DEF SyncDirectory, Source
  <2>2. CASE fetched[p].failure = "none"
    BY <1>10, <2>1, <2>2 DEF StoredAnswer, AnswersStored
  <2>3. CASE fetched[p].failure # "none"
    <3>1. StoredAnswer(p) \in {BackoffAnswer(stored, p), Failed("fetch")}
      BY <2>3 DEF StoredAnswer
    <3> HIDE DEF stored
    <3>2. \/ Empty(result'[p])
          \/ AnswersStale(p)
      BY <2>1, <3>1, AnswerSources, FailedIsEmpty DEF AnswersStale
    <3> QED
      BY <2>1, <3>2
  <2> QED
    BY <2>2, <2>3
<1>11. ASSUME Environment \/ UNCHANGED vars
       PROVE  Kept
  BY <1>11 DEF Environment, PowerLoss, WriteBack, ForeignWrite, Tick,
     SetClockBack, Quiescent, vars
<1> QED
  BY <1>1, <1>2, <1>3, <1>4, <1>5, <1>6, <1>7, <1>8, <1>9, <1>10, <1>11, StepKinds
  DEF Outside

\* What the three ways to build an answer put in it.
LEMMA AnswerValues ==
    /\ \A o \in Observations : \A g :
          /\ Cached(AsCached(o), g).generation = g /\ Cached(AsCached(o), g).fromCache
          /\ Cached(AsCached(o), g).observation = AsCached(o)
          /\ Cached(AsStale(o), g).generation = g /\ Cached(AsStale(o), g).fromCache
          /\ Cached(AsStale(o), g).observation = AsStale(o)
          /\ AsCached(o).account = o.account /\ AsCached(o).identity # "verified"
          /\ AsStale(o).account = o.account /\ AsStale(o).identity # "verified"
          /\ AsStale(o).freshness = "stale"
    /\ \A o, g, w : /\ Live(o, g, w).generation = g /\ ~Live(o, g, w).fromCache
                    /\ Live(o, g, w).observation = o
BY DEF Cached, Live, AsCached, AsStale, Observations

LEMMA SourceType ==
    ASSUME TypeOK, NEW p \in Processes
    PROVE  Source(p) \in LoadedRecords
<1>1. CASE pc[p] = "consult" \/ pc[p] = "review"
  BY <1>1 DEF Source, TypeOK
<1>2. CASE pc[p] # "consult" /\ pc[p] # "review"
  BY <1>2 DEF Source, TypeOK, LoadedRecords, PendingFiles, RecordStates
<1> QED
  BY <1>1, <1>2

\* An answer from the cache is made of an observation.
LEMMA SourceObserved ==
    ASSUME TypeOK, NEW p \in Processes, AnswersFresh(p) \/ AnswersStale(p)
    PROVE  /\ Source(p).record.observation \in Observations
           /\ AccountMatches(request[p].account, Source(p).record.observation)
           /\ ~Source(p).record.revoked
           /\ result'[p].fromCache
           /\ result'[p].generation = Source(p).record.generation
           /\ result'[p].observation \in
                 {AsCached(Source(p).record.observation),
                  AsStale(Source(p).record.observation)}
<1> DEFINE loaded == Source(p)
<1>1. loaded \in LoadedRecords
  BY SourceType
<1>2. CASE AnswersFresh(p)
  <2>1. /\ loaded.record.observation # NoObservation /\ ~loaded.record.revoked
        /\ AccountMatches(request[p].account, loaded.record.observation)
        /\ result'[p] = Cached(AsCached(loaded.record.observation),
                               loaded.record.generation)
    BY <1>2 DEF AnswersFresh, Eligible, HasObservation
  <2> HIDE DEF loaded
  <2> QED
    BY <1>1, <2>1, AnswerObservation, AnswerValues DEF loaded
<1>3. CASE AnswersStale(p)
  <2>1. /\ loaded.record.observation # NoObservation /\ ~loaded.record.revoked
        /\ AccountMatches(request[p].account, loaded.record.observation)
        /\ result'[p] = Cached(AsStale(loaded.record.observation),
                               loaded.record.generation)
    BY <1>3 DEF AnswersStale, StaleAllowed
  <2> HIDE DEF loaded
  <2> QED
    BY <1>1, <2>1, AnswerObservation, AnswerValues DEF loaded
<1> QED
  BY <1>2, <1>3

----------------------------------------------------------------------------
(* The account of an answer *)

LEMMA AccountedStep == TypeOK /\ Accounted /\ [Next]_vars => Accounted'
<1> SUFFICES ASSUME TypeOK, Accounted, [Next]_vars PROVE Accounted'
  OBVIOUS
<1>0. /\ pc \in [Processes -> Pcs] /\ fetched \in [Processes -> Fetches]
      /\ request \in [Processes -> AllRequests]
  BY DEF TypeOK
<1> USE DEF Accounted, Writing, Goto, Return, Forget, storeVars, envVars, localVars
<1>1. ASSUME NEW p \in Processes, LaunchResolve(p) \/ LaunchPut(p) PROVE Accounted'
  BY <1>0, <1>1 DEF LaunchResolve, LaunchPut, Launch
<1>2. ASSUME NEW p \in Processes,
             Outside(p) \/ ReadLocked(p) \/ Review(p) \/ Fetch(p)
      PROVE  Accounted'
  <2>1. /\ pc'[p] \notin Writing \cup {"dirsync"}
        /\ \A q \in Processes \ {p} :
              UNCHANGED <<pc[q], fetched[q], request[q]>>
    <3>1. CASE Outside(p)
      BY <1>0, <3>1, OutsideFrame DEF IdlePcs, UnlockedPcs
    <3>2. CASE ReadLocked(p) \/ Review(p) \/ Fetch(p)
      BY <1>0, <3>2 DEF ReadLocked, Review, Fetch
    <3> QED
      BY <1>2, <3>1, <3>2
  <2> QED
    BY <2>1
<1>3. ASSUME NEW p \in Processes, KeepFailure(p) \/ KeepSuccess(p) PROVE Accounted'
  <2>1. UNCHANGED <<fetched, request>> /\ \A q \in Processes \ {p} : UNCHANGED pc[q]
    BY <1>0, <1>3 DEF KeepFailure, KeepSuccess
  <2>2. /\ pc'[p] \in Writing \cup {"dirsync"}
        /\ fetched[p].failure = "none" /\ request[p].op = "resolve"
        => AccountMatches(request[p].account, fetched[p].observation)
    BY <1>0, <1>3 DEF KeepFailure, KeepSuccess
  <2> QED
    BY <2>1, <2>2
<1>4. ASSUME NEW p \in Processes,
             \/ WriteTemporary(p) \/ SyncTemporary(p) \/ Rename(p)
             \/ SyncDirectory(p) \/ WriteFails(p)
      PROVE  Accounted'
  <2>1. /\ UNCHANGED <<fetched, request>> /\ \A q \in Processes \ {p} : UNCHANGED pc[q]
        /\ pc[p] \in Writing \cup {"dirsync"}
    BY <1>0, <1>4 DEF WriteTemporary, SyncTemporary, Rename, SyncDirectory, WriteFails
  <2> QED
    BY <2>1
<1>5. CASE Environment \/ UNCHANGED vars
  BY <1>5, EnvironmentFrame DEF IdlePcs
<1> QED
  BY <1>1, <1>2, <1>3, <1>4, <1>5, StepKinds

AllMatch ==
    \A p \in Processes :
        LET observation == result[p].observation
        IN  observation # NoObservation =>
                /\ request[p].op = "resolve" => AccountMatches(request[p].account, observation)
                /\ result[p].fromCache => observation.identity # "verified"

\* No answer, from the cache, the provider or beside a broken store, is of an
\* account other than the one asked for, and none from the cache claims that
\* the login was verified.
THEOREM AnswersNameTheAccount == Spec => []AnswerMatchesAccount
<1>1. Init => Accounted /\ AllMatch
  BY DEF Init, Accounted, Writing, AllMatch, NoResult, Failed
<1>2. TypeOK /\ Accounted /\ AllMatch /\ [Next]_vars => AllMatch'
  <2> SUFFICES ASSUME TypeOK, Accounted, AllMatch, [Next]_vars, NEW p \in Processes,
                      result'[p].observation # NoObservation
               PROVE  /\ request'[p].op = "resolve" =>
                            AccountMatches(request'[p].account, result'[p].observation)
                      /\ result'[p].fromCache =>
                            result'[p].observation.identity # "verified"
    BY DEF AllMatch
  <2>1. CASE Empty(result'[p])
    BY <2>1 DEF Empty
  <2>2. CASE UNCHANGED <<request[p], result[p]>>
    BY <2>2 DEF AllMatch
  <2>3. CASE UNCHANGED request[p] /\ (AnswersFresh(p) \/ AnswersStale(p))
    BY <2>3, SourceObserved, AnswerValues DEF AccountMatches
  <2>4. CASE UNCHANGED request[p] /\ AnswersUnstored(p)
    BY <2>4, AnswerValues DEF AnswersUnstored
  <2>5. CASE UNCHANGED request[p] /\ AnswersStored(p)
    <3>1. pc[p] = "dirsync"
      BY <2>5 DEF AnswersStored, SyncDirectory
    <3>2. request[p].op = "resolve" =>
             AccountMatches(request[p].account, fetched[p].observation)
      BY <2>5, <3>1 DEF AnswersStored, Accounted
    <3>3. /\ result'[p].observation = fetched[p].observation
          /\ ~result'[p].fromCache
      <4>1. result'[p] = Live(fetched[p].observation,
                              pending[p].record.generation, FALSE)
        BY <2>5 DEF AnswersStored
      <4> QED
        BY <4>1 DEF Live
    <3> QED
      BY <2>5, <3>2, <3>3
  <2> QED
    BY <2>1, <2>2, <2>3, <2>4, <2>5, AnswerKinds
<1>3. AllMatch => AnswerMatchesAccount
  BY DEF AllMatch, AnswerMatchesAccount, Answered
<1> QED
  BY <1>1, <1>2, <1>3, AccountedStep, TypeCorrect, PTL DEF Spec

----------------------------------------------------------------------------
(* What an answer says about the snapshot a process found when it was      *)
(* launched, and about the one the next power loss leaves, where a read    *)
(* under the lock tells the truth                                          *)

\* Until the review a process remembers the snapshot it was launched with.
Remembering == {"consult", "prepare", "contend", "wait", "locked", "review"}

Origin ==
    \A p \in Processes :
        /\ Whole(startFile[p])
        /\ request[p].op = "resolve" /\ pc[p] \in Remembering =>
              initial[p] = ReadRecord(startFile[p])

\* The file holds this generation or one drawn later, or is out of reach.
Reached(file, generation) ==
    file = Foreign \/ (file \in Records /\ file.generation >= generation)

\* While a process runs, the snapshot it found gives way only to later
\* generations, and keeps its revocation as long as it keeps its generation.
Descends ==
    \A p \in Processes :
        pc[p] \notin IdlePcs /\ startFile[p] \in Records =>
            /\ Reached(visible, startFile[p].generation)
            /\ /\ visible # Foreign /\ visible.generation = startFile[p].generation
               /\ startFile[p].revoked
               => visible.revoked

\* After its rename a process finds its own record until it lets go of the lock.
Published == \A p \in Processes : pc[p] = "dirsync" => visible = pending[p].record

HistoryInv == WriteInv /\ ViewIsCurrent /\ Accounted /\ Origin /\ Descends /\ Published

----------------------------------------------------------------------------
(* How the snapshot changes *)

\* Whoever renames replaces a record by a later one, or by the same one with
\* a failure noted.
LEMMA RenameAdvances ==
    ASSUME WriteInv, ViewIsCurrent, NEW p \in Processes, Rename(p)
    PROVE  /\ visible # Foreign /\ visible' \in Records /\ UNCHANGED durable
           /\ visible \in Records =>
                 /\ visible'.generation >= visible.generation
                 /\ visible'.generation = visible.generation /\ visible.revoked =>
                       visible'.revoked
<1>1. /\ visible # Foreign /\ visible' \in Records /\ UNCHANGED durable
      /\ Replaces(visible', ReadRecord(visible))
  BY RenameReplaces
<1>2. ASSUME visible \in Records
      PROVE  /\ visible'.generation >= visible.generation
             /\ visible'.generation = visible.generation /\ visible.revoked =>
                   visible'.revoked
  <2>1. BaseRecord(ReadRecord(visible)) = visible
    BY <1>2, ReadRecordValue DEF BaseRecord, WriteInv, Sound, Whole, TypeOK
  <2>2. visible.generation \in Nat /\ visible'.generation \in Nat
    BY <1>1, <1>2 DEF Records
  <2> QED
    BY <1>1, <2>1, <2>2 DEF Replaces
<1> QED
  BY <1>1, <1>2

LEMMA StoreMoves ==
    ASSUME WriteInv, ViewIsCurrent, [Next]_vars
    PROVE  \/ UNCHANGED <<visible, durable>>
           \/ \E p \in Processes : Rename(p)
           \/ UNCHANGED visible /\ durable' = visible
           \/ /\ visible' = durable /\ UNCHANGED durable
              /\ \A p \in Processes : pc'[p] \in IdlePcs
           \/ /\ visible' = Foreign /\ durable' = Foreign
              /\ lock = NoProcess /\ UNCHANGED <<pc, startFile>>
<1> USE DEF storeVars
<1>1. ASSUME NEW p \in Processes, SyncDirectory(p)
      PROVE  UNCHANGED visible /\ durable' = visible
  BY <1>1 DEF SyncDirectory, OnDisk, WriteInv, Synced
<1>2. ASSUME NEW p \in Processes,
             \/ LaunchResolve(p) \/ LaunchPut(p) \/ Outside(p)
             \/ ReadLocked(p) \/ Review(p) \/ Fetch(p) \/ KeepFailure(p)
             \/ KeepSuccess(p) \/ WriteTemporary(p) \/ SyncTemporary(p)
             \/ WriteFails(p)
      PROVE  UNCHANGED <<visible, durable>>
  <2>1. CASE Outside(p)
    BY <2>1, OutsideFrame DEF WriteInv
  <2>2. CASE ~Outside(p)
    BY <1>2, <2>2 DEF LaunchResolve, LaunchPut, Launch, ReadLocked, Review,
       Fetch, KeepFailure, KeepSuccess, WriteTemporary, SyncTemporary, WriteFails
  <2> QED
    BY <2>1, <2>2
<1>3. CASE PowerLoss
  BY <1>3 DEF PowerLoss, IdlePcs
<1>4. CASE WriteBack
  BY <1>4 DEF WriteBack, OnDisk, WriteInv, Synced
<1>5. CASE ForeignWrite
  BY <1>5 DEF ForeignWrite
<1>6. CASE Tick \/ SetClockBack \/ Quiescent \/ UNCHANGED vars
  BY <1>6 DEF Tick, SetClockBack, Quiescent, vars
<1> QED
  BY <1>1, <1>2, <1>3, <1>4, <1>5, <1>6, StepKinds DEF Environment

----------------------------------------------------------------------------
(* The conjuncts of the invariant *)

\* A launch looks at the snapshot; every later step leaves what the process
\* remembers of it alone, or forgets it and stops.
LEMMA StartFrame ==
    ASSUME TypeOK, [Next]_vars, NEW p \in Processes
    PROVE  \/ LaunchResolve(p) \/ LaunchPut(p)
           \/ /\ UNCHANGED <<startFile[p], request[p]>>
              /\ pc'[p] \notin IdlePcs => pc[p] \notin IdlePcs
              /\ pc'[p] \in Remembering =>
                    pc[p] \in Remembering /\ UNCHANGED initial[p]
<1>0. /\ pc \in [Processes -> Pcs] /\ initial \in [Processes -> LoadedRecords]
      /\ request \in [Processes -> AllRequests] /\ startFile \in [Processes -> Files]
  BY DEF TypeOK
<1> DEFINE Frame ==
              /\ UNCHANGED <<startFile[p], request[p]>>
              /\ pc'[p] \notin IdlePcs => pc[p] \notin IdlePcs
              /\ pc'[p] \in Remembering =>
                    pc[p] \in Remembering /\ UNCHANGED initial[p]
<1> USE DEF Goto, Return, Finish, Forget, storeVars, envVars, localVars, IdlePcs,
            Remembering
<1>1. ASSUME NEW q \in Processes, q # p, LaunchResolve(q) \/ LaunchPut(q)
      PROVE  Frame
  BY <1>0, <1>1 DEF LaunchResolve, LaunchPut, Launch
<1>2. ASSUME NEW q \in Processes, Outside(q)
      PROVE  Frame
  <2>1. CASE Consult(q)
    BY <1>0, <2>1 DEF Consult
  <2>2. CASE OpenLock(q) \/ Contended(q) \/ Acquire(q)
    BY <1>0, <2>2 DEF OpenLock, Contended, Acquire
  <2>3. CASE LockUnusable(q)
    BY <1>0, <2>3 DEF LockUnusable
  <2>4. CASE GiveUp(q) \/ CollectLive(q)
    BY <1>0, <2>4 DEF GiveUp, CollectLive
  <2>5. CASE Unlock(q) \/ Crash(q)
    BY <1>0, <2>5 DEF Unlock, Crash
  <2> QED
    BY <1>2, <2>1, <2>2, <2>3, <2>4, <2>5 DEF Outside
<1>3. ASSUME NEW q \in Processes,
             ReadLocked(q) \/ Review(q) \/ Fetch(q) \/ KeepFailure(q) \/ KeepSuccess(q)
      PROVE  Frame
  BY <1>0, <1>3 DEF ReadLocked, Review, Fetch, KeepFailure, KeepSuccess
<1>4. ASSUME NEW q \in Processes,
             \/ WriteTemporary(q) \/ SyncTemporary(q) \/ Rename(q)
             \/ SyncDirectory(q) \/ WriteFails(q)
      PROVE  Frame
  BY <1>0, <1>4 DEF WriteTemporary, SyncTemporary, Rename, SyncDirectory, WriteFails
<1>5. CASE Environment \/ UNCHANGED vars
  BY <1>5 DEF Environment, PowerLoss, WriteBack, ForeignWrite, Tick, SetClockBack,
     Quiescent, vars
<1> QED
  BY <1>1, <1>2, <1>3, <1>4, <1>5, StepKinds

LEMMA OriginStep ==
    ASSUME "read" \notin Faults
    PROVE  WriteInv /\ Origin /\ [Next]_vars => Origin'
<1> SUFFICES ASSUME WriteInv, Origin, [Next]_vars, NEW p \in Processes
             PROVE  /\ Whole(startFile'[p])
                    /\ request'[p].op = "resolve" /\ pc'[p] \in Remembering =>
                          initial'[p] = ReadRecord(startFile'[p])
  BY DEF Origin
<1>0. /\ TypeOK /\ Whole(visible)
      /\ pc \in [Processes -> Pcs] /\ initial \in [Processes -> LoadedRecords]
      /\ request \in [Processes -> AllRequests] /\ startFile \in [Processes -> Files]
  BY DEF WriteInv, Sound, TypeOK
<1>1. CASE LaunchResolve(p)
  <2>1. startFile'[p] = visible
    BY <1>0, <1>1 DEF LaunchResolve, Launch
  <2>2. pc'[p] = "live" \/ (pc'[p] = "consult" /\ initial'[p] = ReadRecord(visible))
    BY <1>0, <1>1 DEF LaunchResolve, Goto, Reads
  <2> QED
    BY <1>0, <2>1, <2>2 DEF Remembering
<1>2. CASE LaunchPut(p)
  BY <1>0, <1>2 DEF LaunchPut, Launch
<1>3. CASE ~LaunchResolve(p) /\ ~LaunchPut(p)
  BY <1>0, <1>3, StartFrame DEF Origin
<1> QED
  BY <1>1, <1>2, <1>3

LEMMA DescendsStep ==
    WriteInv /\ ViewIsCurrent /\ Descends /\ [Next]_vars => Descends'
<1> SUFFICES ASSUME WriteInv, ViewIsCurrent, Descends, [Next]_vars,
                    NEW p \in Processes, pc'[p] \notin IdlePcs, startFile'[p] \in Records
             PROVE  /\ Reached(visible', startFile'[p].generation)
                    /\ /\ visible' # Foreign
                       /\ visible'.generation = startFile'[p].generation
                       /\ startFile'[p].revoked
                       => visible'.revoked
  BY DEF Descends, Reached
<1>0. TypeOK /\ startFile \in [Processes -> Files] /\ Foreign \notin Records
  BY FileAssumption DEF WriteInv, TypeOK
<1>1. CASE LaunchResolve(p) \/ LaunchPut(p)
  <2>1. startFile'[p] = visible /\ UNCHANGED visible
    BY <1>0, <1>1 DEF LaunchResolve, LaunchPut, Launch, storeVars
  <2> QED
    BY <2>1 DEF Reached, Records
<1>2. CASE ~LaunchResolve(p) /\ ~LaunchPut(p)
  <2>1. /\ UNCHANGED startFile[p] /\ startFile[p] \in Records
        /\ Reached(visible, startFile[p].generation)
        /\ /\ visible # Foreign /\ visible.generation = startFile[p].generation
           /\ startFile[p].revoked
           => visible.revoked
    BY <1>0, <1>2, StartFrame DEF Descends
  <2>2. ASSUME NEW q \in Processes, Rename(q)
        PROVE  /\ Reached(visible', startFile[p].generation)
               /\ /\ visible'.generation = startFile[p].generation
                  /\ startFile[p].revoked
                  => visible'.revoked
    <3>1. /\ visible \in Records /\ visible' \in Records
          /\ visible'.generation >= visible.generation
          /\ visible'.generation = visible.generation /\ visible.revoked =>
                visible'.revoked
          /\ visible.generation >= startFile[p].generation
          /\ visible # Foreign
      BY <2>1, <2>2, RenameAdvances DEF Reached
    <3>2. /\ visible.generation \in Nat /\ visible'.generation \in Nat
          /\ startFile[p].generation \in Nat
      BY <2>1, <3>1 DEF Records
    <3> QED
      BY <2>1, <3>1, <3>2 DEF Reached
  <2> QED
    BY <2>1, <2>2, StoreMoves DEF Reached
<1> QED
  BY <1>1, <1>2

LEMMA PublishedStep == WriteInv /\ Published /\ [Next]_vars => Published'
<1> SUFFICES ASSUME WriteInv, Published, [Next]_vars PROVE Published'
  OBVIOUS
<1>0. /\ TypeOK /\ LockHeld
      /\ pc \in [Processes -> Pcs] /\ pending \in [Processes -> PendingFiles]
      /\ NoProcess \notin Processes
  BY StoreAssumption DEF WriteInv, TypeOK
<1> USE DEF Published, Goto, Return, Forget, storeVars, envVars, localVars
<1>1. ASSUME NEW p \in Processes, LaunchResolve(p) \/ LaunchPut(p) PROVE Published'
  BY <1>0, <1>1 DEF LaunchResolve, LaunchPut, Launch
<1>2. ASSUME NEW p \in Processes,
             \/ Outside(p) \/ ReadLocked(p) \/ Review(p) \/ Fetch(p) \/ KeepFailure(p)
             \/ KeepSuccess(p) \/ WriteTemporary(p) \/ SyncTemporary(p)
             \/ SyncDirectory(p) \/ WriteFails(p)
      PROVE  Published'
  <2>1. /\ UNCHANGED visible /\ pc'[p] # "dirsync"
        /\ \A q \in Processes \ {p} : UNCHANGED <<pc[q], pending[q]>>
    <3>1. CASE Outside(p)
      BY <1>0, <3>1, OutsideFrame DEF IdlePcs, UnlockedPcs
    <3>2. CASE ReadLocked(p) \/ Review(p) \/ Fetch(p) \/ KeepFailure(p) \/ KeepSuccess(p)
      BY <1>0, <3>2 DEF ReadLocked, Review, Fetch, KeepFailure, KeepSuccess
    <3>3. CASE WriteTemporary(p) \/ SyncTemporary(p) \/ SyncDirectory(p) \/ WriteFails(p)
      BY <1>0, <3>3 DEF WriteTemporary, SyncTemporary, SyncDirectory, WriteFails
    <3> QED
      BY <1>2, <3>1, <3>2, <3>3
  <2> QED
    BY <2>1
<1>3. ASSUME NEW p \in Processes, Rename(p) PROVE Published'
  <2>1. \A q \in Processes \ {p} : pc[q] # "dirsync"
    BY <1>0, <1>3 DEF Rename, LockHeld, LockedPcs
  <2> QED
    BY <1>0, <1>3, <2>1 DEF Rename
<1>4. CASE ForeignWrite
  <2>1. \A q \in Processes : pc[q] # "dirsync"
    BY <1>0, <1>4 DEF ForeignWrite, LockHeld, LockedPcs
  <2> QED
    BY <1>4, <2>1 DEF ForeignWrite
<1>5. CASE PowerLoss
  BY <1>5 DEF PowerLoss
<1>6. CASE WriteBack \/ Tick \/ SetClockBack \/ Quiescent \/ UNCHANGED vars
  BY <1>6 DEF WriteBack, Tick, SetClockBack, Quiescent, vars
<1> QED
  BY <1>1, <1>2, <1>3, <1>4, <1>5, <1>6, StepKinds DEF Environment

LEMMA HistoryInvariant ==
    ASSUME "read" \notin Faults
    PROVE  Spec => []HistoryInv
<1>1. Init => Accounted /\ Origin /\ Descends /\ Published
  <2> SUFFICES ASSUME Init PROVE Accounted /\ Origin /\ Descends /\ Published
    OBVIOUS
  <2>1. \A p \in Processes : pc[p] = "idle" /\ startFile[p] = NoFile
    BY DEF Init
  <2>2. NoFile \notin Records
    BY FileAssumption
  <2> QED
    BY <2>1, <2>2 DEF Accounted, Writing, Origin, Whole, Remembering, Descends,
       IdlePcs, Published
<1>2. WriteInv => TypeOK
  BY DEF WriteInv
<1>3. HistoryInv /\ WriteInv' /\ ViewIsCurrent' /\ [Next]_vars => HistoryInv'
  BY <1>2, AccountedStep, OriginStep, DescendsStep, PublishedStep DEF HistoryInv
<1> QED
  BY <1>1, <1>3, WriteInvariant, LockedViewIsCurrent, PTL DEF Spec, HistoryInv

----------------------------------------------------------------------------
(* Answers *)

\* An answer made before the lock or under it is of the snapshot at launch or
\* of the one there now.
LEMMA SourceIsSnapshot ==
    ASSUME HistoryInv, NEW p \in Processes, AnswersFresh(p) \/ AnswersStale(p)
    PROVE  /\ pc[p] \notin IdlePcs
           /\ \/ /\ pc[p] = "consult"
                 /\ startFile[p] \in Records => Source(p).record = startFile[p]
              \/ visible \in Records /\ Source(p).record = visible
<1>0. TypeOK /\ Provenance /\ visible \in Files /\ startFile[p] \in Files
      /\ pending[p].record \in Records /\ Whole(startFile[p])
  BY DEF HistoryInv, WriteInv, TypeOK, PendingFiles, Origin
<1>1. pc[p] \in {"consult", "review", "dirsync"}
  BY DEF AnswersFresh, AnswersStale
<1>2. CASE pc[p] = "consult"
  <2>1. request[p].op = "resolve" /\ Source(p) = initial[p]
    BY <1>0, <1>2 DEF Provenance, Source
  <2>2. initial[p] = ReadRecord(startFile[p])
    BY <1>2, <2>1 DEF HistoryInv, Origin, Remembering
  <2> QED
    BY <1>0, <1>2, <2>1, <2>2, ReadRecordValue DEF Whole, IdlePcs
<1>3. CASE pc[p] = "review"
  <2>1. Source(p) = ReadRecord(visible)
    BY <1>3 DEF Source, HistoryInv, ViewIsCurrent, HoldingView
  <2>2. Source(p).state = "supported"
    BY <1>3 DEF AnswersFresh, AnswersStale, Eligible, HasObservation
  <2> QED
    BY <1>0, <1>3, <2>1, <2>2, ReadRecordValue DEF IdlePcs
<1>4. CASE pc[p] = "dirsync"
  BY <1>0, <1>4 DEF HistoryInv, Published, Source, IdlePcs
<1> QED
  BY <1>1, <1>2, <1>3, <1>4

\* An answer beside the store or of a success is not from the cache.
LEMMA LiveIsNotCached ==
    ASSUME NEW p \in Processes, AnswersUnstored(p) \/ AnswersStored(p)
    PROVE  /\ ~result'[p].fromCache
           /\ AnswersUnstored(p) => result'[p].generation = 0
<1>1. CASE AnswersUnstored(p)
  BY <1>1 DEF AnswersUnstored, Live
<1>2. CASE AnswersStored(p) /\ ~AnswersUnstored(p)
  <2>1. \E o, g : result'[p] = Live(o, g, FALSE)
    BY <1>2 DEF AnswersStored
  <2> QED
    BY <1>2, <2>1 DEF Live
<1> QED
  BY <1>1, <1>2

AllNewer ==
    \A p \in Processes :
        /\ result[p].observation # NoObservation
        /\ request[p].policy.refresh /\ result[p].fromCache
        /\ result[p].observation.freshness = "fresh"
        /\ startFile[p] \in Records
        => result[p].generation # startFile[p].generation

\* A forced refresh that was answered by another process's refresh was
\* answered by one that came after its launch.
THEOREM ForcedRefreshIsNewer ==
    ASSUME "read" \notin Faults
    PROVE  Spec => []RefreshIsNewer
<1>1. Init => AllNewer
  BY DEF Init, AllNewer, NoResult, Failed
<1>2. HistoryInv /\ AllNewer /\ [Next]_vars => AllNewer'
  <2> SUFFICES ASSUME HistoryInv, AllNewer, [Next]_vars, NEW p \in Processes,
                      result'[p].observation # NoObservation,
                      request'[p].policy.refresh, result'[p].fromCache,
                      result'[p].observation.freshness = "fresh",
                      startFile'[p] \in Records
               PROVE  result'[p].generation # startFile'[p].generation
    BY DEF AllNewer
  <2>0. TypeOK /\ Accounted /\ Provenance
    BY DEF HistoryInv, WriteInv
  <2>1. CASE Empty(result'[p])
    BY <2>1 DEF Empty
  <2>2. CASE UNCHANGED <<request[p], startFile[p], result[p]>>
    BY <2>2 DEF AllNewer
  <2>3. CASE UNCHANGED <<request[p], startFile[p]>> /\ AnswersFresh(p)
    <3>1. /\ pc[p] = "review"
          /\ Source(p).record.generation # initial[p].record.generation
      BY <2>3 DEF AnswersFresh
    <3>2. initial[p] = ReadRecord(startFile[p]) /\ Whole(startFile[p])
      BY <2>0, <3>1 DEF HistoryInv, Origin, Remembering, Provenance
    <3>3. initial[p].record = startFile[p]
      BY <2>3, <3>2, ReadRecordValue DEF Whole, Files
    <3> QED
      BY <2>0, <2>3, <3>1, <3>3, SourceObserved
  <2>4. CASE UNCHANGED <<request[p], startFile[p]>> /\ AnswersStale(p)
    <3>1. result'[p].observation.freshness = "stale"
      <4>1. result'[p] = Cached(AsStale(Source(p).record.observation),
                                Source(p).record.generation)
        BY <2>4 DEF AnswersStale
      <4> QED
        BY <2>0, <2>4, <4>1, SourceObserved, AnswerValues
    <3> QED
      BY <3>1
  <2>5. CASE AnswersUnstored(p) \/ AnswersStored(p)
    BY <2>5, LiveIsNotCached
  <2> QED
    BY <2>0, <2>1, <2>2, <2>3, <2>4, <2>5, AnswerKinds
<1>3. AllNewer => RefreshIsNewer
  BY DEF AllNewer, RefreshIsNewer, Answered
<1> QED
  BY <1>1, <1>2, <1>3, HistoryInvariant, PTL DEF Spec

NoneRevoked ==
    \A p \in Processes :
        /\ result[p].observation # NoObservation /\ result[p].fromCache
        /\ startFile[p] \in Records /\ startFile[p].revoked
        => result[p].generation # startFile[p].generation

\* Once a rejection of the credentials is recorded, the evidence it revoked is
\* never an answer again, whatever races with the process that asks.
THEOREM RevokedEvidenceIsGone ==
    ASSUME "read" \notin Faults
    PROVE  Spec => []RevokedIsNotServed
<1>1. Init => NoneRevoked
  BY DEF Init, NoneRevoked, NoResult, Failed
<1>2. HistoryInv /\ NoneRevoked /\ [Next]_vars => NoneRevoked'
  <2> SUFFICES ASSUME HistoryInv, NoneRevoked, [Next]_vars, NEW p \in Processes,
                      result'[p].observation # NoObservation, result'[p].fromCache,
                      startFile'[p] \in Records, startFile'[p].revoked
               PROVE  result'[p].generation # startFile'[p].generation
    BY DEF NoneRevoked
  <2>0. TypeOK /\ Accounted /\ Foreign \notin Records
    BY FileAssumption DEF HistoryInv, WriteInv
  <2>1. CASE Empty(result'[p])
    BY <2>1 DEF Empty
  <2>2. CASE UNCHANGED <<request[p], startFile[p], result[p]>>
    BY <2>2 DEF NoneRevoked
  <2>3. CASE UNCHANGED <<request[p], startFile[p]>> /\ (AnswersFresh(p) \/ AnswersStale(p))
    <3>1. /\ ~Source(p).record.revoked
          /\ result'[p].generation = Source(p).record.generation
      BY <2>0, <2>3, SourceObserved
    <3>2. /\ pc[p] \notin IdlePcs
          /\ Source(p).record = startFile[p] \/
             (visible \in Records /\ Source(p).record = visible)
      BY <2>3, SourceIsSnapshot
    <3>3. visible # Foreign /\ visible.generation = startFile[p].generation =>
             visible.revoked
      BY <2>3, <3>2 DEF HistoryInv, Descends
    <3> QED
      BY <2>0, <2>3, <3>1, <3>2, <3>3
  <2>4. CASE AnswersUnstored(p) \/ AnswersStored(p)
    BY <2>4, LiveIsNotCached
  <2> QED
    BY <2>0, <2>1, <2>2, <2>3, <2>4, AnswerKinds
<1>3. NoneRevoked => RevokedIsNotServed
  BY DEF NoneRevoked, RevokedIsNotServed, Answered
<1> QED
  BY <1>1, <1>2, <1>3, HistoryInvariant, PTL DEF Spec

AllDurable ==
    \A p \in Processes :
        /\ result[p].observation # NoObservation
        /\ ~result[p].fromCache /\ result[p].generation # 0
        => Reached(visible, result[p].generation) /\ Reached(durable, result[p].generation)

\* What a process returned as stored outlives every power loss: afterwards
\* the disk holds it or something later.
THEOREM StoredAnswersAreDurable ==
    ASSUME "read" \notin Faults
    PROVE  Spec => []AnsweredIsDurable
<1>1. Init => AllDurable
  BY DEF Init, AllDurable, NoResult, Failed
<1>2. HistoryInv /\ AllDurable /\ [Next]_vars => AllDurable'
  <2> SUFFICES ASSUME HistoryInv, AllDurable, [Next]_vars, NEW p \in Processes,
                      result'[p].observation # NoObservation,
                      ~result'[p].fromCache, result'[p].generation # 0
               PROVE  /\ Reached(visible', result'[p].generation)
                      /\ Reached(durable', result'[p].generation)
    BY DEF AllDurable, Reached
  <2>0. TypeOK /\ Accounted /\ WriteInv /\ ViewIsCurrent
        /\ result[p].generation \in Nat
    BY DEF HistoryInv, WriteInv, TypeOK, Results
  <2>1. CASE Empty(result'[p])
    BY <2>1 DEF Empty
  <2>2. CASE UNCHANGED result[p]
    <3>1. /\ Reached(visible, result[p].generation)
          /\ Reached(durable, result[p].generation)
      BY <2>2 DEF AllDurable
    <3>2. ASSUME NEW q \in Processes, Rename(q)
          PROVE  /\ Reached(visible', result[p].generation)
                 /\ Reached(durable', result[p].generation)
      <4>1. /\ visible # Foreign /\ visible' \in Records /\ UNCHANGED durable
            /\ visible \in Records => visible'.generation >= visible.generation
        BY <2>0, <3>2, RenameAdvances
      <4>2. \A file \in Records : file.generation \in Nat
        BY DEF Records
      <4> QED
        BY <2>0, <3>1, <4>1, <4>2 DEF Reached
    <3> QED
      BY <2>0, <2>2, <3>1, <3>2, StoreMoves DEF Reached
  <2>3. CASE AnswersFresh(p) \/ AnswersStale(p)
    BY <2>0, <2>3, SourceObserved
  <2>4. CASE AnswersUnstored(p)
    BY <2>4, LiveIsNotCached
  <2>5. CASE AnswersStored(p)
    <3>1. SyncDirectory(p) /\ pc[p] = "dirsync"
      BY <2>5 DEF AnswersStored, SyncDirectory
    <3>2. result'[p].generation = pending[p].record.generation
      <4>1. result'[p] = Live(fetched[p].observation, pending[p].record.generation, FALSE)
        BY <2>5 DEF AnswersStored
      <4> QED
        BY <4>1 DEF Live
    <3>3. visible = pending[p].record
      BY <3>1 DEF HistoryInv, Published
    <3>4. visible' = visible /\ durable' = visible
      BY <2>0, <3>1 DEF SyncDirectory, OnDisk, WriteInv, Synced
    <3>5. visible \in Records /\ visible.generation \in Nat
      BY <2>0, <3>3 DEF TypeOK, PendingFiles, Records
    <3> QED
      BY <3>2, <3>3, <3>4, <3>5 DEF Reached
  <2> QED
    BY <2>0, <2>1, <2>2, <2>3, <2>4, <2>5, AnswerKinds
<1>3. AllDurable => AnsweredIsDurable
  BY DEF AllDurable, AnsweredIsDurable, Answered, Reached
<1> QED
  BY <1>1, <1>2, <1>3, HistoryInvariant, PTL DEF Spec

----------------------------------------------------------------------------
(* Fetches *)

\* Only the review leads to the provider.
LEMMA FetchIsReviewed ==
    ASSUME TypeOK, [Next]_vars, NEW p \in Processes,
           pc[p] # "fetching", pc'[p] = "fetching"
    PROVE  Review(p)
<1>0. pc \in [Processes -> Pcs]
  BY DEF TypeOK
<1> USE DEF Goto, Return
<1>1. ASSUME NEW q \in Processes, LaunchResolve(q) \/ LaunchPut(q)
      PROVE  Review(p)
  BY <1>0, <1>1 DEF LaunchResolve, LaunchPut
<1>2. ASSUME NEW q \in Processes, Outside(q)
      PROVE  Review(p)
  BY <1>0, <1>2, OutsideFrame DEF IdlePcs, UnlockedPcs
<1>3. ASSUME NEW q \in Processes,
             ReadLocked(q) \/ Fetch(q) \/ KeepFailure(q) \/ KeepSuccess(q)
      PROVE  Review(p)
  BY <1>0, <1>3 DEF ReadLocked, Fetch, KeepFailure, KeepSuccess
<1>4. ASSUME NEW q \in Processes,
             \/ WriteTemporary(q) \/ SyncTemporary(q) \/ Rename(q)
             \/ SyncDirectory(q) \/ WriteFails(q)
      PROVE  Review(p)
  BY <1>0, <1>4 DEF WriteTemporary, SyncTemporary, Rename, SyncDirectory, WriteFails
<1>5. ASSUME NEW q \in Processes, Review(q)
      PROVE  Review(p)
  <2>1. \A r \in Processes \ {q} : UNCHANGED pc[r]
    BY <1>0, <1>5 DEF Review
  <2> QED
    BY <1>5, <2>1
<1>6. CASE Environment \/ UNCHANGED vars
  BY <1>6, EnvironmentFrame DEF IdlePcs
<1> QED
  BY <1>1, <1>2, <1>3, <1>4, <1>5, <1>6, StepKinds

\* A provider is called only for a binding that is not backed off and whose
\* record, at that very moment, does not answer the request.
THEOREM FetchesAreNeeded ==
    ASSUME "read" \notin Faults
    PROVE  Spec => NoNeedlessFetch
<1> DEFINE Step == \A p \in Processes :
          pc[p] # "fetching" /\ pc'[p] = "fetching" =>
             /\ ~BackedOff(ReadRecord(visible), clock)
             /\ ~ /\ Eligible(ReadRecord(visible), request[p].account,
                              request[p].policy.maxAge, clock)
                  /\ request[p].policy.refresh =>
                        visible.generation #
                            ReadRecord(startFile[p]).record.generation
<1>1. HistoryInv /\ [Next]_vars => [Step]_vars
  <2> SUFFICES ASSUME HistoryInv, [Next]_vars, NEW p \in Processes,
                      pc[p] # "fetching", pc'[p] = "fetching"
               PROVE  /\ ~BackedOff(ReadRecord(visible), clock)
                      /\ ~ /\ Eligible(ReadRecord(visible), request[p].account,
                                       request[p].policy.maxAge, clock)
                           /\ request[p].policy.refresh =>
                                 visible.generation #
                                     ReadRecord(startFile[p]).record.generation
    OBVIOUS
  <2>1. Review(p) /\ TypeOK /\ Provenance /\ visible \in Files
    BY FetchIsReviewed DEF HistoryInv, WriteInv, TypeOK
  <2>2. pc[p] = "review"
    BY <2>1 DEF Review
  <2>3. /\ ~BackedOff(current[p], clock)
        /\ ~Reusable(initial[p], current[p], request[p].account,
                     request[p].policy, clock)
    BY <2>1, <2>2 DEF Review, Return, Goto, TypeOK
  <2>4. current[p] = ReadRecord(visible)
    BY <2>2 DEF HistoryInv, ViewIsCurrent, HoldingView
  <2>5. initial[p] = ReadRecord(startFile[p])
    BY <2>1, <2>2 DEF HistoryInv, Origin, Remembering, Provenance
  <2>6. Eligible(ReadRecord(visible), request[p].account,
                 request[p].policy.maxAge, clock)
          => ReadRecord(visible).record = visible
    BY <2>1, ReadRecordValue DEF Eligible, HasObservation
  <2> QED
    BY <2>3, <2>4, <2>5, <2>6 DEF Reusable
<1> QED
  BY <1>1, HistoryInvariant, PTL DEF Spec, NoNeedlessFetch

----------------------------------------------------------------------------
(* Rejections *)

Rejections == {"revoked", "account_mismatch"}

\* A rejection is on its way to the snapshot until the process lets go of it.
RejectionKept ==
    \A p \in Processes :
        fetched[p].failure \in Rejections =>
            /\ pc[p] \in {"fetched", "dirsync", "unlock"} \cup Writing
            /\ pc[p] \in Writing \cup {"dirsync"} => pending[p].record.revoked

LEMMA RejectionStep == WriteInv /\ RejectionKept /\ [Next]_vars => RejectionKept'
<1> SUFFICES ASSUME WriteInv, RejectionKept, [Next]_vars PROVE RejectionKept'
  OBVIOUS
<1>0. /\ pc \in [Processes -> Pcs] /\ pending \in [Processes -> PendingFiles]
      /\ fetched \in [Processes -> Fetches] /\ TypeOK
  BY DEF WriteInv, TypeOK
<1> USE DEF RejectionKept, Rejections, Writing, Goto, Return, Forget, storeVars,
            envVars, localVars
<1>1. ASSUME NEW p \in Processes, LaunchResolve(p) PROVE RejectionKept'
  <2>1. UNCHANGED <<fetched, visible, pending>> /\ pc[p] \in {"idle", "done"}
        /\ \A q \in Processes \ {p} : UNCHANGED pc[q]
    BY <1>0, <1>1 DEF LaunchResolve, Launch, IdlePcs
  <2> QED
    BY <2>1
<1>2. ASSUME NEW p \in Processes, LaunchPut(p) PROVE RejectionKept'
  <2>1. UNCHANGED <<visible, pending>> /\ fetched'[p].failure = "none"
        /\ \A q \in Processes \ {p} : UNCHANGED <<pc[q], fetched[q]>>
    <3>1. PICK r \in Requests, fetch \in FetchOutcomes, age \in {0, 1} :
             /\ fetch.failure = "none" /\ Launch(p, r) /\ Goto(p, "prepare")
             /\ fetched' = [fetched EXCEPT ![p] =
                              [fetch EXCEPT !.observation.at = clock - age]]
      BY <1>2 DEF LaunchPut
    <3>2. fetch \in Fetches
      BY <1>0, <3>1, FetchOutcomesType DEF TypeOK
    <3> QED
      BY <1>0, <3>1, <3>2 DEF Launch, Fetches
  <2> QED
    BY <2>1
<1>3. ASSUME NEW p \in Processes, Outside(p) PROVE RejectionKept'
  <2>1. /\ UNCHANGED visible
        /\ UNCHANGED <<fetched, pending>> \/ fetched'[p] = NoFetch
        /\ \A q \in Processes \ {p} : UNCHANGED <<pc[q], fetched[q], pending[q]>>
    BY <1>0, <1>3, OutsideFrame
  <2>2. UNCHANGED fetched => fetched[p].failure \notin Rejections
    <3>1. CASE Unlock(p) \/ Crash(p)
      <4>1. fetched'[p] = NoFetch
        BY <1>0, <3>1 DEF Unlock, Crash
      <4> QED
        BY <4>1 DEF NoFetch
    <3>2. CASE \/ Consult(p) \/ OpenLock(p) \/ LockUnusable(p) \/ Contended(p)
               \/ Acquire(p) \/ GiveUp(p) \/ CollectLive(p)
      BY <3>2 DEF Consult, OpenLock, LockUnusable, Contended, Acquire, GiveUp,
         CollectLive
    <3> QED
      BY <1>3, <3>1, <3>2 DEF Outside
  <2>3. fetched'[p].failure \notin Rejections
    BY <2>1, <2>2 DEF NoFetch
  <2> QED
    BY <2>1, <2>3
<1>4. ASSUME NEW p \in Processes, ReadLocked(p) \/ Review(p) \/ Fetch(p)
      PROVE  RejectionKept'
  <2>1. /\ UNCHANGED <<visible, pending>>
        /\ \A q \in Processes \ {p} : UNCHANGED <<pc[q], fetched[q]>>
        /\ UNCHANGED fetched \/ pc'[p] = "fetched"
        /\ pc[p] \notin {"fetched", "dirsync", "unlock"} \cup Writing
    BY <1>0, <1>4 DEF ReadLocked, Review, Fetch
  <2> QED
    BY <2>1
<1>5. ASSUME NEW p \in Processes, KeepFailure(p) PROVE RejectionKept'
  <2>1. UNCHANGED <<visible, fetched>>
        /\ \A q \in Processes \ {p} : UNCHANGED <<pc[q], pending[q]>>
    BY <1>0, <1>5 DEF KeepFailure
  <2>2. CASE current[p].state = "unknown"
    <3>1. pc'[p] = "unlock"
      BY <1>0, <1>5, <2>2 DEF KeepFailure
    <3> QED
      BY <2>1, <3>1
  <2>3. CASE current[p].state # "unknown"
    <3> DEFINE written == FailureRecord(current[p], fetched[p].failure,
                                        fetched[p].retryAt, clock)
    <3>1. fetched[p].failure \in Rejections => written.revoked
      <4>1. BaseRecord(current[p]) \in Records
        BY <1>0, BaseRecordType DEF TypeOK
      <4> QED
        BY <4>1 DEF FailureRecord, Records
    <3>2. pc'[p] = "write" /\ pending' = [pending EXCEPT ![p].record = written]
      BY <1>0, <1>5, <2>3 DEF KeepFailure
    <3> HIDE DEF written
    <3>3. pending'[p].record = written
      BY <1>0, <3>2 DEF PendingFiles
    <3> QED
      BY <2>1, <3>1, <3>2, <3>3
  <2> QED
    BY <2>2, <2>3
<1>6. ASSUME NEW p \in Processes, KeepSuccess(p) PROVE RejectionKept'
  <2>1. /\ UNCHANGED <<visible, fetched>> /\ fetched[p].failure = "none"
        /\ \A q \in Processes \ {p} : UNCHANGED <<pc[q], pending[q]>>
    BY <1>0, <1>6 DEF KeepSuccess
  <2> QED
    BY <2>1
<1>7. ASSUME NEW p \in Processes, WriteTemporary(p) \/ SyncTemporary(p)
      PROVE  RejectionKept'
  <2>1. /\ UNCHANGED <<visible, fetched>>
        /\ pc[p] \in Writing /\ pc'[p] \in Writing
        /\ pending'[p].record = pending[p].record
        /\ \A q \in Processes \ {p} : UNCHANGED <<pc[q], pending[q]>>
    BY <1>0, <1>7 DEF WriteTemporary, SyncTemporary, PendingFiles
  <2> QED
    BY <2>1
<1>8. ASSUME NEW p \in Processes, Rename(p) PROVE RejectionKept'
  <2>1. /\ UNCHANGED <<fetched, pending>> /\ pc[p] = "rename" /\ pc'[p] = "dirsync"
        /\ \A q \in Processes \ {p} : UNCHANGED pc[q]
    BY <1>0, <1>8 DEF Rename
  <2> QED
    BY <2>1
<1>9. ASSUME NEW p \in Processes, SyncDirectory(p) \/ WriteFails(p)
      PROVE  RejectionKept'
  <2>1. /\ UNCHANGED <<fetched, pending>> /\ pc'[p] = "unlock"
        /\ \A q \in Processes \ {p} : UNCHANGED pc[q]
    BY <1>0, <1>9 DEF SyncDirectory, WriteFails
  <2>2. pc[p] \in {"dirsync"} \cup Writing
    BY <1>9 DEF SyncDirectory, WriteFails
  <2> QED
    BY <2>1, <2>2
<1>10. CASE Environment \/ UNCHANGED vars
  <2>1. \/ UNCHANGED <<pc, fetched, pending>>
        \/ fetched' = [p \in Processes |-> NoFetch]
    BY <1>10, EnvironmentFrame
  <2> QED
    BY <2>1 DEF NoFetch
<1> QED
  BY <1>1, <1>2, <1>3, <1>4, <1>5, <1>6, <1>7, <1>8, <1>9, <1>10, StepKinds

\* A process that was told its credentials are rejected, or belong to another
\* account, answers so, whichever call of its write fails; and the snapshot
\* is revoked before the next process can take the lock unless that write
\* failed before its rename.
THEOREM RejectionsAreRecorded ==
    ASSUME "read" \notin Faults
    PROVE  Spec => RevocationIsRecorded
<1> DEFINE Recorded(p) ==
          /\ result'[p].observation = NoObservation
          /\ \/ pc[p] \in {"write", "sync", "rename"}
             \/ visible = Foreign
             \/ visible.revoked
<1> DEFINE Step == \A p \in Processes :
          /\ pc[p] # "unlock" /\ pc'[p] = "unlock"
          /\ fetched[p].failure \in {"revoked", "account_mismatch"}
          => Recorded(p)
<1>1. Init => RejectionKept
  BY DEF Init, RejectionKept, Rejections, NoFetch
<1>2. HistoryInv /\ RejectionKept /\ [Next]_vars => [Step]_vars
  <2> SUFFICES ASSUME HistoryInv, RejectionKept, [Next]_vars, NEW p \in Processes,
                      pc[p] # "unlock", pc'[p] = "unlock",
                      fetched[p].failure \in Rejections
               PROVE  Recorded(p)
    BY DEF Rejections
  <2>0. /\ TypeOK /\ pc \in [Processes -> Pcs] /\ result \in [Processes -> Results]
        /\ \A error : Failed(error).observation = NoObservation
    BY DEF HistoryInv, WriteInv, TypeOK, Failed
  <2>1. /\ pc[p] \in {"fetched", "dirsync", "unlock"} \cup Writing
        /\ pc[p] \in Writing \cup {"dirsync"} => pending[p].record.revoked
        /\ pc[p] = "dirsync" => visible = pending[p].record
    BY DEF RejectionKept, HistoryInv, Published
  <2> HIDE DEF Recorded
  <2>2. CASE KeepFailure(p)
    <3>1. /\ pc[p] = "fetched" /\ current[p].state = "unknown"
          /\ result' = [result EXCEPT ![p] = Failed("fetch")]
      BY <2>0, <2>2 DEF KeepFailure, Goto, Return
    <3>2. visible = Foreign
      BY <2>0, <3>1, ReadRecordValue DEF HistoryInv, ViewIsCurrent, HoldingView, TypeOK
    <3> QED
      BY <2>0, <3>1, <3>2 DEF Recorded
  <2>3. CASE SyncDirectory(p)
    <3>1. /\ pc[p] = "dirsync"
          /\ result' = [result EXCEPT ![p] = StoredAnswer(p)]
      BY <2>3 DEF SyncDirectory, Return
    <3>2. StoredAnswer(p) = Failed("fetch")
      BY <2>1, <3>1 DEF StoredAnswer, StaleAllowed, Rejections
    <3> QED
      BY <2>0, <2>1, <3>1, <3>2 DEF Recorded
  <2>4. CASE WriteFails(p)
    <3>1. /\ pc[p] \in {"write", "sync", "rename", "dirsync"}
          /\ result' = [result EXCEPT ![p] = UnstoredAnswer(p)]
      BY <2>4 DEF WriteFails, Return
    <3>2. UnstoredAnswer(p) \in {Failed("store"), Failed("fetch")}
      BY DEF UnstoredAnswer, Rejections
    <3> QED
      BY <2>0, <2>1, <3>1, <3>2 DEF Recorded
  <2>5. ASSUME NEW q \in Processes, Outside(q) PROVE FALSE
    <3>1. PICK label \in IdlePcs \cup UnlockedPcs \cup {"locked"} : Goto(q, label)
      BY <2>0, <2>5, OutsideFrame
    <3> QED
      BY <2>0, <3>1 DEF Goto, IdlePcs, UnlockedPcs
  <2>6. ASSUME NEW q \in Processes,
               \/ LaunchResolve(q) \/ LaunchPut(q) \/ ReadLocked(q) \/ Review(q)
               \/ Fetch(q) \/ KeepSuccess(q) \/ WriteTemporary(q)
               \/ SyncTemporary(q) \/ Rename(q)
        PROVE  FALSE
    BY <2>0, <2>1, <2>6
    DEF LaunchResolve, LaunchPut, Launch, ReadLocked, Review, Fetch, KeepSuccess,
        WriteTemporary, SyncTemporary, Rename, Goto, Return, Rejections, Writing
  <2>7. ASSUME NEW q \in Processes, q # p,
               KeepFailure(q) \/ SyncDirectory(q) \/ WriteFails(q)
        PROVE  FALSE
    BY <2>0, <2>7 DEF KeepFailure, SyncDirectory, WriteFails, Goto, Return
  <2>8. CASE Environment \/ UNCHANGED vars
    <3>1. UNCHANGED pc \/ pc' \in [Processes -> IdlePcs]
      BY <2>8, EnvironmentFrame
    <3> QED
      BY <3>1 DEF IdlePcs
  <2> QED
    BY <2>2, <2>3, <2>4, <2>5, <2>6, <2>7, <2>8, StepKinds
<1>3. HistoryInv /\ RejectionKept /\ [Next]_vars => RejectionKept'
  BY RejectionStep DEF HistoryInv
<1>4. Spec => []HistoryInv
  BY HistoryInvariant
<1> QED
  BY <1>1, <1>2, <1>3, <1>4, PTL DEF Spec, RevocationIsRecorded
=============================================================================
