------------------------- MODULE CacheRegisterProofs -------------------------
(***************************************************************************)
(* What the writes of CacheStore preserve, and that the store implements   *)
(* QuotaRegister, for any constants.                                       *)
(*                                                                         *)
(* Provenance types what a process has fetched; Drawn keeps every stored   *)
(* generation below the next one; Sound makes every record, on disk or on  *)
(* its way there, one that readRecord accepts; WritesAllowed relates the   *)
(* record being written to the one read under the lock.  With              *)
(* ViewIsCurrent the latter is the one being replaced.                     *)
(***************************************************************************)
EXTENDS CacheStoreProofs

\* The record may replace what was loaded.
Replaces(record, loaded) ==
    LET old == BaseRecord(loaded) IN
    /\ loaded.state # "unknown"
    /\ record.lastFailure = "none" =>
          /\ record.generation > old.generation
          /\ old.observation # NoObservation =>
                /\ record.observation # NoObservation
                /\ record.observation.at >= old.observation.at
    /\ record.lastFailure # "none" =>
          /\ record.generation = old.generation
          /\ record.observation = old.observation
          /\ old.revoked => record.revoked

Writing == {"write", "sync", "rename"}

Provenance ==
    \A p \in Processes :
        /\ pc[p] \in {"consult", "review", "fetching"} =>
              request[p].op = "resolve"
        /\ /\ \/ pc[p] = "fetched"
              \/ /\ request[p].op = "put"
                 /\ pc[p] \in {"prepare", "contend", "wait", "locked"}
           /\ fetched[p].failure = "none"
           => fetched[p].observation \in Observations

Drawn ==
    /\ \A file \in {visible, durable} :
          file \in Records => file.generation < nextGeneration
    /\ \A p \in Processes :
          /\ current[p].record.generation < nextGeneration
          /\ pending[p].record.generation < nextGeneration

\* A file that readRecord does not find corrupt.
Whole(file) == file \in Records => ValidRecord(file)

Sound ==
    /\ Whole(visible) /\ Whole(durable)
    /\ \A p \in Processes :
          /\ current[p].state = "supported" => ValidRecord(current[p].record)
          /\ pc[p] \in Writing => ValidRecord(pending[p].record)

Synced ==
    /\ settled
    /\ \A p \in Processes : pc[p] = "rename" => pending[p].synced

WritesAllowed ==
    \A p \in Processes :
        pc[p] \in Writing => Replaces(pending[p].record, current[p])

----------------------------------------------------------------------------
(* Facts about the operators *)

\* A supported record is the file itself and passed the readback rules.
LEMMA ReadRecordValue ==
    ASSUME NEW file \in Files
    PROVE  /\ ReadRecord(file).state = "supported" =>
                 /\ file \in Records /\ ValidRecord(file)
                 /\ ReadRecord(file).record = file
           /\ ReadRecord(file).state # "supported" =>
                 ReadRecord(file).record = EmptyRecord
           /\ ReadRecord(file).state = "unknown" <=> file = Foreign
           /\ file \in Records /\ ValidRecord(file) =>
                 ReadRecord(file).state = "supported"
           /\ file # Garbage /\ Whole(file) =>
                 ReadRecord(file).state # "corrupt"
<1>1. CASE file = NoFile
  BY <1>1, FileAssumption DEF ReadRecord, Loaded, Whole
<1>2. CASE file = Garbage
  BY <1>2, FileAssumption DEF ReadRecord, Loaded, Whole
<1>3. CASE file = Foreign
  BY <1>3, FileAssumption DEF ReadRecord, Loaded, Whole
<1>4. CASE file \in Records
  <2>1. file # NoFile /\ file # Garbage /\ file # Foreign
    BY <1>4, FileAssumption
  <2>2. ReadRecord(file) = IF ValidRecord(file)
                              THEN [state |-> "supported", record |-> file]
                              ELSE Loaded("corrupt")
    BY <2>1 DEF ReadRecord
  <2> QED
    BY <1>4, <2>1, <2>2 DEF Loaded, Whole
<1> QED
  BY <1>1, <1>2, <1>3, <1>4 DEF Files

LEMMA BaseRecordType ==
    ASSUME NEW loaded \in LoadedRecords
    PROVE  BaseRecord(loaded) \in Records
BY WrittenRecordType, DefaultsType
DEF BaseRecord, LoadedRecords, Loaded, EmptyRecord, Records, Times, NoTime, FailureKinds

\* A record written after a success is whole, and may replace any record that
\* does not refuse it and has an earlier generation.
LEMMA SuccessReplaces ==
    ASSUME NEW loaded \in LoadedRecords, NEW o \in Observations,
           NEW generation \in Nat \ {0},
           ~PutRefused(loaded, o),
           loaded.record.generation < generation
    PROVE  /\ ValidRecord(SuccessRecord(generation, o))
           /\ Replaces(SuccessRecord(generation, o), loaded)
<1> DEFINE new == SuccessRecord(generation, o)
<1>1. /\ new.generation = generation /\ new.observation = o
      /\ new.lastFailure = "none" /\ ~new.revoked
      /\ new.attemptAt = NoTime /\ new.retryAt = NoTime
  BY DEF SuccessRecord, EmptyRecord
<1>2. ValidRecord(new)
  BY <1>1, NoObservationAssumption DEF ValidRecord
<1>3. loaded.state # "unknown"
  BY DEF PutRefused
<1>4. BaseRecord(loaded).generation < generation
  BY DEF BaseRecord, EmptyRecord
<1>5. BaseRecord(loaded).observation # NoObservation =>
        o.at >= BaseRecord(loaded).observation.at
  <2> SUFFICES ASSUME BaseRecord(loaded).observation # NoObservation
               PROVE  o.at >= BaseRecord(loaded).observation.at
    OBVIOUS
  <2>1. HasObservation(loaded) /\ BaseRecord(loaded) = loaded.record
    BY DEF BaseRecord, EmptyRecord, HasObservation
  <2>2. loaded.record.observation \in Observations
    BY <2>1, AnswerObservation DEF HasObservation
  <2> QED
    BY <2>1, <2>2 DEF PutRefused, Observations
<1>6. BaseRecord(loaded).generation \in Nat
  BY BaseRecordType DEF Records
<1> HIDE DEF new
<1>7. Replaces(new, loaded)
  BY <1>1, <1>3, <1>4, <1>5, <1>6, NoObservationAssumption DEF Replaces
<1> QED
  BY <1>2, <1>7 DEF new

\* A record written after a failure is whole if the one before it was, and
\* keeps its evidence, its generation and its revocation.
LEMMA FailureReplaces ==
    ASSUME NEW loaded \in LoadedRecords, NEW kind \in FailureKinds \ {"none"},
           NEW at \in Times, NEW now \in Nat,
           loaded.state # "unknown",
           loaded.state = "supported" => ValidRecord(loaded.record)
    PROVE  /\ ValidRecord(FailureRecord(loaded, kind, at, now))
           /\ Replaces(FailureRecord(loaded, kind, at, now), loaded)
           /\ FailureRecord(loaded, kind, at, now).generation =
                 BaseRecord(loaded).generation
<1> DEFINE old == BaseRecord(loaded)
           new == FailureRecord(loaded, kind, at, now)
<1>1. old \in Records
  BY BaseRecordType
<1>2. (old.observation # NoObservation) <=> (old.generation # 0)
  BY DEF BaseRecord, EmptyRecord, ValidRecord
<1> HIDE DEF old
<1>3. /\ new.generation = old.generation /\ new.observation = old.observation
      /\ new.attemptAt = now /\ new.lastFailure = kind
      /\ old.revoked => new.revoked
      /\ kind # "transient" => new.retryAt = NoTime
  BY <1>1 DEF FailureRecord, Records, old
<1>4. now # NoTime
  BY DEF NoTime
<1> HIDE DEF new
<1>5. ValidRecord(new)
  BY <1>2, <1>3, <1>4 DEF ValidRecord
<1>6. Replaces(new, loaded)
  BY <1>3 DEF Replaces, old
<1> QED
  BY <1>3, <1>5, <1>6 DEF new, old

----------------------------------------------------------------------------
(* How each kind of step touches what a process holds *)

\* Steps of a process that neither read nor write the snapshot under the lock.
Outside(p) ==
    \/ Consult(p) \/ OpenLock(p) \/ LockUnusable(p) \/ Contended(p)
    \/ Acquire(p) \/ GiveUp(p) \/ CollectLive(p) \/ Unlock(p) \/ Crash(p)

\* A process keeps what it holds, or forgets it and stops; its request and
\* the store stay.
LEMMA OutsideFrame ==
    ASSUME TypeOK, NEW p \in Processes, Outside(p)
    PROVE  /\ UNCHANGED <<storeVars, nextGeneration, request>>
           /\ \/ UNCHANGED <<current, fetched, pending>>
              \/ Forget(p) /\ pc'[p] \in IdlePcs
           /\ \E label \in IdlePcs \cup UnlockedPcs \cup {"locked"} :
                 /\ Goto(p, label) /\ label # "consult"
                 /\ label \in {"contend", "wait", "locked"} =>
                       pc[p] \in {"prepare", "contend", "wait"}
                 /\ label = "prepare" => pc[p] = "consult"
<1> USE DEF Outside, envVars, localVars, Return, Finish, IdlePcs, UnlockedPcs
<1>0. \A label : Goto(p, label) => pc'[p] = label
  BY DEF TypeOK, Goto
<1>1. CASE Consult(p)
  BY <1>0, <1>1 DEF Consult
<1>2. CASE OpenLock(p) \/ Contended(p) \/ Acquire(p)
  BY <1>0, <1>2 DEF OpenLock, Contended, Acquire
<1>3. CASE LockUnusable(p)
  BY <1>0, <1>3 DEF LockUnusable
<1>4. CASE GiveUp(p) \/ CollectLive(p)
  BY <1>0, <1>4 DEF GiveUp, CollectLive
<1>5. CASE Unlock(p) \/ Crash(p)
  BY <1>0, <1>5 DEF Unlock, Crash
<1> QED
  BY <1>1, <1>2, <1>3, <1>4, <1>5

\* Steps of the environment leave the processes alone or stop them all.
LEMMA EnvironmentFrame ==
    ASSUME Environment \/ UNCHANGED vars
    PROVE  /\ UNCHANGED <<nextGeneration, request>>
           /\ \/ UNCHANGED <<pc, current, fetched, pending>>
              \/ /\ pc' \in [Processes -> IdlePcs]
                 /\ current' = [p \in Processes |-> Loaded("missing")]
                 /\ fetched' = [p \in Processes |-> NoFetch]
                 /\ pending' = [p \in Processes |-> NoPending]
           /\ visible' \in {visible, durable, Foreign}
           /\ durable' \in {durable, OnDisk, Foreign}
           /\ settled' \in {settled, TRUE}
<1> USE DEF storeVars, envVars, localVars, IdlePcs
<1>1. CASE PowerLoss
  BY <1>1 DEF PowerLoss
<1>2. CASE WriteBack \/ ForeignWrite
  BY <1>2 DEF WriteBack, ForeignWrite
<1>3. CASE Tick \/ SetClockBack
  BY <1>3 DEF Tick, SetClockBack
<1>4. CASE Quiescent \/ UNCHANGED vars
  BY <1>4 DEF Quiescent, vars
<1> QED
  BY <1>1, <1>2, <1>3, <1>4 DEF Environment

\* The kinds of steps.
LEMMA StepKinds ==
    ASSUME [Next]_vars
    PROVE  \/ \E p \in Processes :
                 \/ LaunchResolve(p) \/ LaunchPut(p) \/ Outside(p)
                 \/ ReadLocked(p) \/ Review(p) \/ Fetch(p) \/ KeepFailure(p)
                 \/ KeepSuccess(p) \/ WriteTemporary(p) \/ SyncTemporary(p)
                 \/ Rename(p) \/ SyncDirectory(p) \/ WriteFails(p)
           \/ Environment \/ UNCHANGED vars
BY DEF Next, Progress, Outside

----------------------------------------------------------------------------
(* The conjuncts of the invariant, one step lemma each *)

LEMMA ProvenanceStep == TypeOK /\ Provenance /\ [Next]_vars => Provenance'
<1> SUFFICES ASSUME TypeOK, Provenance, [Next]_vars PROVE Provenance'
  OBVIOUS
<1> USE DEF TypeOK, Provenance, Goto, Return, Forget, storeVars, envVars, localVars
<1>1. ASSUME NEW p \in Processes, LaunchResolve(p) PROVE Provenance'
  BY <1>1 DEF LaunchResolve, Launch
<1>2. ASSUME NEW p \in Processes, LaunchPut(p) PROVE Provenance'
  <2>1. PICK r \in Requests, fetch \in FetchOutcomes, age \in {0, 1} :
           /\ fetch.failure = "none" /\ age <= clock
           /\ Launch(p, r) /\ Goto(p, "prepare")
           /\ fetched' = [fetched EXCEPT ![p] =
                            [fetch EXCEPT !.observation.at = clock - age]]
           /\ UNCHANGED initial
    BY <1>2 DEF LaunchPut
  <2>2. fetch \in Fetches /\ fetch.observation \in Observations
    BY <2>1, FetchOutcomesType
  <2>3. [fetch.observation EXCEPT !.at = clock - age] \in Observations
    BY <2>1, <2>2 DEF Observations
  <2>4. fetched'[p].observation \in Observations
    BY <2>1, <2>2, <2>3 DEF Fetches
  <2>5. pc'[p] = "prepare"
    BY <2>1
  <2>6. ASSUME NEW q \in Processes, q # p
        PROVE  UNCHANGED <<pc[q], request[q], fetched[q]>>
    BY <2>1, <2>6 DEF Launch
  <2> QED
    BY <2>4, <2>5, <2>6
<1>3. ASSUME NEW p \in Processes, Outside(p) PROVE Provenance'
  <2>1. PICK label \in IdlePcs \cup UnlockedPcs \cup {"locked"} :
           /\ Goto(p, label) /\ label # "consult"
           /\ label \in {"contend", "wait", "locked"} =>
                 pc[p] \in {"prepare", "contend", "wait"}
           /\ label = "prepare" => pc[p] = "consult"
    BY <1>3, OutsideFrame
  <2>2. /\ UNCHANGED request
        /\ UNCHANGED fetched \/ fetched' = [fetched EXCEPT ![p] = NoFetch]
        /\ UNCHANGED fetched \/ pc'[p] \in {"idle", "done"}
    BY <1>3, OutsideFrame DEF IdlePcs
  <2>3. ASSUME NEW q \in Processes, q # p
        PROVE  UNCHANGED <<pc[q], request[q], fetched[q]>>
    BY <2>1, <2>2, <2>3
  <2>4. pc'[p] = label /\ label \notin {"review", "fetching", "fetched"}
    BY <2>1 DEF IdlePcs, UnlockedPcs
  <2> QED
    BY <2>1, <2>2, <2>3, <2>4
<1>4. ASSUME NEW p \in Processes, ReadLocked(p) PROVE Provenance'
  BY <1>4 DEF ReadLocked, AllRequests
<1>5. ASSUME NEW p \in Processes, Review(p) PROVE Provenance'
  BY <1>5 DEF Review
<1>6. ASSUME NEW p \in Processes, Fetch(p) PROVE Provenance'
  BY <1>6, FetchOutcomesType DEF Fetch
<1>7. ASSUME NEW p \in Processes, KeepFailure(p) \/ KeepSuccess(p)
      PROVE  Provenance'
  BY <1>7 DEF KeepFailure, KeepSuccess
<1>8. ASSUME NEW p \in Processes,
             \/ WriteTemporary(p) \/ SyncTemporary(p) \/ Rename(p)
             \/ SyncDirectory(p) \/ WriteFails(p)
      PROVE  Provenance'
  BY <1>8 DEF WriteTemporary, SyncTemporary, Rename, SyncDirectory, WriteFails
<1>9. CASE Environment \/ UNCHANGED vars
  BY <1>9, EnvironmentFrame DEF IdlePcs
<1> QED
  BY <1>1, <1>2, <1>3, <1>4, <1>5, <1>6, <1>7, <1>8, <1>9, StepKinds

LEMMA SyncedStep == TypeOK /\ Synced /\ [Next]_vars => Synced'
<1> SUFFICES ASSUME TypeOK, Synced, [Next]_vars PROVE Synced'
  OBVIOUS
<1> USE DEF TypeOK, Synced, Goto, Return, Forget, storeVars, envVars, localVars
<1>1. ASSUME NEW p \in Processes, LaunchResolve(p) \/ LaunchPut(p) PROVE Synced'
  BY <1>1 DEF LaunchResolve, LaunchPut, Launch
<1>2. ASSUME NEW p \in Processes, Outside(p) PROVE Synced'
  BY <1>2, OutsideFrame DEF IdlePcs, UnlockedPcs
<1>3. ASSUME NEW p \in Processes, ReadLocked(p) \/ Review(p) \/ Fetch(p)
      PROVE  Synced'
  BY <1>3 DEF ReadLocked, Review, Fetch
<1>4. ASSUME NEW p \in Processes, KeepFailure(p) \/ KeepSuccess(p)
      PROVE  Synced'
  BY <1>4 DEF KeepFailure, KeepSuccess
<1>5. ASSUME NEW p \in Processes, WriteTemporary(p) \/ SyncTemporary(p)
      PROVE  Synced'
  BY <1>5 DEF WriteTemporary, SyncTemporary, PendingFiles
<1>6. ASSUME NEW p \in Processes, Rename(p) \/ SyncDirectory(p) \/ WriteFails(p)
      PROVE  Synced'
  BY <1>6 DEF Rename, SyncDirectory, WriteFails
<1>7. CASE Environment \/ UNCHANGED vars
  BY <1>7, EnvironmentFrame DEF IdlePcs
<1> QED
  BY <1>1, <1>2, <1>3, <1>4, <1>5, <1>6, <1>7, StepKinds

\* No generation on disk or in memory is drawn a second time.
LEMMA DrawnStep == TypeOK /\ Drawn /\ [Next]_vars => Drawn'
<1> SUFFICES ASSUME TypeOK, Drawn, [Next]_vars PROVE Drawn'
  OBVIOUS
<1>0. /\ nextGeneration \in Nat \ {0}
      /\ \A p \in Processes :
            /\ current[p] \in LoadedRecords /\ pending[p] \in PendingFiles
            /\ current[p].record.generation \in Nat
            /\ pending[p].record.generation \in Nat
      /\ current \in [Processes -> LoadedRecords]
      /\ pending \in [Processes -> PendingFiles]
  BY DEF TypeOK, LoadedRecords, PendingFiles, Records
<1>1. /\ Loaded("missing").record.generation < nextGeneration
      /\ NoPending.record.generation < nextGeneration
  BY <1>0 DEF Loaded, NoPending, EmptyRecord
<1> USE DEF Drawn, Goto, Return, Forget, storeVars, envVars, localVars
<1>2. ASSUME NEW p \in Processes, LaunchResolve(p) \/ LaunchPut(p) PROVE Drawn'
  BY <1>2 DEF LaunchResolve, LaunchPut, Launch
<1>3. ASSUME NEW p \in Processes, Outside(p) PROVE Drawn'
  <2>1. /\ UNCHANGED <<visible, durable, nextGeneration>>
        /\ \/ UNCHANGED <<current, pending>>
           \/ /\ current' = [current EXCEPT ![p] = Loaded("missing")]
              /\ pending' = [pending EXCEPT ![p] = NoPending]
    BY <1>3, OutsideFrame
  <2> QED
    BY <2>1, <1>0, <1>1
<1>4. ASSUME NEW p \in Processes, ReadLocked(p) PROVE Drawn'
  <2>1. \A loaded \in Reads : loaded.record.generation < nextGeneration
    BY <1>0, ReadRecordValue DEF Reads, Loaded, EmptyRecord, TypeOK
  <2> QED
    BY <1>0, <1>4, <2>1 DEF ReadLocked
<1>5. ASSUME NEW p \in Processes, Review(p) \/ Fetch(p) \/ WriteTemporary(p)
      PROVE  Drawn'
  BY <1>5 DEF Review, Fetch, WriteTemporary
<1>6. ASSUME NEW p \in Processes, KeepFailure(p) PROVE Drawn'
  <2> DEFINE written == FailureRecord(current[p], fetched[p].failure,
                                      fetched[p].retryAt, clock)
  <2>1. written.generation < nextGeneration
    BY <1>0 DEF FailureRecord, BaseRecord, EmptyRecord, LoadedRecords, Records
  <2>2. /\ UNCHANGED <<visible, durable, nextGeneration, current>>
        /\ \/ UNCHANGED pending
           \/ pending' = [pending EXCEPT ![p].record = written]
    BY <1>6 DEF KeepFailure
  <2> HIDE DEF written
  <2> QED
    BY <1>0, <2>1, <2>2 DEF PendingFiles
<1>7. ASSUME NEW p \in Processes, KeepSuccess(p) PROVE Drawn'
  <2> DEFINE written == SuccessRecord(nextGeneration, fetched[p].observation)
  <2>1. written.generation = nextGeneration
    BY DEF SuccessRecord, EmptyRecord
  <2>2. /\ UNCHANGED <<visible, durable, current>>
        /\ \/ UNCHANGED <<pending, nextGeneration>>
           \/ /\ pending' = [pending EXCEPT ![p].record = written]
              /\ nextGeneration' = nextGeneration + 1
    BY <1>7 DEF KeepSuccess
  <2>3. \A file \in {visible, durable} :
           file \in Records => file.generation \in Nat
    BY DEF Records
  <2> HIDE DEF written
  <2> QED
    BY <1>0, <2>1, <2>2, <2>3 DEF PendingFiles
<1>8. ASSUME NEW p \in Processes, SyncTemporary(p) PROVE Drawn'
  BY <1>0, <1>8 DEF SyncTemporary, PendingFiles
<1>9. ASSUME NEW p \in Processes, Rename(p) \/ SyncDirectory(p) \/ WriteFails(p)
      PROVE  Drawn'
  BY <1>9, FileAssumption DEF Rename, SyncDirectory, WriteFails, OnDisk
<1>10. CASE Environment \/ UNCHANGED vars
  BY <1>1, <1>10, EnvironmentFrame, FileAssumption DEF OnDisk
<1> QED
  BY <1>2, <1>3, <1>4, <1>5, <1>6, <1>7, <1>8, <1>9, <1>10, StepKinds

\* What a step puts in the temporary file is whole and may replace what was
\* read under the lock.
LEMMA DraftIsSound ==
    ASSUME TypeOK, Provenance, Drawn, Sound, NEW p \in Processes,
           KeepFailure(p) \/ KeepSuccess(p), pc'[p] \in Writing
    PROVE  /\ ValidRecord(pending'[p].record)
           /\ Replaces(pending'[p].record, current[p])
<1> USE DEF Goto, Return
<1>0. /\ pc \in [Processes -> Pcs] /\ clock \in Nat /\ nextGeneration \in Nat \ {0}
      /\ current[p] \in LoadedRecords /\ fetched[p] \in Fetches
      /\ pending \in [Processes -> PendingFiles]
      /\ current[p].record.generation < nextGeneration
      /\ current[p].state = "supported" => ValidRecord(current[p].record)
  BY DEF TypeOK, Drawn, Sound
<1>1. CASE KeepFailure(p)
  <2> DEFINE written == FailureRecord(current[p], fetched[p].failure,
                                      fetched[p].retryAt, clock)
  <2>1. /\ fetched[p].failure # "none" /\ current[p].state # "unknown"
        /\ pending' = [pending EXCEPT ![p].record = written]
    BY <1>0, <1>1 DEF KeepFailure, Writing
  <2>2. ValidRecord(written) /\ Replaces(written, current[p])
    BY <1>0, <2>1, FailureReplaces DEF Fetches
  <2> HIDE DEF written
  <2> QED
    BY <1>0, <2>1, <2>2 DEF PendingFiles
<1>2. CASE KeepSuccess(p)
  <2> DEFINE written == SuccessRecord(nextGeneration, fetched[p].observation)
  <2>1. /\ pc[p] = "fetched" /\ fetched[p].failure = "none"
        /\ ~PutRefused(current[p], fetched[p].observation)
        /\ pending' = [pending EXCEPT ![p].record = written]
    BY <1>0, <1>2 DEF KeepSuccess, Writing
  <2>2. fetched[p].observation \in Observations
    BY <2>1 DEF Provenance
  <2>3. ValidRecord(written) /\ Replaces(written, current[p])
    BY <1>0, <2>1, <2>2, SuccessReplaces
  <2> HIDE DEF written
  <2> QED
    BY <1>0, <2>1, <2>3 DEF PendingFiles
<1> QED
  BY <1>1, <1>2

LEMMA SoundStep ==
    TypeOK /\ Provenance /\ Drawn /\ Synced /\ Sound /\ [Next]_vars => Sound'
<1> SUFFICES ASSUME TypeOK, Provenance, Drawn, Synced, Sound, [Next]_vars
             PROVE  Sound'
  OBVIOUS
<1>0. /\ pc \in [Processes -> Pcs]
      /\ current \in [Processes -> LoadedRecords]
      /\ pending \in [Processes -> PendingFiles]
      /\ visible \in Files /\ settled
      /\ Foreign \notin Records
  BY FileAssumption DEF TypeOK, Synced
<1> USE DEF Sound, Whole, Writing, Goto, Return, Forget, storeVars, envVars, localVars
<1>1. ASSUME NEW p \in Processes, LaunchResolve(p) \/ LaunchPut(p) PROVE Sound'
  BY <1>0, <1>1 DEF LaunchResolve, LaunchPut, Launch
<1>2. ASSUME NEW p \in Processes, Outside(p) PROVE Sound'
  <2>1. /\ UNCHANGED <<visible, durable>>
        /\ \/ UNCHANGED <<current, pending>>
           \/ current' = [current EXCEPT ![p] = Loaded("missing")]
              /\ \A q \in Processes \ {p} : pending'[q] = pending[q]
        /\ pc'[p] \notin Writing
        /\ \A q \in Processes \ {p} : pc'[q] = pc[q]
    BY <1>0, <1>2, OutsideFrame DEF IdlePcs, UnlockedPcs
  <2> QED
    BY <1>0, <2>1 DEF Loaded
<1>3. ASSUME NEW p \in Processes, ReadLocked(p) PROVE Sound'
  <2>1. \A loaded \in Reads :
           loaded.state = "supported" => ValidRecord(loaded.record)
    BY <1>0, ReadRecordValue DEF Reads, Loaded
  <2> QED
    BY <1>0, <1>3, <2>1 DEF ReadLocked
<1>4. ASSUME NEW p \in Processes, Review(p) \/ Fetch(p) PROVE Sound'
  BY <1>0, <1>4 DEF Review, Fetch
<1>5. ASSUME NEW p \in Processes, KeepFailure(p) \/ KeepSuccess(p) PROVE Sound'
  <2>1. /\ UNCHANGED <<visible, durable, current>>
        /\ \A q \in Processes \ {p} : UNCHANGED <<pc[q], pending[q]>>
    BY <1>0, <1>5 DEF KeepFailure, KeepSuccess
  <2>2. pc'[p] \in Writing => ValidRecord(pending'[p].record)
    BY <1>5, DraftIsSound
  <2> QED
    BY <2>1, <2>2
<1>6. ASSUME NEW p \in Processes, WriteTemporary(p) \/ SyncTemporary(p)
      PROVE  Sound'
  BY <1>0, <1>6 DEF WriteTemporary, SyncTemporary, PendingFiles
<1>7. ASSUME NEW p \in Processes, Rename(p) \/ SyncDirectory(p) \/ WriteFails(p)
      PROVE  Sound'
  BY <1>0, <1>7 DEF Rename, SyncDirectory, WriteFails, OnDisk
<1>8. CASE Environment \/ UNCHANGED vars
  <2>1. Whole(visible)' /\ Whole(durable)'
    BY <1>0, <1>8, EnvironmentFrame DEF OnDisk
  <2>2. \/ UNCHANGED <<pc, current, pending>>
        \/ \A p \in Processes :
              /\ pc'[p] \in IdlePcs
              /\ current'[p] = Loaded("missing")
    BY <1>8, EnvironmentFrame
  <2>3. Loaded("missing").state # "supported"
    BY DEF Loaded
  <2> QED
    BY <2>1, <2>2, <2>3 DEF IdlePcs
<1> QED
  BY <1>1, <1>2, <1>3, <1>4, <1>5, <1>6, <1>7, <1>8, StepKinds

LEMMA WritesStep ==
    TypeOK /\ Provenance /\ Drawn /\ Sound /\ WritesAllowed /\ [Next]_vars
        => WritesAllowed'
<1> SUFFICES ASSUME TypeOK, Provenance, Drawn, Sound, WritesAllowed, [Next]_vars
             PROVE  WritesAllowed'
  OBVIOUS
<1>0. /\ pc \in [Processes -> Pcs]
      /\ current \in [Processes -> LoadedRecords]
      /\ pending \in [Processes -> PendingFiles]
  BY DEF TypeOK
<1> USE DEF WritesAllowed, Writing, Goto, Return, Forget, storeVars, envVars, localVars
<1>1. ASSUME NEW p \in Processes, LaunchResolve(p) \/ LaunchPut(p)
      PROVE  WritesAllowed'
  BY <1>0, <1>1 DEF LaunchResolve, LaunchPut, Launch
<1>2. ASSUME NEW p \in Processes,
             Outside(p) \/ ReadLocked(p) \/ Review(p) \/ Fetch(p)
      PROVE  WritesAllowed'
  <2>1. /\ pc'[p] \notin Writing
        /\ \A q \in Processes \ {p} :
              UNCHANGED <<pc[q], current[q], pending[q]>>
    <3>1. CASE Outside(p)
      BY <1>0, <3>1, OutsideFrame DEF IdlePcs, UnlockedPcs
    <3>2. CASE ReadLocked(p) \/ Review(p) \/ Fetch(p)
      BY <1>0, <3>2 DEF ReadLocked, Review, Fetch
    <3> QED
      BY <1>2, <3>1, <3>2
  <2> QED
    BY <2>1
<1>3. ASSUME NEW p \in Processes, KeepFailure(p) \/ KeepSuccess(p)
      PROVE  WritesAllowed'
  <2>1. /\ UNCHANGED current
        /\ \A q \in Processes \ {p} : UNCHANGED <<pc[q], pending[q]>>
    BY <1>0, <1>3 DEF KeepFailure, KeepSuccess
  <2>2. pc'[p] \in Writing => Replaces(pending'[p].record, current[p])
    BY <1>3, DraftIsSound
  <2> QED
    BY <2>1, <2>2
<1>4. ASSUME NEW p \in Processes,
             \/ WriteTemporary(p) \/ SyncTemporary(p) \/ Rename(p)
             \/ SyncDirectory(p) \/ WriteFails(p)
      PROVE  WritesAllowed'
  <2>1. /\ UNCHANGED current
        /\ pc[p] \in Writing \/ pc'[p] \notin Writing
        /\ pending'[p].record = pending[p].record
        /\ \A q \in Processes \ {p} : UNCHANGED <<pc[q], pending[q]>>
    BY <1>0, <1>4 DEF WriteTemporary, SyncTemporary, Rename, SyncDirectory,
                      WriteFails, PendingFiles
  <2> QED
    BY <2>1
<1>5. CASE Environment \/ UNCHANGED vars
  BY <1>5, EnvironmentFrame DEF IdlePcs
<1> QED
  BY <1>1, <1>2, <1>3, <1>4, <1>5, StepKinds

\* The inductive invariant of the writes, under any faults.
WriteInv ==
    TypeOK /\ LockHeld /\ Provenance /\ Drawn /\ Synced /\ Sound /\ WritesAllowed

LEMMA WriteInvariant == Spec => []WriteInv
<1>1. Init => Provenance /\ Drawn /\ Synced /\ Sound /\ WritesAllowed
  <2> SUFFICES ASSUME Init
               PROVE  Provenance /\ Drawn /\ Synced /\ Sound /\ WritesAllowed
    OBVIOUS
  <2>1. visible \notin Records /\ durable \notin Records
    BY StoreAssumption, FileAssumption DEF Init
  <2>2. \A p \in Processes :
           /\ pc[p] = "idle"
           /\ current[p] = Loaded("missing") /\ pending[p] = NoPending
    BY DEF Init
  <2>3. settled /\ nextGeneration = 1
    BY DEF Init
  <2> QED
    BY <2>1, <2>2, <2>3 DEF Provenance, Drawn, Synced, Sound, Whole,
       WritesAllowed, Writing, Loaded, NoPending, EmptyRecord
<1>2. WriteInv /\ [Next]_vars => WriteInv'
  BY TypeStep, LockStep, ProvenanceStep, DrawnStep, SyncedStep, SoundStep,
     WritesStep DEF WriteInv
<1> QED
  BY <1>1, <1>2, LockInvariant, PTL DEF Spec, WriteInv

----------------------------------------------------------------------------
(* What follows under any faults *)

NoGarbage ==
    Garbage \notin InitialFiles => visible # Garbage /\ durable # Garbage

\* A snapshot that could be read when the first process started, or was not
\* there, can always be read: no refusal, crash, failed write or power loss
\* leaves a record that readRecord rejects.
THEOREM NeverCorrupt == Spec => []NeverPartial
<1>1. Init => NoGarbage
  BY DEF Init, NoGarbage
<1>2. WriteInv /\ NoGarbage /\ [Next]_vars => NoGarbage'
  <2> SUFFICES ASSUME WriteInv, NoGarbage, [Next]_vars, Garbage \notin InitialFiles
               PROVE  visible' # Garbage /\ durable' # Garbage
    BY DEF NoGarbage
  <2>0. /\ visible # Garbage /\ durable # Garbage /\ Foreign # Garbage
        /\ settled /\ \A p \in Processes : pending[p].record \in Records
        /\ TypeOK
    BY FileAssumption DEF NoGarbage, WriteInv, Synced, TypeOK, PendingFiles
  <2> USE DEF storeVars
  <2>1. ASSUME NEW p \in Processes,
               \/ LaunchResolve(p) \/ LaunchPut(p) \/ Outside(p)
               \/ ReadLocked(p) \/ Review(p) \/ Fetch(p) \/ KeepFailure(p)
               \/ KeepSuccess(p) \/ WriteTemporary(p) \/ SyncTemporary(p)
               \/ WriteFails(p)
        PROVE  UNCHANGED <<visible, durable>>
    <3>1. CASE Outside(p)
      BY <2>0, <3>1, OutsideFrame
    <3>2. CASE ~Outside(p)
      BY <2>1, <3>2 DEF LaunchResolve, LaunchPut, Launch, ReadLocked, Review,
         Fetch, KeepFailure, KeepSuccess, WriteTemporary, SyncTemporary, WriteFails
    <3> QED
      BY <3>1, <3>2
  <2>2. ASSUME NEW p \in Processes, Rename(p) \/ SyncDirectory(p)
        PROVE  visible' # Garbage /\ durable' # Garbage
    BY <2>0, <2>2, FileAssumption DEF Rename, SyncDirectory, OnDisk
  <2>3. CASE Environment \/ UNCHANGED vars
    BY <2>0, <2>3, EnvironmentFrame DEF OnDisk
  <2> QED
    BY <2>0, <2>1, <2>2, <2>3, StepKinds
<1>3. WriteInv /\ NoGarbage => NeverPartial
  BY ReadRecordValue DEF WriteInv, NoGarbage, NeverPartial, Sound, TypeOK
<1> QED
  BY <1>1, <1>2, <1>3, WriteInvariant, PTL DEF Spec

----------------------------------------------------------------------------
(* What follows when a read under the lock tells the truth *)

\* The one step that replaces the snapshot replaces a record it has seen by
\* one that may stand in its place.
LEMMA RenameReplaces ==
    ASSUME WriteInv, ViewIsCurrent, NEW p \in Processes, Rename(p)
    PROVE  /\ visible \in Files /\ visible # Foreign
           /\ visible' \in Records /\ ValidRecord(visible')
           /\ Replaces(visible', ReadRecord(visible))
           /\ UNCHANGED durable
<1>1. pc[p] = "rename" /\ visible' = pending[p].record /\ UNCHANGED durable
  BY DEF Rename
<1>2. current[p] = ReadRecord(visible)
  BY <1>1 DEF ViewIsCurrent, HoldingView
<1>3. /\ ValidRecord(visible') /\ Replaces(visible', ReadRecord(visible))
      /\ visible' \in Records /\ visible \in Files
  BY <1>1, <1>2 DEF WriteInv, Sound, WritesAllowed, Writing, TypeOK, PendingFiles
<1>4. visible # Foreign
  BY <1>3, ReadRecordValue DEF Replaces
<1> QED
  BY <1>1, <1>3, <1>4

\* No write of this program destroys the record of another version.
THEOREM ForeignRecordIsKept ==
    ASSUME "read" \notin Faults
    PROVE  Spec => ForeignIsKept
<1>1. WriteInv /\ ViewIsCurrent /\ [Next]_vars => [StoreSteps => visible # Foreign]_vars
  BY RenameReplaces DEF StoreSteps
<1> QED
  BY <1>1, WriteInvariant, LockedViewIsCurrent, PTL DEF Spec, ForeignIsKept

\* With any number of concurrent refreshes, crashes and clock jumps, stored
\* evidence is only ever replaced by evidence at least as recent.
THEOREM EvidenceIsMonotonic ==
    ASSUME "read" \notin Faults
    PROVE  Spec => EvidenceNeverRegresses
<1> DEFINE Step == StoreSteps /\ HasObservation(ReadRecord(visible)) =>
          /\ visible'.observation # NoObservation
          /\ visible'.observation.at >= visible.observation.at
<1>1. WriteInv /\ ViewIsCurrent /\ [Next]_vars => [Step]_vars
  <2> SUFFICES ASSUME WriteInv, ViewIsCurrent, NEW p \in Processes, Rename(p),
                      HasObservation(ReadRecord(visible))
               PROVE  /\ visible'.observation # NoObservation
                      /\ visible'.observation.at >= visible.observation.at
    BY DEF StoreSteps
  <2>1. /\ visible \in Records /\ ReadRecord(visible).record = visible
        /\ visible.observation # NoObservation
        /\ BaseRecord(ReadRecord(visible)) = visible
    BY RenameReplaces, ReadRecordValue DEF HasObservation, BaseRecord
  <2>2. visible.observation.at >= visible.observation.at
    BY <2>1 DEF Records, Observations
  <2>3. Replaces(visible', ReadRecord(visible)) /\ visible' \in Records
    BY RenameReplaces
  <2> QED
    BY <2>1, <2>2, <2>3 DEF Replaces
<1> QED
  BY <1>1, WriteInvariant, LockedViewIsCurrent, PTL DEF Spec, EvidenceNeverRegresses

\* A recorded 401, 403 or account mismatch is cleared by nothing but the
\* evidence of a later success.
THEOREM RevocationStays ==
    ASSUME "read" \notin Faults
    PROVE  Spec => RevocationIsSticky
<1> DEFINE Step == StoreSteps /\ ReadRecord(visible).state = "supported"
                     /\ visible.revoked
                   => visible'.revoked \/ visible'.generation # visible.generation
<1>1. WriteInv /\ ViewIsCurrent /\ [Next]_vars => [Step]_vars
  <2> SUFFICES ASSUME WriteInv, ViewIsCurrent, NEW p \in Processes, Rename(p),
                      ReadRecord(visible).state = "supported", visible.revoked
               PROVE  visible'.revoked \/ visible'.generation # visible.generation
    BY DEF StoreSteps
  <2>1. /\ visible \in Records
        /\ BaseRecord(ReadRecord(visible)) = visible
    BY RenameReplaces, ReadRecordValue DEF BaseRecord
  <2>2. Replaces(visible', ReadRecord(visible)) /\ visible' \in Records
    BY RenameReplaces
  <2> QED
    BY <2>1, <2>2 DEF Replaces, Records
<1> QED
  BY <1>1, WriteInvariant, LockedViewIsCurrent, PTL DEF Spec, RevocationIsSticky

----------------------------------------------------------------------------
(* The refinement *)

\* The register speaks of the same records.
LEMMA RegisterValues ==
    /\ Register!Records = Records
    /\ Register!NoTime = NoTime
    /\ \A r : Register!ValidRecord(r) <=> ValidRecord(r)
    /\ Register!Known = BaseRecord(ReadRecord(visible))
<1>1. Register!Records = Records
  BY DEF Register!Records, Records, Register!Observations, Observations,
     Register!Identities, Identities, Register!Freshnesses, Freshnesses,
     Register!FailureKinds, FailureKinds, Register!Times, Times,
     Register!NoTime, NoTime
<1>2. Register!NoTime = NoTime
  BY DEF Register!NoTime, NoTime
<1>3. \A r : Register!ValidRecord(r) <=> ValidRecord(r)
  BY <1>2 DEF Register!ValidRecord, ValidRecord
<1>4. Register!EmptyRecord = EmptyRecord
  BY <1>2 DEF Register!EmptyRecord, EmptyRecord
<1>5. Register!ReadRecord(visible) = ReadRecord(visible)
  BY <1>3, <1>4 DEF Register!ReadRecord, ReadRecord, Register!Loaded, Loaded
<1>6. Register!Known = BaseRecord(ReadRecord(visible))
  BY <1>4, <1>5 DEF Register!Known, Register!BaseRecord, BaseRecord
<1> QED
  BY <1>1, <1>2, <1>3, <1>6

\* A rename publishes evidence or notes a failure.
LEMMA RenameImplements ==
    ASSUME WriteInv, ViewIsCurrent, NEW p \in Processes, Rename(p)
    PROVE  Register!Publish \/ Register!NoteFailure
<1> DEFINE old == BaseRecord(ReadRecord(visible))
<1>1. /\ visible # Foreign /\ visible' \in Records /\ ValidRecord(visible')
      /\ Replaces(visible', ReadRecord(visible))
      /\ UNCHANGED durable
  BY RenameReplaces
<1>2. visible' \in Register!Records /\ Register!ValidRecord(visible')
  BY <1>1, RegisterValues
<1>3. Register!Known = old
  BY RegisterValues
<1>4. CASE visible'.lastFailure = "none"
  <2>1. /\ visible'.generation > old.generation
        /\ old.observation # NoObservation =>
              visible'.observation.at >= old.observation.at
    BY <1>1, <1>4 DEF Replaces
  <2> HIDE DEF old
  <2> QED
    BY <1>1, <1>2, <1>3, <1>4, <2>1 DEF Register!Publish
<1>5. CASE visible'.lastFailure # "none"
  <2>1. /\ visible'.generation = old.generation
        /\ visible'.observation = old.observation
        /\ old.revoked => visible'.revoked
    BY <1>1, <1>5 DEF Replaces
  <2> HIDE DEF old
  <2> QED
    BY <1>1, <1>2, <1>3, <1>5, <2>1 DEF Register!NoteFailure
<1> QED
  BY <1>4, <1>5

\* The lock, the second read, the temporary file and the two syncs make a
\* directory of files a register whose changes are atomic and whose loss of
\* power returns a value it once had.
THEOREM StoreIsARegister ==
    ASSUME "read" \notin Faults
    PROVE  Spec => ImplementsRegister
<1>1. Init => Register!Init
  BY StoreAssumption DEF Init, Register!Init
<1>2. WriteInv /\ ViewIsCurrent /\ [Next]_vars => [Register!Next]_(Register!vars)
  <2> SUFFICES ASSUME WriteInv, ViewIsCurrent, [Next]_vars
               PROVE  Register!Next \/ UNCHANGED <<visible, durable>>
    BY DEF Register!vars
  <2> USE DEF storeVars
  <2>1. ASSUME NEW p \in Processes, Rename(p) PROVE Register!Next
    BY <2>1, RenameImplements DEF Register!Next
  <2>2. ASSUME NEW p \in Processes, SyncDirectory(p) PROVE Register!Next
    <3>1. durable' = visible /\ UNCHANGED visible
      BY <2>2 DEF SyncDirectory, OnDisk, WriteInv, Synced
    <3> QED
      BY <3>1 DEF Register!Next, Register!Settle
  <2>3. ASSUME NEW p \in Processes,
               \/ LaunchResolve(p) \/ LaunchPut(p) \/ Outside(p)
               \/ ReadLocked(p) \/ Review(p) \/ Fetch(p) \/ KeepFailure(p)
               \/ KeepSuccess(p) \/ WriteTemporary(p) \/ SyncTemporary(p)
               \/ WriteFails(p)
        PROVE  UNCHANGED <<visible, durable>>
    <3>1. CASE Outside(p)
      BY <3>1, OutsideFrame DEF WriteInv
    <3>2. CASE ~Outside(p)
      BY <2>3, <3>2 DEF LaunchResolve, LaunchPut, Launch, ReadLocked, Review,
         Fetch, KeepFailure, KeepSuccess, WriteTemporary, SyncTemporary, WriteFails
    <3> QED
      BY <3>1, <3>2
  <2>4. CASE PowerLoss
    BY <2>4 DEF PowerLoss, Register!Next, Register!LosePower
  <2>5. CASE WriteBack
    BY <2>5 DEF WriteBack, OnDisk, WriteInv, Synced, Register!Next, Register!Settle
  <2>6. CASE ForeignWrite
    BY <2>6 DEF ForeignWrite, Register!Next, Register!Supersede
  <2>7. CASE Tick \/ SetClockBack \/ Quiescent \/ UNCHANGED vars
    BY <2>7 DEF Tick, SetClockBack, Quiescent, vars
  <2> QED
    BY <2>1, <2>2, <2>3, <2>4, <2>5, <2>6, <2>7, StepKinds DEF Environment
<1> QED
  BY <1>1, <1>2, WriteInvariant, LockedViewIsCurrent, PTL
  DEF Spec, ImplementsRegister, Register!Spec
=============================================================================
