--------------------------- MODULE QuotaRegister ---------------------------
(***************************************************************************)
(* What the evidence cache of one binding promises, without lock files,    *)
(* temporary files or processes: a register whose every change is one      *)
(* atomic read-modify-write.  A refresh publishes a new generation that is *)
(* no older than the evidence it replaces, or notes a failure beside the   *)
(* evidence it could not replace; it touches nothing written under another *)
(* schema.  What survives a power loss is a past value of the register.    *)
(***************************************************************************)
EXTENDS CacheRecord

VARIABLES
    register,   \* what the snapshot path holds
    stable      \* what it holds again after a power loss

vars == <<register, stable>>

\* The record a refresh builds on.
Known == BaseRecord(ReadRecord(register))

TypeOK == register \in Files /\ stable \in Files

Init == register \in {NoFile, Garbage, Foreign} /\ stable = register

Publish ==
    /\ register # Foreign
    /\ register' \in Records
    /\ ValidRecord(register') /\ register'.lastFailure = "none"
    /\ register'.generation > Known.generation
    /\ Known.observation # NoObservation =>
          register'.observation.at >= Known.observation.at
    /\ UNCHANGED stable

NoteFailure ==
    /\ register # Foreign
    /\ register' \in Records
    /\ ValidRecord(register') /\ register'.lastFailure # "none"
    /\ register'.generation = Known.generation
    /\ register'.observation = Known.observation
    /\ Known.revoked => register'.revoked
    /\ UNCHANGED stable

\* The directory entry reaches the disk.
Settle == stable' = register /\ UNCHANGED register

LosePower == register' = stable /\ UNCHANGED stable

\* Another version of the program replaces the record.
Supersede == register' = Foreign /\ stable' = Foreign

Next == Publish \/ NoteFailure \/ Settle \/ LosePower \/ Supersede

Spec == Init /\ [][Next]_vars
=============================================================================
