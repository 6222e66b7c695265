------------------------- MODULE ProviderErrorsProofs -------------------------
(***************************************************************************)
(* What the tables of ProviderErrors answer, for any error: a switch read  *)
(* case by case.                                                           *)
(***************************************************************************)
EXTENDS ProviderErrors, TLAPS

----------------------------------------------------------------------------
(* The first case that holds *)

LEMMA FirstOfHolding ==
    ASSUME NEW checks, NEW default, NEW i \in DOMAIN checks,
           DOMAIN checks \subseteq Nat,
           checks[i][1], \A j \in DOMAIN checks : checks[j][1] => i <= j
    PROVE  FirstOf(checks, default) = checks[i][2]
<1> DEFINE holding == {j \in DOMAIN checks : checks[j][1]}
<1>1. i \in holding /\ \A j \in holding : i <= j
  OBVIOUS
<1>2. \A k \in holding : (\A j \in holding : k <= j) => k = i
  BY <1>1
<1>3. (CHOOSE k \in holding : \A j \in holding : k <= j) = i
  BY <1>1, <1>2
<1> QED
  BY <1>1, <1>3 DEF FirstOf

LEMMA FirstOfNone ==
    ASSUME NEW checks, NEW default, \A j \in DOMAIN checks : ~checks[j][1]
    PROVE  FirstOf(checks, default) = default
BY DEF FirstOf

LEMMA FirstOfOne ==
    ASSUME NEW checks, NEW default, DOMAIN checks = {1}
    PROVE  FirstOf(checks, default) = IF checks[1][1] THEN checks[1][2] ELSE default
<1>1. CASE checks[1][1]
  BY <1>1, FirstOfHolding
<1>2. CASE ~checks[1][1]
  BY <1>2, FirstOfNone
<1> QED
  BY <1>1, <1>2

LEMMA FirstOfTwo ==
    ASSUME NEW checks, NEW default, DOMAIN checks = {1, 2}
    PROVE  FirstOf(checks, default) =
               IF checks[1][1] THEN checks[1][2]
               ELSE IF checks[2][1] THEN checks[2][2]
               ELSE default
<1>1. CASE checks[1][1]
  BY <1>1, FirstOfHolding
<1>2. CASE ~checks[1][1] /\ checks[2][1]
  BY <1>2, FirstOfHolding
<1>3. CASE ~checks[1][1] /\ ~checks[2][1]
  BY <1>3, FirstOfNone
<1> QED
  BY <1>1, <1>2, <1>3

LEMMA FirstOfThree ==
    ASSUME NEW checks, NEW default, DOMAIN checks = {1, 2, 3}
    PROVE  FirstOf(checks, default) =
               IF checks[1][1] THEN checks[1][2]
               ELSE IF checks[2][1] THEN checks[2][2]
               ELSE IF checks[3][1] THEN checks[3][2]
               ELSE default
<1>1. CASE checks[1][1]
  BY <1>1, FirstOfHolding
<1>2. CASE ~checks[1][1] /\ checks[2][1]
  BY <1>2, FirstOfHolding
<1>3. CASE ~checks[1][1] /\ ~checks[2][1] /\ checks[3][1]
  BY <1>3, FirstOfHolding
<1>4. CASE ~checks[1][1] /\ ~checks[2][1] /\ ~checks[3][1]
  BY <1>4, FirstOfNone
<1> QED
  BY <1>1, <1>2, <1>3, <1>4

LEMMA FirstOfFour ==
    ASSUME NEW checks, NEW default, DOMAIN checks = {1, 2, 3, 4}
    PROVE  FirstOf(checks, default) =
               IF checks[1][1] THEN checks[1][2]
               ELSE IF checks[2][1] THEN checks[2][2]
               ELSE IF checks[3][1] THEN checks[3][2]
               ELSE IF checks[4][1] THEN checks[4][2]
               ELSE default
<1>1. CASE checks[1][1]
  BY <1>1, FirstOfHolding
<1>2. CASE ~checks[1][1] /\ checks[2][1]
  BY <1>2, FirstOfHolding
<1>3. CASE ~checks[1][1] /\ ~checks[2][1] /\ checks[3][1]
  BY <1>3, FirstOfHolding
<1>4. CASE ~checks[1][1] /\ ~checks[2][1] /\ ~checks[3][1] /\ checks[4][1]
  BY <1>4, FirstOfHolding
<1>5. CASE ~checks[1][1] /\ ~checks[2][1] /\ ~checks[3][1] /\ ~checks[4][1]
  BY <1>5, FirstOfNone
<1> QED
  BY <1>1, <1>2, <1>3, <1>4, <1>5

----------------------------------------------------------------------------
(* The tables *)

\* What the process exits with after an error (run.go, executeWithAdapterClock).
LEMMA ExitCodeOfError ==
    ASSUME NEW err, NEW i, err # NoError
    PROVE  ExitCode(err, i) =
               IF "canceled" \in err THEN 130
               ELSE IF ExitCodes[2][1] \cap err # {} THEN 1
               ELSE IF "partial" \in err THEN 3
               ELSE 2
<1> DEFINE checks == [k \in DOMAIN ExitCodes |->
                         <<ExitCodes[k][1] \cap err # {}, ExitCodes[k][2]>>]
<1>1. /\ DOMAIN ExitCodes = {1, 2, 3}
      /\ ExitCodes[1][1] = {"canceled"} /\ ExitCodes[1][2] = 130
      /\ ExitCodes[2][2] = 1
      /\ ExitCodes[3][1] = {"partial"} /\ ExitCodes[3][2] = 3
  BY DEF ExitCodes
<1>2. /\ DOMAIN checks = {1, 2, 3}
      /\ \A k \in {1, 2, 3} : /\ checks[k][1] <=> ExitCodes[k][1] \cap err # {}
                              /\ checks[k][2] = ExitCodes[k][2]
  BY <1>1
<1>3. ExitCode(err, i) = FirstOf(checks, 2)
  BY DEF ExitCode, FirstMatch
<1> HIDE DEF checks
<1>4. /\ checks[1][1] <=> "canceled" \in err
      /\ checks[3][1] <=> "partial" \in err
  BY <1>1, <1>2
<1> QED
  BY <1>1, <1>2, <1>3, <1>4, FirstOfThree

\* How Cursor classifies an error for the cache (cursor/adapter.go, Failure).
LEMMA FailureOfCursor ==
    ASSUME NEW err, err # NoError
    PROVE  Failure("cursor", err) =
               IF "retry" \in err THEN "transient"
               ELSE IF "wrong_account" \in err THEN "account_mismatch"
               ELSE IF "rejected" \in err THEN "revoked"
               ELSE IF (ContextErrors \cup {"transient"}) \cap err # {} THEN "transient"
               ELSE "permanent"
<1> DEFINE checks == [k \in DOMAIN CursorFailures |->
                         <<CursorFailures[k][1] \cap err # {}, CursorFailures[k][2]>>]
<1>1. /\ DOMAIN CursorFailures = {1, 2, 3, 4}
      /\ CursorFailures[1][1] = {"retry"} /\ CursorFailures[1][2] = "transient"
      /\ CursorFailures[2][1] = {"wrong_account"} /\ CursorFailures[2][2] = "account_mismatch"
      /\ CursorFailures[3][1] = {"rejected"} /\ CursorFailures[3][2] = "revoked"
      /\ CursorFailures[4][1] = ContextErrors \cup {"transient"}
      /\ CursorFailures[4][2] = "transient"
  BY DEF CursorFailures
<1>2. /\ DOMAIN checks = {1, 2, 3, 4}
      /\ \A k \in {1, 2, 3, 4} : /\ checks[k][1] <=> CursorFailures[k][1] \cap err # {}
                                 /\ checks[k][2] = CursorFailures[k][2]
  BY <1>1
<1>3. Failure("cursor", err) = FirstOf(checks, "permanent")
  BY DEF Failure, FirstMatch
<1> HIDE DEF checks
<1>4. /\ checks[1][1] <=> "retry" \in err
      /\ checks[2][1] <=> "wrong_account" \in err
      /\ checks[3][1] <=> "rejected" \in err
      /\ checks[4][1] <=> (ContextErrors \cup {"transient"}) \cap err # {}
  BY <1>1, <1>2
<1> QED
  BY <1>1, <1>2, <1>3, <1>4, FirstOfFour

\* How the other adapters do (codex/adapter.go and its likes, Failure).
LEMMA FailureOfOthers ==
    ASSUME NEW provider, NEW err, provider # "cursor", err # NoError
    PROVE  Failure(provider, err) =
               IF "rejected" \in err THEN "revoked"
               ELSE IF "mismatch" \in err \/ "wrong_account" \in err THEN "account_mismatch"
               ELSE IF "transient" \in err THEN "transient"
               ELSE "permanent"
<1> DEFINE checks == [k \in DOMAIN CommonFailures |->
                         <<CommonFailures[k][1] \cap err # {}, CommonFailures[k][2]>>]
<1>1. /\ DOMAIN CommonFailures = {1, 2, 3}
      /\ CommonFailures[1][1] = {"rejected"} /\ CommonFailures[1][2] = "revoked"
      /\ CommonFailures[2][1] = {"mismatch", "wrong_account"}
      /\ CommonFailures[2][2] = "account_mismatch"
      /\ CommonFailures[3][1] = {"transient"} /\ CommonFailures[3][2] = "transient"
  BY DEF CommonFailures
<1>2. /\ DOMAIN checks = {1, 2, 3}
      /\ \A k \in {1, 2, 3} : /\ checks[k][1] <=> CommonFailures[k][1] \cap err # {}
                              /\ checks[k][2] = CommonFailures[k][2]
  BY <1>1
<1>3. Failure(provider, err) = FirstOf(checks, "permanent")
  BY DEF Failure, FirstMatch
<1> HIDE DEF checks
<1>4. /\ checks[1][1] <=> "rejected" \in err
      /\ checks[2][1] <=> "mismatch" \in err \/ "wrong_account" \in err
      /\ checks[3][1] <=> "transient" \in err
  BY <1>1, <1>2
<1> QED
  BY <1>1, <1>2, <1>3, <1>4, FirstOfThree
=============================================================================
