--------------------------- MODULE ProviderErrors ---------------------------
(***************************************************************************)
(* Errors of the provider adapters and of the command line, and the three  *)
(* tables that read them: Failure (the adapters), the exit code            *)
(* (internal/cli/run.go) and the message of a mixed report                 *)
(* (internal/cli/mixed.go).                                                *)
(*                                                                         *)
(* An error is the set of sentinels errors.Is finds in its chain, so       *)
(* wrapping with %w is union, and an error of its own text alone is the    *)
(* empty set.  Each table is a switch: its first matching case wins.       *)
(* Definitions named Bug... are mistakes one could make in the definition  *)
(* that follows them.                                                      *)
(***************************************************************************)
EXTENDS Integers, Sequences

Providers == {"codex", "claude", "grok", "devin", "cursor"}

ContextErrors == {"canceled", "deadline"}

Sentinels ==
    ContextErrors \cup
    {"invalid_selection",    \* evidence.ErrInvalidSelection
     "wrong_account",        \* evidence.ErrWrongAccount
     "stale",                \* evidence.ErrStale
     "no_match",             \* evidence.ErrNoMatch
     "provider_unavailable", \* evidence.ErrProviderUnavailable
     "mismatch",             \* ErrAccountMismatch of an adapter
     "rejected",             \* ErrAuthorizationRejected, cursor.ErrRevoked
     "forbidden",            \* cursor.ErrForbidden
     "transient",            \* ErrTransient of an adapter
     "retry",                \* *RetryError of an adapter
     "unavailable",          \* cli.ErrUnavailable
     "partial",              \* cli.ErrPartial
     "cache_unavailable",    \* cache.ErrUnavailable
     "lock_timeout",         \* cache.ErrLockTimeout
     "backoff"}              \* cache.ErrBackoff

NoError == {"nil"}

Errors == SUBSET Sentinels

IsErrors == Errors \cup {NoError}

\* The value of the first <<condition, value>> whose condition holds.
FirstOf(checks, default) ==
    LET holding == {i \in DOMAIN checks : checks[i][1]}
    IN  IF holding = {}
           THEN default
           ELSE checks[CHOOSE i \in holding : \A j \in holding : i <= j][2]

\* The error of the first check that finds one.
FirstError(checks) == FirstOf(checks, NoError)

\* A switch over errors.Is: the value of the first case that matches.
FirstMatch(cases, err, default) ==
    FirstOf([i \in DOMAIN cases |-> <<cases[i][1] \cap err # {}, cases[i][2]>>], default)

\* collectionError of every adapter: %w twice.
CollectionError(err) == err \cup {"provider_unavailable"}

----------------------------------------------------------------------------
(* Adapter.Failure: what a failure means for the cached record *)

CommonFailures ==
    << <<{"rejected"}, "revoked">>,
       <<{"mismatch", "wrong_account"}, "account_mismatch">>,
       <<{"transient"}, "transient">> >>

CursorFailures ==
    << <<{"retry"}, "transient">>,
       <<{"wrong_account"}, "account_mismatch">>,
       <<{"rejected"}, "revoked">>,
       <<ContextErrors \cup {"transient"}, "transient">> >>

\* Leaves a failure that no case names unclassified.
BugFailure(provider, err) ==
    FirstMatch(IF provider = "cursor" THEN CursorFailures ELSE CommonFailures,
               err, "none")

Failure(provider, err) ==
    IF err = NoError
       THEN "none"
       ELSE FirstMatch(IF provider = "cursor" THEN CursorFailures
                                              ELSE CommonFailures,
                       err, "permanent")

----------------------------------------------------------------------------
(* The command line *)

\* Forgets the error of a report without any evidence.
BugExitCodes ==
    << <<{"canceled"}, 130>>,
       <<{"cache_unavailable", "lock_timeout", "backoff", "deadline",
          "provider_unavailable"}, 1>>,
       <<{"partial"}, 3>> >>

\* executeWithAdapterClock
ExitCodes ==
    << <<{"canceled"}, 130>>,
       <<{"unavailable", "cache_unavailable", "lock_timeout", "backoff",
          "deadline", "provider_unavailable"}, 1>>,
       <<{"partial"}, 3>> >>

ExitCode(err, interrupted) ==
    IF err = NoError
       THEN IF interrupted THEN 130 ELSE 0
       ELSE FirstMatch(ExitCodes, err, 2)

\* failureFor
Messages ==
    << <<{"deadline", "lock_timeout"}, "quota collection timed out">>,
       <<{"cache_unavailable"}, "cached quota evidence is unavailable">>,
       <<{"stale"}, "quota evidence is stale">>,
       <<{"wrong_account"}, "quota account does not match">>,
       <<{"no_match"}, "requested quota evidence is unavailable">> >>

FailureMessage(err) == FirstMatch(Messages, err, "quota is unavailable")
=============================================================================
