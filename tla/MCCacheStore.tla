---------------------------- MODULE MCCacheStore ----------------------------
(***************************************************************************)
(* CacheStore for TLC: the requests, as sets a cfg chooses from.           *)
(***************************************************************************)
EXTENDS CacheStore, TLC

CONSTANTS a1, a2, p1, p2, p3

Resolve(mode, maxAge, refresh, stale, account) ==
    [op |-> "resolve", account |-> account,
     policy |-> [mode |-> mode, maxAge |-> maxAge, refresh |-> refresh,
                 staleOnError |-> stale]]

PutRequest == NoRequest

\* A request that takes evidence one unit old, and a forced one.
CoalescingRequests ==
    {Resolve("auto", 1, FALSE, FALSE, NoAccount),
     Resolve("auto", 1, TRUE, FALSE, NoAccount)}

\* Every path of Resolve, with and without an expected account.
AllPaths ==
    {Resolve("auto", 1, FALSE, FALSE, a1),
     Resolve("auto", 0, TRUE, TRUE, NoAccount),
     Resolve("only", 1, FALSE, FALSE, NoAccount),
     Resolve("off", 0, FALSE, FALSE, a1),
     PutRequest}

\* A request that may answer stale.
FaultRequests == {Resolve("auto", 0, FALSE, TRUE, NoAccount)}

ForcedRequest == {Resolve("auto", 1, TRUE, FALSE, NoAccount)}

ProcessSymmetry == Permutations(Processes)
=============================================================================
