--------------------------- MODULE MCCredentials ---------------------------
(***************************************************************************)
(* Credentials for TLC: two requests, two files, two logins.               *)
(***************************************************************************)
EXTENDS Credentials, TLC

CONSTANTS p1, p2, a, b

AllSources == {"codex", "claude", "claude_mac", "cursor", "cursor_mac", "devin", "grok"}

MCOwner == <<a, b>>

Symmetry == Permutations({p1, p2})

=============================================================================
