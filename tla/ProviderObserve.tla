-------------------------- MODULE ProviderObserve --------------------------
(***************************************************************************)
(* One Observe of one provider adapter, from the request of the command    *)
(* line to the exit code: the checks, the credentials, the one to three    *)
(* calls, the answers, and two contexts that may end at any time: the      *)
(* caller's, and the adapter's own, a child of it with a 15 s budget that  *)
(* all calls share.                                                        *)
(*                                                                         *)
(* An answer is a status and a body; of a body the model keeps what makes  *)
(* the adapter take another branch.  The credentials are those of the      *)
(* account "mine".  Definitions named Bug... are mistakes one could make   *)
(* in the definition that follows them.                                    *)
(***************************************************************************)
EXTENDS ProviderErrors

VARIABLES
    request,      \* evidence.Request, the source of the credentials, the cache policy
    interrupted,  \* SIGINT reached the context of the command
    caller,       \* the context given to Observe: live, or why it ended
    budget,       \* the context of the calls, likewise
    pc,           \* validate, credentials, ready, waiting, normalize, done, printed, exited
    received,     \* the answers so far, one per call
    err,          \* what Observe returned
    observation,  \* none, partial or complete
    reported,     \* what the command returned to its caller
    exit          \* the exit code, -1 before the end

vars == <<request, interrupted, caller, budget, pc, received, err, observation,
          reported, exit>>

Accounts == {"", "mine", "other"}

\* cached is FALSE under --cache off.  prompt is --allow-keychain-prompt.
Requests ==
    {r \in [provider : Providers, profile : {"default", "other"}, account : Accounts,
            source : {"file", "keychain", "none"}, prompt : BOOLEAN, cached : BOOLEAN] :
        /\ r.source = "keychain" => r.provider \in {"claude", "cursor"}
        /\ r.prompt => r.provider \in {"claude", "cursor"}}

Provider == request.provider

Calls ==
    [codex  |-> <<"usage">>,
     claude |-> <<"profile", "usage">>,
     grok   |-> <<"credits">>,
     devin  |-> <<"status">>,
     cursor |-> <<"usage", "plan", "sand">>]

Supplements == {"plan", "sand"}

----------------------------------------------------------------------------
(* Answers *)

\* The code of a Connect error (Devin) or the gRPC status of a reply (Grok).
CodeErrors ==
    [rejects   |-> {"rejected"},
     exhausted |-> {"retry", "transient"},
     faulty    |-> {"transient"}]

Codes == DOMAIN CodeErrors

ForbiddenErrors ==
    [codex  |-> {"rejected"},
     claude |-> {"transient"},
     grok   |-> {"rejected"},
     devin  |-> {"rejected"},
     cursor |-> {"forbidden"}]

StatusErrors(provider) ==
    [unauthorized |-> {"rejected"},
     forbidden    |-> ForbiddenErrors[provider],
     limited      |-> {"retry", "transient"},
     server       |-> {"transient"}]

\* Bodies of a 200: "malformed" does not decode, "invalid" decodes to what
\* the adapter refuses, "foreign" names another account, "anonymous" none,
\* "incomplete" lacks a limit, "negative" has a spend limit below zero.
Bodies(provider, call) ==
    {"good", "malformed", "unreadable", "oversize"}
    \cup (IF call \in Supplements THEN {} ELSE {"invalid"})
    \cup (IF call \in {"profile", "status"} \/ provider = "codex" THEN {"foreign"} ELSE {})
    \cup (IF provider = "devin" THEN {"anonymous", "incomplete"} ELSE {})
    \cup (IF provider = "grok" THEN Codes ELSE {})
    \cup (IF provider = "cursor" /\ call = "usage" THEN {"negative"} ELSE {})

\* Only Devin reads the body of a failed call.
ErrorBodies(provider) ==
    {"unread"} \cup IF provider = "devin" THEN Codes \cup {"unreadable", "oversize"} ELSE {}

Lost == [status |-> "lost", body |-> "unread"]

Answers(provider, call) ==
    [status : {"ok"}, body : Bodies(provider, call)]
    \cup [status : {"unauthorized", "forbidden", "limited", "server"}, body : ErrorBodies(provider)]
    \cup {Lost}

BodyErrors(provider) ==
    [unreadable |-> {"transient"},
     oversize   |-> {},
     malformed  |-> IF provider = "cursor" THEN {} ELSE {"transient"},
     invalid    |-> IF provider = "grok" THEN {"transient"} ELSE {}]

AccountOf(body) ==
    CASE body = "foreign" -> "other" [] body = "anonymous" -> "" [] OTHER -> "mine"

\* Codex compares the answer with its credentials, Claude and Devin with the selector.
AccountError(r, body) ==
    CASE r.provider = "codex" /\ AccountOf(body) = "other" -> {"mismatch"}
      [] r.provider = "claude" /\ r.account \notin {"", AccountOf(body)} -> {"wrong_account"}
      [] r.provider = "devin" /\ r.account # "" /\ AccountOf(body) = "" -> {"wrong_account"}
      [] r.provider = "devin" /\ r.account # "" /\ AccountOf(body) \notin {"", r.account} -> {"mismatch"}
      [] OTHER -> NoError

\* The error of one call; context is why the calls' context ended, if it did.
AnswerError(r, call, answer, context) ==
    LET p == r.provider
        body == answer.body
    IN  IF answer = Lost THEN {"transient"} \cup ({context} \cap ContextErrors)
        ELSE IF p = "devin" /\ body \in {"unreadable", "oversize"} THEN BodyErrors(p)[body]
        ELSE IF body \in Codes THEN CodeErrors[body]
        ELSE IF answer.status # "ok" THEN StatusErrors(p)[answer.status]
        ELSE IF body \in DOMAIN BodyErrors(p) THEN BodyErrors(p)[body]
        ELSE IF p = "claude" /\ call = "usage" THEN NoError
        ELSE AccountError(r, body)

----------------------------------------------------------------------------
(* One Observe *)

Init ==
    /\ request \in Requests
    /\ interrupted = FALSE
    /\ caller = "live"
    /\ budget = "live"
    /\ pc = "validate"
    /\ received = <<>>
    /\ err = NoError
    /\ observation = "none"
    /\ reported = NoError
    /\ exit = -1

output == <<reported, exit>>

contexts == <<interrupted, caller, budget>>

\* Wraps the absent error of a success as well.
BugReturn(error, evidence) ==
    /\ pc' = "done"
    /\ err' = CollectionError(error)
    /\ observation' = evidence

Return(error, evidence) ==
    /\ pc' = "done"
    /\ err' = error
    /\ observation' = evidence

Fail(error) == Return(error, "none")

Proceed(next) ==
    /\ pc' = next
    /\ UNCHANGED <<err, observation>>

\* validateRequest of the adapters, with the check of the context.
RequestError ==
    LET ended == <<caller # "live", {caller}>>
        unselected == <<request.profile # "default", {"invalid_selection"}>>
    IN  FirstError(
            CASE Provider = "codex" -> <<unselected>>
              [] Provider = "cursor" ->
                    <<ended, unselected,
                      <<request.account # "", {"wrong_account"}>>,
                      <<request.source = "none", CollectionError({})>> >>
              [] OTHER -> <<unselected, ended>>)

Validate ==
    /\ pc = "validate"
    /\ IF RequestError = NoError THEN Proceed("credentials") ELSE Fail(RequestError)
    /\ UNCHANGED <<request, contexts, received, output>>

\* Grok asks in spite of the selector.
BugSelectorRefused == Provider = "codex" /\ request.account = "other"

\* Codex knows the account of its credentials; Grok's calls cannot tell one.
SelectorRefused ==
    \/ Provider = "codex" /\ request.account = "other"
    \/ Provider = "grok" /\ request.account # ""

\* A keychain helper that was stopped reports why.
CredentialErrors ==
    {{}} \cup (IF request.source = "keychain" /\ budget # "live" THEN {{budget}} ELSE {})

CredentialFailure(error) ==
    IF Provider = "cursor" /\ caller # "live" THEN {caller} ELSE CollectionError(error)

NeedsPrompt == request.source = "keychain" /\ ~request.prompt

ReadCredentials ==
    /\ pc = "credentials"
    /\ \/ /\ NeedsPrompt
          /\ Fail(CollectionError({}))
       \/ /\ ~NeedsPrompt
          /\ \E error \in CredentialErrors : Fail(CredentialFailure(error))
       \/ /\ ~NeedsPrompt
          /\ request.source # "none"
          /\ IF SelectorRefused THEN Fail({"wrong_account"}) ELSE Proceed("ready")
    /\ UNCHANGED <<request, contexts, received, output>>

\* Claude compares accounts outside its fetch and returns the error bare.
CallFailure(error) ==
    IF Provider = "claude" /\ error = {"wrong_account"} THEN error ELSE CollectionError(error)

\* Takes a rejected supplement for a missing one.
BugSupplementFailure(error) == FirstError(<< <<caller # "live", {caller}>> >>)

\* A supplement of Cursor fails the whole only when it is rejected.
SupplementFailure(error) ==
    FirstError(<< <<caller # "live", {caller}>>,
                  <<"rejected" \in error, CollectionError(error)>> >>)

Take(answer) ==
    LET call == Calls[Provider][Len(received) + 1]
        error == AnswerError(request, call, answer, budget)
        failure == IF call \in Supplements THEN SupplementFailure(error)
                   ELSE IF error = NoError THEN NoError
                   ELSE CallFailure(error)
    IN  /\ received' = Append(received, answer)
        /\ IF failure # NoError
              THEN Fail(failure)
              ELSE Proceed(IF Len(received') = Len(Calls[Provider]) THEN "normalize" ELSE "ready")
        /\ UNCHANGED <<request, contexts, output>>

\* A call under a context that has ended is not made.
Send ==
    /\ pc = "ready"
    /\ IF budget # "live"
          THEN Take(Lost)
          ELSE /\ Proceed("waiting")
               /\ UNCHANGED <<request, contexts, received, output>>

Receive ==
    /\ pc = "waiting"
    /\ \E answer \in Answers(Provider, Calls[Provider][Len(received) + 1]) : Take(answer)

\* The calls are bound to the context of the caller.
BugAbandon ==
    /\ pc = "waiting"
    /\ caller # "live"
    /\ Take(Lost)

\* The client stops waiting when the context of the calls ends.
Abandon ==
    /\ pc = "waiting"
    /\ budget # "live"
    /\ Take(Lost)

GapError(i) == AnswerError(request, Calls[Provider][i], received[i], "live")

\* Only a failed status leaves a gap.
BugGaps ==
    {i \in DOMAIN received : Calls[Provider][i] \in Supplements /\ received[i].status # "ok"}

Gaps == {i \in DOMAIN received : Calls[Provider][i] \in Supplements /\ GapError(i) # NoError}

Normalize ==
    /\ pc = "normalize"
    /\ LET failure == FirstError(<< <<Provider = "cursor" /\ caller # "live", {caller}>>,
                                    <<received[1].body = "negative", {}>> >>)
       IN  IF failure # NoError
              THEN Fail(failure)
              ELSE Return(NoError, IF Gaps # {} \/ received[1].body = "incomplete"
                                      THEN "partial" ELSE "complete")
    /\ UNCHANGED <<request, contexts, received, output>>

----------------------------------------------------------------------------
(* The command line and the contexts *)

\* An incomplete observation is printed like another.
BugCommandErrorPartial ==
    FirstError(<< <<request.cached /\ interrupted, {"canceled"}>>,
                  <<err # NoError, err>> >>)

\* The error of the adapter comes before the interrupt.
BugCommandErrorOrder ==
    FirstError(<< <<err # NoError, err>>,
                  <<request.cached /\ interrupted, {"canceled"}>>,
                  <<observation = "partial", {"partial"}>> >>)

\* observe and runReport: what the command returns.
CommandError ==
    FirstError(<< <<request.cached /\ interrupted, {"canceled"}>>,
                  <<err # NoError, err>>,
                  <<observation = "partial", {"partial"}>> >>)

Conclude ==
    /\ pc = "done"
    /\ reported' = CommandError
    /\ pc' = "printed"
    /\ UNCHANGED <<request, contexts, received, err, observation, exit>>

Exit ==
    /\ pc = "printed"
    /\ exit' = ExitCode(reported, interrupted)
    /\ pc' = "exited"
    /\ UNCHANGED <<request, contexts, received, err, observation, reported>>

Returned == pc \in {"done", "printed", "exited"}

\* The first end of a context is the one it reports.
EndAs(context, why) == IF context = "live" THEN why ELSE context

Interrupt ==
    /\ pc # "exited"
    /\ ~interrupted
    /\ interrupted' = TRUE
    /\ caller' = EndAs(caller, "canceled")
    /\ budget' = EndAs(budget, "canceled")
    /\ UNCHANGED <<request, pc, received, err, observation, output>>

\* Store.Resolve gives Observe a context of its own.
OperationTimeout ==
    /\ request.cached
    /\ ~Returned
    /\ caller = "live"
    /\ caller' = "deadline"
    /\ budget' = EndAs(budget, "deadline")
    /\ UNCHANGED <<request, interrupted, pc, received, err, observation, output>>

CallTimeout ==
    /\ pc \in {"credentials", "ready", "waiting"}
    /\ budget = "live"
    /\ budget' = "deadline"
    /\ UNCHANGED <<request, interrupted, caller, pc, received, err, observation, output>>

Work == Validate \/ ReadCredentials \/ Send \/ Abandon \/ Normalize \/ Conclude \/ Exit

Next == Work \/ Receive \/ Interrupt \/ OperationTimeout \/ CallTimeout

Spec == Init /\ [][Next]_vars

\* The process runs and its budget runs out; providers promise nothing.
FairSpec == Spec /\ WF_vars(Work) /\ WF_vars(CallTimeout)

----------------------------------------------------------------------------
(* Properties *)

TypeOK ==
    /\ request \in Requests
    /\ interrupted \in BOOLEAN
    /\ caller \in ContextErrors \cup {"live"}
    /\ budget \in ContextErrors \cup {"live"}
    /\ pc \in {"validate", "credentials", "ready", "waiting", "normalize", "done",
              "printed", "exited"}
    /\ Len(received) <= Len(Calls[Provider])
    /\ err \in IsErrors
    /\ observation \in {"none", "partial", "complete"}
    /\ reported \in IsErrors
    /\ exit \in {-1, 0, 1, 2, 3, 130}

\* What the cache records of this Observe.
Verdict == Failure(Provider, err)

\* The i-th answer says that the credentials are rejected, by a 401 or a code
\* of its own, and could be read.
Rejection(i) ==
    \/ received[i].body = "rejects"
    \/ received[i].status = "unauthorized" /\ received[i].body = "unread"

\* A rejection by any call revokes, whatever the other calls said and however
\* much evidence they gave, unless the caller is gone (cursor/adapter.go:160-177,
\* grok/grpcweb.go:100-107, devin/adapter.go:215-232).
RejectionRevokes ==
    Returned /\ (\E i \in DOMAIN received : Rejection(i)) =>
        Verdict = "revoked" \/ err \in {{"canceled"}, {"deadline"}}

\* A timeout, an interrupt or a failing server never passes for a rejection or
\* for another account, which would revoke the cached evidence of everyone.
VerdictHasCause ==
    Returned =>
        /\ Verdict = "revoked" =>
              \E i \in DOMAIN received :
                  Rejection(i) \/ received[i].status \in {"unauthorized", "forbidden"}
        /\ Verdict = "account_mismatch" =>
              \/ request.account # ""
              \/ \E i \in DOMAIN received : AccountOf(received[i].body) = "other"
        /\ Verdict = "none" <=> observation # "none"

\* Evidence is complete only if each call of the provider was answered in
\* full, and partial only with its primary call answered; Cursor's may lack
\* supplements (cursor/adapter.go:147-181).
EvidenceTellsItsGaps ==
    observation # "none" =>
        /\ Len(received) = Len(Calls[Provider])
        /\ received[1].status = "ok"
        /\ observation = "complete" =>
              \A i \in DOMAIN received :
                  received[i].status = "ok" /\ received[i].body \in {"good", "foreign", "anonymous"}

\* A selector that names another account gets no evidence, and a provider that
\* can tell before it asks for quota does not ask: Codex, Grok and Cursor send
\* nothing, Claude only the profile call.
WrongAccountLearnsNothing ==
    request.account = "other" =>
        /\ Provider \in {"codex", "grok", "cursor"} => received = <<>> /\ pc # "waiting"
        /\ observation # "none" => AccountOf(received[1].body) = "other"
        /\ Provider = "claude" /\ Len(received) = 2 => AccountOf(received[1].body) = "other"

\* Cursor never gives evidence to a caller that left before its calls ended
\* (docs/features/cursor.md:31), and an interrupt that comes before anything
\* is printed is what a command with a cache exits with, whatever the provider
\* said meanwhile (cache_adapter.go:141-144, run.go:78-82).
CancellationWins ==
    /\ [](Provider = "cursor" /\ caller # "live" /\ ~Returned => [](observation = "none"))
    /\ (request.cached /\ interrupted /\ pc \notin {"printed", "exited"}) ~> (exit = 130)

\* An exit code of 0 or 3 says what was printed, 1 and 2 that nothing was.
ExitTellsOutcome ==
    pc = "exited" =>
        /\ exit = 0 => observation = "complete"
        /\ exit = 3 => observation = "partial"
        /\ exit \in {1, 2} => observation = "none"

\* A command ends although no provider ever answers: one budget covers all
\* calls and the keychain.
CommandEnds == <>(pc = "exited")

\* Documented: an observed 401 or 403 blocks stale fallback
\* (docs/features/quota-evidence.md:90).
ObservedRejectionRevokes ==
    Returned /\ (\E i \in DOMAIN received :
                    received[i].status \in {"unauthorized", "forbidden"} /\ received[i].body = "unread") =>
        Verdict = "revoked" \/ err \in {{"canceled"}, {"deadline"}}

\* An answer came in full after all.
Answered ==
    /\ received # <<>>
    /\ received[Len(received)] # Lost
    /\ received[Len(received)].body # "unreadable"

\* Documented: 130 when cancellation reaches the command
\* (docs/remainder/cli-contract.md:16), here a call that it cut off.
InterruptExits130 ==
    (pc = "waiting" /\ interrupted) ~> (exit = 130 \/ Answered)
=============================================================================
