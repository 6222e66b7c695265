------------------------ MODULE ProviderObserveProofs -------------------------
(***************************************************************************)
(* Theorems about ProviderObserve, for every provider, request, sequence   *)
(* of answers and moment at which a context ends.                          *)
(***************************************************************************)
EXTENDS ProviderObserve, ProviderErrorsProofs, TLAPS

----------------------------------------------------------------------------
(* The calls of a provider and the answers to one *)

\* Bodies of a 200 that the adapter reads to the end.
Read == {"good", "foreign", "anonymous", "incomplete", "negative"}

CallNames == {"usage", "profile", "credits", "status", "plan", "sand"}

LEMMA CallsOfProvider ==
    ASSUME NEW p \in Providers
    PROVE  /\ Calls[p] \in Seq(CallNames)
           /\ Len(Calls[p]) \in 1..3
           /\ Calls[p][1] \notin Supplements
           /\ p # "cursor" => \A i \in DOMAIN Calls[p] : Calls[p][i] \notin Supplements
           /\ p = "claude" =>
                 /\ Len(Calls[p]) = 2
                 /\ Calls[p][1] = "profile"
                 /\ Calls[p][2] = "usage"
           /\ p = "cursor" => \A i \in DOMAIN Calls[p] : i # 1 => Calls[p][i] \in Supplements
           /\ p \notin {"claude", "cursor"} => Len(Calls[p]) = 1
<1>1. /\ Calls["codex"] = <<"usage">> /\ Calls["claude"] = <<"profile", "usage">>
      /\ Calls["grok"] = <<"credits">> /\ Calls["devin"] = <<"status">>
      /\ Calls["cursor"] = <<"usage", "plan", "sand">>
  BY DEF Calls
<1>2. CASE p = "claude"
  <2>1. Calls[p] = <<"profile", "usage">>
    BY <1>1, <1>2
  <2>2. Calls[p] \in Seq(CallNames) /\ Len(Calls[p]) = 2
    BY <2>1 DEF CallNames
  <2> QED
    BY <1>2, <2>1, <2>2 DEF Supplements
<1>3. CASE p = "cursor"
  <2>1. Calls[p] = <<"usage", "plan", "sand">>
    BY <1>1, <1>3
  <2>2. Calls[p] \in Seq(CallNames) /\ Len(Calls[p]) = 3
    BY <2>1 DEF CallNames
  <2> QED
    BY <1>3, <2>1, <2>2 DEF Supplements
<1>4. ASSUME NEW call \in {"usage", "credits", "status"}, Calls[p] = <<call>>,
             p \notin {"claude", "cursor"}
      PROVE  /\ Calls[p] \in Seq(CallNames)
             /\ Len(Calls[p]) = 1
             /\ \A i \in DOMAIN Calls[p] : Calls[p][i] \notin Supplements
  BY <1>4 DEF CallNames, Supplements
<1> QED
  BY <1>1, <1>2, <1>3, <1>4 DEF Providers

LEMMA AnswerBodies ==
    ASSUME NEW p, NEW call, NEW a \in Answers(p, call)
    PROVE  /\ a.status \in {"ok", "unauthorized", "forbidden", "limited", "server", "lost"}
           /\ a.status = "ok" => a.body \in Bodies(p, call)
           /\ a.status \notin {"ok", "lost"} => a.body \in ErrorBodies(p)
           /\ a.status = "lost" <=> a = Lost
           /\ a.status = "lost" => a.body = "unread"
BY DEF Answers, Lost

\* What one answer makes of its call.
Reading(r, call, a, context, e) ==
    \/ a = Lost /\ e = {"transient"} \cup ({context} \cap ContextErrors)
    \/ a # Lost /\ a.body = "rejects" /\ e = {"rejected"}
    \/ a # Lost /\ a.body \in {"exhausted", "faulty"} /\ e \subseteq {"retry", "transient"}
    \/ a.status = "unauthorized" /\ a.body = "unread" /\ e = {"rejected"}
    \/ /\ a.status = "forbidden" /\ a.body = "unread"
       /\ e \in {{"rejected"}, {"transient"}, {"forbidden"}}
    \/ /\ a.status \in {"limited", "server"} /\ a.body = "unread"
       /\ e \subseteq {"retry", "transient"}
    \/ /\ a # Lost /\ a.body \in {"unreadable", "oversize", "malformed", "invalid"}
       /\ e \subseteq {"transient"}
    \/ /\ a.status = "ok" /\ a.body \in Read
       /\ e = IF r.provider = "claude" /\ call = "usage"
                 THEN NoError ELSE AccountError(r, a.body)

LEMMA AnswerErrorCases ==
    ASSUME NEW r, r.provider \in Providers,
           NEW call, NEW a \in Answers(r.provider, call), NEW context
    PROVE  Reading(r, call, a, context, AnswerError(r, call, a, context))
<1> DEFINE e == AnswerError(r, call, a, context)
<1> USE AnswerBodies DEF Reading
<1>1. CASE a = Lost
  BY <1>1 DEF AnswerError
<1>2. CASE a # Lost /\ a.body \in Codes
  <2>1. a.body \in {"rejects", "exhausted", "faulty"}
    BY <1>2 DEF Codes, CodeErrors
  <2>2. e = CodeErrors[a.body]
    BY <1>2, <2>1 DEF AnswerError
  <2> QED
    BY <1>2, <2>1, <2>2 DEF CodeErrors
<1>3. CASE a # Lost /\ a.body \in {"unreadable", "oversize"}
  <2>1. a.body \notin Codes
    BY <1>3 DEF Codes, CodeErrors
  <2>2. a.body \in DOMAIN BodyErrors(r.provider)
    BY <1>3 DEF BodyErrors
  <2>3. r.provider # "devin" => a.status = "ok"
    BY <1>3 DEF ErrorBodies
  <2>4. e = BodyErrors(r.provider)[a.body]
    BY <1>3, <2>1, <2>2, <2>3 DEF AnswerError
  <2> QED
    BY <1>3, <2>4 DEF BodyErrors
<1>4. CASE a # Lost /\ a.status # "ok" /\ a.body = "unread"
  <2>1. a.body \notin Codes
    BY <1>4 DEF Codes, CodeErrors
  <2>2. e = StatusErrors(r.provider)[a.status]
    BY <1>4, <2>1 DEF AnswerError
  <2>3. ForbiddenErrors[r.provider] \in {{"rejected"}, {"transient"}, {"forbidden"}}
    BY DEF ForbiddenErrors, Providers
  <2> QED
    BY <1>4, <2>2, <2>3 DEF StatusErrors
<1>5. CASE a.status = "ok" /\ a.body \in {"malformed", "invalid"}
  <2>1. a.body \notin Codes /\ a # Lost
    BY <1>5 DEF Codes, CodeErrors
  <2>2. e = BodyErrors(r.provider)[a.body]
    BY <1>5, <2>1 DEF AnswerError, BodyErrors
  <2> QED
    BY <1>5, <2>1, <2>2 DEF BodyErrors
<1>6. CASE a.status = "ok" /\ a.body \in Read
  <2>1. a.body \notin Codes /\ a # Lost
    BY <1>6 DEF Codes, CodeErrors, Read
  <2>2. a.body \notin DOMAIN BodyErrors(r.provider)
    BY <1>6 DEF BodyErrors, Read
  <2> QED
    BY <1>6, <2>1, <2>2 DEF AnswerError, Read
<1>7. a.status = "ok" => a.body \in Read \cup Codes \cup {"unreadable", "oversize", "malformed", "invalid"}
  BY DEF Bodies, Read
<1>8. a.status \notin {"ok", "lost"} => a.body \in Codes \cup {"unreadable", "oversize", "unread"}
  BY DEF ErrorBodies
<1> HIDE DEF e
<1> QED
  BY <1>1, <1>2, <1>3, <1>4, <1>5, <1>6, <1>7, <1>8 DEF Reading

\* No part of an error says that it is partial: only the command does.
Refusals == Sentinels \ {"partial"}

LEMMA AccountErrorCases ==
    ASSUME NEW r, NEW body
    PROVE  LET e == AccountError(r, body)
           IN  \/ e = NoError
               \/ e = {"mismatch"} /\ AccountOf(body) = "other"
               \/ e \in {{"mismatch"}, {"wrong_account"}} /\ r.account # ""
<1>1. AccountOf(body) \in {"other", "", "mine"}
  BY DEF AccountOf
<1>2. r.account \notin {"", AccountOf(body)} => r.account # ""
  OBVIOUS
<1> QED
  BY <1>1, <1>2 DEF AccountError

Meaning(r, call, a, e) ==
    /\ e = NoError \/ e \subseteq Refusals
    /\ e = NoError =>
          /\ a.status = "ok" /\ a.body \in Read
          /\ \/ r.provider = "claude" /\ call = "usage"
             \/ AccountError(r, a.body) = NoError
    /\ "rejected" \in e =>
          a.body = "rejects" \/ a.status \in {"unauthorized", "forbidden"}
    /\ a.body = "rejects" \/ (a.status = "unauthorized" /\ a.body = "unread") =>
          e = {"rejected"}
    /\ "mismatch" \in e \/ "wrong_account" \in e =>
          r.account # "" \/ AccountOf(a.body) = "other"

LEMMA AnswerErrorMeaning ==
    ASSUME NEW r, r.provider \in Providers,
           NEW call, NEW a \in Answers(r.provider, call), NEW context
    PROVE  Meaning(r, call, a, AnswerError(r, call, a, context))
<1> DEFINE e == AnswerError(r, call, a, context)
<1>0. Reading(r, call, a, context, e)
  BY AnswerErrorCases
<1> HIDE DEF e
<1> SUFFICES Meaning(r, call, a, e)
  BY DEF e
<1> USE DEF Meaning
<1> DEFINE account == AccountError(r, a.body)
<1>1. \/ a = Lost /\ e = {"transient"} \cup ({context} \cap ContextErrors)
      \/ a # Lost /\ a.body = "rejects" /\ e = {"rejected"}
      \/ a # Lost /\ a.body \in {"exhausted", "faulty"} /\ e \subseteq {"retry", "transient"}
      \/ a.status = "unauthorized" /\ a.body = "unread" /\ e = {"rejected"}
      \/ /\ a.status = "forbidden" /\ a.body = "unread"
         /\ e \in {{"rejected"}, {"transient"}, {"forbidden"}}
      \/ /\ a.status \in {"limited", "server"} /\ a.body = "unread"
         /\ e \subseteq {"retry", "transient"}
      \/ /\ a # Lost /\ a.body \in {"unreadable", "oversize", "malformed", "invalid"}
         /\ e \subseteq {"transient"}
      \/ /\ a.status = "ok" /\ a.body \in Read
         /\ e = IF r.provider = "claude" /\ call = "usage" THEN NoError ELSE account
  BY <1>0 DEF Reading
<1>2. \/ account = NoError
      \/ account = {"mismatch"} /\ AccountOf(a.body) = "other"
      \/ account \in {{"mismatch"}, {"wrong_account"}} /\ r.account # ""
  BY AccountErrorCases
<1>3. Lost.status = "lost" /\ Lost.body = "unread"
  BY DEF Lost
<1>4. \A b \in Read : b \notin {"rejects", "unread"}
  BY DEF Read
<1> DEFINE blameless == {"transient", "retry", "forbidden", "canceled", "deadline"}
<1>5. /\ NoError = {"nil"}
      /\ blameless \cup {"rejected", "mismatch", "wrong_account"} \subseteq Refusals
  BY DEF NoError, Refusals, Sentinels, ContextErrors
<1>6. {context} \cap ContextErrors \subseteq {"canceled", "deadline"}
  BY DEF ContextErrors
<1>7. \A f \in SUBSET blameless :
         f # NoError /\ "rejected" \notin f /\ "mismatch" \notin f /\ "wrong_account" \notin f
  BY <1>5
<1> DEFINE told == \/ a.body = "rejects"
                   \/ a.status = "unauthorized" /\ a.body = "unread"
<1> HIDE DEF account
<1>8. \/ e \in SUBSET blameless /\ ~told
      \/ e = {"rejected"} /\ (a.body = "rejects" \/ a.status \in {"unauthorized", "forbidden"})
      \/ a.status = "ok" /\ a.body \in Read /\ r.provider = "claude" /\ call = "usage" /\ e = NoError
      \/ a.status = "ok" /\ a.body \in Read /\ e = account
  <2>1. CASE a = Lost /\ e = {"transient"} \cup ({context} \cap ContextErrors)
    BY <1>3, <1>6, <2>1
  <2>2. CASE a.status = "ok" /\ a.body \in Read
    BY <1>1, <1>3, <1>4, <2>2
  <2>3. CASE a # Lost /\ a.body = "rejects" /\ e = {"rejected"}
    BY <2>3
  <2>4. CASE a # Lost /\ a.body \in {"exhausted", "faulty"} /\ e \subseteq {"retry", "transient"}
    BY <2>4
  <2>5. CASE a.status = "unauthorized" /\ a.body = "unread" /\ e = {"rejected"}
    BY <2>5
  <2>6. CASE /\ a.status = "forbidden" /\ a.body = "unread"
             /\ e \in {{"rejected"}, {"transient"}, {"forbidden"}}
    BY <2>6
  <2>7. CASE /\ a.status \in {"limited", "server"} /\ a.body = "unread"
             /\ e \subseteq {"retry", "transient"}
    BY <2>7
  <2>8. CASE /\ a # Lost /\ a.body \in {"unreadable", "oversize", "malformed", "invalid"}
             /\ e \subseteq {"transient"}
    BY <2>8
  <2> QED
    BY <1>1, <2>1, <2>2, <2>3, <2>4, <2>5, <2>6, <2>7, <2>8
<1>9. CASE e \in SUBSET blameless /\ ~told
  BY <1>5, <1>7, <1>9
<1>10. CASE e = {"rejected"} /\ (a.body = "rejects" \/ a.status \in {"unauthorized", "forbidden"})
  BY <1>5, <1>10
<1>11. CASE /\ a.status = "ok" /\ a.body \in Read /\ r.provider = "claude" /\ call = "usage"
            /\ e = NoError
  <2>1. ~told /\ e = {"nil"}
    BY <1>4, <1>5, <1>11
  <2>2. "rejected" \notin e /\ "mismatch" \notin e /\ "wrong_account" \notin e
    BY <2>1
  <2> QED
    BY <1>11, <2>1, <2>2
<1>12. CASE a.status = "ok" /\ a.body \in Read /\ e = account
  <2>1. ~told
    BY <1>4, <1>12
  <2>2. CASE account = NoError
    BY <1>5, <1>12, <2>1, <2>2 DEF account
  <2>3. CASE account = {"mismatch"} /\ AccountOf(a.body) = "other"
    BY <1>5, <1>12, <2>1, <2>3
  <2>4. CASE account \in {{"mismatch"}, {"wrong_account"}} /\ r.account # ""
    BY <1>5, <1>12, <2>1, <2>4
  <2> QED
    BY <1>2, <2>2, <2>3, <2>4
<1> QED
  BY <1>8, <1>9, <1>10, <1>11, <1>12

\* What the cache makes of an error.
LEMMA VerdictOfError ==
    ASSUME NEW p, NEW e, e # NoError
    PROVE  /\ Failure(p, e) # "none"
           /\ Failure(p, e) = "revoked" => "rejected" \in e
           /\ Failure(p, e) = "account_mismatch" => "mismatch" \in e \/ "wrong_account" \in e
           /\ "rejected" \in e /\ "retry" \notin e /\ "wrong_account" \notin e =>
                 Failure(p, e) = "revoked"
<1>1. CASE p = "cursor"
  BY <1>1, FailureOfCursor
<1>2. CASE p # "cursor"
  BY <1>2, FailureOfOthers
<1> QED
  BY <1>1, <1>2

----------------------------------------------------------------------------
(* The inductive invariant *)

BodyNames == Read \cup Codes \cup {"malformed", "unreadable", "oversize", "invalid", "unread"}

AnyAnswer ==
    [status : {"ok", "unauthorized", "forbidden", "limited", "server", "lost"}, body : BodyNames]

\* One answer per call, in the order of the calls.
ReceivedType ==
    /\ received \in Seq(AnyAnswer)
    /\ \A i \in DOMAIN received : received[i] \in Answers(Provider, Calls[Provider][i])

\* Where Observe is.
Progress ==
    /\ pc \in {"validate", "credentials"} => received = <<>>
    /\ pc \in {"ready", "waiting"} => Len(received) < Len(Calls[Provider])
    /\ pc = "normalize" => Len(received) = Len(Calls[Provider])
    /\ ~Returned => err = NoError /\ observation = "none"

\* Nothing is asked under a selector the provider can refuse beforehand.
Selected ==
    /\ Provider = "cursor" /\ pc = "credentials" => request.account = ""
    /\ pc \in {"ready", "waiting", "normalize"} \/ received # <<>> =>
          ~SelectorRefused /\ (Provider = "cursor" => request.account = "")

\* The i-th answer let Observe go on.
Accepted(i) ==
    IF Calls[Provider][i] \in Supplements
       THEN "rejected" \notin GapError(i)
       ELSE /\ received[i].status = "ok" /\ received[i].body \in Read
            /\ \/ Provider = "claude" /\ Calls[Provider][i] = "usage"
               \/ AccountError(request, received[i].body) = NoError

\* Observe goes on after an answer, and evidence is given, only if so.
Sieved ==
    /\ ~Returned => \A i \in DOMAIN received : Accepted(i)
    /\ \A i \in DOMAIN received : i < Len(received) => Accepted(i)
    /\ observation # "none" =>
          /\ Len(received) = Len(Calls[Provider])
          /\ \A i \in DOMAIN received : Accepted(i)
          /\ received[1].body # "negative"
    /\ observation = "complete" => Gaps = {} /\ received[1].body # "incomplete"

\* What Observe returned.
Outcome ==
    /\ err = NoError \/ err \subseteq Refusals
    /\ Returned => (err = NoError <=> observation # "none")

\* What the command returned.
ReportedOutcome ==
    pc \in {"printed", "exited"} =>
        \/ reported = NoError /\ observation = "complete"
        \/ reported = {"partial"} /\ observation = "partial"
        \/ reported = {"canceled"}
        \/ reported \subseteq Refusals /\ observation = "none"

IInv ==
    /\ TypeOK
    /\ ReceivedType
    /\ Progress
    /\ Selected
    /\ Sieved
    /\ Outcome
    /\ RejectionRevokes
    /\ VerdictHasCause
    /\ ReportedOutcome
    /\ ExitTellsOutcome

----------------------------------------------------------------------------
(* The steps *)

LEMMA AnswersTyped ==
    ASSUME NEW p, NEW call
    PROVE  Answers(p, call) \subseteq AnyAnswer
<1>1. Codes \subseteq BodyNames
  BY DEF BodyNames
<1>2. Bodies(p, call) \subseteq BodyNames
  BY <1>1 DEF Bodies, BodyNames, Read
<1>3. ErrorBodies(p) \subseteq BodyNames
  BY <1>1 DEF ErrorBodies, BodyNames
<1> QED
  BY <1>2, <1>3 DEF Answers, AnyAnswer, Lost, BodyNames

LEMMA AcceptedIsNoRejection ==
    ASSUME IInv, NEW i \in DOMAIN received, Accepted(i)
    PROVE  ~Rejection(i)
<1>1. Provider \in Providers /\ received[i] \in Answers(Provider, Calls[Provider][i])
  BY DEF IInv, TypeOK, ReceivedType, Provider, Requests
<1>2. CASE Calls[Provider][i] \in Supplements
  <2> DEFINE e == AnswerError(request, Calls[Provider][i], received[i], "live")
  <2>1. "rejected" \notin e
    BY <1>2 DEF Accepted, GapError
  <2>2. request.provider \in Providers
        /\ received[i] \in Answers(request.provider, Calls[Provider][i])
    BY <1>1 DEF Provider
  <2>3. received[i].body = "rejects" \/ (received[i].status = "unauthorized" /\ received[i].body = "unread")
          => e = {"rejected"}
    <3>1. Meaning(request, Calls[Provider][i], received[i], e)
      BY <2>2, AnswerErrorMeaning
    <3> HIDE DEF e
    <3> QED
      BY <3>1 DEF Meaning
  <2> QED
    BY <2>1, <2>3 DEF Rejection
<1>3. CASE Calls[Provider][i] \notin Supplements
  <2>1. received[i].status = "ok" /\ received[i].body \in Read
    BY <1>3 DEF Accepted
  <2> QED
    BY <2>1 DEF Rejection, Read
<1> QED
  BY <1>2, <1>3

LEMMA SupplementFailureForm ==
    ASSUME NEW error
    PROVE  SupplementFailure(error) = IF caller # "live" THEN {caller}
                                      ELSE IF "rejected" \in error THEN CollectionError(error)
                                      ELSE NoError
<1> DEFINE checks == << <<caller # "live", {caller}>>,
                        <<"rejected" \in error, CollectionError(error)>> >>
<1>1. SupplementFailure(error) = FirstOf(checks, NoError)
  BY DEF SupplementFailure, FirstError
<1>2. DOMAIN checks = {1, 2}
  OBVIOUS
<1>3. (checks[1][1] <=> caller # "live") /\ checks[1][2] = {caller}
  OBVIOUS
<1>4. (checks[2][1] <=> "rejected" \in error) /\ checks[2][2] = CollectionError(error)
  OBVIOUS
<1> HIDE DEF checks
<1> QED
  BY <1>1, <1>2, <1>3, <1>4, FirstOfTwo

\* An answer that Observe takes, the error it gives and where that leads.
LEMMA TakeStep ==
    ASSUME IInv, pc \in {"ready", "waiting"},
           NEW n, n = Len(received) + 1,
           NEW a \in Answers(Provider, Calls[Provider][n]), Take(a)
    PROVE  IInv'
<1> DEFINE call == Calls[Provider][n]
           error == AnswerError(request, call, a, budget)
           gap == AnswerError(request, call, a, "live")
           failure == IF call \in Supplements THEN SupplementFailure(error)
                      ELSE IF error = NoError THEN NoError
                      ELSE CallFailure(error)
<1>1. /\ Provider \in Providers /\ request.provider = Provider
      /\ request' = request /\ Provider' = Provider
      /\ UNCHANGED <<contexts, output>>
      /\ received' = Append(received, a)
      /\ IF failure # NoError
            THEN Fail(failure)
            ELSE Proceed(IF Len(received') = Len(Calls[Provider]) THEN "normalize" ELSE "ready")
  BY DEF IInv, TypeOK, Requests, Provider, Take
<1>2. /\ received \in Seq(AnyAnswer)
      /\ a \in AnyAnswer
      /\ Len(Calls[Provider]) \in 1..3
      /\ Len(received) < Len(Calls[Provider])
  BY <1>1, AnswersTyped, CallsOfProvider DEF IInv, ReceivedType, Progress
<1>3. /\ received' \in Seq(AnyAnswer)
      /\ Len(received') = n /\ n \in 1..Len(Calls[Provider])
      /\ received' # <<>>
      /\ DOMAIN received' = DOMAIN received \cup {n}
      /\ \A i \in DOMAIN received : i < n /\ received'[i] = received[i]
      /\ received'[n] = a
  BY <1>1, <1>2
<1> HIDE DEF call, error, gap, failure
<1>4. \A i \in DOMAIN received' : i < Len(received') => i \in DOMAIN received
  BY <1>2, <1>3
<1>5. ReceivedType'
  BY <1>1, <1>3 DEF IInv, ReceivedType
<1>6. ASSUME NEW i \in DOMAIN received
      PROVE  Accepted(i)' /\ ~Rejection(i)'
  <2>1. received'[i] = received[i]
    BY <1>3
  <2>2. Accepted(i)
    BY <1>6 DEF IInv, Sieved, Returned
  <2>3. Accepted(i)'
    BY <1>1, <2>1, <2>2 DEF Accepted, GapError
  <2>4. ~Rejection(i)
    BY <2>2, AcceptedIsNoRejection
  <2> QED
    BY <2>1, <2>3, <2>4 DEF Rejection
<1>7. /\ error = NoError \/ error \subseteq Refusals
      /\ error = NoError =>
            /\ a.status = "ok" /\ a.body \in Read
            /\ \/ Provider = "claude" /\ call = "usage"
               \/ AccountError(request, a.body) = NoError
      /\ "rejected" \in error =>
            a.body = "rejects" \/ a.status \in {"unauthorized", "forbidden"}
      /\ a.body = "rejects" \/ (a.status = "unauthorized" /\ a.body = "unread") =>
            error = {"rejected"} /\ gap = {"rejected"}
      /\ "mismatch" \in error \/ "wrong_account" \in error =>
            request.account # "" \/ AccountOf(a.body) = "other"
  <2>1. request.provider \in Providers /\ a \in Answers(request.provider, call)
    BY <1>1 DEF call, Provider
  <2>2. Meaning(request, call, a, error) /\ Meaning(request, call, a, gap)
    BY <2>1, AnswerErrorMeaning DEF error, gap
  <2> QED
    BY <1>1, <2>2 DEF Meaning
<1>8. "rejected" \notin error => "rejected" \notin gap
  <2>1. CASE a = Lost
    BY <2>1 DEF gap, AnswerError, ContextErrors
  <2>2. CASE a # Lost
    BY <2>2 DEF error, gap, AnswerError
  <2> QED
    BY <2>1, <2>2
<1>9. \/ failure = NoError /\ call \in Supplements /\ "rejected" \notin error
      \/ failure = NoError /\ call \notin Supplements /\ error = NoError
      \/ failure = {caller} /\ caller \in ContextErrors
      \/ failure = CollectionError(error) /\ error # NoError
      \/ failure = {"wrong_account"} /\ error = {"wrong_account"}
  <2>1. caller # "live" => caller \in ContextErrors
    BY DEF IInv, TypeOK
  <2>2. SupplementFailure(error) = IF caller # "live" THEN {caller}
                                   ELSE IF "rejected" \in error THEN CollectionError(error)
                                   ELSE NoError
    BY SupplementFailureForm
  <2>3. "rejected" \in error => error # NoError
    BY DEF NoError
  <2> QED
    BY <2>1, <2>2, <2>3 DEF failure, CallFailure
<1>10. \A i \in DOMAIN received' : i = n \/ (i \in DOMAIN received /\ Accepted(i)' /\ ~Rejection(i)')
  BY <1>3, <1>6
<1>11. CASE failure = NoError
  <2>1. /\ pc' = IF Len(received') = Len(Calls[Provider]) THEN "normalize" ELSE "ready"
        /\ err' = err /\ observation' = observation
    BY <1>1, <1>11 DEF Proceed
  <2>2. ~Returned /\ ~Returned' /\ err = NoError /\ observation = "none"
    BY <2>1 DEF IInv, Progress, Returned
  <2>3. Accepted(n)'
    <3>1. \/ call \in Supplements /\ "rejected" \notin error
          \/ call \notin Supplements /\ error = NoError
      <4>1. failure = {"nil"}
        BY <1>11 DEF NoError
      <4>2. \A c \in ContextErrors : failure # {c}
        BY <4>1 DEF ContextErrors
      <4>3. "provider_unavailable" \in CollectionError(error) /\ failure # {"wrong_account"}
        BY <4>1 DEF CollectionError
      <4>4. failure # CollectionError(error)
        BY <4>1, <4>3
      <4>5. ~(failure = {caller} /\ caller \in ContextErrors)
        BY <4>2
      <4> QED
        BY <1>9, <4>3, <4>4, <4>5
    <3>2. /\ Accepted(n)' <=> IF call \in Supplements
                                 THEN "rejected" \notin gap
                                 ELSE /\ a.status = "ok" /\ a.body \in Read
                                      /\ \/ Provider = "claude" /\ call = "usage"
                                         \/ AccountError(request, a.body) = NoError
      BY <1>1, <1>3 DEF Accepted, GapError, call, gap
    <3> QED
      BY <1>7, <1>8, <3>1, <3>2
  <2>4. TypeOK'
    BY <1>1, <1>3, <2>1, <2>2 DEF IInv, TypeOK, contexts, output
  <2>5. Progress'
    BY <1>1, <1>3, <2>1, <2>2 DEF Progress, Returned
  <2>6. Selected'
    BY <1>1, <2>1 DEF IInv, Selected, SelectorRefused
  <2>7. Sieved'
    BY <1>3, <1>10, <2>1, <2>2, <2>3 DEF Sieved
  <2>8. Outcome' /\ RejectionRevokes' /\ VerdictHasCause' /\ ReportedOutcome' /\ ExitTellsOutcome'
    BY <2>1, <2>2 DEF Outcome, RejectionRevokes, VerdictHasCause, ReportedOutcome,
                      ExitTellsOutcome, Returned
  <2> QED
    BY <1>5, <2>4, <2>5, <2>6, <2>7, <2>8 DEF IInv
<1>12. CASE failure # NoError
  <2>1. pc' = "done" /\ err' = failure /\ observation' = "none"
    BY <1>1, <1>12 DEF Fail, Return
  <2>2. \/ failure = {caller} /\ caller \in ContextErrors
        \/ failure = CollectionError(error) /\ error # NoError /\ error \subseteq Refusals
        \/ failure = {"wrong_account"} /\ error = {"wrong_account"}
    BY <1>7, <1>9, <1>12
  <2>3. failure \subseteq Refusals
    BY <2>2 DEF CollectionError, Refusals, Sentinels, ContextErrors
  <2>4. TypeOK'
    BY <1>1, <1>3, <2>1, <2>3 DEF IInv, TypeOK, contexts, output, IsErrors, Errors, Refusals
  <2>5. Progress'
    BY <2>1 DEF Progress, Returned
  <2>6. Selected'
    BY <1>1, <2>1 DEF IInv, Selected, SelectorRefused
  <2>7. Sieved'
    BY <1>3, <1>10, <2>1 DEF Sieved, Returned
  <2>8. Outcome'
    BY <1>12, <2>1, <2>3 DEF Outcome
  <2>9. ReportedOutcome' /\ ExitTellsOutcome'
    BY <2>1 DEF ReportedOutcome, ExitTellsOutcome
  <2>10. /\ Rejection(n)' <=> a.body = "rejects" \/ (a.status = "unauthorized" /\ a.body = "unread")
         /\ Verdict' = Failure(Provider, failure)
    BY <1>1, <1>3, <2>1 DEF Rejection, Verdict
  <2>11. RejectionRevokes'
    <3> SUFFICES ASSUME Rejection(n)'
                 PROVE  Verdict' = "revoked" \/ failure \in {{"canceled"}, {"deadline"}}
      BY <1>10, <2>1 DEF RejectionRevokes
    <3>1. error = {"rejected"}
      BY <1>7, <2>10
    <3>2. CASE failure = {caller} /\ caller \in ContextErrors
      BY <3>2 DEF ContextErrors
    <3>3. CASE failure = CollectionError(error)
      <4>1. "rejected" \in failure /\ "retry" \notin failure /\ "wrong_account" \notin failure
        BY <3>1, <3>3 DEF CollectionError
      <4> QED
        BY <1>12, <2>10, <4>1, VerdictOfError
    <3> QED
      BY <2>2, <3>1, <3>2, <3>3
  <2>12. VerdictHasCause'
    <3>1. "rejected" \in failure => "rejected" \in error
      BY <2>2 DEF CollectionError, ContextErrors
    <3>2. "mismatch" \in failure \/ "wrong_account" \in failure =>
             "mismatch" \in error \/ "wrong_account" \in error
      BY <2>2 DEF CollectionError, ContextErrors
    <3>3. Verdict' = "revoked" => Rejection(n)' \/ a.status \in {"unauthorized", "forbidden"}
      BY <1>7, <1>12, <2>10, <3>1, VerdictOfError
    <3>4. Verdict' = "account_mismatch" => request.account # "" \/ AccountOf(a.body) = "other"
      BY <1>7, <1>12, <2>10, <3>2, VerdictOfError
    <3>5. Verdict' # "none"
      BY <1>12, <2>10, VerdictOfError
    <3> QED
      BY <1>1, <1>3, <2>1, <3>3, <3>4, <3>5 DEF VerdictHasCause
  <2> QED
    BY <1>5, <2>4, <2>5, <2>6, <2>7, <2>8, <2>9, <2>11, <2>12 DEF IInv
<1> QED
  BY <1>11, <1>12

\* An error that no answer is to blame for.
Blameless(e) ==
    /\ e \subseteq Refusals
    /\ "rejected" \notin e
    /\ "mismatch" \in e \/ "wrong_account" \in e => request.account # ""

LEMMA FailStep ==
    ASSUME IInv, ~Returned,
           NEW e, Blameless(e), Fail(e), UNCHANGED <<request, contexts, received, output>>
    PROVE  IInv'
<1>1. /\ pc' = "done" /\ err' = e /\ observation' = "none"
      /\ UNCHANGED <<request, interrupted, caller, budget, received, reported, exit>>
      /\ Provider' = Provider
  BY DEF Fail, Return, contexts, output, Provider
<1>2. e # NoError
  BY DEF Blameless, Refusals, Sentinels, ContextErrors, NoError
<1>3. \A i \in DOMAIN received : Accepted(i) /\ ~Rejection(i)
  BY AcceptedIsNoRejection DEF IInv, Sieved
<1>4. \A i \in DOMAIN received : Accepted(i)' /\ ~Rejection(i)'
  BY <1>1, <1>3 DEF Accepted, GapError, Rejection
<1>5. TypeOK'
  <2>1. e \in IsErrors
    BY DEF Blameless, IsErrors, Errors, Refusals
  <2> QED
    BY <1>1, <2>1 DEF IInv, TypeOK
<1>6. ReceivedType' /\ Progress' /\ Selected'
  BY <1>1 DEF IInv, ReceivedType, Progress, Returned, Selected, SelectorRefused
<1>7. Sieved'
  BY <1>1, <1>4 DEF Sieved, Returned
<1>8. Outcome' /\ ReportedOutcome' /\ ExitTellsOutcome'
  BY <1>1, <1>2 DEF Blameless, Outcome, ReportedOutcome, ExitTellsOutcome
<1>9. RejectionRevokes'
  BY <1>1, <1>4 DEF RejectionRevokes
<1>10. VerdictHasCause'
  <2>1. Verdict' = Failure(Provider, e)
    BY <1>1 DEF Verdict
  <2>2. /\ Failure(Provider, e) # "none"
        /\ Failure(Provider, e) = "revoked" => "rejected" \in e
        /\ Failure(Provider, e) = "account_mismatch" => "mismatch" \in e \/ "wrong_account" \in e
    BY <1>2, VerdictOfError
  <2>3. /\ Verdict' # "none" /\ Verdict' # "revoked"
        /\ Verdict' = "account_mismatch" => request.account # ""
    BY <2>1, <2>2 DEF Blameless
  <2> QED
    BY <1>1, <2>3 DEF VerdictHasCause
<1> QED
  BY <1>5, <1>6, <1>7, <1>8, <1>9, <1>10 DEF IInv

\* Observe goes on without an answer.
LEMMA ProceedStep ==
    ASSUME IInv, ~Returned, NEW next \in {"credentials", "ready", "waiting"},
           Proceed(next), UNCHANGED <<request, contexts, received, output>>,
           Progress', Selected'
    PROVE  IInv'
<1>1. /\ pc' = next
      /\ UNCHANGED <<request, interrupted, caller, budget, received, err, observation,
                     reported, exit>>
      /\ Provider' = Provider
  BY DEF Proceed, contexts, output, Provider
<1>2. TypeOK'
  BY <1>1 DEF IInv, TypeOK
<1>3. ReceivedType' /\ Outcome' /\ ReportedOutcome' /\ ExitTellsOutcome'
  BY <1>1 DEF IInv, ReceivedType, Outcome, Returned, ReportedOutcome, ExitTellsOutcome
<1>4. Sieved'
  BY <1>1 DEF IInv, Sieved, Returned, Accepted, GapError, Gaps
<1>5. RejectionRevokes' /\ VerdictHasCause'
  BY <1>1 DEF RejectionRevokes, VerdictHasCause, Returned
<1> QED
  BY <1>2, <1>3, <1>4, <1>5 DEF IInv

\* Only the contexts change.
LEMMA ContextStep ==
    ASSUME IInv, UNCHANGED <<request, pc, received, err, observation, output>>,
           interrupted' \in BOOLEAN,
           caller' \in ContextErrors \cup {"live"}, budget' \in ContextErrors \cup {"live"}
    PROVE  IInv'
<1>1. /\ UNCHANGED <<request, pc, received, err, observation, reported, exit>>
      /\ Provider' = Provider
  BY DEF output, Provider
<1>2. TypeOK'
  BY <1>1 DEF IInv, TypeOK
<1>3. ReceivedType' /\ Progress' /\ Selected'
  BY <1>1 DEF IInv, ReceivedType, Progress, Returned, Selected, SelectorRefused
<1>4. Sieved'
  BY <1>1 DEF IInv, Sieved, Returned, Accepted, GapError, Gaps
<1>5. Outcome' /\ ReportedOutcome' /\ ExitTellsOutcome'
  BY <1>1 DEF IInv, Outcome, Returned, ReportedOutcome, ExitTellsOutcome
<1>6. RejectionRevokes' /\ VerdictHasCause'
  BY <1>1 DEF IInv, RejectionRevokes, VerdictHasCause, Returned, Verdict, Rejection
<1> QED
  BY <1>2, <1>3, <1>4, <1>5, <1>6 DEF IInv

LEMMA RequestErrorMeaning ==
    ASSUME TypeOK
    PROVE  \/ RequestError = NoError /\ (Provider = "cursor" => request.account = "")
           \/ RequestError \in {{"canceled"}, {"deadline"}, {"invalid_selection"},
                                {"provider_unavailable"}}
           \/ RequestError = {"wrong_account"} /\ request.account # ""
<1> DEFINE ended == <<caller # "live", {caller}>>
           unselected == <<request.profile # "default", {"invalid_selection"}>>
           account == <<request.account # "", {"wrong_account"}>>
           source == <<request.source = "none", CollectionError({})>>
<1>1. caller # "live" => {caller} \in {{"canceled"}, {"deadline"}}
  BY DEF TypeOK, ContextErrors
<1>2. CollectionError({}) = {"provider_unavailable"}
  BY DEF CollectionError
<1>3. CASE Provider = "codex"
  <2>1. RequestError = FirstOf(<<unselected>>, NoError)
    BY <1>3 DEF RequestError, FirstError
  <2>2. RequestError = IF unselected[1] THEN unselected[2] ELSE NoError
    BY <2>1, FirstOfOne
  <2> QED
    BY <1>3, <2>2
<1>4. CASE Provider = "cursor"
  <2>1. RequestError = FirstOf(<<ended, unselected, account, source>>, NoError)
    BY <1>4 DEF RequestError, FirstError
  <2>2. RequestError = IF ended[1] THEN ended[2] ELSE IF unselected[1] THEN unselected[2]
                       ELSE IF account[1] THEN account[2]
                       ELSE IF source[1] THEN source[2] ELSE NoError
    <3> HIDE DEF ended, unselected, account, source
    <3> DEFINE checks == <<ended, unselected, account, source>>
    <3>1. /\ DOMAIN checks = {1, 2, 3, 4}
          /\ checks[1] = ended /\ checks[2] = unselected
          /\ checks[3] = account /\ checks[4] = source
      OBVIOUS
    <3> HIDE DEF checks
    <3> QED
      BY <2>1, <3>1, FirstOfFour DEF checks
  <2> QED
    BY <1>1, <1>2, <1>4, <2>2
<1>5. CASE Provider \notin {"codex", "cursor"}
  <2>1. RequestError = FirstOf(<<unselected, ended>>, NoError)
    BY <1>5 DEF RequestError, FirstError
  <2>2. RequestError = IF unselected[1] THEN unselected[2]
                       ELSE IF ended[1] THEN ended[2] ELSE NoError
    BY <2>1, FirstOfTwo
  <2> QED
    BY <1>1, <1>5, <2>2
<1> QED
  BY <1>3, <1>4, <1>5

LEMMA ValidateStep ==
    ASSUME IInv, Validate
    PROVE  IInv'
<1>1. pc = "validate" /\ ~Returned /\ received = <<>>
      /\ UNCHANGED <<request, contexts, received, output>>
      /\ Provider' = Provider
  BY DEF Validate, Returned, IInv, Progress, Provider
<1>2. CASE RequestError = NoError
  <2>1. Proceed("credentials") /\ pc' = "credentials"
    BY <1>2 DEF Validate, Proceed
  <2>2. Progress'
    BY <1>1, <2>1 DEF IInv, Progress, Proceed, Returned
  <2>3. Selected'
    <3>1. Provider = "cursor" => request.account = ""
      BY <1>2, RequestErrorMeaning DEF IInv, NoError
    <3> QED
      BY <1>1, <2>1, <3>1 DEF Selected
  <2> QED
    BY <1>1, <2>1, <2>2, <2>3, ProceedStep
<1>3. CASE RequestError # NoError
  <2>1. Fail(RequestError)
    BY <1>3 DEF Validate
  <2>2. Blameless(RequestError)
    BY <1>3, RequestErrorMeaning DEF IInv, Blameless, Refusals, Sentinels, ContextErrors
  <2> QED
    BY <1>1, <2>1, <2>2, FailStep
<1> QED
  BY <1>2, <1>3

LEMMA ReadCredentialsStep ==
    ASSUME IInv, ReadCredentials
    PROVE  IInv'
<1>1. pc = "credentials" /\ ~Returned /\ received = <<>>
      /\ UNCHANGED <<request, contexts, received, output>>
      /\ Provider' = Provider
      /\ Provider \in Providers
  BY DEF ReadCredentials, Returned, IInv, Progress, Provider, TypeOK, Requests
<1>2. CASE Fail(CollectionError({}))
  <2>1. Blameless(CollectionError({}))
    BY DEF Blameless, CollectionError, Refusals, Sentinels
  <2> QED
    BY <1>1, <1>2, <2>1, FailStep
<1>3. CASE \E error \in CredentialErrors : Fail(CredentialFailure(error))
  <2>1. PICK error \in CredentialErrors : Fail(CredentialFailure(error))
    BY <1>3
  <2>2. caller \in ContextErrors \cup {"live"} /\ budget \in ContextErrors \cup {"live"}
    BY DEF IInv, TypeOK
  <2>3. error \subseteq ContextErrors
    BY <2>2 DEF CredentialErrors
  <2>4. CredentialFailure(error) \subseteq ContextErrors \cup {"provider_unavailable"}
    BY <2>2, <2>3 DEF CredentialFailure, CollectionError
  <2>5. Blameless(CredentialFailure(error))
    BY <2>4 DEF Blameless, Refusals, Sentinels, ContextErrors
  <2> QED
    BY <1>1, <2>1, <2>5, FailStep
<1>4. CASE SelectorRefused /\ Fail({"wrong_account"})
  <2>1. request.account # ""
    BY <1>4 DEF SelectorRefused
  <2>2. Blameless({"wrong_account"})
    BY <2>1 DEF Blameless, Refusals, Sentinels
  <2> QED
    BY <1>1, <1>4, <2>2, FailStep
<1>5. CASE ~SelectorRefused /\ Proceed("ready")
  <2>1. pc' = "ready"
    BY <1>5 DEF Proceed
  <2>2. Progress'
    <3>1. Len(received) < Len(Calls[Provider])
      BY <1>1, CallsOfProvider
    <3> QED
      BY <1>1, <1>5, <2>1, <3>1 DEF IInv, Progress, Proceed, Returned
  <2>3. Selected'
    BY <1>1, <1>5, <2>1 DEF IInv, Selected, SelectorRefused
  <2> QED
    BY <1>1, <1>5, <2>2, <2>3, ProceedStep
<1> QED
  BY <1>2, <1>3, <1>4, <1>5 DEF ReadCredentials

LEMMA SendStep ==
    ASSUME IInv, Send
    PROVE  IInv'
<1>1. pc = "ready" /\ ~Returned /\ Provider' = Provider
  BY DEF Send, Returned, Take, Provider
<1>2. CASE budget # "live"
  <2>1. Take(Lost)
    BY <1>2 DEF Send
  <2>2. Lost \in Answers(Provider, Calls[Provider][Len(received) + 1])
    BY DEF Answers
  <2> QED
    BY <1>1, <2>1, <2>2, TakeStep
<1>3. CASE budget = "live"
  <2>1. Proceed("waiting") /\ UNCHANGED <<request, contexts, received, output>> /\ pc' = "waiting"
    BY <1>3 DEF Send, Proceed
  <2>2. Progress' /\ Selected'
    BY <1>1, <2>1 DEF IInv, Progress, Proceed, Returned, Selected, SelectorRefused
  <2> QED
    BY <1>1, <2>1, <2>2, ProceedStep
<1> QED
  BY <1>2, <1>3

LEMMA NormalizeStep ==
    ASSUME IInv, Normalize
    PROVE  IInv'
<1> DEFINE left == <<Provider = "cursor" /\ caller # "live", {caller}>>
           negative == <<received[1].body = "negative", {}>>
           failure == FirstOf(<<left, negative>>, NoError)
           given == IF Gaps # {} \/ received[1].body = "incomplete" THEN "partial" ELSE "complete"
<1>1. /\ pc = "normalize" /\ ~Returned
      /\ UNCHANGED <<request, interrupted, caller, budget, received, reported, exit>>
      /\ UNCHANGED <<request, contexts, received, output>>
      /\ Provider' = Provider /\ Provider \in Providers
      /\ Len(received) = Len(Calls[Provider])
  BY DEF Normalize, Returned, IInv, Progress, Provider, contexts, output, TypeOK, Requests
<1>2. IF failure # NoError THEN Fail(failure) ELSE Return(NoError, given)
  BY DEF Normalize, FirstError
<1>3. failure = IF left[1] THEN left[2] ELSE IF negative[1] THEN negative[2] ELSE NoError
  BY FirstOfTwo
<1> HIDE DEF failure, given
<1>4. CASE failure # NoError
  <2>1. failure \in {{"canceled"}, {"deadline"}, {}}
    BY <1>3, <1>4 DEF IInv, TypeOK, ContextErrors
  <2>2. Blameless(failure)
    BY <2>1 DEF Blameless, Refusals, Sentinels, ContextErrors
  <2> QED
    BY <1>1, <1>2, <1>4, <2>2, FailStep
<1>5. CASE failure = NoError
  <2>1. pc' = "done" /\ err' = NoError /\ observation' = given /\ given \in {"partial", "complete"}
    BY <1>2, <1>5 DEF Return, given
  <2>2. received[1].body # "negative"
    <3>1. {} # NoError
      BY DEF NoError
    <3>2. caller # "live" => {caller} # NoError
      BY DEF IInv, TypeOK, ContextErrors, NoError
    <3> QED
      BY <1>3, <1>5, <3>1, <3>2
  <2>3. \A i \in DOMAIN received : Accepted(i) /\ ~Rejection(i)
    BY <1>1, AcceptedIsNoRejection DEF IInv, Sieved
  <2>4. \A i \in DOMAIN received : Accepted(i)' /\ ~Rejection(i)'
    BY <1>1, <2>3 DEF Accepted, GapError, Rejection
  <2>5. TypeOK'
    BY <1>1, <2>1 DEF IInv, TypeOK, IsErrors
  <2>6. ReceivedType' /\ Progress' /\ Selected'
    BY <1>1, <2>1 DEF IInv, ReceivedType, Progress, Returned, Selected, SelectorRefused
  <2>7. Sieved'
    <3>1. Gaps' = Gaps
      BY <1>1 DEF Gaps, GapError
    <3>2. given = "complete" => Gaps = {} /\ received[1].body # "incomplete"
      BY DEF given
    <3> QED
      BY <1>1, <2>1, <2>2, <2>4, <3>1, <3>2 DEF Sieved, Returned
  <2>8. Outcome' /\ ReportedOutcome' /\ ExitTellsOutcome'
    BY <2>1 DEF Outcome, ReportedOutcome, ExitTellsOutcome
  <2>9. RejectionRevokes'
    BY <1>1, <2>4 DEF RejectionRevokes
  <2>10. VerdictHasCause'
    <3>1. Verdict' = "none"
      BY <2>1 DEF Verdict, Failure
    <3> QED
      BY <2>1, <3>1 DEF VerdictHasCause
  <2> QED
    BY <2>5, <2>6, <2>7, <2>8, <2>9, <2>10 DEF IInv
<1> QED
  BY <1>4, <1>5

LEMMA CommandErrorForm ==
    CommandError = IF request.cached /\ interrupted THEN {"canceled"}
                   ELSE IF err # NoError THEN err
                   ELSE IF observation = "partial" THEN {"partial"}
                   ELSE NoError
<1> DEFINE first == <<request.cached /\ interrupted, {"canceled"}>>
           second == <<err # NoError, err>>
           third == <<observation = "partial", {"partial"}>>
<1>1. CommandError = FirstOf(<<first, second, third>>, NoError)
  BY DEF CommandError, FirstError
<1> HIDE DEF first, second, third
<1> DEFINE checks == <<first, second, third>>
<1>2. DOMAIN checks = {1, 2, 3} /\ checks[1] = first /\ checks[2] = second /\ checks[3] = third
  OBVIOUS
<1> HIDE DEF checks
<1>3. CommandError = IF first[1] THEN first[2] ELSE IF second[1] THEN second[2]
                     ELSE IF third[1] THEN third[2] ELSE NoError
  BY <1>1, <1>2, FirstOfThree DEF checks
<1> QED
  BY <1>3 DEF first, second, third

LEMMA ConcludeStep ==
    ASSUME IInv, Conclude
    PROVE  IInv'
<1>1. /\ pc = "done" /\ pc' = "printed" /\ reported' = CommandError
      /\ UNCHANGED <<request, interrupted, caller, budget, received, err, observation, exit>>
      /\ Provider' = Provider /\ Returned /\ Returned'
  BY DEF Conclude, contexts, Provider, Returned
<1>2. /\ err = NoError \/ err \subseteq Refusals
      /\ err = NoError <=> observation # "none"
      /\ observation \in {"none", "partial", "complete"}
  BY <1>1 DEF IInv, Outcome, TypeOK
<1>3. \/ reported' = NoError /\ observation = "complete"
      \/ reported' = {"partial"} /\ observation = "partial"
      \/ reported' = {"canceled"}
      \/ reported' \subseteq Refusals /\ observation = "none"
  BY <1>1, <1>2, CommandErrorForm
<1>4. TypeOK'
  <2>1. reported' \in IsErrors
    BY <1>3 DEF IsErrors, Errors, Refusals, Sentinels, ContextErrors
  <2> QED
    BY <1>1, <2>1 DEF IInv, TypeOK
<1>5. ReceivedType' /\ Progress' /\ Selected' /\ Outcome' /\ ExitTellsOutcome'
  BY <1>1 DEF IInv, ReceivedType, Progress, Selected, SelectorRefused, Outcome, ExitTellsOutcome
<1>6. Sieved'
  BY <1>1 DEF IInv, Sieved, Accepted, GapError, Gaps
<1>7. RejectionRevokes' /\ VerdictHasCause'
  BY <1>1 DEF IInv, RejectionRevokes, VerdictHasCause, Verdict, Rejection
<1>8. ReportedOutcome'
  BY <1>1, <1>3 DEF ReportedOutcome
<1> QED
  BY <1>4, <1>5, <1>6, <1>7, <1>8 DEF IInv

LEMMA ExitStep ==
    ASSUME IInv, Exit
    PROVE  IInv'
<1>1. /\ pc = "printed" /\ pc' = "exited" /\ exit' = ExitCode(reported, interrupted)
      /\ UNCHANGED <<request, interrupted, caller, budget, received, err, observation, reported>>
      /\ Provider' = Provider /\ Returned /\ Returned'
  BY DEF Exit, contexts, Provider, Returned
<1>2. \/ reported = NoError /\ observation = "complete"
      \/ reported = {"partial"} /\ observation = "partial"
      \/ reported = {"canceled"}
      \/ reported \subseteq Refusals /\ observation = "none"
  BY <1>1 DEF IInv, ReportedOutcome
<1>3. \/ exit' \in {0, 130} /\ observation = "complete"
      \/ exit' = 3 /\ observation = "partial"
      \/ exit' = 130
      \/ exit' \in {1, 2, 130} /\ observation = "none"
  <2>1. CASE reported = NoError /\ observation = "complete"
    BY <1>1, <2>1 DEF ExitCode
  <2>2. CASE reported = {"partial"} /\ observation = "partial"
    <3>1. reported # NoError /\ "canceled" \notin reported /\ ExitCodes[2][1] \cap reported = {}
      BY <2>2 DEF NoError, ExitCodes
    <3> QED
      BY <1>1, <2>2, <3>1, ExitCodeOfError
  <2>3. CASE reported = {"canceled"}
    <3>1. reported # NoError
      BY <2>3 DEF NoError
    <3> QED
      BY <1>1, <2>3, <3>1, ExitCodeOfError
  <2>4. CASE reported \subseteq Refusals /\ observation = "none"
    <3>1. reported # NoError /\ "partial" \notin reported
      BY <2>4 DEF NoError, Refusals, Sentinels, ContextErrors
    <3> QED
      BY <1>1, <2>4, <3>1, ExitCodeOfError
  <2> QED
    BY <1>2, <2>1, <2>2, <2>3, <2>4
<1>4. TypeOK'
  BY <1>1, <1>3 DEF IInv, TypeOK
<1>5. ReceivedType' /\ Progress' /\ Selected' /\ Outcome' /\ ReportedOutcome'
  BY <1>1 DEF IInv, ReceivedType, Progress, Selected, SelectorRefused, Outcome, ReportedOutcome
<1>6. Sieved'
  BY <1>1 DEF IInv, Sieved, Accepted, GapError, Gaps
<1>7. RejectionRevokes' /\ VerdictHasCause'
  BY <1>1 DEF IInv, RejectionRevokes, VerdictHasCause, Verdict, Rejection
<1>8. ExitTellsOutcome'
  BY <1>1, <1>3 DEF ExitTellsOutcome
<1> QED
  BY <1>4, <1>5, <1>6, <1>7, <1>8 DEF IInv

LEMMA InitIInv == Init => IInv
<1> SUFFICES ASSUME Init PROVE IInv
  OBVIOUS
<1>1. Provider \in Providers
  BY DEF Init, Requests, Provider
<1>2. TypeOK
  <2>1. Len(received) = 0 /\ Len(Calls[Provider]) \in 1..3
    BY <1>1, CallsOfProvider DEF Init
  <2>2. Len(received) <= Len(Calls[Provider])
    BY <2>1
  <2>3. request \in Requests /\ err \in IsErrors /\ reported \in IsErrors
    BY DEF Init, IsErrors
  <2> QED
    BY <2>2, <2>3 DEF Init, TypeOK
<1>3. ReceivedType /\ Progress /\ Selected /\ Sieved
  BY DEF Init, ReceivedType, Progress, Selected, Sieved, Returned
<1>4. Outcome /\ ReportedOutcome /\ ExitTellsOutcome /\ RejectionRevokes /\ VerdictHasCause
  BY DEF Init, Outcome, ReportedOutcome, ExitTellsOutcome, RejectionRevokes, VerdictHasCause,
         Returned
<1> QED
  BY <1>2, <1>3, <1>4 DEF IInv

LEMMA NextIInv ==
    ASSUME IInv, [Next]_vars
    PROVE  IInv'
<1>1. interrupted \in BOOLEAN /\ caller \in ContextErrors \cup {"live"}
      /\ budget \in ContextErrors \cup {"live"}
  BY DEF IInv, TypeOK
<1>2. CASE Validate
  BY <1>2, ValidateStep
<1>3. CASE ReadCredentials
  BY <1>3, ReadCredentialsStep
<1>4. CASE Send
  BY <1>4, SendStep
<1>5. CASE Abandon
  <2>1. Lost \in Answers(Provider, Calls[Provider][Len(received) + 1])
    BY DEF Answers
  <2> QED
    BY <1>5, <2>1, TakeStep DEF Abandon
<1>6. CASE Receive
  <2>1. PICK a \in Answers(Provider, Calls[Provider][Len(received) + 1]) : Take(a)
    BY <1>6 DEF Receive
  <2> QED
    BY <1>6, <2>1, TakeStep DEF Receive
<1>7. CASE Normalize
  BY <1>7, NormalizeStep
<1>8. CASE Conclude
  BY <1>8, ConcludeStep
<1>9. CASE Exit
  BY <1>9, ExitStep
<1>10. CASE Interrupt
  BY <1>1, <1>10, ContextStep DEF Interrupt, EndAs, ContextErrors
<1>11. CASE OperationTimeout
  BY <1>1, <1>11, ContextStep DEF OperationTimeout, EndAs, ContextErrors
<1>12. CASE CallTimeout
  BY <1>1, <1>12, ContextStep DEF CallTimeout, ContextErrors
<1>13. CASE UNCHANGED vars
  BY <1>1, <1>13, ContextStep DEF vars, output
<1> QED
  BY <1>2, <1>3, <1>4, <1>5, <1>6, <1>7, <1>8, <1>9, <1>10, <1>11, <1>12, <1>13 DEF Next, Work

LEMMA Invariance == Spec => []IInv
<1>1. Init => IInv
  BY InitIInv
<1>2. IInv /\ [Next]_vars => IInv'
  BY NextIInv
<1> QED
  BY <1>1, <1>2, PTL DEF Spec

----------------------------------------------------------------------------
(* The theorems *)

\* The state of an Observe is well typed, for every provider and request.
THEOREM ObserveTypeCorrect == Spec => []TypeOK
<1>1. IInv => TypeOK
  BY DEF IInv
<1> QED
  BY <1>1, Invariance, PTL

\* A rejection by any call revokes what the cache holds, whatever the other
\* calls said (cursor/adapter.go:160-177, grok/grpcweb.go, devin/adapter.go).
THEOREM RejectionAlwaysRevokes == Spec => []RejectionRevokes
<1>1. IInv => RejectionRevokes
  BY DEF IInv
<1> QED
  BY <1>1, Invariance, PTL

\* Nothing but a rejection or a 401 or 403 revokes, and nothing but another
\* account is taken for another account (Failure of the adapters).
THEOREM VerdictsHaveCauses == Spec => []VerdictHasCause
<1>1. IInv => VerdictHasCause
  BY DEF IInv
<1> QED
  BY <1>1, Invariance, PTL

\* Complete evidence has every call answered in full, partial evidence its
\* primary call (cursor/adapter.go:147-181).
THEOREM EvidenceShowsGaps == Spec => []EvidenceTellsItsGaps
<1>1. IInv => EvidenceTellsItsGaps
  <2> SUFFICES ASSUME IInv, observation # "none"
               PROVE  /\ Len(received) = Len(Calls[Provider])
                      /\ received[1].status = "ok"
                      /\ observation = "complete" =>
                            \A i \in DOMAIN received :
                               /\ received[i].status = "ok"
                               /\ received[i].body \in {"good", "foreign", "anonymous"}
    BY DEF EvidenceTellsItsGaps
  <2>1. /\ Provider \in Providers /\ request.provider = Provider
        /\ received \in Seq(AnyAnswer)
        /\ \A i \in DOMAIN received : received[i] \in Answers(Provider, Calls[Provider][i])
    BY DEF IInv, TypeOK, ReceivedType, Requests, Provider
  <2>2. /\ Len(received) = Len(Calls[Provider])
        /\ \A i \in DOMAIN received : Accepted(i)
        /\ received[1].body # "negative"
        /\ observation = "complete" => Gaps = {} /\ received[1].body # "incomplete"
    BY DEF IInv, Sieved
  <2>3. /\ Calls[Provider][1] \notin Supplements /\ Len(Calls[Provider]) \in 1..3
        /\ \A i \in DOMAIN received : i \in DOMAIN Calls[Provider]
        /\ 1 \in DOMAIN received
    BY <2>1, <2>2, CallsOfProvider
  <2>4. received[1].status = "ok"
    BY <2>2, <2>3 DEF Accepted
  <2>5. ASSUME observation = "complete", NEW i \in DOMAIN received
        PROVE  received[i].status = "ok" /\ received[i].body \in {"good", "foreign", "anonymous"}
    <3>1. received[i].status = "ok" /\ received[i].body \in Read
      <4>1. CASE Calls[Provider][i] \in Supplements
        <5>1. AnswerError(request, Calls[Provider][i], received[i], "live") = NoError
          BY <2>2, <2>5, <4>1 DEF Gaps, GapError
        <5>2. Meaning(request, Calls[Provider][i], received[i], NoError)
          BY <2>1, <5>1, AnswerErrorMeaning DEF Provider
        <5> QED
          BY <5>2 DEF Meaning
      <4>2. CASE Calls[Provider][i] \notin Supplements
        BY <2>2, <4>2 DEF Accepted
      <4> QED
        BY <4>1, <4>2
    <3>2. received[i].body \in Bodies(Provider, Calls[Provider][i])
      BY <2>1, <3>1, AnswerBodies
    <3>3. received[i].body # "negative"
      <4>1. CASE i = 1
        BY <2>2, <4>1
      <4>2. CASE i # 1 /\ Provider = "cursor"
        <5>1. Calls[Provider][i] \in Supplements
          BY <2>1, <2>3, <4>2, CallsOfProvider
        <5> QED
          BY <3>2, <5>1 DEF Bodies, Codes, CodeErrors, Supplements
      <4>3. CASE Provider # "cursor"
        BY <3>2, <4>3 DEF Bodies, Codes, CodeErrors
      <4> QED
        BY <4>1, <4>2, <4>3
    <3>4. received[i].body # "incomplete"
      <4>1. CASE Provider = "devin"
        <5>1. i = 1
          BY <2>1, <2>2, <4>1, CallsOfProvider
        <5> QED
          BY <2>2, <2>5, <5>1
      <4>2. CASE Provider # "devin"
        BY <3>2, <4>2 DEF Bodies, Codes, CodeErrors
      <4> QED
        BY <4>1, <4>2
    <3> QED
      BY <3>1, <3>3, <3>4 DEF Read
  <2> QED
    BY <2>2, <2>4, <2>5
<1> QED
  BY <1>1, Invariance, PTL

\* A selector that names another account gets no evidence and, where the
\* adapter can tell, sends nothing (validateRequest and Observe).
THEOREM WrongAccountsLearnNothing == Spec => []WrongAccountLearnsNothing
<1>1. IInv => WrongAccountLearnsNothing
  <2> SUFFICES ASSUME IInv, request.account = "other"
               PROVE  /\ Provider \in {"codex", "grok", "cursor"} => received = <<>> /\ pc # "waiting"
                      /\ observation # "none" => AccountOf(received[1].body) = "other"
                      /\ Provider = "claude" /\ Len(received) = 2 =>
                            AccountOf(received[1].body) = "other"
    BY DEF WrongAccountLearnsNothing
  <2>1. /\ Provider \in Providers /\ request.provider = Provider
        /\ received \in Seq(AnyAnswer)
    BY DEF IInv, TypeOK, ReceivedType, Requests, Provider
  <2>2. Provider \in {"codex", "grok", "cursor"} => received = <<>> /\ pc # "waiting"
    BY DEF IInv, Selected, SelectorRefused
  <2>3. observation # "none" => Len(received) = Len(Calls[Provider]) /\ Accepted(1)
    <3>1. Len(Calls[Provider]) \in 1..3
      BY <2>1, CallsOfProvider
    <3> QED
      BY <2>1, <3>1 DEF IInv, Sieved
  <2>4. Provider = "claude" /\ Len(received) = 2 => Accepted(1)
    BY <2>1 DEF IInv, Sieved
  <2>5. ASSUME Provider \in {"claude", "devin"}, Accepted(1)
        PROVE  AccountOf(received[1].body) = "other"
    <3>1. Calls[Provider][1] \notin Supplements /\ Calls[Provider][1] # "usage"
      BY <2>5 DEF Calls, Supplements
    <3>2. AccountError(request, received[1].body) = NoError
      BY <2>5, <3>1 DEF Accepted
    <3>3. NoError = {"nil"}
      BY DEF NoError
    <3> DEFINE named == AccountOf(received[1].body)
    <3>4. CASE Provider = "claude"
      <4>1. named \notin {"", "other"} => AccountError(request, received[1].body) = {"wrong_account"}
        BY <2>1, <3>4 DEF AccountError
      <4> QED
        BY <2>1, <3>2, <3>3, <3>4 DEF AccountError
    <3>5. CASE Provider = "devin"
      BY <2>1, <3>2, <3>3, <3>5 DEF AccountError
    <3> QED
      BY <2>5, <3>4, <3>5
  <2>6. observation # "none" => Provider \notin {"codex", "grok", "cursor"}
    <3>1. Len(Calls[Provider]) \in 1..3
      BY <2>1, CallsOfProvider
    <3> QED
      BY <2>2, <2>3, <3>1
  <2> QED
    BY <2>1, <2>2, <2>3, <2>4, <2>5, <2>6 DEF Providers
<1> QED
  BY <1>1, Invariance, PTL

\* An exit code of 0 or 3 says what was printed, 1 and 2 that nothing was
\* (run.go, executeWithAdapterClock).
THEOREM ExitsTellOutcomes == Spec => []ExitTellsOutcome
<1>1. IInv => ExitTellsOutcome
  BY DEF IInv
<1> QED
  BY <1>1, Invariance, PTL

\* The caller of a Cursor adapter left, and there is no evidence for it.
Abandoned == Provider = "cursor" /\ caller # "live" /\ observation = "none"

\* Cursor never gives evidence to a caller that left before its calls ended,
\* the first half of CancellationWins (docs/features/cursor.md:31).
THEOREM CursorLeavesWithCaller ==
    Spec => [](Provider = "cursor" /\ caller # "live" /\ ~Returned => [](observation = "none"))
<1>1. IInv /\ Provider = "cursor" /\ caller # "live" /\ ~Returned => Abandoned
  BY DEF IInv, Progress, Abandoned
<1>2. IInv /\ Abandoned /\ [Next]_vars => Abandoned'
  <2> SUFFICES ASSUME IInv, Abandoned, [Next]_vars
               PROVE  Abandoned'
    OBVIOUS
  <2>1. ASSUME NEW a, Take(a)
        PROVE  Abandoned'
    BY <2>1 DEF Abandoned, Take, Fail, Return, Proceed, Provider, contexts
  <2>2. CASE Validate
    BY <2>2 DEF Abandoned, Validate, Fail, Return, Proceed, Provider, contexts
  <2>3. CASE ReadCredentials
    <3>1. observation' = "none"
      BY <2>3 DEF Abandoned, ReadCredentials, Fail, Return, Proceed
    <3> QED
      BY <2>3, <3>1 DEF Abandoned, ReadCredentials, Provider, contexts
  <2>4. CASE Send
    BY <2>1, <2>4 DEF Abandoned, Send, Proceed, Provider, contexts
  <2>5. CASE Receive \/ Abandon
    BY <2>1, <2>5 DEF Receive, Abandon
  <2>6. CASE Normalize
    <3> DEFINE left == <<Provider = "cursor" /\ caller # "live", {caller}>>
               negative == <<received[1].body = "negative", {}>>
               failure == FirstOf(<<left, negative>>, NoError)
    <3>1. failure = IF left[1] THEN left[2] ELSE IF negative[1] THEN negative[2] ELSE NoError
      BY FirstOfTwo
    <3>2. failure = {caller}
      BY <3>1 DEF Abandoned
    <3>3. failure # NoError
      BY <3>2 DEF Abandoned, IInv, TypeOK, ContextErrors, NoError
    <3>4. observation' = "none" /\ UNCHANGED <<request, contexts>>
      BY <2>6, <3>3 DEF Normalize, FirstError, Fail, Return
    <3> QED
      BY <3>4 DEF Abandoned, Provider, contexts
  <2>7. CASE Conclude \/ Exit
    BY <2>7 DEF Abandoned, Conclude, Exit, Provider, contexts
  <2>8. CASE Interrupt \/ OperationTimeout \/ CallTimeout
    BY <2>8 DEF Abandoned, Interrupt, OperationTimeout, CallTimeout, EndAs, Provider
  <2>9. CASE UNCHANGED vars
    BY <2>9 DEF Abandoned, vars, Provider
  <2> QED
    BY <2>2, <2>3, <2>4, <2>5, <2>6, <2>7, <2>8, <2>9 DEF Next, Work
<1>3. Abandoned => observation = "none"
  BY DEF Abandoned
<1> QED
  BY <1>1, <1>2, <1>3, Invariance, PTL DEF Spec
=============================================================================
