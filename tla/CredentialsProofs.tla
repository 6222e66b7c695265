--------------------------- MODULE CredentialsProofs ---------------------------
(***************************************************************************)
(* What the readers of a login file promise, for any number of commands,   *)
(* files and logins and however often other programs write.                *)
(*                                                                         *)
(* Good says what one request knows of the disk: what it has opened and    *)
(* bound is no older than the modification time it noted, and everything   *)
(* it read was at the path since it began.  Shared and Recorded carry this *)
(* to the other requests of the same binding and to the cache.             *)
(***************************************************************************)
EXTENDS Credentials, TLAPS

Kinds == {"file", "keychain"}
Stages == {"idle", "binding", "consult", "credentials", "asking", "done"}
Stable == {"cursor", "devin", "grok"}

Metas == [file : Files, size : 0..2, time : 0..3 * MaxChanges]
Evidence == [login : Logins, kind : Kinds, file : SUBSET Files]

BindingPlans ==
    {<<"inspect">>, <<"choose">>, <<"inspect", "open">>, <<"open">>, <<"config">>}

StablePlans ==
    {<<"inspect", "open", "read", "final">>, <<"open", "read", "final">>,
     <<"read", "final">>, <<"final">>}

CredentialPlans ==
    StablePlans \cup
    {<<"choose", "inspect", "open", "read">>, <<"inspect", "inspect", "open", "read">>,
     <<"inspect", "open", "read">>, <<"open", "read">>, <<"read">>,
     <<"config", "keychain", "config">>, <<"keychain", "config">>, <<"config">>,
     <<"keychain">>}

RequestTypes ==
    [stage : Stages, todo : BindingPlans \cup CredentialPlans \cup {<<>>},
     seen : SUBSET Metas, opened : SUBSET Metas, body : Seq(Logins),
     binding : SUBSET Bindings, token : SUBSET Logins, kind : Kinds,
     answer : SUBSET Evidence]

----------------------------------------------------------------------------
(* The invariant *)

Content(file) == ToSet(files[file].content)

\* Each file is of one login, and each change took one write of its own.
Disk ==
    /\ source \in Sources
    /\ path \in Files \cup {NoFile}
    /\ files \in [Files -> [content : Seq(Logins), time : Nat]]
    /\ keychain \in Logins
    /\ changes \in 0..MaxChanges
    /\ \A f \in Files :
          /\ Len(files[f].content) <= 2
          /\ files[f].time <= 3 * changes
          /\ \A i, j \in 1..Len(files[f].content) : files[f].content[i] = files[f].content[j]
    /\ writing # Nil =>
          /\ path \in Files
          /\ \E login \in Logins :
                writing = {login} /\ \A x \in Content(path) : x = login
          /\ Len(files[path].content) < 2
          /\ files[path].time + 2 <= 3 * changes + Len(files[path].content)

\* The noted file has not been changed before the time noted, and whatever it
\* held since was at the path while p ran.
Noted(p, m) ==
    /\ m.time <= files[m.file].time
    /\ Content(m.file) \subseteq during[p]

\* The read halves are those of the file as it was opened.
Prefix(body, m) ==
    m.time = files[m.file].time =>
        /\ Len(body) <= Len(files[m.file].content)
        /\ \A i \in 1..Len(body) : body[i] = files[m.file].content[i]

Uniform(body) == \A i, j \in 1..Len(body) : body[i] = body[j]

\* The steps that are left find what they need.
Planned(r) ==
    /\ r.stage = "binding" =>
          /\ r.todo \in BindingPlans
          /\ r.opened = Nil /\ r.binding = Nil /\ r.token = Nil
    /\ r.stage = "credentials" =>
          /\ r.todo \in CredentialPlans
          /\ source \in Stable => r.todo \in StablePlans
          /\ r.kind = "file" <=> r.token = Nil
          /\ r.todo = <<"config">> => r.token # Nil
    /\ r.stage = "consult" => r = [Blank EXCEPT !.stage = "consult", !.binding = r.binding]
    /\ r.stage \in {"binding", "credentials"} =>
          /\ Head(r.todo) = "open" => r.seen # Nil
          /\ Head(r.todo) \in {"read", "final"} => r.opened # Nil
          /\ Head(r.todo) \notin {"read", "final"} => r.body = <<>> /\ r.opened = Nil

\* What a request that has begun has seen was at the path since.
Known(p, r) ==
    /\ r \in RequestTypes
    /\ r.opened = Nil \/ \E m \in Metas : r.opened = {m}
    /\ path # NoFile => Content(path) \subseteq during[p]
    /\ \A m \in r.opened : Noted(p, m)
    /\ ToSet(r.body) \subseteq during[p]
    /\ \A b \in r.binding : b.kind = "file" => \E m \in Metas : b.print = {m} /\ Noted(p, m)
    /\ \A e \in r.answer : e.kind = "file" =>
          \/ e.login \in during[p]
          \/ \E b \in r.binding : e.file # {m.file : m \in b.print}

\* What the stable reads hold, and what the provider will be asked with.
Whole(r) ==
    /\ source \in Stable /\ r.stage = "credentials" => \A m \in r.opened : Prefix(r.body, m)
    /\ r.stage = "asking" =>
          /\ r.token # Nil
          /\ r.kind = "file" => r.token \subseteq ToSet(r.body)
          /\ source \in Stable => Uniform(r.body) /\ (source # "devin" => Len(r.body) = 2)

Good(p, r) ==
    \/ r = Blank
    \/ r.stage # "idle" /\ Known(p, r) /\ Planned(r) /\ Whole(r)

\* x was in the file of the binding's print when it had that print, or came
\* to it while every request of the binding ran.
Seeable(b, m, x) ==
    /\ files[m.file].time = m.time => x \in Content(m.file)
    /\ \A p \in Requests : b \in request[p].binding => x \in during[p]

Shared ==
    \A p \in Requests : \A b \in request[p].binding, m \in Metas, n \in request[p].opened :
        b.kind = "file" /\ b.print = {m} /\ n.file = m.file =>
            \A x \in ToSet(request[p].body) : Seeable(b, m, x)

RecordedAs(recs) ==
    /\ DOMAIN recs \subseteq Bindings
    /\ \A b \in DOMAIN recs :
          /\ recs[b] \in Evidence /\ recs[b].kind = b.kind
          /\ b.kind = "file" =>
                \E m \in Metas :
                    /\ b.print = {m} /\ m.time <= files[m.file].time
                    /\ recs[b].file = {m.file} => Seeable(b, m, recs[b].login)

Recorded == RecordedAs(records)

CredentialsInv ==
    /\ Disk
    /\ request = [p \in Requests |-> request[p]]
    /\ during \in [Requests -> SUBSET Logins]
    /\ \A p \in Requests : Good(p, request[p])
    /\ Shared
    /\ Recorded

----------------------------------------------------------------------------
(* The operators *)

LEMMA TheOf == ASSUME NEW S, S # Nil PROVE The(S) \in S
BY DEF The, Nil

LEMMA Appended ==
    ASSUME NEW S, NEW s \in Seq(S), NEW x \in S
    PROVE  /\ Append(s, x) \in Seq(S) /\ Len(Append(s, x)) = Len(s) + 1
           /\ \A i \in 1..Len(s) : Append(s, x)[i] = s[i]
           /\ Append(s, x)[Len(s) + 1] = x
           /\ ToSet(Append(s, x)) = ToSet(s) \cup {x}
<1>1. /\ Append(s, x) \in Seq(S) /\ Len(Append(s, x)) = Len(s) + 1
      /\ DOMAIN Append(s, x) = 1..(Len(s) + 1)
      /\ \A i \in 1..Len(s) : Append(s, x)[i] = s[i]
      /\ Append(s, x)[Len(s) + 1] = x
  OBVIOUS
<1>2. DOMAIN s = 1..Len(s)
  OBVIOUS
<1>3. Len(s) \in Nat
  OBVIOUS
<1>4. 1..(Len(s) + 1) = 1..Len(s) \cup {Len(s) + 1}
  BY <1>3
<1> HIDE DEF Nil
<1> QED
  BY <1>1, <1>2, <1>3, <1>4 DEF ToSet

LEMMA ElementsOf ==
    ASSUME NEW S, NEW s \in Seq(S)
    PROVE  /\ DOMAIN s = 1..Len(s) /\ Len(s) \in Nat
           /\ ToSet(s) \subseteq S
           /\ \A x : x \in ToSet(s) <=> \E i \in 1..Len(s) : s[i] = x
           /\ s # <<>> => Head(s) \in ToSet(s)
BY DEF ToSet

LEMMA EmptyBody == ToSet(<<>>) = {} /\ <<>> \in Seq(Logins) /\ Len(<<>>) = 0
BY DEF ToSet

\* What is left of a plan after its first step.
LEMMA Plans ==
    /\ \A todo \in BindingPlans :
          /\ Head(todo) \notin {"read", "final", "keychain"}
          /\ Tail(todo) = <<>> => Head(todo) # "read"
          /\ Tail(todo) # <<>> => todo = <<"inspect", "open">> /\ Tail(todo) = <<"open">>
          /\ Head(todo) = "open" => todo = <<"open">>
          /\ Head(todo) = "choose" => todo = <<"choose">>
          /\ Head(todo) = "config" => todo = <<"config">>
    /\ \A todo \in CredentialPlans :
          /\ Head(todo) = "inspect" =>
                Tail(todo) \in CredentialPlans /\ Head(Tail(todo)) \in {"inspect", "open"}
          /\ Head(todo) = "choose" =>
                Tail(todo) \in CredentialPlans /\ Head(Tail(todo)) = "inspect"
          /\ Head(todo) = "open" => Tail(todo) \in CredentialPlans /\ Head(Tail(todo)) = "read"
          /\ Head(todo) = "read" =>
                \/ todo = <<"read">> /\ Tail(todo) = <<>> /\ Len(todo) = 1
                \/ /\ todo = <<"read", "final">> /\ Tail(todo) = <<"final">>
                   /\ Len(todo) = 2
          /\ Head(todo) = "final" => Tail(todo) = <<>>
          /\ Head(todo) = "keychain" => Tail(todo) \in {<<>>, <<"config">>}
          /\ Head(todo) = "config" =>
                \/ todo = <<"config">> /\ Tail(todo) = <<>>
                \/ Tail(todo) = <<"keychain", "config">>
    /\ \A todo \in StablePlans :
          /\ Tail(todo) \in StablePlans \cup {<<>>}
          /\ Head(todo) \in {"inspect", "open", "read", "final"}
          /\ Head(todo) = "read" => Tail(todo) = <<"final">>
BY DEF BindingPlans, CredentialPlans, StablePlans

LEMMA PlansGoOn == <<>> \notin CredentialPlans
BY DEF CredentialPlans, StablePlans

LEMMA Started ==
    ASSUME source \in Sources
    PROVE  /\ BindingSteps \in BindingPlans /\ Head(BindingSteps) # "open"
           /\ CredentialSteps \in CredentialPlans
           /\ Head(CredentialSteps) \in {"inspect", "choose", "config"}
           /\ CredentialSteps # <<"config">>
           /\ source \in Stable => CredentialSteps \in StablePlans
BY CredentialsAssumption
   DEF BindingSteps, CredentialSteps, BindingPlans, CredentialPlans, StablePlans, Stable, StableRead

----------------------------------------------------------------------------
(* The shapes a request takes *)

LEMMA MetaOfPath ==
    ASSUME Disk, path \in Files
    PROVE  /\ Meta(path) \in Metas /\ Meta(path).file = path
           /\ Meta(path).time = files[path].time
<1>1. /\ files[path].time \in Nat /\ files[path].time <= 3 * changes
      /\ changes \in 0..MaxChanges
      /\ Len(files[path].content) \in Nat /\ Len(files[path].content) <= 2
  BY DEF Disk
<1>2. files[path].time \in 0..3 * MaxChanges
  <2>1. /\ changes \in Nat /\ changes <= MaxChanges /\ MaxChanges \in Nat
    BY <1>1, CredentialsAssumption
  <2> DEFINE time == files[path].time
  <2>2. time \in Nat /\ time <= 3 * changes
    BY <1>1
  <2> HIDE DEF time
  <2>3. time <= 3 * MaxChanges
    BY <2>1, <2>2
  <2> QED
    BY <2>1, <2>2, <2>3 DEF time
<1>3. Len(files[path].content) \in 0..2
  <2> DEFINE n == Len(files[path].content)
  <2>1. n \in Nat /\ n <= 2
    BY <1>1
  <2> HIDE DEF n
  <2>2. n \in 0..2
    BY <2>1
  <2> QED
    BY <2>2 DEF n
<1> QED
  BY <1>2, <1>3 DEF Meta, Metas

LEMMA BlankType == Blank \in RequestTypes /\ Blank.stage = "idle"
BY EmptyBody DEF Blank, RequestTypes, Stages, Kinds, Nil

LEMMA Underway ==
    ASSUME NEW p, NEW r, Good(p, r), r.stage # "idle"
    PROVE  Known(p, r) /\ Planned(r) /\ Whole(r)
BY BlankType DEF Good

LEMMA PathIsNoted ==
    ASSUME Disk, path \in Files, NEW p, NEW r, Known(p, r)
    PROVE  Noted(p, Meta(path))
<1>1. files[path].time \in Nat
  BY DEF Disk
<1>2. path # NoFile
  BY CredentialsAssumption
<1>3. Content(path) \subseteq during[p]
  BY <1>2 DEF Known
<1> QED
  BY <1>1, <1>3, MetaOfPath DEF Noted

\* A request that is done.
LEMMA DoneGood ==
    ASSUME NEW p, NEW r, Known(p, r),
           NEW answer \in SUBSET Evidence,
           \A e \in answer : e.kind = "file" =>
                 \/ e.login \in during[p]
                 \/ \E b \in r.binding : e.file # {m.file : m \in b.print}
    PROVE  /\ Good(p, Done(r, answer))
           /\ Done(r, answer).body = <<>> /\ Done(r, answer).binding = r.binding
<1> DEFINE d == Done(r, answer)
<1>1. r.binding \in SUBSET Bindings
  BY DEF Known, RequestTypes
<1>2. d \in RequestTypes
  BY <1>1, BlankType DEF Done, RequestTypes, Stages
<1>3. /\ d.stage = "done" /\ d.opened = {} /\ d.body = <<>>
      /\ d.binding = r.binding /\ d.answer = answer
  BY DEF Done, Blank, Nil
<1> HIDE DEF d
<1>4. Known(p, d)
  BY <1>2, <1>3, EmptyBody DEF Known, Nil
<1>5. Planned(d) /\ Whole(d)
  BY <1>3 DEF Planned, Whole
<1> QED
  BY <1>3, <1>4, <1>5 DEF d, Good

\* A request that starts to read the credentials, with a binding or without.
LEMMA ReadingGood ==
    ASSUME NEW p, NEW r, Known(p, r), source \in Sources,
           NEW c, c \in RequestTypes, c.stage = "credentials", c.todo = CredentialSteps,
           c.opened = {}, c.body = <<>>, c.kind = "file", c.token = {},
           c.binding \subseteq r.binding, c.answer = {}
    PROVE  Good(p, c)
<1>1. Planned(c)
  BY Started DEF Planned, Nil
<1>2. \A b \in c.binding : b.kind = "file" => \E m \in Metas : b.print = {m} /\ Noted(p, m)
  BY DEF Known
<1>3. path # NoFile => Content(path) \subseteq during[p]
  BY DEF Known
<1>4. Known(p, c)
  BY <1>2, <1>3, EmptyBody DEF Known, Nil
<1>5. Whole(c)
  BY DEF Whole
<1> QED
  BY <1>1, <1>4, <1>5 DEF Good

LEMMA RefusedGood ==
    ASSUME NEW p, NEW r, Known(p, r), source \in Sources,
           r.stage \in {"binding", "credentials"}
    PROVE  /\ Good(p, Refused(r))
           /\ Refused(r).body = <<>> /\ Refused(r).binding \subseteq r.binding
<1>1. CASE r.stage = "binding"
  <2> DEFINE c == [Blank EXCEPT !.stage = "credentials", !.todo = CredentialSteps]
  <2>1. Refused(r) = c
    BY <1>1 DEF Refused
  <2>2. c \in RequestTypes
    BY BlankType, Started DEF RequestTypes, Stages
  <2>3. /\ c.stage = "credentials" /\ c.todo = CredentialSteps /\ c.opened = {}
        /\ c.body = <<>> /\ c.kind = "file" /\ c.binding = {} /\ c.answer = {}
        /\ c.token = {}
    BY DEF Blank, Nil
  <2> HIDE DEF c
  <2>4. c.binding \subseteq r.binding
    BY <2>3
  <2>5. Good(p, c)
    BY <1>1, <2>2, <2>3, <2>4, ReadingGood
  <2> QED
    BY <2>1, <2>3, <2>4, <2>5
<1>2. CASE r.stage = "credentials"
  <2>1. Refused(r) = Done(r, Nil)
    BY <1>2 DEF Refused
  <2> QED
    BY <1>2, <2>1, DoneGood DEF Nil
<1> QED
  BY <1>1, <1>2

\* A request that has taken its binding from the path as it is.
LEMMA BoundGood ==
    ASSUME Disk, NEW p, NEW r, Known(p, r),
           NEW b \in Bindings,
           b.kind = "file" => path \in Files /\ b.print = {Meta(path)},
           NEW c, c = [Blank EXCEPT !.stage = "consult", !.binding = {b}]
    PROVE  Good(p, c) /\ c.body = <<>> /\ c.binding = {b}
<1>1. c \in RequestTypes
  BY BlankType DEF RequestTypes, Stages
<1>2. /\ c.stage = "consult" /\ c.opened = {} /\ c.body = <<>> /\ c.binding = {b}
      /\ c.answer = {}
  BY DEF Blank, Nil
<1>3. path # NoFile => Content(path) \subseteq during[p]
  BY DEF Known
<1>4. b.kind = "file" => \E m \in Metas : b.print = {m} /\ Noted(p, m)
  <2> SUFFICES ASSUME b.kind = "file"
               PROVE  \E m \in Metas : b.print = {m} /\ Noted(p, m)
    OBVIOUS
  <2>1. Meta(path) \in Metas /\ b.print = {Meta(path)}
    BY MetaOfPath
  <2>2. Noted(p, Meta(path))
    BY PathIsNoted
  <2> QED
    BY <2>1, <2>2
<1>5. Known(p, c)
  BY <1>1, <1>2, <1>3, <1>4, EmptyBody DEF Known, Nil
<1>6. Planned(c) /\ Whole(c)
  <2>1. c = [Blank EXCEPT !.stage = "consult", !.binding = c.binding]
    BY <1>2
  <2> QED
    BY <1>2, <2>1 DEF Planned, Whole
<1> QED
  BY <1>2, <1>5, <1>6 DEF Good

\* A request that has read the credentials.
LEMMA AskingGood ==
    ASSUME NEW p, NEW r, Known(p, r), r.stage = "credentials",
           \/ r.token # Nil /\ r.kind # "file"
           \/ r.token = Nil /\ r.body # <<>>,
           source \in Stable => Uniform(r.body) /\ (source # "devin" => Len(r.body) = 2)
    PROVE  /\ Good(p, Finished(r))
           /\ Finished(r).opened = r.opened /\ Finished(r).body = r.body
           /\ Finished(r).binding = r.binding
<1> DEFINE f == Finished(r)
<1>1. /\ r.body \in Seq(Logins) /\ r.token \in SUBSET Logins
      /\ r \in RequestTypes
  BY DEF Known, RequestTypes
<1>2. f = IF r.token # Nil
             THEN [r EXCEPT !.stage = "asking"]
             ELSE [r EXCEPT !.stage = "asking", !.token = {Head(r.body)}]
  BY DEF Finished
<1>3. r.token = Nil => {Head(r.body)} \in SUBSET Logins /\ Head(r.body) \in ToSet(r.body)
  BY <1>1, ElementsOf
<1>4. f \in RequestTypes
  BY <1>1, <1>2, <1>3 DEF RequestTypes, Stages
<1>5. /\ f.stage = "asking" /\ f.opened = r.opened /\ f.body = r.body
      /\ f.binding = r.binding /\ f.answer = r.answer /\ f.kind = r.kind
      /\ f.token # Nil
      /\ f.kind = "file" => f.token \subseteq ToSet(f.body)
  BY <1>1, <1>2, <1>3 DEF RequestTypes, Nil
<1> HIDE DEF f
<1>6. Known(p, f)
  BY <1>4, <1>5 DEF Known
<1>7. Planned(f) /\ Whole(f)
  BY <1>5 DEF Planned, Whole
<1> QED
  BY <1>5, <1>6, <1>7 DEF f, Good

----------------------------------------------------------------------------
(* The steps of a request *)

\* What a step adds: a binding of the path as it is, or what the opened file
\* holds.
Fits(r, new) ==
    /\ \A b \in new.binding : b.kind = "file" =>
          b \in r.binding \/ (path \in Files /\ b.print = {Meta(path)})
    /\ \/ new.body = <<>>
       \/ /\ new.opened = r.opened /\ new.binding = r.binding
          /\ \A x \in ToSet(new.body) :
                x \in ToSet(r.body) \/ \E m \in r.opened : x \in Content(m.file)

Steps(p) ==
    \E new : Good(p, new) /\ Fits(request[p], new) /\ Becomes(p, new)

LEMMA AtStep ==
    ASSUME CredentialsInv, NEW p \in Requests, NEW step, At(p, step)
    PROVE  LET r == request[p]
           IN  /\ Known(p, r) /\ Planned(r) /\ Whole(r) /\ source \in Sources /\ Disk
               /\ r.stage \in {"binding", "credentials"} /\ Head(r.todo) = step
BY Underway DEF CredentialsInv, At, Disk

LEMMA RefusedSteps ==
    ASSUME CredentialsInv, NEW p \in Requests, NEW step, At(p, step),
           Becomes(p, Refused(request[p]))
    PROVE  Steps(p)
<1>1. Good(p, Refused(request[p])) /\ Fits(request[p], Refused(request[p]))
  BY AtStep, RefusedGood DEF Fits
<1> QED
  BY <1>1 DEF Steps

LEMMA FinishedBinding ==
    ASSUME Disk, path \in Files, NEW p, NEW n, Known(p, n), n.stage = "binding",
           \/ n.opened = {} /\ n.seen = {Meta(path)}
           \/ n.opened = {Meta(path)}
    PROVE  Good(p, Finished(n)) /\ \A r : Fits(r, Finished(n))
<1> DEFINE b == FileBinding(n)
           f == Finished(n)
<1>1. f = [Blank EXCEPT !.stage = "consult", !.binding = {b}]
  BY DEF Finished
<1>2. b.print = {Meta(path)} /\ b.kind \in Kinds
  <2>1. b.print = IF n.opened = {} THEN {m : m \in n.seen} ELSE {m : m \in n.opened}
    BY DEF FileBinding, Fingerprint, Nil
  <2>2. b.kind \in Kinds
    BY DEF FileBinding, Kinds
  <2> QED
    BY <2>1, <2>2
<1>3. b \in Bindings
  <2>1. Meta(path) \in Metas
    BY MetaOfPath
  <2>2. b = [kind |-> b.kind, print |-> b.print]
    BY DEF FileBinding
  <2> HIDE DEF b
  <2> QED
    BY <1>2, <2>1, <2>2 DEF Bindings, Metas, Kinds
<1> HIDE DEF b, f
<1>4. Good(p, f) /\ f.body = <<>> /\ f.binding = {b}
  BY <1>1, <1>2, <1>3, BoundGood
<1>5. \A r : Fits(r, f)
  BY <1>2, <1>4 DEF Fits
<1> QED
  BY <1>4, <1>5 DEF f

\* A step that comes to what Becomes says and is not the last of its plan.
LEMMA NextStep ==
    ASSUME NEW n, Tail(n.todo) # <<>>, n \in RequestTypes,
           Tail(n.todo) \in BindingPlans \cup CredentialPlans
    PROVE  LET next == Advanced(n)
           IN  /\ next \in RequestTypes
               /\ next.stage = n.stage /\ next.todo = Tail(n.todo) /\ next.seen = n.seen
               /\ next.opened = n.opened /\ next.body = n.body /\ next.binding = n.binding
               /\ next.token = n.token /\ next.kind = n.kind /\ next.answer = n.answer
<1> DEFINE next == [n EXCEPT !.todo = Tail(n.todo)]
<1>1. next.todo = Tail(n.todo)
  BY DEF RequestTypes
<1>2. Advanced(n) = next
  BY <1>1 DEF Advanced
<1> QED
  BY <1>2 DEF RequestTypes

LEMMA LastStep ==
    ASSUME NEW n, Tail(n.todo) = <<>>, n \in RequestTypes
    PROVE  \E last \in RequestTypes :
              /\ Advanced(n) = Finished(last)
              /\ last.stage = n.stage /\ last.seen = n.seen /\ last.opened = n.opened
              /\ last.body = n.body /\ last.binding = n.binding
              /\ last.token = n.token /\ last.kind = n.kind /\ last.answer = n.answer
<1> DEFINE next == [n EXCEPT !.todo = Tail(n.todo)]
<1>1. next.todo = <<>>
  BY DEF RequestTypes
<1>2. Advanced(n) = Finished(next)
  BY <1>1 DEF Advanced
<1>3. next \in RequestTypes
  BY DEF RequestTypes
<1>4. /\ next.stage = n.stage /\ next.seen = n.seen /\ next.opened = n.opened
      /\ next.body = n.body /\ next.binding = n.binding
      /\ next.token = n.token /\ next.kind = n.kind /\ next.answer = n.answer
  BY DEF RequestTypes
<1> QED
  BY <1>2, <1>3, <1>4

\* The file at the path has been looked at: on with the plan.
LEMMA SeenSteps ==
    ASSUME CredentialsInv, NEW p \in Requests, path \in Files,
           NEW step \in {"inspect", "choose", "config"}, At(p, step),
           NEW n, n \in RequestTypes,
           n.stage = request[p].stage, n.todo = request[p].todo, n.seen = {Meta(path)},
           n.opened = {}, n.body = <<>>, n.binding = request[p].binding,
           n.token = request[p].token, n.kind = request[p].kind, n.answer = request[p].answer,
           Becomes(p, Advanced(n))
    PROVE  Steps(p)
<1> DEFINE r == request[p]
<1>1. /\ Known(p, r) /\ Planned(r) /\ Whole(r) /\ source \in Sources /\ Disk
      /\ r.stage \in {"binding", "credentials"} /\ Head(r.todo) = step
  BY AtStep
<1> HIDE DEF r
<1>2. Known(p, n)
  BY <1>1, EmptyBody DEF r, Known, Nil
<1>3. CASE r.stage = "binding" /\ Tail(r.todo) = <<>>
  <2>1. PICK last \in RequestTypes :
              /\ Advanced(n) = Finished(last)
              /\ last.stage = n.stage /\ last.seen = n.seen /\ last.opened = n.opened
              /\ last.body = n.body /\ last.binding = n.binding
              /\ last.token = n.token /\ last.kind = n.kind /\ last.answer = n.answer
    BY <1>3, LastStep DEF r
  <2>2. Known(p, last)
    BY <1>2, <2>1 DEF Known
  <2>3. Good(p, Finished(last)) /\ Fits(r, Finished(last))
    BY <1>1, <1>3, <2>1, <2>2, FinishedBinding DEF r
  <2> QED
    BY <2>1, <2>3 DEF Steps, r
<1>4. CASE r.stage = "binding" /\ Tail(r.todo) # <<>>
  <2>1. r.todo \in BindingPlans /\ Tail(r.todo) = <<"open">>
    BY <1>1, <1>4, Plans DEF Planned
  <2>2. Tail(n.todo) \in BindingPlans /\ Tail(n.todo) # <<>>
    BY <2>1 DEF BindingPlans, r
  <2> DEFINE next == Advanced(n)
  <2>3. /\ next \in RequestTypes
        /\ next.stage = n.stage /\ next.todo = Tail(n.todo) /\ next.seen = n.seen
        /\ next.opened = n.opened /\ next.body = n.body /\ next.binding = n.binding
        /\ next.token = n.token /\ next.kind = n.kind /\ next.answer = n.answer
    BY <2>2, NextStep
  <2> HIDE DEF next
  <2>4. Known(p, next)
    BY <1>2, <2>3 DEF Known
  <2>5. Planned(next)
    <3>1. Head(<<"open">>) = "open"
      OBVIOUS
    <3> QED
      BY <1>1, <1>4, <2>1, <2>2, <2>3, <3>1 DEF Planned, Nil, r
  <2>6. Whole(next)
    BY <1>4, <2>3 DEF Whole, r
  <2>7. Good(p, next) /\ Fits(r, next)
    BY <1>4, <2>3, <2>4, <2>5, <2>6 DEF Good, Fits, r
  <2> QED
    BY <2>7 DEF Steps, r, next
<1>5. CASE r.stage = "credentials" /\ ~(step = "config" /\ r.todo = <<"config">>)
  <2>1. /\ r.todo \in CredentialPlans /\ (source \in Stable => r.todo \in StablePlans)
        /\ Tail(r.todo) \in CredentialPlans
        /\ Head(Tail(r.todo)) \in {"inspect", "open", "keychain"}
    <3>1. r.todo \in CredentialPlans /\ (source \in Stable => r.todo \in StablePlans)
      BY <1>1, <1>5 DEF Planned
    <3>2. CASE step = "inspect"
      BY <1>1, <3>1, <3>2, Plans
    <3>3. CASE step = "choose"
      BY <1>1, <3>1, <3>3, Plans
    <3>4. CASE step = "config"
      <4>1. Tail(r.todo) = <<"keychain", "config">>
        BY <1>1, <1>5, <3>1, <3>4, Plans
      <4>2. Head(<<"keychain", "config">>) = "keychain"
        OBVIOUS
      <4> QED
        BY <3>1, <4>1, <4>2 DEF CredentialPlans
    <3> QED
      BY <3>1, <3>2, <3>3, <3>4
  <2>2. Tail(n.todo) \in CredentialPlans /\ Tail(n.todo) # <<>>
    BY <2>1, PlansGoOn DEF r
  <2> DEFINE next == Advanced(n)
  <2>3. /\ next \in RequestTypes
        /\ next.stage = n.stage /\ next.todo = Tail(n.todo) /\ next.seen = n.seen
        /\ next.opened = n.opened /\ next.body = n.body /\ next.binding = n.binding
        /\ next.token = n.token /\ next.kind = n.kind /\ next.answer = n.answer
    BY <2>2, NextStep
  <2> HIDE DEF next
  <2>4. Known(p, next)
    BY <1>2, <2>3 DEF Known
  <2>5. source \in Stable => next.todo \in StablePlans
    BY <2>1, <2>2, <2>3, Plans DEF r
  <2>6. next.todo # <<"config">>
    <3>1. Head(<<"config">>) = "config"
      OBVIOUS
    <3> QED
      BY <2>1, <2>3, <3>1 DEF r
  <2>7. /\ Head(next.todo) = "open" => next.seen # {}
        /\ Head(next.todo) \notin {"read", "final"}
        /\ next.body = <<>> /\ next.opened = {}
        /\ next.kind = "file" <=> next.token = {}
    BY <1>1, <1>5, <2>1, <2>3 DEF r, Planned, Nil
  <2>8. Planned(next)
    BY <1>5, <2>2, <2>3, <2>5, <2>6, <2>7 DEF Planned, Nil, r
  <2>9. Whole(next)
    BY <1>5, <2>3 DEF Whole, r
  <2>10. Good(p, next) /\ Fits(r, next)
    BY <1>5, <2>3, <2>4, <2>8, <2>9 DEF Good, Fits, r
  <2> QED
    BY <2>10 DEF Steps, r, next
<1>6. CASE r.stage = "credentials" /\ step = "config" /\ r.todo = <<"config">>
  <2>1. Tail(n.todo) = <<>>
    BY <1>6 DEF r
  <2>2. PICK last \in RequestTypes :
              /\ Advanced(n) = Finished(last)
              /\ last.stage = n.stage /\ last.seen = n.seen /\ last.opened = n.opened
              /\ last.body = n.body /\ last.binding = n.binding
              /\ last.token = n.token /\ last.kind = n.kind /\ last.answer = n.answer
    BY <2>1, LastStep
  <2>3. Known(p, last)
    BY <1>2, <2>2 DEF Known
  <2>4. r.token # Nil /\ r.kind # "file" /\ source \notin Stable
    <3>1. r.token # Nil /\ r.kind # "file"
      BY <1>1, <1>6 DEF Planned
    <3>2. <<"config">> \notin StablePlans
      BY DEF StablePlans
    <3> QED
      BY <1>1, <1>6, <3>1, <3>2 DEF Planned
  <2>5. /\ Good(p, Finished(last)) /\ Finished(last).body = <<>>
        /\ Finished(last).binding = r.binding
    BY <1>6, <2>2, <2>3, <2>4, AskingGood DEF r
  <2> QED
    BY <2>2, <2>5 DEF Steps, Fits, r
<1> QED
  BY <1>1, <1>3, <1>4, <1>5, <1>6 DEF r

LEMMA InspectSteps ==
    ASSUME CredentialsInv, NEW p \in Requests, Inspect(p)
    PROVE  Steps(p)
<1>1. CASE path = NoFile
  BY <1>1, RefusedSteps DEF Inspect
<1>2. CASE path # NoFile
  <2> DEFINE n == [request[p] EXCEPT !.seen = {Meta(path)}, !.opened = Nil, !.body = <<>>]
  <2>1. request[p] \in RequestTypes /\ path \in Files /\ Meta(path) \in Metas
    BY <1>2, AtStep, MetaOfPath DEF Inspect, Known, Disk
  <2>2. n \in RequestTypes
    BY <2>1, EmptyBody DEF RequestTypes, Nil
  <2>3. /\ n.stage = request[p].stage /\ n.todo = request[p].todo /\ n.seen = {Meta(path)}
        /\ n.opened = {} /\ n.body = <<>> /\ n.binding = request[p].binding
        /\ n.token = request[p].token /\ n.kind = request[p].kind
        /\ n.answer = request[p].answer
    BY <2>1 DEF RequestTypes, Nil
  <2>4. At(p, "inspect") /\ Becomes(p, Advanced(n))
    BY <1>2 DEF Inspect
  <2> HIDE DEF n
  <2> QED
    BY <2>1, <2>2, <2>3, <2>4, SeenSteps
<1> QED
  BY <1>1, <1>2

\* Before the file is opened nothing is.
LEMMA NothingOpened ==
    ASSUME CredentialsInv, NEW p \in Requests, NEW step \in {"choose", "config"}, At(p, step)
    PROVE  request[p].body = <<>> /\ request[p].opened = {}
BY AtStep DEF Planned, Nil

LEMMA LookSteps ==
    ASSUME CredentialsInv, NEW p \in Requests, NEW step \in {"choose", "config"},
           At(p, step), path \in Files,
           Becomes(p, Advanced([request[p] EXCEPT !.seen = {Meta(path)}]))
    PROVE  Steps(p)
<1> DEFINE n == [request[p] EXCEPT !.seen = {Meta(path)}]
<1>1. request[p] \in RequestTypes /\ Meta(path) \in Metas
  BY AtStep, MetaOfPath DEF Known
<1>2. n \in RequestTypes
  BY <1>1 DEF RequestTypes
<1>3. /\ n.stage = request[p].stage /\ n.todo = request[p].todo /\ n.seen = {Meta(path)}
      /\ n.opened = {} /\ n.body = <<>> /\ n.binding = request[p].binding
      /\ n.token = request[p].token /\ n.kind = request[p].kind
      /\ n.answer = request[p].answer
  BY <1>1, NothingOpened DEF RequestTypes
<1>4. Becomes(p, Advanced(n))
  OBVIOUS
<1> HIDE DEF n
<1> QED
  BY <1>2, <1>3, <1>4, SeenSteps

LEMMA ChooseSteps ==
    ASSUME CredentialsInv, NEW p \in Requests, Choose(p)
    PROVE  Steps(p)
<1> DEFINE r == request[p]
<1>1. /\ Known(p, r) /\ Planned(r) /\ Whole(r) /\ source \in Sources /\ Disk
      /\ r.stage \in {"binding", "credentials"} /\ Head(r.todo) = "choose"
      /\ r.body = <<>> /\ r.opened = {} /\ r \in RequestTypes
  BY AtStep, NothingOpened DEF Choose, Known
<1>2. \/ path # NoFile /\ Becomes(p, Advanced([r EXCEPT !.seen = {Meta(path)}]))
      \/ /\ path = NoFile /\ r.stage = "binding"
         /\ Becomes(p, [Blank EXCEPT !.stage = "consult", !.binding = {KeychainBinding}])
      \/ /\ path = NoFile /\ r.stage = "credentials"
         /\ Becomes(p, [r EXCEPT !.todo = <<"keychain">>])
      \/ Becomes(p, Refused(r))
  BY DEF Choose
<1> HIDE DEF r
<1>3. CASE path # NoFile /\ Becomes(p, Advanced([r EXCEPT !.seen = {Meta(path)}]))
  <2>1. path \in Files /\ At(p, "choose")
    BY <1>1, <1>3 DEF Disk, Choose
  <2> QED
    BY <1>3, <2>1, LookSteps DEF r
<1>4. CASE /\ path = NoFile /\ r.stage = "binding"
           /\ Becomes(p, [Blank EXCEPT !.stage = "consult", !.binding = {KeychainBinding}])
  <2> DEFINE c == [Blank EXCEPT !.stage = "consult", !.binding = {KeychainBinding}]
  <2>1. KeychainBinding \in Bindings /\ KeychainBinding.kind = "keychain"
    BY DEF KeychainBinding, Bindings
  <2>2. c = [Blank EXCEPT !.stage = "consult", !.binding = {KeychainBinding}]
    OBVIOUS
  <2>3. Becomes(p, c)
    BY <1>4
  <2> HIDE DEF c
  <2>4. Good(p, c) /\ c.body = <<>> /\ c.binding = {KeychainBinding}
    BY <1>1, <1>4, <2>1, <2>2, BoundGood
  <2> QED
    BY <2>1, <2>3, <2>4 DEF Steps, Fits
<1>5. CASE /\ path = NoFile /\ r.stage = "credentials"
           /\ Becomes(p, [r EXCEPT !.todo = <<"keychain">>])
  <2> DEFINE c == [r EXCEPT !.todo = <<"keychain">>]
  <2>1. /\ <<"keychain">> \in CredentialPlans /\ <<"keychain">> # <<"config">>
        /\ Head(<<"keychain">>) = "keychain"
    BY DEF CredentialPlans
  <2>2. /\ c \in RequestTypes
        /\ c.stage = "credentials" /\ c.todo = <<"keychain">>
        /\ c.opened = {} /\ c.body = <<>> /\ c.binding = r.binding
        /\ c.token = r.token /\ c.kind = r.kind /\ c.answer = r.answer
    BY <1>1, <1>5, <2>1 DEF RequestTypes
  <2>3. Becomes(p, c)
    BY <1>5
  <2> HIDE DEF c
  <2>4. Known(p, c)
    BY <1>1, <2>2, EmptyBody DEF Known, Nil
  <2>5. source \notin Stable
    BY <1>1, <1>5, Plans DEF Planned
  <2>6. Planned(c) /\ Whole(c)
    BY <1>1, <1>5, <2>1, <2>2, <2>5 DEF Planned, Whole, Nil
  <2>7. Good(p, c) /\ Fits(r, c)
    BY <2>2, <2>4, <2>6 DEF Good, Fits
  <2> QED
    BY <2>3, <2>7 DEF Steps, r
<1>6. CASE Becomes(p, Refused(r))
  BY <1>6, RefusedSteps DEF Choose, r
<1> QED
  BY <1>2, <1>3, <1>4, <1>5, <1>6

LEMMA ReadConfigSteps ==
    ASSUME CredentialsInv, NEW p \in Requests, ReadConfig(p)
    PROVE  Steps(p)
<1>1. At(p, "config") /\ Disk
  BY AtStep DEF ReadConfig
<1>2. \/ Becomes(p, Refused(request[p]))
      \/ path # NoFile /\ Becomes(p, Advanced([request[p] EXCEPT !.seen = {Meta(path)}]))
  BY DEF ReadConfig
<1>3. CASE Becomes(p, Refused(request[p]))
  BY <1>1, <1>3, RefusedSteps
<1>4. CASE path # NoFile /\ Becomes(p, Advanced([request[p] EXCEPT !.seen = {Meta(path)}]))
  BY <1>1, <1>4, LookSteps DEF Disk
<1> QED
  BY <1>2, <1>3, <1>4

LEMMA ReadKeychainSteps ==
    ASSUME CredentialsInv, NEW p \in Requests, ReadKeychain(p)
    PROVE  Steps(p)
<1> DEFINE r == request[p]
           n == [r EXCEPT !.token = {keychain}, !.kind = "keychain"]
<1>1. /\ Known(p, r) /\ Planned(r) /\ Whole(r) /\ source \in Sources /\ Disk
      /\ r.stage \in {"binding", "credentials"} /\ Head(r.todo) = "keychain"
      /\ r \in RequestTypes /\ keychain \in Logins
  BY AtStep DEF ReadKeychain, Known, Disk
<1>2. Becomes(p, Advanced(n))
  BY DEF ReadKeychain
<1>3. r.stage = "credentials" /\ r.todo \in CredentialPlans /\ source \notin Stable
      /\ r.body = <<>> /\ r.opened = {}
  <2>1. r.stage = "credentials"
    BY <1>1, Plans DEF Planned
  <2> QED
    BY <1>1, <2>1, Plans DEF Planned, Nil
<1>4. /\ n \in RequestTypes
      /\ n.stage = "credentials" /\ n.todo = r.todo
      /\ n.opened = {} /\ n.body = <<>> /\ n.binding = r.binding
      /\ n.token = {keychain} /\ n.kind = "keychain" /\ n.answer = r.answer
  BY <1>1, <1>3 DEF RequestTypes, Kinds
<1> HIDE DEF r, n
<1>5. Known(p, n)
  BY <1>1, <1>4, EmptyBody DEF Known, Nil
<1>6. CASE Tail(r.todo) = <<>>
  <2>1. PICK last \in RequestTypes :
              /\ Advanced(n) = Finished(last)
              /\ last.stage = n.stage /\ last.seen = n.seen /\ last.opened = n.opened
              /\ last.body = n.body /\ last.binding = n.binding
              /\ last.token = n.token /\ last.kind = n.kind /\ last.answer = n.answer
    BY <1>4, <1>6, LastStep
  <2>2. Known(p, last)
    BY <1>5, <2>1 DEF Known
  <2>3. /\ Good(p, Finished(last)) /\ Finished(last).body = <<>>
        /\ Finished(last).binding = r.binding
    BY <1>3, <1>4, <2>1, <2>2, AskingGood DEF Nil
  <2> QED
    BY <1>2, <2>1, <2>3 DEF Steps, Fits, r
<1>7. CASE Tail(r.todo) = <<"config">>
  <2>1. <<"config">> \in CredentialPlans /\ <<"config">> # <<>> /\ Head(<<"config">>) = "config"
    BY DEF CredentialPlans
  <2> DEFINE next == Advanced(n)
  <2>2. /\ next \in RequestTypes
        /\ next.stage = n.stage /\ next.todo = Tail(n.todo) /\ next.seen = n.seen
        /\ next.opened = n.opened /\ next.body = n.body /\ next.binding = n.binding
        /\ next.token = n.token /\ next.kind = n.kind /\ next.answer = n.answer
    BY <1>4, <1>7, <2>1, NextStep
  <2> HIDE DEF next
  <2>3. Known(p, next)
    BY <1>5, <2>2 DEF Known
  <2>4. Planned(next)
    BY <1>3, <1>4, <1>7, <2>1, <2>2 DEF Planned, Nil
  <2>5. Whole(next)
    BY <1>3, <1>4, <2>2 DEF Whole
  <2>6. Good(p, next) /\ Fits(r, next)
    BY <1>4, <2>2, <2>3, <2>4, <2>5 DEF Good, Fits
  <2> QED
    BY <1>2, <2>6 DEF Steps, r, next
<1> QED
  BY <1>1, <1>3, <1>6, <1>7, Plans

LEMMA OpenSteps ==
    ASSUME CredentialsInv, NEW p \in Requests, Open(p)
    PROVE  Steps(p)
<1> DEFINE r == request[p]
           n == [r EXCEPT !.opened = {Meta(path)}]
<1>1. /\ Known(p, r) /\ Planned(r) /\ Whole(r) /\ source \in Sources /\ Disk
      /\ r.stage \in {"binding", "credentials"} /\ Head(r.todo) = "open"
      /\ r \in RequestTypes /\ At(p, "open")
  BY AtStep DEF Open, Known
<1>2. Becomes(p, Refused(r)) \/ (path # NoFile /\ Becomes(p, Advanced(n)))
  BY DEF Open
<1>3. CASE Becomes(p, Refused(r))
  BY <1>1, <1>3, RefusedSteps
<1>4. CASE path # NoFile /\ Becomes(p, Advanced(n))
  <2>1. path \in Files /\ Meta(path) \in Metas /\ r.body = <<>>
    BY <1>1, <1>4, MetaOfPath DEF Disk, Planned
  <2>2. /\ n \in RequestTypes
        /\ n.stage = r.stage /\ n.todo = r.todo /\ n.seen = r.seen
        /\ n.opened = {Meta(path)} /\ n.body = <<>> /\ n.binding = r.binding
        /\ n.token = r.token /\ n.kind = r.kind /\ n.answer = r.answer
    BY <1>1, <2>1 DEF RequestTypes
  <2>3. Becomes(p, Advanced(n))
    BY <1>4
  <2>4. Noted(p, Meta(path))
    BY <1>1, <2>1, PathIsNoted
  <2> HIDE DEF r, n
  <2>5. Known(p, n)
    BY <1>1, <2>1, <2>2, <2>4, EmptyBody DEF Known, Nil
  <2>6. CASE r.stage = "binding"
    <3>1. Tail(n.todo) = <<>>
      <4>1. Tail(<<"open">>) = <<>>
        OBVIOUS
      <4> QED
        BY <1>1, <2>2, <2>6, <4>1, Plans DEF Planned
    <3>2. PICK last \in RequestTypes :
                /\ Advanced(n) = Finished(last)
                /\ last.stage = n.stage /\ last.seen = n.seen /\ last.opened = n.opened
                /\ last.body = n.body /\ last.binding = n.binding
                /\ last.token = n.token /\ last.kind = n.kind /\ last.answer = n.answer
      BY <2>2, <3>1, LastStep
    <3>3. Known(p, last)
      BY <2>5, <3>2 DEF Known
    <3>4. Good(p, Finished(last)) /\ Fits(r, Finished(last))
      BY <1>1, <2>1, <2>2, <2>6, <3>2, <3>3, FinishedBinding
    <3> QED
      BY <2>3, <3>2, <3>4 DEF Steps, r
  <2>7. CASE r.stage = "credentials"
    <3>1. /\ r.todo \in CredentialPlans /\ (source \in Stable => r.todo \in StablePlans)
          /\ Tail(r.todo) \in CredentialPlans /\ Tail(r.todo) # <<>>
          /\ Head(Tail(r.todo)) = "read"
      BY <1>1, <2>7, Plans, PlansGoOn DEF Planned
    <3> DEFINE next == Advanced(n)
    <3>2. /\ next \in RequestTypes
          /\ next.stage = n.stage /\ next.todo = Tail(n.todo) /\ next.seen = n.seen
          /\ next.opened = n.opened /\ next.body = n.body /\ next.binding = n.binding
          /\ next.token = n.token /\ next.kind = n.kind /\ next.answer = n.answer
      BY <2>2, <3>1, NextStep
    <3> HIDE DEF next
    <3>3. Known(p, next)
      BY <2>5, <3>2 DEF Known
    <3>4. /\ source \in Stable => next.todo \in StablePlans
          /\ next.todo # <<"config">>
      <4>1. Head(<<"config">>) = "config"
        OBVIOUS
      <4>2. next.todo = Tail(r.todo)
        BY <2>2, <3>2
      <4>3. next.todo # <<"config">>
        BY <3>1, <4>1, <4>2
      <4>4. source \in Stable => Tail(r.todo) \in StablePlans \cup {<<>>}
        BY <3>1, Plans
      <4> QED
        BY <3>1, <4>2, <4>3, <4>4
    <3>5. Planned(next)
      BY <1>1, <2>2, <2>7, <3>1, <3>2, <3>4 DEF Planned, Nil
    <3>6. Whole(next)
      <4>1. \A m \in Metas : Prefix(<<>>, m)
        <5> SUFFICES ASSUME NEW m \in Metas
                     PROVE  /\ Len(<<>>) <= Len(files[m.file].content)
                            /\ \A i \in 1..Len(<<>>) : <<>>[i] = files[m.file].content[i]
          BY DEF Prefix
        <5>1. m.file \in Files
          BY DEF Metas
        <5>2. files[m.file].content \in Seq(Logins)
          BY <1>1, <5>1 DEF Disk
        <5>3. Len(files[m.file].content) \in Nat
          BY <5>2
        <5>4. 1..0 = {}
          OBVIOUS
        <5> QED
          BY <5>3, <5>4, EmptyBody
      <4> QED
        BY <2>1, <2>2, <2>7, <3>2, <4>1 DEF Whole
    <3>7. Good(p, next) /\ Fits(r, next)
      BY <2>2, <2>7, <3>2, <3>3, <3>5, <3>6 DEF Good, Fits
    <3> QED
      BY <2>3, <3>7 DEF Steps, r, next
  <2> QED
    BY <1>1, <2>6, <2>7
<1> QED
  BY <1>2, <1>3, <1>4

\* What a request that reads has open.
LEMMA OpenedFile ==
    ASSUME CredentialsInv, NEW p \in Requests, NEW step \in {"read", "final"}, At(p, step)
    PROVE  LET r == request[p]
           IN  \E m \in Metas :
                  /\ r.opened = {m} /\ The(r.opened) = m /\ m.file \in Files /\ m.time \in Nat
                  /\ files[m.file].content \in Seq(Logins) /\ files[m.file].time \in Nat
                  /\ r.stage = "credentials" /\ r.todo \in CredentialPlans
                  /\ source \in Stable => r.todo \in StablePlans /\ Prefix(r.body, m)
<1> DEFINE r == request[p]
<1>1. /\ Known(p, r) /\ Planned(r) /\ Whole(r) /\ source \in Sources /\ Disk
      /\ r.stage \in {"binding", "credentials"} /\ Head(r.todo) = step
  BY AtStep
<1> HIDE DEF r
<1>2. r.stage = "credentials"
  BY <1>1, Plans DEF Planned
<1>3. PICK m \in Metas : r.opened = {m}
  BY <1>1 DEF Known, Planned
<1>4. m.file \in Files /\ m.time \in Nat
  BY CredentialsAssumption DEF Metas
<1>5. files[m.file].content \in Seq(Logins) /\ files[m.file].time \in Nat
  BY <1>1, <1>4 DEF Disk
<1>6. The(r.opened) = m
  BY <1>3 DEF The
<1>7. r.todo \in CredentialPlans /\ (source \in Stable => r.todo \in StablePlans)
  BY <1>1, <1>2 DEF Planned
<1>8. source \in Stable => Prefix(r.body, m)
  BY <1>1, <1>2, <1>3 DEF Whole
<1> QED
  BY <1>2, <1>3, <1>4, <1>5, <1>6, <1>7, <1>8 DEF r

LEMMA ReadHalf ==
    ASSUME NEW body \in Seq(Logins), NEW m \in Metas,
           files[m.file].content \in Seq(Logins),
           Len(body) + 1 \in DOMAIN files[m.file].content,
           NEW x, x = files[m.file].content[Len(body) + 1]
    PROVE  /\ Append(body, x) \in Seq(Logins)
           /\ ToSet(Append(body, x)) = ToSet(body) \cup {x}
           /\ x \in Content(m.file)
           /\ Prefix(body, m) => Prefix(Append(body, x), m)
<1> DEFINE content == files[m.file].content
           new == Append(body, x)
<1>1. content \in Seq(Logins) /\ Len(content) \in Nat /\ DOMAIN content = 1..Len(content)
      /\ Len(body) \in Nat /\ Len(body) + 1 \in DOMAIN content /\ x = content[Len(body) + 1]
  OBVIOUS
<1>2. x \in Logins /\ x \in Content(m.file)
  BY <1>1, ElementsOf DEF Content
<1>3. /\ new \in Seq(Logins) /\ Len(new) = Len(body) + 1
      /\ \A i \in 1..Len(body) : new[i] = body[i]
      /\ new[Len(body) + 1] = x
      /\ ToSet(new) = ToSet(body) \cup {x}
  BY <1>2, Appended
<1> HIDE DEF content, new
<1>4. ASSUME Len(body) <= Len(content), \A i \in 1..Len(body) : body[i] = content[i]
      PROVE  Len(new) <= Len(content) /\ \A i \in 1..Len(new) : new[i] = content[i]
  <2>1. \A i \in 1..Len(new) : i \in 1..Len(body) \/ i = Len(body) + 1
    BY <1>1, <1>3
  <2> QED
    BY <1>1, <1>3, <1>4, <2>1
<1>5. Prefix(body, m) => Prefix(new, m)
  BY <1>4 DEF Prefix, content
<1> QED
  BY <1>2, <1>3, <1>5 DEF new

LEMMA ReadSteps ==
    ASSUME CredentialsInv, NEW p \in Requests, Read(p)
    PROVE  Steps(p)
<1> DEFINE r == request[p]
<1>1. /\ Known(p, r) /\ Planned(r) /\ Whole(r) /\ source \in Sources /\ Disk
      /\ Head(r.todo) = "read" /\ At(p, "read")
      /\ r \in RequestTypes /\ r.body \in Seq(Logins)
  BY AtStep DEF Read, Known, RequestTypes
<1>2. PICK m \in Metas :
                  /\ r.opened = {m} /\ The(r.opened) = m /\ m.file \in Files /\ m.time \in Nat
                  /\ files[m.file].content \in Seq(Logins) /\ files[m.file].time \in Nat
                  /\ r.stage = "credentials" /\ r.todo \in CredentialPlans
                  /\ source \in Stable => r.todo \in StablePlans /\ Prefix(r.body, m)
  BY <1>1, OpenedFile
<1> DEFINE content == files[m.file].content
           x == content[Len(r.body) + 1]
<1>2a. \/ r.todo = <<"read">> /\ Tail(r.todo) = <<>> /\ Len(r.todo) = 1
       \/ r.todo = <<"read", "final">> /\ Tail(r.todo) = <<"final">> /\ Len(r.todo) = 2
  BY <1>1, <1>2, Plans
<1>3. \/ Len(r.body) + 1 \in DOMAIN content /\ Becomes(p, [r EXCEPT !.body = Append(@, x)])
      \/ Len(r.todo) > 1 /\ Becomes(p, Advanced(r))
      \/ Len(r.todo) = 1 /\ Decodes(r.body) /\ Becomes(p, Advanced(r))
      \/ Becomes(p, Refused(r))
  <2> DEFINE read == Len(r.body) + 1 \in DOMAIN content
             new == CASE read -> [r EXCEPT !.body = Append(@, x)]
                      [] ~read /\ Len(r.todo) > 1 -> Advanced(r)
                      [] ~read /\ Len(r.todo) = 1 -> IF Decodes(r.body) THEN Advanced(r) ELSE Refused(r)
  <2>1. Becomes(p, new)
    BY <1>2 DEF Read
  <2>2. Len(r.todo) = 1 \/ Len(r.todo) > 1
    BY <1>2a
  <2>3. \/ read /\ new = [r EXCEPT !.body = Append(@, x)]
        \/ ~read /\ Len(r.todo) > 1 /\ new = Advanced(r)
        \/ Len(r.todo) = 1 /\ Decodes(r.body) /\ new = Advanced(r)
        \/ new = Refused(r)
    <3> HIDE DEF read
    <3>1. CASE read
      BY <3>1
    <3>2. CASE ~read /\ Len(r.todo) > 1
      BY <3>2
    <3>3. CASE ~read /\ Len(r.todo) = 1 /\ Decodes(r.body)
      BY <3>3
    <3>4. CASE ~read /\ Len(r.todo) = 1 /\ ~Decodes(r.body)
      BY <3>4
    <3> QED
      BY <2>2, <3>1, <3>2, <3>3, <3>4
  <2> HIDE DEF new
  <2> QED
    BY <2>1, <2>3
<1>4. CASE Len(r.body) + 1 \in DOMAIN content /\ Becomes(p, [r EXCEPT !.body = Append(@, x)])
  <2> DEFINE new == [r EXCEPT !.body = Append(r.body, x)]
  <2>1. /\ Append(r.body, x) \in Seq(Logins)
        /\ ToSet(Append(r.body, x)) = ToSet(r.body) \cup {x}
        /\ x \in Content(m.file)
        /\ Prefix(r.body, m) => Prefix(Append(r.body, x), m)
    BY <1>1, <1>2, <1>4, ReadHalf
  <2>2. /\ new \in RequestTypes
        /\ new.stage = r.stage /\ new.todo = r.todo /\ new.seen = r.seen
        /\ new.opened = r.opened /\ new.body = Append(r.body, x) /\ new.binding = r.binding
        /\ new.token = r.token /\ new.kind = r.kind /\ new.answer = r.answer
    BY <1>1, <2>1 DEF RequestTypes
  <2>3. Becomes(p, new)
    BY <1>4
  <2> HIDE DEF r, new, content, x
  <2>4. Content(m.file) \subseteq during[p]
    BY <1>1, <1>2 DEF Known, Noted
  <2>5. Known(p, new)
    BY <1>1, <2>1, <2>2, <2>4 DEF Known
  <2>6. Planned(new)
    BY <1>1, <1>2, <2>2 DEF Planned
  <2>7. Whole(new)
    BY <1>2, <2>1, <2>2 DEF Whole
  <2>8. Fits(r, new)
    BY <1>2, <2>1, <2>2 DEF Fits
  <2>9. Good(p, new)
    BY <1>2, <2>2, <2>5, <2>6, <2>7 DEF Good
  <2> QED
    BY <2>3, <2>8, <2>9 DEF Steps, r
<1>5. CASE Len(r.todo) > 1 /\ Becomes(p, Advanced(r))
  <2>1. r.todo = <<"read", "final">> /\ Tail(r.todo) = <<"final">>
    BY <1>5, <1>2a
  <2>2. /\ <<"final">> \in CredentialPlans /\ <<"final">> \in StablePlans
        /\ Head(<<"final">>) = "final" /\ <<"final">> # <<>> /\ <<"final">> # <<"config">>
    BY DEF CredentialPlans, StablePlans
  <2> DEFINE next == Advanced(r)
  <2>3. /\ next \in RequestTypes
        /\ next.stage = r.stage /\ next.todo = Tail(r.todo) /\ next.seen = r.seen
        /\ next.opened = r.opened /\ next.body = r.body /\ next.binding = r.binding
        /\ next.token = r.token /\ next.kind = r.kind /\ next.answer = r.answer
    BY <1>1, <2>1, <2>2, NextStep
  <2>4. Becomes(p, next)
    BY <1>5
  <2> HIDE DEF next, r
  <2>5. Known(p, next)
    BY <1>1, <2>3 DEF Known
  <2>6. Planned(next)
    BY <1>1, <1>2, <2>1, <2>2, <2>3 DEF Planned, Nil
  <2>7. Whole(next)
    BY <1>2, <2>3 DEF Whole
  <2>8. Good(p, next) /\ Fits(r, next)
    BY <1>2, <2>3, <2>5, <2>6, <2>7 DEF Good, Fits
  <2> QED
    BY <2>4, <2>8 DEF Steps, r
<1>6. CASE Len(r.todo) = 1 /\ Decodes(r.body) /\ Becomes(p, Advanced(r))
  <2>1. Tail(r.todo) = <<>> /\ source \notin Stable
    <3>1. ~(Len(r.todo) = 2)
      BY <1>6
    <3>2. Tail(r.todo) = <<>> /\ Head(r.todo) = "read"
      BY <1>1, <1>2a, <3>1
    <3>3. <<>> # <<"final">>
      OBVIOUS
    <3> QED
      BY <1>1, <1>2, <3>2, <3>3, Plans
  <2>2. PICK last \in RequestTypes :
              /\ Advanced(r) = Finished(last)
              /\ last.stage = r.stage /\ last.seen = r.seen /\ last.opened = r.opened
              /\ last.body = r.body /\ last.binding = r.binding
              /\ last.token = r.token /\ last.kind = r.kind /\ last.answer = r.answer
    BY <1>1, <2>1, LastStep
  <2>3. Becomes(p, Finished(last))
    BY <1>6, <2>2
  <2>4. Fits(r, Finished(last)) /\ Good(p, Finished(last))
    <3> HIDE DEF r
    <3>1. Known(p, last)
      BY <1>1, <2>2 DEF Known
    <3>2. r.kind = "file" <=> r.token = Nil
      BY <1>1, <1>2 DEF Planned
    <3>3. r.body # <<>>
      BY <1>6 DEF Decodes
    <3> QED
      BY <1>2, <2>1, <2>2, <3>1, <3>2, <3>3, AskingGood DEF Fits
  <2> QED
    BY <2>3, <2>4 DEF Steps
<1>7. CASE Becomes(p, Refused(r))
  BY <1>1, <1>7, RefusedSteps
<1> QED
  BY <1>3, <1>4, <1>5, <1>6, <1>7

LEMMA FinalSteps ==
    ASSUME CredentialsInv, NEW p \in Requests, Final(p)
    PROVE  Steps(p)
<1> DEFINE r == request[p]
<1>1. /\ Known(p, r) /\ Planned(r) /\ Whole(r) /\ source \in Sources /\ Disk
      /\ Head(r.todo) = "final" /\ At(p, "final")
      /\ r \in RequestTypes /\ r.body \in Seq(Logins)
  BY AtStep DEF Final, Known, RequestTypes
<1>2. PICK m \in Metas :
                  /\ r.opened = {m} /\ The(r.opened) = m /\ m.file \in Files /\ m.time \in Nat
                  /\ files[m.file].content \in Seq(Logins) /\ files[m.file].time \in Nat
                  /\ r.stage = "credentials" /\ r.todo \in CredentialPlans
                  /\ source \in Stable => r.todo \in StablePlans /\ Prefix(r.body, m)
  BY <1>1, OpenedFile
<1>3. \/ Becomes(p, Refused(r))
      \/ /\ Decodes(r.body) /\ files[m.file].time = m.time
         /\ Becomes(p, Advanced(r))
  BY <1>2 DEF Final, Unstable, Meta
<1>4. CASE Becomes(p, Refused(r))
  BY <1>1, <1>4, RefusedSteps
<1>5. CASE /\ Decodes(r.body) /\ files[m.file].time = m.time
           /\ Becomes(p, Advanced(r))
  <2>1. Tail(r.todo) = <<>>
    BY <1>1, <1>2, Plans
  <2>2. PICK last \in RequestTypes :
              /\ Advanced(r) = Finished(last)
              /\ last.stage = r.stage /\ last.seen = r.seen /\ last.opened = r.opened
              /\ last.body = r.body /\ last.binding = r.binding
              /\ last.token = r.token /\ last.kind = r.kind /\ last.answer = r.answer
    BY <1>1, <2>1, LastStep
  <2>3. Becomes(p, Finished(last))
    BY <1>5, <2>2
  <2> HIDE DEF r
  <2>4. Known(p, last)
    BY <1>1, <2>2 DEF Known
  <2>5. r.kind = "file" <=> r.token = Nil
    BY <1>1, <1>2 DEF Planned
  <2>6. r.body # <<>> /\ (source \in Stable /\ source # "devin" => Len(r.body) = 2)
    BY <1>5 DEF Decodes, Stable
  <2>7. source \in Stable => Uniform(r.body)
    <3> SUFFICES ASSUME source \in Stable, NEW i \in 1..Len(r.body), NEW j \in 1..Len(r.body)
                 PROVE  r.body[i] = r.body[j]
      BY DEF Uniform
    <3> DEFINE content == files[m.file].content
    <3>1. /\ Len(r.body) <= Len(content)
          /\ \A k \in 1..Len(r.body) : r.body[k] = content[k]
      BY <1>2, <1>5 DEF Prefix
    <3>2. \A k, l \in 1..Len(content) : content[k] = content[l]
      BY <1>1, <1>2 DEF Disk
    <3>3. Len(r.body) \in Nat /\ Len(content) \in Nat
      BY <1>1, <1>2
    <3> HIDE DEF content
    <3> QED
      BY <3>1, <3>2, <3>3
  <2>8. Fits(r, Finished(last)) /\ Good(p, Finished(last))
    BY <1>2, <2>2, <2>4, <2>5, <2>6, <2>7, AskingGood DEF Fits
  <2> QED
    BY <2>3, <2>8 DEF Steps, r
<1> QED
  BY <1>3, <1>4, <1>5

----------------------------------------------------------------------------
(* The cache *)

LEMMA InStage ==
    ASSUME CredentialsInv, NEW p \in Requests, request[p].stage # "idle"
    PROVE  Known(p, request[p]) /\ Planned(request[p]) /\ Whole(request[p])
<1>1. Good(p, request[p])
  BY DEF CredentialsInv
<1> QED
  BY <1>1, Underway

LEMMA HitSteps ==
    ASSUME CredentialsInv, NEW p \in Requests, Hit(p)
    PROVE  Steps(p)
<1> DEFINE r == request[p]
<1>1. Known(p, r)
  BY InStage DEF Hit
<1>2. PICK b \in r.binding : b \in DOMAIN records /\ Becomes(p, Done(r, {records[b]}))
  BY DEF Hit
<1> DEFINE e == records[b]
<1>3. e \in Evidence /\ e.kind = b.kind
  BY <1>2 DEF CredentialsInv, Recorded, RecordedAs
<1>4. ASSUME e.kind = "file"
      PROVE  \/ e.login \in during[p]
             \/ \E c \in r.binding : e.file # {m.file : m \in c.print}
  <2>1. PICK m \in Metas : b.print = {m} /\ (e.file = {m.file} => Seeable(b, m, e.login))
    BY <1>2, <1>3, <1>4 DEF CredentialsInv, Recorded, RecordedAs
  <2>2. CASE e.file = {m.file}
    <3>1. Seeable(b, m, e.login)
      BY <2>1, <2>2
    <3> QED
      BY <3>1 DEF Seeable
  <2>3. CASE e.file # {m.file}
    <3>1. {n.file : n \in b.print} = {m.file}
      BY <2>1
    <3> QED
      BY <2>3, <3>1
  <2> QED
    BY <2>2, <2>3
<1> HIDE DEF e
<1>5. /\ Good(p, Done(r, {e}))
      /\ Done(r, {e}).body = <<>> /\ Done(r, {e}).binding = r.binding
  <2> DEFINE answer == {e}
  <2>1. /\ answer \in SUBSET Evidence
        /\ \A x \in answer : x.kind = "file" =>
              \/ x.login \in during[p]
              \/ \E c \in r.binding : x.file # {m.file : m \in c.print}
    BY <1>3, <1>4
  <2> HIDE DEF answer, r
  <2>2. /\ Good(p, Done(r, answer))
        /\ Done(r, answer).body = <<>> /\ Done(r, answer).binding = r.binding
    BY <1>1, <2>1, DoneGood
  <2> QED
    BY <2>2 DEF answer
<1> QED
  BY <1>2, <1>5 DEF Steps, Fits, e

LEMMA MissSteps ==
    ASSUME CredentialsInv, NEW p \in Requests, Miss(p)
    PROVE  Steps(p)
<1> DEFINE r == request[p]
           c == [r EXCEPT !.stage = "credentials", !.todo = CredentialSteps]
<1>1. r.stage = "consult" /\ Becomes(p, c)
  BY DEF Miss
<1>2. Known(p, r) /\ Planned(r)
  BY <1>1, InStage
<1>3. source \in Sources
  BY DEF CredentialsInv, Disk
<1>4. r = [Blank EXCEPT !.stage = "consult", !.binding = r.binding]
  BY <1>1, <1>2 DEF Planned
<1>5. CredentialSteps \in CredentialPlans
  BY <1>3, Started
<1>6. c \in RequestTypes
  BY <1>2, <1>5 DEF Known, RequestTypes, Stages
<1>7. /\ r.opened = {} /\ r.body = <<>> /\ r.kind = "file" /\ r.token = {} /\ r.answer = {}
      /\ r \in RequestTypes
  BY <1>2, <1>4 DEF Blank, Nil, Known
<1>8. /\ c.stage = "credentials" /\ c.todo = CredentialSteps
      /\ c.opened = {} /\ c.body = <<>> /\ c.kind = "file" /\ c.token = {}
      /\ c.binding = r.binding /\ c.answer = {}
  BY <1>7 DEF RequestTypes
<1> HIDE DEF c, r
<1>9. Good(p, c)
  BY <1>2, <1>3, <1>6, <1>8, ReadingGood
<1>10. Fits(r, c)
  BY <1>8 DEF Fits
<1> QED
  BY <1>1, <1>9, <1>10 DEF Steps, r

\* What Ask leaves in the cache.
LEMMA AskRecords ==
    ASSUME CredentialsInv, NEW p \in Requests, request[p].stage = "asking",
           NEW e, e = [login |-> The(request[p].token), kind |-> request[p].kind,
                       file |-> {m.file : m \in request[p].opened}]
    PROVE  /\ e \in Evidence
           /\ \A b \in request[p].binding : b.kind = e.kind =>
                 /\ b \in Bindings
                 /\ b.kind = "file" =>
                       \E m \in Metas :
                          /\ b.print = {m} /\ m.time <= files[m.file].time
                          /\ e.file = {m.file} => Seeable(b, m, e.login)
<1> DEFINE r == request[p]
<1>1. Known(p, r) /\ Whole(r)
  BY InStage
<1>2. r \in RequestTypes /\ r.token # Nil /\ (r.kind = "file" => r.token \subseteq ToSet(r.body))
  BY <1>1 DEF Known, Whole
<1>3. /\ r.token \subseteq Logins /\ r.kind \in Kinds /\ r.opened \subseteq Metas
      /\ r.binding \subseteq Bindings
  BY <1>2 DEF RequestTypes
<1>4. The(r.token) \in r.token
  BY <1>2, TheOf
<1>5. e \in Evidence
  BY <1>3, <1>4 DEF Evidence, Metas
<1>6. e.login = The(r.token) /\ e.kind = r.kind /\ e.file = {m.file : m \in r.opened}
  OBVIOUS
<1>7. ASSUME NEW b \in r.binding, b.kind = e.kind, b.kind = "file"
      PROVE  \E m \in Metas :
                /\ b.print = {m} /\ m.time <= files[m.file].time
                /\ e.file = {m.file} => Seeable(b, m, e.login)
  <2>1. PICK m \in Metas : b.print = {m} /\ Noted(p, m)
    BY <1>1, <1>7 DEF Known
  <2>2. ASSUME e.file = {m.file} PROVE Seeable(b, m, e.login)
    <3>1. PICK n \in r.opened : n.file = m.file
      BY <1>6, <2>2
    <3>2. e.login \in ToSet(r.body)
      BY <1>2, <1>4, <1>6, <1>7
    <3>3. Shared
      BY DEF CredentialsInv
    <3> QED
      BY <1>7, <2>1, <3>1, <3>2, <3>3 DEF Shared
  <2> QED
    BY <2>1, <2>2 DEF Noted
<1> QED
  BY <1>3, <1>5, <1>7

LEMMA AskSteps ==
    ASSUME CredentialsInv, NEW p \in Requests, Ask(p)
    PROVE  Steps(p) /\ RecordedAs(records')
<1> DEFINE r == request[p]
           e == [login |-> The(r.token), kind |-> r.kind, file |-> {m.file : m \in r.opened}]
<1>1. r.stage = "asking"
  BY DEF Ask
<1>2. Known(p, r) /\ Whole(r)
  BY <1>1, InStage
<1>3. RecordedAs(records)
  BY DEF CredentialsInv, Recorded
<1>4. CASE Becomes(p, Done(r, Nil)) /\ UNCHANGED records
  <2>1. /\ Good(p, Done(r, {})) /\ Done(r, {}).body = <<>>
        /\ Done(r, {}).binding = r.binding
    BY <1>2, DoneGood
  <2>2. Steps(p)
    BY <1>4, <2>1 DEF Steps, Fits, Nil
  <2>3. RecordedAs(records')
    BY <1>3, <1>4
  <2> QED
    BY <2>2, <2>3
<1>5. CASE /\ \A b \in r.binding : Storable(b, r.kind)
           /\ Becomes(p, Done(r, {e}))
           /\ records' = [b \in DOMAIN records \cup r.binding |->
                            IF b \in r.binding THEN e ELSE records[b]]
  <2>1. \A b \in r.binding : b.kind = e.kind
    BY <1>5 DEF Storable
  <2>2. e.kind = r.kind /\ e.login = The(r.token)
    OBVIOUS
  <2>3. PICK x : x = e
    OBVIOUS
  <2>4. /\ x \in Evidence
        /\ \A b \in r.binding :
              /\ b \in Bindings
              /\ b.kind = "file" =>
                    \E m \in Metas :
                       /\ b.print = {m} /\ m.time <= files[m.file].time
                       /\ x.file = {m.file} => Seeable(b, m, x.login)
    BY <1>1, <2>1, <2>3, AskRecords
  <2>5. x.kind = "file" => x.login \in during[p]
    <3>1. x.kind = "file" => x.login \in ToSet(r.body)
      BY <1>1, <1>2, <2>2, <2>3, TheOf DEF Whole
    <3> QED
      BY <1>2, <3>1 DEF Known
  <2>6. /\ Good(p, Done(r, {x})) /\ Done(r, {x}).body = <<>>
        /\ Done(r, {x}).binding = r.binding
    <3> DEFINE answer == {x}
    <3>1. /\ answer \in SUBSET Evidence
          /\ \A y \in answer : y.kind = "file" =>
                \/ y.login \in during[p]
                \/ \E b \in r.binding : y.file # {m.file : m \in b.print}
      BY <2>4, <2>5
    <3> HIDE DEF answer, r, e
    <3>2. /\ Good(p, Done(r, answer))
          /\ Done(r, answer).body = <<>> /\ Done(r, answer).binding = r.binding
      BY <1>2, <3>1, DoneGood
    <3> QED
      BY <3>2 DEF answer
  <2>7. Steps(p)
    BY <1>5, <2>3, <2>6 DEF Steps, Fits
  <2>8. RecordedAs(records')
    <3> HIDE DEF e
    <3>1. /\ DOMAIN records' = DOMAIN records \cup r.binding
          /\ \A b \in DOMAIN records' : records'[b] = IF b \in r.binding THEN x ELSE records[b]
      BY <1>5, <2>3
    <3>2. DOMAIN records' \subseteq Bindings
      BY <1>3, <2>4, <3>1 DEF RecordedAs
    <3>3. ASSUME NEW b \in DOMAIN records'
          PROVE  /\ records'[b] \in Evidence /\ records'[b].kind = b.kind
                 /\ b.kind = "file" =>
                       \E m \in Metas :
                          /\ b.print = {m} /\ m.time <= files[m.file].time
                          /\ records'[b].file = {m.file} => Seeable(b, m, records'[b].login)
      <4>1. CASE b \in r.binding
        <5>1. records'[b] = x
          BY <3>1, <4>1
        <5>2. x.kind = b.kind
          BY <2>1, <2>3, <4>1
        <5> QED
          BY <2>4, <4>1, <5>1, <5>2
      <4>2. CASE b \notin r.binding
        <5>1. records'[b] = records[b] /\ b \in DOMAIN records
          BY <3>1, <4>2
        <5> QED
          BY <1>3, <5>1 DEF RecordedAs
      <4> QED
        BY <4>1, <4>2
    <3> QED
      BY <3>2, <3>3 DEF RecordedAs
  <2> QED
    BY <2>7, <2>8
<1> QED
  BY <1>4, <1>5 DEF Ask

----------------------------------------------------------------------------
(* The invariant is kept *)

DiskUnchanged == UNCHANGED <<source, disk>>

LEMMA GoodUnchanged ==
    ASSUME DiskUnchanged, NEW q, NEW r, Good(q, r), request'[q] = r, during'[q] = during[q]
    PROVE  Good(q, request[q])'
<1>1. UNCHANGED <<source, path, files>>
  BY DEF DiskUnchanged, disk
<1>2. CASE r = Blank
  BY <1>2 DEF Good, Blank
<1>3. CASE r.stage # "idle" /\ Known(q, r) /\ Planned(r) /\ Whole(r)
  <2>1. Known(q, request[q])'
    BY <1>1, <1>3 DEF Known, Noted, Content
  <2>2. Planned(request[q])'
    BY <1>1, <1>3 DEF Planned
  <2>3. Whole(request[q])'
    BY <1>1, <1>3 DEF Whole, Prefix, Uniform
  <2> QED
    BY <1>3, <2>1, <2>2, <2>3 DEF Good
<1> QED
  BY <1>2, <1>3 DEF Good

LEMMA DiskStays == DiskUnchanged /\ Disk => Disk'
BY DEF DiskUnchanged, disk, Disk, Content

\* A binding comes from a request that has begun.
LEMMA BoundIsKnown ==
    ASSUME NEW q, NEW r, Good(q, r), NEW b \in r.binding
    PROVE  Known(q, r)
BY DEF Good, Blank, Nil

\* What is seeable stays so, when no request takes the binding but one whose
\* path shows it.
LEMMA SeeableStays ==
    ASSUME CredentialsInv, DiskUnchanged, UNCHANGED during, NEW p \in Requests, NEW new,
           Good(p, new), Fits(request[p], new), Becomes(p, new),
           NEW b, NEW m \in Metas, NEW x, b.kind = "file", b.print = {m},
           Seeable(b, m, x)
    PROVE  Seeable(b, m, x)'
<1>1. /\ UNCHANGED <<source, path, files, during>>
      /\ request' = [request EXCEPT ![p] = new]
      /\ request = [q \in Requests |-> request[q]]
  BY DEF DiskUnchanged, disk, Becomes, CredentialsInv
<1>2. ASSUME NEW q \in Requests, b \in request'[q].binding
      PROVE  x \in during[q]
  <2>1. CASE b \in request[q].binding
    BY <2>1 DEF Seeable
  <2>2. CASE b \notin request[q].binding
    <3>1. q = p /\ b \in new.binding
      BY <1>1, <1>2, <2>2
    <3>2. path \in Files /\ b.print = {Meta(path)}
      BY <2>2, <3>1 DEF Fits
    <3>3. m = Meta(path)
      BY <3>2
    <3>4. x \in Content(path)
      BY <3>2, <3>3, MetaOfPath DEF Seeable, CredentialsInv
    <3>5. Known(p, new)
      BY <3>1, BoundIsKnown
    <3>6. Content(path) \subseteq during[p]
      BY <3>2, <3>5, CredentialsAssumption DEF Known
    <3> QED
      BY <3>1, <3>4, <3>6
  <2> QED
    BY <2>1, <2>2
<1> QED
  BY <1>1, <1>2 DEF Seeable, Content

LEMMA StepsKeep ==
    ASSUME CredentialsInv, DiskUnchanged, UNCHANGED during, NEW p \in Requests, Steps(p),
           RecordedAs(records')
    PROVE  CredentialsInv'
<1>1. PICK new : Good(p, new) /\ Fits(request[p], new) /\ Becomes(p, new)
  BY DEF Steps
<1>2. /\ request' = [request EXCEPT ![p] = new]
      /\ request = [q \in Requests |-> request[q]]
  BY <1>1 DEF Becomes, CredentialsInv
<1>3. /\ request' = [q \in Requests |-> request'[q]]
      /\ request'[p] = new
      /\ \A q \in Requests : q # p => request'[q] = request[q]
  BY <1>2
<1>4. Disk'
  BY DiskStays DEF CredentialsInv
<1>5. \A q \in Requests : Good(q, request[q])'
  <2> SUFFICES ASSUME NEW q \in Requests PROVE Good(q, request[q])'
    OBVIOUS
  <2>1. PICK r : r = request'[q] /\ Good(q, r)
    BY <1>1, <1>3 DEF CredentialsInv
  <2> QED
    BY <2>1, GoodUnchanged
<1>6. Shared'
  <2> SUFFICES ASSUME NEW q \in Requests, NEW b \in request'[q].binding, NEW m \in Metas,
                      NEW n \in request'[q].opened,
                      b.kind = "file", b.print = {m}, n.file = m.file,
                      NEW x \in ToSet(request'[q].body)
               PROVE  Seeable(b, m, x)'
    BY DEF Shared
  <2>1. Seeable(b, m, x)
    <3>1. CASE \/ q # p
               \/ /\ b \in request[p].binding /\ n \in request[p].opened
                  /\ x \in ToSet(request[p].body)
      BY <1>3, <3>1 DEF CredentialsInv, Shared
    <3>2. CASE /\ q = p /\ b \in request[p].binding /\ n \in request[p].opened
               /\ \E k \in request[p].opened : x \in Content(k.file)
      <4>1. Known(p, request[p])
        <5>1. Good(p, request[p]) /\ b \in request[p].binding
          BY <3>2 DEF CredentialsInv
        <5> QED
          BY <5>1, BoundIsKnown
      <4>2. x \in Content(m.file)
        <5>1. PICK k \in request[p].opened : x \in Content(k.file)
          BY <3>2
        <5>2. request[p].opened = {} \/ \E o \in Metas : request[p].opened = {o}
          BY <4>1 DEF Known, Nil
        <5>3. k = n
          BY <3>2, <5>1, <5>2
        <5> QED
          BY <5>1, <5>3
      <4>3. ASSUME NEW o \in Requests, b \in request[o].binding
            PROVE  x \in during[o]
        <5>1. Known(o, request[o])
          <6>1. Good(o, request[o])
            BY DEF CredentialsInv
          <6> QED
            BY <4>3, <6>1, BoundIsKnown
        <5>2. Noted(o, m)
          BY <4>3, <5>1 DEF Known
        <5> QED
          BY <4>2, <5>2 DEF Noted
      <4> QED
        BY <4>2, <4>3 DEF Seeable
    <3>3. new.body # <<>> \/ q # p
      BY <1>3, EmptyBody
    <3> QED
      BY <1>1, <1>3, <3>1, <3>2, <3>3 DEF Fits
  <2> QED
    BY <1>1, <2>1, SeeableStays
<1>7. Recorded'
  <2> SUFFICES ASSUME NEW b \in DOMAIN records', b.kind = "file"
               PROVE  \E m \in Metas :
                         /\ b.print = {m} /\ m.time <= files'[m.file].time
                         /\ records'[b].file = {m.file} => Seeable(b, m, records[b].login)'
    BY DEF Recorded, RecordedAs
  <2>1. PICK m \in Metas :
              /\ b.print = {m} /\ m.time <= files[m.file].time
              /\ records'[b].file = {m.file} => Seeable(b, m, records'[b].login)
    BY DEF RecordedAs
  <2>2. files' = files
    BY DEF DiskUnchanged, disk
  <2>3. ASSUME records'[b].file = {m.file} PROVE Seeable(b, m, records[b].login)'
    <3>1. PICK x : x = records'[b].login
      OBVIOUS
    <3>2. Seeable(b, m, x)
      BY <2>1, <2>3, <3>1
    <3>3. Seeable(b, m, x)'
      BY <1>1, <2>1, <3>2, SeeableStays
    <3> QED
      BY <3>1, <3>3 DEF Seeable
  <2> QED
    BY <2>1, <2>2, <2>3
<1> QED
  BY <1>3, <1>4, <1>5, <1>6, <1>7 DEF CredentialsInv

\* The other requests are as they were, and so is what they may see.
LEMMA BeginKeeps ==
    ASSUME CredentialsInv, NEW p \in Requests, Begin(p)
    PROVE  CredentialsInv'
<1> DEFINE new == [Blank EXCEPT !.stage = "binding", !.todo = BindingSteps]
<1>1. /\ request' = [request EXCEPT ![p] = new] /\ request = [q \in Requests |-> request[q]]
      /\ during' = [during EXCEPT ![p] = Held(path)] /\ during \in [Requests -> SUBSET Logins]
      /\ UNCHANGED records
  BY DEF Begin, Becomes, CredentialsInv
<1>2. DiskUnchanged /\ Disk
  BY DEF Begin, DiskUnchanged, CredentialsInv
<1>3. /\ request' = [q \in Requests |-> request'[q]] /\ request'[p] = new
      /\ \A q \in Requests : q # p => request'[q] = request[q] /\ during'[q] = during[q]
      /\ during'[p] = Held(path)
  BY <1>1
<1>4. /\ new.stage = "binding" /\ new.todo = BindingSteps /\ new.opened = {}
      /\ new.binding = {} /\ new.token = {} /\ new.body = <<>> /\ new.answer = {}
  BY DEF Blank, Nil
<1>5. Disk'
  BY <1>2, DiskStays
<1>6. Held(path) \in SUBSET Logins
  <2>1. CASE path = NoFile
    BY <2>1 DEF Held
  <2>2. CASE path # NoFile
    <3>1. files[path].content \in Seq(Logins)
      BY <1>2, <2>2 DEF Disk
    <3> QED
      BY <2>2, <3>1, ElementsOf DEF Held
  <2> QED
    BY <2>1, <2>2
<1>7. during' \in [Requests -> SUBSET Logins]
  BY <1>1, <1>6
<1>8. Good(p, request[p])'
  <2>1. BindingSteps \in BindingPlans /\ Head(BindingSteps) \notin {"open", "read", "final"}
    <3>1. source \in Sources
      BY <1>2 DEF Disk
    <3> QED
      BY <3>1, Started, Plans
  <2>2. new \in RequestTypes
    BY <2>1, BlankType DEF RequestTypes, Stages
  <2> HIDE DEF new
  <2>3. UNCHANGED <<source, path, files>>
    BY <1>2 DEF DiskUnchanged, disk
  <2>4. path # NoFile => Content(path) = Held(path)
    BY DEF Content, Held
  <2>5. Known(p, request[p])'
    BY <1>3, <1>4, <2>2, <2>3, <2>4, EmptyBody DEF Known, Content, Nil
  <2>6. Planned(request[p])'
    BY <1>3, <1>4, <2>1, <2>3 DEF Planned, Nil
  <2>7. Whole(request[p])'
    BY <1>3, <1>4 DEF Whole
  <2> QED
    BY <1>3, <1>4, <2>5, <2>6, <2>7 DEF Good
<1>9. \A q \in Requests : q # p => Good(q, request[q])'
  <2> SUFFICES ASSUME NEW q \in Requests, q # p PROVE Good(q, request[q])'
    OBVIOUS
  <2>1. PICK r : r = request[q] /\ Good(q, r)
    BY DEF CredentialsInv
  <2>2. request'[q] = r /\ during'[q] = during[q]
    BY <1>3, <2>1
  <2> QED
    BY <1>2, <2>1, <2>2, GoodUnchanged
<1> HIDE DEF new
<1>10. ASSUME NEW b, NEW m, NEW x, Seeable(b, m, x) PROVE Seeable(b, m, x)'
  <2>1. UNCHANGED files
    BY <1>2 DEF DiskUnchanged, disk
  <2>2. \A q \in Requests : b \in request'[q].binding =>
            q # p /\ request'[q] = request[q] /\ during'[q] = during[q]
    BY <1>3, <1>4
  <2> QED
    BY <1>10, <2>1, <2>2 DEF Seeable, Content
<1>11. Shared'
  <2> SUFFICES ASSUME NEW q \in Requests, NEW b \in request'[q].binding, NEW m \in Metas,
                      NEW n \in request'[q].opened,
                      b.kind = "file", b.print = {m}, n.file = m.file,
                      NEW x \in ToSet(request'[q].body)
               PROVE  Seeable(b, m, x)'
    BY DEF Shared
  <2>1. q # p /\ request'[q] = request[q]
    BY <1>3, <1>4
  <2>2. Seeable(b, m, x)
    BY <2>1 DEF CredentialsInv, Shared
  <2> QED
    BY <1>10, <2>2
<1>12. Recorded'
  <2>1. RecordedAs(records)
    BY DEF CredentialsInv, Recorded
  <2>2. UNCHANGED <<files, records>>
    BY <1>1, <1>2 DEF DiskUnchanged, disk
  <2> SUFFICES ASSUME NEW b \in DOMAIN records, b.kind = "file"
               PROVE  \E m \in Metas :
                         /\ b.print = {m} /\ m.time <= files[m.file].time
                         /\ records[b].file = {m.file} => Seeable(b, m, records[b].login)'
    BY <2>1, <2>2 DEF Recorded, RecordedAs
  <2>3. PICK m \in Metas :
              /\ b.print = {m} /\ m.time <= files[m.file].time
              /\ records[b].file = {m.file} => Seeable(b, m, records[b].login)
    BY <2>1 DEF RecordedAs
  <2>4. ASSUME records[b].file = {m.file} PROVE Seeable(b, m, records[b].login)'
    <3>1. PICK x : x = records[b].login
      OBVIOUS
    <3>2. Seeable(b, m, x)'
      BY <1>10, <2>3, <2>4, <3>1
    <3> QED
      BY <2>2, <3>1, <3>2 DEF Seeable
  <2> QED
    BY <2>3, <2>4
<1> QED
  BY <1>3, <1>5, <1>7, <1>8, <1>9, <1>11, <1>12 DEF CredentialsInv

----------------------------------------------------------------------------
(* Other programs *)

\* A file changes at the path only, and its time tells.
Touched ==
    /\ UNCHANGED source
    /\ \A f \in Files :
          \/ files'[f] = files[f]
          \/ f = path /\ path' = path /\ files'[f].time = files[f].time + 1

DiskStep == (Move \/ Truncate \/ Write \/ ChangeKeychain) /\ UNCHANGED source

LEMMA MoveDisk == ASSUME Disk, Move, UNCHANGED source PROVE Disk' /\ Touched
<1>1. changes \in Nat /\ changes' \in 0..MaxChanges /\ changes' = changes + 1
  BY CredentialsAssumption DEF Disk, Move
<1>2. \A f \in Files : files[f].time \in Nat /\ files[f].time <= 3 * changes'
  BY <1>1 DEF Disk
<1> QED
  BY <1>1, <1>2 DEF Disk, Move, Touched, Content

LEMMA KeychainDisk == ASSUME Disk, ChangeKeychain, UNCHANGED source PROVE Disk' /\ Touched
<1>1. changes \in Nat /\ changes' \in 0..MaxChanges /\ changes' = changes + 1
  BY CredentialsAssumption DEF Disk, ChangeKeychain
<1>2. \A f \in Files : files[f].time \in Nat /\ files[f].time <= 3 * changes'
  BY <1>1 DEF Disk
<1>3. ASSUME writing # Nil
      PROVE  files[path].time + 2 <= 3 * changes' + Len(files[path].content)
  <2> DEFINE time == files[path].time
             n == Len(files[path].content)
  <2>1. path \in Files /\ time + 2 <= 3 * changes + n
    BY <1>3 DEF Disk
  <2>2. time \in Nat /\ n \in Nat
    BY <2>1 DEF Disk
  <2> HIDE DEF time, n
  <2>3. time + 2 <= 3 * changes' + n
    BY <1>1, <2>1, <2>2
  <2> QED
    BY <2>3 DEF time, n
<1> QED
  BY <1>1, <1>2, <1>3 DEF Disk, ChangeKeychain, Touched, Content

LEMMA TruncateDisk == ASSUME Disk, Truncate, UNCHANGED source PROVE Disk' /\ Touched
<1>1. changes \in Nat /\ changes' \in 0..MaxChanges /\ changes' = changes + 1
  BY CredentialsAssumption DEF Disk, Truncate
<1>2. \A f \in Files : files[f].time \in Nat /\ files[f].time + 1 <= 3 * changes'
  BY <1>1 DEF Disk
<1>3. path \in Files /\ path' = path /\ UNCHANGED <<source, keychain>>
  BY DEF Disk, Truncate
<1>4. PICK login \in Logins : writing' = {login}
  BY DEF Truncate
<1>5. files' = [files EXCEPT ![path] = [content |-> <<>>, time |-> files[path].time + 1]]
  BY DEF Truncate
<1>6. files \in [Files -> [content : Seq(Logins), time : Nat]]
  BY DEF Disk
<1>7. /\ \A f \in Files : f # path => files'[f] = files[f]
      /\ files'[path] = [content |-> <<>>, time |-> files[path].time + 1]
  BY <1>3, <1>5, <1>6
<1>8. [content |-> <<>>, time |-> files[path].time + 1] \in [content : Seq(Logins), time : Nat]
  BY <1>2, <1>3, EmptyBody
<1>9. files' \in [Files -> [content : Seq(Logins), time : Nat]]
  BY <1>3, <1>5, <1>6, <1>8
<1>10. /\ files'[path].content = <<>> /\ Len(files'[path].content) = 0
       /\ files'[path].time = files[path].time + 1
  BY <1>7
<1>11. \A f \in Files :
          /\ Len(files'[f].content) <= 2 /\ files'[f].time <= 3 * changes'
          /\ \A i, j \in 1..Len(files'[f].content) : files'[f].content[i] = files'[f].content[j]
  <2> SUFFICES ASSUME NEW f \in Files
               PROVE  /\ Len(files'[f].content) <= 2 /\ files'[f].time <= 3 * changes'
                      /\ \A i, j \in 1..Len(files'[f].content) :
                            files'[f].content[i] = files'[f].content[j]
    OBVIOUS
  <2>1. CASE f = path
    BY <1>2, <1>3, <1>10, <2>1
  <2>2. CASE f # path
    <3>1. files'[f] = files[f]
      BY <1>7, <2>2
    <3>2. files[f].time <= 3 * changes'
      BY <1>1, <1>2
    <3> QED
      BY <3>1, <3>2 DEF Disk
  <2> QED
    BY <2>1, <2>2
<1>12. Content(path)' = {}
  BY <1>3, <1>10, EmptyBody DEF Content
<1>13. files[path].time + 3 <= 3 * changes'
  BY <1>1, <1>3 DEF Disk
<1>14. files'[path].time + 2 <= 3 * changes' + 0
  BY <1>1, <1>2, <1>3, <1>10, <1>13
<1>15. Disk'
  BY <1>1, <1>3, <1>4, <1>9, <1>10, <1>11, <1>12, <1>14 DEF Disk
<1> QED
  BY <1>3, <1>7, <1>15 DEF Touched

LEMMA WriteDisk == ASSUME Disk, Write, UNCHANGED source PROVE Disk' /\ Touched
<1>1. /\ changes \in Nat /\ UNCHANGED <<source, path, keychain, changes>>
      /\ path \in Files
  BY CredentialsAssumption DEF Disk, Write
<1>2. PICK login \in Logins : writing = {login} /\ \A x \in Content(path) : x = login
  BY DEF Disk, Write
<1>3. The(writing) = login
  BY <1>2 DEF The
<1> DEFINE content == files[path].content
           longer == Append(content, login)
<1>4. /\ content \in Seq(Logins) /\ Len(content) \in Nat /\ Len(content) < 2
      /\ files[path].time \in Nat
      /\ files[path].time + 2 <= 3 * changes + Len(content)
  <2>1. writing # Nil
    BY DEF Write
  <2>2. Len(content) < 2 /\ files[path].time + 2 <= 3 * changes + Len(content)
    BY <2>1 DEF Disk
  <2>3. content \in Seq(Logins) /\ files[path].time \in Nat
    BY <1>1 DEF Disk
  <2> QED
    BY <2>2, <2>3
<1>5. /\ longer \in Seq(Logins) /\ Len(longer) = Len(content) + 1
      /\ ToSet(longer) = ToSet(content) \cup {login}
  BY <1>4, Appended
<1>6. \A x \in ToSet(longer) : x = login
  BY <1>2, <1>5 DEF Content
<1>7. \A i \in 1..Len(longer) : longer[i] = login
  <2> HIDE DEF longer
  <2>1. \A x : x \in ToSet(longer) <=> \E i \in 1..Len(longer) : longer[i] = x
    BY <1>5, ElementsOf
  <2> QED
    BY <1>6, <2>1
<1>8. files' = [files EXCEPT ![path] = [content |-> longer, time |-> files[path].time + 1]]
  BY <1>3 DEF Write
<1>9. files \in [Files -> [content : Seq(Logins), time : Nat]]
  BY DEF Disk
<1>10. writing' = IF Len(files'[path].content) = 2 THEN Nil ELSE writing
  BY <1>1 DEF Write
<1> HIDE DEF longer, content
<1>11. /\ \A f \in Files : f # path => files'[f] = files[f]
       /\ files'[path] = [content |-> longer, time |-> files[path].time + 1]
  BY <1>1, <1>8, <1>9
<1>12. [content |-> longer, time |-> files[path].time + 1] \in [content : Seq(Logins), time : Nat]
  BY <1>4, <1>5
<1>13. files' \in [Files -> [content : Seq(Logins), time : Nat]]
  BY <1>1, <1>8, <1>9, <1>12
<1>14. /\ files'[path].content = longer
       /\ files'[path].time = files[path].time + 1
  BY <1>11
<1>15. /\ files'[path].time <= 3 * changes
       /\ files'[path].time + 2 <= 3 * changes + Len(longer)
       /\ Len(longer) \in Nat /\ Len(longer) <= 2
  BY <1>1, <1>4, <1>5, <1>14
<1>16. \A f \in Files :
          /\ Len(files'[f].content) <= 2 /\ files'[f].time <= 3 * changes
          /\ \A i, j \in 1..Len(files'[f].content) : files'[f].content[i] = files'[f].content[j]
  <2> SUFFICES ASSUME NEW f \in Files
               PROVE  /\ Len(files'[f].content) <= 2 /\ files'[f].time <= 3 * changes
                      /\ \A i, j \in 1..Len(files'[f].content) :
                            files'[f].content[i] = files'[f].content[j]
    OBVIOUS
  <2>1. CASE f = path
    BY <1>7, <1>14, <1>15, <2>1
  <2>2. CASE f # path
    BY <1>11, <2>2 DEF Disk
  <2> QED
    BY <2>1, <2>2
<1>17. writing' # Nil =>
          /\ writing' = {login} /\ Len(longer) < 2
  <2>1. Len(files'[path].content) = Len(longer)
    BY <1>14
  <2>2. CASE Len(longer) = 2
    BY <1>10, <2>1, <2>2
  <2>3. CASE Len(longer) # 2
    <3>1. writing' = writing
      BY <1>10, <2>1, <2>3
    <3>2. \A n \in Nat : n <= 2 /\ n # 2 => n < 2
      OBVIOUS
    <3> QED
      BY <1>2, <1>15, <2>3, <3>1, <3>2
  <2> QED
    BY <2>2, <2>3
<1>18. Content(path)' = ToSet(longer)
  BY <1>1, <1>14 DEF Content
<1>19. Disk'
  <2>1. writing' # Nil =>
            /\ path' \in Files
            /\ writing' = {login} /\ \A x \in Content(path)' : x = login
            /\ Len(files'[path'].content) < 2
            /\ files'[path'].time + 2 <= 3 * changes' + Len(files'[path'].content)
    BY <1>1, <1>6, <1>14, <1>15, <1>17, <1>18
  <2>2. /\ source' \in Sources /\ path' \in Files \cup {NoFile}
        /\ keychain' \in Logins /\ changes' \in 0..MaxChanges
    BY <1>1 DEF Disk
  <2> QED
    BY <1>1, <1>13, <1>16, <2>1, <2>2 DEF Disk
<1> QED
  BY <1>1, <1>11, <1>19 DEF Touched

LEMMA DiskSteps ==
    ASSUME Disk, DiskStep
    PROVE  Disk' /\ Touched
BY MoveDisk, TruncateDisk, WriteDisk, KeychainDisk DEF DiskStep

\* What every request learns of it: the content that comes to the path.
LEMMA DuringGrows ==
    ASSUME CredentialsInv, LoginProgram
    PROVE  /\ during' \in [Requests -> SUBSET Logins]
           /\ \A p \in Requests :
                 /\ during[p] \subseteq during'[p]
                 /\ request[p].stage # "idle" /\ path' # NoFile =>
                       Content(path)' \subseteq during'[p]
<1>1. Disk' /\ during \in [Requests -> SUBSET Logins] /\ during' = Seen
  BY DiskSteps DEF CredentialsInv, LoginProgram, DiskStep
<1>2. path' # NoFile => ToSet(files'[path'].content) \in SUBSET Logins
  <2> SUFFICES ASSUME path' # NoFile PROVE ToSet(files'[path'].content) \in SUBSET Logins
    OBVIOUS
  <2>1. files'[path'].content \in Seq(Logins)
    BY <1>1 DEF Disk
  <2> QED
    BY <2>1, ElementsOf
<1>3. \A p \in Requests :
         during'[p] = during[p] \cup
            (IF request[p].stage = "idle" \/ path' = NoFile THEN {} ELSE ToSet(files'[path'].content))
  BY <1>1 DEF Seen
<1>4. during' \in [Requests -> SUBSET Logins]
  <2>1. \A p \in Requests : during'[p] \in SUBSET Logins
    BY <1>1, <1>2, <1>3
  <2> QED
    BY <1>1, <2>1 DEF Seen
<1> QED
  BY <1>3, <1>4 DEF Content

LEMMA LoginProgramKeeps ==
    ASSUME CredentialsInv, LoginProgram
    PROVE  CredentialsInv'
<1>1. Disk /\ Disk' /\ Touched /\ UNCHANGED <<source, records, request>>
  BY DiskSteps DEF CredentialsInv, LoginProgram, DiskStep
<1>2. \A m \in Metas : m.file \in Files /\ m.time \in Nat
  BY CredentialsAssumption DEF Metas
<1>3. ASSUME NEW m \in Metas, m.time <= files[m.file].time
      PROVE  /\ m.time <= files'[m.file].time
             /\ files'[m.file].time = m.time => files'[m.file] = files[m.file]
  <2>1. m.time \in Nat /\ files[m.file].time \in Nat
    BY <1>1, <1>2 DEF Disk
  <2>2. \/ files'[m.file] = files[m.file]
        \/ files'[m.file].time = files[m.file].time + 1
    BY <1>1, <1>2 DEF Touched
  <2> QED
    BY <1>3, <2>1, <2>2
<1>4. ASSUME NEW p \in Requests, NEW m \in Metas, Noted(p, m), request[p].stage # "idle"
      PROVE  Noted(p, m)'
  <2>1. m.time <= files[m.file].time /\ Content(m.file) \subseteq during[p]
    BY <1>4 DEF Noted
  <2>2. m.time <= files'[m.file].time
    BY <1>3, <2>1
  <2>3. CASE files'[m.file] = files[m.file]
    BY <2>1, <2>2, <2>3, DuringGrows DEF Noted, Content
  <2>4. CASE m.file = path /\ path' = path
    <3>1. path' # NoFile
      BY <1>2, <2>4, CredentialsAssumption
    <3>2. Content(path)' \subseteq during'[p]
      BY <1>4, <3>1, DuringGrows
    <3> QED
      BY <2>2, <2>4, <3>2 DEF Noted, Content
  <2> QED
    BY <1>1, <1>2, <2>3, <2>4 DEF Touched
<1>5. \A p \in Requests : Good(p, request[p])'
  <2> SUFFICES ASSUME NEW p \in Requests PROVE Good(p, request[p])'
    OBVIOUS
  <2>1. PICK r : r = request[p] /\ request'[p] = r /\ Good(p, r)
    BY <1>1 DEF CredentialsInv
  <2>2. CASE r = Blank
    BY <2>1, <2>2 DEF Good, Blank
  <2>3. CASE r.stage # "idle" /\ Known(p, r) /\ Planned(r) /\ Whole(r)
    <3>1. r.opened \subseteq Metas
      BY <2>3 DEF Known, RequestTypes
    <3>2. \A m \in Metas : Noted(p, m) => Noted(p, m)'
      BY <1>4, <2>1, <2>3
    <3>3. /\ during[p] \subseteq during'[p]
          /\ path' # NoFile => Content(path)' \subseteq during'[p]
      BY <2>1, <2>3, DuringGrows
    <3>4. \A m \in r.opened : Noted(p, m)'
      BY <2>3, <3>1, <3>2 DEF Known
    <3>5. \A b \in r.binding : b.kind = "file" =>
              \E m \in Metas : b.print = {m} /\ Noted(p, m)'
      BY <2>3, <3>2 DEF Known
    <3>6. \A e \in r.answer : e.kind = "file" =>
              \/ e.login \in during'[p]
              \/ \E b \in r.binding : e.file # {m.file : m \in b.print}
      BY <2>3, <3>3 DEF Known
    <3>7. ToSet(r.body) \subseteq during'[p]
      BY <2>3, <3>3 DEF Known
    <3>8. /\ r \in RequestTypes
          /\ r.opened = Nil \/ \E m \in Metas : r.opened = {m}
      BY <2>3 DEF Known
    <3>9. Known(p, request[p])'
      BY <2>1, <3>3, <3>4, <3>5, <3>6, <3>7, <3>8 DEF Known
    <3>10. Planned(request[p])'
      BY <1>1, <2>1, <2>3 DEF Planned
    <3>11. \A m \in r.opened : Prefix(r.body, m) => Prefix(r.body, m)'
      <4> SUFFICES ASSUME NEW m \in r.opened, Prefix(r.body, m) PROVE Prefix(r.body, m)'
        OBVIOUS
      <4>1. m \in Metas /\ m.time <= files[m.file].time
        BY <2>3, <3>1 DEF Known, Noted
      <4>2. files'[m.file].time = m.time => files'[m.file] = files[m.file]
        BY <1>3, <4>1
      <4> QED
        BY <4>2 DEF Prefix
    <3>12. Whole(request[p])'
      BY <1>1, <2>1, <2>3, <3>11 DEF Whole, Uniform
    <3> QED
      BY <2>1, <2>3, <3>9, <3>10, <3>12 DEF Good
  <2> QED
    BY <2>1, <2>2, <2>3 DEF Good
<1>6. ASSUME NEW b, NEW m \in Metas, m.time <= files[m.file].time, NEW x, Seeable(b, m, x)
      PROVE  Seeable(b, m, x)'
  <2>1. files'[m.file].time = m.time => files'[m.file] = files[m.file]
    BY <1>3, <1>6
  <2>2. \A p \in Requests : b \in request'[p].binding => x \in during'[p]
    BY <1>1, <1>6, DuringGrows DEF Seeable
  <2> QED
    BY <1>6, <2>1, <2>2 DEF Seeable, Content
<1>7. Shared'
  <2> SUFFICES ASSUME NEW p \in Requests, NEW b \in request[p].binding, NEW m \in Metas,
                      NEW n \in request[p].opened,
                      b.kind = "file", b.print = {m}, n.file = m.file,
                      NEW x \in ToSet(request[p].body)
               PROVE  Seeable(b, m, x)'
    BY <1>1 DEF Shared
  <2>1. Seeable(b, m, x)
    BY DEF CredentialsInv, Shared
  <2>2. Known(p, request[p])
    <3>1. Good(p, request[p])
      BY DEF CredentialsInv
    <3> QED
      BY <3>1, BoundIsKnown
  <2>3. m.time <= files[m.file].time
    BY <2>2 DEF Known, Noted
  <2> QED
    BY <1>6, <2>1, <2>3
<1>8. Recorded'
  <2>1. RecordedAs(records)
    BY DEF CredentialsInv, Recorded
  <2> SUFFICES ASSUME NEW b \in DOMAIN records, b.kind = "file"
               PROVE  \E m \in Metas :
                         /\ b.print = {m} /\ m.time <= files'[m.file].time
                         /\ records[b].file = {m.file} => Seeable(b, m, records[b].login)'
    BY <1>1, <2>1 DEF Recorded, RecordedAs
  <2>2. PICK m \in Metas :
              /\ b.print = {m} /\ m.time <= files[m.file].time
              /\ records[b].file = {m.file} => Seeable(b, m, records[b].login)
    BY <2>1 DEF RecordedAs
  <2>3. m.time <= files'[m.file].time
    BY <1>3, <2>2
  <2>4. ASSUME records[b].file = {m.file} PROVE Seeable(b, m, records[b].login)'
    <3>1. PICK x : x = records[b].login
      OBVIOUS
    <3>2. Seeable(b, m, x)'
      BY <1>6, <2>2, <2>4, <3>1
    <3> QED
      BY <1>1, <3>1, <3>2 DEF Seeable
  <2> QED
    BY <2>2, <2>3, <2>4
<1> QED
  BY <1>1, <1>5, <1>7, <1>8, DuringGrows DEF CredentialsInv

----------------------------------------------------------------------------
(* The theorems *)

LEMMA InitInv == Init => CredentialsInv
<1> SUFFICES ASSUME Init PROVE CredentialsInv
  OBVIOUS
<1>1. /\ Owner \in [Files -> Logins] /\ FirstFile \in Files /\ MaxChanges \in Nat
      /\ files = [f \in Files |-> [content |-> <<Owner[f], Owner[f]>>, time |-> 0]]
      /\ writing = {} /\ changes = 0
  BY CredentialsAssumption DEF Init, Nil
<1>2. \A f \in Files :
          /\ files[f].content = <<Owner[f], Owner[f]>> /\ files[f].content \in Seq(Logins)
          /\ files[f].time = 0 /\ Len(files[f].content) = 2
          /\ \A i, j \in 1..2 : files[f].content[i] = files[f].content[j]
  <2> SUFFICES ASSUME NEW f \in Files
               PROVE  /\ files[f].content = <<Owner[f], Owner[f]>>
                      /\ files[f].content \in Seq(Logins)
                      /\ files[f].time = 0 /\ Len(files[f].content) = 2
                      /\ \A i, j \in 1..2 : files[f].content[i] = files[f].content[j]
    OBVIOUS
  <2>1. PICK x \in Logins : x = Owner[f]
    BY <1>1
  <2>2. files[f] = [content |-> <<x, x>>, time |-> 0]
    BY <1>1, <2>1
  <2>3. /\ <<x, x>> \in Seq(Logins) /\ Len(<<x, x>>) = 2
        /\ <<x, x>>[1] = x /\ <<x, x>>[2] = x
    BY <2>1
  <2>4. \A i \in 1..2 : i = 1 \/ i = 2
    OBVIOUS
  <2> QED
    BY <2>1, <2>2, <2>3, <2>4
<1>3. files \in [Files -> [content : Seq(Logins), time : Nat]]
  BY <1>1
<1>4. Disk
  <2>1. source \in Sources /\ path \in Files \cup {NoFile} /\ keychain \in Logins
    BY <1>1 DEF Init
  <2>2. \A f \in Files :
            /\ Len(files[f].content) <= 2 /\ files[f].time <= 3 * changes
            /\ \A i, j \in 1..Len(files[f].content) : files[f].content[i] = files[f].content[j]
    <3> SUFFICES ASSUME NEW f \in Files
                 PROVE  /\ Len(files[f].content) <= 2 /\ files[f].time <= 3 * changes
                        /\ \A i, j \in 1..Len(files[f].content) :
                              files[f].content[i] = files[f].content[j]
      OBVIOUS
    <3>1. Len(files[f].content) = 2 /\ files[f].time = 0
      BY <1>2
    <3>2. \A i, j \in 1..2 : files[f].content[i] = files[f].content[j]
      BY <1>2
    <3>3. 3 * changes = 0
      BY <1>1
    <3> QED
      BY <3>1, <3>2, <3>3
  <2>3. changes \in 0..MaxChanges
    BY <1>1
  <2> QED
    BY <1>1, <1>3, <2>1, <2>2, <2>3 DEF Disk, Nil
<1>5. \A p \in Requests : request[p] = Blank
  BY DEF Init
<1>6. request = [p \in Requests |-> request[p]] /\ during \in [Requests -> SUBSET Logins]
  BY DEF Init
<1>7. Blank.binding = {}
  BY DEF Blank, Nil
<1>8. DOMAIN records = {}
  BY DEF Init
<1> QED
  BY <1>4, <1>5, <1>6, <1>7, <1>8 DEF CredentialsInv, Good, Shared, Recorded, RecordedAs

LEMMA RequestKeeps ==
    ASSUME CredentialsInv, NEW p \in Requests,
           \/ Inspect(p) \/ Choose(p) \/ Open(p) \/ Read(p) \/ Final(p)
           \/ ReadConfig(p) \/ ReadKeychain(p) \/ Hit(p) \/ Miss(p)
    PROVE  CredentialsInv'
<1>1. DiskUnchanged /\ UNCHANGED <<records, during>>
  BY DEF Inspect, Choose, Open, Read, Final, ReadConfig, ReadKeychain, Hit, Miss, DiskUnchanged
<1>2. RecordedAs(records')
  BY <1>1 DEF CredentialsInv, Recorded
<1>3. Steps(p)
  BY InspectSteps, ChooseSteps, OpenSteps, ReadSteps, FinalSteps, ReadConfigSteps,
     ReadKeychainSteps, HitSteps, MissSteps
<1> QED
  BY <1>1, <1>2, <1>3, StepsKeep

LEMMA AskKeeps ==
    ASSUME CredentialsInv, NEW p \in Requests, Ask(p)
    PROVE  CredentialsInv'
<1>1. DiskUnchanged /\ UNCHANGED during
  BY DEF Ask, DiskUnchanged
<1> QED
  BY <1>1, AskSteps, StepsKeep

LEMMA StutterKeeps == CredentialsInv /\ UNCHANGED vars => CredentialsInv'
<1> SUFFICES ASSUME CredentialsInv, UNCHANGED vars PROVE CredentialsInv'
  OBVIOUS
<1>1. UNCHANGED <<source, path, files, writing, keychain, changes, records, request, during>>
  BY DEF vars, disk
<1>2. Disk'
  BY <1>1 DEF CredentialsInv, Disk, Content
<1>3. DiskUnchanged
  BY <1>1 DEF DiskUnchanged, disk
<1>4. \A p \in Requests : Good(p, request[p])'
  <2> SUFFICES ASSUME NEW p \in Requests PROVE Good(p, request[p])'
    OBVIOUS
  <2>1. PICK r : r = request[p] /\ Good(p, r)
    BY DEF CredentialsInv
  <2> QED
    BY <1>1, <1>3, <2>1, GoodUnchanged
<1>5. Shared'
  BY <1>1 DEF CredentialsInv, Shared, Seeable, Content
<1>6. Recorded'
  BY <1>1 DEF CredentialsInv, Recorded, RecordedAs, Seeable, Content
<1> QED
  BY <1>1, <1>2, <1>4, <1>5, <1>6 DEF CredentialsInv

\* Whatever other programs write and whenever, what the requests and the cache
\* hold of the login file is as CredentialsInv says.
THEOREM CredentialsInvariant == Spec => []CredentialsInv
<1>1. CredentialsInv /\ [Next]_vars => CredentialsInv'
  <2> SUFFICES ASSUME CredentialsInv, [Next]_vars PROVE CredentialsInv'
    OBVIOUS
  <2>1. CASE LoginProgram
    BY <2>1, LoginProgramKeeps
  <2>2. ASSUME NEW p \in Requests, Begin(p) PROVE CredentialsInv'
    BY <2>2, BeginKeeps
  <2>3. ASSUME NEW p \in Requests, Ask(p) PROVE CredentialsInv'
    BY <2>3, AskKeeps
  <2>4. ASSUME NEW p \in Requests,
               \/ Inspect(p) \/ Choose(p) \/ Open(p) \/ Read(p) \/ Final(p)
               \/ ReadConfig(p) \/ ReadKeychain(p) \/ Hit(p) \/ Miss(p)
        PROVE  CredentialsInv'
    BY <2>4, RequestKeeps
  <2>5. CASE UNCHANGED vars
    BY <2>5, StutterKeeps
  <2> QED
    BY <2>1, <2>2, <2>3, <2>4, <2>5 DEF Next
<1> QED
  BY <1>1, InitInv, PTL DEF Spec

\* A login file and the Keychain are never mixed up in the cache, although which
\* of them is read is decided twice.
THEOREM CredentialsTypeCorrect == Spec => []TypeOK
<1>1. CredentialsInv => TypeOK
  <2> SUFFICES ASSUME CredentialsInv PROVE TypeOK
    OBVIOUS
  <2>1. /\ path \in Files \cup {NoFile}
        /\ \A f \in Files : Len(files[f].content) <= 2 /\ files[f].time \in Nat
    BY DEF CredentialsInv, Disk
  <2>2. DOMAIN records \subseteq Bindings
    BY DEF CredentialsInv, Recorded, RecordedAs
  <2>3. \A b \in DOMAIN records : records[b].kind = b.kind /\ records[b].login \in Logins
    BY DEF CredentialsInv, Recorded, RecordedAs, Evidence
  <2>4. ASSUME NEW p \in Requests
        PROVE  /\ request[p].stage \in Stages
               /\ request[p].stage = "asking" => \E t \in request[p].token : t \in Logins
    <3>1. Good(p, request[p])
      BY DEF CredentialsInv
    <3>2. CASE request[p] = Blank
      BY <3>2, BlankType DEF Stages
    <3>3. CASE Known(p, request[p]) /\ Whole(request[p])
      BY <3>3 DEF Known, Whole, RequestTypes, Nil
    <3> QED
      BY <3>1, <3>2, <3>3 DEF Good
  <2> QED
    BY <2>1, <2>2, <2>3, <2>4 DEF TypeOK, Stages
<1> QED
  BY <1>1, CredentialsInvariant, PTL

\* Cursor, Devin and Grok never use a login read while it was rewritten.
THEOREM LoginsAreReadWhole == Spec => []ReadIsWhole
<1>1. CredentialsInv => ReadIsWhole
  <2> SUFFICES ASSUME CredentialsInv, NEW p \in Requests,
                      request[p].stage = "asking", source \in Stable
               PROVE  /\ \A i, j \in DOMAIN request[p].body :
                            request[p].body[i] = request[p].body[j]
                      /\ source # "devin" => Len(request[p].body) = 2
    BY DEF ReadIsWhole, Stable
  <2>1. Known(p, request[p]) /\ Whole(request[p])
    BY InStage
  <2>2. request[p].body \in Seq(Logins)
    BY <2>1 DEF Known, RequestTypes
  <2>3. DOMAIN request[p].body = 1..Len(request[p].body)
    BY <2>2, ElementsOf
  <2> QED
    BY <2>1, <2>3 DEF Whole, Uniform
<1> QED
  BY <1>1, CredentialsInvariant, PTL

\* A request is answered with evidence of a login that was at the path while it
\* ran, through any changes of the file, unless it was moved away and put back
\* between the binding and the reading of the request that collected it.
THEOREM AnswersAreCurrent == Spec => []AnswerIsCurrent
<1>1. CredentialsInv => AnswerIsCurrent
  <2> SUFFICES ASSUME CredentialsInv, NEW p \in Requests, NEW e \in request[p].answer,
                      e.kind = "file"
               PROVE  \/ e.login \in during[p]
                      \/ \E b \in request[p].binding : e.file # {m.file : m \in b.print}
    BY DEF AnswerIsCurrent
  <2>1. Good(p, request[p])
    BY DEF CredentialsInv
  <2>2. request[p] # Blank
    BY DEF Blank, Nil
  <2> QED
    BY <2>1, <2>2 DEF Good, Known
<1> QED
  BY <1>1, CredentialsInvariant, PTL

=============================================================================
