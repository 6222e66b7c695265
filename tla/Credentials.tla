----------------------------- MODULE Credentials -----------------------------
(***************************************************************************)
(* The login file of a provider, which other programs replace and rewrite  *)
(* while commands read it.  A request takes the fingerprint of the file    *)
(* for its binding, looks in the cache, and reads the credentials when the *)
(* cache does not answer; the evidence is stored under the binding taken   *)
(* before.  A "_mac" source is the same provider where the token is, or    *)
(* may be, in the macOS Keychain.                                          *)
(*                                                                         *)
(* A file holds two halves, the token and the rest, each of some login;    *)
(* a program that logs in truncates it and writes both.  What is refused   *)
(* at any time (an expired or ambiguous login, a link, a foreign owner)    *)
(* is left out, and so are the age of the evidence, which may always be    *)
(* too old, and a provider that fails.  That every write moves the         *)
(* modification time is an assumption on the file system.                  *)
(***************************************************************************)
EXTENDS Integers, SequencesExt

CONSTANTS
    Sources,     \* the sources of credentials considered
    Requests,    \* the commands
    Files,       \* the files that may be at the path
    Logins,
    Owner,       \* by file, the login it holds at first
    FirstFile,   \* the file at the path at first, if any
    NoFile,
    MaxChanges   \* bounds what other programs do

ASSUME CredentialsAssumption ==
    /\ Sources \subseteq {"codex", "claude", "claude_mac", "cursor", "cursor_mac", "devin", "grok"}
    /\ NoFile \notin Files
    /\ Owner \in [Files -> Logins] /\ FirstFile \in Files
    /\ MaxChanges \in Nat

VARIABLES
    source,    \* of the credentials
    path,      \* the file at the path of the login, or NoFile
    files,     \* the content and the modification time of each file
    writing,   \* the login being written to the file at the path, if any
    keychain,  \* the login in the Keychain
    changes,   \* what other programs have done so far
    records,   \* the cache: evidence by binding
    request,   \* the state of each request
    during     \* by request, the logins the path held since it began

disk == <<path, files, writing, keychain, changes>>
vars == <<source, disk, records, request, during>>

Nil == {}
The(pointer) == CHOOSE x \in pointer : TRUE

\* What Lstat and Stat tell of a file.
Meta(file) == [file |-> file, size |-> Len(files[file].content), time |-> files[file].time]

----------------------------------------------------------------------------
(* The procedures: which steps take the binding, and which the credentials *)

StableRead == <<"inspect", "open", "read", "final">>

\* The configuration of Cursor on macOS is read as its login file is on
\* Linux; having seen there that such a read is one of a moment, it is a
\* step here.
BindingSteps ==
    CASE source \in {"codex", "claude", "cursor"} -> <<"inspect">>
      [] source = "claude_mac" -> <<"choose">>
      [] source \in {"devin", "grok"} -> <<"inspect", "open">>
      [] source = "cursor_mac" -> <<"config">>

CredentialSteps ==
    CASE source = "codex" -> <<"inspect", "open", "read">>
      [] source = "claude" -> <<"inspect", "inspect", "open", "read">>
      [] source = "claude_mac" -> <<"choose", "inspect", "open", "read">>
      [] source \in {"cursor", "devin", "grok"} -> StableRead
      [] source = "cursor_mac" -> <<"config", "keychain", "config">>

Blank ==
    [stage |-> "idle", todo |-> <<>>, seen |-> Nil, opened |-> Nil, body |-> <<>>,
     binding |-> Nil, token |-> Nil, kind |-> "file", answer |-> Nil]

\* Only the file matters: a rewritten login keeps its fingerprint.
BugFingerprint(meta) == [meta EXCEPT !.size = 0, !.time = 0]

Fingerprint(meta) == meta

FileBinding(r) ==
    [kind |-> IF source = "cursor_mac" THEN "keychain" ELSE "file",
     print |-> {Fingerprint(m) : m \in IF r.opened = Nil THEN r.seen ELSE r.opened}]

\* Claude's Keychain binding knows the name of the user only.
KeychainBinding == [kind |-> "keychain", print |-> Nil]

\* A prefix of a JSON document is malformed; one of Devin's lines may do, and
\* then lacks the host.
Decodes(body) == body # <<>> /\ (source = "devin" \/ Len(body) = 2)

Done(r, answer) == [Blank EXCEPT !.stage = "done", !.binding = r.binding, !.answer = answer]

\* A binding that cannot be taken leaves the request to a direct collection.
Refused(r) ==
    IF r.stage = "binding"
    THEN [Blank EXCEPT !.stage = "credentials", !.todo = CredentialSteps]
    ELSE Done(r, Nil)

Finished(r) ==
    CASE r.stage = "binding" ->
            [Blank EXCEPT !.stage = "consult", !.binding = {FileBinding(r)}]
      [] r.stage = "credentials" /\ r.token # Nil -> [r EXCEPT !.stage = "asking"]
      [] r.stage = "credentials" /\ r.token = Nil ->
            [r EXCEPT !.stage = "asking", !.token = {Head(r.body)}]

Advanced(r) ==
    LET next == [r EXCEPT !.todo = Tail(r.todo)]
    IN  IF next.todo = <<>> THEN Finished(next) ELSE next

At(p, step) ==
    /\ request[p].stage \in {"binding", "credentials"}
    /\ Head(request[p].todo) = step

Becomes(p, r) == request' = [request EXCEPT ![p] = r]

----------------------------------------------------------------------------
(* A request *)

Held(file) == IF file = NoFile THEN {} ELSE ToSet(files[file].content)

Init ==
    /\ source \in Sources
    /\ path \in {NoFile, FirstFile}
    /\ files = [f \in Files |-> [content |-> <<Owner[f], Owner[f]>>, time |-> 0]]
    /\ writing = Nil
    /\ keychain = Owner[FirstFile]
    /\ changes = 0
    /\ records = << >>
    /\ request = [p \in Requests |-> Blank]
    /\ during = [p \in Requests |-> {}]

Begin(p) ==
    /\ request[p].stage = "idle"
    /\ Becomes(p, [Blank EXCEPT !.stage = "binding", !.todo = BindingSteps])
    /\ during' = [during EXCEPT ![p] = Held(path)]
    /\ UNCHANGED <<source, disk, records>>

\* Lstat of the path; a read starts from nothing.
Inspect(p) ==
    /\ At(p, "inspect")
    /\ Becomes(p, IF path = NoFile THEN Refused(request[p])
                  ELSE Advanced([request[p] EXCEPT !.seen = {Meta(path)}, !.opened = Nil, !.body = <<>>]))
    /\ UNCHANGED <<source, disk, records, during>>

\* Claude on macOS turns to the Keychain when there is no file, where the user
\* allows the prompt.
Choose(p) ==
    /\ At(p, "choose")
    /\ LET r == request[p]
       IN  \/ /\ path # NoFile
              /\ Becomes(p, Advanced([r EXCEPT !.seen = {Meta(path)}]))
           \/ /\ path = NoFile /\ r.stage = "binding"
              /\ Becomes(p, [Blank EXCEPT !.stage = "consult", !.binding = {KeychainBinding}])
           \/ /\ path = NoFile /\ r.stage = "credentials"
              /\ Becomes(p, [r EXCEPT !.todo = <<"keychain">>])
           \/ /\ path = NoFile /\ r.stage = "credentials"
              /\ Becomes(p, Refused(r))
    /\ UNCHANGED <<source, disk, records, during>>

\* The opened file is compared with the inspected one; Codex opens what there is.
Replaced(seen, opened) ==
    CASE source = "codex" -> FALSE
      [] source \in {"claude", "claude_mac", "devin", "grok"} -> seen.file # opened.file
      [] source \in {"cursor", "cursor_mac"} -> seen # opened

Open(p) ==
    /\ At(p, "open")
    /\ LET r == request[p]
       IN  Becomes(p,
             IF path = NoFile THEN Refused(r)
             ELSE IF Replaced(The(r.seen), Meta(path)) THEN Refused(r)
             ELSE Advanced([r EXCEPT !.opened = {Meta(path)}]))
    /\ UNCHANGED <<source, disk, records, during>>

\* One half, or the end of the file.
Read(p) ==
    /\ At(p, "read")
    /\ LET r == request[p]
           content == files[The(r.opened).file].content
           next == Len(r.body) + 1
       IN  Becomes(p,
             CASE next \in DOMAIN content -> [r EXCEPT !.body = Append(@, content[next])]
               [] next \notin DOMAIN content /\ Len(r.todo) > 1 -> Advanced(r)
               [] next \notin DOMAIN content /\ Len(r.todo) = 1 ->
                    IF Decodes(r.body) THEN Advanced(r) ELSE Refused(r))
    /\ UNCHANGED <<source, disk, records, during>>

\* Trusts what was read.
BugUnstable(r, final) == FALSE

\* The file changed since it was opened, or was not read to its end.
Unstable(r, final) == final.time # The(r.opened).time \/ final.size # Len(r.body)

Final(p) ==
    /\ At(p, "final")
    /\ LET r == request[p]
           refused == Unstable(r, Meta(The(r.opened).file)) \/ ~Decodes(r.body)
       IN  Becomes(p, IF refused THEN Refused(r) ELSE Advanced(r))
    /\ UNCHANGED <<source, disk, records, during>>

\* readMacConfig: the second configuration must be the first one.
ReadConfig(p) ==
    /\ At(p, "config")
    /\ LET r == request[p]
       IN  Becomes(p,
             IF path = NoFile \/ writing # Nil THEN Refused(r)
             ELSE IF r.seen \notin {Nil, {Meta(path)}} THEN Refused(r)
             ELSE Advanced([r EXCEPT !.seen = {Meta(path)}]))
    /\ UNCHANGED <<source, disk, records, during>>

ReadKeychain(p) ==
    /\ At(p, "keychain")
    /\ Becomes(p, Advanced([request[p] EXCEPT !.token = {keychain}, !.kind = "keychain"]))
    /\ UNCHANGED <<source, disk, records, during>>

----------------------------------------------------------------------------
(* The cache *)

Hit(p) ==
    /\ request[p].stage = "consult"
    /\ \E b \in request[p].binding :
            /\ b \in DOMAIN records
            /\ Becomes(p, Done(request[p], {records[b]}))
    /\ UNCHANGED <<source, disk, records, during>>

\* One refresh of a binding at a time.
Miss(p) ==
    /\ request[p].stage = "consult"
    /\ \A q \in Requests : request[q].stage \in {"credentials", "asking"} =>
            request[q].binding # request[p].binding
    /\ Becomes(p, [request[p] EXCEPT !.stage = "credentials", !.todo = CredentialSteps])
    /\ UNCHANGED <<source, disk, records, during>>

\* Takes evidence of any source.
BugStorable(binding, kind) == TRUE

\* validateObservation: the evidence has the source the binding names.
Storable(binding, kind) == binding.kind = kind

\* The provider tells the login of the token.  Codex is asked for the account of
\* the rest, and an answer that names another one is refused; one that names
\* none is taken for it.
Ask(p) ==
    /\ request[p].stage = "asking"
    /\ LET r == request[p]
           evidence == [login |-> The(r.token), kind |-> r.kind,
                        file |-> {m.file : m \in r.opened}]
           torn == source = "codex" /\ r.body[1] # r.body[2]
           stored == \A b \in r.binding : Storable(b, r.kind)
       IN  \/ /\ torn \/ ~stored
              /\ Becomes(p, Done(r, Nil))
              /\ UNCHANGED records
           \/ /\ stored
              /\ Becomes(p, Done(r, {evidence}))
              /\ records' = [b \in DOMAIN records \cup r.binding |->
                                IF b \in r.binding THEN evidence ELSE records[b]]
    /\ UNCHANGED <<source, disk, during>>

----------------------------------------------------------------------------
(* Other programs *)

Seen == [p \in Requests |-> during[p] \cup
            IF request[p].stage = "idle" \/ path' = NoFile THEN {} ELSE ToSet(files'[path'].content)]

\* Renames a file to the path, maybe one that was there before, or removes it.
Move ==
    /\ changes < MaxChanges
    /\ writing = Nil
    /\ path' \in (Files \cup {NoFile}) \ {path}
    /\ changes' = changes + 1
    /\ UNCHANGED <<files, writing, keychain>>

Truncate ==
    /\ changes < MaxChanges
    /\ writing = Nil
    /\ path # NoFile
    /\ \E login \in Logins : writing' = {login}
    /\ files' = [files EXCEPT ![path] = [content |-> <<>>, time |-> @.time + 1]]
    /\ changes' = changes + 1
    /\ UNCHANGED <<path, keychain>>

Write ==
    /\ writing # Nil
    /\ files' = [files EXCEPT ![path] =
                    [content |-> Append(@.content, The(writing)), time |-> @.time + 1]]
    /\ writing' = IF Len(files'[path].content) = 2 THEN Nil ELSE writing
    /\ UNCHANGED <<path, keychain, changes>>

ChangeKeychain ==
    /\ source \in {"claude_mac", "cursor_mac"}
    /\ changes < MaxChanges
    /\ keychain' \in Logins \ {keychain}
    /\ changes' = changes + 1
    /\ UNCHANGED <<path, files, writing>>

LoginProgram ==
    /\ Move \/ Truncate \/ Write \/ ChangeKeychain
    /\ during' = Seen
    /\ UNCHANGED <<source, records, request>>

Next ==
    \/ LoginProgram
    \/ \E p \in Requests :
        \/ Begin(p) \/ Inspect(p) \/ Choose(p) \/ Open(p) \/ Read(p) \/ Final(p)
        \/ ReadConfig(p) \/ ReadKeychain(p) \/ Hit(p) \/ Miss(p) \/ Ask(p)

Spec == Init /\ [][Next]_vars

----------------------------------------------------------------------------
(* Properties *)

Bindings == [kind : {"file", "keychain"},
             print : {Nil} \cup {{m} : m \in [file : Files, size : 0..2, time : 0..3 * MaxChanges]}]

\* A login file and the Keychain are never mixed up: evidence of the one is
\* not stored under the binding of the other, although which of them is read
\* is decided once for the binding and again for the credentials.
TypeOK ==
    /\ path \in Files \cup {NoFile}
    /\ \A f \in Files : Len(files[f].content) <= 2 /\ files[f].time \in Nat
    /\ DOMAIN records \subseteq Bindings
    /\ \A b \in DOMAIN records :
            records[b].kind = b.kind /\ records[b].login \in Logins
    /\ \A p \in Requests :
            /\ request[p].stage \in {"idle", "binding", "consult", "credentials", "asking", "done"}
            /\ request[p].stage = "asking" => \E t \in request[p].token : t \in Logins

\* A login read while it was being rewritten is not used: the token and the
\* rest are of one login, and of a finished one where a prefix can be told.
\* The readers of Codex and Claude do not promise it; Codex then refuses the
\* answer if it names its account.
ReadIsWhole ==
    \A p \in Requests :
        LET body == request[p].body
        IN  request[p].stage = "asking" /\ source \in {"cursor", "devin", "grok"} =>
                /\ \A i, j \in DOMAIN body : body[i] = body[j]
                /\ source # "devin" => Len(body) = 2

\* The evidence a request is answered with, from the provider or the cache, is
\* of a login that was at the path while the request ran.  The exception is a
\* file that is moved away between the binding and the reading of another
\* request, and put back: what that request collected stays under its binding.
AnswerIsCurrent ==
    \A p \in Requests : \A e \in request[p].answer :
        e.kind = "file" =>
            \/ e.login \in during[p]
            \/ \E b \in request[p].binding : e.file # {m.file : m \in b.print}

=============================================================================
