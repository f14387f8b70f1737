------------------------------- MODULE Startup -------------------------------
(***************************************************************************)
(* src/main.rs with src/update.rs, and the parts of src/auth/mod.rs and    *)
(* src/transport.rs that decide which connection is made: one launch, from *)
(* the arguments to the proxy serving or the process exiting.              *)
(*                                                                         *)
(* It composes CommandLine (what is computed from the arguments) and       *)
(* Discovery (the probe and the metadata walk).  The OAuth flow itself is  *)
(* AuthFlow; here it is its outcome.  fd 1 is the client's protocol stream *)
(* and outlives an exec, as the environment and the arguments do.          *)
(***************************************************************************)
EXTENDS CommandLine, Discovery

CONSTANT Launch      \* command lines, with the environment they run in

\* An optional value is there once or not at all.
Optional(value) == value = <<>> \/ value = <<value[1]>>

\* What clap and the url crate make of the arguments, whatever they are; the
\* host of an IPv6 URL has brackets.
ASSUME LaunchAssumption ==
  \A l \in Launch :
    /\ l.guard \in BOOLEAN /\ l.verbose \in BOOLEAN /\ l.update \in BOOLEAN
    /\ l.os \in {"posix", "windows"}
    /\ Optional(l.serverUrl) /\ Optional(l.resource) /\ Optional(l.scope)
    /\ \A url \in ToSet(l.serverUrl) \cup ToSet(l.resource) :
         url.host # "::1" /\ url.path \in Seq(ToSet(url.path))
    /\ l.allow \in Seq(Seq(STRING)) /\ l.deny \in Seq(Seq(STRING)) /\ l.tools \in Seq(STRING)

VARIABLES
  cli,        \* the arguments, the environment and the platform
  stage,      \* where main is
  \* Self-update.
  depth,      \* wrappers of the updater entered and not yet left
  status,     \* what the updater has to say: "none", "uptodate", "updated", "error"
  fd1,        \* where standard output goes: "client" or "null"
  guard,      \* HYPER_MCP_REMOTE_AUTO_UPDATED is set
  noise,      \* history: the updater has written to the client's stream
  \* Locals of main.
  headers,    \* the parsed headers
  key,        \* <<>>, or the credential key
  client,     \* the HTTP client: "none", "anonymous" or "authorized"
  scopes,     \* <<>>, or the scopes an OAuth flow asks for
  filter      \* <<>>, or the tool filter

update == <<depth, status, fd1, guard, noise>>
locals == <<headers, key, client, scopes, filter>>
vars == <<cli, stage, update, locals, discoveryVars>>

Done == {"serving", "exited", "failed"}

TypeOK ==
  /\ cli \in Launch
  /\ stage \in {"parsed", "updating", "validate", "headers", "key", "acquire",
                "discover", "authorize", "filter"} \cup Done
  /\ depth \in 0 .. 3 /\ status \in {"none", "uptodate", "updated", "error"}
  /\ fd1 \in {"client", "null"} /\ guard \in BOOLEAN /\ noise \in BOOLEAN
  /\ client \in {"none", "anonymous", "authorized"}
  /\ step \in {"idle", "probe", "fetch"} \cup Settled
  /\ stage = "serving" => client # "none" /\ filter # <<>>

Init ==
  /\ cli \in Launch /\ stage = "parsed"
  /\ fd1 = "client" /\ guard = cli.guard /\ noise = FALSE
  /\ depth = 0 /\ status = "none"
  /\ headers = <<>> /\ key = <<>> /\ client = "none" /\ scopes = <<>> /\ filter = <<>>
  /\ DiscoveryInit

-----------------------------------------------------------------------------
(* update::update.  The wrappers, from the outermost to the innermost.     *)

\* Faulty variant: the redirection is undone only after the exec.
LayersSwapped ==
  (IF cli.verbose THEN <<>> ELSE <<"silence">>)
    \o (IF cli.os = "posix" THEN <<"restart">> ELSE <<>>) \o <<"throttle">>

\* restart(silence(throttle(backend))); Windows has no restart, and a
\* verbose update no silence.
Layers ==
  (IF cli.os = "posix" THEN <<"restart">> ELSE <<>>)
    \o (IF cli.verbose THEN <<>> ELSE <<"silence">>) \o <<"throttle">>

\* main goes on, or ends when there is nothing to proxy.
AfterUpdate == IF cli.serverUrl = <<>> THEN "exited" ELSE "validate"

Skip ==
  /\ stage = "parsed" /\ ~cli.update
  /\ stage' = "validate"
  /\ UNCHANGED <<cli, update, locals, discoveryVars>>

\* The backend or a wrapper cannot be built, or Homebrew owns the binary: the
\* error is logged, and nothing has been touched.
UpdateRefused ==
  /\ stage = "parsed" /\ cli.update
  /\ stage' = AfterUpdate
  /\ UNCHANGED <<cli, update, locals, discoveryVars>>

UpdateBegins ==
  /\ stage = "parsed" /\ cli.update
  /\ stage' = "updating"
  /\ UNCHANGED <<cli, update, locals, discoveryVars>>

Inward == stage = "updating" /\ status = "none" /\ depth < Len(Layers)
Entered(layer) == Inward /\ Layers[depth + 1] = layer /\ depth' = depth + 1

EnterRestart ==
  /\ Entered("restart")
  /\ UNCHANGED <<cli, stage, status, fd1, guard, noise, locals, discoveryVars>>

EnterSilence ==
  /\ Entered("silence")
  /\ fd1' = "null"
  /\ UNCHANGED <<cli, stage, status, guard, noise, locals, discoveryVars>>

\* The 15-minute window has passed, or it has not and GitHub is not asked.
EnterThrottle ==
  /\ Entered("throttle")
  /\ status' \in {"none", "uptodate"}
  /\ UNCHANGED <<cli, stage, fd1, guard, noise, locals, discoveryVars>>

\* self_update itself writes to standard output.
Contact ==
  /\ stage = "updating" /\ status = "none" /\ depth = Len(Layers)
  /\ status' \in {"uptodate", "updated", "error"}
  /\ noise' = (noise \/ fd1 = "client")
  /\ UNCHANGED <<cli, stage, depth, fd1, guard, locals, discoveryVars>>

Outward == stage = "updating" /\ status # "none" /\ depth > 0
Leaving(layer) == Outward /\ Layers[depth] = layer /\ depth' = depth - 1

LeaveThrottle ==
  /\ Leaving("throttle")
  /\ UNCHANGED <<cli, stage, status, fd1, guard, noise, locals, discoveryVars>>

LeaveSilence ==
  /\ Leaving("silence")
  /\ fd1' = "client"
  /\ UNCHANGED <<cli, stage, status, guard, noise, locals, discoveryVars>>

\* Faulty variant: the guard variable is not looked at.
MayRestartAlways == status = "updated"

\* The restart wrapper replaces the process once.
MayRestart == status = "updated" /\ ~guard

LeaveRestart ==
  /\ Leaving("restart") /\ ~MayRestart
  /\ UNCHANGED <<cli, stage, status, fd1, guard, noise, locals, discoveryVars>>

ExecFails ==
  /\ Leaving("restart") /\ MayRestart
  /\ status' = "error"
  /\ UNCHANGED <<cli, stage, fd1, guard, noise, locals, discoveryVars>>

\* The new image starts over with the same arguments and the same fd 1; main
\* has computed nothing yet.
Exec ==
  /\ Outward /\ Layers[depth] = "restart" /\ MayRestart
  /\ stage' = "parsed" /\ guard' = TRUE
  /\ depth' = 0 /\ status' = "none"
  /\ UNCHANGED <<cli, fd1, noise, locals, discoveryVars>>

UpdateEnds ==
  /\ stage = "updating" /\ status # "none" /\ depth = 0
  /\ stage' = AfterUpdate
  /\ UNCHANGED <<cli, update, locals, discoveryVars>>

SelfUpdate ==
  \/ Skip \/ UpdateRefused \/ UpdateBegins
  \/ EnterRestart \/ EnterSilence \/ EnterThrottle \/ Contact
  \/ LeaveThrottle \/ LeaveSilence \/ LeaveRestart \/ ExecFails \/ Exec
  \/ UpdateEnds

-----------------------------------------------------------------------------
(* main after the update check.                                            *)

Fail(where) ==
  /\ stage = where /\ stage' = "failed"
  /\ UNCHANGED <<cli, update, locals, discoveryVars>>

ValidateArguments ==
  \/ /\ stage = "validate" /\ Validate(cli)
     /\ stage' = "headers"
     /\ UNCHANGED <<cli, update, locals, discoveryVars>>
  \/ ~Validate(cli) /\ Fail("validate")

ParseHeaderArguments ==
  LET parsed == ParseHeaders(cli.headers, cli.env)
  IN  \/ /\ stage = "headers" /\ parsed.ok
         /\ headers' = parsed.value
         /\ stage' = "key"
         /\ UNCHANGED <<cli, update, key, client, scopes, filter, discoveryVars>>
      \/ ~parsed.ok /\ Fail("headers")

ComputeKey ==
  /\ stage = "key"
  /\ key' = <<CredentialKey(cli.serverUrl[1], cli.resource)>>
  /\ stage' = "acquire"
  /\ UNCHANGED <<cli, update, headers, client, scopes, filter, discoveryVars>>

\* acquire_auth_client: --no-auth goes straight to the anonymous client.
SkipAuth ==
  /\ stage = "acquire" /\ cli.noAuth
  /\ client' = "anonymous"
  /\ stage' = "filter"
  /\ UNCHANGED <<cli, update, headers, key, scopes, filter, discoveryVars>>

\* The credential store is opened, and cleared with --reset-auth.
OpenStore ==
  \/ /\ stage = "acquire" /\ ~cli.noAuth
     /\ stage' = "discover"
     /\ UNCHANGED <<cli, update, locals, discoveryVars>>
  \/ ~cli.noAuth /\ Fail("acquire")

ServerPath == TrimSlashes(UrlParse(cli.serverUrl[1]).path)

RunDiscovery ==
  /\ stage = "discover"
  /\ Discover(headers, ServerPath, cli.serverUrl[1].host)
  /\ UNCHANGED <<cli, stage, update, locals>>

\* Faulty variant: an empty --scope counts as none.
EffectiveScopesNonEmpty ==
  IF cli.scope # <<>> /\ cli.scope[1] # <<>> THEN cli.scope[1] ELSE oauth[1].scopes

\* effective_scopes: --scope, even an empty one, over what was discovered.
EffectiveScopes == IF cli.scope # <<>> THEN cli.scope[1] ELSE oauth[1].scopes

\* Faulty variant: an open server leaves main without a client.
DiscoveryReturnsNothing ==
  \/ /\ stage = "discover" /\ step \in {"none", "required"}
     /\ stage' = "filter"
     /\ UNCHANGED <<cli, update, locals, discoveryVars>>
  \/ step = "refused" /\ Fail("discover")

DiscoveryReturns ==
  \/ /\ stage = "discover" /\ step = "none"
     /\ client' = "anonymous"
     /\ stage' = "filter"
     /\ UNCHANGED <<cli, update, headers, key, scopes, filter, discoveryVars>>
  \/ /\ stage = "discover" /\ step = "required"
     /\ scopes' = <<EffectiveScopes>>
     /\ stage' = "authorize"
     /\ UNCHANGED <<cli, update, headers, key, client, filter, discoveryVars>>
  \/ step = "refused" /\ Fail("discover")

\* AuthFlow, by its outcome; the authorized client becomes the transport's.
\* The flow may also wait without a limit, for a client id document or for the
\* callback server to stop.
Authorize ==
  \/ /\ stage = "authorize"
     /\ client' = "authorized"
     /\ stage' = "filter"
     /\ UNCHANGED <<cli, update, headers, key, scopes, filter, discoveryVars>>
  \/ Fail("authorize")

\* ToolFilter::from_cli comes last; then the proxy serves stdio.
CompileFilter ==
  LET compiled == FromCli(cli.allow, cli.deny)
  IN  \/ /\ stage = "filter" /\ compiled.ok
         /\ filter' = <<compiled.value>>
         /\ stage' = "serving"
         /\ UNCHANGED <<cli, update, headers, key, client, scopes, discoveryVars>>
      \/ ~compiled.ok /\ Fail("filter")

Main ==
  \/ ValidateArguments \/ ParseHeaderArguments \/ ComputeKey
  \/ SkipAuth \/ OpenStore \/ RunDiscovery \/ DiscoveryReturns \/ Authorize
  \/ CompileFilter

Next == SelfUpdate \/ Main

Spec == Init /\ [][Next]_vars

\* One thread, and every call it waits for returns but the OAuth flow: the
\* requests of discovery have timeouts, GitHub is taken to answer.
FairSpec == Spec /\ WF_vars(Next /\ stage # "authorize")

-----------------------------------------------------------------------------
(* Properties                                                              *)

OnTheNetwork == stage \in {"discover", "authorize", "filter", "serving"}

\* Cli::validate, "https always; http only for loopback hosts unless
\* --allow-http", for "any URL the proxy sends credentials to": whichever way
\* main got there (an update, a new process image), no server or audience is
\* spoken to in the clear, and a mistake in the arguments is reported first.
NoCleartext ==
  OnTheNetwork =>
    \A i \in DOMAIN (cli.serverUrl \o cli.resource) :
      LET u == (cli.serverUrl \o cli.resource)[i]
      IN  \/ u.scheme = "https"
          \/ u.scheme = "http" /\ (cli.allowHttp \/ u.host \in {"localhost", "127.0.0.1"})

\* "the silence redirect of fd 1 is restored before the restart wrapper
\* re-executes the process": whoever serves speaks to the client, and the
\* updater writes to that stream only in a launch that asked for it.
ProtocolOwnsStdout ==
  /\ noise => cli.verbose
  /\ stage = "serving" => fd1 = "client"

\* The reference for the key: two spellings of one server, with a path that
\* differs at most in trailing slashes.
SamePath(p, q) ==
  LET shorter == Min({Len(p), Len(q)})
      blank(r) == \A i \in (shorter + 1) .. Len(r) : r[i] = ""
  IN  (\A i \in 1 .. shorter : p[i] = q[i] \/ {p[i], q[i]} = {""}) /\ blank(p) /\ blank(q)

EffectivePort(u) == IF u.port = 0 THEN DefaultPort(u.scheme) ELSE u.port

SameServer(u, v) ==
  u.scheme = v.scheme /\ u.host = v.host /\ EffectivePort(u) = EffectivePort(v) /\ SamePath(u.path, v.path)

\* A later launch finds the credential of this one exactly when it names the
\* same server and the same resource, however the server is spelled: a
\* cached credential is neither orphaned nor shared between servers.
KeyNamesTheServer ==
  stage = "acquire" =>
    \A other \in Launch : Validate(other) =>
      (key[1] = CredentialKey(other.serverUrl[1], other.resource)
         <=> /\ SameServer(cli.serverUrl[1], other.serverUrl[1])
             /\ Len(cli.resource) = Len(other.resource)
             /\ \A i \in DOMAIN cli.resource : UrlParse(cli.resource[i]) = UrlParse(other.resource[i]))

\* "they're opting into static-token auth and *not* OAuth": a launch with an
\* Authorization header, whatever its case, its repetitions and what its
\* variables expand to, never runs an OAuth flow nor looks for one.
StaticCredentialDecides ==
  (\E i \in DOMAIN cli.headers :
     cli.headers[i].name \in {"Authorization", "AUTHORIZATION", "Proxy-Authorization"})
    => stage # "authorize" /\ client # "authorized" /\ asked = <<>>

\* The walk over the metadata candidates: each is tried once and in order, a
\* document ends it whatever it says, an error or a 4xx never does, and a
\* launch gives up only after the last of them.
FirstDocumentDecides ==
  stage = "discover" =>
    /\ [i \in DOMAIN asked |-> asked[i][1]] = SubSeq(PrmCandidates(challenge, ServerPath), 1, Len(asked))
    /\ \A i \in DOMAIN asked : asked[i][2] = "document" => i = Len(asked)
    /\ step \in {"required", "refused"} /\ asked # <<>> =>
         \/ asked[Len(asked)][2] = "document"
         \/ Len(asked) = Len(PrmCandidates(challenge, ServerPath))

\* "rather than inventing an authorization server": a flow is started only
\* against a server some document listed, or that sent a challenge.
NoInventedServer ==
  oauth # <<>> =>
    \/ challenge # <<>>
    \/ prm # <<>> /\ oauth[1].authorizationServer \in ToSet(prm[1].servers)

\* Scopes by priority: --scope, the scope of the challenge, the document's;
\* each of them counts when it is there, also when it is empty.
ScopesByPriority ==
  scopes # <<>> =>
    LET said == ParseWwwAuthenticate(challenge).scope
    IN  CASE cli.scope # <<>> -> scopes = cli.scope
          [] cli.scope = <<>> /\ said # <<>> -> scopes = said
          [] OTHER -> scopes = IF prm = <<>> THEN <<(<<>>)>> ELSE <<prm[1].scopes>>

\* The filter that serves is the one the flags describe: a pattern among
\* blanks counts, blanks alone do not, deny beats allow, and what is listed
\* is what can be called.
FilterSaysWhatFlagsSay ==
  filter # <<>> =>
    LET patterns(values) == (UNION {ToSet(values[i]) : i \in DOMAIN values}) \ {""}
        wanted(t) == /\ patterns(cli.allow) = {} \/ \E g \in patterns(cli.allow) : Matches(g, t)
                     /\ \A g \in patterns(cli.deny) : ~Matches(g, t)
    IN  \A t \in ToSet(cli.tools) :
          /\ wanted(t) <=> t \in ToSet(FilterPage(filter[1], cli.tools))
          /\ wanted(t) <=> EnforceToolFilter(filter[1], t)

\* Every launch comes to serve or to exit, or is left waiting in one OAuth
\* flow: an update that keeps finding a newer version does not restart the
\* process over and over.
LaunchSettles == <>(stage \in Done) \/ <>[](stage = "authorize")
=============================================================================
