# A verification of hyper-mcp-remote

`hyper-mcp-remote` lets an MCP host that only speaks stdio use a remote MCP
server over streamable HTTP. One process runs per configured server: it obtains
OAuth credentials (from a cache or through the user's browser), connects to the
remote and relays requests both ways. Several hosts may run it for the same
server at the same time; they share one credential cache and nothing else.

This directory holds TLA+ modules of that program, their TLC configurations and
TLAPS proofs. `PROJECT.json` is the index: which definition stands for which
lines, which run checks which property, which mutation of the model breaks it.

    tlc -workers 2 -config Startup.cfg MCStartup     # a run
    tlapm CredentialStoreProofs.tla                  # the proofs

## 1. Inventory

| Component (source) | State | Operations | Correct when |
|---|---|---|---|
| Credential store (`auth/storage.rs`) | a keyring entry, a fallback file `<key>.json`, a temporary file `<key>.tmp`, shared by all processes of a server | `load`, `save`, `clear` (`clear_sync`) | it behaves as one atomic register, across crashes, keyring failures and processes |
| Authentication flow (`auth/mod.rs`) | the stored credentials, rmcp's `OAuthState`, the staleness verdict | `acquire_auth_client`: opt-out, reset, probe, cached credentials with write-back and refresh, interactive flow | the cache stays truthful, a live refresh token is never lost, a launch ends or is in one of two waits without a limit |
| Callback server (`auth/callback.rs`) | oneshot channel, cancellation token, server task, delayed shutdown tasks | `bind`, `wait`, `handle_callback`, drop | the first callback is the answer, nobody is cut off, nothing but an unfinished request of a browser keeps `wait` from returning |
| Proxy session (`proxy.rs`) | the transport (taken once), a `OnceCell<Remote>`, the rmcp client service, requests in flight | `initialize`/`connect`, one forward per MCP method, notifications | one handshake, nothing forwarded before it or against the filter, every request answered |
| Keepalive (`proxy.rs`) | the pinger task, its token, the supervisor | `spawn_keepalive`, `ping_remote` | it ends with the service |
| Reverse traffic (`proxy.rs`, `RemoteClientHandler`) | none of its own | sampling, elicitation, roots, notifications of both directions | every request of the remote ends, notifications survive the start of the session, the two directions do not wait for one another |
| Tool filter (`filter.rs`) | two glob sets, immutable | `from_cli`, `permits` | deny beats allow, listing and call agree, blanks are no patterns |
| Discovery (`auth/discovery.rs`) | the candidates not yet tried, the document found | probe, metadata candidates, `WWW-Authenticate` | the first document decides, an error does not, no server is invented, a static credential rules OAuth out |
| Transport (`transport.rs`) | none; rmcp's `AuthClient` refreshes before each request | `build` | tokens are refreshed in time |
| Keys (`session.rs`), headers (`headers.rs`), command line (`cli.rs`) | none, pure functions | hash and normalise, expand, validate | equal servers share a cache entry and no others do; no URL credentials go to is in the clear |
| Self-update (`update.rs`) | fd 1, the process image, the guard variable | layered `restart(silence(throttle(backend)))` | the client's stream is never written to nor lost, the process restarts once |
| Startup (`main.rs`) | process life | sequence the above, serve, end | each failure ends the launch; it ends with its client |
| Logging (`logging.rs`) | log files | | |

How they interact. `main` calls `acquire_auth_client`, which owns the store and,
in an interactive flow, the callback server; rmcp's `AuthorizationManager` calls
back into the same store (through `ArcStore`) to persist every token response.
The client that results drives the remote transport, and goes on refreshing and
persisting tokens for as long as the session runs. `ProxyHandler` is then served
on stdio with `serve_directly_with_ct`, which performs no handshake of its own:
each local request, `initialize` included, is a task calling the handler.

What is hard: system calls of several processes interleave on one credential;
a process may die between any two of them; the keyring fails now and then; a
stored time is deliberately wrong between two awaits; tokens rotate; a browser
callback races a timeout; shutdown races open connections; `initialize` requests
race for a transport that can be taken once; request numbers of two connections
are not the same; a notification can be lost on a connection that stays up;
requests of the remote arrive before the local client has its
`initialize` result; two servers' answers to the same request differ. The list of hazards, each at its line, is in `PROJECT.json`.

## 2. Modules

    CredentialRegister        abstract: an atomic register
      ^ implemented by
    CredentialStore           storage.rs, one system call per step
      ^ theorems about        CredentialStoreProofs
    AuthFlow                  auth/mod.rs, over the atomic register
      ^ theorems about        AuthFlowProofs
    CallbackPromise           abstract: what a flow may expect of the redirect
      ^ implemented by
    CallbackServer            auth/callback.rs
      ^ theorems about        CallbackServerProofs
    Startup                   main.rs, update.rs, the decisions of auth/mod.rs
      | extends CommandLine   cli.rs, headers.rs, session.rs, filter.rs
      | extends Discovery     auth/discovery.rs
      ^ theorems about        StartupProofs, over CredentialKeyProofs, FilterProofs
    ProxySession              proxy.rs: session, forwarding, keepalive
      ^ theorems about        ProxySessionProofs
    ReverseTraffic            proxy.rs: the other direction, and the end of main.rs
      ^ theorems about        ReverseTrafficProofs
    MC<module>                constants and symmetry for TLC

**CredentialRegister** is what rmcp's `CredentialStore` trait lets its callers
assume: a call takes effect at one instant, an error or a death has no effect.
With `ClearsMiss` a clear may also return Ok and have had no effect.

**CredentialStore** has the keyring entry, the two names of the fallback file as
links to inodes, and per process the next system call (`pc`), the argument of
the save it is in, its open descriptor and its return value. Every keyring or
file system call is one action; the actions follow the code's order and error
paths: `KeyringSet` goes on to `RemoveStale` or to `OpenTmp`, `WriteTmp`,
`RenameTmp`; `KeyringDelete` goes on to `FileExists` and `RemoveFile`. Each file
system call can fail (`FileFails`); of `Path::exists`, which has no error to
return, that means false: the clear returns Ok and the file stays. File
names are links to inodes because two writers of one temporary name share an
inode, which is what goes wrong between them. A failing write, and a write over
another writer's bytes, may leave text that is no credential ("torn").
`write_secret_file` is modelled as on Unix; elsewhere `fs::write` replaces open
and write and the steps are the same. Histories: `wiped` (what clears
that returned Ok have disposed of) and `spare` (what a clear in progress is not
held responsible for: the saves it overlaps, the keyring entry whose delete
failed). What `exists` could not see is not counted as disposed of either.

**AuthFlow** follows one process from `Launch` to `running`, `anonymous` or
`failed`, one action per await: reset, probe, load, staleness, `set_credentials`
(which persists the restamped token), its metadata fetch, the write-back,
refresh, wipe, the client id document (with a `--client-id` that is a URL), the
callback server and the metadata, browser, the server's shutdown, exchange; then
the refreshes of the running session. Two waits have no limit in the code: the
fetch of the client id document (`build_http_client` sets no timeout) and the
join of the callback server (`FetchClientId`, `Joined`; `Unbounded`).
A credential is a pair of a grant number and a recorded time of receipt; the
authorization server knows when each grant was issued and which refresh tokens
it honours. The store is used as an atomic register, which is what
`KeyringImplementsRegister` and `FileImplementsRegister` prove of it, and the redirect as `CallbackPromise` says: an
answer, or a failed wait. Every token is assumed to say
when it expires: for one that does not, or an entry without `token_received_at`,
the code never considers it stale, on purpose.

**CallbackServer** has the flow that owns the handle, the axum task with its
graceful shutdown, a task per request and the delayed shutdown tasks. A handler
takes the sender and sends in one step: between the two it holds no lock that
another needs and yields nowhere. **CallbackPromise** is what is left of it for
the flow: one answer, that of the first callback, or a timeout although nobody
has called. `ImplementsPromise` is the refinement: `heard` is the query of the
first handler to reach the sender, `outcome` what `wait` will return.

**ProxySession** numbers the local requests, and separately those of the remote
connection (`rid`, `nextId`), which the pings share. `Connect` takes the
transport inside the `OnceCell`; `Forward` stands for every forwarding method
(they differ in the method called, and in `tools/list` filtering its result);
`Refuse` for the filter and for `peer()` when there is none. `kind` carries the
filter's verdict as an input. Sending to the remote is a POST that may fail
while the connection stays up: an error for the request (`Forward`), a log line
for a cancellation (`Cancel`).

**CommandLine** holds the functions of the arguments: URL normalisation and the
credential key, `Cli::validate`, `headers::parse` with the expansion of `${VAR}`,
`ToolFilter`. A URL is a record of its parts and a path the sequence of its
segments; a header value is a sequence of pieces, a flag's value a sequence of
patterns; what parsing characters into these does is the url crate's, clap's and
a line or two of scanning. The digest is injective. `Matches` is globset's.

**Discovery** is `discover`: the probe, then one fetch per candidate URL. The
server may answer every request as it likes, twice the same URL included.
A `WWW-Authenticate` header is the sequence of its parameters, with the scheme
name glued to the one it precedes, since that is what decides whether
`parse_www_authenticate` recognises its key.

**Startup** is one launch: the update with its wrappers as layers entered and left
(fd 1, the environment and the arguments survive an `exec`), then `main`'s
sequence with each early return, `acquire_auth_client`'s order, the scopes, the
filter. `RunDiscovery` runs a step of `Discovery`; the OAuth flow appears as its
outcome (`Authorize`), because `AuthFlow` has its own process model and nothing
of it depends on what is computed here but the scopes.

**ReverseTraffic** has the local client (which follows MCP: until its `initialize`
is answered it sends nothing but answers), the remote, and one task per request
and notification. An ask of the remote is numbered once by the remote and once
by the proxy; it may serve a call of the client, which the remote answers after
it. `known` is the version of the roots list the remote takes for current;
`toolNotes` counts announcements on their way, in no order. Here too a POST may
fail on a live connection: a call then fails (`Forwarded`), an answer or a roots
notification is lost (`ReturnAnswer`, `OnRootsListChanged`; `told` remembers that
it was tried in vain). A lost notification on a connection that lives on leaves the remote with an
outdated list; nothing in the repository promises otherwise, and `RootsNotStale`
says that it is the only way to one. What goes to the client goes into a pipe, and
is lost only when the client is gone. `RelayAsk` stands
for `create_message`, `list_roots` and `create_elicitation`, `OnToolListChanged`
for the eight notifications, which differ in the method called. Numbering and
cancellation of the client's calls, and pings, are in `ProxySession`.

## 3. Runs

Each passing property has a mutant: a bug of the code written into the model
(the operators marked "Faulty variant"), under which the same run must fail.

| Run | Instance | Shows |
|---|---|---|
| `StoreFile` | 2 processes, one saves, no keyring; every file system call may fail, crashes | `ImplementsRegister` |
| `StoreUnreliableKeyring` | 2 processes, one saves; every keyring and file system call may succeed or fail, crashes | `TypeOK`, `LiveFileWhole`, `NoResurrection` |
| `AuthOneLaunch` | 1 process, launches one after another, all options and probe results, 6 time units, 4 grants | `TypeOK`, `StoredTimeGenuine`, `StoreHoldsLiveGrant`, `FreshMeansUnexpired`, `ResetForcesFreshFlow` |
| `AuthFaults` | 1 process, all options and probe results, every fault, 4 time units, 3 grants | `LaunchResolves` |
| `CallbackFlow` | 3 requests, a flow that may give up | `TypeOK`, `AnswerIsFirstCallback`, `NobodyCutOff`, `TimeoutMeansSilence`, `WaitReturns`, `ImplementsPromise` |
| `ProxyRequests` | 3 requests, 1 ping, cancellations, breaking connection | `TypeOK`, `OneHandshake`, `RemoteSeesOnlyPermitted`, `AnswerOnItsWay`, `EveryRequestAnswered`, `PingerEndsWithService` |
| `Startup` | several hundred command lines, 7 challenges, 6 documents, every outcome of the update and of each fetch | `TypeOK`, `NoCleartext`, `ProtocolOwnsStdout`, `KeyNamesTheServer`, `StaticCredentialDecides`, `FirstDocumentDecides`, `NoInventedServer`, `ScopesByPriority`, `FilterSaysWhatFlagsSay`, `LaunchSettles` |
| `ReverseTraffic` | 2 kinds of asks, 2 asks, 1 call, 1 change of roots or tools, either side may go away at any time | `TypeOK`, `InitializedOnceAndFirst`, `NoCallIsRefused`, `RootsNotStale`, `NoChangeIsLost`, `EveryAskEnds`, `NestedCallsReturn`, `HostGoneMeansExit` |

### Where the code does not do what its text says

Four runs end in a counterexample; each checks a sentence of the repository.

| Run | Sentence | What happens |
|---|---|---|
| `StoreTwoSources` | storage.rs:132 "so we don't have two sources of truth" | a save that falls back to the file leaves the older keyring entry, which wins as soon as the keyring answers |
| `StoreTwoWriters` | storage.rs:177 "atomically" | two processes share the temporary name; one truncates what the other renames |
| `AuthRotation` | README.md:43 "stores the resulting refresh token [...]. Subsequent launches start with no user interaction" | `set_credentials` (mod.rs:202) saves the grant a launch loaded several awaits earlier over the rotated one another process has stored since; the next launch finds a dead refresh token |
| `ProxyCancel` | README.md:54 "cancellation ... in both directions" | the local request number names another request at the remote |

The same modules and the reading behind them show more divergences, on which no
run is spent:

- cli.rs:88 "Forces a fresh OAuth flow": `clear_sync` only logs a failed keyring
  delete, and takes a file `exists` cannot see for none, so `--reset-auth` goes on
  with the old token (`ResetForcesFreshFlow` with the "delete" fault; it holds
  without it).
- storage.rs:62 "from both keyring and disk": for the same reasons an Ok of
  `clear_sync` does not say that both are empty (`NoResurrection` names the
  exceptions; `ClearMissed` in the register).
- storage.rs:102 "`Ok(None)` when neither location has an entry": also when a save
  moves the credential to the keyring between the two reads.
- discovery.rs:206-208 "no Protected Resource Metadata document was
  discoverable": the same error is given when a document was found that lists no
  authorization server.
- `check_http_scheme` means to admit `::1`, but `host_str` keeps the brackets of
  `[::1]`, so that it is refused (`IsLoopback`; cli.rs:253-256, a test's comment,
  knows it).
- cli.rs:191-195: of `--resource`, "rmcp fetches Protected Resource Metadata from
  this URL"; the program's own probe and metadata candidates use the server URL.
- A challenge that begins with `BEARER`, or with another scheme before `Bearer`, is
  a challenge whose first parameters are not recognised (`KeyIs`).
- cli.rs:58 asks for an `https://` client id URL; mod.rs:367-374 takes http as well.
- main.rs:99-100 logs "SIGTERM" for ctrl-c; SIGTERM itself is not handled.
- The remote's cancellation is relayed with the remote's number (`RelayStop`), the
  same mistake as `ProxyCancel` in the other direction. `EveryAskEnds` holds all
  the same: an ask that is hit by mistake ends with an error.
- storage.rs:65 "a missing entry is a success": of two concurrent clears one
  fails when the file vanishes between `exists` and `remove_file`.
- mod.rs:212 "so the next launch sees the truth": with two interleaved launches
  the second takes the restamped time for the original and writes it back last
  (`StoredTimeGenuine` with two processes); a `set_credentials` that persists and
  then fails to fetch metadata skips the write-back, and the next launch takes an
  expired token for fresh (`FreshMeansUnexpired` with the "metadata" fault).
- README.md:486 "short-circuits everything from probe": the probe always runs.
- callback.rs:123 "Wait up to `timeout`": the join after the timeout waits without
  bound for a request that a browser has begun and never completes. `WaitReturns`
  says that this is the only reason; `LaunchResolves` inherits it.
- mod.rs:379-384: the client id document is fetched with a client that has no
  timeout (mod.rs:562-571), while the requests of discovery have one.
- callback.rs:44 "the first valid callback": the first callback of any kind takes
  the sender (`Deliver`).
- callback.rs:37 "Drop the handle to shut it down early": a dropped handle
  detaches the server task and cancels nothing (`DropHandle`).

The third-party behaviour these rest on is stated in the modules: `set_credentials`
saves before it fetches metadata; graceful shutdown waits for a request whose head
has not arrived in full; a transport keeps the order of what it sends.

### Bounds

Two processes: the steps of the code that depend on another process (a name, an
entry, a grant seen earlier) depend on one of them at a time, and the theorems
about the store hold for any number. Two credentials distinguish old from new. With one writer at most two inodes are linked or open at a time; with two
writers, three. In `AuthFlow` a token lives 3 units with a buffer of 2, so that
fresh, buffered and expired all occur, and 6 units see a token expire twice over;
4 grants allow two refreshes and two code exchanges. `AuthFaults` is about
liveness, and no step of a launch waits for another process, so that a second one
would only change what the store holds, which `Wipe`, the "delete" and the "revoke"
fault vary as well. When `MaxGrants` is reached
the server refuses, which is one of its legitimate answers. `Tick` waits for a
token response to be stored: a unit stands for more than that takes. Three
callback requests show first, second and last. Three local requests are an
initialize, a repeated one or a filtered call, and a forwarded one; pings shift
the numbering.

In `Startup` the command lines are five families, each varying together what
interacts: targets (20 URLs, 6 resources, `--allow-http`), keepalive options,
update options, credentials and scopes, filter flags. The URLs are eight
spellings of one server and its near misses. Three candidates are the most
discovery ever has. In `ReverseTraffic` two asks are enough for the numbers of
the two connections to differ and for a cancellation to hit the other ask; the
roots are asked for twice; the single change is of the roots or of the tools,
which share nothing.

Deadlock checking is off for `CallbackFlow`, `Proxy*`, `Startup` and
`ReverseTraffic`: there the flow returns, the client falls silent, the launch
serves, the process exits. The other specifications run for ever.

### Fairness

Weak fairness of each process's own steps: tokio polls every ready task, fires
timers, and the HTTP requests of discovery and of rmcp's authorization have a
timeout or end with their connection. Not assumed: that a user answers the browser
(`Approve`), that the server of a client id document answers (`FetchClientId`), that
a browser completes a request it has begun (`Joined`, and `Accept` and `Receive` of
the callback server), that the local client sends anything or that the keepalive
ticker goes on. So `LaunchResolves`, `WaitReturns` and `LaunchSettles` say what the
code guarantees without: it ends, or is for ever in one of the waits they name.
`ProxyRequests` assumes the
remote answers what it received, or the connection ends; rmcp puts no timeout on
a forwarded request, so a silent remote keeps its caller waiting, and the
handshake is no exception. `ReverseTraffic` assumes weak fairness of the
proxy as a whole (some task runs as long as one can; its inputs are bounded, so
none is put off for ever) and of the two peers answering what they were asked;
nobody is assumed to close, cancel, change or ask anything; an ask whose answer is
lost on the way counts as given up by the remote. `Startup` is one thread: fairness
says that each call it waits for returns, which discovery ensures by timeouts (10 s
and 5 s) and which is assumed of GitHub. It is not assumed of the OAuth flow.

## 4. Proofs

Every `*Proofs` module holds for all values of the constants its component is
parameterised by: any number of processes, requests, asks, pings and changes, any
command lines and documents. Where a run has a bound in a guard (the clock, the
token responses, the requests), the bound is a constant, and the theorem holds
for each of its values. In each module an inductive invariant is a conjunction of
named parts; its step lemmas have one case for every action; a theorem then reads
a property off the invariant, or off a step from it. `tlapm X.tla` checks a module.

**The store** (`CredentialStoreProofs`).

| Theorem | Hypotheses | Invariant |
|---|---|---|
| `TypeCorrect` | | `CallInv`: a save holds a credential; a descriptor is open exactly in `write_tmp` |
| `FileIsWhole` | one writer | `FileInv`: between open and rename the temporary name is the writer's own inode, holds what was written so far, and is not the live one |
| `ClearIsFinal` | one writer | `WipeInv`: what a save in progress holds is not wiped, a clear spares the saves it overlaps, past its delete the keyring can only hold such a one or the entry the delete left |
| `KeyringImplementsRegister` | every keyring operation succeeds | `KeyringInv`: there is no file |
| `FileImplementsRegister` | none does, one writer; a clear of the register may miss iff `exists` can fail | `FileInv`, and the keyring is empty |
| `OneSourceWhenSetIsConstant` | sets always succeed, or always fail | `KeyringInv`: the file is never written; or `EntryInv`: the keyring is empty |

One writer is needed: in `StoreTwoWriters` a second one makes the live file
partial. For the refinements `RegisterStep` says what a step of one process does
to the register's value and to its own call; `KeyringIsRegister` and
`FileIsRegister` show it of every action, and `RegisterFollows` turns it into a
step of `CredentialRegister`. A load, save or clear takes effect at its keyring
operation in the one deployment, and at the read, the rename and the remove in
the other; everything else is a stutter. With a keyring that answers now and then
neither refinement exists (`StoreTwoSources`); and by `OneSourceWhenSetIsConstant`
that counterexample takes a set that succeeds once and fails later, whatever get
and delete do.

**The flow** (`AuthFlowProofs`). `TypeCorrect` is for all processes and faults.
The others follow one process through any number of launches and sessions:

| Theorem | Faults allowed | What the others do |
|---|---|---|
| `TimeIsGenuine`, `FreshnessIsHonest` | delete, network, revoke | a store, metadata or crash fault can leave out the write-back, and the restamped time stays |
| `RefreshTokenIsLive` | delete, metadata | a response is lost (network, crash) or not saved (store) after the server has rotated; a revoked token is dead by definition |
| `ResetStartsOver` | all but delete | a clear that did not clear |
| `WithoutRotationTokensLive` | all but revoke, any number of processes, no rotation | |

`TimeInv` and `LiveInv` follow the copies of a credential: the stored one, the one
a launch has loaded and will write back, the one in a token response that is not
yet saved. A second process breaks the loaded copy (`AuthRotation`), which is why
they need one; without rotation no copy goes bad.

**The callback server** (`CallbackServerProofs`): `TypeCorrect`,
`FirstCallbackAnswers`, `EverybodyIsAnswered`, `TimeoutIsHonest` and
`ServerImplementsPromise`, without hypotheses. `ServerInv` relates the sender, the
channel and the first request in `order`: the sender is there exactly as long as
no handler has run, and what is in the channel is what the first one sent.

**The session** (`ProxySessionProofs`): `TypeCorrect`, `HandshakeIsUnique`,
`OnlyPermittedIsForwarded`, `NobodyWaitsInVain`, `PingsDoNotEndKeepalive`.
`SessionInv`: nobody has a remote number while the transport can still be taken,
the one that connects holds the cell, and a number of any other request means that
the cell is set and the filter did not object. That `nextId` keeps its type needs
a count of the requests that have a number. `NobodyWaitsInVain` is the safety half
of `EveryRequestAnswered`: over a live connection a waiting request has a number
on which the remote is working or which it has answered. A forwarded cancellation
carries a local number, and the remote drops whatever has that number there
(`ProxyCancel`). That is a wrong answer for somebody else, but no endless wait,
because rmcp stops waiting for the same number when it sends the note. The
invariant needs that numbers are drawn once, from the one counter that requests
and pings share (`NumbersHold`), and that no note is about a number somebody waits
under (`WaitHolds`). `PingsDoNotEndKeepalive` is the counterpart of
`PingerEndsWithService`: a live connection has its pinger (`PingerHolds`: only the
supervisor stops it, and only when the service ended).

**The other direction** (`ReverseTrafficProofs`): `TypeCorrect`,
`InitializedIsSeenOnce`, `NoCallComesTooEarly`, `RootsStayCurrent`,
`EveryChangeIsCounted`. `NoCallComesTooEarly` follows the cell from the handshake
to the client's result and to its calls (`HandshakeHolds`). The last two are about what the two sides learn of each
other's changes. `RootsStayCurrent` rests on `RootsHold`: as long as the remote
has not been told of a change, a list on its way to it is the current one or a
notification is on its way too, or could not be sent; and a change is possible only
after `initialize` was answered, hence with the cell filled. `EveryChangeIsCounted`: what the client
has not heard of is in the hands of a task, because a change before `initialize`
reached the remote is impossible (`ChangesHold`) and from then on the client
listens (`HandshakeHolds`) although its own `initialize` is still unanswered. The
numbers of the asks again need a count (`CountHolds`).

**Startup** (`StartupProofs`): `TypeCorrect`, `NothingInTheClear`,
`StdoutIsTheClients`, `KeyIsTheServers`, `StaticCredentialWins`,
`WalkEndsAtFirstDocument`, `ServerIsNamed`, `ScopesComeByPriority`, `FilterIsTheFlags`.
`WhereSilenceStands` says at which depth fd 1 is redirected; `WalkHolds` that what
was asked is a prefix of the candidates and what remains is the rest.
`CredentialKeyProofs` is about the key alone: normalising two URLs gives the same
exactly when `SameServer` says that they name one server, because a path is cut
after its last segment that is not empty (`WhereSlashesBegin`), and the paths with
equal cuts are those that differ in trailing slashes (`SamePathIsSameTrimmed`).
`FilterProofs` is about the filter alone: the patterns built from the values of a
flag are the pieces of all of them but the blank ones (`WhatBuildSetSays`), and a
page keeps the permitted tools and no other (`PageIsWhatIsPermitted`), both by what
flattening a sequence of sequences keeps (`ElementsOfFlattenSeq`). The induction
rules being out of reach, that lemma, and before it that the recursive function in
`FlattenSeq` exists (`SomethingFlattens`), argue from the shortest prefix that would
be a counterexample (`LeastNatural`).

Assumptions. `StoreAssumption` keeps the sentinel values apart and says that each
keyring operation can succeed or fail. `AuthAssumption` types the constants and
asks for a staleness buffer that is not zero (`REFRESH_BUFFER_SECS` is 30; with 0
a token would be fresh at the moment it expires). `LaunchAssumption` says what
clap and the url crate produce: optional arguments are there once or not at all,
paths are sequences, an IPv6 host has brackets, a filter flag has a sequence of
values and a value a sequence of pieces. `DocumentAssumption` says that a
document lists its servers in a sequence. TLC evaluates all of them.

Only model-checked: liveness (`LaunchResolves`, `WaitReturns`,
`EveryRequestAnswered`, `PingerEndsWithService`, `LaunchSettles`, `EveryAskEnds`,
`NestedCallsReturn`, `HostGoneMeansExit`), since fairness and
ENABLED are out of the prover's reach. Every other property of a passing run is
proved. Only proved, on the other hand: the register over a keyring that always
answers (`KeyringImplementsRegister`; `StoreFile` runs the deployment with the
longer calls), `OneSourceWhenSetIsConstant`, `PingsDoNotEndKeepalive`.

## 5. Not modelled

The contents of requests, results and pages; characters (how a URL, a header or a
flag is split into the parts the modules take); what a client id document says and
how a client is registered, so that from there on the two interactive flows are one;
keyring internals (duplicate items count as a failed delete); the download and
the replacement of the binary; logging. `SessionHash` is computed and logged, and
nothing else uses it. HTTP and the MCP protocol engine are rmcp's and axum's,
taken as their callers use them. That the order of notifications is lost (a task
for each) is in the model, but no property is about it, since nothing promises
an order.

Eight hazards have no property, because no text says what should happen, because
the client cannot help it, or because the code does go wrong there and no run is
spent on it: a clear that loses the race for the file and fails; a load that misses
a credential on the move; the false time of receipt after a crash or an error
between `set_credentials` and the write-back; a refresh that fails for a passing
reason wipes the cache; a response lost after the server has rotated the token; a
clock set back; the port of a flow that failed between bind and wait; `initialize`
answered from the cache after the remote has gone. `PROJECT.json` lists them with
the reason.

## 6. Plan

Done: the store with its abstract register, the flow, the callback server with its
promise, startup with discovery and the command line, the session, the other
direction; the theorems of section 4, which cover every safety property of a
passing run and both refinements, and the safety half of `EveryRequestAnswered`.

What would come next:
1. `EveryAskEnds` in the same way: an ask that is not over is one a task, the client
   or the remote still has in hand, cancellations with the wrong number included.
2. `ProxySession`: with one request at a time the local and the remote number of
   a request agree up to the pings, which bounds when `ProxyCancel` can happen.
3. A store that does not lose the race: what the code would have to do for
   `StoreTwoWriters` and `AuthRotation` to become passing runs.
