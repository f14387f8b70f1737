---------------------------- MODULE StartupProofs ----------------------------
(***************************************************************************)
(* For every set of command lines, challenges and metadata documents, and  *)
(* whatever the updater, the server and the flow answer:                   *)
(*   - Startup is type correct;                                            *)
(*   - standard output is the client's when the proxy serves, and the      *)
(*     updater writes to it only in a verbose launch;                      *)
(*   - nobody is spoken to before the arguments have been validated;       *)
(*   - the key of the cached credential names the server and the resource; *)
(*   - a static credential decides against OAuth;                          *)
(*   - the walk over the metadata candidates ends at the first document,   *)
(*     and invents no server;                                              *)
(*   - the scopes are the first that are there;                            *)
(*   - the tool filter that serves is the one the flags describe.          *)
(***************************************************************************)
EXTENDS CredentialKeyProofs, FilterProofs

-----------------------------------------------------------------------------
(* Who changes what.                                                       *)

LEMMA UpdateFrame ==
  ASSUME SelfUpdate
  PROVE  /\ UNCHANGED <<cli, locals, discoveryVars>>
         /\ stage \in {"parsed", "updating"}
         /\ stage' \in {"parsed", "updating", "validate", "exited"}
BY DEF SelfUpdate, Skip, UpdateRefused, UpdateBegins, EnterRestart, EnterSilence, EnterThrottle,
       Contact, LeaveThrottle, LeaveSilence, LeaveRestart, ExecFails, Exec, UpdateEnds,
       Entered, Inward, Leaving, Outward, AfterUpdate, update, locals, discoveryVars

LEMMA MainFrame ==
  ASSUME Main
  PROVE  /\ UNCHANGED <<cli, update>>
         /\ stage \notin {"parsed", "updating"} \cup Done
         /\ stage' \notin {"parsed", "updating", "validate", "exited"}
         /\ \/ RunDiscovery /\ stage = "discover" /\ UNCHANGED <<stage, locals>>
            \/ UNCHANGED discoveryVars
BY DEF Main, ValidateArguments, ParseHeaderArguments, ComputeKey, SkipAuth, OpenStore,
       RunDiscovery, DiscoveryReturns, Authorize, CompileFilter, Fail, locals, Done

-----------------------------------------------------------------------------
(* The wrappers of the updater.  Where the silence wrapper stands decides  *)
(* when fd 1 is the client's.                                              *)

SilenceAt == IF cli.os = "posix" THEN 2 ELSE 1

UpdateHolds ==
  /\ depth \in 0 .. Len(Layers)
  /\ stage # "updating" => depth = 0
  /\ fd1 = IF ~cli.verbose /\ depth >= SilenceAt THEN "null" ELSE "client"
  /\ noise => cli.verbose

LEMMA WhereSilenceStands ==
  /\ Len(Layers) \in 1 .. 3
  /\ ~cli.verbose => SilenceAt \in 1 .. Len(Layers)
  /\ \A i \in 1 .. Len(Layers) :
       /\ Layers[i] = "silence" <=> ~cli.verbose /\ i = SilenceAt
       /\ Layers[i] = "restart" => i < SilenceAt
<1> DEFINE restart == IF cli.os = "posix" THEN <<"restart">> ELSE <<>>
           silence == IF cli.verbose THEN <<>> ELSE <<"silence">>
           throttle == <<"throttle">>
<1>1. /\ restart \in Seq({"restart", "silence", "throttle"})
      /\ silence \in Seq({"restart", "silence", "throttle"})
      /\ throttle \in Seq({"restart", "silence", "throttle"})
  <2>1. <<>> \in Seq({"restart", "silence", "throttle"})
    BY EmptySeq
  <2>2. \A x \in {"restart", "silence", "throttle"} : <<x>> \in Seq({"restart", "silence", "throttle"})
    OBVIOUS
  <2> QED
    BY <2>1, <2>2
<1>2. /\ Len(restart) = IF cli.os = "posix" THEN 1 ELSE 0
      /\ Len(silence) = IF cli.verbose THEN 0 ELSE 1
      /\ Len(throttle) = 1
      /\ cli.os = "posix" => restart[1] = "restart"
      /\ ~cli.verbose => silence[1] = "silence"
      /\ throttle[1] = "throttle"
  OBVIOUS
<1> HIDE DEF restart, silence, throttle
<1>3. Layers = restart \o silence \o throttle
  BY DEF Layers, restart, silence, throttle
<1>4. /\ restart \o silence \in Seq({"restart", "silence", "throttle"})
      /\ Len(restart \o silence) = Len(restart) + Len(silence)
      /\ \A i \in 1 .. Len(restart) + Len(silence) :
           (restart \o silence)[i] = IF i <= Len(restart) THEN restart[i] ELSE silence[i - Len(restart)]
  BY <1>1, ConcatProperties
<1>5. /\ Layers \in Seq({"restart", "silence", "throttle"})
      /\ Len(Layers) = Len(restart) + Len(silence) + 1
      /\ \A i \in 1 .. Len(Layers) :
           Layers[i] = IF i <= Len(restart) + Len(silence) THEN (restart \o silence)[i] ELSE throttle[i - Len(restart) - Len(silence)]
  BY <1>1, <1>2, <1>3, <1>4, ConcatProperties
<1> QED
  BY <1>2, <1>4, <1>5 DEF SilenceAt

UpdateTypes ==
  /\ cli \in Launch
  /\ depth \in 0 .. 3 /\ status \in {"none", "uptodate", "updated", "error"}
  /\ fd1 \in {"client", "null"} /\ guard \in BOOLEAN /\ noise \in BOOLEAN

LEMMA UpdateStep ==
  ASSUME UpdateTypes, UpdateHolds, [Next]_vars
  PROVE  UpdateTypes' /\ UpdateHolds'
<1>0. cli.guard \in BOOLEAN /\ cli.verbose \in BOOLEAN /\ cli.update \in BOOLEAN /\ cli.os \in {"posix", "windows"}
  BY LaunchAssumption DEF UpdateTypes
<1> USE <1>0 DEF UpdateTypes
<1>1. CASE SelfUpdate
  <2>1. UNCHANGED <<cli, Layers, SilenceAt>> /\ SilenceAt \in Nat
    BY <1>1, UpdateFrame DEF Layers, SilenceAt
  <2> USE <1>1, <2>1, WhereSilenceStands DEF UpdateHolds
  <2>2. CASE Skip \/ UpdateRefused \/ UpdateBegins \/ UpdateEnds
    BY <2>2 DEF Skip, UpdateRefused, UpdateBegins, UpdateEnds, AfterUpdate, update
  <2>3. CASE EnterRestart
    BY <2>3 DEF EnterRestart, Entered, Inward
  <2>4. CASE EnterSilence
    BY <2>4 DEF EnterSilence, Entered, Inward
  <2>5. CASE EnterThrottle
    BY <2>5 DEF EnterThrottle, Entered, Inward
  <2>6. CASE Contact
    BY <2>6 DEF Contact
  <2>7. CASE LeaveThrottle
    BY <2>7 DEF LeaveThrottle, Leaving, Outward
  <2>8. CASE LeaveSilence
    BY <2>8 DEF LeaveSilence, Leaving, Outward
  <2>9. CASE LeaveRestart
    BY <2>9 DEF LeaveRestart, Leaving, Outward
  <2>10. CASE ExecFails
    BY <2>10 DEF ExecFails, Leaving, Outward
  <2>11. CASE Exec
    BY <2>11 DEF Exec, Outward
  <2> QED
    BY <2>2, <2>3, <2>4, <2>5, <2>6, <2>7, <2>8, <2>9, <2>10, <2>11 DEF SelfUpdate
<1>2. CASE Main
  BY <1>2, MainFrame DEF UpdateHolds, SilenceAt, Layers, update, Done
<1>3. CASE UNCHANGED vars
  BY <1>3 DEF UpdateHolds, SilenceAt, Layers, update, vars
<1> QED
  BY <1>1, <1>2, <1>3 DEF Next

-----------------------------------------------------------------------------
(* From the arguments to the client.                                       *)

StageTypes ==
  /\ stage \in {"parsed", "updating", "validate", "headers", "key", "acquire",
                "discover", "authorize", "filter"} \cup Done
  /\ client \in {"none", "anonymous", "authorized"}
  /\ step \in {"idle", "probe", "fetch"} \cup Settled
  /\ stage \in {"filter", "serving"} => client # "none"
  /\ stage = "serving" => filter # <<>>

LEMMA StageStep ==
  ASSUME StageTypes, [Next]_vars
  PROVE  StageTypes'
<1> USE DEF StageTypes, Done, Settled
<1>1. CASE SelfUpdate
  BY <1>1, UpdateFrame DEF locals, discoveryVars
<1>2. CASE RunDiscovery
  BY <1>2 DEF RunDiscovery, Discover, Probe, ProbeReachable, ProbeUnexpected, ProbeUnauthorized,
     FetchBroken, FetchAbsent, FetchDocument, Conclude, locals
<1>3. CASE ValidateArguments \/ ParseHeaderArguments \/ ComputeKey \/ SkipAuth \/ OpenStore
  BY <1>3 DEF ValidateArguments, ParseHeaderArguments, ComputeKey, SkipAuth, OpenStore, Fail,
     locals, discoveryVars
<1>4. CASE DiscoveryReturns \/ Authorize
  BY <1>4 DEF DiscoveryReturns, Authorize, Fail, locals, discoveryVars
<1>5. CASE CompileFilter
  BY <1>5 DEF CompileFilter, Fail, locals, discoveryVars
<1>6. CASE UNCHANGED vars
  BY <1>6 DEF vars, locals, discoveryVars
<1> QED
  BY <1>1, <1>2, <1>3, <1>4, <1>5, <1>6 DEF Next, Main

\* Whatever comes after the validation of the arguments.
Validated ==
  stage \in {"headers", "key", "acquire", "discover", "authorize", "filter", "serving"}
    => Validate(cli)

LEMMA ValidatedStep ==
  ASSUME StageTypes, Validated, [Next]_vars
  PROVE  Validated'
<1>1. UNCHANGED cli
  BY UpdateFrame, MainFrame DEF Next, vars
<1>2. Validate(cli)' <=> Validate(cli)
  BY <1>1 DEF Validate, CheckHttpScheme, IsLoopback
<1> USE <1>2 DEF Validated
<1>3. CASE SelfUpdate
  BY <1>3, UpdateFrame
<1>4. CASE RunDiscovery
  BY <1>4 DEF RunDiscovery
<1>5. CASE ValidateArguments \/ ParseHeaderArguments \/ ComputeKey \/ SkipAuth \/ OpenStore
           \/ DiscoveryReturns \/ Authorize \/ CompileFilter
  BY <1>5 DEF ValidateArguments, ParseHeaderArguments, ComputeKey, SkipAuth, OpenStore,
     DiscoveryReturns, Authorize, CompileFilter, Fail
<1>6. CASE UNCHANGED vars
  BY <1>6 DEF vars
<1> QED
  BY <1>3, <1>4, <1>5, <1>6 DEF Next, Main

LEMMA ValidatedMeansNoCleartext ==
  ASSUME cli \in Launch, Validated
  PROVE  NoCleartext
<1> SUFFICES ASSUME OnTheNetwork, NEW i \in DOMAIN (cli.serverUrl \o cli.resource)
             PROVE  LET u == (cli.serverUrl \o cli.resource)[i]
                    IN  \/ u.scheme = "https"
                        \/ u.scheme = "http" /\ (cli.allowHttp \/ u.host \in {"localhost", "127.0.0.1"})
  BY DEF NoCleartext
<1> DEFINE u == (cli.serverUrl \o cli.resource)[i]
           urls == ToSet(cli.serverUrl) \cup ToSet(cli.resource)
<1>1. Validate(cli)
  BY DEF OnTheNetwork, Validated
<1>2. /\ cli.serverUrl \in Seq(urls) /\ Len(cli.serverUrl) = 1
      /\ cli.resource \in Seq(urls) /\ Len(cli.resource) \in 0 .. 1
  <2>1. Optional(cli.serverUrl) /\ cli.serverUrl # <<>> /\ Optional(cli.resource)
    BY <1>1, LaunchAssumption DEF Validate
  <2>2. cli.serverUrl[1] \in urls /\ cli.serverUrl = <<cli.serverUrl[1]>>
    BY <2>1 DEF Optional, ToSet
  <2>3. ASSUME cli.resource # <<>>
        PROVE  cli.resource = <<cli.resource[1]>> /\ cli.resource[1] \in urls
    <3>1. cli.resource = <<cli.resource[1]>>
      BY <2>1, <2>3 DEF Optional
    <3>2. 1 \in DOMAIN cli.resource
      BY <3>1
    <3> QED
      BY <3>1, <3>2 DEF ToSet
  <2>4. ASSUME NEW x \in urls PROVE <<x>> \in Seq(urls) /\ Len(<<x>>) = 1
    OBVIOUS
  <2>5. <<>> \in Seq(urls) /\ Len(<<>>) = 0
    BY EmptySeq
  <2> HIDE DEF urls
  <2>6. cli.serverUrl \in Seq(urls) /\ Len(cli.serverUrl) = 1
    BY <2>2, <2>4
  <2>7. CASE cli.resource = <<>>
    BY <2>5, <2>6, <2>7
  <2>8. CASE cli.resource # <<>>
    <3>1. cli.resource \in Seq(urls) /\ Len(cli.resource) = 1
      BY <2>3, <2>4, <2>8
    <3> QED
      BY <3>1, <2>6
  <2> QED
    BY <2>7, <2>8
<1> HIDE DEF urls
<1>3. u = cli.serverUrl[1] \/ (u = cli.resource[1] /\ 1 \in DOMAIN cli.resource)
  <2>1. /\ cli.serverUrl \o cli.resource \in Seq(urls)
        /\ Len(cli.serverUrl \o cli.resource) = Len(cli.serverUrl) + Len(cli.resource)
        /\ \A j \in 1 .. Len(cli.serverUrl) + Len(cli.resource) : (cli.serverUrl \o cli.resource)[j] =
             IF j <= Len(cli.serverUrl) THEN cli.serverUrl[j] ELSE cli.resource[j - Len(cli.serverUrl)]
    BY <1>2, ConcatProperties
  <2>2. DOMAIN (cli.serverUrl \o cli.resource) = 1 .. Len(cli.serverUrl) + Len(cli.resource)
    BY <2>1, LenProperties
  <2>3. i \in 1 .. 1 + Len(cli.resource)
    BY <1>2, <2>2
  <2>4. u = IF i = 1 THEN cli.serverUrl[1] ELSE cli.resource[i - 1]
    BY <1>2, <2>1, <2>3
  <2>5. i # 1 => i = 2 /\ 1 \in DOMAIN cli.resource
    <3>1. DOMAIN cli.resource = 1 .. Len(cli.resource)
      BY <1>2, LenProperties
    <3>2. Len(cli.resource) = 0 \/ Len(cli.resource) = 1
      BY <1>2
    <3>3. Len(cli.resource) = 0 => i = 1
      BY <2>3
    <3>4. Len(cli.resource) = 1 => i \in {1, 2} /\ 1 \in DOMAIN cli.resource
      BY <2>3, <3>1
    <3> QED
      BY <3>2, <3>3, <3>4
  <2> QED
    BY <2>4, <2>5
<1> HIDE DEF u
<1>4. CheckHttpScheme(cli, u)
  BY <1>1, <1>3 DEF Validate
<1>5. u \in urls
  BY <1>2, <1>3, ElementOfSeq DEF urls
<1>6. u.host # "::1"
  BY <1>5, LaunchAssumption DEF urls
<1> QED
  BY <1>4, <1>6 DEF CheckHttpScheme, IsLoopback, u

-----------------------------------------------------------------------------
(* Static credentials.                                                     *)

IsStatic ==
  \E i \in DOMAIN cli.headers :
    cli.headers[i].name \in {"Authorization", "AUTHORIZATION", "Proxy-Authorization"}

\* The header that was named is in the parsed map, and the probe that is
\* refused all the same refuses the launch.
StaticHolds ==
  IsStatic =>
    /\ stage \in {"key", "acquire", "discover", "authorize", "filter", "serving"}
         => SuppliedAuthzHeader(headers)
    /\ step \notin {"fetch", "required"} /\ asked = <<>>
    /\ stage # "authorize" /\ client # "authorized"

LEMMA StaticIsParsed ==
  ASSUME IsStatic, ParseHeaders(cli.headers, cli.env).ok
  PROVE  SuppliedAuthzHeader(ParseHeaders(cli.headers, cli.env).value)
<1>1. PICK i \in DOMAIN cli.headers :
        cli.headers[i].name \in {"Authorization", "AUTHORIZATION", "Proxy-Authorization"}
  BY DEF IsStatic
<1>2. HeaderName(cli.headers[i].name) \in {"authorization", "proxy-authorization"}
  BY <1>1 DEF HeaderName
<1>3. DOMAIN ParseHeaders(cli.headers, cli.env).value
        = {HeaderName(cli.headers[j].name) : j \in DOMAIN cli.headers}
  BY DEF ParseHeaders, Refused, Parsed
<1> QED
  BY <1>1, <1>2, <1>3 DEF SuppliedAuthzHeader

LEMMA StaticStep ==
  ASSUME StageTypes, StaticHolds, [Next]_vars
  PROVE  StaticHolds'
<1>1. UNCHANGED cli
  BY UpdateFrame, MainFrame DEF Next, vars
<1>2. IsStatic' <=> IsStatic
  BY <1>1 DEF IsStatic
<1> SUFFICES ASSUME IsStatic PROVE StaticHolds'
  BY <1>2 DEF StaticHolds
<1> USE <1>2 DEF StaticHolds
<1>3. CASE SelfUpdate
  BY <1>3, UpdateFrame DEF locals, discoveryVars, SuppliedAuthzHeader
<1>4. CASE RunDiscovery
  BY <1>4 DEF RunDiscovery, Discover, Probe, ProbeReachable, ProbeUnexpected, ProbeUnauthorized,
     FetchBroken, FetchAbsent, FetchDocument, Conclude, locals, SuppliedAuthzHeader
<1>5. CASE ParseHeaderArguments
  BY <1>5, StaticIsParsed DEF ParseHeaderArguments, Fail, locals, discoveryVars
<1>6. CASE ValidateArguments \/ ComputeKey \/ SkipAuth \/ OpenStore
  BY <1>6 DEF ValidateArguments, ComputeKey, SkipAuth, OpenStore, Fail, locals, discoveryVars,
     SuppliedAuthzHeader
<1>7. CASE DiscoveryReturns \/ Authorize \/ CompileFilter
  BY <1>7 DEF DiscoveryReturns, Authorize, CompileFilter, Fail, locals, discoveryVars,
     SuppliedAuthzHeader
<1>8. CASE UNCHANGED vars
  BY <1>8 DEF vars, locals, discoveryVars, SuppliedAuthzHeader
<1> QED
  BY <1>3, <1>4, <1>5, <1>6, <1>7, <1>8 DEF Next, Main

-----------------------------------------------------------------------------
(* What discovery returns.                                                 *)

\* A result is final, and says what the challenge and the document say.
ServerHolds ==
  /\ prm = <<>> \/ \E doc \in Document : prm = <<doc>>
  /\ step = "required" <=> oauth # <<>>
  /\ oauth # <<>> => oauth[1].scopes = DiscoveredScopes
  /\ NoInventedServer

LEMMA ServerStep ==
  ASSUME ServerHolds, [Next]_vars
  PROVE  ServerHolds'
<1> USE DEF ServerHolds, NoInventedServer
<1>1. CASE UNCHANGED discoveryVars
  BY <1>1 DEF discoveryVars, DiscoveredScopes, ParseWwwAuthenticate, Parameter, KeyIs
<1>2. CASE Probe \/ ProbeReachable \/ ProbeUnexpected
  BY <1>2 DEF Probe, ProbeReachable, ProbeUnexpected
<1>3. ASSUME NEW hdr, NEW path, ProbeUnauthorized(headers, path, hdr)
      PROVE  ServerHolds'
  BY <1>3 DEF ProbeUnauthorized
<1>4. CASE FetchBroken \/ FetchAbsent
  BY <1>4 DEF FetchBroken, FetchAbsent
<1>5. ASSUME NEW doc \in Document, FetchDocument(doc) PROVE ServerHolds'
  BY <1>5 DEF FetchDocument
<1>6. ASSUME NEW server, Conclude(server) PROVE ServerHolds'
  <2>1. UNCHANGED <<challenge, prm>> /\ DiscoveredScopes' = DiscoveredScopes
    BY <1>6 DEF Conclude, DiscoveredScopes, ParseWwwAuthenticate, Parameter, KeyIs
  <2>2. CASE step' = "refused"
    BY <1>6, <2>1, <2>2 DEF Conclude
  <2>3. CASE prm # <<>> /\ prm[1].servers # <<>> /\ step' = "required"
    <3>1. prm[1].servers[1] \in ToSet(prm[1].servers)
      <4>1. prm[1] \in Document
        BY <2>3
      <4>2. 1 \in DOMAIN prm[1].servers
        BY <2>3, <4>1, DocumentAssumption
      <4> QED
        BY <4>2 DEF ToSet
    <3>2. oauth' = <<[authorizationServer |-> prm[1].servers[1], scopes |-> DiscoveredScopes]>>
      BY <1>6, <2>3 DEF Conclude
    <3> QED
      BY <2>1, <2>3, <3>1, <3>2
  <2>4. CASE (prm = <<>> \/ prm[1].servers = <<>>) /\ step' = "required"
    <3>1. challenge # <<>>
      BY <1>6, <2>4 DEF Conclude
    <3>2. oauth' = <<[authorizationServer |-> server, scopes |-> DiscoveredScopes]>>
      BY <1>6, <2>4 DEF Conclude
    <3> QED
      BY <2>1, <2>4, <3>1, <3>2
  <2> QED
    BY <1>6, <2>2, <2>3, <2>4 DEF Conclude
<1> QED
  BY <1>1, <1>2, <1>3, <1>4, <1>5, <1>6, UpdateFrame, MainFrame
     DEF Next, RunDiscovery, Discover, vars, discoveryVars

\* main asks for scopes once discovery has returned.
ScopesHold == (scopes # <<>> => step = "required") /\ ScopesByPriority

LEMMA ScopesStep ==
  ASSUME cli \in Launch, ServerHolds, ScopesHold, [Next]_vars
  PROVE  ScopesHold'
<1>1. UNCHANGED cli
  BY UpdateFrame, MainFrame DEF Next, vars
<1>2. CASE DiscoveryReturns /\ stage' = "authorize"
  <2>1. UNCHANGED discoveryVars /\ step = "required" /\ scopes' = <<EffectiveScopes>>
    BY <1>2 DEF DiscoveryReturns, Fail
  <2>2. \A header : Parameter(header, "scope") = <<>>
                    \/ Parameter(header, "scope") = <<Parameter(header, "scope")[1]>>
    BY DEF Parameter
  <2>3. ParseWwwAuthenticate(challenge).scope = <<>>
         \/ ParseWwwAuthenticate(challenge).scope = <<ParseWwwAuthenticate(challenge).scope[1]>>
    BY <2>2 DEF ParseWwwAuthenticate
  <2>4. cli.scope = <<>> \/ cli.scope = <<cli.scope[1]>>
    BY LaunchAssumption DEF Optional
  <2>5. oauth[1].scopes = DiscoveredScopes
    BY <2>1 DEF ServerHolds
  <2>6. ScopesByPriority'
    BY <1>1, <2>1, <2>3, <2>4, <2>5
       DEF ScopesByPriority, EffectiveScopes, DiscoveredScopes, discoveryVars
  <2> QED
    BY <2>1, <2>6 DEF ScopesHold, discoveryVars
<1>3. CASE scopes' = scopes /\ UNCHANGED discoveryVars
  BY <1>1, <1>3 DEF ScopesHold, ScopesByPriority, discoveryVars
<1>4. CASE RunDiscovery
  <2>1. scopes = <<>> /\ scopes' = scopes
    BY <1>4 DEF RunDiscovery, Discover, Probe, ProbeReachable, ProbeUnexpected, ProbeUnauthorized,
       FetchBroken, FetchAbsent, FetchDocument, Conclude, ScopesHold, locals
  <2> QED
    BY <2>1 DEF ScopesHold, ScopesByPriority
<1>5. SelfUpdate \/ UNCHANGED vars => scopes' = scopes /\ UNCHANGED discoveryVars
  BY UpdateFrame DEF locals, vars
<1>6. ValidateArguments \/ ParseHeaderArguments \/ ComputeKey \/ SkipAuth \/ OpenStore
        \/ Authorize \/ CompileFilter
       => scopes' = scopes /\ UNCHANGED discoveryVars
  BY DEF ValidateArguments, ParseHeaderArguments, ComputeKey, SkipAuth, OpenStore, Authorize,
     CompileFilter, Fail, locals
<1>7. DiscoveryReturns => stage' = "authorize" \/ (scopes' = scopes /\ UNCHANGED discoveryVars)
  BY DEF DiscoveryReturns, Fail, locals
<1> QED
  BY <1>2, <1>3, <1>4, <1>5, <1>6, <1>7 DEF Next, Main

-----------------------------------------------------------------------------
(* The walk over the metadata candidates.                                  *)

Candidates == PrmCandidates(challenge, ServerPath)
Outcome == {"broken", "absent", "document"}

\* What was asked is a prefix of the candidates, and what remains the rest of
\* them, until a document is found.
WalkHolds ==
  /\ asked \in Seq(ToSet(Candidates) \X Outcome)
  /\ Len(asked) <= Len(Candidates)
  /\ \A i \in 1 .. Len(asked) :
       /\ asked[i][1] = Candidates[i]
       /\ asked[i][2] = "document" => i = Len(asked) /\ prm # <<>>
  /\ prm # <<>> => asked # <<>> /\ asked[Len(asked)][2] = "document"
  /\ step \in {"idle", "probe", "none"} => asked = <<>>
  /\ step = "fetch" /\ prm = <<>>
       => remaining = SubSeq(Candidates, Len(asked) + 1, Len(Candidates))
  /\ step \in {"required", "refused"} /\ asked # <<>>
       => prm # <<>> \/ Len(asked) = Len(Candidates)

LEMMA CandidatesAreASequence ==
  ASSUME NEW hdr, NEW path
  PROVE  PrmCandidates(hdr, path) \in Seq(ToSet(PrmCandidates(hdr, path)))
<1> DEFINE link == ParseWwwAuthenticate(hdr).resourceMetadata
           S == {link[1], "well-known/path", "well-known"}
<1>1. \A header : \E v : Parameter(header, "resource_metadata") \in {<<>>, <<v>>}
  BY DEF Parameter
<1>2. link = <<>> \/ link = <<link[1]>>
  BY <1>1 DEF ParseWwwAuthenticate
<1>3. /\ <<>> \in Seq(S) /\ <<link[1]>> \in Seq(S)
      /\ <<"well-known/path">> \in Seq(S) /\ <<"well-known">> \in Seq(S)
  BY EmptySeq
<1> HIDE DEF S, link
<1>4. link \in Seq(S)
  BY <1>2, <1>3
<1>5. WellKnownPrmUrls(path) \in Seq(S)
  BY <1>3, ConcatProperties DEF WellKnownPrmUrls
<1>6. PrmCandidates(hdr, path) \in Seq(S)
  BY <1>4, <1>5, ConcatProperties DEF PrmCandidates, link
<1> HIDE DEF PrmCandidates
<1> QED
  BY <1>6, SeqOfRange, LenProperties, IsASeq DEF ToSet

\* One more candidate is asked, whatever comes back.
LEMMA FetchedIsNext ==
  ASSUME WalkHolds, step = "fetch", remaining # <<>>, prm = <<>>,
         NEW outcome \in Outcome, Fetched(outcome), Candidates' = Candidates
  PROVE  /\ asked' \in Seq(ToSet(Candidates) \X Outcome)
         /\ Len(asked') = Len(asked) + 1 /\ Len(asked') <= Len(Candidates)
         /\ \A i \in 1 .. Len(asked') :
              /\ asked'[i][1] = Candidates[i]
              /\ asked'[i][2] = "document" => i = Len(asked') /\ outcome = "document"
         /\ asked' # <<>> /\ asked'[Len(asked')][2] = outcome
         /\ Tail(remaining) = SubSeq(Candidates, Len(asked') + 1, Len(Candidates))
<1> DEFINE n == Len(asked)
           cands == Candidates
<1>1. cands \in Seq(ToSet(cands))
  BY CandidatesAreASequence DEF Candidates
<1>2. n \in Nat /\ Len(cands) \in Nat /\ remaining = SubSeq(cands, n + 1, Len(cands))
  BY <1>1, LenProperties DEF WalkHolds
<1> HIDE DEF cands
<1>3. n + 1 \in 1 .. Len(cands)
  <2>1. ~(Len(cands) < n + 1)
    BY <1>2, SubSeqEmpty
  <2> QED
    BY <1>2, <2>1
<1>4. Head(remaining) = cands[n + 1] /\ Tail(remaining) = SubSeq(cands, n + 2, Len(cands))
  BY <1>1, <1>2, <1>3, HeadTailOfSubSeq
<1>5. cands[n + 1] \in ToSet(cands)
  BY <1>1, <1>3, ElementOfSeq
<1>6. asked' = Append(asked, <<cands[n + 1], outcome>>)
  BY <1>4 DEF Fetched
<1>7. /\ asked' \in Seq(ToSet(cands) \X Outcome)
      /\ Len(asked') = n + 1
      /\ \A i \in 1 .. n : asked'[i] = asked[i]
      /\ asked'[n + 1] = <<cands[n + 1], outcome>>
  BY <1>5, <1>6, AppendProperties DEF WalkHolds, cands
<1>8. ASSUME NEW i \in 1 .. Len(asked')
      PROVE  /\ asked'[i][1] = Candidates[i]
             /\ asked'[i][2] = "document" => i = Len(asked') /\ outcome = "document"
  <2>1. CASE i = n + 1
    BY <1>2, <1>7, <2>1 DEF cands
  <2>2. CASE i # n + 1
    <3>1. i \in 1 .. n /\ asked'[i] = asked[i]
      BY <1>2, <1>7, <2>2
    <3> QED
      BY <3>1 DEF WalkHolds
  <2> QED
    BY <2>1, <2>2
<1>9. asked' # <<>>
  BY <1>2, <1>7
<1> QED
  BY <1>2, <1>3, <1>4, <1>7, <1>8, <1>9 DEF cands

LEMMA WalkStep ==
  ASSUME WalkHolds, [Next]_vars
  PROVE  WalkHolds'
<1>0. UNCHANGED cli
  BY UpdateFrame, MainFrame DEF Next, vars
<1>1. UNCHANGED challenge => Candidates' = Candidates
  BY <1>0 DEF Candidates, PrmCandidates, ParseWwwAuthenticate, Parameter, KeyIs,
     WellKnownPrmUrls, ServerPath, TrimSlashes, UrlParse, DefaultPort
<1>2. CASE UNCHANGED discoveryVars
  BY <1>1, <1>2 DEF WalkHolds, discoveryVars
<1>3. CASE Probe \/ ProbeReachable \/ ProbeUnexpected
  BY <1>1, <1>3 DEF WalkHolds, Probe, ProbeReachable, ProbeUnexpected
<1>4. ASSUME NEW hdr, ProbeUnauthorized(headers, ServerPath, hdr)
      PROVE  WalkHolds'
  <2>1. asked = <<>> /\ asked' = <<>> /\ prm = <<>> /\ prm' = <<>> /\ Len(<<>>) = 0
    BY <1>4 DEF ProbeUnauthorized, WalkHolds
  <2>2. Candidates' = PrmCandidates(hdr, ServerPath)
    BY <1>0, <1>4 DEF ProbeUnauthorized, Candidates, PrmCandidates, ParseWwwAuthenticate,
       Parameter, KeyIs, WellKnownPrmUrls, ServerPath, TrimSlashes, UrlParse, DefaultPort
  <2>3. Candidates' \in Seq(ToSet(Candidates')) /\ Len(Candidates') \in Nat
    BY <2>2, CandidatesAreASequence, LenProperties
  <2>4. SubSeq(Candidates', 1, Len(Candidates')) = Candidates'
    BY <2>3, SubSeqFull
  <2>5. step' = "fetch" => remaining' = Candidates'
    BY <1>4, <2>2 DEF ProbeUnauthorized
  <2>6. step' \in {"fetch", "refused"}
    BY <1>4 DEF ProbeUnauthorized
  <2>7. asked' \in Seq(ToSet(Candidates') \X Outcome)
    BY <2>1, EmptySeq
  <2> QED
    BY <2>1, <2>3, <2>4, <2>5, <2>6, <2>7 DEF WalkHolds
<1>5. CASE FetchBroken \/ FetchAbsent
  <2>1. PICK outcome \in {"broken", "absent"} : Fetched(outcome)
    BY <1>5 DEF FetchBroken, FetchAbsent
  <2>2. /\ step = "fetch" /\ remaining # <<>> /\ prm = <<>> /\ remaining' = Tail(remaining)
        /\ UNCHANGED <<step, challenge, prm>>
    BY <1>5 DEF FetchBroken, FetchAbsent
  <2>3. /\ asked' \in Seq(ToSet(Candidates) \X Outcome)
        /\ Len(asked') <= Len(Candidates)
        /\ \A i \in 1 .. Len(asked') : asked'[i][1] = Candidates[i] /\ asked'[i][2] # "document"
        /\ remaining' = SubSeq(Candidates, Len(asked') + 1, Len(Candidates))
    <3>1. outcome \in Outcome /\ outcome # "document"
      BY DEF Outcome
    <3> QED
      BY <1>1, <2>1, <2>2, <3>1, FetchedIsNext
  <2> QED
    BY <1>1, <2>2, <2>3 DEF WalkHolds
<1>6. ASSUME NEW doc \in Document, FetchDocument(doc) PROVE WalkHolds'
  <2>1. /\ Fetched("document") /\ step = "fetch" /\ remaining # <<>> /\ prm = <<>>
        /\ prm' = <<doc>> /\ UNCHANGED <<step, challenge>>
    BY <1>6 DEF FetchDocument
  <2>2. /\ asked' \in Seq(ToSet(Candidates) \X Outcome)
        /\ Len(asked') <= Len(Candidates)
        /\ \A i \in 1 .. Len(asked') :
             asked'[i][1] = Candidates[i] /\ (asked'[i][2] = "document" => i = Len(asked'))
        /\ asked' # <<>> /\ asked'[Len(asked')][2] = "document"
    <3>1. "document" \in Outcome
      BY DEF Outcome
    <3> QED
      BY <1>1, <2>1, <3>1, FetchedIsNext
  <2> QED
    BY <1>1, <2>1, <2>2 DEF WalkHolds
<1>7. ASSUME NEW server, Conclude(server) PROVE WalkHolds'
  <2>1. /\ step = "fetch" /\ (remaining = <<>> \/ prm # <<>>) /\ step' \in {"required", "refused"}
        /\ UNCHANGED <<challenge, prm, asked>>
    BY <1>7 DEF Conclude
  <2>2. prm = <<>> => Len(asked) = Len(Candidates)
    <3> SUFFICES ASSUME prm = <<>> PROVE Len(asked) = Len(Candidates)
      OBVIOUS
    <3>1. Candidates \in Seq(ToSet(Candidates)) /\ Len(Candidates) \in Nat /\ Len(asked) \in Nat
      BY CandidatesAreASequence, LenProperties DEF Candidates, WalkHolds
    <3>2. SubSeq(Candidates, Len(asked) + 1, Len(Candidates)) = <<>>
      BY <2>1 DEF WalkHolds
    <3>3. Len(asked) + 1 <= Len(Candidates)
           => Len(SubSeq(Candidates, Len(asked) + 1, Len(Candidates))) = Len(Candidates) - Len(asked)
      BY <3>1, SubSeqProperties, ElementOfSeq
    <3> QED
      BY <3>1, <3>2, <3>3 DEF WalkHolds
  <2> QED
    BY <1>1, <2>1, <2>2 DEF WalkHolds
<1> QED
  BY <1>2, <1>3, <1>4, <1>5, <1>6, <1>7, UpdateFrame, MainFrame
     DEF Next, RunDiscovery, Discover, vars

LEMMA WalkMeansFirstDocumentDecides == WalkHolds => FirstDocumentDecides
<1> SUFFICES ASSUME WalkHolds PROVE FirstDocumentDecides
  OBVIOUS
<1>1. Candidates \in Seq(ToSet(Candidates)) /\ Len(Candidates) \in Nat
  BY CandidatesAreASequence, LenProperties DEF Candidates
<1>2. DOMAIN asked = 1 .. Len(asked) /\ Len(asked) \in 0 .. Len(Candidates)
  BY <1>1, LenProperties DEF WalkHolds
<1>3. SubSeq(Candidates, 1, Len(asked)) = [i \in 1 .. Len(asked) |-> Candidates[i]]
  BY <1>1, <1>2, SubSeqRestrict DEF Restrict
<1>4. [i \in DOMAIN asked |-> asked[i][1]] = SubSeq(Candidates, 1, Len(asked))
  BY <1>2, <1>3 DEF WalkHolds
<1> QED
  BY <1>2, <1>4 DEF WalkHolds, FirstDocumentDecides, Candidates

-----------------------------------------------------------------------------
(* The key.  It is computed once, from the arguments.                      *)

KeyHolds ==
  stage \in {"acquire", "discover", "authorize", "filter", "serving"}
    => key = <<CredentialKey(cli.serverUrl[1], cli.resource)>>

LEMMA KeyStep ==
  ASSUME StageTypes, KeyHolds, [Next]_vars
  PROVE  KeyHolds'
<1>1. UNCHANGED cli
  BY UpdateFrame, MainFrame DEF Next, vars
<1>2. CredentialKey(cli.serverUrl[1], cli.resource)' = CredentialKey(cli.serverUrl[1], cli.resource)
  BY <1>1
<1> USE <1>2 DEF KeyHolds
<1>3. CASE SelfUpdate
  BY <1>3, UpdateFrame
<1>4. CASE ComputeKey
  BY <1>4 DEF ComputeKey
<1>5. CASE ValidateArguments \/ ParseHeaderArguments
  BY <1>5 DEF ValidateArguments, ParseHeaderArguments, Fail, locals
<1>6. CASE SkipAuth \/ OpenStore \/ RunDiscovery \/ DiscoveryReturns \/ Authorize \/ CompileFilter
  BY <1>6 DEF SkipAuth, OpenStore, RunDiscovery, DiscoveryReturns, Authorize, CompileFilter,
     Fail, locals
<1>7. CASE UNCHANGED vars
  BY <1>7 DEF vars, locals
<1> QED
  BY <1>3, <1>4, <1>5, <1>6, <1>7 DEF Next, Main

LEMMA KeyMeansKeyNamesTheServer ==
  ASSUME cli \in Launch, Validated, KeyHolds
  PROVE  KeyNamesTheServer
<1> SUFFICES ASSUME stage = "acquire", NEW other \in Launch, Validate(other)
             PROVE  key[1] = CredentialKey(other.serverUrl[1], other.resource)
                      <=> /\ SameServer(cli.serverUrl[1], other.serverUrl[1])
                          /\ Len(cli.resource) = Len(other.resource)
                          /\ \A i \in DOMAIN cli.resource :
                               UrlParse(cli.resource[i]) = UrlParse(other.resource[i])
  BY DEF KeyNamesTheServer
<1>1. cli.serverUrl # <<>> /\ other.serverUrl # <<>>
  BY DEF Validated, Validate
<1>2. key[1] = CredentialKey(cli.serverUrl[1], cli.resource)
  BY DEF KeyHolds
<1> QED
  BY <1>1, <1>2, SameKeyIsSameServer

-----------------------------------------------------------------------------
(* The filter.  It is compiled once, from the arguments.                   *)

FilterHolds ==
  filter # <<>> =>
    FromCli(cli.allow, cli.deny).ok /\ filter = <<FromCli(cli.allow, cli.deny).value>>

LEMMA FilterStep ==
  ASSUME FilterHolds, [Next]_vars
  PROVE  FilterHolds'
<1>1. UNCHANGED cli
  BY UpdateFrame, MainFrame DEF Next, vars
<1>2. FromCli(cli.allow, cli.deny)' = FromCli(cli.allow, cli.deny)
  BY <1>1
<1> USE <1>2 DEF FilterHolds
<1>3. CASE CompileFilter
  BY <1>3 DEF CompileFilter, Fail, locals
<1>4. CASE UNCHANGED filter
  BY <1>4
<1>5. CompileFilter \/ UNCHANGED filter
  BY UpdateFrame DEF Next, Main, ValidateArguments, ParseHeaderArguments, ComputeKey, SkipAuth,
     OpenStore, RunDiscovery, DiscoveryReturns, Authorize, Fail, locals, vars
<1> QED
  BY <1>3, <1>4, <1>5

LEMMA FilterMeansFilterSaysWhatFlagsSay ==
  ASSUME cli \in Launch, FilterHolds
  PROVE  FilterSaysWhatFlagsSay
<1> SUFFICES ASSUME filter # <<>>, NEW t \in ToSet(cli.tools)
             PROVE  /\ Wanted(cli.allow, cli.deny, t) <=> t \in ToSet(FilterPage(filter[1], cli.tools))
                    /\ Wanted(cli.allow, cli.deny, t) <=> EnforceToolFilter(filter[1], t)
  BY DEF FilterSaysWhatFlagsSay, Wanted, Patterns, Elements
<1>1. cli.allow \in Seq(Seq(STRING)) /\ cli.deny \in Seq(Seq(STRING)) /\ cli.tools \in Seq(STRING)
  BY LaunchAssumption
<1>2. filter[1] = FromCli(cli.allow, cli.deny).value /\ FromCli(cli.allow, cli.deny).ok
  BY DEF FilterHolds
<1>3. Permits(filter[1], t) <=> Wanted(cli.allow, cli.deny, t)
  BY <1>1, <1>2, PermittedIsWanted
<1>4. ToSet(FilterPage(filter[1], cli.tools)) = {u \in ToSet(cli.tools) : Permits(filter[1], u)}
  BY <1>1, PageIsWhatIsPermitted
<1> QED
  BY <1>3, <1>4 DEF EnforceToolFilter

-----------------------------------------------------------------------------
(* The invariant of a launch.                                              *)

StartupInv ==
  /\ UpdateTypes /\ UpdateHolds
  /\ StageTypes /\ Validated /\ StaticHolds
  /\ ServerHolds /\ ScopesHold /\ WalkHolds /\ KeyHolds /\ FilterHolds

LEMMA StartupInit == Init => StartupInv
<1> SUFFICES ASSUME Init PROVE StartupInv
  OBVIOUS
<1> USE DEF Init, DiscoveryInit
<1>1. UpdateTypes
  <2>1. cli \in Launch /\ guard \in BOOLEAN
    BY LaunchAssumption
  <2>2. depth \in 0 .. 3 /\ status \in {"none", "uptodate", "updated", "error"}
    OBVIOUS
  <2>3. fd1 \in {"client", "null"} /\ noise \in BOOLEAN
    OBVIOUS
  <2> QED
    BY <2>1, <2>2, <2>3 DEF UpdateTypes
<1>2. UpdateHolds
  BY WhereSilenceStands DEF UpdateHolds, SilenceAt
<1>3. StageTypes /\ Validated /\ StaticHolds /\ KeyHolds /\ FilterHolds
  BY DEF StageTypes, Validated, StaticHolds, KeyHolds, FilterHolds
<1>4. ServerHolds /\ ScopesHold
  BY DEF ServerHolds, NoInventedServer, ScopesHold, ScopesByPriority
<1>5. WalkHolds
  <2>1. Len(Candidates) \in Nat
    BY CandidatesAreASequence, LenProperties DEF Candidates
  <2>2. asked \in Seq(ToSet(Candidates) \X Outcome) /\ Len(asked) = 0
    BY EmptySeq
  <2> QED
    BY <2>1, <2>2 DEF WalkHolds
<1> QED
  BY <1>1, <1>2, <1>3, <1>4, <1>5 DEF StartupInv

LEMMA StartupInvariant == Spec => []StartupInv
<1>1. StartupInv /\ [Next]_vars => StartupInv'
  BY UpdateStep, StageStep, ValidatedStep, StaticStep, ServerStep, ScopesStep, WalkStep, KeyStep,
     FilterStep
     DEF StartupInv, UpdateTypes
<1> QED
  BY <1>1, StartupInit, PTL DEF Spec

\* Every variable keeps its type, and a proxy that serves has a client and a
\* filter.
THEOREM TypeCorrect == Spec => []TypeOK
<1>1. StartupInv => TypeOK
  BY DEF StartupInv, UpdateTypes, StageTypes, TypeOK
<1> QED
  BY <1>1, StartupInvariant, PTL

\* However often a launch updates and restarts itself, no server and no
\* audience is spoken to in the clear unless the user asked for it.
THEOREM NothingInTheClear == Spec => []NoCleartext
<1>1. StartupInv => NoCleartext
  BY ValidatedMeansNoCleartext DEF StartupInv, UpdateTypes
<1> QED
  BY <1>1, StartupInvariant, PTL

\* Every way through the updater's wrappers, an exec included, gives standard
\* output back to the client.
THEOREM StdoutIsTheClients == Spec => []ProtocolOwnsStdout
<1>1. StartupInv => ProtocolOwnsStdout
  BY WhereSilenceStands DEF StartupInv, UpdateTypes, UpdateHolds, ProtocolOwnsStdout
<1> QED
  BY <1>1, StartupInvariant, PTL

\* A later launch finds the cached credential of this one exactly when it
\* names the same server and the same resource, however they are spelled.
THEOREM KeyIsTheServers == Spec => []KeyNamesTheServer
<1>1. StartupInv => KeyNamesTheServer
  BY KeyMeansKeyNamesTheServer DEF StartupInv, UpdateTypes
<1> QED
  BY <1>1, StartupInvariant, PTL

\* A supplied Authorization header keeps OAuth out, whatever its value.
THEOREM StaticCredentialWins == Spec => []StaticCredentialDecides
<1>1. StartupInv => StaticCredentialDecides
  BY DEF StartupInv, StaticHolds, IsStatic, StaticCredentialDecides
<1> QED
  BY <1>1, StartupInvariant, PTL

\* The candidates are asked in order, one after the other, until a document.
THEOREM WalkEndsAtFirstDocument == Spec => []FirstDocumentDecides
<1>1. StartupInv => FirstDocumentDecides
  BY WalkMeansFirstDocumentDecides DEF StartupInv
<1> QED
  BY <1>1, StartupInvariant, PTL

\* An OAuth flow is begun only against a server somebody named.
THEOREM ServerIsNamed == Spec => []NoInventedServer
<1>1. StartupInv => NoInventedServer
  BY DEF StartupInv, ServerHolds
<1> QED
  BY <1>1, StartupInvariant, PTL

\* --scope, the challenge, the document: the first that says anything.
THEOREM ScopesComeByPriority == Spec => []ScopesByPriority
<1>1. StartupInv => ScopesByPriority
  BY DEF StartupInv, ScopesHold
<1> QED
  BY <1>1, StartupInvariant, PTL

\* The filter that serves lets through what the flags describe: in a listing
\* and in a call, for every list of patterns and whatever a glob matches.
THEOREM FilterIsTheFlags == Spec => []FilterSaysWhatFlagsSay
<1>1. StartupInv => FilterSaysWhatFlagsSay
  BY FilterMeansFilterSaysWhatFlagsSay DEF StartupInv, UpdateTypes
<1> QED
  BY <1>1, StartupInvariant, PTL
=============================================================================
