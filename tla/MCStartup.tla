------------------------------ MODULE MCStartup ------------------------------
(* TLC instance of Startup: command lines, challenges and documents.       *)
EXTENDS Startup

MCMatches(glob, tool) ==
  tool \in CASE glob = "read_*"  -> {"read_file", "read_secret"}
             [] glob = "*_secret" -> {"read_secret", "write_secret"}
             [] glob = "nothing" -> {}

-----------------------------------------------------------------------------
(* URLs: the spellings of two servers, and those validation turns down.    *)

Https == [valid |-> TRUE, scheme |-> "https", host |-> "example.com", port |-> 0,
          path |-> <<"mcp">>, query |-> FALSE, fragment |-> FALSE, typed |-> "plain"]

Spellings ==
  {Https, [Https EXCEPT !.typed = "capitals"], [Https EXCEPT !.typed = "padded"],
   [Https EXCEPT !.port = 443], [Https EXCEPT !.path = <<"mcp", "">>],
   [Https EXCEPT !.path = <<"mcp", "", "">>, !.port = 443], [Https EXCEPT !.query = TRUE],
   [Https EXCEPT !.fragment = TRUE]}

Others ==
  {[Https EXCEPT !.port = 80], [Https EXCEPT !.path = <<>>], [Https EXCEPT !.path = <<"">>],
   [Https EXCEPT !.path = <<"", "">>], [Https EXCEPT !.path = <<"mcp", "v1">>],
   [Https EXCEPT !.scheme = "http"], [Https EXCEPT !.scheme = "http", !.port = 80],
   [Https EXCEPT !.scheme = "http", !.port = 443],
   [Https EXCEPT !.scheme = "http", !.host = "localhost"],
   [Https EXCEPT !.scheme = "http", !.host = "[::1]"],
   [Https EXCEPT !.scheme = "ftp"], [Https EXCEPT !.valid = FALSE]}

Resources ==
  {<<>>, <<Https>>, <<[Https EXCEPT !.path = <<"mcp", "">>]>>, <<[Https EXCEPT !.path = <<"tenant">>]>>,
   <<[Https EXCEPT !.fragment = TRUE]>>, <<[Https EXCEPT !.scheme = "http"]>>}

-----------------------------------------------------------------------------
Plain ==
  [serverUrl |-> <<Https>>, resource |-> <<>>, allowHttp |-> FALSE,
   pingInterval |-> 60, pingTimeout |-> 10, update |-> FALSE, verbose |-> FALSE,
   noAuth |-> FALSE, headers |-> <<>>, scope |-> <<>>, allow |-> <<>>, deny |-> <<>>,
   env |-> [TOKEN |-> <<"t">>, BROKEN |-> <<"ctl">>], guard |-> FALSE, os |-> "posix",
   tools |-> <<"read_file", "read_secret", "write_secret">>]

Targets ==
  {[Plain EXCEPT !.serverUrl = url, !.resource = r, !.allowHttp = a, !.noAuth = TRUE] :
     url \in {<<u>> : u \in Spellings \cup Others}, r \in Resources, a \in BOOLEAN}
Pings ==
  {[Plain EXCEPT !.pingInterval = i, !.pingTimeout = t, !.noAuth = TRUE] : i \in {0, 60}, t \in {0, 10}}

Updates ==
  {[Plain EXCEPT !.update = TRUE, !.verbose = v, !.guard = g, !.os = o, !.serverUrl = url, !.noAuth = TRUE] :
     v \in BOOLEAN, g \in BOOLEAN, o \in {"posix", "windows"},
     url \in {<<>>, <<Https>>, <<[Https EXCEPT !.scheme = "http"]>>}}

Entry(name, value) == [colon |-> TRUE, name |-> name, value |-> value]
Text(t) == [kind |-> "text", text |-> <<t>>]
Var(v) == [kind |-> "var", var |-> v]
HeaderLists ==
  {<<>>, <<Entry("Authorization", <<Text("t")>>)>>, <<Entry("AUTHORIZATION", <<Var("UNSET")>>)>>,
   <<Entry("Authorization", <<Var("TOKEN")>>), Entry("AUTHORIZATION", <<>>)>>,
   <<Entry("Proxy-Authorization", <<[kind |-> "open", text |-> <<"t">>]>>)>>,
   <<Entry("X-Trace", <<Var("TOKEN")>>)>>, <<Entry("X-Trace", <<Var("BROKEN")>>)>>,
   <<Entry("bad name", <<>>)>>, <<Entry("", <<>>)>>, <<[colon |-> FALSE, name |-> "X-Trace", value |-> <<>>]>>}

\* With a server that answers 401, at a URL with and without a path.
Credentials ==
  {[Plain EXCEPT !.headers = h, !.scope = s, !.serverUrl = <<[Https EXCEPT !.path = p]>>] :
     h \in HeaderLists, s \in {<<>>, <<(<<>>)>>, <<(<<"cli">>)>>}, p \in {<<"mcp">>, <<>>}}

FlagValues ==
  {<<>>, <<(<<"">>)>>, <<(<<"", "read_*">>)>>, <<(<<"nothing">>)>>,
   <<(<<"read_*">>), <<"*_secret", "">> >>, <<(<<"*_secret", "bad">>)>>}
Filters == {[Plain EXCEPT !.allow = a, !.deny = d, !.noAuth = TRUE] : a \in FlagValues, d \in FlagValues}

MCLaunch == Targets \cup Pings \cup Updates \cup Credentials \cup Filters

-----------------------------------------------------------------------------
Item(scheme, k, v) == [scheme |-> scheme, key |-> k, value |-> v]
MCChallenge ==
  {<<>>, <<(<<>>)>>,
   <<(<<Item("Bearer", "error", "e"), Item("", "resource_metadata", "link"), Item("", "scope", <<"said">>)>>)>>,
   <<(<<Item("bearer", "resource_metadata", "link"), Item("", "resource_metadata", "well-known")>>)>>,
   <<(<<Item("Bearer", "scope", <<>>)>>)>>,
   <<(<<Item("Basic", "realm", "r"), Item("Bearer", "resource_metadata", "link"), Item("", "scope", <<"said">>)>>)>>,
   <<(<<Item("BEARER", "resource_metadata", "link")>>)>>}

MCDocument ==
  {[servers |-> s, scopes |-> c] : s \in {<<>>, <<"as1">>, <<"as2", "as1">>}, c \in {<<>>, <<"doc">>}}
=============================================================================
