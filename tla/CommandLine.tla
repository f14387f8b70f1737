----------------------------- MODULE CommandLine -----------------------------
(***************************************************************************)
(* src/cli.rs, src/headers.rs, src/session.rs, src/filter.rs: what the     *)
(* program computes from its arguments before it talks to anybody.         *)
(*                                                                         *)
(* A URL is a record of its parts.  A path is the sequence of its          *)
(* segments: "/mcp" is <<"mcp">>, "/mcp/" is <<"mcp", "">>, "/" is <<"">>  *)
(* and the path nobody typed is <<>>.  "typed" says whether it was written *)
(* in lower case, in capitals or between spaces.  Optional values are      *)
(* sequences of length at most one.                                        *)
(***************************************************************************)
EXTENDS Naturals, Sequences, SequencesExt, FiniteSetsExt

CONSTANT Matches(_, _)    \* globset: whether a glob matches a tool name

\* What a parsed or a refused list of arguments is.
Refused == [ok |-> FALSE]
Parsed(value) == [ok |-> TRUE, value |-> value]

-----------------------------------------------------------------------------
(* URLs (the url crate) and the identity of the cached credential          *)

DefaultPort(scheme) == CASE scheme = "http" -> 80 [] scheme = "https" -> 443 [] OTHER -> 0

\* What Url::parse makes of it: case and blanks are gone, a default port is
\* dropped and an empty path is the root.
UrlParse(raw) ==
  [scheme |-> raw.scheme, host |-> raw.host,
   port |-> IF raw.port = DefaultPort(raw.scheme) THEN 0 ELSE raw.port,
   path |-> IF raw.path = <<>> THEN <<"">> ELSE raw.path,
   query |-> raw.query, fragment |-> raw.fragment]

\* trim_end_matches('/') on a path.
TrimSlashes(path) == SubSeq(path, 1, Max({0} \cup {i \in DOMAIN path : path[i] # ""}))

\* Faulty variant: the path is taken as it was typed.
NormalizedAsTyped(raw) == [UrlParse(raw) EXCEPT !.query = FALSE, !.fragment = FALSE]

NormalizeServerUrl(raw) ==
  LET u == UrlParse(raw)
      trimmed == TrimSlashes(u.path)
  IN  [u EXCEPT !.query = FALSE, !.fragment = FALSE,
                !.port = IF @ = DefaultPort(u.scheme) THEN 0 ELSE @,
                !.path = IF trimmed = <<>> THEN <<"">> ELSE trimmed]

\* The digest is taken to be injective on the pair it is fed.  clap has
\* already parsed the resource, which is not normalized any further.
CredentialKey(raw, resource) ==
  <<NormalizeServerUrl(raw), [i \in DOMAIN resource |-> UrlParse(resource[i])]>>

-----------------------------------------------------------------------------
(* Cli::validate                                                           *)

\* host_str() of an IPv6 address has brackets, so that "::1" never occurs.
IsLoopback(u) == u.host \in {"localhost", "127.0.0.1", "::1"}

CheckHttpScheme(cli, raw) ==
  /\ raw.scheme = "http" => IsLoopback(raw) \/ cli.allowHttp
  /\ raw.scheme \in {"http", "https"}

\* Faulty variant: the scheme policy is applied to the server URL only.
ValidateServerOnly(cli) ==
  /\ cli.serverUrl # <<>>
  /\ cli.serverUrl[1].valid /\ CheckHttpScheme(cli, cli.serverUrl[1])
  /\ \A i \in DOMAIN cli.resource : ~cli.resource[i].fragment
  /\ cli.pingInterval # 0 => cli.pingTimeout # 0

\* A server URL that is "" is missing; one that does not parse is refused.
Validate(cli) ==
  /\ cli.serverUrl # <<>>
  /\ cli.serverUrl[1].valid /\ CheckHttpScheme(cli, cli.serverUrl[1])
  /\ \A i \in DOMAIN cli.resource :
       ~cli.resource[i].fragment /\ CheckHttpScheme(cli, cli.resource[i])
  /\ cli.pingInterval # 0 => cli.pingTimeout # 0

-----------------------------------------------------------------------------
(* headers::parse.  An entry has a colon or not, a name and a value; a     *)
(* value is a sequence of pieces, each a text, a variable between braces   *)
(* or an opening brace that is never closed.  A text is a sequence of      *)
(* characters, of which "ctl" may not stand in a header.                   *)

\* The value of a piece; an unknown variable is the empty text.
ExpandPiece(piece, env) ==
  CASE piece.kind = "text" -> piece.text
    [] piece.kind = "var"  -> IF piece.var \in DOMAIN env THEN env[piece.var] ELSE <<>>
    [] piece.kind = "open" -> <<"$", "{">> \o piece.text

ExpandEnvVars(value, env) == FlattenSeq([i \in DOMAIN value |-> ExpandPiece(value[i], env)])

\* HeaderName is case-insensitive; the names used here, by their lower case.
HeaderName(name) ==
  CASE name \in {"Authorization", "AUTHORIZATION"} -> "authorization"
    [] name = "Proxy-Authorization" -> "proxy-authorization"
    [] OTHER -> name

EntryIsValid(entry, env) ==
  /\ entry.colon /\ entry.name \notin {"", "bad name"}
  /\ "ctl" \notin ToSet(ExpandEnvVars(entry.value, env))

\* The map is keyed by the canonical name and the last entry wins.
ParseHeaders(entries, env) ==
  IF \E i \in DOMAIN entries : ~EntryIsValid(entries[i], env) THEN Refused
  ELSE Parsed([n \in {HeaderName(entries[i].name) : i \in DOMAIN entries} |->
                 LET last == Max({i \in DOMAIN entries : HeaderName(entries[i].name) = n})
                 IN  ExpandEnvVars(entries[last].value, env)])

-----------------------------------------------------------------------------
(* ToolFilter.  A value of a flag is the sequence of the pieces between    *)
(* its commas: "" is a blank one and "bad" a glob that does not compile.   *)

\* No set at all when there is no pattern.
BuildSet(values) ==
  LET pieces == ToSet(FlattenSeq(values)) \ {""}
  IN  IF "bad" \in pieces THEN Refused
      ELSE Parsed(IF pieces = {} THEN <<>> ELSE <<pieces>>)

FromCli(allow, deny) ==
  LET a == BuildSet(allow)
      d == BuildSet(deny)
  IN  IF ~a.ok \/ ~d.ok THEN Refused
      ELSE Parsed([allow |-> a.value,
                   deny |-> IF d.value = <<>> THEN {} ELSE d.value[1],
                   noop |-> a.value = <<>> /\ d.value = <<>>])

IsMatch(globs, name) == \E g \in globs : Matches(g, name)

\* Faulty variant: the deny list is consulted only when there is no allow list.
PermitsAllowFirst(filter, name) ==
  IF filter.allow # <<>> THEN IsMatch(filter.allow[1], name) ELSE ~IsMatch(filter.deny, name)

Permits(filter, name) ==
  \/ filter.noop
  \/ /\ \A i \in DOMAIN filter.allow : IsMatch(filter.allow[i], name)
     /\ ~IsMatch(filter.deny, name)

\* A page of tools/list, and what tools/call lets through.
FilterPage(filter, tools) ==
  IF filter.noop THEN tools
  ELSE FlattenSeq([i \in DOMAIN tools |-> IF Permits(filter, tools[i]) THEN <<tools[i]>> ELSE <<>>])
EnforceToolFilter(filter, tool) == Permits(filter, tool)
=============================================================================
