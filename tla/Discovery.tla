------------------------------ MODULE Discovery ------------------------------
(***************************************************************************)
(* src/auth/discovery.rs: does the remote server want OAuth, and from whom.*)
(*                                                                         *)
(* One probe of the server, then one request per candidate URL of the      *)
(* Protected Resource Metadata, until one of them yields a document.  The  *)
(* server may answer each request as it likes, also two requests for one   *)
(* URL.  A WWW-Authenticate header is the sequence of its parameters; the  *)
(* scheme name is glued to the parameter it stands before.  An absent or   *)
(* undecodable header is <<>>, one that is there is <<items>>.             *)
(***************************************************************************)
EXTENDS Naturals, Sequences, SequencesExt, FiniteSetsExt

CONSTANTS Challenge,  \* the WWW-Authenticate headers a 401 may carry
          Document    \* metadata documents: [servers |-> sequence, scopes |-> sequence]

ASSUME DocumentAssumption == \A doc \in Document : doc.servers \in Seq(ToSet(doc.servers))

VARIABLES
  step,       \* "idle", "probe", "fetch", "none", "required" or "refused"
  challenge,  \* the header of the 401
  remaining,  \* prm_candidates not yet tried
  prm,        \* <<>>, or the document that was found
  oauth,      \* <<>>, or the OAuthDiscovery returned
  asked       \* history: the candidates fetched so far, with what came back

discoveryVars == <<step, challenge, remaining, prm, oauth, asked>>

Settled == {"none", "required", "refused"}

DiscoveryInit ==
  /\ step = "idle" /\ challenge = <<>> /\ remaining = <<>>
  /\ prm = <<>> /\ oauth = <<>> /\ asked = <<>>

-----------------------------------------------------------------------------
(* parse_www_authenticate                                                  *)

\* Only a leading "Bearer " or "bearer " is taken off the header; before any
\* other parameter a scheme name becomes a part of the key.
KeyIs(header, i, key) ==
  /\ header[i].key = key
  /\ \/ header[i].scheme = ""
     \/ i = 1 /\ header[i].scheme \in {"Bearer", "bearer"}

\* <<>>, or the value of the last parameter with this key.
Parameter(header, key) ==
  LET found == {i \in DOMAIN header : KeyIs(header, i, key)}
  IN  IF found = {} THEN <<>> ELSE <<header[Max(found)].value>>

ParseWwwAuthenticate(hdr) ==
  LET header == IF hdr = <<>> THEN <<>> ELSE hdr[1]
  IN  [resourceMetadata |-> Parameter(header, "resource_metadata"),
       scope |-> Parameter(header, "scope")]

-----------------------------------------------------------------------------
(* discover                                                                *)

\* The URLs RFC 9728 prescribes; path is the URL's path without its trailing
\* slashes.
WellKnownPrmUrls(path) == (IF path = <<>> THEN <<>> ELSE <<"well-known/path">>) \o <<"well-known">>

PrmCandidates(hdr, path) == ParseWwwAuthenticate(hdr).resourceMetadata \o WellKnownPrmUrls(path)

\* Authorization is looked for first, which only the message tells.
SuppliedAuthzHeader(headers) == {"authorization", "proxy-authorization"} \cap DOMAIN headers # {}

\* The request is sent; a probe that cannot be made or takes 10 s fails.
Probe ==
  /\ step = "idle" /\ step' = "probe"
  /\ UNCHANGED <<challenge, remaining, prm, oauth, asked>>

\* Faulty variant: a rejected static credential falls back to OAuth.
ProbeUnauthorizedFallback(headers, path, hdr) ==
  /\ step = "probe" /\ step' = "fetch"
  /\ challenge' = hdr
  /\ remaining' = PrmCandidates(hdr, path)
  /\ UNCHANGED <<prm, oauth, asked>>

\* 2xx, 405 and 400: the server is reachable without OAuth.
ProbeReachable ==
  /\ step = "probe" /\ step' = "none"
  /\ UNCHANGED <<challenge, remaining, prm, oauth, asked>>

\* Any other status but 401, and a request that fails.
ProbeUnexpected ==
  /\ step = "probe" /\ step' = "refused"
  /\ UNCHANGED <<challenge, remaining, prm, oauth, asked>>

\* 401: a static credential that was supplied has been rejected.
ProbeUnauthorized(headers, path, hdr) ==
  /\ step = "probe"
  /\ challenge' = hdr
  /\ IF SuppliedAuthzHeader(headers)
     THEN step' = "refused" /\ UNCHANGED remaining
     ELSE step' = "fetch" /\ remaining' = PrmCandidates(hdr, path)
  /\ UNCHANGED <<prm, oauth, asked>>

\* fetch_prm: 4xx is no document; another status, a request that fails or
\* takes 5 s and a document that does not parse are errors.
Fetched(outcome) == asked' = Append(asked, <<Head(remaining), outcome>>)

\* Faulty variant: an error ends the walk.
FetchBrokenBubbles ==
  /\ step = "fetch" /\ remaining # <<>> /\ prm = <<>>
  /\ Fetched("broken")
  /\ step' = "refused"
  /\ UNCHANGED <<challenge, remaining, prm, oauth>>

\* The error is logged and the next candidate tried.
FetchBroken ==
  /\ step = "fetch" /\ remaining # <<>> /\ prm = <<>>
  /\ Fetched("broken")
  /\ remaining' = Tail(remaining)
  /\ UNCHANGED <<step, challenge, prm, oauth>>

FetchAbsent ==
  /\ step = "fetch" /\ remaining # <<>> /\ prm = <<>>
  /\ Fetched("absent")
  /\ remaining' = Tail(remaining)
  /\ UNCHANGED <<step, challenge, prm, oauth>>

\* Whatever the document lists, the walk ends.
FetchDocument(doc) ==
  /\ step = "fetch" /\ remaining # <<>> /\ prm = <<>>
  /\ Fetched("document")
  /\ prm' = <<doc>>
  /\ UNCHANGED <<step, challenge, remaining, oauth>>

\* Header scope over the document's; neither means none.
DiscoveredScopes ==
  LET header == ParseWwwAuthenticate(challenge)
  IN  CASE header.scope # <<>> -> header.scope[1]
        [] header.scope = <<>> /\ prm # <<>> -> prm[1].scopes
        [] OTHER -> <<>>

\* Faulty variant: the server URL is assumed without a challenge, too.
ConcludeAssuming(server) ==
  /\ step = "fetch" /\ (remaining = <<>> \/ prm # <<>>)
  /\ LET listed == IF prm = <<>> THEN <<>> ELSE prm[1].servers
     IN  /\ step' = "required"
         /\ oauth' = <<[authorizationServer |-> IF listed # <<>> THEN listed[1] ELSE server,
                        scopes |-> DiscoveredScopes]>>
  /\ UNCHANGED <<challenge, remaining, prm, asked>>

\* The first listed authorization server, the server itself when it sent a
\* challenge, an error otherwise.
Conclude(server) ==
  /\ step = "fetch" /\ (remaining = <<>> \/ prm # <<>>)
  /\ LET listed == IF prm = <<>> THEN <<>> ELSE prm[1].servers
     IN  IF listed = <<>> /\ challenge = <<>>
         THEN step' = "refused" /\ UNCHANGED oauth
         ELSE /\ step' = "required"
              /\ oauth' = <<[authorizationServer |-> IF listed # <<>> THEN listed[1] ELSE server,
                             scopes |-> DiscoveredScopes]>>
  /\ UNCHANGED <<challenge, remaining, prm, asked>>

\* Everything after the call of discover, for one server.
Discover(headers, path, server) ==
  \/ Probe \/ ProbeReachable \/ ProbeUnexpected
  \/ \E hdr \in Challenge : ProbeUnauthorized(headers, path, hdr)
  \/ FetchBroken \/ FetchAbsent
  \/ \E doc \in Document : FetchDocument(doc)
  \/ Conclude(server)
=============================================================================
