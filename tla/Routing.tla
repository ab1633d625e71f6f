------------------------------ MODULE Routing ------------------------------
(***************************************************************************)
(* A request on its way through a client: its URL is merged with the base  *)
(* URL, then replaced by the location of each redirect it follows, and     *)
(* every time the transport is chosen anew.                                *)
(***************************************************************************)
EXTENDS Mounts

CONSTANTS
  Texts,   \* the URLs that users and servers write, by kind
  Clients, \* base URL, mounts, proxy settings and the kind of texts
  MaxPath  \* pieces of a path

VARIABLES
  client,   \* one of them
  mounts,   \* Client._mounts, by the place of the key's first insertion
  url,      \* the URL of the request, or None
  asked     \* ghost: the text the user gave, None once a redirect was followed

vars == <<client, mounts, url, asked>>

NoEnvironment == [schemes |-> {}, noProxy |-> <<>>]

Bare == {"name", "dot", "address", "network"}
Kinds == {"any", "exact", "sub", "domain", "net"}

WellFormed(p) ==
  /\ p.scheme \in Schemes
  /\ p.kind \in {"exact", "sub", "domain"} => p.host \in DOMAIN Labels
  /\ p.kind = "any" => p.host \in {"", "*"}
  /\ p.kind = "net" => p.host \in DOMAIN Networks /\ p.port = None

\* The entries of NO_PROXY: "*", a host, network or address with no scheme, a pattern, or
\* something that is ignored.
Entries ==
  {e \in [form : {"star", "ignored"} \cup Bare \cup Kinds, scheme : Schemes, host : STRING,
          port : Port] :
     /\ e.form \in Bare => e.scheme = "all"
     /\ e.form \in Bare \cup Kinds => WellFormed(Exemption(e))}

ASSUME RoutingAssumption ==
  \A c \in Clients :
    /\ c.base \in WrittenURL /\ Parse(c.base) # Invalid
    /\ Texts[c.texts] \subseteq WrittenURL
    /\ \A k \in DOMAIN c.mounts : WellFormed(c.mounts[k].pattern)
    /\ c.environment.schemes \subseteq {"http", "https", "all"}
    /\ c.environment.noProxy \in Seq(Entries)

Base == EnforceTrailingSlash(Parse(client.base))

Init ==
  /\ client \in Clients
  /\ mounts = DictOf(EnvironmentMounts(client.environment.schemes, client.environment.noProxy)
                       \o client.mounts)
  /\ url = None /\ asked = None

Bounded(u) == u # Invalid => Len(u.path) <= MaxPath

\* build_request; a URL without a host is not sent.
BuildRequest(t) ==
  /\ url = None
  /\ LET u == Parse(t)
         merged == IF u = Invalid THEN Invalid ELSE MergeUrl(Base, u)
     IN  /\ merged # Invalid /\ Bounded(merged)
         /\ IsAbsolute(merged)
         /\ url' = merged
  /\ asked' = t
  /\ UNCHANGED <<client, mounts>>

\* _build_redirect_request: an invalid location ends the request.
FollowRedirect(t) ==
  /\ url # None
  /\ LET u == RedirectUrl(url, Parse(t))
     IN  /\ Bounded(u)
         /\ url' = IF u = Invalid THEN None ELSE u
  /\ asked' = None
  /\ UNCHANGED <<client, mounts>>

Next == \E t \in Texts[client.texts] : BuildRequest(t) \/ FollowRedirect(t)

Spec == Init /\ [][Next]_vars

-----------------------------------------------------------------------------
(***************************************************************************)
(* Properties.                                                             *)
(***************************************************************************)
\* _urls.py: URLs are compared, hashed, joined and sent by their text, so reading the
\* text of a request's URL must give the URL back, however it came about.
Canonical == url # None => IsAbsolute(url) /\ Parse(Str(url)) = url

Names(p, a, b) == Cardinality({k \in a..b : p[k] \notin {Dot, DotDot}})
Ups(p, a, b) == Cardinality({k \in a..b : p[k] = DotDot})

\* The piece i of a path is taken back by a later "..".
TakenBack(p, i) ==
  \E j \in (i + 1)..Len(p) :
    /\ Names(p, i, j) = Ups(p, i, j)
    /\ \A m \in i..(j - 1) : Names(p, i, m) > Ups(p, i, m)

\* What a request was asked for, before any normalization.
AskedPath ==
  IF IsAbsolute(Parse(asked)) THEN <<Empty>> \o SubSeq(asked.rest, 4, Len(asked.rest))
  ELSE MergedPath(Base, Parse(asked))

Dots == {Dot, DotDot}

\* RFC 3986, 5.2.4: of the pieces below the root those remain that no ".." takes back, in
\* their order; a "." or ".." at the end leaves a slash.
FinalSlash(path) == IF path[Len(path)] \in Dots THEN <<Empty>> ELSE <<>>
RemoveDotSegments(path) ==
  <<Empty>> \o Selected(path, {i \in 2..Len(path) : path[i] \notin Dots /\ ~TakenBack(path, i)})
    \o FinalSlash(path)

\* normalize_path, which cites the RFC, gives its path less that last slash ("/a/b/.." is "/a",
\* as its docstring says): the client never climbs above the root of the host, nor out of the
\* base URL's path by a leading slash.
PathResolved ==
  url # None /\ asked # None =>
    url.path \o FinalSlash(AskedPath) = RemoveDotSegments(AskedPath)

Everywhere == [scheme : {"http", "https", "ws"}, host : DOMAIN Labels \ {""},
               port : {None, 8000}, path : {<<Empty>>}]
Reach(p) == {u \in Everywhere : Matches(p, u)}

\* The star of a wildcard counts as a character of the host: "*example.com" is tried before
\* "example.com".
StarTips(q, p) ==
  q.kind = "exact" /\ p.kind \in Wildcards /\ HostLength(q) <= HostLength(p)

\* docs/advanced/transports.md: "Matching is done from most specific URL patterns to least
\* specific ones": no other pattern that matches the URL reaches fewer URLs, all of them
\* within reach of the one that is used; a wildcard with at least as many characters as the
\* host (priority, _utils.py) is the exception.  A mount of the user's is not lost to the same
\* pattern in the environment.
MostSpecificMount ==
  url # None /\ Chosen(mounts, url) # None =>
    LET used == Chosen(mounts, url)
    IN  /\ \A i \in DOMAIN mounts :
             LET other == mounts[i].pattern
             IN  Matches(other, url) /\ Reach(other) \subseteq Reach(used.pattern)
                   /\ Reach(other) # Reach(used.pattern) => StarTips(other, used.pattern)
        /\ \A i \in DOMAIN client.mounts :
             client.mounts[i].pattern = used.pattern => client.mounts[i] = used

\* The scheme, the host and the port of an entry are those of the URL, ports without the
\* default one of the scheme.
Named(entry, u) ==
  /\ entry.scheme \in {"all", u.scheme}
  /\ NormalizePort(entry.port, entry.scheme) \in {None, u.port}
  /\ CASE entry.form \in {"name", "domain"} -> IsSuffix(Labels[entry.host], Labels[u.host])
       [] entry.form \in {"dot", "sub"} -> IsStrictSuffix(Labels[entry.host], Labels[u.host])
       [] entry.form \in {"network", "net"} -> u.host \in Networks[entry.host]
       [] entry.form \in {"address", "exact"} -> u.host = entry.host
       [] entry.form = "any" -> TRUE
       [] OTHER -> FALSE

\* The proxy of a scheme yields to an entry with a host or a port, to the entry "https://" of
\* its own and, where it is ALL_PROXY's, to an entry with a scheme; not to "https://*".
YieldsTo(scheme, entry) ==
  \/ entry.form # "any"
  \/ NormalizePort(entry.port, entry.scheme) # None
  \/ entry = [form |-> "any", scheme |-> scheme, host |-> "", port |-> None]
  \/ scheme = "all" /\ entry.scheme # "all"

\* _utils.py, docs/environment_variables.md: with proxies from the environment a request,
\* redirected or not, goes through the proxy of its scheme, or else of all schemes, unless
\* NO_PROXY is off for all or has an entry that names the URL and that the proxy yields to.
NoProxyHonoured ==
  client.environment # NoEnvironment /\ client.mounts = <<>> /\ url # None =>
    LET noProxy == client.environment.noProxy
    IN  (TransportForUrl(mounts, url) = "proxy") =
          (/\ \A k \in DOMAIN noProxy : noProxy[k].form # "star"
           /\ \E s \in client.environment.schemes \cap {url.scheme, "all"} :
                \A k \in DOMAIN noProxy :
                  Named(noProxy[k], url) => ~YieldsTo(s, noProxy[k]))

=============================================================================
