------------------------------- MODULE Mounts -------------------------------
(***************************************************************************)
(* Which transport a client uses for a URL: the patterns its proxies and   *)
(* mounts are registered under, what they match and in which order they    *)
(* are tried, and the patterns the environment's proxy settings give.      *)
(***************************************************************************)
EXTENDS Urls, FiniteSets

CONSTANTS
  Labels,   \* host -> the labels of its name
  Length,   \* host -> the characters of its name
  Networks  \* network -> the addresses in it

ASSUME MountAssumption ==
  /\ \A host \in DOMAIN Labels : Length[host] \in Nat
  /\ \A network \in DOMAIN Networks : IsFiniteSet(Networks[network])

Wildcards == {"sub", "domain"}  \* "*.example.com", "*example.com"

\* URLPattern as it is written, which is what its __eq__ and __hash__ compare: "https://e:443"
\* and "https://e" are two keys, and so are "all://" and "all://*".
Pattern(scheme, kind, host, port) ==
  [scheme |-> scheme, kind |-> kind, host |-> host, port |-> port]

\* Like any URL a pattern loses the default port of its scheme.
PortOf(p) == NormalizePort(p.port, p.scheme)

MatchesHost(p, host) ==
  CASE p.kind = "any"    -> TRUE
    [] p.kind = "exact"  -> host = p.host
    [] p.kind = "sub"    -> IsStrictSuffix(Labels[p.host], Labels[host])
    [] p.kind = "domain" -> IsSuffix(Labels[p.host], Labels[host])
    [] p.kind = "net"    -> host \in Networks[p.host]

Matches(p, u) ==
  /\ p.scheme = "all" \/ p.scheme = u.scheme
  /\ MatchesHost(p, u.host)
  /\ PortOf(p) = None \/ PortOf(p) = u.port

\* The characters of the host in the pattern, the star included.
HostLength(p) ==
  CASE p.kind = "any" -> 0
    [] p.kind = "sub" -> Length[p.host] + 2
    [] p.kind = "domain" -> Length[p.host] + 1
    [] OTHER -> Length[p.host]

Schemes == {"all", "http", "https", "ws", "wss"}

\* "all" stands for no scheme.
SchemeLength(scheme) ==
  CASE scheme = "all" -> 0 [] scheme = "ws" -> 2 [] scheme = "wss" -> 3
    [] scheme = "http" -> 4 [] scheme = "https" -> 5

\* The same with the shortest host first (a variant).
PriorityShortest(p) ==
  << IF PortOf(p) # None THEN 0 ELSE 1,
     CASE p.kind = "net" -> 1 [] p.kind = "any" -> 2 [] OTHER -> 0,
     IF p.kind = "net" THEN Cardinality(Networks[p.host]) ELSE 0,
     IF p.kind = "net" THEN 0 ELSE HostLength(p),
     -SchemeLength(p.scheme) >>

\* URLPattern.priority
Priority(p) ==
  << IF PortOf(p) # None THEN 0 ELSE 1,
     CASE p.kind = "net" -> 1 [] p.kind = "any" -> 2 [] OTHER -> 0,
     IF p.kind = "net" THEN Cardinality(Networks[p.host]) ELSE 0,
     IF p.kind = "net" THEN 0 ELSE -HostLength(p),
     -SchemeLength(p.scheme) >>

Before(p, q) ==
  \E k \in 1..5 : /\ Priority(p)[k] < Priority(q)[k]
                  /\ \A j \in 1..(k - 1) : Priority(p)[j] = Priority(q)[j]

Fit(mounts, u) == {i \in DOMAIN mounts : Matches(mounts[i].pattern, u)}

\* The first pattern that matches, in the sorted order; the sort is stable.
Chosen(mounts, u) ==
  LET fit == Fit(mounts, u)
  IN  IF fit = {} THEN None
      ELSE mounts[CHOOSE i \in fit :
             \A j \in fit \ {i} :
               \/ Before(mounts[i].pattern, mounts[j].pattern)
               \/ ~Before(mounts[j].pattern, mounts[i].pattern) /\ i < j]

Direct == "direct"
TransportForUrl(mounts, u) ==
  IF Fit(mounts, u) = {} THEN Direct ELSE Chosen(mounts, u).transport

Mount(pattern, transport) == [pattern |-> pattern, transport |-> transport]

\* Client._mounts before it is sorted: a key stays where it was first written, with the
\* value that was written last.
DictOf(writes) ==
  [i \in {i \in DOMAIN writes : \A j \in 1..(i - 1) : writes[j].pattern # writes[i].pattern} |->
     writes[CHOOSE j \in DOMAIN writes :
              /\ writes[j].pattern = writes[i].pattern
              /\ \A k \in (j + 1)..Len(writes) : writes[k].pattern # writes[i].pattern]]

\* The same taking a name for itself only (a variant).
ExemptionOfHost(entry) ==
  Pattern(entry.scheme,
          CASE entry.form = "dot" -> "sub" [] entry.form = "network" -> "net"
            [] entry.form \in {"name", "address"} -> "exact"
            [] OTHER -> entry.form,
          entry.host, entry.port)

\* An entry of NO_PROXY: "google.com" stands for its subdomains too, ".google.com" or
\* "*.google.com" for them only; addresses and localhost stand for themselves; what is
\* written with a scheme is a pattern already, its form the kind of its host.
Exemption(entry) ==
  Pattern(entry.scheme,
          CASE entry.form = "name" -> "domain" [] entry.form = "dot" -> "sub"
            [] entry.form = "network" -> "net" [] entry.form = "address" -> "exact"
            [] OTHER -> entry.form,
          entry.host, entry.port)

\* get_environment_proxies: HTTP_PROXY, HTTPS_PROXY, ALL_PROXY, NO_PROXY.  Names with a slash
\* and what cannot be parsed as a pattern are ignored; one "*" turns everything off.
EnvironmentMounts(schemes, noProxy) ==
  IF \E k \in DOMAIN noProxy : noProxy[k].form = "star" THEN <<>>
  ELSE LET all == <<"http", "https", "all">>
           proxied == Selected(all, {k \in 1..3 : all[k] \in schemes})
           read == Selected(noProxy, {k \in DOMAIN noProxy : noProxy[k].form # "ignored"})
       IN  [k \in DOMAIN proxied |-> Mount(Pattern(proxied[k], "any", "", None), "proxy")]
             \o [k \in DOMAIN read |-> Mount(Exemption(read[k]), Direct)]

=============================================================================
