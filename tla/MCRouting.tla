----------------------------- MODULE MCRouting -----------------------------
(***************************************************************************)
(* An instance of Routing for TLC.                                         *)
(***************************************************************************)
EXTENDS Routing

\* example.com, x.example.com, y.example.com, www.x.example.com, other.org and three addresses.
TheLabels == [h \in {"e", "x", "y", "w", "o", "i1", "i2", "i3"} |->
  CASE h = "e" -> <<"e">> [] h = "x" -> <<"x", "e">>
    [] h = "y" -> <<"y", "e">> [] h = "w" -> <<"w", "x", "e">>
    [] OTHER -> <<h>>]
TheLength == [h \in DOMAIN TheLabels |->
  CASE h = "e" -> 11 [] h \in {"x", "y"} -> 13 [] h = "w" -> 17 [] OTHER -> 9]
TheNetworks == [n \in {"wide", "narrow"} |->
  IF n = "wide" THEN {"i1", "i2", "i3"} ELSE {"i1", "i2"}]

Text(scheme, rest) == [scheme |-> scheme, rest |-> rest]
On(scheme, host, port, pieces) == Text(scheme, <<Empty, Empty, <<host, port>> >> \o pieces)
Pieces == {Empty, Dot, DotDot, Seg("a")}
Sequences(S, lengths) == UNION {[1..n -> S] : n \in lengths}

\* Relative texts of up to three pieces, absolute ones with a path, locations with
\* another scheme, a port, or a scheme and no host.
PathTexts ==
  {Text("", p) : p \in Sequences(Pieces, 1..3)}
  \cup {On("https", "e", None, p) : p \in Sequences(Pieces, 0..3)}
  \cup {Text("http", p) : p \in Sequences({Empty, Seg("a")}, 1..4)}
  \cup {On("", "x", None, <<Seg("a")>>), On("https", "x", 443, <<>>),
        On("http", "x", 8000, <<>>)}

\* Every host by three schemes and two ports.
HostTexts ==
  {On(s, h, port, <<>>) : s \in {"http", "https", "ws"}, h \in DOMAIN TheLabels \ {"o"},
                          port \in {None, 8000}}

TheTexts == [kind \in {"paths", "hosts"} |-> IF kind = "paths" THEN PathTexts ELSE HostTexts]

TheBases == {Text("", <<Empty>>), On("https", "e", 8000, <<Seg("a")>>),
             On("http", "o", None, <<Seg("a"), Empty>>)}

ThePatterns ==
  {Pattern(s, "any", "", p) : s \in {"all", "http", "https"}, p \in {None, 8000}}
  \cup {Pattern(s, k, h, None) : s \in {"all", "https"},
                                 k \in {"exact", "sub", "domain"}, h \in {"e", "x"}}
  \cup {Pattern("https", "exact", "e", 443), Pattern("all", "exact", "e", 8000),
        Pattern("all", "exact", "i1", None), Pattern("all", "net", "wide", None),
        Pattern("all", "net", "narrow", None), Pattern("all", "any", "*", None),
        Pattern("ws", "any", "", None), Pattern("ws", "exact", "e", 80)}

TheMounts ==
  {<<Mount(p, "first"), Mount(q, "second")>> : <<p, q>> \in
     {pair \in ThePatterns \X ThePatterns : pair[1] # pair[2]}}

\* One entry of every form, with a scheme or a port; two that meet; the proxy's own pattern.
Entry(form, scheme, host, port) ==
  [form |-> form, scheme |-> scheme, host |-> host, port |-> port]
Off == Entry("star", "all", "", None)
TheEntries ==
  {Off, Entry("ignored", "all", "", None)}
  \cup {Entry("name", "all", "e", p) : p \in {None, 443, 8000}}
  \cup {Entry("dot", "all", "e", None), Entry("address", "all", "i1", None),
        Entry("address", "all", "i1", 8000), Entry("network", "all", "narrow", None)}
  \cup {Entry("any", s, h, p) : s \in {"all", "https"}, h \in {"", "*"}, p \in {None, 443, 8000}}
  \cup {Entry("exact", "http", "e", None), Entry("exact", "https", "e", 443),
        Entry("sub", "https", "e", None), Entry("domain", "all", "x", None),
        Entry("net", "http", "wide", None)}
TheEnvironments ==
  [schemes : {{"http"}, {"https", "all"}},
   noProxy : {<<>>} \cup [1..1 -> TheEntries]
             \cup {<<Entry("dot", "all", "x", None), Entry("address", "all", "i2", None)>>,
                   <<Entry("ignored", "all", "", None), Entry("exact", "https", "x", None)>>,
                   <<Entry("name", "all", "e", None), Off>>}]

\* A mount of the user's alone, over the environment's by the same pattern, or beside it.
OwnMounts ==
  {<<Mount(Pattern("all", "exact", "w", None), "own")>>,
   <<Mount(Pattern("https", "any", "", None), "own")>>,
   <<Mount(Pattern("all", "domain", "e", None), "own"), Mount(Pattern("all", "any", "", None), "own")>>}

\* Paths on a client without mounts; mounts, the environment's and both with every host.
TheClients ==
  [base : TheBases, mounts : {<<>>}, environment : {NoEnvironment}, texts : {"paths"}]
  \cup [base : {Text("", <<Empty>>)}, mounts : TheMounts, environment : {NoEnvironment},
        texts : {"hosts"}]
  \cup [base : {Text("", <<Empty>>)}, mounts : {<<>>} \cup OwnMounts,
        environment : TheEnvironments, texts : {"hosts"}]

=============================================================================
