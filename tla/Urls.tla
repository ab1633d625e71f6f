-------------------------------- MODULE Urls --------------------------------
(***************************************************************************)
(* What urlparse, the URL class and the client's redirect code do with the *)
(* parts of a URL that decide where a request goes: scheme, host, port and *)
(* path.  Quoting, user information, query and fragment are left out.      *)
(*                                                                         *)
(* The text of a URL is its scheme and what follows it cut at the slashes: *)
(* "http://e:81/a/" is [scheme |-> "http", rest |-> <<"", "", e:81, "a",   *)
(* "">>], where each piece is a pair of a name and a port or None.  That   *)
(* "//" begins an authority is thus a matter of reading the pieces again,  *)
(* as it is in the code.                                                   *)
(***************************************************************************)
EXTENDS Integers, SequencesExt, Positions

CONSTANTS
  None,    \* no port, no URL
  Invalid  \* InvalidURL

\* STRING; the three words are named because the prover knows no member of STRING.
Word == STRING \cup {"", ".", ".."}
Port == Nat \cup {None}
Piece == Word \X Port
WrittenURL == [scheme : Word, rest : Seq(Piece) \ {<<>>}]
URL == [scheme : Word, host : Word, port : Port, path : Seq(Piece) \ {<<>>}]

ASSUME UrlAssumption == None \notin URL /\ Invalid \notin URL

Seg(name) == <<name, None>>
Empty == Seg("")
Dot == Seg(".")
DotDot == Seg("..")

DefaultPort(scheme) ==
  CASE scheme \in {"http", "ws"} -> 80
    [] scheme \in {"https", "wss"} -> 443
    [] scheme = "ftp" -> 21
    [] OTHER -> None

NormalizePort(port, scheme) == IF port = DefaultPort(scheme) THEN None ELSE port

-----------------------------------------------------------------------------
(***************************************************************************)
(* Paths, as pieces between slashes: "" is <<"">>, "/" is <<"", "">>.      *)
(***************************************************************************)
Rooted(path) == Len(path) > 1 /\ path[1] = Empty
TwoSlashes(path) == Len(path) > 2 /\ path[1] = Empty /\ path[2] = Empty

\* One piece for urllib.parse.urljoin: "." is dropped, ".." takes the piece before it.
Climb(output, piece) ==
  IF piece = Dot THEN output
  ELSE IF piece # DotDot THEN Append(output, piece)
  ELSE IF output = <<>> THEN output
  ELSE Front(output)

\* One piece for httpx: the root is never taken.
Descend(output, piece) ==
  IF piece = Dot THEN output
  ELSE IF piece # DotDot THEN Append(output, piece)
  ELSE IF output \in {<<>>, <<Empty>>} THEN output
  ELSE Front(output)

\* "/".join of no pieces is "", as of one that is empty.
Joined(pieces) == IF pieces = <<>> THEN <<Empty>> ELSE pieces

NormalizePath(path) == Joined(FoldLeft(Descend, <<>>, path))

ValidPath(path, hasScheme, hasAuthority) ==
  /\ hasAuthority => path = <<Empty>> \/ Rooted(path)
  /\ ~hasScheme /\ ~hasAuthority => ~TwoSlashes(path)

-----------------------------------------------------------------------------
(***************************************************************************)
(* Reading and printing.                                                   *)
(***************************************************************************)
\* The same with paths that do not fit what they follow (a variant).
ComposeUnvalidated(scheme, host, port, path) ==
  LET p == NormalizePort(port, scheme)
  IN  [scheme |-> scheme, host |-> host, port |-> p,
       path |-> IF scheme # "" \/ host # "" \/ p # None THEN NormalizePath(path) ELSE path]

\* The end of urlparse: normalize and validate each component.
Compose(scheme, host, port, path) ==
  LET p == NormalizePort(port, scheme)
      hasScheme == scheme # ""
      hasAuthority == host # "" \/ p # None
  IN  IF ~ValidPath(path, hasScheme, hasAuthority) THEN Invalid
      ELSE [scheme |-> scheme, host |-> host, port |-> p,
            path |-> IF hasScheme \/ hasAuthority THEN NormalizePath(path) ELSE path]

Parse(text) ==
  LET r == text.rest
      hasAuthority == TwoSlashes(r)
  IN  IF hasAuthority
      THEN Compose(text.scheme, r[3][1], r[3][2], <<Empty>> \o SubSeq(r, 4, Len(r)))
      ELSE Compose(text.scheme, "", None, r)

Authority(host, port) ==
  IF host = "" /\ port = None THEN <<>> ELSE <<Empty, Empty, <<host, port>> >>

\* Written after an authority, the root of the path is the slash itself.
After(authority, path) == IF authority = <<>> THEN path ELSE authority \o Tail(path)

Str(u) == [scheme |-> u.scheme, rest |-> After(Authority(u.host, u.port), u.path)]

IsAbsolute(u) == u.scheme # "" /\ u.host # ""

\* What is sent as the target: "/" for no path.
RawPath(u) == IF u.path = <<Empty>> THEN <<Empty, Empty>> ELSE u.path

CopyWithPath(u, path) == Compose(u.scheme, u.host, u.port, path)
CopyWithHost(u, host) == Compose(u.scheme, host, u.port, u.path)

-----------------------------------------------------------------------------
(***************************************************************************)
(* The client: base URL, relative locations.                               *)
(***************************************************************************)
EnforceTrailingSlash(u) ==
  IF Last(RawPath(u)) = Empty THEN u ELSE CopyWithPath(u, Append(RawPath(u), Empty))

\* lstrip("/")
Strip(path) ==
  LET k == CHOOSE k \in DOMAIN path :
             /\ k = Len(path) \/ path[k] # Empty
             /\ \A j \in 1..(k - 1) : path[j] = Empty
  IN  SubSeq(path, k, Len(path))

\* The base's raw path ends with a slash; what follows is the relative one.
MergedPath(base, u) == Front(RawPath(base)) \o Strip(RawPath(u))

MergeUrl(base, u) ==
  IF IsAbsolute(u) THEN u ELSE CopyWithPath(base, MergedPath(base, u))

\* urllib.parse.urljoin: the path of a reference without a scheme.
Resolve(basePath, path) ==
  LET directory == IF Last(basePath) = Empty THEN basePath ELSE Front(basePath)
      all == directory \o path
      inner == Selected(all, {k \in 2..(Len(all) - 1) : all[k] # Empty})
      segments == IF Rooted(path) THEN path ELSE <<all[1]>> \o inner \o <<Last(all)>>
      resolved == FoldLeft(Climb, <<>>, segments)
      closed == IF Last(segments) \in {Dot, DotDot} THEN Append(resolved, Empty) ELSE resolved
  IN  CASE closed \in {<<>>, <<Empty>>} -> <<Empty, Empty>>
        [] Rooted(closed) -> closed
        [] OTHER -> <<Empty>> \o closed

Join(base, u) ==
  IF u.scheme \notin {"", base.scheme} THEN Parse(Str(u))
  ELSE IF Authority(u.host, u.port) # <<>>
  THEN Parse([scheme |-> base.scheme, rest |-> Str(u).rest])
  ELSE Parse([scheme |-> base.scheme,
              rest |-> After(Authority(base.host, base.port),
                             IF u.path = <<Empty>> THEN base.path
                             ELSE Resolve(base.path, u.path))])

\* _redirect_url: a location with a scheme and no host is given the request's host; one that
\* is relative, after that too, is joined to the request's URL.
RedirectUrl(request, u) ==
  IF u = Invalid THEN Invalid
  ELSE LET named == IF u.scheme # "" /\ u.host = "" THEN CopyWithHost(u, request.host) ELSE u
       IN  IF named = Invalid \/ IsAbsolute(named) THEN named ELSE Join(request, named)

=============================================================================
