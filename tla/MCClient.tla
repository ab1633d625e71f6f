------------------------------ MODULE MCClient ------------------------------
(***************************************************************************)
(* Instances of Client for TLC: the calls of two senders that share a      *)
(* client, and what the servers answer.                                    *)
(***************************************************************************)
EXTENDS Client

Plain == [scheme |-> "http", host |-> "a", port |-> 80]
Secure == [scheme |-> "https", host |-> "a", port |-> 443]
OddPort == [scheme |-> "http", host |-> "a", port |-> 8080]
Other == [scheme |-> "https", host |-> "b", port |-> 443]

CallOf(via, method, origin, body, auth, follow) ==
  [via |-> via, method |-> method, origin |-> origin, body |-> body,
   auth |-> auth, userinfo |-> FALSE, follow |-> follow]

\* The same with a user name in the URL.
Named(c) == [c EXCEPT !.userinfo = TRUE]

\* The first sender has bodies, credentials, redirects and an upgrade ...
MainCalls ==
  { CallOf("request", "POST", Plain, "form", "digest", TRUE),
    CallOf("stream", "PUT", Plain, "generator", "digest", TRUE),
    Named(CallOf("request", "POST", OddPort, "iterator", "none", TRUE)),
    CallOf("websocket", "GET", Secure, "none", "basic", FALSE),
    CallOf("request", "PUT", Plain, "foreign", "none", TRUE) }

\* ... the second one uses the same digest credentials.
SideCalls == { CallOf("request", "GET", Other, "none", "digest", FALSE) }

Answer(status, location, kind) ==
  [status |-> status, location |-> location, challenge |-> kind]

ServerAnswers ==
  { Answer(200, None, None), Answer(101, None, None), Answer(302, Other, None),
    Answer(303, None, None), Answer(307, Secure, None), Answer(308, Plain, None),
    Answer(307, Invalid, None), Answer(401, None, "digest"), Answer(401, None, "malformed"),
    Answer(401, None, "unusable"), Answer(401, None, None) }

TheCalls == [s \in Senders |-> IF s = "main" THEN MainCalls ELSE SideCalls]

=============================================================================
