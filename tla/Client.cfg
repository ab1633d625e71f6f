\* Two tasks share the client; one redirect is followed, two challenges.
SPECIFICATION Spec
CONSTANTS
  Modes = {"tasks"}
  Senders = {"main", "side"}
  Calls <- TheCalls
  Answers <- ServerAnswers
  None = None
  Invalid = Invalid
  MaxRedirects = 1
  MaxNonces = 2
INVARIANTS NoLeak HistoryReadable AuthorizationScoped BodyWhole RequestsBounded NonceCountsFresh
PROPERTIES StaysClosed
CHECK_DEADLOCK FALSE
