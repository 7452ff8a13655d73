--------------------------- MODULE MCRateLimiter ---------------------------
(***************************************************************************)
(* Instances of RateLimiter for TLC: a route under a limit of its own, by  *)
(* two spellings of its document, and a route under the global limit.      *)
(***************************************************************************)
EXTENDS RateLimiter, TLC

CONSTANTS r1, r2, r3, a1, a2

MCTargets ==
  {<<"POST", <<"documents", "1", "analyses", "7", "retry">>>>,
   <<"POST", <<"documents", "+1", "analyses", "7", "retry">>>>,
   <<"GET", <<"documents", "1", "download">>>>}

\* Three spellings of one document that the routers accept, and another document.
MCDocuments == {"1", "+1", "1.0", "2"}

\* Every route of the API, with two analyses and two users.
MCServed ==
  MCTargets
  \cup {<<"POST", <<"auth", a>>>> : a \in {"login", "refresh", "logout"}}
  \cup {<<"POST", <<"users", "register">>>>, <<"POST", <<"admin", "prompts">>>>}
  \cup {<<"PATCH", <<"admin", "users", u, "status">>>> : u \in {"1", "2"}}
  \cup {<<m, <<"documents">> \o s>> : m \in {"GET", "POST"}, s \in {<<>>, <<"">>}}
  \cup {<<m, <<"documents", d>>>> : m \in {"GET", "DELETE"}, d \in MCDocuments}
  \cup {<<"GET", <<"documents", d, "download">>>> : d \in MCDocuments}
  \cup {<<m, <<"documents", d, "analyses">> \o s>> : m \in {"GET", "POST"}, d \in MCDocuments, s \in {<<>>, <<"">>}}
  \cup {<<"POST", <<"documents", d, "analyses", "8", "retry", "">>>> : d \in MCDocuments}
  \cup {<<m, <<"documents", d, "analyses", a>>>> : m \in {"GET", "DELETE"}, d \in MCDocuments, a \in {"7", "8"}}

MCIds == {"1", "2", "7", "8"}

MCSettings ==
  [login |-> [limit |-> 1, window |-> 1], register |-> [limit |-> 1, window |-> 1],
   documents_post |-> [limit |-> 1, window |-> 1], documents_get |-> [limit |-> 1, window |-> 1],
   analyses_get |-> [limit |-> 1, window |-> 1], analyses_post |-> [limit |-> 1, window |-> 2],
   global |-> [limit |-> 2, window |-> 1]]

\* Evaluated by TLC before it looks for states: the routing has none.
ASSUME RoutingIsRight == RoutesAgree

Symmetry == Permutations(Requests) \cup Permutations(Clients)
=============================================================================
