---------------------------- MODULE RateLimiter ----------------------------
(***************************************************************************)
(* The rate limit of the HTTP API: the middleware that maps a request to a *)
(* counter, a limit and a window, and the sliding window kept in Redis as  *)
(* a sorted set of time stamps for each counter.                           *)
(*                                                                         *)
(* A request is stamped, then its pipeline is executed as one transaction, *)
(* then it is answered; other requests come in between, so transactions    *)
(* may be executed out of the order of their stamps.  The clock counts     *)
(* ticks, PerSecond of them in a second; the code's are milliseconds.      *)
(***************************************************************************)
EXTENDS Integers, FiniteSets, Sequences

CONSTANTS
  Requests,   \* requests that may be sent
  Clients,    \* client addresses
  Served,     \* pairs <<method, path>> that the API serves; a path is the sequence of
              \* its segments
  Targets,    \* those of them that requests name
  Ids,        \* the segments that are digits alone, as str.isdigit has it
  Settings,   \* settings.rate_limit: name -> [limit, window], windows in seconds
  PerSecond,  \* ticks in a second
  None,       \* no client, no target
  MaxDelay,   \* bound: ticks between the steps of one request
  MaxTime,    \* bound: the clock
  MaxFaults   \* bound: failures of Redis

\* The fields of RateLimitSettings, a limit and a window for each.
SettingNames == {"login", "register", "documents_post", "documents_get", "analyses_post",
                 "analyses_get", "global"}

ASSUME RequestsAssumption == IsFiniteSet(Requests) /\ None \notin Clients
ASSUME SettingsAssumption ==
  /\ SettingNames \subseteq DOMAIN Settings
  /\ \A s \in SettingNames : Settings[s].limit \in Nat \ {0} /\ Settings[s].window \in Nat \ {0}
ASSUME ClockAssumption == PerSecond \in Nat \ {0} /\ MaxDelay \in Nat /\ MaxTime \in Nat
ASSUME FaultsAssumption == MaxFaults \in Nat
ASSUME TargetsAssumption == Targets \subseteq Served

VARIABLES
  now,      \* the clock
  stamps,   \* the sorted set of each counter: members <<score, request>>
  expiry,   \* when each counter's key expires
  request,  \* what each request has been through
  faults    \* counter for MaxFaults

vars == <<now, stamps, expiry, request, faults>>

-----------------------------------------------------------------------------
(* RateLimitMiddleware: which counter, which limit.                         *)

Empty == ""
DocumentId == "{id}"
AnalysisId == "{analysis_id}"

\* path.rstrip("/"): each trailing slash is an empty last segment.
Strip(path) ==
  SubSeq(path, 1, CHOOSE n \in 0..Len(path) : /\ n > 0 => path[n] # Empty
                                              /\ \A i \in n + 1..Len(path) : path[i] = Empty)

\* _normalize_path: the identifiers under /documents are replaced by their names.
NormalizePath(path) ==
  LET parts == Strip(path) IN
  IF ~ (Len(parts) >= 2 /\ parts[1] = "documents" /\ parts[2] \in Ids) THEN parts
  ELSE IF Len(parts) >= 4 /\ parts[3] = "analyses"
  THEN <<"documents", DocumentId, "analyses", AnalysisId>> \o SubSeq(parts, 5, Len(parts))
  ELSE <<"documents", DocumentId>> \o SubSeq(parts, 3, Len(parts))

Documents == <<"documents">>
Document == <<"documents", DocumentId>>
Analyses == <<"documents", DocumentId, "analyses">>
Analysis == <<"documents", DocumentId, "analyses", AnalysisId>>
Retry == <<"documents", DocumentId, "analyses", AnalysisId, "retry">>

\* _get_limit_and_window: post_map serves DELETE as well; other methods are global.
Setting(method, path) ==
  CASE method \in {"POST", "DELETE"} /\ path = <<"auth", "login">> -> "login"
    [] method \in {"POST", "DELETE"} /\ path = <<"users", "register">> -> "register"
    [] method \in {"POST", "DELETE"} /\ path = Documents -> "documents_post"
    [] method \in {"POST", "DELETE"} /\ path \in {Analyses, Analysis, Retry} -> "analyses_post"
    [] method = "GET" /\ path \in {Documents, Document} -> "documents_get"
    [] method = "GET" /\ path \in {Analyses, Analysis} -> "analyses_get"
    [] OTHER -> "global"

LimitOf(target) == Settings[Setting(target[1], NormalizePath(target[2]))].limit
WindowOf(target) == Settings[Setting(target[1], NormalizePath(target[2]))].window * PerSecond

\* _get_key
Key(target, client) == <<target[1], NormalizePath(target[2]), client>>
Keys == {Key(t, c) : t \in Targets, c \in Clients}

-----------------------------------------------------------------------------
\* A request: its stamp, what its transaction answered (the reset in seconds), and when
\* it was answered with which Retry-After.
NoRequest == [pc |-> "new", client |-> None, target |-> None, at |-> 0, reset |-> 0,
              answered |-> 0, wait |-> 0]

\* Every variable has its type: scores are times that have passed.
TypeOK ==
  /\ now \in 0..MaxTime
  /\ \A k \in Keys : stamps[k] \subseteq (0..now) \X Requests
  /\ \A k \in Keys : expiry[k] \in Nat
  /\ \A r \in Requests :
       /\ request[r].pc \in {"new", "stamped", "rejected", "allowed", "refused", "uncounted"}
       /\ request[r].pc # "new" => request[r].client \in Clients /\ request[r].target \in Targets
       /\ request[r].at \in 0..now /\ request[r].answered \in 0..now
       /\ request[r].reset \in Nat /\ request[r].wait \in Nat
  /\ faults \in 0..MaxFaults

Init ==
  /\ now = 0
  /\ stamps = [k \in Keys |-> {}]
  /\ expiry = [k \in Keys |-> 0]
  /\ request = [r \in Requests |-> NoRequest]
  /\ faults = 0

\* Mutant: the start of the window is taken for the time.
StampWindowStart(r, c, t) ==
  /\ request[r].pc = "new"
  /\ request' = [request EXCEPT ![r].pc = "stamped", ![r].client = c, ![r].target = t,
                                ![r].at = now - WindowOf(t)]
  /\ UNCHANGED <<now, stamps, expiry, faults>>

\* The middleware is called and reads the clock.
Stamp(r, c, t) ==
  /\ request[r].pc = "new"
  /\ request' = [request EXCEPT ![r].pc = "stamped", ![r].client = c, ![r].target = t, ![r].at = now]
  /\ UNCHANGED <<now, stamps, expiry, faults>>

\* What EXPIRE has left of a counter.
Kept(k) == IF now >= expiry[k] THEN {} ELSE stamps[k]

\* Mutant: a member is its time stamp alone.
CountedByTime(k, r, at, window) == {m \in Kept(k) : m[1] > at - window /\ m[1] # at} \cup {<<at, r>>}

\* Mutant: no ZREMRANGEBYSCORE.
CountedForever(k, r, at, window) == Kept(k) \cup {<<at, r>>}

\* ZREMRANGEBYSCORE and ZADD.
Counted(k, r, at, window) == {m \in Kept(k) : m[1] > at - window} \cup {<<at, r>>}

\* Mutant: the reset time is the request's own.
ResetNow(at, window) == at \div PerSecond

\* reset_time, in whole seconds.
Reset(at, window) == at \div PerSecond + window \div PerSecond

\* The transaction, for request r on its counter.
Count(r) ==
  LET t == request[r].target
      k == Key(t, request[r].client) IN
  /\ stamps' = [stamps EXCEPT ![k] = Counted(k, r, request[r].at, WindowOf(t))]
  /\ expiry' = [expiry EXCEPT ![k] = now + WindowOf(t)]

\* check_rate_limit answers; a refused request is counted like any other.
Check(r) ==
  LET t == request[r].target
      k == Key(t, request[r].client) IN
  /\ request[r].pc = "stamped"
  /\ Count(r)
  /\ request' = [request EXCEPT
       ![r].pc = IF Cardinality(stamps'[k]) > LimitOf(t) THEN "rejected" ELSE "allowed",
       ![r].reset = Reset(request[r].at, WindowOf(t))]
  /\ UNCHANGED <<now, faults>>

\* Redis fails, before or after the transaction: the request passes.
CheckFails(r) ==
  /\ request[r].pc = "stamped"
  /\ faults < MaxFaults /\ faults' = faults + 1
  /\ Count(r) \/ UNCHANGED <<stamps, expiry>>
  /\ request' = [request EXCEPT ![r].pc = "uncounted"]
  /\ UNCHANGED now

\* _send_rate_limit_response reads the clock again.
Reject(r) ==
  /\ request[r].pc = "rejected"
  /\ LET wait == request[r].reset - now \div PerSecond IN
     request' = [request EXCEPT ![r].pc = "refused", ![r].answered = now,
                                ![r].wait = IF wait > 0 THEN wait ELSE 0]
  /\ UNCHANGED <<now, stamps, expiry, faults>>

\* Time passes, no more than MaxDelay between the stamp and the end of a check.
Tick ==
  /\ now < MaxTime
  /\ \A r \in Requests : request[r].pc \in {"stamped", "rejected"} => now < request[r].at + MaxDelay
  /\ now' = now + 1
  /\ UNCHANGED <<stamps, expiry, request, faults>>

Next ==
  \/ \E r \in Requests, c \in Clients, t \in Targets : Stamp(r, c, t)
  \/ \E r \in Requests : Check(r) \/ CheckFails(r) \/ Reject(r)
  \/ Tick

Spec == Init /\ [][Next]_vars

-----------------------------------------------------------------------------
(* The routes, from the routers of the API, and the settings named for them. *)

\* The route that serves a target.  The status of a user, under /admin, is the one route
\* whose identifier is kept: its users are counted apart.
Route(target) ==
  LET p == Strip(target[2])
      shape == [i \in 1..Len(p) |-> IF p[1] # "documents" THEN p[i]
                                    ELSE IF i = 2 THEN DocumentId
                                    ELSE IF i = 4 THEN AnalysisId ELSE p[i]]
  IN  <<target[1], shape>>

\* What the routers declare.
Routes ==
  {"POST"} \X {<<"auth", "login">>, <<"auth", "refresh">>, <<"auth", "logout">>,
               <<"users", "register">>, <<"admin", "prompts">>, Documents, Analyses, Retry}
  \cup {"GET"} \X {Documents, Document, <<"documents", DocumentId, "download">>, Analyses, Analysis}
  \cup {"DELETE"} \X {Document, Analysis}

StatusOfUser(target) ==
  target[1] = "PATCH" /\ Len(Strip(target[2])) = 4 /\ Strip(target[2])[1] = "admin"

\* The API serves these routes and no others.  A document's identifier is a number.
ASSUME ServedAssumption ==
  \A t \in Served :
    /\ t = <<t[1], t[2]>> /\ t[2] \in Seq({t[2][i] : i \in DOMAIN t[2]})
    /\ Route(t) \in Routes \/ StatusOfUser(t)
    /\ Len(Strip(t[2])) >= 2 => Strip(t[2])[2] # DocumentId

RouteSettings ==
  [login |-> {<<"POST", <<"auth", "login">>>>},
   register |-> {<<"POST", <<"users", "register">>>>},
   documents_post |-> {<<"POST", Documents>>},
   documents_get |-> {"GET"} \X {Documents, Document},
   analyses_get |-> {"GET"} \X {Analyses, Analysis},
   analyses_post |-> {<<"POST", Analyses>>, <<"DELETE", Analysis>>, <<"POST", Retry>>}]

SettingOfRoute(target) ==
  LET named == {s \in DOMAIN RouteSettings : Route(target) \in RouteSettings[s]} IN
  IF named = {} THEN "global" ELSE CHOOSE s \in named : TRUE

-----------------------------------------------------------------------------
(* Properties.                                                              *)

\* The document a target names, if any, is named by digits.  The routers take more for an
\* integer, "+1" or "1.0", and a request that says it so has a counter of its own.
Plain(target) ==
  LET p == Strip(target[2]) IN Len(p) >= 2 /\ p[1] = "documents" => p[2] \in Ids

Same(q, r) ==
  /\ request[q].client = request[r].client /\ request[r].client # None
  /\ Plain(request[q].target) /\ Plain(request[r].target)
  /\ Route(request[q].target) = Route(request[r].target)

\* The promise of the limit: in any stretch of a window's length, less the delay between
\* stamp and check, a client that names documents by digits is let through to a route no
\* more often than the setting named for it says, however the checks overtake each other.
WindowLimit ==
  \A r \in Requests : request[r].pc = "allowed" /\ Plain(request[r].target) =>
    LET rule == Settings[SettingOfRoute(request[r].target)]
        stretch == request[r].at - rule.window * PerSecond + MaxDelay
    IN  Cardinality({q \in Requests : /\ request[q].pc = "allowed" /\ Same(q, r)
                                      /\ request[q].at > stretch /\ request[q].at <= request[r].at}) <= rule.limit

\* Nobody is refused for requests that left the window: as many requests as the limit
\* allows, by the same client to the same route, are younger than a window, where the
\* document is named by digits.
NoFalseRefusal ==
  \A r \in Requests : request[r].pc \in {"rejected", "refused"} /\ Plain(request[r].target) =>
    LET rule == Settings[SettingOfRoute(request[r].target)] IN
    Cardinality({q \in Requests \ {r} : /\ request[q].pc \notin {"new", "stamped"} /\ Same(q, r)
                                        /\ request[q].at > request[r].at - rule.window * PerSecond}) >= rule.limit

\* Retry-After is honoured to the second: a client that is refused and stays away from the
\* route for the seconds it was told and one more is let through, where it names documents
\* by digits.
RetryAfterHonoured ==
  \A q, r \in Requests :
    /\ request[r].pc = "refused" /\ request[q].pc \in {"rejected", "refused"} /\ Same(q, r)
    /\ request[q].at >= request[r].answered + (request[r].wait + 1) * PerSecond
    => \E o \in Requests \ {q, r} : Same(o, r) /\ request[o].at > request[r].at

\* Where documents are named by digits, every route has the limit of the setting named for
\* it, and its requests share one counter, apart from all others.
RoutesAgree ==
  \A t \in Served : Plain(t) =>
    /\ Setting(t[1], NormalizePath(t[2])) = SettingOfRoute(t)
    /\ \A u \in Served, c, d \in Clients :
         Key(t, c) = Key(u, d) <=> Plain(u) /\ Route(t) = Route(u) /\ c = d
=============================================================================
