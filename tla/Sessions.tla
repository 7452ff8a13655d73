------------------------------ MODULE Sessions ------------------------------
(***************************************************************************)
(* The sessions of one user: login, authenticated requests, refresh,       *)
(* logout, and the administrators who switch the user's activity, over the *)
(* user's row, the blacklist of token ids and the cached activity in Redis.*)
(*                                                                         *)
(* Every action is one access to PostgreSQL or Redis.  A failing Redis is  *)
(* logged and skipped: a token counts as not revoked, a cached status as   *)
(* absent.  A failing PostgreSQL ends the request.                         *)
(***************************************************************************)
EXTENDS Integers

CONSTANTS
  Pairs,        \* token pairs, by their jti, that may be issued
  Callers,      \* concurrent requests
  None,         \* nothing cached, no pair
  AccessLife,   \* life of an access token, in ticks
  RefreshLife,  \* life of a refresh token, in ticks
  MaxChanges,   \* bound: requests to change the activity
  MaxFaults     \* bound: environment faults in one behaviour

ASSUME LivesAssumption == AccessLife \in Nat \ {0} /\ RefreshLife \in Nat /\ AccessLife <= RefreshLife
ASSUME NoneAssumption == None \notin Pairs /\ None \notin BOOLEAN /\ None \notin 0..RefreshLife
ASSUME BoundsAssumption == MaxChanges \in Nat /\ MaxFaults \in Nat

VARIABLES
  active,     \* users.is_active
  cached,     \* user:<id>:is_active, or None
  life,       \* ticks the refresh token of a pair has left; None when not issued
  blacklist,  \* ticks blacklist:<jti> has left, 0 when it is absent
  call,       \* what each caller executes
  changes,    \* counter for MaxChanges
  faults,     \* counter for MaxFaults
  revoked,    \* history: pairs whose logout reached the blacklist
  excused     \* history: a change of the activity was raced by another write of the
              \* cache, or did not reach it

vars == <<active, cached, life, blacklist, call, changes, faults, revoked, excused>>

\* A request: its pair, the activity it has read or shall set (value), the activity an
\* update has loaded (loaded), whether the pair was revoked when it began (barred), and
\* whether Redis hid the blacklist from it (blind).
Calls == [kind : {"none", "login", "access", "refresh", "logout", "update"},
          pc : {"idle", "check", "cached", "read", "fill", "accepted", "revoke", "load", "commit", "publish"},
          pair : Pairs \cup {None}, value : BOOLEAN, loaded : BOOLEAN, barred : BOOLEAN, blind : BOOLEAN]
NoCall == [kind |-> "none", pc |-> "idle", pair |-> None, value |-> FALSE, loaded |-> FALSE,
           barred |-> FALSE, blind |-> FALSE]

At(c, pc) == call[c].pc = pc
Updating(c) == call[c].kind = "update"
Unissued == {p \in Pairs : life[p] = None}

\* A jti is a uuid4: a name that no other pair has, no matter which.
Fresh == CHOOSE p \in Unissued : TRUE

\* verify_token: an expired token is refused.  Both tokens of a pair share jti and birth.
RefreshValid(p) == p \notin Unissued /\ life[p] > 0
AccessValid(p) == RefreshValid(p) /\ life[p] > RefreshLife - AccessLife

\* Every variable has its type; a token or an entry never outlives its time.
TypeOK ==
  /\ active \in BOOLEAN
  /\ cached \in BOOLEAN \cup {None}
  /\ life \in [Pairs -> 0..RefreshLife \cup {None}]
  /\ blacklist \in [Pairs -> 0..RefreshLife]
  /\ call \in [Callers -> Calls]
  /\ changes \in 0..MaxChanges
  /\ faults \in 0..MaxFaults
  /\ revoked \subseteq Pairs
  /\ excused \in BOOLEAN

Init ==
  /\ active = TRUE
  /\ cached = None
  /\ life = [p \in Pairs |-> None]
  /\ blacklist = [p \in Pairs |-> 0]
  /\ call = [c \in Callers |-> NoCall]
  /\ changes = 0
  /\ faults = 0
  /\ revoked = {}
  /\ excused = FALSE

-----------------------------------------------------------------------------
Fault == faults < MaxFaults /\ faults' = faults + 1
Begin(c, kind, pc, p) ==
  /\ At(c, "idle")
  /\ call' = [call EXCEPT ![c] = [NoCall EXCEPT !.kind = kind, !.pc = pc, !.pair = p, !.barred = p \in revoked]]
  /\ UNCHANGED <<active, cached, life, blacklist, changes, faults, revoked, excused>>
Goto(c, pc) == call' = [call EXCEPT ![c].pc = pc]
End(c) == call' = [call EXCEPT ![c] = NoCall]

\* The end of authentication: user_deactivated unless the status is true.
Decide(c, status) ==
  IF status THEN call' = [call EXCEPT ![c].pc = "accepted", ![c].value = FALSE] ELSE End(c)

\* set_active: the entry is written, or Redis fails and the entry stays as it is.
CacheStatus(status) ==
  \/ cached' = status /\ UNCHANGED faults
  \/ UNCHANGED cached /\ Fault

-----------------------------------------------------------------------------
(* Requests.                                                                *)

\* The password is right; a login is modelled while a pair is left to issue.
Login(c) == Unissued # {} /\ Begin(c, "login", "read", None)

\* get_current_user: an access token verifies.
Access(c, p) == AccessValid(p) /\ Begin(c, "access", "check", p)

\* verify_refresh_token: a refresh token verifies.
Refresh(c, p) == RefreshValid(p) /\ Begin(c, "refresh", "check", p)

\* logout: the access token verifies, and nothing else is asked of it.
Logout(c, p) == AccessValid(p) /\ Begin(c, "logout", "revoke", p)

\* update_user_active_status, for another administrator's request.
Update(c, status) ==
  /\ At(c, "idle") /\ changes < MaxChanges
  /\ changes' = changes + 1
  /\ call' = [call EXCEPT ![c] = [NoCall EXCEPT !.kind = "update", !.pc = "load", !.value = status]]
  /\ UNCHANGED <<active, cached, life, blacklist, faults, revoked, excused>>

\* is_blacklisted, FALSE when Redis cannot be asked.
CheckBlacklist(c) ==
  /\ At(c, "check")
  /\ LET p == call[c].pair IN
     \/ blacklist[p] > 0 /\ End(c) /\ UNCHANGED faults
     \/ blacklist[p] = 0 /\ Goto(c, "cached") /\ UNCHANGED faults
     \/ Fault /\ call' = [call EXCEPT ![c].pc = "cached", ![c].blind = TRUE]
  /\ UNCHANGED <<active, cached, life, blacklist, changes, revoked, excused>>

\* get_active: a hit decides, a miss or a failing Redis leads to the row.
GetCached(c) ==
  /\ At(c, "cached")
  /\ \/ cached # None /\ Decide(c, cached) /\ UNCHANGED faults
     \/ cached = None /\ Goto(c, "read") /\ UNCHANGED faults
     \/ cached # None /\ Fault /\ Goto(c, "read")
  /\ UNCHANGED <<active, cached, life, blacklist, changes, revoked, excused>>

\* get_user_by_username, get_user_by_id.  A login of a deactivated user ends here.
ReadUser(c) ==
  /\ At(c, "read")
  /\ IF call[c].kind = "login" /\ ~ active
     THEN End(c)
     ELSE call' = [call EXCEPT ![c].pc = "fill", ![c].value = active]
  /\ UNCHANGED <<active, cached, life, blacklist, changes, faults, revoked, excused>>

\* What was read is cached, whatever happened to the row since, and decides.
FillCache(c) ==
  /\ At(c, "fill")
  /\ CacheStatus(call[c].value)
  /\ Decide(c, call[c].value)
  /\ UNCHANGED <<active, life, blacklist, changes, revoked, excused>>

\* The route runs; login and refresh answer a new pair (get_tokens).  A refresh leaves
\* the pair it used as it is.
Serve(c) ==
  /\ At(c, "accepted")
  /\ IF call[c].kind = "access" \/ Unissued = {}
     THEN UNCHANGED life
     ELSE life' = [life EXCEPT ![Fresh] = RefreshLife]
  /\ End(c)
  /\ UNCHANGED <<active, cached, blacklist, changes, faults, revoked, excused>>

\* Mutant: the entry lives as long as the access token that logs out.
RevokeAccess(c) ==
  /\ At(c, "revoke")
  /\ blacklist' = [blacklist EXCEPT ![call[c].pair] = AccessLife]
  /\ revoked' = revoked \cup {call[c].pair}
  /\ End(c)
  /\ UNCHANGED <<active, cached, life, changes, faults, excused>>

\* add_to_blacklist, for as long as a refresh token lives from now.
Revoke(c) ==
  /\ At(c, "revoke")
  /\ \/ /\ blacklist' = [blacklist EXCEPT ![call[c].pair] = RefreshLife]
        /\ revoked' = revoked \cup {call[c].pair}
        /\ UNCHANGED faults
     \/ Fault /\ UNCHANGED <<blacklist, revoked>>
  /\ End(c)
  /\ UNCHANGED <<active, cached, life, changes, excused>>

-----------------------------------------------------------------------------
(* A change of the activity.                                                *)

\* update_is_active: the SELECT.
LoadUser(c) ==
  /\ At(c, "load")
  /\ call' = [call EXCEPT ![c].pc = "commit", ![c].loaded = active]
  /\ UNCHANGED <<active, cached, life, blacklist, changes, faults, revoked, excused>>

\* The session sends the column only when it differs from what it loaded.
CommitStatus(c) ==
  /\ At(c, "commit")
  /\ active' = IF call[c].value = call[c].loaded THEN active ELSE call[c].value
  /\ Goto(c, "publish")
  /\ UNCHANGED <<cached, life, blacklist, changes, faults, revoked, excused>>

\* Another caller is about to cache another status, or is itself changing it.
Raced(c) == \E d \in Callers \ {c} : Updating(d) \/ (At(d, "fill") /\ call[d].value # call[c].value)

\* set_active with the status of the request, not with the row's.
PublishStatus(c) ==
  /\ At(c, "publish")
  /\ CacheStatus(call[c].value)
  /\ excused' = (excused \/ Raced(c) \/ faults' # faults)
  /\ End(c)
  /\ UNCHANGED <<active, life, blacklist, changes, revoked>>

-----------------------------------------------------------------------------
(* The environment.                                                         *)

\* PostgreSQL raises, or the process dies; what was committed stays.
CallFails(c) ==
  /\ ~ At(c, "idle")
  /\ Fault
  /\ excused' = (excused \/ At(c, "publish"))
  /\ End(c)
  /\ UNCHANGED <<active, cached, life, blacklist, changes, revoked>>

\* Mutant: the status is cached without ex.
ExpireNever == FALSE /\ UNCHANGED vars

\* user_status_ttl is over.
Expire ==
  /\ cached # None
  /\ cached' = None
  /\ UNCHANGED <<active, life, blacklist, call, changes, faults, revoked, excused>>

\* Mutant: the remaining time is not stopped at zero.
CountOn(n) == IF n = None THEN None ELSE n - 1

CountDown(n) == IF n = None THEN None ELSE IF n > 0 THEN n - 1 ELSE 0

\* Time passes.  The verification of a token and the question whether it is revoked are
\* one round trip apart, and no tick falls in between.
Tick ==
  /\ \E p \in Pairs : RefreshValid(p)
  /\ \A c \in Callers : ~ At(c, "check")
  /\ life' = [p \in Pairs |-> CountDown(life[p])]
  /\ blacklist' = [p \in Pairs |-> CountDown(blacklist[p])]
  /\ UNCHANGED <<active, cached, call, changes, faults, revoked, excused>>

-----------------------------------------------------------------------------
CallStep(c) ==
  \/ CheckBlacklist(c) \/ GetCached(c) \/ ReadUser(c) \/ FillCache(c) \/ Serve(c)
  \/ Revoke(c)
  \/ LoadUser(c) \/ CommitStatus(c) \/ PublishStatus(c)

Next ==
  \/ \E c \in Callers : Login(c) \/ CallStep(c) \/ CallFails(c)
  \/ \E c \in Callers, p \in Pairs : Access(c, p) \/ Refresh(c, p) \/ Logout(c, p)
  \/ \E c \in Callers, status \in BOOLEAN : Update(c, status)
  \/ Expire
  \/ Tick

Spec == Init /\ [][Next]_vars

\* Requests run to their end, and Redis drops what has expired.  Nothing is assumed of
\* the clock.
Fairness == WF_vars(Expire) /\ \A c \in Callers : WF_vars(CallStep(c))

FairSpec == Spec /\ Fairness

-----------------------------------------------------------------------------
(* Properties.                                                              *)

\* No request that begins after a logout of its pair reached the blacklist is accepted,
\* by either token of the pair and however late, unless Redis hid the blacklist.
RevokedIsRefused == \A c \in Callers : At(c, "accepted") /\ call[c].barred => call[c].blind

\* While nobody changes the activity the cache agrees with the row, unless a change was
\* raced by a request that had read the row before it, or did not reach the cache.
CacheFollowsRow == (\A c \in Callers : ~ Updating(c)) /\ ~ excused => cached \in {None, active}

\* Raced or lost changes prevail too: in the end no other status than the row's is cached.
StatusPrevails == <>[](cached \in {None, active})
=============================================================================
