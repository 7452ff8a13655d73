--------------------------- MODULE RateLimiterProofs ---------------------------
(***************************************************************************)
(* The promises of the rate limit, for every value of the constants.       *)
(*                                                                         *)
(* They are about the members that a counter still has when a request is   *)
(* checked.  KeptInv says that a request that was counted is a member of   *)
(* its counter until a window has passed since its stamp, although the     *)
(* checks of others, with later or earlier stamps, trim the counter and    *)
(* set its expiry; MembersInv says that there is nothing else in it.  A    *)
(* check thus counts all that the limit is about, and no more.  Windows    *)
(* and limits are those of the counters; RoutingAgrees shows that they are *)
(* those of the routes, as long as documents are named by digits: it rests *)
(* on what the routers serve, ServedAssumption.                            *)
(***************************************************************************)
EXTENDS RateLimiter, FiniteSetTheorems, SequenceTheorems, WellFoundedInduction, TLAPS

\* The counter of a request, its window and its limit.
KeyOf(r) == Key(request[r].target, request[r].client)
Window(r) == WindowOf(request[r].target)
Limit(r) == LimitOf(request[r].target)

Sent(r) == request[r].pc # "new"
Started(r) == request[r].pc \notin {"new", "stamped"}
Counts(r) == request[r].pc \in {"rejected", "allowed", "refused"}
Member(r) == <<request[r].at, r>>

RequestStates ==
  [pc : {"new", "stamped", "rejected", "allowed", "refused", "uncounted"},
   client : Clients \cup {None}, target : Targets \cup {None},
   at : Nat, reset : Nat, answered : Nat, wait : Nat]

\* TypeOK says nothing of the domains of the functions, of the requests that are not sent,
\* or of what bounds the delay.
Typed ==
  /\ TypeOK
  /\ stamps \in [Keys -> SUBSET (Nat \X Requests)]
  /\ expiry \in [Keys -> Nat]
  /\ request \in [Requests -> RequestStates]
  /\ \A r \in Requests : request[r].pc = "new" => request[r].client = None

\* A check comes soon after its stamp.
DelayInv == \A r \in Requests :
  request[r].pc \in {"stamped", "rejected"} => now <= request[r].at + MaxDelay

\* A counter has the stamps of its own requests.
MembersInv == \A k \in Keys :
  /\ IsFiniteSet(stamps[k])
  /\ \A at \in Nat, q \in Requests : <<at, q>> \in stamps[k] =>
       Started(q) /\ request[q].at = at /\ KeyOf(q) = k

\* A counted request is there until it is older than a window.
KeptInv == \A q \in Requests : Counts(q) =>
  \/ Member(q) \in stamps[KeyOf(q)] /\ request[q].at + Window(q) <= expiry[KeyOf(q)]
  \/ request[q].at + Window(q) <= now

\* The answer to a refused request names the end of a window after its stamp.
AnsweredInv == \A r \in Requests :
  /\ request[r].pc = "rejected" => request[r].reset = Reset(request[r].at, Window(r))
  /\ request[r].pc = "refused" =>
       request[r].at + Window(r) < request[r].answered + (request[r].wait + 1) * PerSecond

\* Who was let through in the stretch that WindowLimit is about.
Through(r) == {q \in Requests :
  /\ request[q].pc = "allowed" /\ KeyOf(q) = KeyOf(r)
  /\ request[q].at > request[r].at - Window(r) + MaxDelay /\ request[q].at <= request[r].at}

WindowInv == \A r \in Requests : request[r].pc = "allowed" => Cardinality(Through(r)) <= Limit(r)

\* Who is blamed when a request is refused.
Blamed(r) == {q \in Requests \ {r} :
  /\ Started(q) /\ KeyOf(q) = KeyOf(r)
  /\ request[q].at > request[r].at - Window(r)}

BlamedInv == \A r \in Requests :
  request[r].pc \in {"rejected", "refused"} => Cardinality(Blamed(r)) >= Limit(r)

-----------------------------------------------------------------------------
(* Windows, limits and seconds.                                             *)

LEMMA SettingTyped ==
  ASSUME NEW method, NEW path
  PROVE  Setting(method, path) \in SettingNames
  BY DEF Setting, SettingNames

LEMMA ProductIsNatural ==
  ASSUME NEW x \in Nat, NEW y \in Nat
  PROVE  x * y \in Nat
  OBVIOUS

LEMMA TargetTyped ==
  ASSUME NEW t
  PROVE  WindowOf(t) \in Nat /\ LimitOf(t) \in Nat \ {0}
<1>. PICK s \in SettingNames : s = Setting(t[1], NormalizePath(t[2]))
  BY SettingTyped
<1>1. Settings[s].limit \in Nat \ {0} /\ Settings[s].window \in Nat
  BY SettingsAssumption
<1>2. Settings[s].window * PerSecond \in Nat
  BY <1>1, ProductIsNatural, ClockAssumption
<1>. QED BY <1>1, <1>2 DEF WindowOf, LimitOf

LEMMA KeyFacts ==
  ASSUME NEW t, NEW u, NEW c, NEW d, Key(t, c) = Key(u, d)
  PROVE  WindowOf(t) = WindowOf(u) /\ LimitOf(t) = LimitOf(u) /\ c = d
  BY DEF Key, WindowOf, LimitOf

LEMMA Seconds ==
  ASSUME NEW a \in Nat, NEW p \in Nat \ {0}
  PROVE  a \div p \in Nat /\ (a \div p) * p <= a /\ a < (a \div p + 1) * p
  OBVIOUS

LEMMA WholeSeconds ==
  ASSUME NEW w \in Nat, NEW p \in Nat \ {0}
  PROVE  (w * p) \div p = w
  OBVIOUS

LEMMA WaitIsEnough ==
  ASSUME NEW p \in Nat \ {0}, NEW a \in Nat, NEW d \in Nat, NEW w \in Nat, NEW wait \in Nat,
         NEW at \in Nat, NEW t \in Nat, at < (a + 1) * p, d * p <= t, wait + d >= a + w
  PROVE  at + w * p < t + (wait + 1) * p
<1>1. (wait + d + 1) * p >= (a + w + 1) * p
  OBVIOUS
<1>2. (wait + d + 1) * p = (wait + 1) * p + d * p /\ (a + w + 1) * p = (a + 1) * p + w * p
  OBVIOUS
<1>3. (wait + 1) * p \in Nat /\ d * p \in Nat /\ (a + 1) * p \in Nat /\ w * p \in Nat
  BY ProductIsNatural
<1>. QED BY <1>1, <1>2, <1>3

-----------------------------------------------------------------------------
(* Types.                                                                   *)

LEMMA SentFacts ==
  ASSUME Typed, NEW r \in Requests, Sent(r)
  PROVE  /\ request[r].client \in Clients /\ request[r].target \in Targets
         /\ KeyOf(r) \in Keys /\ Window(r) \in Nat /\ Limit(r) \in Nat \ {0}
         /\ request[r].at \in Nat /\ request[r].at <= now
  BY TargetTyped DEF Typed, TypeOK, Sent, KeyOf, Keys, Window, Limit

LEMMA CountEffect ==
  ASSUME Typed, NEW r \in Requests, request[r].pc = "stamped", Count(r)
  PROVE  /\ stamps' \in [Keys -> SUBSET (Nat \X Requests)] /\ expiry' \in [Keys -> Nat]
         /\ \A k \in Keys : stamps'[k] \subseteq (0..now) \X Requests
         /\ stamps'[KeyOf(r)] = Counted(KeyOf(r), r, request[r].at, Window(r))
         /\ expiry'[KeyOf(r)] = now + Window(r)
         /\ \A k \in Keys : k # KeyOf(r) => stamps'[k] = stamps[k] /\ expiry'[k] = expiry[k]
         /\ \A at \in Nat, q \in Requests : <<at, q>> \in stamps'[KeyOf(r)] <=>
              \/ at = request[r].at /\ q = r
              \/ /\ <<at, q>> \in stamps[KeyOf(r)] /\ now < expiry[KeyOf(r)]
                 /\ at > request[r].at - Window(r)
<1>. /\ KeyOf(r) \in Keys /\ Window(r) \in Nat /\ request[r].at \in Nat /\ request[r].at <= now
     /\ stamps \in [Keys -> SUBSET (Nat \X Requests)] /\ expiry \in [Keys -> Nat] /\ now \in Nat
     /\ \A k \in Keys : stamps[k] \subseteq (0..now) \X Requests
  BY SentFacts, ClockAssumption DEF Sent, Typed, TypeOK
<1>. PICK k \in Keys : k = KeyOf(r)
  OBVIOUS
<1>. DEFINE C == Counted(k, r, request[r].at, Window(r))
<1>1. stamps' = [stamps EXCEPT ![k] = C] /\ expiry' = [expiry EXCEPT ![k] = now + Window(r)]
  BY DEF Count, KeyOf, Window
<1>2. C \subseteq (0..now) \X Requests
  BY DEF Counted, Kept
<1>3. \A at \in Nat, q \in Requests : <<at, q>> \in C <=>
        \/ at = request[r].at /\ q = r
        \/ <<at, q>> \in stamps[k] /\ now < expiry[k] /\ at > request[r].at - Window(r)
  BY DEF Counted, Kept
<1>4. C \in SUBSET (Nat \X Requests)
  BY <1>2
<1>. HIDE DEF C
<1>5. /\ stamps'[k] = C /\ expiry'[k] = now + Window(r)
      /\ \A j \in Keys : j # k => stamps'[j] = stamps[j] /\ expiry'[j] = expiry[j]
      /\ stamps' \in [Keys -> SUBSET (Nat \X Requests)] /\ expiry' \in [Keys -> Nat]
  BY <1>1, <1>4
<1>. QED BY <1>2, <1>3, <1>5 DEF C

\* What a step that changes the request r alone must show.
LEMMA RequestTyped ==
  ASSUME Typed, NEW r \in Requests, NEW x \in RequestStates, request' = [request EXCEPT ![r] = x],
         x.pc # "new", x.client \in Clients, x.target \in Targets, x.at <= now, x.answered <= now,
         UNCHANGED now, faults' \in 0..MaxFaults,
         stamps' \in [Keys -> SUBSET (Nat \X Requests)], expiry' \in [Keys -> Nat],
         \A k \in Keys : stamps'[k] \subseteq (0..now) \X Requests
  PROVE  Typed'
<1>. request \in [Requests -> RequestStates] /\ now \in Nat
  BY ClockAssumption DEF Typed, TypeOK
<1>1. request' \in [Requests -> RequestStates]
  BY Zenon
<1>2. ASSUME NEW q \in Requests
      PROVE  /\ request'[q].pc \in {"new", "stamped", "rejected", "allowed", "refused", "uncounted"}
             /\ request'[q].pc # "new" => request'[q].client \in Clients /\ request'[q].target \in Targets
             /\ request'[q].at \in 0..now /\ request'[q].answered \in 0..now
             /\ request'[q].reset \in Nat /\ request'[q].wait \in Nat
             /\ request'[q].pc = "new" => request'[q].client = None
  <2>1. CASE q = r
    BY <2>1 DEF RequestStates
  <2>2. CASE q # r
    BY <2>2 DEF Typed, TypeOK
  <2>. QED BY <2>1, <2>2
<1>. QED BY <1>1, <1>2 DEF Typed, TypeOK

LEMMA NextTyped == Typed /\ [Next]_vars => Typed'
<1>. SUFFICES ASSUME Typed, [Next]_vars PROVE Typed'
  OBVIOUS
<1>. /\ request \in [Requests -> RequestStates] /\ now \in Nat /\ faults \in 0..MaxFaults
     /\ stamps \in [Keys -> SUBSET (Nat \X Requests)] /\ expiry \in [Keys -> Nat]
     /\ \A k \in Keys : stamps[k] \subseteq (0..now) \X Requests
     /\ \A r \in Requests : /\ request[r] \in RequestStates
                            /\ request[r].at <= now /\ request[r].answered <= now
  BY ClockAssumption DEF Typed, TypeOK
<1>1. CASE UNCHANGED vars
  BY <1>1 DEF vars, Typed, TypeOK
<1>2. ASSUME NEW r \in Requests, NEW c \in Clients, NEW t \in Targets, Stamp(r, c, t) PROVE Typed'
  <2>. DEFINE x == [request[r] EXCEPT !.pc = "stamped", !.client = c, !.target = t, !.at = now]
  <2>1. request' = [request EXCEPT ![r] = x] /\ UNCHANGED <<now, stamps, expiry, faults>>
    BY <1>2 DEF Stamp
  <2>2. x \in RequestStates
    BY DEF RequestStates
  <2>3. x.pc = "stamped" /\ x.client = c /\ x.target = t /\ x.at = now /\ x.answered = request[r].answered
    BY DEF RequestStates
  <2>4. /\ stamps' \in [Keys -> SUBSET (Nat \X Requests)] /\ expiry' \in [Keys -> Nat]
        /\ \A k \in Keys : stamps'[k] \subseteq (0..now) \X Requests
        /\ faults' \in 0..MaxFaults
    BY <2>1, Zenon
  <2>. HIDE DEF x
  <2>5. x.pc # "new" /\ x.client \in Clients /\ x.target \in Targets /\ x.at <= now /\ x.answered <= now
    BY <2>3
  <2>. QED BY <2>1, <2>2, <2>4, <2>5, RequestTyped, Zenon
<1>3. ASSUME NEW r \in Requests, Check(r) PROVE Typed'
  <2>1. PICK pc \in {"rejected", "allowed"}, reset \in Nat :
          request' = [request EXCEPT ![r] = [request[r] EXCEPT !.pc = pc, !.reset = reset]]
    <3>1. Reset(request[r].at, Window(r)) \in Nat
      BY <1>3, SentFacts, Seconds, ClockAssumption DEF Check, Sent, Reset
    <3>. QED BY <1>3, <3>1 DEF Check, Window
  <2>. DEFINE x == [request[r] EXCEPT !.pc = pc, !.reset = reset]
  <2>2. x \in RequestStates
    BY DEF RequestStates
  <2>3. /\ x.pc # "new" /\ x.client = request[r].client /\ x.target = request[r].target
        /\ x.at = request[r].at /\ x.answered = request[r].answered
    BY DEF RequestStates
  <2>4. request[r].pc = "stamped" /\ Count(r) /\ UNCHANGED <<now, faults>>
    BY <1>3 DEF Check
  <2>. HIDE DEF x
  <2>. QED BY <2>1, <2>2, <2>3, <2>4, RequestTyped, SentFacts, CountEffect DEF Sent, x
<1>4. ASSUME NEW r \in Requests, CheckFails(r) PROVE Typed'
  <2>. DEFINE x == [request[r] EXCEPT !.pc = "uncounted"]
  <2>1. /\ request' = [request EXCEPT ![r] = x] /\ UNCHANGED now /\ request[r].pc = "stamped"
        /\ Count(r) \/ UNCHANGED <<stamps, expiry>>
    BY <1>4 DEF CheckFails
  <2>2. x \in RequestStates
    BY DEF RequestStates
  <2>3. /\ x.pc # "new" /\ x.client = request[r].client /\ x.target = request[r].target
        /\ x.at = request[r].at /\ x.answered = request[r].answered
    BY DEF RequestStates
  <2>4. faults' \in 0..MaxFaults
    BY <1>4, FaultsAssumption DEF CheckFails
  <2>5. /\ stamps' \in [Keys -> SUBSET (Nat \X Requests)] /\ expiry' \in [Keys -> Nat]
        /\ \A k \in Keys : stamps'[k] \subseteq (0..now) \X Requests
    BY <2>1, CountEffect
  <2>. HIDE DEF x
  <2>. QED BY <2>1, <2>2, <2>3, <2>4, <2>5, RequestTyped, SentFacts DEF Sent
<1>5. ASSUME NEW r \in Requests, Reject(r) PROVE Typed'
  <2>1. PICK wait \in Nat : request' = [request EXCEPT ![r] =
          [request[r] EXCEPT !.pc = "refused", !.answered = now, !.wait = wait]]
    <3>1. now \div PerSecond \in Nat /\ request[r].reset \in Nat
      BY Seconds, ClockAssumption DEF RequestStates
    <3>2. PICK w \in Int : w = request[r].reset - now \div PerSecond
      BY <3>1
    <3>3. (IF w > 0 THEN w ELSE 0) \in Nat
      OBVIOUS
    <3>. QED BY <1>5, <3>2, <3>3 DEF Reject
  <2>. DEFINE x == [request[r] EXCEPT !.pc = "refused", !.answered = now, !.wait = wait]
  <2>2. x \in RequestStates
    BY DEF RequestStates
  <2>3. /\ x.pc # "new" /\ x.client = request[r].client /\ x.target = request[r].target
        /\ x.at = request[r].at /\ x.answered = now
    BY DEF RequestStates
  <2>4. request[r].pc = "rejected" /\ UNCHANGED <<now, stamps, expiry, faults>>
    BY <1>5 DEF Reject
  <2>5. /\ stamps' \in [Keys -> SUBSET (Nat \X Requests)] /\ expiry' \in [Keys -> Nat]
        /\ \A k \in Keys : stamps'[k] \subseteq (0..now) \X Requests
        /\ faults' \in 0..MaxFaults
    BY <2>4, Zenon
  <2>. HIDE DEF x
  <2>6. x.pc # "new" /\ x.client \in Clients /\ x.target \in Targets /\ x.at <= now /\ x.answered <= now
    BY <2>3, <2>4, SentFacts DEF Sent
  <2>. QED BY <2>1, <2>2, <2>4, <2>5, <2>6, RequestTyped, Zenon DEF x
<1>6. CASE Tick
  <2>1. now' = now + 1 /\ now < MaxTime /\ UNCHANGED <<stamps, expiry, request, faults>>
    BY <1>6 DEF Tick
  <2>2. now' \in 0..MaxTime
    BY <2>1, ClockAssumption
  <2>3. \A k \in Keys : stamps'[k] \subseteq (0..now') \X Requests
    BY <2>1
  <2>. QED BY <2>1, <2>2, <2>3 DEF Typed, TypeOK
<1>. QED BY <1>1, <1>2, <1>3, <1>4, <1>5, <1>6 DEF Next

LEMMA InitTyped == Init => Typed
<1>. SUFFICES ASSUME Init PROVE Typed
  OBVIOUS
<1>1. NoRequest \in RequestStates
  BY DEF NoRequest, RequestStates
<1>. QED BY <1>1, ClockAssumption, FaultsAssumption DEF Init, Typed, TypeOK, NoRequest

\* Every variable has its type, for any number of requests, routes, limits and ticks.
THEOREM TypeCorrect == Spec => []TypeOK
<1>1. Typed => TypeOK
  BY DEF Typed
<1>. QED BY <1>1, InitTyped, NextTyped, PTL DEF Spec

-----------------------------------------------------------------------------
(* What each step does to its request.                                      *)

\* Whoever sent a request, and when, stays, and what was checked stays checked.
Advances == \A q \in Requests :
  /\ Sent(q) => /\ Sent(q)' /\ request'[q].client = request[q].client
                /\ request'[q].target = request[q].target /\ request'[q].at = request[q].at
  /\ Started(q) => Started(q)'

LEMMA KeyStays ==
  ASSUME Advances, NEW q \in Requests, Sent(q)
  PROVE  KeyOf(q)' = KeyOf(q) /\ Window(q)' = Window(q) /\ Limit(q)' = Limit(q) /\ Member(q)' = Member(q)
  BY DEF Advances, KeyOf, Window, Limit, Member

LEMMA StampFacts ==
  ASSUME Typed, NEW r \in Requests, NEW c \in Clients, NEW t \in Targets, Stamp(r, c, t)
  PROVE  /\ request[r].pc = "new" /\ request'[r].pc = "stamped" /\ request'[r].at = now
         /\ \A q \in Requests : q # r => request'[q] = request[q]
         /\ UNCHANGED <<now, stamps, expiry>> /\ Advances
<1>. request \in [Requests -> RequestStates]
  BY DEF Typed
<1>1. /\ request[r].pc = "new" /\ request'[r].pc = "stamped" /\ request'[r].at = now
      /\ \A q \in Requests : q # r => request'[q] = request[q]
      /\ UNCHANGED <<now, stamps, expiry>>
  BY DEF Stamp, RequestStates
<1>. QED BY <1>1 DEF Advances, Sent, Started

LEMMA CheckFacts ==
  ASSUME Typed, NEW r \in Requests, Check(r)
  PROVE  /\ request[r].pc = "stamped" /\ Count(r) /\ UNCHANGED now
         /\ request'[r].pc = IF Cardinality(stamps'[KeyOf(r)]) > Limit(r) THEN "rejected" ELSE "allowed"
         /\ request'[r].reset = Reset(request[r].at, Window(r))
         /\ \A q \in Requests : q # r => request'[q] = request[q]
         /\ Advances
<1>. request \in [Requests -> RequestStates]
  BY DEF Typed
<1>. PICK pc : pc = IF Cardinality(stamps'[KeyOf(r)]) > Limit(r) THEN "rejected" ELSE "allowed"
  OBVIOUS
<1>. PICK s : s = Reset(request[r].at, Window(r))
  OBVIOUS
<1>1. /\ request[r].pc = "stamped" /\ Count(r) /\ UNCHANGED now
      /\ request' = [request EXCEPT ![r].pc = pc, ![r].reset = s]
  BY DEF Check, KeyOf, Limit, Window
<1>2. /\ request'[r].pc = pc /\ request'[r].reset = s /\ request'[r].client = request[r].client
      /\ request'[r].target = request[r].target /\ request'[r].at = request[r].at
      /\ \A q \in Requests : q # r => request'[q] = request[q]
  BY <1>1 DEF RequestStates
<1>. QED BY <1>1, <1>2 DEF Advances, Sent, Started

LEMMA CheckFailsFacts ==
  ASSUME Typed, NEW r \in Requests, CheckFails(r)
  PROVE  /\ request[r].pc = "stamped" /\ UNCHANGED now /\ (Count(r) \/ UNCHANGED <<stamps, expiry>>)
         /\ request'[r].pc = "uncounted"
         /\ \A q \in Requests : q # r => request'[q] = request[q]
         /\ Advances
<1>. request \in [Requests -> RequestStates]
  BY DEF Typed
<1>1. /\ request[r].pc = "stamped" /\ UNCHANGED now /\ (Count(r) \/ UNCHANGED <<stamps, expiry>>)
      /\ request' = [request EXCEPT ![r].pc = "uncounted"]
  BY DEF CheckFails
<1>2. /\ request'[r].pc = "uncounted" /\ request'[r].client = request[r].client
      /\ request'[r].target = request[r].target /\ request'[r].at = request[r].at
      /\ \A q \in Requests : q # r => request'[q] = request[q]
  BY <1>1 DEF RequestStates
<1>. QED BY <1>1, <1>2 DEF Advances, Sent, Started

LEMMA RejectFacts ==
  ASSUME Typed, NEW r \in Requests, Reject(r)
  PROVE  /\ request[r].pc = "rejected" /\ UNCHANGED <<now, stamps, expiry>>
         /\ request'[r].pc = "refused" /\ request'[r].answered = now
         /\ request'[r].wait \in Nat /\ request'[r].wait >= request[r].reset - now \div PerSecond
         /\ \A q \in Requests : q # r => request'[q] = request[q]
         /\ Advances
<1>. request \in [Requests -> RequestStates] /\ request[r].reset \in Nat /\ now \in Nat
  BY DEF Typed, TypeOK, RequestStates
<1>. PICK w \in Int : w = request[r].reset - now \div PerSecond
  BY Seconds, ClockAssumption
<1>. PICK wait \in Nat : wait = (IF w > 0 THEN w ELSE 0)
  OBVIOUS
<1>1. /\ request[r].pc = "rejected" /\ UNCHANGED <<now, stamps, expiry>>
      /\ request' = [request EXCEPT ![r].pc = "refused", ![r].answered = now, ![r].wait = wait]
  BY DEF Reject
<1>2. /\ request'[r].pc = "refused" /\ request'[r].client = request[r].client
      /\ request'[r].target = request[r].target /\ request'[r].at = request[r].at
      /\ request'[r].answered = now /\ request'[r].wait = wait
      /\ \A q \in Requests : q # r => request'[q] = request[q]
  BY <1>1 DEF RequestStates
<1>. QED BY <1>1, <1>2 DEF Advances, Sent, Started

-----------------------------------------------------------------------------
(* A counter has what it counts.                                            *)

LEMMA CountedIsFinite ==
  ASSUME Typed, MembersInv, NEW r \in Requests, request[r].pc = "stamped", Count(r)
  PROVE  IsFiniteSet(stamps'[KeyOf(r)])
<1>. KeyOf(r) \in Keys
  BY SentFacts DEF Sent
<1>. PICK k \in Keys : k = KeyOf(r)
  OBVIOUS
<1>1. IsFiniteSet(Kept(k))
  BY FS_EmptySet DEF MembersInv, Kept
<1>2. IsFiniteSet({m \in Kept(k) : m[1] > request[r].at - Window(r)})
  BY <1>1, FS_Subset
<1>3. IsFiniteSet(Counted(k, r, request[r].at, Window(r)))
  BY <1>2, FS_AddElement DEF Counted
<1>. QED BY <1>3, CountEffect

LEMMA CountKeepsMembers ==
  ASSUME Typed, MembersInv, NEW r \in Requests, request[r].pc = "stamped", Count(r), Advances, Started(r)'
  PROVE  MembersInv'
<1>. SUFFICES ASSUME NEW k \in Keys
              PROVE  /\ IsFiniteSet(stamps'[k])
                     /\ \A at \in Nat, q \in Requests : <<at, q>> \in stamps'[k] =>
                          Started(q)' /\ request'[q].at = at /\ KeyOf(q)' = k
  BY DEF MembersInv
<1>. \A q \in Requests : Started(q) => Sent(q)
  BY DEF Started, Sent
<1>1. CASE k # KeyOf(r)
  <2>1. stamps'[k] = stamps[k]
    BY <1>1, CountEffect
  <2>. QED BY <2>1, KeyStays DEF MembersInv, Advances
<1>2. CASE k = KeyOf(r)
  <2>1. IsFiniteSet(stamps'[k])
    BY <1>2, CountedIsFinite
  <2>2. ASSUME NEW at \in Nat, NEW q \in Requests, <<at, q>> \in stamps'[k]
        PROVE  Started(q)' /\ request'[q].at = at /\ KeyOf(q)' = k
    <3>1. \/ at = request[r].at /\ q = r
          \/ <<at, q>> \in stamps[k]
      BY <1>2, <2>2, CountEffect
    <3>2. CASE <<at, q>> \in stamps[k]
      BY <3>2, KeyStays DEF MembersInv, Advances
    <3>3. CASE at = request[r].at /\ q = r
      BY <1>2, <3>3, KeyStays DEF Advances, Sent
    <3>. QED BY <3>1, <3>2, <3>3
  <2>. QED BY <2>1, <2>2
<1>. QED BY <1>1, <1>2

\* A check keeps what is younger than a window, and makes it stay as long.
LEMMA CountKeepsKept ==
  ASSUME Typed, KeptInv, NEW r \in Requests, request[r].pc = "stamped", Count(r), Advances,
         UNCHANGED now, \A q \in Requests : q # r => request'[q] = request[q]
  PROVE  KeptInv'
<1>. SUFFICES ASSUME NEW q \in Requests, Counts(q)'
              PROVE  \/ Member(q)' \in stamps'[KeyOf(q)'] /\ request'[q].at + Window(q)' <= expiry'[KeyOf(q)']
                     \/ request'[q].at + Window(q)' <= now
  BY DEF KeptInv
<1>1. Sent(q) /\ (q # r => Counts(q)) /\ Sent(r)
  BY DEF Counts, Sent
<1>2. /\ KeyOf(q)' = KeyOf(q) /\ Window(q)' = Window(q) /\ Member(q)' = Member(q)
      /\ request'[q].at = request[q].at
  BY <1>1, KeyStays DEF Advances
<1>3. /\ request[q].at \in Nat /\ request[q].at <= now /\ Window(q) \in Nat /\ KeyOf(q) \in Keys
      /\ request[r].at \in Nat /\ request[r].at <= now /\ now \in Nat
      /\ expiry[KeyOf(q)] \in Nat
  BY <1>1, SentFacts DEF Typed, TypeOK
<1>. HIDE DEF Sent, Counts
<1>4. CASE q = r
  <2>1. Member(r) \in stamps'[KeyOf(r)] /\ expiry'[KeyOf(r)] = now + Window(r)
    BY <1>3, <1>4, CountEffect DEF Member
  <2>. QED BY <1>2, <1>3, <1>4, <2>1
<1>5. CASE q # r /\ KeyOf(q) # KeyOf(r)
  <2>1. stamps'[KeyOf(q)] = stamps[KeyOf(q)] /\ expiry'[KeyOf(q)] = expiry[KeyOf(q)]
    BY <1>3, <1>5, CountEffect
  <2>. QED BY <1>1, <1>2, <1>5, <2>1 DEF KeptInv
<1>6. CASE q # r /\ KeyOf(q) = KeyOf(r) /\ ~ (request[q].at + Window(q) <= now)
  <2>1. Window(q) = Window(r)
    BY <1>6, KeyFacts DEF KeyOf, Window
  <2>2. Member(q) \in stamps[KeyOf(r)] /\ now < expiry[KeyOf(r)]
    <3>1. Member(q) \in stamps[KeyOf(q)] /\ request[q].at + Window(q) <= expiry[KeyOf(q)]
      BY <1>1, <1>6 DEF KeptInv
    <3>. QED BY <1>3, <1>6, <3>1
  <2>3. request[q].at > request[r].at - Window(r)
    BY <1>3, <1>6, <2>1
  <2>4. Member(q) \in stamps'[KeyOf(r)] /\ expiry'[KeyOf(r)] = now + Window(r)
    BY <1>3, <2>2, <2>3, CountEffect DEF Member
  <2>. QED BY <1>2, <1>3, <1>6, <2>1, <2>4
<1>. QED BY <1>2, <1>4, <1>5, <1>6

LEMMA QuietKeepsMembers ==
  ASSUME Typed, MembersInv, KeptInv, Advances, UNCHANGED <<stamps, expiry>>, now <= now', now' \in Nat,
         \A q \in Requests : Counts(q)' => Counts(q)
  PROVE  MembersInv' /\ KeptInv'
<1>. /\ \A q \in Requests : Started(q) => Sent(q)
     /\ \A q \in Requests : Counts(q) => Sent(q)
  BY DEF Started, Sent, Counts
<1>. HIDE DEF Started, Sent, Counts
<1>1. MembersInv'
  BY KeyStays DEF MembersInv, Advances
<1>2. ASSUME NEW q \in Requests, Counts(q)'
      PROVE  \/ Member(q)' \in stamps'[KeyOf(q)'] /\ request'[q].at + Window(q)' <= expiry'[KeyOf(q)']
             \/ request'[q].at + Window(q)' <= now'
  <2>1. Counts(q) /\ Sent(q)
    BY <1>2
  <2>2. /\ KeyOf(q)' = KeyOf(q) /\ Window(q)' = Window(q) /\ Member(q)' = Member(q)
        /\ request'[q].at = request[q].at
    BY <2>1, KeyStays DEF Advances
  <2>3. request[q].at \in Nat /\ Window(q) \in Nat /\ now \in Nat
    BY <2>1, SentFacts DEF Typed, TypeOK
  <2>. QED BY <2>1, <2>2, <2>3 DEF KeptInv
<1>. QED BY <1>1, <1>2 DEF KeptInv

LEMMA NextMembers ==
  Typed /\ MembersInv /\ KeptInv /\ [Next]_vars => MembersInv' /\ KeptInv'
<1>. SUFFICES ASSUME Typed, MembersInv, KeptInv, [Next]_vars PROVE MembersInv' /\ KeptInv'
  OBVIOUS
<1>. now \in Nat
  BY DEF Typed, TypeOK
<1>1. CASE UNCHANGED vars
  <2>1. Advances
    BY <1>1 DEF vars, Advances, Sent, Started
  <2>. QED BY <1>1, <2>1, QuietKeepsMembers DEF vars, Counts
<1>2. ASSUME NEW r \in Requests, NEW c \in Clients, NEW t \in Targets, Stamp(r, c, t)
      PROVE  MembersInv' /\ KeptInv'
  BY <1>2, StampFacts, QuietKeepsMembers DEF Counts
<1>3. ASSUME NEW r \in Requests, Check(r) PROVE MembersInv' /\ KeptInv'
  <2>1. Started(r)'
    BY <1>3, CheckFacts DEF Started
  <2>. QED BY <1>3, <2>1, CheckFacts, CountKeepsMembers, CountKeepsKept
<1>4. ASSUME NEW r \in Requests, CheckFails(r) PROVE MembersInv' /\ KeptInv'
  <2>1. Started(r)'
    BY <1>4, CheckFailsFacts DEF Started
  <2>2. CASE Count(r)
    BY <1>4, <2>1, <2>2, CheckFailsFacts, CountKeepsMembers, CountKeepsKept
  <2>3. CASE UNCHANGED <<stamps, expiry>>
    BY <1>4, <2>3, CheckFailsFacts, QuietKeepsMembers DEF Counts
  <2>. QED BY <1>4, <2>2, <2>3, CheckFailsFacts
<1>5. ASSUME NEW r \in Requests, Reject(r) PROVE MembersInv' /\ KeptInv'
  BY <1>5, RejectFacts, QuietKeepsMembers DEF Counts
<1>6. CASE Tick
  <2>1. /\ UNCHANGED <<stamps, expiry, request>> /\ now <= now' /\ now' \in Nat
    BY <1>6 DEF Tick
  <2>2. Advances
    BY <2>1 DEF Advances, Sent, Started
  <2>. QED BY <2>1, <2>2, QuietKeepsMembers DEF Counts
<1>. QED BY <1>1, <1>2, <1>3, <1>4, <1>5, <1>6 DEF Next

-----------------------------------------------------------------------------
(* Delays and answers.                                                      *)

LEMMA NextDelay == Typed /\ DelayInv /\ [Next]_vars => DelayInv'
<1>. SUFFICES ASSUME Typed, DelayInv, [Next]_vars PROVE DelayInv'
  OBVIOUS
<1>. now \in Nat /\ MaxDelay \in Nat /\ \A q \in Requests : request[q].at \in Nat
  BY ClockAssumption DEF Typed, TypeOK
<1>1. CASE UNCHANGED vars
  BY <1>1 DEF vars, DelayInv
<1>2. ASSUME NEW r \in Requests, NEW c \in Clients, NEW t \in Targets, Stamp(r, c, t) PROVE DelayInv'
  BY <1>2, StampFacts DEF DelayInv
<1>3. ASSUME NEW r \in Requests, Check(r) PROVE DelayInv'
  BY <1>3, CheckFacts DEF DelayInv, Advances, Sent
<1>4. ASSUME NEW r \in Requests, CheckFails(r) PROVE DelayInv'
  BY <1>4, CheckFailsFacts DEF DelayInv, Advances, Sent
<1>5. ASSUME NEW r \in Requests, Reject(r) PROVE DelayInv'
  BY <1>5, RejectFacts DEF DelayInv, Advances, Sent
<1>6. CASE Tick
  BY <1>6 DEF Tick, DelayInv
<1>. QED BY <1>1, <1>2, <1>3, <1>4, <1>5, <1>6 DEF Next

\* A reset names a time at least a window after the stamp, up to the second.
LEMMA AnswerIsEnough ==
  ASSUME Typed, NEW r \in Requests, Sent(r), NEW wait \in Nat,
         wait >= Reset(request[r].at, Window(r)) - now \div PerSecond
  PROVE  request[r].at + Window(r) < now + (wait + 1) * PerSecond
<1>. PICK w \in Nat : Window(r) = w * PerSecond
  <2>. PICK s \in SettingNames : s = Setting(request[r].target[1], NormalizePath(request[r].target[2]))
    BY SettingTyped
  <2>. QED BY SettingsAssumption DEF Window, WindowOf
<1>. PICK p \in Nat \ {0} : p = PerSecond
  BY ClockAssumption
<1>. PICK at \in Nat : at = request[r].at
  BY SentFacts
<1>. PICK t \in Nat : t = now
  BY DEF Typed, TypeOK
<1>. PICK a \in Nat : a = at \div p
  BY Seconds
<1>. PICK d \in Nat : d = t \div p
  BY Seconds
<1>1. at < (a + 1) * p /\ d * p <= t
  BY Seconds
<1>2. Reset(at, w * p) = a + w
  BY WholeSeconds DEF Reset
<1>3. wait + d >= a + w
  <2>1. wait >= (a + w) - d
    BY <1>2
  <2>. QED BY <2>1
<1>4. at + w * p < t + (wait + 1) * p
  BY <1>1, <1>3, WaitIsEnough
<1>. QED BY <1>4

LEMMA NextAnswered == Typed /\ AnsweredInv /\ [Next]_vars => AnsweredInv'
<1>. SUFFICES ASSUME Typed, AnsweredInv, [Next]_vars PROVE AnsweredInv'
  OBVIOUS
<1>1. ASSUME NEW r \in Requests, Advances, Sent(r),
             request'[r].pc = request[r].pc, request'[r].reset = request[r].reset,
             request'[r].answered = request[r].answered, request'[r].wait = request[r].wait
      PROVE  /\ request'[r].pc = "rejected" => request'[r].reset = Reset(request'[r].at, Window(r)')
             /\ request'[r].pc = "refused" => request'[r].at + Window(r)' <
                                              request'[r].answered + (request'[r].wait + 1) * PerSecond
  BY <1>1, KeyStays DEF AnsweredInv, Advances
<1>2. ASSUME Advances, NEW r \in Requests, \A q \in Requests : q # r => request'[q] = request[q],
             request'[r].pc = "rejected" => request'[r].reset = Reset(request'[r].at, Window(r)'),
             request'[r].pc = "refused" => request'[r].at + Window(r)' <
                                           request'[r].answered + (request'[r].wait + 1) * PerSecond
      PROVE  AnsweredInv'
  BY <1>1, <1>2 DEF AnsweredInv, Sent
<1>3. CASE UNCHANGED vars
  <2>1. Advances /\ UNCHANGED request
    BY <1>3 DEF vars, Advances, Sent, Started
  <2>. QED BY <1>1, <2>1 DEF AnsweredInv, Sent
<1>4. ASSUME NEW r \in Requests, NEW c \in Clients, NEW t \in Targets, Stamp(r, c, t) PROVE AnsweredInv'
  BY <1>2, <1>4, StampFacts
<1>5. ASSUME NEW r \in Requests, Check(r) PROVE AnsweredInv'
  <2>1. request'[r].reset = Reset(request'[r].at, Window(r)')
    BY <1>5, CheckFacts, KeyStays DEF Advances, Sent
  <2>2. request'[r].pc # "refused"
    BY <1>5, CheckFacts
  <2>3. Advances /\ \A q \in Requests : q # r => request'[q] = request[q]
    BY <1>5, CheckFacts
  <2>. QED BY <1>2, <2>1, <2>2, <2>3
<1>6. ASSUME NEW r \in Requests, CheckFails(r) PROVE AnsweredInv'
  BY <1>2, <1>6, CheckFailsFacts
<1>7. ASSUME NEW r \in Requests, Reject(r) PROVE AnsweredInv'
  <2>1. /\ request'[r].pc = "refused" /\ request'[r].answered = now /\ request'[r].wait \in Nat
        /\ request'[r].wait >= Reset(request[r].at, Window(r)) - now \div PerSecond
        /\ Advances /\ Sent(r) /\ \A q \in Requests : q # r => request'[q] = request[q]
    BY <1>7, RejectFacts DEF AnsweredInv, Sent
  <2>. PICK wait \in Nat : wait = request'[r].wait
    BY <2>1
  <2>2. request[r].at + Window(r) < now + (wait + 1) * PerSecond
    BY <2>1, AnswerIsEnough
  <2>3. request'[r].at = request[r].at /\ Window(r)' = Window(r)
    BY <2>1, KeyStays DEF Advances
  <2>4. request'[r].at + Window(r)' < request'[r].answered + (request'[r].wait + 1) * PerSecond
    BY <2>1, <2>2, <2>3
  <2>5. request'[r].pc # "rejected"
    BY <2>1
  <2>. QED BY <1>2, <2>1, <2>4, <2>5
<1>8. CASE Tick
  <2>1. Advances /\ UNCHANGED request
    BY <1>8 DEF Tick, Advances, Sent, Started
  <2>. QED BY <1>1, <2>1 DEF AnsweredInv, Sent
<1>. QED BY <1>3, <1>4, <1>5, <1>6, <1>7, <1>8 DEF Next

-----------------------------------------------------------------------------
(* The limit.                                                               *)

LEMMA Subsets ==
  ASSUME NEW S \in SUBSET Requests, NEW T \in SUBSET S
  PROVE  Cardinality(S) \in Nat /\ Cardinality(T) \in Nat /\ Cardinality(T) <= Cardinality(S)
<1>1. IsFiniteSet(S)
  BY FS_Subset, RequestsAssumption
<1>2. IsFiniteSet(T) /\ Cardinality(T) <= Cardinality(S)
  BY <1>1, FS_Subset
<1>. QED BY <1>1, <1>2, FS_CardinalityType

\* Whoever was let through in a stretch that ends no earlier than a check is counted by it.
LEMMA ThroughIsCounted ==
  ASSUME Typed, Typed', DelayInv, MembersInv, KeptInv, NEW r \in Requests, Check(r),
         NEW s \in Requests, r \in Through(s)', Sent(s)
  PROVE  /\ Cardinality(Through(s)') <= Cardinality(stamps'[KeyOf(r)])
         /\ Cardinality(stamps'[KeyOf(r)]) \in Nat
<1>. /\ request[r].pc = "stamped" /\ Count(r) /\ UNCHANGED now /\ Advances
     /\ \A q \in Requests : q # r => request'[q] = request[q]
     /\ Sent(r) /\ now \in Nat /\ MaxDelay \in Nat
  BY CheckFacts, ClockAssumption DEF Sent, Typed, TypeOK
<1>. DEFINE T == stamps'[KeyOf(r)]
            f == [q \in Through(s)' |-> <<request'[q].at, q>>]
<1>1. IsFiniteSet(T) /\ Cardinality(T) \in Nat
  BY CountedIsFinite, FS_CardinalityType
<1>2. ASSUME NEW q \in Requests, q \in Through(s)'
      PROVE  <<request'[q].at, q>> \in T
  <2>1. /\ request'[q].pc = "allowed" /\ Sent(q)
        /\ q # r => Counts(q)
    BY <1>2 DEF Through, Counts, Sent
  <2>2. /\ KeyOf(q) = KeyOf(s) /\ KeyOf(r) = KeyOf(s)
        /\ request[q].at > request[s].at - Window(s) + MaxDelay
        /\ request[r].at <= request[s].at
        /\ request'[q].at = request[q].at
    BY <1>2, <2>1, KeyStays DEF Through, Advances
  <2>3. Window(q) = Window(s) /\ Window(r) = Window(s)
    BY <2>2, KeyFacts DEF KeyOf, Window
  <2>4. /\ request[q].at \in Nat /\ request[r].at \in Nat /\ request[s].at \in Nat
        /\ Window(s) \in Nat /\ KeyOf(r) \in Keys /\ expiry[KeyOf(r)] \in Nat
    BY <2>1, SentFacts DEF Typed
  <2>5. CASE q = r
    BY <2>2, <2>4, <2>5, CountEffect
  <2>6. CASE q # r
    <3>1. now <= request[r].at + MaxDelay
      BY DEF DelayInv
    <3>2. ~ (request[q].at + Window(s) <= now)
      BY <2>2, <2>4, <3>1
    <3>3. Member(q) \in stamps[KeyOf(r)] /\ request[q].at + Window(s) <= expiry[KeyOf(r)]
      BY <2>1, <2>2, <2>3, <2>6, <3>2 DEF KeptInv
    <3>4. now < expiry[KeyOf(r)]
      BY <2>4, <3>2, <3>3
    <3>5. request[q].at > request[r].at - Window(r)
      BY <2>2, <2>3, <2>4
    <3>. QED BY <2>2, <2>4, <3>3, <3>4, <3>5, CountEffect DEF Member
  <2>. QED BY <2>5, <2>6
<1>3. Through(s)' \subseteq Requests
  BY DEF Through
<1>4. f \in Injection(Through(s)', T)
  <2>1. f \in [Through(s)' -> T]
    BY <1>2, <1>3
  <2>2. IsInjective(f)
    BY DEF IsInjective
  <2>. QED BY <2>1, <2>2 DEF Injection
<1>5. Cardinality(Through(s)') <= Cardinality(T)
  BY <1>1, <1>4, FS_Injection
<1>. QED BY <1>1, <1>5

\* The limit holds on for a request whose stretch nobody new was let through.
LEMMA NobodyNew ==
  ASSUME Advances, WindowInv, NEW s \in Requests, request[s].pc = "allowed", Limit(s) \in Nat,
         \A q \in Requests : q \in Through(s)' => request[q].pc = "allowed"
  PROVE  Cardinality(Through(s)') <= Limit(s)'
<1>1. Through(s)' \subseteq Through(s)
  <2>. SUFFICES ASSUME NEW q \in Requests, q \in Through(s)' PROVE q \in Through(s)
    BY DEF Through
  <2>1. Sent(q) /\ Sent(s)
    BY DEF Sent
  <2>. QED BY <2>1, KeyStays DEF Through, Advances
<1>2. Through(s) \subseteq Requests
  BY DEF Through
<1>3. Cardinality(Through(s)') <= Cardinality(Through(s)) /\ Cardinality(Through(s)) \in Nat
      /\ Cardinality(Through(s)') \in Nat
  BY <1>1, <1>2, Subsets
<1>4. Cardinality(Through(s)) <= Limit(s)
  BY DEF WindowInv
<1>5. Limit(s)' = Limit(s)
  BY KeyStays DEF Sent
<1>. QED BY <1>3, <1>4, <1>5

LEMMA NextWindow ==
  ASSUME Typed, Typed', DelayInv, MembersInv, KeptInv, WindowInv, [Next]_vars
  PROVE  WindowInv'
<1>1. ASSUME Advances, \A q \in Requests : request'[q].pc = "allowed" => request[q].pc = "allowed"
      PROVE  WindowInv'
  <2>. SUFFICES ASSUME NEW s \in Requests, request'[s].pc = "allowed"
                PROVE  Cardinality(Through(s)') <= Limit(s)'
    BY DEF WindowInv
  <2>1. request[s].pc = "allowed" /\ Limit(s) \in Nat
    BY <1>1, SentFacts DEF Sent
  <2>2. \A q \in Requests : q \in Through(s)' => request[q].pc = "allowed"
    BY <1>1 DEF Through
  <2>. QED BY <1>1, <2>1, <2>2, NobodyNew
<1>2. CASE UNCHANGED vars
  <2>1. Advances /\ UNCHANGED request
    BY <1>2 DEF vars, Advances, Sent, Started
  <2>. QED BY <1>1, <2>1
<1>3. ASSUME NEW r \in Requests, NEW c \in Clients, NEW t \in Targets, Stamp(r, c, t) PROVE WindowInv'
  BY <1>1, <1>3, StampFacts
<1>4. ASSUME NEW r \in Requests, Check(r) PROVE WindowInv'
  <2>. SUFFICES ASSUME NEW s \in Requests, request'[s].pc = "allowed"
                PROVE  Cardinality(Through(s)') <= Limit(s)'
    BY DEF WindowInv
  <2>1. /\ Advances /\ request[r].pc = "stamped" /\ Count(r)
        /\ request'[r].pc = IF Cardinality(stamps'[KeyOf(r)]) > Limit(r) THEN "rejected" ELSE "allowed"
        /\ \A q \in Requests : q # r => request'[q] = request[q]
    BY <1>4, CheckFacts
  <2>2. Sent(r) /\ Sent(s) /\ (s # r => request[s].pc = "allowed")
    BY <2>1 DEF Sent
  <2>3. Limit(s) \in Nat /\ Limit(r) \in Nat /\ Limit(s)' = Limit(s)
    BY <2>1, <2>2, SentFacts, KeyStays
  <2>4. CASE r \in Through(s)'
    <3>1. request'[r].pc = "allowed" /\ KeyOf(r)' = KeyOf(s)'
      BY <2>4 DEF Through
    <3>2. KeyOf(r) = KeyOf(s)
      BY <2>1, <2>2, <3>1, KeyStays
    <3>3. Limit(r) = Limit(s)
      BY <3>2, KeyFacts DEF KeyOf, Limit
    <3>4. Cardinality(Through(s)') <= Cardinality(stamps'[KeyOf(r)]) /\ Cardinality(stamps'[KeyOf(r)]) \in Nat
      BY <1>4, <2>2, <2>4, ThroughIsCounted
    <3>5. Cardinality(stamps'[KeyOf(r)]) <= Limit(r)
      BY <2>1, <2>3, <3>1, <3>4
    <3>6. Cardinality(Through(s)') \in Nat
      <4>1. Through(s)' \subseteq Requests
        BY DEF Through
      <4>. QED BY <4>1, Subsets
    <3>. QED BY <2>3, <3>3, <3>4, <3>5, <3>6
  <2>5. CASE r \notin Through(s)' /\ s # r
    <3>1. \A q \in Requests : q \in Through(s)' => request[q].pc = "allowed"
      BY <2>1, <2>5 DEF Through
    <3>. QED BY <2>1, <2>2, <2>3, <2>5, <3>1, NobodyNew
  <2>6. CASE r \notin Through(s)' /\ s = r
    <3>1. request'[s].at \in Nat /\ Window(s)' \in Nat /\ MaxDelay \in Nat
      BY <2>1, <2>2, SentFacts, KeyStays, ClockAssumption DEF Advances
    <3>2. Through(s)' = {}
      BY <2>6, <3>1 DEF Through, Typed, TypeOK
    <3>. QED BY <2>3, <3>2, FS_EmptySet
  <2>. QED BY <2>4, <2>5, <2>6
<1>5. ASSUME NEW r \in Requests, CheckFails(r) PROVE WindowInv'
  BY <1>1, <1>5, CheckFailsFacts
<1>6. ASSUME NEW r \in Requests, Reject(r) PROVE WindowInv'
  BY <1>1, <1>6, RejectFacts
<1>7. CASE Tick
  <2>1. Advances /\ UNCHANGED request
    BY <1>7 DEF Tick, Advances, Sent, Started
  <2>. QED BY <1>1, <2>1
<1>. QED BY <1>2, <1>3, <1>4, <1>5, <1>6, <1>7 DEF Next

-----------------------------------------------------------------------------
(* The refusals.                                                            *)

\* A refusal counts nothing but the requests of a window.
LEMMA CountedAreBlamed ==
  ASSUME Typed, MembersInv, MembersInv', NEW r \in Requests, Check(r), request'[r].pc = "rejected"
  PROVE  Cardinality(Blamed(r)') >= Limit(r)
<1>. /\ request[r].pc = "stamped" /\ Count(r) /\ UNCHANGED now /\ Advances
     /\ Cardinality(stamps'[KeyOf(r)]) > Limit(r)
     /\ Sent(r) /\ Limit(r) \in Nat /\ KeyOf(r) \in Keys /\ request[r].at \in Nat /\ Window(r) \in Nat
     /\ KeyOf(r)' = KeyOf(r) /\ Window(r)' = Window(r) /\ request'[r].at = request[r].at
  <2>1. /\ request[r].pc = "stamped" /\ Count(r) /\ UNCHANGED now /\ Advances
        /\ Cardinality(stamps'[KeyOf(r)]) > Limit(r)
    BY CheckFacts
  <2>2. Sent(r)
    BY <2>1 DEF Sent
  <2>. QED BY <2>1, <2>2, SentFacts, KeyStays DEF Advances
<1>. DEFINE T == stamps'[KeyOf(r)]
            S == T \ {Member(r)}
            f == [m \in S |-> m[2]]
<1>1. IsFiniteSet(T) /\ Cardinality(T) \in Nat
  BY CountedIsFinite, FS_CardinalityType
<1>2. IsFiniteSet(S) /\ Cardinality(S) >= Limit(r) /\ Cardinality(S) \in Nat
  <2>1. IsFiniteSet(S) /\ Cardinality(S) = IF Member(r) \in T THEN Cardinality(T) - 1 ELSE Cardinality(T)
    BY <1>1, FS_RemoveElement
  <2>2. Cardinality(S) \in Nat
    BY <2>1, FS_CardinalityType
  <2>. QED BY <1>1, <2>1, <2>2
<1>3. T \subseteq Nat \X Requests
  BY CountEffect
<1>4. ASSUME NEW at \in Nat, NEW q \in Requests, <<at, q>> \in S
      PROVE  q \in Blamed(r)' /\ request'[q].at = at
  <2>1. Started(q)' /\ request'[q].at = at /\ KeyOf(q)' = KeyOf(r)
    BY <1>4 DEF MembersInv
  <2>2. \/ at = request[r].at /\ q = r
        \/ at > request[r].at - Window(r)
    BY <1>4, CountEffect
  <2>3. q # r
    BY <1>4, <2>1 DEF Member
  <2>. QED BY <2>1, <2>2, <2>3 DEF Blamed
<1>5. Blamed(r)' \subseteq Requests
  BY DEF Blamed
<1>6. IsFiniteSet(Blamed(r)')
  BY <1>5, FS_Subset, RequestsAssumption
<1>7. f \in Injection(S, Blamed(r)')
  <2>1. f \in [S -> Blamed(r)']
    <3>. SUFFICES ASSUME NEW m \in S PROVE m[2] \in Blamed(r)'
      OBVIOUS
    <3>1. PICK at \in Nat, q \in Requests : m = <<at, q>>
      BY <1>3
    <3>. QED BY <1>4, <3>1
  <2>2. ASSUME NEW m \in S, NEW n \in S, m[2] = n[2] PROVE m = n
    <3>1. PICK at \in Nat, q \in Requests : m = <<at, q>>
      BY <1>3
    <3>2. PICK bt \in Nat, p \in Requests : n = <<bt, p>>
      BY <1>3
    <3>3. p = q /\ request'[q].at = at /\ request'[q].at = bt
      BY <1>4, <2>2, <3>1, <3>2
    <3>. QED BY <3>1, <3>2, <3>3
  <2>3. IsInjective(f)
    BY <2>2 DEF IsInjective
  <2>. QED BY <2>1, <2>3 DEF Injection
<1>8. Cardinality(S) <= Cardinality(Blamed(r)') /\ Cardinality(Blamed(r)') \in Nat
  BY <1>6, <1>7, FS_Injection, FS_CardinalityType
<1>. QED BY <1>2, <1>8

LEMMA NextBlamed ==
  ASSUME Typed, MembersInv, MembersInv', BlamedInv, [Next]_vars
  PROVE  BlamedInv'
<1>1. ASSUME Advances, NEW s \in Requests, request[s].pc \in {"rejected", "refused"}
      PROVE  Cardinality(Blamed(s)') >= Limit(s)'
  <2>1. Blamed(s) \subseteq Blamed(s)' /\ Blamed(s)' \subseteq Requests
    <3>1. \A q \in Requests : Started(q) => Sent(q)
      BY DEF Started, Sent
    <3>2. Sent(s)
      BY <1>1 DEF Sent
    <3>. QED BY <1>1, <3>1, <3>2, KeyStays DEF Blamed, Advances
  <2>2. /\ Cardinality(Blamed(s)) <= Cardinality(Blamed(s)')
        /\ Cardinality(Blamed(s)') \in Nat /\ Cardinality(Blamed(s)) \in Nat
    BY <2>1, Subsets
  <2>3. Cardinality(Blamed(s)) >= Limit(s)
    BY <1>1 DEF BlamedInv
  <2>4. Limit(s)' = Limit(s) /\ Limit(s) \in Nat
    BY <1>1, SentFacts, KeyStays DEF Sent
  <2>. QED BY <2>2, <2>3, <2>4
<1>2. ASSUME Advances, \A q \in Requests :
        request'[q].pc \in {"rejected", "refused"} => request[q].pc \in {"rejected", "refused"}
      PROVE  BlamedInv'
  BY <1>1, <1>2 DEF BlamedInv
<1>3. CASE UNCHANGED vars
  <2>1. Advances /\ UNCHANGED request
    BY <1>3 DEF vars, Advances, Sent, Started
  <2>. QED BY <1>2, <2>1
<1>4. ASSUME NEW r \in Requests, NEW c \in Clients, NEW t \in Targets, Stamp(r, c, t) PROVE BlamedInv'
  BY <1>2, <1>4, StampFacts
<1>5. ASSUME NEW r \in Requests, Check(r) PROVE BlamedInv'
  <2>1. /\ Advances /\ request'[r].pc \in {"rejected", "allowed"}
        /\ \A q \in Requests : q # r => request'[q] = request[q]
    BY <1>5, CheckFacts
  <2>2. request'[r].pc = "rejected" => Cardinality(Blamed(r)') >= Limit(r)'
    <3>1. Limit(r)' = Limit(r)
      BY <1>5, CheckFacts, KeyStays DEF Sent
    <3>. QED BY <1>5, <3>1, CountedAreBlamed
  <2>. QED BY <1>1, <2>1, <2>2 DEF BlamedInv
<1>6. ASSUME NEW r \in Requests, CheckFails(r) PROVE BlamedInv'
  BY <1>2, <1>6, CheckFailsFacts
<1>7. ASSUME NEW r \in Requests, Reject(r) PROVE BlamedInv'
  BY <1>2, <1>7, RejectFacts
<1>8. CASE Tick
  <2>1. Advances /\ UNCHANGED request
    BY <1>8 DEF Tick, Advances, Sent, Started
  <2>. QED BY <1>2, <2>1
<1>. QED BY <1>3, <1>4, <1>5, <1>6, <1>7, <1>8 DEF Next

-----------------------------------------------------------------------------
(* The promises.                                                            *)

Invs == Typed /\ DelayInv /\ MembersInv /\ KeptInv /\ AnsweredInv /\ WindowInv /\ BlamedInv

LEMMA InitInvs == Init => Invs
<1>. SUFFICES ASSUME Init PROVE Invs
  OBVIOUS
<1>1. Typed
  BY InitTyped
<1>2. \A r \in Requests : request[r].pc = "new"
  BY DEF Init, NoRequest
<1>3. MembersInv
  BY FS_EmptySet DEF Init, MembersInv
<1>4. DelayInv /\ KeptInv /\ AnsweredInv /\ WindowInv /\ BlamedInv
  BY <1>2 DEF DelayInv, KeptInv, Counts, AnsweredInv, WindowInv, BlamedInv
<1>. QED BY <1>1, <1>3, <1>4 DEF Invs

LEMMA NextInvs == Invs /\ [Next]_vars => Invs'
<1>. SUFFICES ASSUME Invs, [Next]_vars PROVE Invs'
  OBVIOUS
<1>1. Typed'
  BY NextTyped DEF Invs
<1>2. DelayInv' /\ MembersInv' /\ KeptInv' /\ AnsweredInv'
  BY NextDelay, NextMembers, NextAnswered DEF Invs
<1>3. WindowInv'
  BY <1>1, NextWindow DEF Invs
<1>4. BlamedInv'
  BY <1>2, NextBlamed DEF Invs
<1>. QED BY <1>1, <1>2, <1>3, <1>4 DEF Invs

\* The invariants of the counters hold always, with no hypothesis on the routes.
THEOREM CountersAlways == Spec => []Invs
<1>. QED BY InitInvs, NextInvs, PTL DEF Spec

-----------------------------------------------------------------------------
(* The routing.                                                             *)

LEMMA StripIsSeq ==
  ASSUME NEW S, NEW path \in Seq(S)
  PROVE  Strip(path) \in Seq(S)
<1>. DEFINE Blank(n) == \A i \in n + 1..Len(path) : path[i] = Empty
            T == {n \in 0..Len(path) : Blank(n)}
            R == {ss \in Nat \X Nat : ss[1] < ss[2]}
<1>0. Len(path) \in Nat
  OBVIOUS
<1>1. Len(path) \in T
  BY <1>0
<1>2. PICK n \in T : \A m \in T : ~ (<<m, n>> \in R)
  <2>1. T \subseteq Nat /\ T # {}
    BY <1>0, <1>1
  <2>2. IsWellFoundedOn(R, Nat)
    BY NatLessThanWellFounded DEF OpToRel
  <2>. HIDE DEF T, R
  <2>. QED BY <2>1, <2>2, WFMin
<1>3. n > 0 => path[n] # Empty
  <2>. SUFFICES ASSUME n > 0, path[n] = Empty PROVE FALSE
    OBVIOUS
  <2>1. n - 1 \in 0..Len(path) /\ n - 1 < n /\ n \in Nat /\ n - 1 \in Nat
    BY <1>0
  <2>2. Blank(n - 1)
    BY <1>0, <2>1
  <2>3. <<n - 1, n>> \in R
    BY <2>1
  <2>. QED BY <1>2, <2>1, <2>2, <2>3
<1>4. PICK k \in 0..Len(path) : Strip(path) = SubSeq(path, 1, k)
  BY <1>2, <1>3 DEF Strip
<1>. QED BY <1>0, <1>4

\* A served path, without trailing slashes, and the shape of its route.
Parts(t) == Strip(t[2])
Shape(t) == Route(t)[2]
Segments(t) == {t[2][i] : i \in DOMAIN t[2]} \cup {"documents", DocumentId, "analyses", AnalysisId}

LEMMA PartsTyped ==
  ASSUME NEW t \in Served
  PROVE  Parts(t) \in Seq(Segments(t)) /\ Len(Parts(t)) \in Nat
<1>. DEFINE S == {t[2][i] : i \in DOMAIN t[2]}
<1>1. t[2] \in Seq(S)
  BY ServedAssumption
<1>. HIDE DEF S
<1>2. Parts(t) \in Seq(S)
  BY <1>1, StripIsSeq DEF Parts
<1>3. S \subseteq Segments(t)
  BY DEF S, Segments
<1>. QED BY <1>2, <1>3

LEMMA RestOfSeq ==
  ASSUME NEW S, NEW s \in Seq(S), NEW k \in 1..Len(s) + 1
  PROVE  /\ SubSeq(s, k, Len(s)) \in Seq(S) /\ Len(SubSeq(s, k, Len(s))) = Len(s) - k + 1
         /\ \A i \in 1..Len(s) - k + 1 : SubSeq(s, k, Len(s))[i] = s[k + i - 1]
<1>1. k \in Int /\ Len(s) \in Nat /\ \A i \in k..Len(s) : s[i] \in S
  OBVIOUS
<1>2. /\ SubSeq(s, k, Len(s)) \in Seq(S)
      /\ Len(SubSeq(s, k, Len(s))) = IF k <= Len(s) THEN Len(s) - k + 1 ELSE 0
      /\ \A i \in 1..Len(s) - k + 1 : SubSeq(s, k, Len(s))[i] = s[k + i - 1]
  BY <1>1, SubSeqProperties
<1>. QED BY <1>1, <1>2

\* A sequence whose first n elements are replaced.
LEMMA NewHead ==
  ASSUME NEW S, NEW s \in Seq(S), NEW head \in Seq(S), Len(head) <= Len(s),
         NEW new, new = head \o SubSeq(s, Len(head) + 1, Len(s))
  PROVE  /\ new \in Seq(S) /\ Len(new) = Len(s)
         /\ \A i \in 1..Len(s) : new[i] = IF i <= Len(head) THEN head[i] ELSE s[i]
<1>. DEFINE n == Len(head)
            tail == SubSeq(s, n + 1, Len(s))
<1>0. new = head \o tail
  OBVIOUS
<1>1. n \in Nat /\ Len(s) \in Nat /\ n + 1 \in 1..Len(s) + 1
  OBVIOUS
<1>2. /\ tail \in Seq(S) /\ Len(tail) = Len(s) - (n + 1) + 1
      /\ \A i \in 1..Len(s) - (n + 1) + 1 : tail[i] = s[(n + 1) + i - 1]
  BY <1>1, RestOfSeq
<1>3. Len(tail) = Len(s) - n /\ \A i \in 1..Len(s) - n : tail[i] = s[n + i]
  <2>. HIDE DEF n, tail
  <2>. QED BY <1>1, <1>2
<1>4. /\ new \in Seq(S) /\ Len(new) = n + Len(tail)
      /\ \A i \in 1..n + Len(tail) : new[i] = IF i <= n THEN head[i] ELSE tail[i - n]
  BY <1>0, <1>2, ConcatProperties
<1>5. \A i \in 1..Len(s) : new[i] = IF i <= n THEN head[i] ELSE s[i]
  <2>. SUFFICES ASSUME NEW i \in 1..Len(s) PROVE new[i] = IF i <= n THEN head[i] ELSE s[i]
    OBVIOUS
  <2>1. CASE i <= n
    <3>. HIDE DEF n, tail
    <3>1. i \in 1..n + Len(tail)
      BY <1>1, <1>3, <2>1
    <3>. QED BY <1>4, <2>1, <3>1
  <2>2. CASE ~ (i <= n)
    <3>. HIDE DEF n, tail
    <3>1. i - n \in 1..Len(s) - n /\ n + (i - n) = i
      BY <1>1, <2>2
    <3>. QED BY <1>1, <1>3, <1>4, <2>2, <3>1
  <2>. QED BY <2>1, <2>2
<1>. QED BY <1>1, <1>3, <1>4, <1>5

LEMMA NamesAreSegments ==
  ASSUME NEW t
  PROVE  {"documents", DocumentId, "analyses", AnalysisId} \subseteq Segments(t)
  BY DEF Segments

LEMMA ShapeIs ==
  ASSUME NEW t \in Served
  PROVE  /\ Shape(t) \in Seq(Segments(t)) /\ Len(Shape(t)) = Len(Parts(t)) /\ Route(t) = <<t[1], Shape(t)>>
         /\ \A i \in 1..Len(Parts(t)) :
              Shape(t)[i] = IF Parts(t)[1] # "documents" THEN Parts(t)[i]
                            ELSE IF i = 2 THEN DocumentId
                            ELSE IF i = 4 THEN AnalysisId ELSE Parts(t)[i]
<1>. DEFINE p == Parts(t)
            shape == [i \in 1..Len(p) |-> IF p[1] # "documents" THEN p[i]
                                          ELSE IF i = 2 THEN DocumentId
                                          ELSE IF i = 4 THEN AnalysisId ELSE p[i]]
<1>1. p \in Seq(Segments(t)) /\ Len(p) \in Nat
  BY PartsTyped
<1>2. Route(t) = <<t[1], shape>> /\ Shape(t) = shape
  BY DEF Route, Shape, Parts
<1>3. shape \in [1..Len(p) -> Segments(t)]
  <2>1. \A i \in 1..Len(p) : p[i] \in Segments(t)
    BY <1>1
  <2>2. DocumentId \in Segments(t) /\ AnalysisId \in Segments(t)
    BY NamesAreSegments
  <2>. HIDE DEF p
  <2>. QED BY <2>1, <2>2
<1>4. shape \in Seq(Segments(t)) /\ Len(shape) = Len(p)
  BY <1>1, <1>3
<1>. QED BY <1>2, <1>4

\* Below a document there are only its analyses and its download.
LEMMA AnalysesBelow ==
  ASSUME NEW t \in Served, Parts(t)[1] = "documents", Len(Parts(t)) >= 4
  PROVE  Parts(t)[3] = "analyses"
<1>1. Len(Parts(t)) \in Nat
  BY PartsTyped
<1>2. Shape(t)[1] = "documents" /\ Shape(t)[3] = Parts(t)[3] /\ Len(Shape(t)) >= 4
  BY <1>1, ShapeIs
<1>3. ~ StatusOfUser(t)
  BY DEF StatusOfUser, Parts
<1>4. Route(t) \in Routes
  BY <1>3, ServedAssumption
<1>5. Shape(t) \in {<<"auth", "login">>, <<"auth", "refresh">>, <<"auth", "logout">>,
                   <<"users", "register">>, <<"admin", "prompts">>, Documents, Document,
                   <<"documents", DocumentId, "download">>, Analyses, Analysis, Retry}
  BY <1>4, ShapeIs DEF Routes
<1>6. \A a, b, c : Len(<<a>>) = 1 /\ Len(<<a, b>>) = 2 /\ Len(<<a, b, c>>) = 3
  OBVIOUS
<1>7. /\ Len(Documents) = 1 /\ Len(Document) = 2 /\ Len(Analyses) = 3
  BY <1>6 DEF Documents, Document, Analyses
<1>8. Analysis[3] = "analyses" /\ Retry[3] = "analyses"
  BY DEF Analysis, Retry
<1>9. ASSUME NEW x, x \notin {Analysis, Retry},
             x \in {<<"auth", "login">>, <<"auth", "refresh">>, <<"auth", "logout">>,
                   <<"users", "register">>, <<"admin", "prompts">>, Documents, Document,
                   <<"documents", DocumentId, "download">>, Analyses, Analysis, Retry}
      PROVE  Len(x) = 1 \/ Len(x) = 2 \/ Len(x) = 3
  BY <1>6, <1>7, <1>9, Zenon
<1>10. Shape(t) \in {Analysis, Retry}
  BY <1>2, <1>5, <1>9
<1>. QED BY <1>2, <1>8, <1>10

\* The middleware names a path as the routers do, where its document is named by digits.
LEMMA NormalizedIsShape ==
  ASSUME NEW t \in Served, Plain(t)
  PROVE  NormalizePath(t[2]) = Shape(t)
<1>. DEFINE p == Parts(t)
<1>1. p \in Seq(Segments(t)) /\ Len(p) \in Nat
  BY PartsTyped
<1>2. Shape(t) \in Seq(Segments(t)) /\ Len(Shape(t)) = Len(p)
  BY ShapeIs
<1>3. CASE ~ (Len(p) >= 2 /\ p[1] = "documents")
  <2>1. NormalizePath(t[2]) = p
    BY <1>3 DEF NormalizePath, Parts
  <2>2. \A i \in 1..Len(p) : Shape(t)[i] = p[i]
    BY <1>1, <1>3, ShapeIs
  <2>. QED BY <1>1, <1>2, <2>1, <2>2, SeqEqual
<1>4. CASE Len(p) >= 2 /\ p[1] = "documents"
  <2>0. p[2] \in Ids
    BY <1>4 DEF Plain, Parts
  <2>1. CASE Len(p) >= 4
    <3>1. p[3] = "analyses"
      BY <1>4, <2>1, AnalysesBelow
    <3>2. PICK head : head = <<"documents", DocumentId, "analyses", AnalysisId>>
      OBVIOUS
    <3>3. head \in Seq(Segments(t)) /\ Len(head) = 4
      BY <3>2, NamesAreSegments
    <3>4. PICK new : new = head \o SubSeq(p, Len(head) + 1, Len(p))
      OBVIOUS
    <3>5. NormalizePath(t[2]) = new
      BY <1>4, <2>0, <2>1, <3>1, <3>2, <3>3, <3>4 DEF NormalizePath, Parts
    <3>6. /\ new \in Seq(Segments(t)) /\ Len(new) = Len(p)
          /\ \A i \in 1..Len(p) : new[i] = IF i <= 4 THEN head[i] ELSE p[i]
      <4>1. p \in Seq(Segments(t)) /\ Len(head) <= Len(p)
        BY <1>1, <2>1, <3>3
      <4>2. /\ new \in Seq(Segments(t)) /\ Len(new) = Len(p)
            /\ \A i \in 1..Len(p) : new[i] = IF i <= Len(head) THEN head[i] ELSE p[i]
        <5>. HIDE DEF p
        <5>1. PICK S, q : S = Segments(t) /\ q = p
          OBVIOUS
        <5>2. q \in Seq(S) /\ head \in Seq(S) /\ Len(head) <= Len(q)
          BY <3>3, <4>1, <5>1
        <5>3. new = head \o SubSeq(q, Len(head) + 1, Len(q))
          BY <3>4, <5>1
        <5>4. /\ new \in Seq(S) /\ Len(new) = Len(q)
              /\ \A i \in 1..Len(q) : new[i] = IF i <= Len(head) THEN head[i] ELSE q[i]
          BY <5>2, <5>3, NewHead
        <5>. QED BY <5>1, <5>4
      <4>. QED BY <3>3, <4>2
    <3>7. \A i \in 1..Len(p) : new[i] = Shape(t)[i]
      <4>1. \A i \in 1..4 : head[i] = IF i = 2 THEN DocumentId ELSE IF i = 4 THEN AnalysisId ELSE p[i]
        BY <1>4, <3>1, <3>2
      <4>. QED BY <1>1, <1>4, <3>6, <4>1, ShapeIs
    <3>. QED BY <1>2, <3>5, <3>6, <3>7, SeqEqual
  <2>2. CASE ~ (Len(p) >= 4)
    <3>2. PICK head : head = <<"documents", DocumentId>>
      OBVIOUS
    <3>3. head \in Seq(Segments(t)) /\ Len(head) = 2
      BY <3>2, NamesAreSegments
    <3>4. PICK new : new = head \o SubSeq(p, Len(head) + 1, Len(p))
      OBVIOUS
    <3>5. NormalizePath(t[2]) = new
      BY <1>4, <2>0, <2>2, <3>2, <3>3, <3>4 DEF NormalizePath, Parts
    <3>6. /\ new \in Seq(Segments(t)) /\ Len(new) = Len(p)
          /\ \A i \in 1..Len(p) : new[i] = IF i <= 2 THEN head[i] ELSE p[i]
      <4>1. p \in Seq(Segments(t)) /\ Len(head) <= Len(p)
        BY <1>1, <1>4, <3>3
      <4>2. /\ new \in Seq(Segments(t)) /\ Len(new) = Len(p)
            /\ \A i \in 1..Len(p) : new[i] = IF i <= Len(head) THEN head[i] ELSE p[i]
        <5>. HIDE DEF p
        <5>1. PICK S, q : S = Segments(t) /\ q = p
          OBVIOUS
        <5>2. q \in Seq(S) /\ head \in Seq(S) /\ Len(head) <= Len(q)
          BY <3>3, <4>1, <5>1
        <5>3. new = head \o SubSeq(q, Len(head) + 1, Len(q))
          BY <3>4, <5>1
        <5>4. /\ new \in Seq(S) /\ Len(new) = Len(q)
              /\ \A i \in 1..Len(q) : new[i] = IF i <= Len(head) THEN head[i] ELSE q[i]
          BY <5>2, <5>3, NewHead
        <5>. QED BY <5>1, <5>4
      <4>. QED BY <3>3, <4>2
    <3>7. \A i \in 1..Len(p) : new[i] = Shape(t)[i]
      BY <1>1, <1>4, <2>2, <3>2, <3>6, ShapeIs
    <3>. QED BY <1>2, <3>5, <3>6, <3>7, SeqEqual
  <2>. QED BY <2>1, <2>2
<1>. QED BY <1>3, <1>4

\* No other path is named like it.
LEMMA OtherIsNotNormalized ==
  ASSUME NEW t \in Served, Plain(t), NEW u \in Served, ~ Plain(u)
  PROVE  NormalizePath(u[2]) # Shape(t)
<1>1. Len(Parts(u)) >= 2 /\ Parts(u)[1] = "documents" /\ Parts(u)[2] \notin Ids
  BY DEF Plain, Parts
<1>2. NormalizePath(u[2]) = Parts(u)
  BY <1>1 DEF NormalizePath, Parts
<1>3. Parts(u)[2] # DocumentId
  BY <1>1, ServedAssumption DEF Parts
<1>. SUFFICES ASSUME Parts(u) = Shape(t) PROVE FALSE
  BY <1>2
<1>4. Len(Parts(t)) >= 2 /\ Len(Parts(t)) \in Nat
  BY <1>1, ShapeIs, PartsTyped
<1>5. Parts(t)[1] = "documents" /\ Shape(t)[2] = DocumentId
  BY <1>1, <1>4, ShapeIs
<1>. QED BY <1>3, <1>5

\* The settings that the middleware has for a route are those that are named for it.
LEMMA SettingIsNamed ==
  ASSUME NEW route \in Routes, NEW s \in DOMAIN RouteSettings
  PROVE  route \in RouteSettings[s] <=> s = Setting(route[1], route[2])
<1>. USE DEF Documents, Document, Analyses, Analysis, Retry
<1>1. route[1] \in {"POST", "GET", "DELETE"} /\ route = <<route[1], route[2]>>
  BY DEF Routes
<1>2. CASE s = "login"
  BY <1>1, <1>2 DEF RouteSettings, Setting, Routes
<1>3. CASE s = "register"
  BY <1>1, <1>3 DEF RouteSettings, Setting, Routes
<1>4. CASE s = "documents_post"
  BY <1>1, <1>4 DEF RouteSettings, Setting, Routes
<1>5. CASE s = "documents_get"
  BY <1>1, <1>5 DEF RouteSettings, Setting, Routes
<1>6. CASE s = "analyses_get"
  BY <1>1, <1>6 DEF RouteSettings, Setting, Routes
<1>7. CASE s = "analyses_post"
  BY <1>1, <1>7 DEF RouteSettings, Setting, Routes
<1>. QED BY <1>2, <1>3, <1>4, <1>5, <1>6, <1>7 DEF RouteSettings

LEMMA SettingAgrees ==
  ASSUME NEW t \in Served, Plain(t)
  PROVE  Setting(t[1], NormalizePath(t[2])) = SettingOfRoute(t)
<1>. DEFINE named == {s \in DOMAIN RouteSettings : Route(t) \in RouteSettings[s]}
<1>1. NormalizePath(t[2]) = Shape(t) /\ Route(t) = <<t[1], Shape(t)>>
  BY NormalizedIsShape, ShapeIs
<1>2. SettingOfRoute(t) = IF named = {} THEN "global" ELSE CHOOSE s \in named : TRUE
  BY DEF SettingOfRoute
<1>3. CASE Route(t) \in Routes
  <2>1. \A s \in DOMAIN RouteSettings : s \in named <=> s = Setting(t[1], Shape(t))
    BY <1>1, <1>3, SettingIsNamed
  <2>2. Setting(t[1], Shape(t)) \in DOMAIN RouteSettings \cup {"global"}
    BY DEF Setting, RouteSettings
  <2>3. "global" \notin DOMAIN RouteSettings
    BY DEF RouteSettings
  <2>4. CASE Setting(t[1], Shape(t)) = "global"
    BY <1>1, <1>2, <2>1, <2>3, <2>4
  <2>5. CASE Setting(t[1], Shape(t)) \in DOMAIN RouteSettings
    <3>1. named = {Setting(t[1], Shape(t))}
      BY <2>1, <2>5
    <3>. HIDE DEF named
    <3>. QED BY <1>1, <1>2, <3>1
  <2>. QED BY <2>2, <2>4, <2>5
<1>4. CASE StatusOfUser(t)
  <2>1. t[1] = "PATCH"
    BY <1>4 DEF StatusOfUser
  <2>2. Setting(t[1], Shape(t)) = "global"
    BY <2>1 DEF Setting
  <2>3. named = {}
    BY <1>1, <2>1 DEF RouteSettings
  <2>. QED BY <1>1, <1>2, <2>2, <2>3
<1>. QED BY <1>3, <1>4, ServedAssumption

\* Every route of the API has the limit and the window named for it and one counter, as
\* long as documents are named by digits.
THEOREM RoutingAgrees == RoutesAgree
<1>. SUFFICES ASSUME NEW t \in Served, Plain(t)
              PROVE  /\ Setting(t[1], NormalizePath(t[2])) = SettingOfRoute(t)
                     /\ \A u \in Served, c, d \in Clients :
                          Key(t, c) = Key(u, d) <=> Plain(u) /\ Route(t) = Route(u) /\ c = d
  BY DEF RoutesAgree
<1>1. ASSUME NEW u \in Served, NEW c \in Clients, NEW d \in Clients
      PROVE  Key(t, c) = Key(u, d) <=> Plain(u) /\ Route(t) = Route(u) /\ c = d
  <2>1. Key(t, c) = Key(u, d) <=> t[1] = u[1] /\ Shape(t) = NormalizePath(u[2]) /\ c = d
    BY NormalizedIsShape DEF Key
  <2>2. Route(t) = Route(u) <=> t[1] = u[1] /\ Shape(t) = Shape(u)
    BY ShapeIs
  <2>3. CASE Plain(u)
    BY <2>1, <2>2, <2>3, NormalizedIsShape
  <2>4. CASE ~ Plain(u)
    BY <2>1, <2>4, OtherIsNotNormalized
  <2>. QED BY <2>3, <2>4
<1>. QED BY <1>1, SettingAgrees

-----------------------------------------------------------------------------
(* The promises.                                                            *)

\* A route and a client have one counter, with the limit and the window of the setting
\* that is named for the route.
LEMMA SameCounter ==
  ASSUME Typed, NEW q \in Requests, NEW r \in Requests, Sent(q), Sent(r),
         Plain(request[r].target)
  PROVE  Same(q, r) <=> KeyOf(q) = KeyOf(r)
<1>1. /\ request[q].client \in Clients /\ request[r].client \in Clients
      /\ request[q].target \in Served /\ request[r].target \in Served
  BY SentFacts, TargetsAssumption
<1>2. Key(request[r].target, request[r].client) = Key(request[q].target, request[q].client)
      <=> /\ Plain(request[q].target) /\ Route(request[r].target) = Route(request[q].target)
          /\ request[r].client = request[q].client
  BY <1>1, RoutingAgrees DEF RoutesAgree
<1>3. request[r].client # None
  BY <1>1, RequestsAssumption
<1>. QED BY <1>2, <1>3 DEF Same, KeyOf

LEMMA RuleOfRoute ==
  ASSUME Typed, NEW r \in Requests, Sent(r), Plain(request[r].target)
  PROVE  /\ Settings[SettingOfRoute(request[r].target)].limit = Limit(r)
         /\ Settings[SettingOfRoute(request[r].target)].window * PerSecond = Window(r)
<1>1. request[r].target \in Served
  BY SentFacts, TargetsAssumption
<1>2. Setting(request[r].target[1], NormalizePath(request[r].target[2])) = SettingOfRoute(request[r].target)
  BY <1>1, RoutingAgrees DEF RoutesAgree
<1>. QED BY <1>2 DEF Limit, Window, LimitOf, WindowOf

\* The limit: in any window, less the delay between stamp and check, a client is let
\* through to a route at most as often as its setting says, for any number of requests
\* and clients, any limits and windows, and checks that overtake each other in any order.
THEOREM WindowLimitAlways == Spec => []WindowLimit
<1>1. Invs => WindowLimit
  <2>. SUFFICES ASSUME Invs, NEW r \in Requests, request[r].pc = "allowed",
                       Plain(request[r].target)
                PROVE  Cardinality({q \in Requests :
                         /\ request[q].pc = "allowed" /\ Same(q, r)
                         /\ request[q].at > request[r].at
                              - Settings[SettingOfRoute(request[r].target)].window * PerSecond + MaxDelay
                         /\ request[q].at <= request[r].at})
                       <= Settings[SettingOfRoute(request[r].target)].limit
    BY DEF WindowLimit
  <2>1. Typed /\ WindowInv /\ Sent(r)
    BY DEF Invs, Sent
  <2>2. \A q \in Requests : request[q].pc = "allowed" => (Same(q, r) <=> KeyOf(q) = KeyOf(r))
    BY <2>1, SameCounter DEF Sent
  <2>3. Cardinality(Through(r)) <= Limit(r)
    BY <2>1 DEF WindowInv
  <2>4. /\ Settings[SettingOfRoute(request[r].target)].limit = Limit(r)
        /\ Settings[SettingOfRoute(request[r].target)].window * PerSecond = Window(r)
    BY <2>1, RuleOfRoute
  <2>5. Through(r) = {q \in Requests :
                       /\ request[q].pc = "allowed" /\ Same(q, r)
                       /\ request[q].at > request[r].at - Window(r) + MaxDelay
                       /\ request[q].at <= request[r].at}
    BY <2>2 DEF Through
  <2>. QED BY <2>3, <2>4, <2>5, Zenon
<1>. QED BY <1>1, CountersAlways, PTL

\* Nobody is refused for requests that left the window: those that a refusal counts are
\* younger than a window, by the same client, to the same route, and as many as the limit.
THEOREM NoFalseRefusalAlways == Spec => []NoFalseRefusal
<1>1. Invs => NoFalseRefusal
  <2>. SUFFICES ASSUME Invs, NEW r \in Requests, request[r].pc \in {"rejected", "refused"},
                       Plain(request[r].target)
                PROVE  Cardinality({q \in Requests \ {r} :
                         /\ request[q].pc \notin {"new", "stamped"} /\ Same(q, r)
                         /\ request[q].at > request[r].at
                              - Settings[SettingOfRoute(request[r].target)].window * PerSecond})
                       >= Settings[SettingOfRoute(request[r].target)].limit
    BY DEF NoFalseRefusal
  <2>1. Typed /\ BlamedInv /\ Sent(r)
    BY DEF Invs, Sent
  <2>2. \A q \in Requests : Started(q) => (Same(q, r) <=> KeyOf(q) = KeyOf(r))
    BY <2>1, SameCounter DEF Sent, Started
  <2>3. Cardinality(Blamed(r)) >= Limit(r)
    BY <2>1 DEF BlamedInv
  <2>4. /\ Settings[SettingOfRoute(request[r].target)].limit = Limit(r)
        /\ Settings[SettingOfRoute(request[r].target)].window * PerSecond = Window(r)
    BY <2>1, RuleOfRoute
  <2>5. Blamed(r) = {q \in Requests \ {r} :
                      /\ request[q].pc \notin {"new", "stamped"} /\ Same(q, r)
                      /\ request[q].at > request[r].at - Window(r)}
    BY <2>2 DEF Blamed, Started
  <2>. QED BY <2>3, <2>4, <2>5, Zenon
<1>. QED BY <1>1, CountersAlways, PTL

\* Retry-After is honoured to the second: a client that stays away from the route for the
\* seconds it was told and one more is refused only for what it sent in between.
THEOREM RetryAfterHonouredAlways == Spec => []RetryAfterHonoured
<1>1. Invs => RetryAfterHonoured
  <2>. SUFFICES ASSUME Invs, NEW q \in Requests, NEW r \in Requests,
                       request[r].pc = "refused", request[q].pc \in {"rejected", "refused"}, Same(q, r),
                       request[q].at >= request[r].answered + (request[r].wait + 1) * PerSecond
                PROVE  \E o \in Requests \ {q, r} : Same(o, r) /\ request[o].at > request[r].at
    BY DEF RetryAfterHonoured
  <2>1. Typed /\ BlamedInv /\ AnsweredInv /\ Sent(q) /\ Sent(r) /\ Plain(request[r].target)
    BY DEF Invs, Sent, Same
  <2>2. KeyOf(q) = KeyOf(r)
    BY <2>1, SameCounter
  <2>3. Window(q) = Window(r)
    BY <2>2, KeyFacts DEF KeyOf, Window
  <2>4. PICK o \in Blamed(q) : TRUE
    <3>1. Cardinality(Blamed(q)) >= Limit(q) /\ Limit(q) \in Nat \ {0}
      BY <2>1, SentFacts DEF BlamedInv
    <3>2. Blamed(q) # {}
      <4>. SUFFICES ASSUME Blamed(q) = {} PROVE FALSE
        OBVIOUS
      <4>1. Cardinality(Blamed(q)) = 0
        BY FS_EmptySet, Zenon
      <4>. QED BY <3>1, <4>1
    <3>. QED BY <3>2
  <2>5. o \in Requests /\ o # q /\ Started(o) /\ KeyOf(o) = KeyOf(r) /\ request[o].at > request[q].at - Window(q)
    BY <2>2, <2>4 DEF Blamed
  <2>6. request[r].at + Window(r) < request[r].answered + (request[r].wait + 1) * PerSecond
    BY <2>1 DEF AnsweredInv
  <2>7. request[o].at > request[r].at
    <3>1. /\ request[o].at \in Nat /\ request[q].at \in Nat /\ request[r].at \in Nat /\ Window(r) \in Nat
      BY <2>1, <2>5, SentFacts DEF Sent, Started
    <3>2. PICK end \in Nat : end = request[r].answered + (request[r].wait + 1) * PerSecond
      <4>1. request[r].answered \in Nat /\ request[r].wait + 1 \in Nat
        BY <2>1 DEF Typed, TypeOK
      <4>. QED BY <4>1, ProductIsNatural, ClockAssumption
    <3>. QED BY <2>3, <2>5, <2>6, <3>1, <3>2
  <2>8. Same(o, r)
    BY <2>1, <2>5, SameCounter DEF Sent, Started
  <2>9. o # r
    <3>1. request[r].at \in Nat
      BY <2>1, SentFacts
    <3>. QED BY <2>7, <3>1
  <2>. QED BY <2>5, <2>7, <2>8, <2>9
<1>. QED BY <1>1, CountersAlways, PTL
=============================================================================
