--------------------------- MODULE SessionsProofs ---------------------------
(***************************************************************************)
(* The proofs about Sessions, for every value of its constants: that a     *)
(* revoked pair is refused, and that the cached activity follows the row.  *)
(***************************************************************************)
EXTENDS Sessions, TLAPS

\* The name of no request is a pair where one is needed: a request that verified a token
\* names its pair, and what it sets or has read is a status.
PairPcs == {"check", "cached", "revoke"}
Paired == \A c \in Callers : call[c].pc \in PairPcs => call[c].pair \in Pairs

Typed == TypeOK /\ Paired

LEMMA PcTyped ==
  ASSUME NEW k \in Calls,
         NEW pc \in {"idle", "check", "cached", "read", "fill", "accepted", "revoke", "load",
                     "commit", "publish"}
  PROVE  /\ [k EXCEPT !.pc = pc] \in Calls
         /\ \A b \in BOOLEAN : /\ [k EXCEPT !.pc = pc, !.value = b] \in Calls
                              /\ [k EXCEPT !.pc = pc, !.loaded = b] \in Calls
                              /\ [k EXCEPT !.pc = pc, !.blind = b] \in Calls
  BY Zenon DEF Calls

LEMMA NoCallTyped == NoCall \in Calls
  BY Zenon DEF NoCall, Calls

LEMMA BegunTyped ==
  ASSUME NEW kind \in {"login", "access", "refresh", "logout"}, NEW p \in Pairs \cup {None},
         NEW pc \in {"check", "read", "revoke"}, NEW b \in BOOLEAN
  PROVE  [NoCall EXCEPT !.kind = kind, !.pc = pc, !.pair = p, !.barred = b] \in Calls
  BY NoCallTyped, Zenon DEF Calls

LEMMA UpdateTyped ==
  ASSUME NEW b \in BOOLEAN
  PROVE  [NoCall EXCEPT !.kind = "update", !.pc = "load", !.value = b] \in Calls
  BY NoCallTyped, Zenon DEF Calls
\* One request moves on.
LEMMA MoveTyped ==
  ASSUME Typed, NEW c \in Callers, NEW x \in Calls, x.pc \in PairPcs => x.pair \in Pairs,
         call' = [call EXCEPT ![c] = x]
  PROVE  call' \in [Callers -> Calls] /\ Paired'
<1>1. call \in [Callers -> Calls]
  BY DEF Typed, TypeOK
<1>2. call' \in [Callers -> Calls]
  BY <1>1
<1>3. ASSUME NEW d \in Callers, call'[d].pc \in PairPcs PROVE call'[d].pair \in Pairs
  BY <1>1, <1>3 DEF Typed, Paired
<1>. QED BY <1>2, <1>3 DEF Paired

LEMMA GotoTyped ==
  ASSUME Typed, NEW c \in Callers,
         NEW pc \in {"cached", "read", "fill", "accepted", "commit", "publish"},
         pc = "cached" => At(c, "check"), Goto(c, pc)
  PROVE  call' \in [Callers -> Calls] /\ Paired'
<1>1. call[c] \in Calls
  BY DEF Typed, TypeOK
<1>2. [call[c] EXCEPT !.pc = pc] \in Calls
  BY <1>1, PcTyped, Zenon
<1>3. [call[c] EXCEPT !.pc = pc].pc = pc /\ [call[c] EXCEPT !.pc = pc].pair = call[c].pair
  BY <1>1 DEF Calls
<1>4. pc \in PairPcs => call[c].pair \in Pairs
  BY DEF Typed, Paired, PairPcs, At
<1>. QED BY <1>2, <1>3, <1>4, MoveTyped DEF Goto

LEMMA EndTyped ==
  ASSUME Typed, NEW c \in Callers, End(c)
  PROVE  call' \in [Callers -> Calls] /\ Paired'
<1>1. NoCall.pc \notin PairPcs
  BY DEF NoCall, PairPcs
<1>. QED BY <1>1, NoCallTyped, MoveTyped DEF End

LEMMA DecideTyped ==
  ASSUME Typed, NEW c \in Callers, NEW status, Decide(c, status)
  PROVE  call' \in [Callers -> Calls] /\ Paired'
<1>1. CASE status
  <2>1. call[c] \in Calls /\ FALSE \in BOOLEAN
    BY DEF Typed, TypeOK
  <2>2. [call[c] EXCEPT !.pc = "accepted", !.value = FALSE] \in Calls
    BY <2>1, PcTyped, Zenon
  <2>3. [call[c] EXCEPT !.pc = "accepted", !.value = FALSE].pc \notin PairPcs
    BY <2>1 DEF Calls, PairPcs
  <2>4. call' = [call EXCEPT ![c] = [call[c] EXCEPT !.pc = "accepted", !.value = FALSE]]
    BY <1>1 DEF Decide, Typed, TypeOK
  <2>. QED BY <2>2, <2>3, <2>4, MoveTyped
<1>2. CASE ~ status
  BY <1>2, EndTyped DEF Decide
<1>. QED BY <1>1, <1>2

LEMMA CountDownTyped ==
  ASSUME NEW n \in 0..RefreshLife \cup {None}
  PROVE  /\ CountDown(n) \in 0..RefreshLife \cup {None}
         /\ n # None => CountDown(n) \in 0..RefreshLife
  BY LivesAssumption, NoneAssumption DEF CountDown

LEMMA FaultTyped ==
  ASSUME TypeOK, Fault \/ UNCHANGED faults
  PROVE  faults' \in 0..MaxFaults
  BY BoundsAssumption DEF TypeOK, Fault

LEMMA CacheTyped ==
  ASSUME TypeOK, NEW status \in BOOLEAN, CacheStatus(status)
  PROVE  cached' \in BOOLEAN \cup {None} /\ faults' \in 0..MaxFaults
<1>1. faults' \in 0..MaxFaults
  BY FaultTyped, Zenon DEF CacheStatus
<1>2. cached' \in BOOLEAN \cup {None}
  BY Zenon DEF CacheStatus, TypeOK
<1>. QED BY <1>1, <1>2

LEMMA BeginTyped ==
  ASSUME Typed, NEW c \in Callers, NEW kind \in {"login", "access", "refresh", "logout"},
         NEW pc \in {"check", "read", "revoke"}, NEW p \in Pairs \cup {None},
         pc # "read" => p \in Pairs, Begin(c, kind, pc, p)
  PROVE  Typed'
<1>1. (p \in revoked) \in BOOLEAN
  OBVIOUS
<1>. DEFINE x == [NoCall EXCEPT !.kind = kind, !.pc = pc, !.pair = p, !.barred = p \in revoked]
<1>2. x \in Calls
  BY <1>1, BegunTyped, Zenon
<1>3. x.pc = pc /\ x.pair = p
  BY DEF NoCall
<1>4. call' \in [Callers -> Calls] /\ Paired'
  BY <1>2, <1>3, MoveTyped DEF Begin, PairPcs
<1>. QED BY <1>4 DEF Begin, Typed, TypeOK

LEMMA StepTyped ==
  ASSUME Typed, NEW c \in Callers, CallStep(c)
  PROVE  Typed'
<1>. TypeOK /\ call[c] \in Calls
  BY DEF Typed, TypeOK
<1>1. CASE CheckBlacklist(c)
  <2>1. CASE End(c) \/ Goto(c, "cached")
    <3>1. call' \in [Callers -> Calls] /\ Paired'
      BY <1>1, <2>1, EndTyped, GotoTyped DEF CheckBlacklist
    <3>. QED BY <1>1, <3>1, FaultTyped DEF CheckBlacklist, Typed, TypeOK
  <2>2. CASE Fault /\ call' = [call EXCEPT ![c].pc = "cached", ![c].blind = TRUE]
    <3>. DEFINE x == [call[c] EXCEPT !.pc = "cached", !.blind = TRUE]
    <3>1. x \in Calls
      BY PcTyped, Zenon
    <3>2. x.pair \in Pairs
      BY <1>1 DEF CheckBlacklist, At, Typed, Paired, PairPcs
    <3>3. call' = [call EXCEPT ![c] = x]
      BY <2>2 DEF TypeOK
    <3>4. call' \in [Callers -> Calls] /\ Paired'
      BY <3>1, <3>2, <3>3, MoveTyped
    <3>. QED BY <1>1, <3>4, FaultTyped DEF CheckBlacklist, Typed, TypeOK
  <2>. QED BY <1>1, <2>1, <2>2 DEF CheckBlacklist
<1>2. CASE GetCached(c)
  <2>1. call' \in [Callers -> Calls] /\ Paired'
    BY <1>2, GotoTyped, DecideTyped DEF GetCached
  <2>. QED BY <1>2, <2>1, FaultTyped DEF GetCached, Typed, TypeOK
<1>3. CASE ReadUser(c)
  <2>1. CASE End(c)
    BY <1>3, <2>1, EndTyped DEF ReadUser, Typed, TypeOK
  <2>2. CASE call' = [call EXCEPT ![c].pc = "fill", ![c].value = active]
    <3>. DEFINE x == [call[c] EXCEPT !.pc = "fill", !.value = active]
    <3>1. x \in Calls /\ x.pc \notin PairPcs
      <4>1. active \in BOOLEAN
        BY DEF TypeOK
      <4>2. x \in Calls
        BY <4>1, PcTyped, Zenon
      <4>. QED BY <4>2 DEF PairPcs, Calls
    <3>2. call' = [call EXCEPT ![c] = x]
      BY <2>2 DEF TypeOK
    <3>3. call' \in [Callers -> Calls] /\ Paired'
      BY <3>1, <3>2, MoveTyped
    <3>. QED BY <1>3, <3>3 DEF ReadUser, Typed, TypeOK
  <2>. QED BY <1>3, <2>1, <2>2 DEF ReadUser
<1>4. CASE FillCache(c)
  <2>1. call[c].value \in BOOLEAN
    BY DEF Calls
  <2>2. cached' \in BOOLEAN \cup {None} /\ faults' \in 0..MaxFaults
    BY <1>4, <2>1, CacheTyped DEF FillCache
  <2>3. call' \in [Callers -> Calls] /\ Paired'
    BY <1>4, DecideTyped DEF FillCache
  <2>. QED BY <1>4, <2>2, <2>3 DEF FillCache, Typed, TypeOK
<1>5. CASE Serve(c)
  <2>1. life' \in [Pairs -> 0..RefreshLife \cup {None}]
    BY <1>5, LivesAssumption DEF Serve, TypeOK
  <2>2. call' \in [Callers -> Calls] /\ Paired'
    BY <1>5, EndTyped DEF Serve
  <2>. QED BY <1>5, <2>1, <2>2 DEF Serve, Typed, TypeOK
<1>6. CASE Revoke(c)
  <2>1. call[c].pair \in Pairs
    BY <1>6 DEF Revoke, At, Typed, Paired, PairPcs
  <2>2. blacklist' \in [Pairs -> 0..RefreshLife] /\ revoked' \subseteq Pairs
    BY <1>6, <2>1, LivesAssumption DEF Revoke, TypeOK
  <2>3. call' \in [Callers -> Calls] /\ Paired'
    BY <1>6, EndTyped DEF Revoke
  <2>4. faults' \in 0..MaxFaults
    BY <1>6, FaultTyped DEF Revoke
  <2>. QED BY <1>6, <2>2, <2>3, <2>4 DEF Revoke, Typed, TypeOK
<1>7. CASE LoadUser(c)
  <2>. DEFINE x == [call[c] EXCEPT !.pc = "commit", !.loaded = active]
  <2>1. x \in Calls /\ x.pc \notin PairPcs
    <3>1. active \in BOOLEAN
      BY DEF TypeOK
    <3>2. x \in Calls
      BY <3>1, PcTyped, Zenon
    <3>. QED BY <3>2 DEF PairPcs, Calls
  <2>2. call' = [call EXCEPT ![c] = x]
    BY <1>7 DEF LoadUser, TypeOK
  <2>3. call' \in [Callers -> Calls] /\ Paired'
    BY <2>1, <2>2, MoveTyped
  <2>. QED BY <1>7, <2>3 DEF LoadUser, Typed, TypeOK
<1>8. CASE CommitStatus(c)
  <2>1. active' \in BOOLEAN
    BY <1>8 DEF CommitStatus, TypeOK, Calls
  <2>2. call' \in [Callers -> Calls] /\ Paired'
    BY <1>8, GotoTyped DEF CommitStatus
  <2>. QED BY <1>8, <2>1, <2>2 DEF CommitStatus, Typed, TypeOK
<1>9. CASE PublishStatus(c)
  <2>1. call[c].value \in BOOLEAN
    BY DEF Calls
  <2>2. cached' \in BOOLEAN \cup {None} /\ faults' \in 0..MaxFaults
    BY <1>9, <2>1, CacheTyped DEF PublishStatus
  <2>3. excused' \in BOOLEAN
    BY <1>9 DEF PublishStatus
  <2>4. call' \in [Callers -> Calls] /\ Paired'
    BY <1>9, EndTyped DEF PublishStatus
  <2>. QED BY <1>9, <2>2, <2>3, <2>4 DEF PublishStatus, Typed, TypeOK
<1>. QED BY <1>1, <1>2, <1>3, <1>4, <1>5, <1>6, <1>7, <1>8, <1>9 DEF CallStep

LEMMA NextTyped == Typed /\ [Next]_vars => Typed'
<1>. SUFFICES ASSUME Typed, [Next]_vars PROVE Typed'
  OBVIOUS
<1>. TypeOK
  BY DEF Typed
<1>1. ASSUME NEW c \in Callers, Login(c) PROVE Typed'
  BY <1>1, BeginTyped DEF Login
<1>2. ASSUME NEW c \in Callers, NEW p \in Pairs, Access(c, p) \/ Refresh(c, p) \/ Logout(c, p)
      PROVE  Typed'
  BY <1>2, BeginTyped DEF Access, Refresh, Logout
<1>3. ASSUME NEW c \in Callers, NEW status \in BOOLEAN, Update(c, status) PROVE Typed'
  <2>. DEFINE x == [NoCall EXCEPT !.kind = "update", !.pc = "load", !.value = status]
  <2>1. x \in Calls /\ x.pc \notin PairPcs
    BY UpdateTyped DEF PairPcs, NoCall
  <2>2. call' \in [Callers -> Calls] /\ Paired'
    BY <1>3, <2>1, MoveTyped DEF Update
  <2>3. changes' \in 0..MaxChanges
    BY <1>3, BoundsAssumption DEF Update, TypeOK
  <2>. QED BY <1>3, <2>2, <2>3 DEF Update, Typed, TypeOK
<1>4. ASSUME NEW c \in Callers, CallFails(c) PROVE Typed'
  <2>1. call' \in [Callers -> Calls] /\ Paired'
    BY <1>4, EndTyped DEF CallFails
  <2>2. excused' \in BOOLEAN /\ faults' \in 0..MaxFaults
    BY <1>4, FaultTyped DEF CallFails
  <2>. QED BY <1>4, <2>1, <2>2 DEF CallFails, Typed, TypeOK
<1>5. CASE Expire
  BY <1>5 DEF Expire, Typed, TypeOK, Paired
<1>6. CASE Tick
  <2>1. life' \in [Pairs -> 0..RefreshLife \cup {None}]
    BY <1>6, CountDownTyped DEF Tick, TypeOK
  <2>2. blacklist' \in [Pairs -> 0..RefreshLife]
    BY <1>6, CountDownTyped, NoneAssumption DEF Tick, TypeOK
  <2>. QED BY <1>6, <2>1, <2>2 DEF Tick, Typed, TypeOK, Paired
<1>7. CASE UNCHANGED vars
  BY <1>7 DEF vars, Typed, TypeOK, Paired
<1>. QED BY <1>1, <1>2, <1>3, <1>4, <1>5, <1>6, <1>7, StepTyped DEF Next

LEMMA InitTyped == Init => Typed
<1>. SUFFICES ASSUME Init PROVE Typed
  OBVIOUS
<1>1. call \in [Callers -> Calls]
  BY NoCallTyped DEF Init
<1>2. Paired
  BY DEF Init, Paired, NoCall, PairPcs
<1>3. life \in [Pairs -> 0..RefreshLife \cup {None}] /\ blacklist \in [Pairs -> 0..RefreshLife]
  BY LivesAssumption DEF Init
<1>4. changes \in 0..MaxChanges /\ faults \in 0..MaxFaults
  BY BoundsAssumption DEF Init
<1>5. active \in BOOLEAN /\ excused \in BOOLEAN /\ cached \in BOOLEAN \cup {None}
  BY Zenon DEF Init
<1>. QED BY <1>1, <1>2, <1>3, <1>4, <1>5 DEF Init, Typed, TypeOK

\* Every variable keeps its type, for any number of pairs, callers, changes and faults.
THEOREM TypedAlways == Spec => []Typed
  BY InitTyped, NextTyped, PTL DEF Spec

\* Every reachable state is well typed.
THEOREM TypeCorrect == Spec => []TypeOK
<1>1. Typed => TypeOK
  BY DEF Typed
<1>. QED BY <1>1, TypedAlways, PTL

-----------------------------------------------------------------------------
(* Revocation.                                                              *)

\* An entry of the blacklist outlives the tokens of its pair; a request that was barred
\* passes the blacklist only blindly.
PassedPcs == {"cached", "read", "fill", "accepted"}
BlacklistOutlives == \A p \in revoked : life[p] # None /\ blacklist[p] >= life[p]
CheckedAlive ==
  \A c \in Callers : At(c, "check") => life[call[c].pair] # None /\ life[call[c].pair] > 0
BarredIsRevoked ==
  \A c \in Callers : call[c].barred => call[c].pair \in revoked
BarredIsBlind ==
  \A c \in Callers : call[c].pc \in PassedPcs /\ call[c].barred => call[c].blind

RevokedInv ==
  /\ BlacklistOutlives /\ CheckedAlive /\ BarredIsRevoked /\ BarredIsBlind
  /\ \A c \in Callers : At(c, "revoke") => life[call[c].pair] # None

\* All a step of request c may do to what the revocation depends on: no token is born
\* again, what was revoked stays so, and only c moves.
Revokes(c) ==
  /\ \A p \in Pairs : life[p] # None => life'[p] = life[p]
  /\ \A p \in Pairs :
       \/ (p \in revoked' <=> p \in revoked) /\ blacklist'[p] = blacklist[p]
       \/ p \in revoked' /\ life[p] # None /\ blacklist'[p] = RefreshLife
  /\ \A d \in Callers \ {c} : call'[d] = call[d]

\* What RevokedInv says of one request.
Barred(k) ==
  /\ k.pc = "check" => life[k.pair] # None /\ life[k.pair] > 0
  /\ k.pc = "revoke" => life[k.pair] # None
  /\ k.barred => k.pair \in revoked
  /\ k.pc \in PassedPcs /\ k.barred => k.blind

LEMMA RevokesKeeps ==
  ASSUME Typed, RevokedInv, Typed', NEW c \in Callers, Revokes(c), Barred(call[c])'
  PROVE  RevokedInv'
<1>1. \A p \in Pairs : life[p] \in 0..RefreshLife \cup {None} /\ blacklist[p] \in 0..RefreshLife
  BY DEF Typed, TypeOK
<1>2. revoked \subseteq revoked' /\ revoked' \subseteq Pairs
  BY DEF Typed, TypeOK, Revokes
<1>3. BlacklistOutlives'
  BY <1>1, <1>2, LivesAssumption, NoneAssumption DEF BlacklistOutlives, Revokes, RevokedInv
<1>4. ASSUME NEW d \in Callers, d # c PROVE Barred(call[d])'
  <2>1. call'[d] = call[d]
    BY <1>4 DEF Revokes
  <2>2. call[d].pc \in {"check", "revoke"} => call[d].pair \in Pairs
    BY DEF Typed, Paired, PairPcs
  <2>3. Barred(call[d])
    BY DEF RevokedInv, CheckedAlive, BarredIsRevoked, BarredIsBlind, Barred, At
  <2>. QED BY <1>2, <2>1, <2>2, <2>3 DEF Barred, Revokes
<1>5. \A d \in Callers : Barred(call[d])'
  BY <1>4
<1>. QED BY <1>3, <1>5
     DEF RevokedInv, CheckedAlive, BarredIsRevoked, BarredIsBlind, Barred, At

LEMMA OnlyMoves ==
  ASSUME Typed, NEW c \in Callers, UNCHANGED <<life, blacklist, revoked>>,
         \A d \in Callers \ {c} : call'[d] = call[d]
  PROVE  Revokes(c)
  BY DEF Revokes

LEMMA Ended ==
  ASSUME Typed, NEW c \in Callers, End(c)
  PROVE  call'[c] = NoCall /\ \A d \in Callers \ {c} : call'[d] = call[d]
  BY DEF Typed, TypeOK, End

LEMMA NoneBarred == Barred(NoCall)'
  BY DEF Barred, NoCall, PassedPcs

LEMMA StepRevokes ==
  ASSUME Typed, RevokedInv, NEW c \in Callers, CallStep(c)
  PROVE  Revokes(c) /\ Barred(call[c])'
<1>. call \in [Callers -> Calls] /\ call[c] \in Calls
  BY DEF Typed, TypeOK
<1>. Barred(call[c])
  BY DEF RevokedInv, CheckedAlive, BarredIsRevoked, BarredIsBlind, Barred, At
<1>. USE DEF At
<1>1. CASE CheckBlacklist(c)
  <2>. DEFINE p == call[c].pair
  <2>1. UNCHANGED <<life, blacklist, revoked>>
    BY <1>1 DEF CheckBlacklist
  <2>2. CASE End(c)
    BY <2>1, <2>2, Ended, NoneBarred, OnlyMoves
  <2>3. CASE blacklist[p] = 0 /\ Goto(c, "cached")
    <3>1. call'[c] = [call[c] EXCEPT !.pc = "cached"] /\ \A d \in Callers \ {c} : call'[d] = call[d]
      BY <2>3 DEF Goto
    <3>2. p \notin revoked
      BY <1>1, <2>3, NoneAssumption DEF CheckBlacklist, Barred, RevokedInv, BlacklistOutlives, Typed, TypeOK
    <3>. QED BY <2>1, <3>1, <3>2, OnlyMoves DEF Barred, Calls
  <2>4. CASE call' = [call EXCEPT ![c].pc = "cached", ![c].blind = TRUE]
    <3>1. /\ call'[c].pc = "cached" /\ call'[c].blind /\ call'[c].pair = p
          /\ call'[c].barred = call[c].barred
          /\ \A d \in Callers \ {c} : call'[d] = call[d]
      BY <2>4 DEF Calls
    <3>. QED BY <2>1, <3>1, OnlyMoves DEF Barred
  <2>. QED BY <1>1, <2>2, <2>3, <2>4 DEF CheckBlacklist
<1>. DEFINE Passes(pc) ==
       /\ call'[c].pc = pc /\ call'[c].pair = call[c].pair /\ call'[c].barred = call[c].barred
       /\ call'[c].blind = call[c].blind
       /\ \A d \in Callers \ {c} : call'[d] = call[d]
<1>2. ASSUME UNCHANGED <<life, blacklist, revoked>>, call[c].pc \in PassedPcs,
             NEW pc \in PassedPcs \ {"check", "revoke"}, Passes(pc)
      PROVE  Revokes(c) /\ Barred(call[c])'
  BY <1>2, OnlyMoves DEF Barred
<1>3. ASSUME UNCHANGED <<life, blacklist, revoked>>, End(c)
      PROVE  Revokes(c) /\ Barred(call[c])'
  BY <1>3, Ended, NoneBarred, OnlyMoves
<1>4. ASSUME NEW status, status, Decide(c, status) PROVE Passes("accepted")
  BY <1>4 DEF Decide, Calls
<1>5. CASE GetCached(c)
  <2>1. Passes("accepted") \/ Passes("read") \/ End(c)
    BY <1>5, <1>4 DEF GetCached, Goto, Decide, Calls
  <2>. QED BY <1>5, <1>2, <1>3, <2>1 DEF GetCached, PassedPcs
<1>6. CASE ReadUser(c)
  <2>1. Passes("fill") \/ End(c)
    BY <1>6 DEF ReadUser, Calls
  <2>. QED BY <1>6, <1>2, <1>3, <2>1 DEF ReadUser, PassedPcs
<1>7. CASE FillCache(c)
  <2>1. Passes("accepted") \/ End(c)
    BY <1>7, <1>4 DEF FillCache, Decide
  <2>. QED BY <1>7, <1>2, <1>3, <2>1 DEF FillCache, PassedPcs
<1>8. CASE Serve(c)
  <2>1. \A p \in Pairs : life[p] # None => life'[p] = life[p]
    <3>1. Unissued # {} => Fresh \in Unissued
      BY DEF Fresh
    <3>. QED BY <1>8, <3>1 DEF Serve, Unissued, Typed, TypeOK
  <2>2. Revokes(c)
    BY <1>8, <2>1, Ended DEF Serve, Revokes
  <2>. QED BY <1>8, <2>2, Ended, NoneBarred DEF Serve
<1>9. CASE Revoke(c)
  <2>1. call[c].pair \in Pairs /\ life[call[c].pair] # None
    BY <1>9 DEF Revoke, Barred, Typed, Paired, PairPcs
  <2>2. Revokes(c)
    BY <1>9, <2>1, Ended DEF Revoke, Revokes, Typed, TypeOK
  <2>. QED BY <1>9, <2>2, Ended, NoneBarred DEF Revoke
<1>10. CASE LoadUser(c) \/ CommitStatus(c)
  <2>1. /\ call'[c].pc \in {"commit", "publish"} /\ call'[c].pair = call[c].pair
        /\ call'[c].barred = call[c].barred
        /\ \A d \in Callers \ {c} : call'[d] = call[d]
    BY <1>10 DEF LoadUser, CommitStatus, Goto, Calls
  <2>. QED BY <1>10, <2>1, OnlyMoves DEF LoadUser, CommitStatus, Barred, PassedPcs
<1>11. CASE PublishStatus(c)
  BY <1>11, <1>3 DEF PublishStatus
<1>. QED BY <1>1, <1>5, <1>6, <1>7, <1>8, <1>9, <1>10, <1>11 DEF CallStep

LEMMA BeginRevokes ==
  ASSUME Typed, NEW c \in Callers, NEW kind, NEW pc \in {"check", "read", "revoke"},
         NEW p, pc # "read" => p \in Pairs /\ RefreshValid(p), pc = "read" => p = None,
         Begin(c, kind, pc, p)
  PROVE  Revokes(c) /\ Barred(call[c])'
<1>1. /\ call'[c].pc = pc /\ call'[c].pair = p /\ call'[c].barred = (p \in revoked)
      /\ \A d \in Callers \ {c} : call'[d] = call[d]
  BY DEF Begin, NoCall, Typed, TypeOK
<1>2. None \notin revoked
  BY NoneAssumption DEF Typed, TypeOK
<1>3. pc # "read" => life[p] # None /\ life[p] > 0
  BY DEF RefreshValid, Unissued
<1>. QED BY <1>1, <1>2, <1>3, OnlyMoves DEF Begin, Barred, PassedPcs

LEMMA TickRevokes ==
  ASSUME Typed, RevokedInv, Tick
  PROVE  RevokedInv'
<1>1. \A p \in Pairs : /\ life[p] \in 0..RefreshLife \cup {None} /\ blacklist[p] \in 0..RefreshLife
                       /\ life'[p] = CountDown(life[p]) /\ blacklist'[p] = CountDown(blacklist[p])
  BY DEF Typed, TypeOK, Tick
<1>2. \A p \in Pairs : life[p] # None => life'[p] # None
  BY <1>1, CountDownTyped, NoneAssumption
<1>3. BlacklistOutlives'
  <2>. SUFFICES ASSUME NEW p \in revoked
                PROVE  life'[p] # None /\ blacklist'[p] >= life'[p]
    BY DEF BlacklistOutlives, Tick
  <2>1. p \in Pairs /\ life[p] # None /\ blacklist[p] >= life[p]
    BY DEF RevokedInv, BlacklistOutlives, Typed, TypeOK
  <2>2. blacklist[p] # None
    BY <1>1, <2>1, NoneAssumption
  <2>. QED BY <1>1, <1>2, <2>1, <2>2 DEF CountDown
<1>4. \A c \in Callers : call[c].pc = "revoke" => call[c].pair \in Pairs
  BY DEF Typed, Paired, PairPcs
<1>. QED BY <1>2, <1>3, <1>4
     DEF RevokedInv, Tick, CheckedAlive, BarredIsRevoked, BarredIsBlind, At

LEMMA NextRevoked == Typed /\ RevokedInv /\ [Next]_vars => RevokedInv'
<1>. SUFFICES ASSUME Typed, RevokedInv, [Next]_vars PROVE RevokedInv'
  OBVIOUS
<1>. Typed'
  BY NextTyped
<1>1. ASSUME NEW c \in Callers, Revokes(c), Barred(call[c])' PROVE RevokedInv'
  BY <1>1, RevokesKeeps
<1>2. ASSUME NEW c \in Callers, Login(c) PROVE RevokedInv'
  BY <1>1, <1>2, BeginRevokes DEF Login
<1>3. ASSUME NEW c \in Callers, NEW p \in Pairs, Access(c, p) \/ Refresh(c, p) \/ Logout(c, p)
      PROVE  RevokedInv'
  BY <1>1, <1>3, BeginRevokes DEF Access, Refresh, Logout, AccessValid
<1>4. ASSUME NEW c \in Callers, NEW status \in BOOLEAN, Update(c, status) PROVE RevokedInv'
  <2>1. /\ call'[c].pc = "load" /\ call'[c].barred = FALSE
        /\ \A d \in Callers \ {c} : call'[d] = call[d]
    BY <1>4 DEF Update, NoCall, Typed, TypeOK
  <2>2. Barred(call[c])'
    BY <2>1 DEF Barred, PassedPcs
  <2>3. Revokes(c)
    BY <1>4, <2>1, OnlyMoves DEF Update
  <2>. QED BY <1>1, <2>2, <2>3
<1>5. ASSUME NEW c \in Callers, CallFails(c) PROVE RevokedInv'
  <2>1. Barred(call[c])' /\ Revokes(c)
    BY <1>5, Ended, NoneBarred, OnlyMoves DEF CallFails
  <2>. QED BY <1>1, <2>1
<1>6. CASE Expire \/ UNCHANGED vars
  BY <1>6
     DEF Expire, vars, RevokedInv, BlacklistOutlives, CheckedAlive, BarredIsRevoked, BarredIsBlind, At
<1>. QED BY <1>1, <1>2, <1>3, <1>4, <1>5, <1>6, StepRevokes, TickRevokes DEF Next

LEMMA InitRevoked == Init => RevokedInv
  BY DEF Init, NoCall, RevokedInv, BlacklistOutlives, CheckedAlive, BarredIsRevoked,
         BarredIsBlind, At, PassedPcs

\* No request that begins after a logout of its pair is accepted, for any number of
\* requests and any lives of the tokens, unless Redis hid the blacklist from it.
THEOREM RevokedIsRefusedAlways == Spec => []RevokedIsRefused
<1>1. RevokedInv => RevokedIsRefused
  BY DEF RevokedInv, BarredIsBlind, RevokedIsRefused, At, PassedPcs
<1>2. Typed /\ RevokedInv /\ [Next]_vars => Typed' /\ RevokedInv'
  BY NextTyped, NextRevoked
<1>. QED BY <1>1, <1>2, InitTyped, InitRevoked, PTL DEF Spec

-----------------------------------------------------------------------------
(* The cached activity.                                                     *)

\* What an update will find when it comes to the cache.  As soon as two of them publish,
\* the first to end is raced, so only a lone one has to know the row.
CommitKnows ==
  \A c \in Callers : At(c, "commit") =>
    call[c].loaded = active \/ \E d \in Callers \ {c} : At(d, "publish")
PublishKnows ==
  \A c \in Callers : At(c, "publish") =>
    call[c].value = active \/ \E d \in Callers \ {c} : At(d, "publish")
CacheKnows ==
  (\A c \in Callers : ~ At(c, "publish")) =>
    /\ cached \in {None, active}
    /\ \A c \in Callers : At(c, "fill") => call[c].value = active

UpdatesUpdate == \A c \in Callers : call[c].pc \in {"load", "commit", "publish"} => Updating(c)

CacheInv == UpdatesUpdate /\ (~ excused => CommitKnows /\ PublishKnows /\ CacheKnows)

\* What a step of request c must show to keep CacheInv, as facts about the step alone.
Quiet(c) == UNCHANGED <<active, excused>> /\ \A d \in Callers \ {c} : call'[d] = call[d]

\* A step that neither starts nor ends a publication leaves the updates' knowledge alone.
LEMMA BystanderKeeps ==
  ASSUME Typed, CacheInv, NEW c \in Callers, Quiet(c),
         call[c].pc # "publish", call'[c].pc # "publish",
         call'[c].pc \in {"load", "commit"} => call'[c].kind = "update",
         cached' = cached \/ cached' = None \/ (At(c, "fill") /\ cached' = call[c].value),
         call'[c].pc = "fill" => call'[c].value = active,
         call'[c].pc = "commit" => call'[c].loaded = active
  PROVE  CacheInv'
<1>. USE DEF At
<1>1. UpdatesUpdate'
  BY DEF CacheInv, UpdatesUpdate, Quiet, Updating
<1>2. ASSUME ~ excused' PROVE CommitKnows' /\ PublishKnows' /\ CacheKnows'
  <2>1. CommitKnows /\ PublishKnows /\ CacheKnows
    BY <1>2 DEF CacheInv, Quiet
  <2>2. \A d \in Callers : At(d, "publish") <=> At(d, "publish")'
    BY DEF Quiet
  <2>3. CommitKnows' /\ PublishKnows'
    BY <2>1, <2>2 DEF CommitKnows, PublishKnows, Quiet
  <2>4. CacheKnows'
    BY <2>1, <2>2 DEF CacheKnows, Quiet
  <2>. QED BY <2>3, <2>4
<1>. QED BY <1>1, <1>2 DEF CacheInv

\* An update that has written the row publishes the row's status, or another publishes too.
LEMMA CommitKeeps ==
  ASSUME Typed, CacheInv, NEW c \in Callers, CommitStatus(c)
  PROVE  CacheInv'
<1>. USE DEF At
<1>1. /\ call'[c].pc = "publish" /\ call'[c].value = call[c].value /\ call'[c].kind = call[c].kind
      /\ \A d \in Callers \ {c} : call'[d] = call[d]
  BY DEF CommitStatus, Goto, Typed, TypeOK, Calls
<1>2. UpdatesUpdate'
  BY <1>1 DEF CommitStatus, CacheInv, UpdatesUpdate, Updating
<1>3. ASSUME ~ excused PROVE CommitKnows' /\ PublishKnows' /\ CacheKnows'
  <2>1. CommitKnows /\ PublishKnows
    BY <1>3 DEF CacheInv
  <2>2. CommitKnows' /\ CacheKnows'
    BY <1>1 DEF CommitKnows, CacheKnows
  <2>3. ASSUME NEW d \in Callers, d # c, At(d, "publish")
        PROVE  \E e \in Callers \ {d} : At(e, "publish")'
    BY <1>1, <2>3
  <2>4. call'[c].value = active' \/ \E d \in Callers \ {c} : At(d, "publish")'
    BY <1>1, <2>1 DEF CommitStatus, CommitKnows
  <2>. QED BY <2>2, <2>3, <2>4, <1>1 DEF PublishKnows
<1>. QED BY <1>2, <1>3 DEF CommitStatus, CacheInv

\* The last to publish, unraced and heard by Redis, leaves the row's status in the cache.
LEMMA PublishKeeps ==
  ASSUME Typed, CacheInv, NEW c \in Callers, PublishStatus(c)
  PROVE  CacheInv'
<1>. USE DEF At
<1>1. call'[c] = NoCall /\ \A d \in Callers \ {c} : call'[d] = call[d]
  BY Ended DEF PublishStatus
<1>2. UpdatesUpdate'
  BY <1>1 DEF NoCall, CacheInv, UpdatesUpdate, Updating
<1>3. ASSUME ~ excused' PROVE CommitKnows' /\ PublishKnows' /\ CacheKnows'
  <2>1. ~ excused /\ ~ Raced(c) /\ cached' = call[c].value
    <3>1. faults' = faults
      BY <1>3 DEF PublishStatus
    <3>2. ~ Fault
      BY <3>1 DEF Fault, Typed, TypeOK
    <3>. QED BY <1>3, <3>2 DEF PublishStatus, CacheStatus
  <2>2. \A d \in Callers \ {c} : call[d].pc \notin {"load", "commit", "publish"}
    BY <2>1 DEF Raced, CacheInv, UpdatesUpdate
  <2>3. call[c].value = active
    BY <2>1, <2>2 DEF CacheInv, PublishKnows, PublishStatus
  <2>4. CommitKnows' /\ PublishKnows'
    BY <1>1, <2>2 DEF CommitKnows, PublishKnows, NoCall
  <2>5. CacheKnows'
    BY <1>1, <2>1, <2>3 DEF CacheKnows, Raced, PublishStatus, NoCall
  <2>. QED BY <2>4, <2>5
<1>. QED BY <1>2, <1>3 DEF CacheInv

\* A request that dies before it publishes takes nothing along; one that dies there is
\* what excused records.
LEMMA FailureKeeps ==
  ASSUME Typed, CacheInv, NEW c \in Callers, CallFails(c)
  PROVE  CacheInv'
<1>1. call'[c] = NoCall /\ \A d \in Callers \ {c} : call'[d] = call[d]
  BY Ended DEF CallFails
<1>2. CASE At(c, "publish")
  <2>1. excused'
    BY <1>2, Zenon DEF CallFails
  <2>2. UpdatesUpdate'
    BY <1>1 DEF CacheInv, UpdatesUpdate, Updating, NoCall
  <2>. QED BY <2>1, <2>2, Zenon DEF CacheInv
<1>3. CASE ~ At(c, "publish")
  <2>1. call'[c].pc = "idle" /\ call[c].pc # "publish"
    BY <1>1, <1>3 DEF NoCall, At
  <2>2. excused' = excused
    <3>1. excused' = (excused \/ FALSE) /\ excused \in BOOLEAN
      BY <1>3, Zenon DEF CallFails, Typed, TypeOK
    <3>. QED BY <3>1, Zenon
  <2>3. Quiet(c) /\ cached' = cached
    BY <1>1, <2>2 DEF CallFails, Quiet
  <2>. QED BY <2>1, <2>3, BystanderKeeps
<1>. QED BY <1>2, <1>3

LEMMA BeginKeeps ==
  ASSUME Typed, CacheInv, NEW c \in Callers, NEW kind, NEW pc \in {"check", "read", "revoke"},
         NEW p, Begin(c, kind, pc, p)
  PROVE  CacheInv'
<1>1. call'[c].pc = pc /\ \A d \in Callers \ {c} : call'[d] = call[d]
  BY DEF Begin, NoCall, Typed, TypeOK
<1>2. Quiet(c) /\ cached' = cached /\ call[c].pc # "publish"
  BY <1>1 DEF Begin, Quiet, At
<1>. QED BY <1>1, <1>2, BystanderKeeps

LEMMA StepKeepsCache ==
  ASSUME Typed, CacheInv, NEW c \in Callers, CallStep(c)
  PROVE  CacheInv'
<1>. call \in [Callers -> Calls] /\ call[c] \in Calls
  BY DEF Typed, TypeOK
<1>1. ASSUME UNCHANGED <<active, excused>>, call[c].pc # "publish",
             cached' = cached \/ (At(c, "fill") /\ cached' = call[c].value),
             NEW pc \in {"idle", "cached", "read", "accepted"}, call'[c].pc = pc,
             \A d \in Callers \ {c} : call'[d] = call[d]
      PROVE  CacheInv'
  BY <1>1, BystanderKeeps DEF Quiet
<1>2. ASSUME End(c) PROVE call'[c].pc = "idle" /\ \A d \in Callers \ {c} : call'[d] = call[d]
  BY <1>2, Ended DEF NoCall
<1>3. ASSUME NEW pc, Goto(c, pc)
      PROVE  call'[c].pc = pc /\ \A d \in Callers \ {c} : call'[d] = call[d]
  BY <1>3 DEF Goto, Calls
<1>4. ASSUME NEW status, Decide(c, status)
      PROVE  /\ call'[c].pc \in {"accepted", "idle"}
             /\ \A d \in Callers \ {c} : call'[d] = call[d]
  BY <1>2, <1>4 DEF Decide, Calls
<1>5. CASE CheckBlacklist(c)
  <2>1. call'[c].pc \in {"idle", "cached"} /\ \A d \in Callers \ {c} : call'[d] = call[d]
    BY <1>2, <1>3, <1>5 DEF CheckBlacklist, Calls
  <2>. QED BY <1>1, <1>5, <2>1 DEF CheckBlacklist, At
<1>6. CASE GetCached(c)
  <2>1. /\ call'[c].pc \in {"idle", "accepted", "read"}
        /\ \A d \in Callers \ {c} : call'[d] = call[d]
    BY <1>3, <1>4, <1>6 DEF GetCached
  <2>. QED BY <1>1, <1>6, <2>1 DEF GetCached, At
<1>7. CASE ReadUser(c)
  <2>1. /\ call'[c].pc = "idle" \/ (call'[c].pc = "fill" /\ call'[c].value = active)
        /\ \A d \in Callers \ {c} : call'[d] = call[d]
    BY <1>2, <1>7 DEF ReadUser, Calls
  <2>2. Quiet(c) /\ cached' = cached /\ call[c].pc # "publish"
    BY <1>7, <2>1 DEF ReadUser, Quiet, At
  <2>. QED BY <2>1, <2>2, BystanderKeeps
<1>8. CASE FillCache(c)
  <2>1. /\ call'[c].pc \in {"idle", "accepted"}
        /\ \A d \in Callers \ {c} : call'[d] = call[d]
    BY <1>4, <1>8 DEF FillCache
  <2>. QED BY <1>1, <1>8, <2>1 DEF FillCache, CacheStatus, At
<1>9. CASE Serve(c)
  BY <1>1, <1>2, <1>9 DEF Serve, At
<1>10. CASE Revoke(c)
  BY <1>1, <1>2, <1>10 DEF Revoke, At
<1>11. CASE LoadUser(c)
  <2>1. /\ call'[c].pc = "commit" /\ call'[c].loaded = active /\ call'[c].kind = call[c].kind
        /\ \A d \in Callers \ {c} : call'[d] = call[d]
    BY <1>11 DEF LoadUser, Calls
  <2>2. Quiet(c) /\ cached' = cached /\ call[c].pc # "publish" /\ call[c].kind = "update"
    BY <1>11, <2>1 DEF LoadUser, Quiet, At, CacheInv, UpdatesUpdate, Updating
  <2>. QED BY <2>1, <2>2, BystanderKeeps
<1>. QED BY <1>5, <1>6, <1>7, <1>8, <1>9, <1>10, <1>11, CommitKeeps, PublishKeeps DEF CallStep

LEMMA NextCache == Typed /\ CacheInv /\ [Next]_vars => CacheInv'
<1>. SUFFICES ASSUME Typed, CacheInv, [Next]_vars PROVE CacheInv'
  OBVIOUS
<1>1. ASSUME NEW c \in Callers, Login(c) PROVE CacheInv'
  BY <1>1, BeginKeeps DEF Login
<1>2. ASSUME NEW c \in Callers, NEW p \in Pairs, Access(c, p) \/ Refresh(c, p) \/ Logout(c, p)
      PROVE  CacheInv'
  BY <1>2, BeginKeeps DEF Access, Refresh, Logout
<1>3. ASSUME NEW c \in Callers, NEW status \in BOOLEAN, Update(c, status) PROVE CacheInv'
  <2>1. /\ call'[c].pc = "load" /\ call'[c].kind = "update"
        /\ \A d \in Callers \ {c} : call'[d] = call[d]
    BY <1>3 DEF Update, NoCall, Typed, TypeOK
  <2>2. Quiet(c) /\ cached' = cached /\ call[c].pc # "publish"
    BY <1>3, <2>1 DEF Update, Quiet, At
  <2>. QED BY <2>1, <2>2, BystanderKeeps
<1>4. CASE Expire \/ Tick \/ UNCHANGED vars
  BY <1>4 DEF Expire, Tick, vars, CacheInv, UpdatesUpdate, CommitKnows, PublishKnows,
     CacheKnows, Updating, At
<1>. QED BY <1>1, <1>2, <1>3, <1>4, FailureKeeps, StepKeepsCache DEF Next

LEMMA InitCache == Init => CacheInv
<1>1. Init => cached = None /\ \A c \in Callers : call[c].pc = "idle"
  BY DEF Init, NoCall
<1>. QED BY <1>1 DEF CacheInv, UpdatesUpdate, CommitKnows, PublishKnows, CacheKnows, At

\* While nobody changes the activity the cache agrees with the row, for any number of
\* requests and administrators, unless a change was raced or did not reach the cache.
THEOREM CacheFollowsRowAlways == Spec => []CacheFollowsRow
<1>1. CacheInv => CacheFollowsRow
  BY DEF CacheInv, CacheKnows, UpdatesUpdate, Updating, At, CacheFollowsRow
<1>2. Typed /\ CacheInv /\ [Next]_vars => Typed' /\ CacheInv'
  BY NextTyped, NextCache
<1>. QED BY <1>1, <1>2, InitTyped, InitCache, PTL DEF Spec
=============================================================================
