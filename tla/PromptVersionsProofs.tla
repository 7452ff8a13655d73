------------------------ MODULE PromptVersionsProofs ------------------------
(***************************************************************************)
(* The proofs about PromptVersions, for every value of its constants: that *)
(* creations one after another leave one prompt active, and that overlapping*)
(* ones of different versions leave at least one.                          *)
(***************************************************************************)
EXTENDS PromptVersions, FiniteSetTheorems, TLAPS

\* What a call knows of the collection: only a creation writes, and a prompt that was
\* found there stays there.
Holds(k) == k.pc = "fill" \/ (k.pc = "deactivate" /\ k.stored)
Told(k) ==
  /\ k.pc \in {"check", "invalidate", "deactivate", "insert"} => k.kind = "create"
  /\ k.pc = "idle" => k.kind = "read"
  /\ Holds(k) => k.found \in Versions /\ prompt[k.found] # "absent"

\* What a creation that runs alone knows: nothing is active but what it has found.
Alone(k) ==
  k.kind = "create" => /\ Holds(k) => Active \subseteq {k.found}
                       /\ k.pc = "insert" => Active = {}

\* A creation past its check inserts a version that nobody else inserts.
Unwritten(k) == k.kind = "create" /\ k.pc # "check" => prompt[k.version] = "absent"

Lone ==
  /\ \A p, q \in Callers : Creating(p) /\ Creating(q) => p = q
  /\ \A v, w \in Active : v = w
  /\ \A p \in Callers : Alone(call[p])
Distinct ==
  /\ \A p, q \in Callers : Creating(p) /\ Creating(q) /\ p # q => call[p].version # call[q].version
  /\ \A p \in Callers : Unwritten(call[p])
Followed ==
  (\E v \in Versions : prompt[v] # "absent") => Active # {} \/ \E p \in Callers : At(p, "insert")

ActiveInv ==
  /\ \A p \in Callers : Told(call[p])
  /\ overlap = "never" => Lone
  /\ overlap # "same" => Distinct
  /\ overlap # "same" /\ ~ interrupted => Followed

-----------------------------------------------------------------------------
(* Types.                                                                   *)

Pcs == {"idle", "check", "invalidate", "get", "find", "fill", "deactivate", "insert"}
Versioned(k) == k \in Calls /\ (k.kind # "read" => k.version \in Versions)

LEMMA PcTyped ==
  ASSUME NEW k, Versioned(k), NEW pc \in Pcs
  PROVE  Versioned([k EXCEPT !.pc = pc])
<1>1. [k EXCEPT !.pc = pc] \in Calls
  BY Zenon DEF Versioned, Calls, Pcs
<1>2. [k EXCEPT !.pc = pc].kind = k.kind /\ [k EXCEPT !.pc = pc].version = k.version
  BY DEF Versioned, Calls
<1>. QED BY <1>1, <1>2 DEF Versioned

LEMMA FoundTyped ==
  ASSUME NEW k, Versioned(k), NEW pc \in Pcs, NEW v \in Versions \cup {None}, NEW b \in BOOLEAN
  PROVE  /\ Versioned([k EXCEPT !.pc = pc, !.found = v])
         /\ Versioned([k EXCEPT !.pc = pc, !.found = v, !.stored = b])
<1>1. /\ [k EXCEPT !.pc = pc, !.found = v] \in Calls
      /\ [k EXCEPT !.pc = pc, !.found = v, !.stored = b] \in Calls
  BY Zenon DEF Versioned, Calls, Pcs
<1>2. /\ [k EXCEPT !.pc = pc, !.found = v].kind = k.kind
      /\ [k EXCEPT !.pc = pc, !.found = v].version = k.version
      /\ [k EXCEPT !.pc = pc, !.found = v, !.stored = b].kind = k.kind
      /\ [k EXCEPT !.pc = pc, !.found = v, !.stored = b].version = k.version
  BY DEF Versioned, Calls
<1>. QED BY <1>1, <1>2 DEF Versioned

LEMMA NoCallTyped == Versioned(NoCall)
<1>1. NoCall \in Calls
  BY Zenon DEF NoCall, Calls
<1>. QED BY <1>1 DEF NoCall, Versioned

LEMMA BegunTyped ==
  ASSUME NEW v \in Versions
  PROVE  /\ Versioned([NoCall EXCEPT !.kind = "create", !.pc = "check", !.version = v])
         /\ Versioned([NoCall EXCEPT !.kind = "seed", !.pc = "get", !.version = v])
<1>1. /\ [NoCall EXCEPT !.kind = "create", !.pc = "check", !.version = v] \in Calls
      /\ [NoCall EXCEPT !.kind = "seed", !.pc = "get", !.version = v] \in Calls
  BY NoCallTyped, Zenon DEF Versioned, Calls
<1>. QED BY <1>1 DEF NoCall, Versioned

LEMMA CallTyped ==
  ASSUME TypeOK, NEW p \in Callers
  PROVE  Versioned(call[p])
  BY DEF TypeOK, Versioned

\* One caller moves on.
Moves(p) == Versioned(call'[p]) /\ call' = [call EXCEPT ![p] = call'[p]]

LEMMA MovesTyped ==
  ASSUME TypeOK, NEW p \in Callers, Moves(p)
  PROVE  /\ call' \in [Callers -> Calls]
         /\ \A q \in Callers : call'[q].kind # "read" => call'[q].version \in Versions
         /\ \A q \in Callers \ {p} : call'[q] = call[q]
  BY DEF TypeOK, Moves, Versioned

LEMMA Moved ==
  ASSUME TypeOK, NEW p \in Callers, NEW x, Versioned(x), call' = [call EXCEPT ![p] = x]
  PROVE  Moves(p) /\ call'[p] = x
  BY DEF TypeOK, Moves

LEMMA GotoMoves ==
  ASSUME TypeOK, NEW p \in Callers, NEW pc \in Pcs, Goto(p, pc)
  PROVE  Moves(p) /\ call'[p] = [call[p] EXCEPT !.pc = pc]
<1>1. call' = [call EXCEPT ![p] = [call[p] EXCEPT !.pc = pc]]
  BY DEF TypeOK, Goto
<1>. QED BY <1>1, CallTyped, PcTyped, Moved

LEMMA EndMoves ==
  ASSUME TypeOK, NEW p \in Callers, End(p)
  PROVE  Moves(p) /\ call'[p] = NoCall
  BY NoCallTyped, Moved DEF End

LEMMA StartMoves ==
  ASSUME TypeOK, NEW p \in Callers, NEW v \in Versions, StartCreation(p, v)
  PROVE  /\ Moves(p)
         /\ call'[p] = [NoCall EXCEPT !.kind = "create", !.pc = "check", !.version = v]
         /\ overlap' \in {overlap, "distinct", "same"}
  BY BegunTyped, Moved DEF StartCreation

\* What get_active_prompt answers moves its caller, and begins a creation at the most.
LEMMA ReturnMoves ==
  ASSUME TypeOK, NEW p \in Callers, NEW v \in Versions \cup {None}, NEW b \in BOOLEAN,
         Return(p, v, b)
  PROVE  /\ Moves(p)
         /\ \/ call'[p] = NoCall /\ overlap' = overlap
            \/ call[p].kind = "seed" /\ v = None /\ StartCreation(p, call[p].version)
            \/ /\ call[p].kind = "create" /\ overlap' = overlap
               /\ call'[p] = [call[p] EXCEPT !.pc = IF v = None THEN "insert" ELSE "deactivate",
                                             !.found = v, !.stored = b]
<1>1. CASE End(p) /\ UNCHANGED overlap
  BY <1>1, EndMoves
<1>2. CASE call[p].kind = "seed" /\ v = None /\ StartCreation(p, call[p].version)
  <2>1. call[p].version \in Versions
    BY <1>2 DEF TypeOK
  <2>. QED BY <1>2, <2>1, StartMoves
<1>3. CASE /\ Creating(p) /\ UNCHANGED overlap
           /\ call' = [call EXCEPT ![p].pc = IF v = None THEN "insert" ELSE "deactivate",
                                   ![p].found = v, ![p].stored = b]
  <2>. DEFINE pc == IF v = None THEN "insert" ELSE "deactivate"
  <2>1. call' = [call EXCEPT ![p] = [call[p] EXCEPT !.pc = pc, !.found = v, !.stored = b]]
    BY <1>3 DEF TypeOK
  <2>2. Versioned([call[p] EXCEPT !.pc = pc, !.found = v, !.stored = b])
    <3>1. pc \in Pcs
      BY DEF Pcs
    <3>. HIDE DEF pc
    <3>. QED BY <3>1, CallTyped, FoundTyped
  <2>. QED BY <1>3, <2>1, <2>2, Moved DEF Creating
<1>. QED BY <1>1, <1>2, <1>3 DEF Return

LEMMA InitTyped == Init => TypeOK
<1>1. Init => /\ prompt \in [Versions -> {"absent", "active", "inactive"}]
              /\ cache \in Versions \cup {None} /\ faults \in Nat
              /\ overlap \in {"never", "distinct", "same"}
  BY DEF Init
<1>2. Init => interrupted \in BOOLEAN
  BY Zenon DEF Init
<1>3. Init => /\ call \in [Callers -> Calls]
              /\ \A p \in Callers : call[p].kind # "read" => call[p].version \in Versions
  BY NoCallTyped DEF Init, Versioned, NoCall
<1>. QED BY <1>1, <1>2, <1>3 DEF TypeOK

\* The counter of faults only grows.
LEMMA FaultTyped ==
  ASSUME TypeOK, Fault \/ UNCHANGED faults
  PROVE  faults' \in Nat
  BY DEF TypeOK, Fault

LEMMA NextTyped == TypeOK /\ [Next]_vars => TypeOK'
<1>. SUFFICES ASSUME TypeOK, [Next]_vars PROVE TypeOK'
  OBVIOUS
<1>1. ASSUME NEW p \in Callers, Moves(p), UNCHANGED <<prompt, interrupted>>,
             cache' \in Versions \cup {None}, Fault \/ UNCHANGED faults,
             overlap' \in {overlap, "distinct", "same"}
      PROVE  TypeOK'
  BY <1>1, MovesTyped, FaultTyped DEF TypeOK
<1>2. ASSUME NEW p \in Callers, Ask(p) \/ CheckVersion(p) \/ Invalidate(p) PROVE TypeOK'
  <2>1. Moves(p)
    BY <1>2, GotoMoves, EndMoves DEF Ask, CheckVersion, Invalidate, Pcs
  <2>. QED BY <1>1, <1>2, <2>1 DEF Ask, CheckVersion, Invalidate, TypeOK
<1>3. ASSUME NEW p \in Callers, Seed(p) PROVE TypeOK'
  <2>1. Moves(p)
    BY <1>3, BegunTyped, Moved, VersionsAssumption DEF Seed
  <2>. QED BY <1>1, <1>3, <2>1 DEF Seed, TypeOK
<1>4. ASSUME NEW p \in Callers, NEW v \in Versions, Create(p, v) PROVE TypeOK'
  BY <1>1, <1>4, StartMoves DEF Create, TypeOK
<1>5. ASSUME NEW p \in Callers, GetCached(p) PROVE TypeOK'
  <2>1. CASE cache # None /\ Return(p, cache, FALSE) /\ UNCHANGED faults
    <3>1. Moves(p) /\ overlap' \in {overlap, "distinct", "same"}
      <4>1. cache \in Versions \cup {None} /\ FALSE \in BOOLEAN
        BY DEF TypeOK
      <4>2. /\ Moves(p)
            /\ overlap' = overlap \/ (cache = None /\ StartCreation(p, call[p].version))
        BY <2>1, <4>1, ReturnMoves
      <4>. QED BY <2>1, <4>2
    <3>. QED BY <1>1, <1>5, <2>1, <3>1 DEF GetCached, TypeOK
  <2>2. CASE Goto(p, "find") /\ UNCHANGED overlap
    BY <1>1, <1>5, <2>2, GotoMoves DEF GetCached, TypeOK, Pcs
  <2>. QED BY <1>5, <2>1, <2>2 DEF GetCached
<1>6. ASSUME NEW p \in Callers, NEW v \in Versions \cup {None}, Return(p, v, TRUE)
      PROVE  Moves(p) /\ overlap' \in {overlap, "distinct", "same"}
  <2>1. TRUE \in BOOLEAN
    OBVIOUS
  <2>2. \/ overlap' = overlap
        \/ StartCreation(p, call[p].version) /\ call[p].kind = "seed"
    BY <1>6, <2>1, ReturnMoves
  <2>3. call[p].kind = "seed" => call[p].version \in Versions
    BY DEF TypeOK
  <2>. QED BY <1>6, <2>1, <2>2, <2>3, ReturnMoves, StartMoves
<1>7. ASSUME NEW p \in Callers, FindActive(p) PROVE TypeOK'
  <2>1. CASE Return(p, None, TRUE)
    BY <1>1, <1>6, <1>7, <2>1 DEF FindActive, TypeOK
  <2>2. ASSUME NEW v \in Active, call' = [call EXCEPT ![p].pc = "fill", ![p].found = v],
               UNCHANGED overlap
        PROVE  TypeOK'
    <3>1. call' = [call EXCEPT ![p] = [call[p] EXCEPT !.pc = "fill", !.found = v]]
      BY <2>2 DEF TypeOK
    <3>2. Versioned([call[p] EXCEPT !.pc = "fill", !.found = v])
      BY CallTyped, FoundTyped DEF Active, Pcs
    <3>3. Moves(p)
      BY <3>1, <3>2, Moved
    <3>. QED BY <1>1, <1>7, <2>2, <3>3 DEF FindActive, TypeOK
  <2>. QED BY <1>7, <2>1, <2>2 DEF FindActive
<1>8. ASSUME NEW p \in Callers, FillCache(p) PROVE TypeOK'
  <2>1. call[p].found \in Versions \cup {None}
    BY CallTyped DEF Versioned, Calls
  <2>. QED BY <1>1, <1>6, <1>8, <2>1 DEF FillCache, TypeOK
<1>9. ASSUME NEW p \in Callers, Deactivate(p) \/ Insert(p) PROVE TypeOK'
  <2>1. Moves(p)
    BY <1>9, GotoMoves, EndMoves DEF Deactivate, Insert, Pcs
  <2>2. prompt' \in [Versions -> {"absent", "active", "inactive"}]
    BY <1>9 DEF Deactivate, Insert, TypeOK
  <2>. QED BY <1>9, <2>1, <2>2, MovesTyped DEF Deactivate, Insert, TypeOK
<1>10. ASSUME NEW p \in Callers, CallFails(p) PROVE TypeOK'
  <2>1. interrupted' \in BOOLEAN
    BY <1>10, Zenon DEF CallFails, TypeOK
  <2>. QED BY <1>10, <2>1, EndMoves, MovesTyped, FaultTyped DEF CallFails, TypeOK
<1>11. CASE Expire \/ UNCHANGED vars
  BY <1>11 DEF Expire, vars, TypeOK
<1>. QED BY <1>2, <1>3, <1>4, <1>5, <1>7, <1>8, <1>9, <1>10, <1>11 DEF Next, CallStep

\* Every reachable state is well typed, and a creation always has a version.
THEOREM TypeCorrect == Spec => []TypeOK
  BY InitTyped, NextTyped, PTL DEF Spec
-----------------------------------------------------------------------------
(* The active prompt.                                                       *)

\* A call that goes on: it writes nothing, keeps its kind and version, and comes to know
\* what it must.
GoesOn(p) ==
  /\ UNCHANGED <<prompt, overlap>>
  /\ \A q \in Callers \ {p} : call'[q] = call[q]
  /\ Told(call'[p])
  /\ call'[p].kind = "create" =>
       /\ call[p].kind = "create" /\ call'[p].version = call[p].version
       /\ overlap = "never" => Alone(call'[p])
       /\ overlap # "same" => Unwritten(call'[p])

LEMMA GoesOnKeeps ==
  ASSUME TypeOK, ActiveInv, NEW p \in Callers, GoesOn(p),
         interrupted' \/ (~ At(p, "insert") /\ interrupted' = interrupted)
  PROVE  ActiveInv'
<1>. USE DEF GoesOn
<1>1. \A q \in Callers : Told(call[q])'
  BY DEF ActiveInv, Told
<1>2. ASSUME overlap = "never" PROVE Lone'
  <2>1. Lone
    BY <1>2 DEF ActiveInv
  <2>2. \A q \in Callers : Alone(call[q])'
    <3>1. Alone(call[p])'
      BY <1>2 DEF Alone, Active
    <3>2. \A q \in Callers \ {p} : Alone(call[q])'
      BY <2>1 DEF Lone, Alone, Active
    <3>. QED BY <3>1, <3>2
  <2>3. \A v, w \in Active' : v = w
    BY <2>1 DEF Lone, Active
  <2>4. \A q, r \in Callers : Creating(q)' /\ Creating(r)' => q = r
    BY <2>1 DEF Lone, Creating
  <2>. QED BY <2>2, <2>3, <2>4 DEF Lone
<1>3. ASSUME overlap # "same" PROVE Distinct'
  BY <1>3 DEF ActiveInv, Distinct, Creating, Unwritten
<1>4. ASSUME overlap # "same", ~ interrupted' PROVE Followed'
  <2>1. Followed /\ ~ At(p, "insert")
    BY <1>4 DEF ActiveInv
  <2>. QED BY <2>1 DEF Followed, Active, At
<1>. QED BY <1>1, <1>2, <1>3, <1>4 DEF ActiveInv

\* A call that is over knows nothing.
LEMMA EndKeeps ==
  ASSUME TypeOK, ActiveInv, NEW p \in Callers, End(p), UNCHANGED <<prompt, overlap>>,
         interrupted' \/ (~ At(p, "insert") /\ interrupted' = interrupted)
  PROVE  ActiveInv'
<1>1. call'[p] = NoCall /\ \A q \in Callers \ {p} : call'[q] = call[q]
  BY EndMoves, MovesTyped
<1>2. Told(NoCall) /\ NoCall.kind = "read"
  BY DEF NoCall, Told, Holds
<1>3. GoesOn(p)
  BY <1>1, <1>2 DEF GoesOn
<1>. QED BY <1>3, GoesOnKeeps

\* A creation that starts beside no other, or beside others of other versions.
LEMMA StartKeeps ==
  ASSUME TypeOK, ActiveInv, NEW p \in Callers, NEW v \in Versions, StartCreation(p, v),
         ~ At(p, "insert"), UNCHANGED <<prompt, interrupted>>
  PROVE  ActiveInv'
<1>1. /\ call'[p].kind = "create" /\ call'[p].pc = "check" /\ call'[p].version = v
      /\ \A q \in Callers \ {p} : call'[q] = call[q]
  <2>1. Moves(p) /\ call'[p] = [NoCall EXCEPT !.kind = "create", !.pc = "check", !.version = v]
    BY StartMoves
  <2>. QED BY <2>1, MovesTyped DEF NoCall
<1>. DEFINE others == {q \in Callers \ {p} : Creating(q)}
<1>2. \A q \in Callers : Told(call[q])'
  BY <1>1 DEF ActiveInv, Told, Holds
<1>3. ASSUME overlap' = "never" PROVE Lone'
  <2>1. overlap = "never" /\ others = {}
    BY <1>3 DEF StartCreation, TypeOK
  <2>2. Lone
    BY <2>1 DEF ActiveInv
  <2>3. \A q \in Callers : Alone(call[q])'
    BY <1>1, <2>2 DEF Lone, Alone, Active, Holds
  <2>4. \A q, r \in Callers : Creating(q)' /\ Creating(r)' => q = r
    BY <1>1, <2>1 DEF Creating
  <2>. QED BY <2>2, <2>3, <2>4 DEF Lone, Active
<1>4. ASSUME overlap' # "same" PROVE overlap # "same" /\ Distinct'
  <2>1. overlap # "same" /\ \A q \in others : call[q].version # v
    BY <1>4 DEF StartCreation
  <2>2. Distinct
    BY <2>1 DEF ActiveInv
  <2>3. \A q \in Callers : Unwritten(call[q])'
    BY <1>1, <2>2 DEF Distinct, Unwritten
  <2>4. \A q \in Callers \ {p} : Creating(q)' => q \in others /\ call'[q].version # v
    BY <1>1, <2>1 DEF Creating
  <2>. QED BY <1>1, <2>1, <2>2, <2>3, <2>4 DEF Distinct, Creating
<1>5. ASSUME overlap' # "same", ~ interrupted' PROVE Followed'
  BY <1>1, <1>4, <1>5 DEF ActiveInv, Followed, Active, At
<1>. QED BY <1>2, <1>3, <1>4, <1>5 DEF ActiveInv

LEMMA GotoKeeps ==
  ASSUME TypeOK, ActiveInv, NEW p \in Callers, NEW pc \in {"invalidate", "get", "find"}, Goto(p, pc),
         call[p].pc \in {"idle", "check", "invalidate", "get"},
         call[p].pc \in {"idle", "get"} => pc # "invalidate",
         call[p].pc \in {"idle", "check"} /\ call[p].kind = "create" =>
           prompt[call[p].version] = "absent",
         UNCHANGED <<prompt, overlap, interrupted>>
  PROVE  ActiveInv'
<1>1. /\ call'[p].pc = pc /\ call'[p].kind = call[p].kind /\ call'[p].version = call[p].version
      /\ \A q \in Callers \ {p} : call'[q] = call[q]
  <2>1. pc \in Pcs
    BY DEF Pcs
  <2>2. Moves(p) /\ call'[p] = [call[p] EXCEPT !.pc = pc]
    BY <2>1, GotoMoves
  <2>. QED BY <2>2, MovesTyped, CallTyped DEF Versioned, Calls
<1>2. Told(call[p]) /\ (overlap # "same" => Unwritten(call[p]))
  BY DEF ActiveInv, Distinct
<1>3. Told(call'[p]) /\ Alone(call'[p])
  BY <1>1, <1>2 DEF Told, Holds, Alone
<1>4. call[p].kind = "create" /\ overlap # "same" => Unwritten(call'[p])
  BY <1>1, <1>2 DEF Unwritten
<1>5. GoesOn(p)
  BY <1>1, <1>3, <1>4 DEF GoesOn
<1>. QED BY <1>5, GoesOnKeeps DEF At

\* What get_active_prompt answers is known to be there, unless it came from the cache.
LEMMA ReturnKeeps ==
  ASSUME TypeOK, ActiveInv, NEW p \in Callers, NEW v \in Versions \cup {None}, NEW b \in BOOLEAN,
         Return(p, v, b), call[p].pc \in {"get", "find", "fill"},
         v = None => Active = {},
         b /\ v # None => prompt[v] # "absent"
                          /\ (overlap = "never" /\ Creating(p) => Active \subseteq {v}),
         UNCHANGED <<prompt, interrupted>>
  PROVE  ActiveInv'
<1>0. /\ Moves(p)
      /\ \/ call'[p] = NoCall /\ overlap' = overlap
         \/ call[p].kind = "seed" /\ v = None /\ StartCreation(p, call[p].version)
         \/ /\ call[p].kind = "create" /\ overlap' = overlap
            /\ call'[p] = [call[p] EXCEPT !.pc = IF v = None THEN "insert" ELSE "deactivate",
                                          !.found = v, !.stored = b]
  BY ReturnMoves, Zenon
<1>1. CASE End(p) /\ overlap' = overlap
  BY <1>1, EndKeeps DEF At
<1>2. CASE call[p].kind = "seed" /\ StartCreation(p, call[p].version)
  BY <1>2, StartKeeps DEF TypeOK, At
<1>3. CASE /\ call[p].kind = "create" /\ overlap' = overlap
           /\ call'[p] = [call[p] EXCEPT !.pc = IF v = None THEN "insert" ELSE "deactivate",
                                         !.found = v, !.stored = b]
  <2>1. /\ call'[p].pc = (IF v = None THEN "insert" ELSE "deactivate")
        /\ call'[p].kind = "create" /\ call'[p].version = call[p].version
        /\ call'[p].found = v
    BY <1>3, CallTyped DEF Versioned, Calls
  <2>2. call'[p].stored <=> b
    BY <1>3, CallTyped, Zenon DEF Versioned, Calls
  <2>3. \A q \in Callers \ {p} : call'[q] = call[q]
    BY <1>0, MovesTyped
  <2>4. overlap # "same" => Unwritten(call[p])
    BY DEF ActiveInv, Distinct
  <2>5. overlap # "same" => Unwritten(call'[p])
    BY <1>3, <2>1, <2>4 DEF Unwritten
  <2>6. Told(call'[p])
    BY <2>1, <2>2 DEF Told, Holds
  <2>7. overlap = "never" => Alone(call'[p])
    BY <1>3, <2>1, <2>2 DEF Alone, Holds, Creating
  <2>8. GoesOn(p)
    BY <1>3, <2>1, <2>3, <2>5, <2>6, <2>7 DEF GoesOn
  <2>. QED BY <2>8, GoesOnKeeps DEF At
<1>4. call'[p] = NoCall => End(p)
  BY <1>0, Zenon DEF Moves, End
<1>. QED BY <1>0, <1>1, <1>2, <1>3, <1>4, Zenon

LEMMA FindKeeps ==
  ASSUME TypeOK, ActiveInv, NEW p \in Callers, FindActive(p)
  PROVE  ActiveInv'
<1>1. CASE Active = {}
  <2>1. None \in Versions \cup {None} /\ TRUE \in BOOLEAN
    OBVIOUS
  <2>. QED BY <1>1, <2>1, ReturnKeeps DEF FindActive, At
<1>2. ASSUME NEW v \in Active, call' = [call EXCEPT ![p].pc = "fill", ![p].found = v],
             UNCHANGED overlap
      PROVE  ActiveInv'
  <2>1. /\ call'[p].pc = "fill" /\ call'[p].found = v
        /\ call'[p].kind = call[p].kind /\ call'[p].version = call[p].version
        /\ \A q \in Callers \ {p} : call'[q] = call[q]
    BY <1>2, CallTyped DEF Versioned, Calls, TypeOK
  <2>2. v \in Versions /\ prompt[v] # "absent"
    BY DEF Active
  <2>3. Told(call'[p])
    BY <2>1, <2>2 DEF Told, Holds
  <2>4. overlap = "never" => Alone(call'[p])
    BY <2>1 DEF Alone, ActiveInv, Lone
  <2>5. overlap # "same" /\ call[p].kind = "create" => Unwritten(call'[p])
    BY <1>2, <2>1 DEF ActiveInv, Distinct, Unwritten, FindActive, At
  <2>6. GoesOn(p)
    BY <1>2, <2>1, <2>3, <2>4, <2>5 DEF GoesOn, FindActive
  <2>. QED BY <2>6, GoesOnKeeps DEF FindActive, At
<1>. QED BY <1>1, <1>2 DEF FindActive

\* The prompt that was found is deactivated, and nothing is active until the insertion.
LEMMA DeactivateKeeps ==
  ASSUME TypeOK, ActiveInv, NEW p \in Callers, Deactivate(p)
  PROVE  ActiveInv'
<1>1. CASE ~ call[p].stored
  BY <1>1, EndKeeps DEF Deactivate, At
<1>2. CASE call[p].stored
  <2>. DEFINE v == call[p].found
  <2>1. /\ call'[p].pc = "insert" /\ call'[p].kind = call[p].kind
        /\ call'[p].version = call[p].version
        /\ \A q \in Callers \ {p} : call'[q] = call[q]
    <3>1. "insert" \in Pcs
      BY DEF Pcs
    <3>2. Moves(p) /\ call'[p] = [call[p] EXCEPT !.pc = "insert"]
      BY <1>2, <3>1, GotoMoves DEF Deactivate
    <3>. QED BY <3>2, MovesTyped, CallTyped DEF Versioned, Calls
  <2>2. /\ v \in Versions /\ prompt[v] # "absent" /\ call[p].kind = "create"
    BY <1>2 DEF ActiveInv, Told, Holds, Deactivate, At
  <2>3. prompt' = [prompt EXCEPT ![v] = "inactive"] /\ UNCHANGED <<overlap, interrupted>>
    BY <1>2 DEF Deactivate
  <2>4. Active' = Active \ {v} /\ \A w \in Versions : prompt'[w] = "absent" <=> prompt[w] = "absent"
    BY <2>2, <2>3 DEF Active, TypeOK
  <2>5. \A q \in Callers : Told(call[q])'
    BY <2>1, <2>2, <2>4 DEF ActiveInv, Told, Holds
  <2>6. ASSUME overlap = "never" PROVE Lone'
    <3>1. Lone /\ Active \subseteq {v}
      BY <1>2, <2>2, <2>6 DEF ActiveInv, Lone, Alone, Holds, Deactivate, At
    <3>2. Active' = {}
      BY <2>4, <3>1
    <3>3. \A q \in Callers : Alone(call[q])'
      BY <3>2 DEF Alone
    <3>4. \A q, r \in Callers : Creating(q)' /\ Creating(r)' => q = r
      BY <2>1, <3>1 DEF Lone, Creating
    <3>. QED BY <3>2, <3>3, <3>4 DEF Lone
  <2>7. ASSUME overlap # "same" PROVE Distinct'
    <3>1. Distinct
      BY <2>7 DEF ActiveInv
    <3>2. \A q \in Callers : Unwritten(call[q])'
      <4>. SUFFICES ASSUME NEW q \in Callers, call'[q].kind = "create", call'[q].pc # "check"
                    PROVE  prompt'[call'[q].version] = "absent"
        BY DEF Unwritten
      <4>1. call[q].kind = "create" /\ call[q].pc # "check" /\ call'[q].version = call[q].version
        BY <2>1, <2>2 DEF Deactivate, At
      <4>. QED BY <2>4, <3>1, <4>1 DEF Distinct, Unwritten, TypeOK
    <3>. QED BY <2>1, <3>1, <3>2 DEF Distinct, Creating
  <2>8. Followed'
    BY <2>1 DEF Followed, At
  <2>. QED BY <2>3, <2>5, <2>6, <2>7, <2>8 DEF ActiveInv
<1>. QED BY <1>1, <1>2

\* The new version becomes active, and no call knew it before.
LEMMA InsertKeeps ==
  ASSUME TypeOK, ActiveInv, NEW p \in Callers, Insert(p)
  PROVE  ActiveInv'
<1>. DEFINE v == call[p].version
<1>1. call'[p] = NoCall /\ \A q \in Callers \ {p} : call'[q] = call[q]
  BY EndMoves, MovesTyped DEF Insert
<1>2. call[p].kind = "create" /\ v \in Versions
  BY DEF ActiveInv, Told, Insert, At, TypeOK
<1>3. /\ \A w \in Versions : prompt[w] # "absent" => prompt'[w] = prompt[w]
      /\ \A w \in Versions \ {v} : prompt'[w] = prompt[w]
      /\ prompt'[v] # "absent" /\ Active' \subseteq Active \cup {v}
      /\ UNCHANGED <<overlap, interrupted>>
  BY <1>2 DEF Insert, TypeOK, Active
<1>4. \A q \in Callers : Told(call[q])'
  BY <1>1, <1>3 DEF ActiveInv, Told, Holds, NoCall
<1>5. ASSUME overlap = "never" PROVE Lone'
  <2>1. Lone /\ Active = {}
    BY <1>2, <1>5 DEF ActiveInv, Lone, Alone, Insert, At
  <2>2. \A q \in Callers : ~ Creating(q)'
    BY <1>1, <1>2, <2>1 DEF Lone, Creating, NoCall
  <2>3. \A q \in Callers : Alone(call[q])'
    BY <2>2 DEF Alone, Creating
  <2>. QED BY <1>3, <2>1, <2>2, <2>3 DEF Lone
<1>6. ASSUME overlap # "same" PROVE Distinct'
  <2>1. Distinct
    BY <1>6 DEF ActiveInv
  <2>2. \A q \in Callers : Creating(q)' =>
          q # p /\ call'[q] = call[q] /\ call[q].kind = "create" /\ call[q].version # v
                /\ call[q].version \in Versions
    BY <1>1, <1>2, <2>1 DEF Distinct, Creating, NoCall, TypeOK
  <2>3. \A q \in Callers : Unwritten(call[q])'
    BY <1>3, <2>1, <2>2 DEF Distinct, Unwritten, Creating
  <2>. QED BY <2>1, <2>2, <2>3 DEF Distinct, Creating
<1>7. ASSUME overlap # "same" PROVE Active' # {}
  <2>1. prompt[v] = "absent"
    BY <1>2, <1>7 DEF ActiveInv, Distinct, Unwritten, Insert, At
  <2>2. prompt'[v] = "active"
    BY <1>2, <2>1 DEF Insert, TypeOK
  <2>. QED BY <1>2, <2>2 DEF Active
<1>. QED BY <1>3, <1>4, <1>5, <1>6, <1>7 DEF ActiveInv, Followed

LEMMA NextActive == TypeOK /\ ActiveInv /\ [Next]_vars => ActiveInv'
<1>. SUFFICES ASSUME TypeOK, ActiveInv, [Next]_vars PROVE ActiveInv'
  OBVIOUS
<1>. USE DEF At
<1>1. ASSUME NEW p \in Callers, Ask(p) PROVE ActiveInv'
  <2>1. call[p].kind # "create"
    BY <1>1 DEF Ask, ActiveInv, Told
  <2>. QED BY <1>1, <2>1, GotoKeeps DEF Ask
<1>2. ASSUME NEW p \in Callers, Seed(p) PROVE ActiveInv'
  <2>1. /\ call'[p] = [NoCall EXCEPT !.kind = "seed", !.pc = "get", !.version = Initial]
        /\ \A q \in Callers \ {p} : call'[q] = call[q]
    BY <1>2 DEF Seed, TypeOK
  <2>2. call'[p].kind = "seed" /\ call'[p].pc = "get"
    BY <2>1 DEF NoCall
  <2>3. GoesOn(p)
    BY <1>2, <2>1, <2>2 DEF Seed, GoesOn, Told, Holds
  <2>. QED BY <1>2, <2>3, GoesOnKeeps DEF Seed
<1>3. ASSUME NEW p \in Callers, NEW v \in Versions, Create(p, v) PROVE ActiveInv'
  BY <1>3, StartKeeps DEF Create
<1>4. ASSUME NEW p \in Callers, GetCached(p) PROVE ActiveInv'
  <2>1. CASE cache # None /\ Return(p, cache, FALSE)
    <3>1. cache \in Versions \cup {None} /\ FALSE \in BOOLEAN
      BY DEF TypeOK
    <3>. QED BY <1>4, <2>1, <3>1, ReturnKeeps DEF GetCached
  <2>2. CASE Goto(p, "find") /\ UNCHANGED overlap
    BY <1>4, <2>2, GotoKeeps DEF GetCached
  <2>. QED BY <1>4, <2>1, <2>2 DEF GetCached
<1>5. ASSUME NEW p \in Callers, FillCache(p) PROVE ActiveInv'
  <2>1. call[p].found \in Versions \cup {None} /\ TRUE \in BOOLEAN
    BY CallTyped DEF Versioned, Calls
  <2>2. call[p].found \in Versions /\ prompt[call[p].found] # "absent"
    BY <1>5 DEF FillCache, ActiveInv, Told, Holds
  <2>3. overlap = "never" /\ Creating(p) => Active \subseteq {call[p].found}
    BY <1>5 DEF FillCache, ActiveInv, Lone, Alone, Holds, Creating
  <2>. QED BY <1>5, <2>1, <2>2, <2>3, ReturnKeeps, VersionsAssumption DEF FillCache
<1>6. ASSUME NEW p \in Callers, CheckVersion(p) PROVE ActiveInv'
  BY <1>6, EndKeeps, GotoKeeps DEF CheckVersion
<1>7. ASSUME NEW p \in Callers, Invalidate(p) PROVE ActiveInv'
  BY <1>7, GotoKeeps DEF Invalidate
<1>8. ASSUME NEW p \in Callers, CallFails(p) PROVE ActiveInv'
  <2>1. interrupted' \/ (call[p].pc # "insert" /\ interrupted' = interrupted)
    <3>1. CASE call[p].pc = "insert"
      BY <1>8, <3>1, Zenon DEF CallFails
    <3>2. CASE call[p].pc # "insert"
      <4>1. interrupted' = (interrupted \/ FALSE) /\ interrupted \in BOOLEAN
        BY <1>8, <3>2, Zenon DEF CallFails, TypeOK
      <4>. QED BY <3>2, <4>1, Zenon
    <3>. QED BY <3>1, <3>2
  <2>. QED BY <1>8, <2>1, EndKeeps DEF CallFails
<1>9. CASE Expire \/ UNCHANGED vars
  BY <1>9 DEF Expire, vars, ActiveInv, Lone, Distinct, Followed, Told, Holds, Alone, Active,
     Unwritten, Creating
<1>. QED BY <1>1, <1>2, <1>3, <1>4, <1>5, <1>6, <1>7, <1>8, <1>9, FindKeeps, DeactivateKeeps,
            InsertKeeps DEF Next, CallStep

LEMMA InitActive == Init => ActiveInv
<1>1. Init => /\ \A p \in Callers : call[p].pc = "idle" /\ call[p].kind = "read"
              /\ \A v \in Versions : prompt[v] = "absent"
  BY DEF Init, NoCall
<1>. QED BY <1>1 DEF ActiveInv, Lone, Distinct, Followed, Told, Holds, Alone, Active,
            Unwritten, Creating

LEMMA InvAlways == Spec => [](TypeOK /\ ActiveInv)
  BY InitTyped, NextTyped, InitActive, NextActive, PTL DEF Spec

\* Creations that do not overlap leave at most one prompt active, for any number of
\* versions, callers and faults.
THEOREM OneActiveAloneAlways == Spec => []OneActiveAlone
<1>1. ActiveInv => OneActiveAlone
  <2>. SUFFICES ASSUME ActiveInv, overlap = "never" PROVE Cardinality(Active) <= 1
    BY DEF OneActiveAlone
  <2>1. \A v, w \in Active : v = w
    BY DEF ActiveInv, Lone
  <2>2. CASE Active = {}
    BY <2>2, FS_EmptySet
  <2>3. ASSUME NEW v \in Active PROVE Cardinality(Active) <= 1
    <3>1. Active = {v}
      BY <2>1
    <3>. QED BY <3>1, FS_Singleton
  <2>. QED BY <2>2, <2>3
<1>. QED BY <1>1, InvAlways, PTL

\* Between creations there is an active prompt as soon as there is one at all, for any
\* number of versions, callers and faults, unless two creations of one version overlapped
\* or one was cut between its writes.
THEOREM ActiveRemainsAlways == Spec => []ActiveRemains
<1>1. ActiveInv => ActiveRemains
  BY DEF ActiveInv, Followed, ActiveRemains
<1>. QED BY <1>1, InvAlways, PTL
=============================================================================
