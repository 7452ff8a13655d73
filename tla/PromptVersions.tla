--------------------------- MODULE PromptVersions ---------------------------
(***************************************************************************)
(* The prompt versions of one prompt type and the Redis copy of the active *)
(* one: administrators and the seed script that create versions, and the   *)
(* analysis consumers that ask for the active prompt.                      *)
(*                                                                         *)
(* Every action is one access to MongoDB or Redis.  A failing Redis is     *)
(* logged and skipped, a failing MongoDB ends the call.  A version is      *)
(* unique in the collection, so a record is named by its version.          *)
(***************************************************************************)
EXTENDS Integers, FiniteSets

CONSTANTS
  Versions,   \* prompt versions that may be created
  Initial,    \* the version the seed script creates
  Creators,   \* concurrent calls of create_prompt and of the seed script
  Readers,    \* consumers that ask for the active prompt
  None,       \* no prompt, nothing cached
  MaxFaults   \* bound: environment faults in one behaviour

ASSUME VersionsAssumption == Initial \in Versions /\ None \notin Versions
ASSUME CallersAssumption == Creators \cap Readers = {}
ASSUME FaultsAssumption == MaxFaults \in Nat

VARIABLES
  prompt,       \* the collection: what is stored under each version
  cache,        \* the version in cache:prompt:<type>:active, or None
  call,         \* what each caller executes
  faults,       \* counter for MaxFaults
  overlap,      \* history: whether two creations ran at the same time
  interrupted   \* history: a creation ended between its two writes

vars == <<prompt, cache, call, faults, overlap, interrupted>>

Callers == Creators \cup Readers

\* A call: the version it creates, the active prompt it has found, and whether that is
\* the stored record, with its _id, or a copy rebuilt from the cache.
Calls == [kind : {"read", "seed", "create"},
          pc : {"idle", "check", "invalidate", "get", "find", "fill", "deactivate", "insert"},
          version : Versions \cup {None}, found : Versions \cup {None}, stored : BOOLEAN]
NoCall == [kind |-> "read", pc |-> "idle", version |-> None, found |-> None, stored |-> FALSE]

Active == {v \in Versions : prompt[v] = "active"}
At(p, pc) == call[p].pc = pc
Creating(p) == call[p].kind = "create"

\* Every variable has its type, and a creation has a version.
TypeOK ==
  /\ prompt \in [Versions -> {"absent", "active", "inactive"}]
  /\ cache \in Versions \cup {None}
  /\ call \in [Callers -> Calls]
  /\ \A p \in Callers : call[p].kind # "read" => call[p].version \in Versions
  /\ faults \in Nat
  /\ overlap \in {"never", "distinct", "same"}
  /\ interrupted \in BOOLEAN

Init ==
  /\ prompt = [v \in Versions |-> "absent"]
  /\ cache = None
  /\ call = [p \in Callers |-> NoCall]
  /\ faults = 0
  /\ overlap = "never"
  /\ interrupted = FALSE

-----------------------------------------------------------------------------
Fault == faults < MaxFaults /\ faults' = faults + 1
Goto(p, pc) == call' = [call EXCEPT ![p].pc = pc]
End(p) == call' = [call EXCEPT ![p] = NoCall]

\* create_prompt starts for caller p, perhaps beside other creations.
StartCreation(p, v) ==
  /\ call' = [call EXCEPT ![p] = [NoCall EXCEPT !.kind = "create", !.pc = "check", !.version = v]]
  /\ LET others == {q \in Callers \ {p} : Creating(q)} IN
     overlap' = IF others = {} THEN overlap
                ELSE IF \E q \in others : call[q].version = v THEN "same"
                ELSE IF overlap = "never" THEN "distinct" ELSE overlap

\* get_active_prompt returns to its caller.
Return(p, v, stored) ==
  \/ call[p].kind = "read" /\ End(p) /\ UNCHANGED overlap
  \/ /\ call[p].kind = "seed"
     /\ IF v = None THEN StartCreation(p, call[p].version) ELSE End(p) /\ UNCHANGED overlap
  \/ /\ Creating(p)
     /\ call' = [call EXCEPT ![p].pc = IF v = None THEN "insert" ELSE "deactivate",
                             ![p].found = v, ![p].stored = stored]
     /\ UNCHANGED overlap

-----------------------------------------------------------------------------
(* get_active_prompt, for consumers, for the seed script and within         *)
(* create_prompt.                                                           *)

\* A consumer has a text to analyse.
Ask(p) ==
  /\ p \in Readers /\ At(p, "idle")
  /\ Goto(p, "get")
  /\ UNCHANGED <<prompt, cache, faults, overlap, interrupted>>

\* A hit is the answer; a miss or an unreachable Redis leads to MongoDB.
GetCached(p) ==
  /\ At(p, "get")
  /\ \/ cache # None /\ Return(p, cache, FALSE) /\ UNCHANGED faults
     \/ cache = None /\ Goto(p, "find") /\ UNCHANGED <<faults, overlap>>
     \/ cache # None /\ Fault /\ Goto(p, "find") /\ UNCHANGED overlap
  /\ UNCHANGED <<prompt, cache, interrupted>>

\* find_one answers any active prompt.
FindActive(p) ==
  /\ At(p, "find")
  /\ IF Active = {}
     THEN Return(p, None, TRUE)
     ELSE /\ \E v \in Active : call' = [call EXCEPT ![p].pc = "fill", ![p].found = v]
          /\ UNCHANGED overlap
  /\ UNCHANGED <<prompt, cache, faults, interrupted>>

\* What was found is cached, whatever happened to it since.
FillCache(p) ==
  /\ At(p, "fill")
  /\ \/ cache' = call[p].found /\ UNCHANGED faults
     \/ UNCHANGED cache /\ Fault
  /\ Return(p, call[p].found, TRUE)
  /\ UNCHANGED <<prompt, interrupted>>

\* Mutant: the entry is stored without ex.
ExpireNever == FALSE /\ UNCHANGED vars

\* prompt_ttl is over.
Expire ==
  /\ cache # None
  /\ cache' = None
  /\ UNCHANGED <<prompt, call, faults, overlap, interrupted>>

-----------------------------------------------------------------------------
(* create_prompt, and the seed script before it.                            *)

\* Mutant: the version is not passed on.
CreateNameless(p, v) ==
  /\ p \in Creators /\ At(p, "idle")
  /\ StartCreation(p, None)
  /\ UNCHANGED <<prompt, cache, faults, interrupted>>

Create(p, v) ==
  /\ p \in Creators /\ At(p, "idle")
  /\ StartCreation(p, v)
  /\ UNCHANGED <<prompt, cache, faults, interrupted>>

\* seed_prompt looks for an active prompt first.
Seed(p) ==
  /\ p \in Creators /\ At(p, "idle")
  /\ call' = [call EXCEPT ![p] = [NoCall EXCEPT !.kind = "seed", !.pc = "get", !.version = Initial]]
  /\ UNCHANGED <<prompt, cache, faults, overlap, interrupted>>

\* Mutant: the unique index alone refuses a known version.
CheckNothing(p) ==
  /\ At(p, "check")
  /\ Goto(p, "invalidate")
  /\ UNCHANGED <<prompt, cache, faults, overlap, interrupted>>

\* get_prompt_by_version: ConflictError for a version that exists.
CheckVersion(p) ==
  /\ At(p, "check")
  /\ IF prompt[call[p].version] = "absent" THEN Goto(p, "invalidate") ELSE End(p)
  /\ UNCHANGED <<prompt, cache, faults, overlap, interrupted>>

\* The cached copy is dropped before the active prompt is read.
Invalidate(p) ==
  /\ At(p, "invalidate")
  /\ \/ cache' = None /\ UNCHANGED faults
     \/ UNCHANGED cache /\ Fault
  /\ Goto(p, "get")
  /\ UNCHANGED <<prompt, overlap, interrupted>>

\* Mutant: a prompt that came from the cache is not saved.
DeactivateStored(p) ==
  /\ At(p, "deactivate")
  /\ prompt' = IF call[p].stored THEN [prompt EXCEPT ![call[p].found] = "inactive"] ELSE prompt
  /\ Goto(p, "insert")
  /\ UNCHANGED <<cache, faults, overlap, interrupted>>

\* active_prompt.save().  The copy from the cache has no _id, so its save inserts a
\* second record of the same version, which the unique index refuses.
Deactivate(p) ==
  /\ At(p, "deactivate")
  /\ IF call[p].stored
     THEN prompt' = [prompt EXCEPT ![call[p].found] = "inactive"] /\ Goto(p, "insert")
     ELSE End(p) /\ UNCHANGED prompt
  /\ UNCHANGED <<cache, faults, overlap, interrupted>>

\* DuplicateKeyError when another creation was faster.
Insert(p) ==
  /\ At(p, "insert")
  /\ prompt' = [prompt EXCEPT ![call[p].version] = IF @ = "absent" THEN "active" ELSE @]
  /\ End(p)
  /\ UNCHANGED <<cache, faults, overlap, interrupted>>

\* MongoDB raises, or the process dies.
CallFails(p) ==
  /\ ~ At(p, "idle")
  /\ Fault
  /\ interrupted' = (interrupted \/ At(p, "insert"))
  /\ End(p)
  /\ UNCHANGED <<prompt, cache, overlap>>

-----------------------------------------------------------------------------
CallStep(p) ==
  \/ GetCached(p) \/ FindActive(p) \/ FillCache(p)
  \/ CheckVersion(p) \/ Invalidate(p) \/ Deactivate(p) \/ Insert(p)

Next ==
  \/ \E p \in Callers : Ask(p) \/ Seed(p) \/ CallStep(p) \/ CallFails(p)
  \/ \E p \in Callers, v \in Versions : Create(p, v)
  \/ Expire

Spec == Init /\ [][Next]_vars

\* Calls that have started run to their end, and Redis drops what has expired.
Fairness == WF_vars(Expire) /\ \A p \in Callers : WF_vars(CallStep(p))

FairSpec == Spec /\ Fairness

-----------------------------------------------------------------------------
(* Properties.                                                              *)

\* Creations that do not overlap leave at most one prompt active, whatever the cache
\* answers, whichever store fails and whoever reads in between.
OneActiveAlone == overlap = "never" => Cardinality(Active) <= 1

\* Once there is a prompt there is an active one, between any two creations, unless
\* two creations of the same version overlapped or one was cut between its writes.
ActiveRemains ==
  /\ overlap # "same" /\ ~ interrupted
  /\ \A p \in Callers : ~ At(p, "insert")
  /\ \E v \in Versions : prompt[v] # "absent"
  => Active # {}

\* Every stale copy goes: in the end the cache holds nothing or an active prompt.
CacheConverges == <>[](cache # None => cache \in Active)

\* While no creation runs, the cached prompt is the active one.
CachedIsActive == (\A p \in Callers : ~ Creating(p)) /\ cache # None => cache \in Active
=============================================================================
