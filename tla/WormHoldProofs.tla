---------------------------- MODULE WormHoldProofs ----------------------------
(***************************************************************************)
(* Theorems about WormHold, for every set of objects, memberships,         *)
(* commands and operators.                                                 *)
(*                                                                         *)
(* The argument: at most one hold of an object is in the way of another,   *)
(* and at most one of its releases is; so at most one command per object   *)
(* is unsettled, and until its one write lands the object is in the state  *)
(* the settled commands left it in.                                        *)
(***************************************************************************)
EXTENDS WormHold, TLAPS

Unsettled == {"executing", "outcome_unknown"}
Before(c) == held[request[c].evidence] # Wanted(c)   \* the write has not landed
After(c) == held[request[c].evidence] = Wanted(c)

OneLiveHold ==
  \A g, h \in Commands :
    /\ IsHold(g) /\ IsHold(h) /\ request[g].evidence = request[h].evidence
    /\ Live(g) /\ Live(h)
    => g = h
OneRelease ==
  \A r, s \in Commands :
    /\ IsRelease(r) /\ IsRelease(s) /\ request[r].releaseOf = request[s].releaseOf
    /\ status[r] \notin Dead /\ status[s] \notin Dead
    => r = s
ReleasesApplied ==
  \A r \in Commands : IsRelease(r) =>
    LET h == request[r].releaseOf IN
      /\ h \in Commands /\ IsHold(h) /\ status[h] = "applied"
      /\ request[h].evidence = request[r].evidence
      /\ Person[request[h].by] # Person[request[r].by]
Chains == OneLiveHold /\ OneRelease /\ ReleasesApplied

Idling(c) ==
  /\ status[c] \in {"none", "queued", "pending", "cancelled"} =>
       executor[c].at = "gone" /\ c \notin writes
  /\ IsHoldOrRelease(c) => status[c] # "pending"
Writing(c) ==
  c \in writes =>
    /\ IsHoldOrRelease(c)
    /\ status[c] \in Unsettled
    /\ Before(c)
    /\ \/ executor[c].at \in {"gone", "await"}
       \/ executor[c].at = "finish" /\ executor[c].outcome = "outcome_unknown"
Executing(c) ==
  IsHoldOrRelease(c) =>
    /\ executor[c].at = "send" => status[c] \in Unsettled /\ Before(c) /\ c \notin writes
    /\ executor[c].at = "await" => c \in writes
    /\ executor[c].at = "finish" =>
         /\ executor[c].outcome \in {"applied", "outcome_unknown", "refused"}
         /\ executor[c].outcome = "refused" => status[c] \in Unsettled /\ Before(c)
         /\ executor[c].outcome = "applied" /\ status[c] \in Unsettled => After(c)
Anchoring(c) ==
  status[c] # "none" /\ ~IsHoldOrRelease(c) =>
    /\ executor[c].at \in {"gone", "send", "finish"}
    /\ executor[c].at = "finish" => executor[c].outcome \in {"applied", "pending"}
Working(c) == Idling(c) /\ Writing(c) /\ Executing(c) /\ Anchoring(c)
Workings == \A c \in Commands : Working(c)

Reading(o) ==
  /\ recovery[o].command = NoCommand => recovery[o].observed = "unread"
  /\ recovery[o].command # NoCommand =>
       LET c == recovery[o].command IN
         /\ IsHoldOrRelease(c)
         /\ status[c] \notin {"queued", "pending", "cancelled"}
         /\ Confirms(recovery[o].observed, c) /\ status[c] \in Unsettled => After(c)
Readings == \A o \in Operators : Reading(o)

FreeObjects ==
  \A e \in Evidence :
    (\A h \in HoldsOf(e) : Live(h) => status[h] = "queued") => ~held[e]
Objects == FreeObjects /\ AppliedHoldHolds

IInv == TypeOK /\ Chains /\ Workings /\ Readings /\ Objects

-----------------------------------------------------------------------------
(* Type correctness.                                                       *)

LEMMA TypeInit == Init => TypeOK
BY DEF Init, TypeOK, Status, Executor, Gone, Outcome, Recovery, Idle, Observation

LEMMA MovesType ==
  ASSUME TypeOK, NEW c \in Commands,
         NEW at \in {"gone", "send", "await", "read", "finish"},
         NEW outcome \in Outcome, Moves(c, at, outcome)
  PROVE  executor' \in [Commands -> Executor]
<1>1. /\ executor \in [Commands -> Executor]
      /\ executor' = [executor EXCEPT ![c] =
           [at |-> at, attempt |-> executor[c].attempt, outcome |-> outcome]]
  BY DEF TypeOK, Moves
<1>2. executor[c] \in [at : {"gone", "send", "await", "read", "finish"},
                       attempt : Nat, outcome : Outcome]
  BY <1>1 DEF Executor
<1> QED
  BY <1>1, <1>2 DEF Executor

LEMMA TypeStep == TypeOK /\ [Next]_vars => TypeOK'
<1> SUFFICES ASSUME TypeOK, [Next]_vars
             PROVE  TypeOK'
  OBVIOUS
<1>1. ASSUME NEW c \in Commands, NEW q \in Request, Submit(c, q)
      PROVE  TypeOK'
  BY <1>1 DEF Submit, TypeOK, Status
<1>2. ASSUME NEW m \in Members, Revoke(m)
      PROVE  TypeOK'
  BY <1>2 DEF Revoke, TypeOK
<1>3. ASSUME NEW c \in Commands, Claim(c)
      PROVE  TypeOK'
  <2>1. executor' \in [Commands -> Executor]
    BY <1>3 DEF Claim, TypeOK, Executor, Outcome
  <2> QED
    BY <1>3, <2>1 DEF Claim, Claimable, TypeOK, Status
<1>4. ASSUME NEW c \in Commands, ClaimRevoked(c)
      PROVE  TypeOK'
  BY <1>4 DEF ClaimRevoked, Claimable, TypeOK, Status
<1>5. ASSUME NEW c \in Commands, Send(c) \/ Anchor(c) \/ Deny(c) \/ GiveUp(c) \/ Readback(c)
      PROVE  TypeOK'
  <2>1. executor' \in [Commands -> Executor]
    BY <1>5, MovesType
       DEF Send, Anchor, Deny, GiveUp, Readback, ErrorOutcome, Outcome, TypeOK
  <2> QED
    BY <1>5, <2>1 DEF Send, Anchor, Deny, GiveUp, Readback, TypeOK
<1>6. ASSUME NEW c \in Commands, Land(c)
      PROVE  TypeOK'
  <2>1. executor' \in [Commands -> Executor]
    BY <1>6, MovesType DEF Land, Outcome, TypeOK
  <2> QED
    BY <1>6, <2>1 DEF Land, Wanted, TypeOK
<1>7. ASSUME NEW c \in Commands, Finish(c) \/ Crash(c)
      PROVE  TypeOK'
  <2>1. executor' \in [Commands -> Executor]
    BY <1>7 DEF Finish, Crash, TypeOK, Gone, Executor, Outcome
  <2>2. executor[c].outcome \in Outcome /\ Outcome \subseteq Status
    BY DEF TypeOK, Executor, Outcome, Status
  <2>3. Finishable(c) => request[c] \in Request
    BY DEF Finishable, TypeOK
  <2> QED
    BY <1>7, <2>1, <2>2, <2>3 DEF Finish, Crash, TypeOK
<1>8. ASSUME NEW o \in Operators, NEW c \in Commands, Target(o, c)
      PROVE  TypeOK'
  BY <1>8 DEF Target, TypeOK, Recovery, Observation
<1>9. ASSUME NEW o \in Operators, Observe(o)
      PROVE  TypeOK'
  BY <1>9 DEF Observe, TypeOK, Recovery, Observation
<1>10. ASSUME NEW o \in Operators, Reconcile(o)
       PROVE  TypeOK'
  <2> DEFINE c == recovery[o].command
  <2>1. recovery' \in [Operators -> Recovery]
    BY <1>10 DEF Reconcile, TypeOK, Recovery, Idle, Observation
  <2>2. status' \in [Commands -> Status]
    BY <1>10 DEF Reconcile, Reconciled, TypeOK, Status
  <2>3. \A d \in Commands : status'[d] # "none" => status[d] # "none"
    BY <1>10 DEF Reconcile, Recoverable, TypeOK
  <2> QED
    BY <1>10, <2>1, <2>2, <2>3 DEF Reconcile, TypeOK
<1>11. ASSUME NEW o \in Operators, Abandon(o)
       PROVE  TypeOK'
  BY <1>11 DEF Abandon, TypeOK, Recovery, Idle, Observation
<1>12. CASE UNCHANGED vars
  BY <1>12 DEF vars, TypeOK
<1> QED
  BY <1>1, <1>2, <1>3, <1>4, <1>5, <1>6, <1>7, <1>8, <1>9, <1>10, <1>11, <1>12
     DEF Next, Execution

(* Every table and process of the model stays well typed.                  *)
THEOREM TypeCorrect == Spec => []TypeOK
<1>1. Init => TypeOK
  BY TypeInit
<1>2. TypeOK /\ [Next]_vars => TypeOK'
  BY TypeStep
<1> QED
  BY <1>1, <1>2, PTL DEF Spec

-----------------------------------------------------------------------------
(* Holds and their releases.                                               *)

LEMMA OneUnsettled ==
  ASSUME TypeOK, Chains, NEW c \in Commands, NEW d \in Commands,
         IsHoldOrRelease(c), IsHoldOrRelease(d),
         request[c].evidence = request[d].evidence,
         status[c] \in Unsettled, status[d] \in Unsettled
  PROVE  c = d
<1>1. ASSUME NEW h \in Commands, IsHold(h), status[h] \in Unsettled
      PROVE  Live(h)
  BY <1>1 DEF Chains, ReleasesApplied, Live, ReleaseOf, Unsettled, Dead
<1>2. ASSUME NEW r \in Commands, IsRelease(r), status[r] \in Unsettled
      PROVE  /\ request[r].releaseOf \in Commands
             /\ IsHold(request[r].releaseOf) /\ Live(request[r].releaseOf)
             /\ request[request[r].releaseOf].evidence = request[r].evidence
             /\ status[request[r].releaseOf] = "applied"
  BY <1>2 DEF Chains, ReleasesApplied, OneRelease, Live, ReleaseOf, Unsettled, Dead
<1>3. CASE IsHold(c) /\ IsHold(d)
  BY <1>3, <1>1 DEF Chains, OneLiveHold
<1>4. CASE IsHold(c) /\ IsRelease(d)
  BY <1>4, <1>1, <1>2 DEF Chains, OneLiveHold, Unsettled
<1>5. CASE IsRelease(c) /\ IsHold(d)
  BY <1>5, <1>1, <1>2 DEF Chains, OneLiveHold, Unsettled
<1>6. CASE IsRelease(c) /\ IsRelease(d)
  <2>1. request[c].releaseOf = request[d].releaseOf
    BY <1>6, <1>2 DEF Chains, OneLiveHold
  <2> QED
    BY <1>6, <2>1 DEF Chains, OneRelease, Unsettled, Dead
<1> QED
  BY <1>3, <1>4, <1>5, <1>6 DEF IsHoldOrRelease

(* A status that moves on without dying or un-applying keeps the chains.   *)
LEMMA ChainsKept ==
  ASSUME Chains, UNCHANGED request,
         \A c \in Commands :
           /\ status[c] = "none" <=> status'[c] = "none"
           /\ status'[c] \notin Dead => status[c] \notin Dead
           /\ status[c] = "applied" => status'[c] = "applied"
  PROVE  Chains'
<1>1. \A c \in Commands : /\ IsHold(c)' <=> IsHold(c)
                          /\ IsRelease(c)' <=> IsRelease(c)
                          /\ ReleaseOf(c)' = ReleaseOf(c)
  BY DEF IsHold, IsRelease, ReleaseOf
<1>2. \A h \in Commands : Live(h)' => Live(h)
  BY <1>1 DEF Live, ReleaseOf, Dead
<1>3. OneLiveHold'
  BY <1>1, <1>2 DEF Chains, OneLiveHold
<1>4. OneRelease'
  BY <1>1 DEF Chains, OneRelease, Dead
<1>5. ReleasesApplied'
  BY <1>1 DEF Chains, ReleasesApplied
<1> QED
  BY <1>3, <1>4, <1>5 DEF Chains

LEMMA ChainsSubmit ==
  ASSUME TypeOK, Chains, NEW c \in Commands, NEW q \in Request, Submit(c, q)
  PROVE  Chains'
<1>1. /\ \A d \in Commands \ {c} : status'[d] = status[d] /\ request'[d] = request[d]
      /\ status[c] = "none" /\ status'[c] = "queued" /\ request'[c] = q
      /\ Submittable(q)
  BY DEF Submit, TypeOK
<1>2. \A d \in Commands \ {c} : /\ IsHold(d)' <=> IsHold(d)
                                /\ IsRelease(d)' <=> IsRelease(d)
  BY <1>1 DEF IsHold, IsRelease
<1>3. \A h \in Commands \ {c} : Live(h)' => Live(h)
  <2> SUFFICES ASSUME NEW h \in Commands \ {c}, Live(h)'
               PROVE  Live(h)
    OBVIOUS
  <2>1. ASSUME NEW r \in ReleaseOf(h)
        PROVE  status[r] # "applied"
    <3>1. r \in Commands \ {c} /\ r \in ReleaseOf(h)'
      BY <2>1, <1>1, <1>2 DEF ReleaseOf, IsRelease
    <3> QED
      BY <3>1, <1>1 DEF Live
  <2> QED
    BY <2>1, <1>1 DEF Live
<1>4. OneLiveHold'
  <2>1. ASSUME IsHold(c)', NEW h \in Commands \ {c}, IsHold(h)',
               request'[c].evidence = request'[h].evidence
        PROVE  ~Live(h)'
    BY <2>1, <1>1, <1>2, <1>3 DEF Submittable, HoldsOf, IsHold
  <2> QED
    BY <2>1, <1>1, <1>2, <1>3 DEF Chains, OneLiveHold
<1>5. OneRelease'
  <2>1. ASSUME IsRelease(c)', NEW r \in Commands \ {c}, IsRelease(r)',
               request'[c].releaseOf = request'[r].releaseOf
        PROVE  status'[r] \in Dead
    BY <2>1, <1>1, <1>2 DEF Submittable, ReleaseOf, IsRelease, HoldsOf
  <2> QED
    BY <2>1, <1>1, <1>2 DEF Chains, OneRelease
<1>6. ReleasesApplied'
  <2>1. ASSUME NEW r \in Commands \ {c}, IsRelease(r)'
        PROVE  LET h == request'[r].releaseOf IN
                 /\ h \in Commands \ {c} /\ IsHold(h) /\ status[h] = "applied"
                 /\ request[h].evidence = request[r].evidence
                 /\ Person[request[h].by] # Person[request[r].by]
    BY <2>1, <1>1, <1>2 DEF Chains, ReleasesApplied
  <2>2. ASSUME IsRelease(c)'
        PROVE  LET h == q.releaseOf IN
                 /\ h \in Commands \ {c} /\ IsHold(h) /\ status[h] = "applied"
                 /\ request[h].evidence = q.evidence
                 /\ Person[request[h].by] # Person[q.by]
    BY <2>2, <1>1 DEF Submittable, HoldsOf, IsRelease
  <2> QED
    BY <2>1, <2>2, <1>1, <1>2 DEF ReleasesApplied
<1> QED
  BY <1>4, <1>5, <1>6 DEF Chains

-----------------------------------------------------------------------------
(* Steps that leave receipts and objects alone.                            *)

LEMMA ObjectsUntouched ==
  ASSUME Objects, UNCHANGED <<request, status, held>>
  PROVE  Objects'
BY DEF Objects, FreeObjects, AppliedHoldHolds, HoldsOf, IsHold, IsRelease, Live,
       Undisturbed, ReleaseOf

LEMMA WorkingUntouched ==
  ASSUME NEW c \in Commands, Working(c), UNCHANGED <<request, status, held>>,
         executor'[c] = executor[c], c \in writes' <=> c \in writes
  PROVE  Working(c)'
BY DEF Working, Idling, Writing, Executing, Anchoring, Before, After, Wanted,
       IsHoldOrRelease, IsHold, IsRelease

LEMMA ReadingUntouched ==
  ASSUME NEW o \in Operators, Reading(o), UNCHANGED <<request, status, held>>,
         recovery'[o] = recovery[o]
  PROVE  Reading(o)'
BY DEF Reading, Confirms, After, Wanted, IsHoldOrRelease, IsHold, IsRelease

(* The operator looks, or leaves.                                          *)
LEMMA Looking ==
  ASSUME IInv, NEW o \in Operators,
         (\E c \in Commands : Target(o, c)) \/ Observe(o) \/ Abandon(o)
  PROVE  Workings' /\ Readings' /\ Objects'
<1>1. UNCHANGED <<request, status, held, executor, writes>>
  BY DEF Target, Observe, Abandon
<1>2. Workings'
  BY <1>1, WorkingUntouched DEF IInv, Workings
<1>3. Objects'
  BY <1>1, ObjectsUntouched DEF IInv
<1>4. \A p \in Operators \ {o} : Reading(p)'
  <2>1. \A p \in Operators \ {o} : recovery'[p] = recovery[p]
    BY DEF Target, Observe, Abandon, IInv, TypeOK
  <2> QED
    BY <1>1, <2>1, ReadingUntouched DEF IInv, Readings
<1>5. CASE \E c \in Commands : Target(o, c)
  <2>1. PICK c \in Commands : Target(o, c)
    BY <1>5
  <2>2. /\ recovery'[o] = [command |-> c, attempt |-> attempts[c], observed |-> "unread"]
        /\ IsHoldOrRelease(c) /\ status[c] \in {"executing", "outcome_unknown"}
    BY <2>1 DEF Target, Recoverable, IInv, TypeOK
  <2>3. Reading(o)'
    BY <2>2, <1>1, WormAssumption
       DEF Reading, Confirms, IsHoldOrRelease, IsHold, IsRelease
  <2> QED
    BY <2>3, <1>2, <1>3, <1>4 DEF Readings
<1>6. CASE Observe(o)
  <2>1. PICK seen \in {IF held[request[recovery[o].command].evidence] THEN "on" ELSE "off",
                       "unavailable"} :
          recovery'[o] = [command |-> recovery[o].command,
                          attempt |-> recovery[o].attempt, observed |-> seen]
    BY <1>6 DEF Observe, IInv, TypeOK
  <2> DEFINE c == recovery[o].command
  <2>2. /\ c \in Commands /\ IsHoldOrRelease(c) /\ c # NoCommand
        /\ status[c] \notin {"queued", "pending", "cancelled"}
    BY <1>6 DEF Observe, IInv, TypeOK, Recovery, Readings, Reading
  <2>3. request[c] \in Request
    BY <2>2 DEF IInv, TypeOK, IsHoldOrRelease, IsHold, IsRelease
  <2>4. Confirms(seen, c) => After(c)
    <3>1. held[request[c].evidence] \in BOOLEAN
      BY <2>3 DEF IInv, TypeOK, Request
    <3> QED
      BY <2>1, <3>1 DEF Confirms, After, Wanted
  <2>5. recovery'[o].command = c /\ recovery'[o].observed = seen
    BY <2>1
  <2>6. Reading(o)'
    BY <2>2, <2>4, <2>5, <1>1
       DEF Reading, Confirms, After, Wanted, IsHoldOrRelease, IsHold, IsRelease
  <2> QED
    BY <2>6, <1>2, <1>3, <1>4 DEF Readings
<1>7. CASE Abandon(o)
  <2>1. recovery'[o] = Idle
    BY <1>7 DEF Abandon, IInv, TypeOK
  <2>2. Reading(o)'
    BY <2>1 DEF Reading, Idle
  <2> QED
    BY <2>2, <1>2, <1>3, <1>4 DEF Readings
<1> QED
  BY <1>5, <1>6, <1>7

(* The executor moves; nothing is recorded and nothing lands.              *)
LEMMA Moving ==
  ASSUME IInv, NEW c \in Commands,
         Send(c) \/ Anchor(c) \/ Deny(c) \/ GiveUp(c) \/ Readback(c) \/ Crash(c)
  PROVE  Workings' /\ Readings' /\ Objects'
<1>1. UNCHANGED <<request, status, held, recovery>>
  BY DEF Send, Anchor, Deny, GiveUp, Readback, Crash
<1>2. Readings' /\ Objects'
  BY <1>1, ReadingUntouched, ObjectsUntouched DEF IInv, Readings
<1>3. \A d \in Commands \ {c} : Working(d)'
  <2>1. \A d \in Commands \ {c} :
          executor'[d] = executor[d] /\ (d \in writes' <=> d \in writes)
    BY DEF Send, Anchor, Deny, GiveUp, Readback, Crash, Moves, IInv, TypeOK
  <2> QED
    BY <1>1, <2>1, WorkingUntouched DEF IInv, Workings
<1>4. Working(c) /\ executor[c] \in Executor /\ executor \in [Commands -> Executor]
  BY DEF IInv, Workings, TypeOK
<1> USE DEF Working, Idling, Writing, Executing, Anchoring, IsHoldOrRelease,
            IsHold, IsRelease, Before, After, Wanted, Unsettled
<1>5. ASSUME Send(c)
      PROVE  Working(c)'
  BY <1>1, <1>4, <1>5 DEF Send, Moves
<1>6. ASSUME Anchor(c)
      PROVE  Working(c)'
  BY <1>1, <1>4, <1>6 DEF Anchor, Moves
<1>7. ASSUME Deny(c)
      PROVE  Working(c)'
  BY <1>1, <1>4, <1>7 DEF Deny, Moves
<1>8. ASSUME GiveUp(c)
      PROVE  Working(c)'
  BY <1>1, <1>4, <1>8 DEF GiveUp, ErrorOutcome, Moves
<1>9. ASSUME Readback(c)
      PROVE  Working(c)'
  BY <1>1, <1>4, <1>9 DEF Readback, Moves
<1>10. ASSUME Crash(c)
      PROVE  Working(c)'
  BY <1>1, <1>4, <1>10 DEF Crash, Gone
<1> QED
  BY <1>2, <1>3, <1>5, <1>6, <1>7, <1>8, <1>9, <1>10 DEF Workings

-----------------------------------------------------------------------------
(* A write lands.                                                          *)

LEMMA LiveWhenUnsettled ==
  ASSUME TypeOK, Chains, NEW c \in Commands, IsHoldOrRelease(c), status[c] \in Unsettled
  PROVE  /\ IsHold(c) => Live(c)
         /\ IsRelease(c) => /\ request[c].releaseOf \in Commands
                            /\ IsHold(request[c].releaseOf) /\ Live(request[c].releaseOf)
                            /\ status[request[c].releaseOf] = "applied"
                            /\ request[request[c].releaseOf].evidence = request[c].evidence
BY DEF Chains, ReleasesApplied, OneRelease, Live, ReleaseOf, Unsettled, Dead

LEMMA Landing ==
  ASSUME IInv, NEW c \in Commands, Land(c)
  PROVE  Workings' /\ Readings' /\ Objects'
<1> DEFINE e == request[c].evidence
<1>1. /\ UNCHANGED <<request, status, recovery>>
      /\ e \in Evidence
      /\ IsHoldOrRelease(c) /\ status[c] \in Unsettled /\ c \in writes /\ c \notin writes'
      /\ held'[e] = Wanted(c)
      /\ \A f \in Evidence \ {e} : held'[f] = held[f]
  <2>1. IsHoldOrRelease(c) /\ status[c] \in Unsettled /\ c \in writes
    BY DEF Land, IInv, Workings, Working, Writing
  <2>2. e \in Evidence
    BY <2>1 DEF IInv, TypeOK, Request, IsHoldOrRelease, IsHold, IsRelease
  <2> QED
    BY <2>1, <2>2 DEF Land, IInv, TypeOK
<1>2. \A d \in Commands \ {c} : executor'[d] = executor[d] /\ (d \in writes' <=> d \in writes)
  BY DEF Land, Moves, IInv, TypeOK
<1>3. ASSUME NEW d \in Commands \ {c}, IsHoldOrRelease(d), status[d] \in Unsettled
      PROVE  held'[request[d].evidence] = held[request[d].evidence]
  <2>1. request[d].evidence \in Evidence \ {e}
    BY <1>1, <1>3, OneUnsettled DEF IInv, TypeOK, Request, IsHoldOrRelease, IsHold, IsRelease
  <2> QED
    BY <1>1, <2>1
<1>4. ASSUME NEW d \in Commands \ {c}
      PROVE  Working(d)'
  <2>1. Working(d)
    BY DEF IInv, Workings
  <2> QED
    BY <1>1, <1>2, <1>3, <2>1
       DEF Working, Idling, Writing, Executing, Anchoring, Before, After, Wanted,
           IsHoldOrRelease, IsHold, IsRelease
<1>5. Working(c)'
  <2>1. Working(c) /\ executor[c] \in Executor /\ executor \in [Commands -> Executor]
    BY DEF IInv, Workings, TypeOK
  <2> QED
    BY <1>1, <2>1
       DEF Land, Moves, Working, Idling, Writing, Executing, Anchoring, Before, After, Wanted,
           IsHoldOrRelease, IsHold, IsRelease, Unsettled
<1>6. ASSUME NEW o \in Operators
      PROVE  Reading(o)'
  <2> DEFINE d == recovery[o].command
  <2>1. Reading(o) /\ d \in Commands \cup {NoCommand}
    BY DEF IInv, Readings, TypeOK, Recovery
  <2>2. CASE d = NoCommand
    BY <2>1, <2>2, <1>1 DEF Reading
  <2>3. CASE d = c
    BY <2>1, <2>3, <1>1
       DEF Reading, Confirms, After, Wanted, IsHoldOrRelease, IsHold, IsRelease
  <2>4. CASE d \in Commands \ {c}
    BY <2>1, <2>4, <1>1, <1>3
       DEF Reading, Confirms, After, Wanted, IsHoldOrRelease, IsHold, IsRelease
  <2> QED
    BY <2>1, <2>2, <2>3, <2>4
<1>7. FreeObjects'
  <2> SUFFICES ASSUME NEW f \in Evidence, held'[f]
               PROVE  \E h \in HoldsOf(f) : Live(h) /\ status[h] # "queued"
    BY <1>1 DEF FreeObjects, HoldsOf, IsHold, IsRelease, Live, ReleaseOf
  <2>1. CASE f # e
    BY <2>1, <1>1 DEF IInv, Objects, FreeObjects
  <2>2. CASE f = e
    <3>1. IsHold(c)
      BY <2>2, <1>1 DEF Wanted, IsHoldOrRelease, IsHold, IsRelease
    <3> QED
      BY <3>1, <2>2, <1>1, LiveWhenUnsettled DEF IInv, HoldsOf, Unsettled
  <2> QED
    BY <2>1, <2>2
<1>8. AppliedHoldHolds'
  <2> SUFFICES ASSUME NEW h \in Commands, IsHold(h), status[h] = "applied", Undisturbed(h)
               PROVE  held'[request[h].evidence]
    BY <1>1 DEF AppliedHoldHolds, IsHold, IsRelease, Undisturbed, ReleaseOf
  <2>1. request[h].evidence \in Evidence /\ held[request[h].evidence]
    BY DEF IInv, TypeOK, Request, IsHold, Objects, AppliedHoldHolds
  <2>2. Live(h)
    BY DEF Live, Undisturbed, Dead
  <2>3. CASE request[h].evidence # e
    BY <2>1, <2>3, <1>1
  <2>4. CASE request[h].evidence = e /\ IsHold(c)
    BY <2>4, <1>1 DEF Wanted, IsHold
  <2>5. CASE request[h].evidence = e /\ IsRelease(c)
    <3>1. h = request[c].releaseOf
      BY <2>2, <2>5, <1>1, LiveWhenUnsettled DEF IInv, Chains, OneLiveHold
    <3> QED
      BY <3>1, <2>5, <1>1 DEF Undisturbed, ReleaseOf, Unsettled, Dead
  <2> QED
    BY <2>3, <2>4, <2>5, <1>1 DEF IsHoldOrRelease
<1> QED
  BY <1>4, <1>5, <1>6, <1>7, <1>8 DEF Workings, Readings, Objects

-----------------------------------------------------------------------------
(* A command is submitted or claimed.                                      *)

LEMMA Submitting ==
  ASSUME IInv, NEW c \in Commands, NEW q \in Request, Submit(c, q)
  PROVE  Workings' /\ Readings' /\ Objects'
<1>1. /\ UNCHANGED <<executor, recovery, writes, held>>
      /\ \A d \in Commands \ {c} : status'[d] = status[d] /\ request'[d] = request[d]
      /\ status[c] = "none" /\ status'[c] = "queued" /\ request'[c] = q
  BY DEF Submit, IInv, TypeOK
<1>2. \A d \in Commands \ {c} : /\ IsHold(d)' <=> IsHold(d)
                                /\ IsRelease(d)' <=> IsRelease(d)
  BY <1>1 DEF IsHold, IsRelease
<1>3. ASSUME NEW d \in Commands \ {c}
      PROVE  Working(d)'
  <2>1. Working(d)
    BY DEF IInv, Workings
  <2> QED
    BY <2>1, <1>1 DEF Working, Idling, Writing, Executing, Anchoring, Before, After, Wanted,
                      IsHoldOrRelease, IsHold, IsRelease
<1>4. Working(c)'
  <2>1. executor[c].at = "gone" /\ c \notin writes
    BY <1>1 DEF IInv, Workings, Working, Idling
  <2> QED
    BY <2>1, <1>1 DEF Working, Idling, Writing, Executing, Anchoring
<1>5. ASSUME NEW o \in Operators
      PROVE  Reading(o)'
  <2> DEFINE d == recovery[o].command
  <2>1. Reading(o) /\ d \in Commands \cup {NoCommand}
    BY DEF IInv, Readings, TypeOK, Recovery
  <2>2. CASE d = NoCommand
    BY <2>1, <2>2, <1>1 DEF Reading
  <2>3. CASE d \in Commands /\ d # NoCommand
    <3>1. d # c
      BY <2>1, <2>3, <1>1 DEF Reading, IsHoldOrRelease, IsHold, IsRelease
    <3> QED
      BY <2>1, <2>3, <3>1, <1>1
         DEF Reading, Confirms, After, Wanted, IsHoldOrRelease, IsHold, IsRelease
  <2> QED
    BY <2>1, <2>2, <2>3
<1>6. FreeObjects'
  <2> SUFFICES ASSUME NEW f \in Evidence, held[f]
               PROVE  \E h \in HoldsOf(f)' : Live(h)' /\ status'[h] # "queued"
    BY <1>1 DEF FreeObjects
  <2>1. PICK h \in HoldsOf(f) : Live(h) /\ status[h] # "queued"
    BY DEF IInv, Objects, FreeObjects
  <2>2. h \in Commands \ {c} /\ h \in HoldsOf(f)'
    BY <2>1, <1>1, <1>2 DEF HoldsOf, IsHold
  <2>3. Live(h)'
    BY <2>1, <2>2, <1>1, <1>2 DEF Live, ReleaseOf, Dead
  <2> QED
    BY <2>1, <2>2, <2>3, <1>1
<1>7. AppliedHoldHolds'
  <2> SUFFICES ASSUME NEW h \in Commands, IsHold(h)', status'[h] = "applied", Undisturbed(h)'
               PROVE  held[request'[h].evidence]
    BY <1>1 DEF AppliedHoldHolds
  <2>1. h \in Commands \ {c} /\ IsHold(h) /\ status[h] = "applied"
    BY <1>1, <1>2
  <2>2. Undisturbed(h)
    BY <2>1, <1>1, <1>2 DEF Undisturbed, ReleaseOf, IsRelease, Dead
  <2> QED
    BY <2>1, <2>2, <1>1 DEF IInv, Objects, AppliedHoldHolds
<1> QED
  BY <1>3, <1>4, <1>5, <1>6, <1>7 DEF Workings, Readings, Objects

(* A queued command finds the object as the settled commands left it.      *)
LEMMA QueuedIsBefore ==
  ASSUME IInv, NEW c \in Commands, IsHoldOrRelease(c), status[c] = "queued"
  PROVE  Before(c)
<1>1. request[c] \in Request /\ request[c].evidence \in Evidence
  BY DEF IInv, TypeOK, Request, IsHoldOrRelease, IsHold, IsRelease
<1>2. CASE IsHold(c)
  <2>1. Live(c)
    BY <1>2 DEF IInv, Chains, ReleasesApplied, Live, ReleaseOf, Dead
  <2>2. \A h \in HoldsOf(request[c].evidence) : Live(h) => status[h] = "queued"
    BY <1>2, <2>1 DEF IInv, Chains, OneLiveHold, HoldsOf
  <2> QED
    BY <1>1, <1>2, <2>2 DEF IInv, Objects, FreeObjects, Before, Wanted, IsHold
<1>3. CASE IsRelease(c)
  <2> DEFINE h == request[c].releaseOf
  <2>1. h \in Commands /\ IsHold(h) /\ status[h] = "applied"
        /\ request[h].evidence = request[c].evidence
    BY <1>3 DEF IInv, Chains, ReleasesApplied
  <2>2. Undisturbed(h)
    BY <1>3 DEF IInv, Chains, OneRelease, Undisturbed, ReleaseOf, Dead
  <2>3. held[request[h].evidence]
    BY <2>1, <2>2 DEF IInv, Objects, AppliedHoldHolds
  <2> QED
    BY <1>1, <1>3, <2>1, <2>3 DEF IInv, TypeOK, Before, Wanted, IsRelease
<1> QED
  BY <1>2, <1>3 DEF IsHoldOrRelease

LEMMA Claiming ==
  ASSUME IInv, NEW c \in Commands, Claim(c) \/ ClaimRevoked(c)
  PROVE  Workings' /\ Readings' /\ Objects'
<1>1. /\ UNCHANGED <<request, recovery, writes, held>>
      /\ \A d \in Commands \ {c} : status'[d] = status[d] /\ executor'[d] = executor[d]
      /\ status[c] \in {"queued", "pending"} /\ status'[c] \in {"executing", "cancelled"}
  BY DEF Claim, ClaimRevoked, Claimable, IInv, TypeOK
<1>2. /\ Working(c) /\ executor[c].at = "gone" /\ c \notin writes
      /\ IsHoldOrRelease(c) => status[c] = "queued"
  BY <1>1 DEF IInv, Workings, Working, Idling
<1>3. \A d \in Commands : /\ IsHold(d)' <=> IsHold(d)
                          /\ IsRelease(d)' <=> IsRelease(d)
                          /\ IsHoldOrRelease(d)' <=> IsHoldOrRelease(d)
  BY <1>1 DEF IsHold, IsRelease, IsHoldOrRelease
<1>4. ASSUME NEW d \in Commands \ {c}
      PROVE  Working(d)'
  <2>1. Working(d)
    BY DEF IInv, Workings
  <2> QED
    BY <2>1, <1>1 DEF Working, Idling, Writing, Executing, Anchoring, Before, After, Wanted,
                      IsHoldOrRelease, IsHold, IsRelease
<1>5. Working(c)'
  <2>1. CASE Claim(c)
    <3>1. executor'[c].at = "send" /\ status'[c] = "executing"
      BY <2>1 DEF Claim, IInv, TypeOK
    <3>2. IsHoldOrRelease(c) => Before(c)'
      BY <1>1, <1>2, QueuedIsBefore DEF Before, Wanted
    <3> QED
      BY <3>1, <3>2, <1>1, <1>2, <1>3
         DEF Working, Idling, Writing, Executing, Anchoring, Unsettled
  <2>2. CASE ClaimRevoked(c)
    BY <2>2, <1>1, <1>2
       DEF ClaimRevoked, IInv, TypeOK, Working, Idling, Writing, Executing, Anchoring
  <2> QED
    BY <2>1, <2>2
<1>6. ASSUME NEW o \in Operators
      PROVE  Reading(o)'
  <2> DEFINE d == recovery[o].command
  <2>1. Reading(o) /\ d \in Commands \cup {NoCommand}
    BY DEF IInv, Readings, TypeOK, Recovery
  <2>2. CASE d = NoCommand
    BY <2>1, <2>2, <1>1 DEF Reading
  <2>3. CASE d \in Commands \ {c}
    BY <2>1, <2>3, <1>1, <1>3 DEF Reading, Confirms, After, Wanted
  <2>4. d # c
    BY <2>1, <1>1, WormAssumption DEF Reading
  <2> QED
    BY <2>1, <2>2, <2>3, <2>4
<1>7. FreeObjects'
  <2> SUFFICES ASSUME NEW f \in Evidence, held[f]
               PROVE  \E h \in HoldsOf(f)' : Live(h)' /\ status'[h] # "queued"
    BY <1>1 DEF FreeObjects
  <2>1. PICK h \in HoldsOf(f) : Live(h) /\ status[h] # "queued"
    BY DEF IInv, Objects, FreeObjects
  <2>2. h \in Commands \ {c} /\ h \in HoldsOf(f)'
    BY <2>1, <1>1, <1>2, <1>3 DEF HoldsOf, IsHoldOrRelease
  <2>3. Live(h)'
    BY <2>1, <2>2, <1>1, <1>3 DEF Live, ReleaseOf
  <2> QED
    BY <2>1, <2>2, <2>3, <1>1
<1>8. AppliedHoldHolds'
  <2> SUFFICES ASSUME NEW h \in Commands, IsHold(h)', status'[h] = "applied", Undisturbed(h)'
               PROVE  held[request[h].evidence]
    BY <1>1 DEF AppliedHoldHolds
  <2>1. h \in Commands \ {c} /\ IsHold(h) /\ status[h] = "applied"
    BY <1>1, <1>3
  <2>2. Undisturbed(h)
    <3> SUFFICES ASSUME NEW r \in ReleaseOf(h)
                 PROVE  status[r] \in Dead \cup {"queued"}
      BY DEF Undisturbed
    <3>1. r \in Commands /\ r \in ReleaseOf(h)'
      BY <1>1, <1>3 DEF ReleaseOf
    <3>2. CASE r = c
      BY <3>2, <1>2 DEF ReleaseOf, IsHoldOrRelease
    <3>3. CASE r # c
      BY <3>1, <3>3, <1>1 DEF Undisturbed, Dead
    <3> QED
      BY <3>2, <3>3
  <2> QED
    BY <2>1, <2>2 DEF IInv, Objects, AppliedHoldHolds
<1> QED
  BY <1>4, <1>5, <1>6, <1>7, <1>8 DEF Workings, Readings, Objects

-----------------------------------------------------------------------------
(* A result is recorded, by the executor or by the operator.               *)

LEMMA ObjectsSettled ==
  ASSUME IInv, NEW c \in Commands, IsHoldOrRelease(c), status[c] \in Unsettled,
         NEW s \in {"applied", "outcome_unknown", "refused"},
         status' = [status EXCEPT ![c] = s], UNCHANGED <<request, held>>,
         s = "applied" => After(c), s = "refused" => Before(c)
  PROVE  Objects'
<1> DEFINE e == request[c].evidence
<1>1. /\ \A d \in Commands \ {c} : status'[d] = status[d]
      /\ status'[c] = s
      /\ e \in Evidence /\ held[e] \in BOOLEAN
  BY DEF IInv, TypeOK, Request, IsHoldOrRelease, IsHold, IsRelease
<1>2. \A d \in Commands : (IsHold(d)' <=> IsHold(d)) /\ (IsRelease(d)' <=> IsRelease(d))
  BY <1>1 DEF IsHold, IsRelease, Unsettled
<1>3. FreeObjects'
  <2> SUFFICES ASSUME NEW f \in Evidence, held[f]
               PROVE  \E h \in HoldsOf(f)' : Live(h)' /\ status'[h] # "queued"
    BY DEF FreeObjects
  <2>1. PICK h \in HoldsOf(f) : Live(h) /\ status[h] # "queued"
    BY DEF IInv, Objects, FreeObjects
  <2>2. h \in Commands /\ h \in HoldsOf(f)' /\ IsHold(h) /\ request[h].evidence = f
    BY <2>1, <1>2 DEF HoldsOf
  <2>3. CASE h = c
    <3>1. s # "refused"
      BY <2>2, <2>3 DEF Before, Wanted, IsHold
    <3>2. ReleaseOf(c)' = {}
      BY <2>2, <2>3, <1>2 DEF IInv, Chains, ReleasesApplied, ReleaseOf, Unsettled
    <3> QED
      BY <2>2, <2>3, <3>1, <3>2, <1>1 DEF Live, Dead
  <2>4. CASE h # c /\ c \notin ReleaseOf(h)
    BY <2>1, <2>2, <2>4, <1>1, <1>2 DEF Live, ReleaseOf
  <2>5. CASE c \in ReleaseOf(h)
    <3>1. IsRelease(c) /\ request[c].releaseOf = h /\ status[h] = "applied" /\ f = e
      BY <2>2, <2>5 DEF ReleaseOf, IInv, Chains, ReleasesApplied
    <3>2. s # "applied"
      BY <3>1 DEF After, Wanted, IsRelease
    <3> QED
      BY <2>1, <2>2, <3>1, <3>2, <1>1, <1>2 DEF Live, ReleaseOf
  <2> QED
    BY <2>3, <2>4, <2>5
<1>4. AppliedHoldHolds'
  <2> SUFFICES ASSUME NEW h \in Commands, IsHold(h), status'[h] = "applied", Undisturbed(h)'
               PROVE  held[request[h].evidence]
    BY <1>2 DEF AppliedHoldHolds
  <2>1. CASE h = c
    BY <2>1, <1>1 DEF After, Wanted, IsHold
  <2>2. CASE h # c /\ c \notin ReleaseOf(h)
    <3>1. status[h] = "applied" /\ Undisturbed(h)
      BY <2>2, <1>1, <1>2 DEF Undisturbed, ReleaseOf
    <3> QED
      BY <3>1 DEF IInv, Objects, AppliedHoldHolds
  <2>3. CASE h # c /\ c \in ReleaseOf(h)
    <3>1. IsRelease(c) /\ request[c].releaseOf = h /\ request[h].evidence = e
      BY <2>3 DEF ReleaseOf, IInv, Chains, ReleasesApplied
    <3>2. s = "refused"
      BY <3>1, <1>1, <1>2 DEF Undisturbed, ReleaseOf, Dead
    <3> QED
      BY <3>1, <3>2, <1>1 DEF Before, Wanted, IsRelease
  <2> QED
    BY <2>1, <2>2, <2>3
<1> QED
  BY <1>3, <1>4 DEF Objects

LEMMA OthersRecorded ==
  ASSUME IInv, NEW c \in Commands, status[c] \in Unsettled,
         NEW s \in {"applied", "pending", "outcome_unknown", "refused"},
         status' = [status EXCEPT ![c] = s], UNCHANGED <<request, held, writes>>,
         IsHoldOrRelease(c) => s # "pending",
         \A d \in Commands \ {c} : executor'[d] = executor[d]
  PROVE  /\ \A d \in Commands \ {c} : Working(d)'
         /\ \A o \in Operators : recovery'[o] = recovery[o] => Reading(o)'
<1>1. /\ \A d \in Commands \ {c} : status'[d] = status[d]
      /\ status'[c] = s
  BY DEF IInv, TypeOK
<1>2. ASSUME NEW d \in Commands \ {c}
      PROVE  Working(d)'
  <2>1. Working(d)
    BY DEF IInv, Workings
  <2> QED
    BY <2>1, <1>1 DEF Working, Idling, Writing, Executing, Anchoring, Before, After, Wanted,
                      IsHoldOrRelease, IsHold, IsRelease
<1>3. ASSUME NEW o \in Operators, recovery'[o] = recovery[o]
      PROVE  Reading(o)'
  <2> DEFINE d == recovery[o].command
  <2>1. Reading(o) /\ d \in Commands \cup {NoCommand}
    BY DEF IInv, Readings, TypeOK, Recovery
  <2>2. CASE d = NoCommand
    BY <2>1, <2>2, <1>3 DEF Reading
  <2>3. CASE d \in Commands \ {c}
    BY <2>1, <2>3, <1>1, <1>3
       DEF Reading, Confirms, After, Wanted, IsHoldOrRelease, IsHold, IsRelease
  <2>4. CASE d = c
    BY <2>1, <2>4, <1>1, <1>3
       DEF Reading, Confirms, After, Wanted, IsHoldOrRelease, IsHold, IsRelease, Unsettled
  <2> QED
    BY <2>1, <2>2, <2>3, <2>4
<1> QED
  BY <1>2, <1>3

LEMMA Finishing ==
  ASSUME IInv, NEW c \in Commands, Finish(c)
  PROVE  Chains' /\ Workings' /\ Readings' /\ Objects'
<1> DEFINE s == executor[c].outcome
<1>1. /\ UNCHANGED <<request, recovery, writes, held>>
      /\ executor[c].at = "finish" /\ executor' = [executor EXCEPT ![c] = Gone]
      /\ \A d \in Commands \ {c} : executor'[d] = executor[d]
      /\ executor'[c].at = "gone"
      /\ status' = [status EXCEPT ![c] = IF Finishable(c) THEN s ELSE @]
  BY DEF Finish, Gone, IInv, TypeOK
<1>2. Working(c) /\ status \in [Commands -> Status]
  BY DEF IInv, Workings, TypeOK
<1>3. CASE ~Finishable(c)
  <2>1. status' = status
    BY <1>1, <1>2, <1>3
  <2>2. Working(c)'
    BY <2>1, <1>1, <1>2
       DEF Working, Idling, Writing, Executing, Anchoring, Before, Wanted,
           IsHoldOrRelease, IsHold, IsRelease
  <2>3. \A d \in Commands \ {c} : Working(d)'
    BY <2>1, <1>1, WorkingUntouched DEF IInv, Workings
  <2>4. Chains'
    BY <2>1, <1>1, ChainsKept DEF IInv
  <2> QED
    BY <2>1, <2>2, <2>3, <2>4, <1>1, ReadingUntouched, ObjectsUntouched
       DEF IInv, Workings, Readings
<1>4. CASE Finishable(c)
  <2>1. status' = [status EXCEPT ![c] = s] /\ status[c] = "executing"
    BY <1>1, <1>4 DEF Finishable
  <2>2. /\ s \in {"applied", "pending", "outcome_unknown", "refused"}
        /\ IsHoldOrRelease(c) => /\ s # "pending"
                                 /\ s = "applied" => After(c)
                                 /\ s = "refused" => Before(c)
        /\ c \in writes => s = "outcome_unknown" /\ IsHoldOrRelease(c) /\ Before(c)
    BY <2>1, <1>1, <1>2 DEF Working, Writing, Executing, Anchoring, Unsettled
  <2>3. status'[c] = s /\ \A d \in Commands \ {c} : status'[d] = status[d]
    BY <2>1, <1>2
  <2>4. Working(c)'
    BY <2>1, <2>2, <2>3, <1>1
       DEF Working, Idling, Writing, Executing, Anchoring, Before, Wanted, Unsettled,
           IsHoldOrRelease, IsHold, IsRelease
  <2>5. (\A d \in Commands \ {c} : Working(d)') /\ Readings'
    BY <2>1, <2>2, <1>1, OthersRecorded DEF Readings, Unsettled
  <2>6. Chains'
    BY <2>1, <2>2, <2>3, <1>1, ChainsKept DEF IInv, Dead
  <2>7. CASE IsHoldOrRelease(c)
    BY <2>1, <2>2, <2>4, <2>5, <2>6, <2>7, <1>1, ObjectsSettled DEF Workings, Unsettled
  <2>8. CASE ~IsHoldOrRelease(c)
    <3>1. \A d \in Commands : (IsHold(d)' <=> IsHold(d)) /\ (IsRelease(d)' <=> IsRelease(d))
      BY <2>1, <2>2, <2>3, <1>1 DEF IsHold, IsRelease
    <3>2. \A d \in Commands : IsHoldOrRelease(d) => status'[d] = status[d]
      BY <2>3, <2>8
    <3>3. Objects'
      BY <3>1, <3>2, <1>1
         DEF IInv, Objects, FreeObjects, AppliedHoldHolds, HoldsOf, Live, Undisturbed,
             ReleaseOf, IsHoldOrRelease
    <3> QED
      BY <3>3, <2>4, <2>5, <2>6 DEF Workings
  <2> QED
    BY <2>7, <2>8
<1> QED
  BY <1>3, <1>4

LEMMA Confirmed ==
  ASSUME IInv, NEW c \in Commands, IsHoldOrRelease(c), status[c] \in Unsettled,
         NEW s \in {"applied", "outcome_unknown"},
         status' = [status EXCEPT ![c] = s],
         UNCHANGED <<request, held, writes, executor>>, s = "applied" => After(c)
  PROVE  Working(c)'
<1>1. status'[c] = s /\ Working(c)
  BY DEF IInv, TypeOK, Workings
<1>2. (IsHoldOrRelease(c)' <=> IsHoldOrRelease(c))
      /\ (Before(c)' <=> Before(c)) /\ (After(c)' <=> After(c))
  BY <1>1 DEF Before, After, Wanted, IsHoldOrRelease, IsHold, IsRelease, Unsettled
<1>3. s = "applied" => c \notin writes /\ executor[c].at # "send" /\
                       ~(executor[c].at = "finish" /\ executor[c].outcome = "refused")
  BY <1>1 DEF Working, Writing, Executing, Before, After
<1> QED
  BY <1>1, <1>2, <1>3 DEF Working, Idling, Writing, Executing, Anchoring, Unsettled

LEMMA Reconciling ==
  ASSUME IInv, NEW o \in Operators, Reconcile(o)
  PROVE  Chains' /\ Workings' /\ Readings' /\ Objects'
<1>1. /\ UNCHANGED <<request, executor, writes, held>>
      /\ recovery'[o] = Idle /\ \A p \in Operators \ {o} : recovery'[p] = recovery[p]
  BY DEF Reconcile, IInv, TypeOK
<1>2. PICK c \in Commands : c = recovery[o].command
  BY WormAssumption DEF Reconcile, IInv, TypeOK, Recovery, Readings, Reading
<1>3. PICK s \in {"applied", "outcome_unknown"} : s = Reconciled(recovery[o].observed, c)
  BY DEF Reconciled
<1>4. Working(c) /\ Reading(o) /\ c # NoCommand
  BY WormAssumption DEF IInv, Readings, Workings
<1>5. Reading(o)'
  BY <1>1 DEF Reading, Idle
<1>6. CASE status' = status
  <2>1. Chains'
    BY <1>1, <1>6, ChainsKept DEF IInv
  <2>2. Workings' /\ Objects'
    BY <1>1, <1>6, WorkingUntouched, ObjectsUntouched DEF IInv, Workings
  <2>3. \A p \in Operators \ {o} : Reading(p)'
    BY <1>1, <1>6, ReadingUntouched DEF IInv, Readings
  <2> QED
    BY <2>1, <2>2, <2>3, <1>5 DEF Readings
<1>7. CASE Recoverable(c) /\ status' = [status EXCEPT ![c] = s]
  <2>1. /\ IsHoldOrRelease(c) /\ status[c] \in Unsettled
        /\ s = "applied" => After(c)
    BY <1>2, <1>3, <1>4, <1>7 DEF Recoverable, Reconciled, Reading, Unsettled
  <2>2. status'[c] = s /\ \A d \in Commands \ {c} : status'[d] = status[d]
    BY <1>7 DEF IInv, TypeOK
  <2>3. Chains'
    BY <2>1, <2>2, <1>1, ChainsKept DEF IInv, Dead, Unsettled
  <2>4. Objects'
    BY <2>1, <1>1, <1>7, ObjectsSettled
  <2>5. /\ \A d \in Commands \ {c} : Working(d)'
        /\ \A p \in Operators \ {o} : Reading(p)'
    BY <2>1, <1>1, <1>7, OthersRecorded
  <2>6. Working(c)'
    BY <2>1, <1>1, <1>7, Confirmed
  <2>7. Workings'
    BY <2>5, <2>6 DEF Workings
  <2>8. Readings'
    BY <2>5, <1>5 DEF Readings
  <2> QED
    BY <2>3, <2>4, <2>7, <2>8
<1>8. status' = status \/ (Recoverable(c) /\ status' = [status EXCEPT ![c] = s])
  BY <1>2, <1>3 DEF Reconcile, IInv, TypeOK
<1> QED
  BY <1>6, <1>7, <1>8

-----------------------------------------------------------------------------
(* The invariant.                                                          *)

LEMMA InvInit == Init => IInv
<1> SUFFICES ASSUME Init
             PROVE  IInv
  OBVIOUS
<1>1. \A c \in Commands : ~IsHold(c) /\ ~IsRelease(c) /\ ~IsHoldOrRelease(c)
  BY DEF Init, IsHold, IsRelease, IsHoldOrRelease
<1>2. Chains
  BY <1>1 DEF Chains, OneLiveHold, OneRelease, ReleasesApplied
<1>3. Workings
  BY <1>1 DEF Init, Gone, Workings, Working, Idling, Writing, Executing, Anchoring
<1>4. Readings
  BY DEF Init, Idle, Readings, Reading
<1>5. Objects
  BY <1>1 DEF Init, Objects, FreeObjects, AppliedHoldHolds
<1> QED
  BY <1>2, <1>3, <1>4, <1>5, TypeInit DEF IInv

LEMMA InvStep == IInv /\ [Next]_vars => IInv'
<1> SUFFICES ASSUME IInv, [Next]_vars
             PROVE  IInv'
  OBVIOUS
<1>1. TypeOK'
  BY TypeStep DEF IInv
<1>2. ASSUME NEW c \in Commands, NEW q \in Request, Submit(c, q)
      PROVE  Chains' /\ Workings' /\ Readings' /\ Objects'
  BY <1>2, ChainsSubmit, Submitting DEF IInv
<1>3. ASSUME NEW c \in Commands, Claim(c) \/ ClaimRevoked(c)
      PROVE  Chains' /\ Workings' /\ Readings' /\ Objects'
  <2>1. Chains'
    BY <1>3, ChainsKept DEF Claim, ClaimRevoked, Claimable, IInv, TypeOK, Dead
  <2> QED
    BY <1>3, <2>1, Claiming
<1>4. ASSUME NEW c \in Commands,
             Send(c) \/ Anchor(c) \/ Deny(c) \/ GiveUp(c) \/ Readback(c) \/ Crash(c)
      PROVE  Chains' /\ Workings' /\ Readings' /\ Objects'
  <2>1. UNCHANGED <<request, status>>
    BY <1>4 DEF Send, Anchor, Deny, GiveUp, Readback, Crash
  <2> QED
    BY <1>4, <2>1, Moving, ChainsKept DEF IInv
<1>5. ASSUME NEW c \in Commands, Land(c)
      PROVE  Chains' /\ Workings' /\ Readings' /\ Objects'
  <2>1. UNCHANGED <<request, status>>
    BY <1>5 DEF Land
  <2> QED
    BY <1>5, <2>1, Landing, ChainsKept DEF IInv
<1>6. ASSUME NEW c \in Commands, Finish(c)
      PROVE  Chains' /\ Workings' /\ Readings' /\ Objects'
  BY <1>6, Finishing
<1>7. ASSUME NEW o \in Operators, Reconcile(o)
      PROVE  Chains' /\ Workings' /\ Readings' /\ Objects'
  BY <1>7, Reconciling
<1>8. ASSUME NEW o \in Operators,
             (\E c \in Commands : Target(o, c)) \/ Observe(o) \/ Abandon(o)
      PROVE  Chains' /\ Workings' /\ Readings' /\ Objects'
  <2>1. UNCHANGED <<request, status>>
    BY <1>8 DEF Target, Observe, Abandon
  <2> QED
    BY <1>8, <2>1, Looking, ChainsKept DEF IInv
<1>9. CASE (\E m \in Members : Revoke(m)) \/ UNCHANGED vars
  <2>1. UNCHANGED <<request, status, executor, recovery, writes, held>>
    BY <1>9 DEF Revoke, vars
  <2>2. Chains'
    BY <2>1, ChainsKept DEF IInv
  <2>3. Workings' /\ Readings'
    BY <2>1, WorkingUntouched, ReadingUntouched DEF IInv, Workings, Readings
  <2>4. Objects'
    BY <2>1, ObjectsUntouched DEF IInv
  <2> QED
    BY <1>1, <2>2, <2>3, <2>4 DEF IInv
<1> QED
  BY <1>1, <1>2, <1>3, <1>4, <1>5, <1>6, <1>7, <1>8, <1>9 DEF Next, Execution, IInv

LEMMA Invariance == Spec => []IInv
BY InvInit, InvStep, PTL DEF Spec

(* What the receipts say is true of the object: a hold recorded as applied *)
(* holds it until an executor has begun to release it.                     *)
THEOREM AppliedHoldsHold == Spec => []AppliedHoldHolds
<1>1. IInv => AppliedHoldHolds
  BY DEF IInv, Objects
<1> QED
  BY <1>1, Invariance, PTL

(* A settled command has no write on its way.                              *)
THEOREM NothingLandsLate == Spec => []NoLateWrite
<1>1. IInv => NoLateWrite
  BY DEF IInv, TypeOK, Workings, Working, Writing, Unsettled, NoLateWrite
<1> QED
  BY <1>1, Invariance, PTL

(* Only a release asked for by another person frees a held object.         *)
THEOREM AnotherReleases == Spec => ReleasedByAnother
<1>1. IInv /\ [Next]_vars => [SecondPersonReleases]_vars
  <2> SUFFICES ASSUME IInv, Next, NEW e \in Evidence, held[e], ~held'[e]
               PROVE  \E r \in Commands :
                        /\ IsRelease(r) /\ request[r].evidence = e
                        /\ status[r] \in {"executing", "outcome_unknown"}
                        /\ LET h == request[r].releaseOf IN
                             /\ h \in HoldsOf(e) /\ status[h] = "applied"
                             /\ Person[request[h].by] # Person[request[r].by]
    BY DEF SecondPersonReleases
  <2>1. PICK c \in Commands : Land(c)
    BY DEF Next, Execution, Submit, Revoke, Claim, ClaimRevoked, Send, Anchor, Deny, GiveUp,
           Readback, Finish, Crash, Target, Observe, Reconcile, Abandon
  <2>2. IsHoldOrRelease(c) /\ status[c] \in Unsettled
    BY <2>1 DEF Land, IInv, Workings, Working, Writing
  <2>3. request[c].evidence = e /\ ~Wanted(c)
    BY <2>1 DEF Land, IInv, TypeOK
  <2>4. IsRelease(c)
    BY <2>2, <2>3 DEF IsHoldOrRelease, IsHold, IsRelease, Wanted
  <2> QED
    BY <2>2, <2>3, <2>4 DEF IInv, Chains, ReleasesApplied, HoldsOf, Unsettled
<1> QED
  BY <1>1, Invariance, PTL DEF Spec, ReleasedByAnother

=============================================================================
