------------------------ MODULE EvidenceUploadProofs ------------------------
(***************************************************************************)
(* Proofs about EvidenceUpload, for any versions, types, commands and      *)
(* processes.  VerifiedIsRegistered and AnsweredAsAsked are inductive over *)
(* well-typed states.  RegisteredIsStored needs to know what is at work:   *)
(* who is about to register has read the bytes it asked for, and they are  *)
(* still there unless a cleanup may run; a cleanup runs only on an expired *)
(* transient upload, and what was registered before that it never lists.   *)
(***************************************************************************)
EXTENDS EvidenceUpload, TLAPS

(* The variables keep their types, through every step.                     *)
LEMMA InitTyped == Init => TypeOK
<1> SUFFICES ASSUME Init PROVE TypeOK
  OBVIOUS
<1>1. /\ stored \in [Versions -> {"none", "asked", "other", "deleted"}]
      /\ results \in [Commands -> {None} \cup Requests]
      /\ completions \in [Commands -> Nat]
  BY DEF Init
<1>2. procs \in [Procs -> {Idle} \cup
        [at : {"read", "reject", "register"}, command : Commands, request : Requests]]
  BY DEF Init
<1> QED
  BY <1>1, <1>2 DEF Init, TypeOK, Asleep

LEMMA StepTyped ==
  ASSUME TypeOK, [Next]_vars
  PROVE  TypeOK'
<1> USE DEF TypeOK, Idle, Asleep, Requests, Objects
<1>1. ASSUME NEW transient \in BOOLEAN, Begin(transient) PROVE TypeOK'
  BY <1>1 DEF Begin
<1>2. ASSUME NEW v \in Versions, NEW bytes \in {"asked", "other"}, Put(v, bytes) PROVE TypeOK'
  BY <1>2 DEF Put
<1>3. CASE Expire
  BY <1>3 DEF Expire
<1>4. CASE Lock
  BY <1>4 DEF Lock
<1>5. ASSUME NEW p \in Procs, NEW c \in Commands, NEW r \in Requests,
             AdoptAtOnce(p, c, r)
      PROVE TypeOK'
  BY <1>5 DEF AdoptAtOnce, Adopt, Complete
<1>6. ASSUME NEW p \in Procs, NEW c \in Commands, NEW r \in Requests,
             Prepare(p, c, r)
      PROVE TypeOK'
  BY <1>6 DEF Prepare
<1>7. ASSUME NEW p \in Procs, NEW found \in BOOLEAN, Read(p, found) PROVE TypeOK'
  BY <1>7 DEF Read
<1>8. ASSUME NEW p \in Procs, Reject(p) PROVE TypeOK'
  BY <1>8 DEF Reject, Rejection
<1>9. ASSUME NEW p \in Procs, Register(p) PROVE TypeOK'
  <2>1. procs[p].command \in Commands /\ procs[p].request \in Requests
    BY <1>9 DEF Register
  <2> QED BY <1>9, <2>1 DEF Register, Complete
<1>10. ASSUME NEW p \in Procs, AdoptLate(p) PROVE TypeOK'
  <2>1. procs[p].command \in Commands /\ procs[p].request \in Requests
    BY <1>10 DEF AdoptLate
  <2> QED BY <1>10, <2>1 DEF AdoptLate, Adopt, Complete
<1>11. ASSUME NEW p \in Procs, Abandon(p) PROVE TypeOK'
  BY <1>11 DEF Abandon
<1>12. CASE List
  BY <1>12 DEF List
<1>13. CASE Delete
  BY <1>13 DEF Delete
<1>14. CASE RejectOrphan
  BY <1>14 DEF RejectOrphan, Rejection
<1>15. CASE CleanupDies
  BY <1>15 DEF CleanupDies
<1>16. CASE UNCHANGED vars
  BY <1>16 DEF vars
<1> HIDE DEF TypeOK, Idle, Asleep, Requests, Objects
<1> QED
  BY <1>1, <1>2, <1>3, <1>4, <1>5, <1>6, <1>7, <1>8, <1>9, <1>10, <1>11, <1>12,
     <1>13, <1>14, <1>15, <1>16 DEF Next, Finalise, Cleanup

(* The tables, the finalisations and the cleanup stay well typed.          *)
THEOREM TypeCorrect == Spec => []TypeOK
<1>1. Init => TypeOK
  BY InitTyped
<1>2. TypeOK /\ [Next]_vars => TypeOK'
  BY StepTyped
<1> QED
  BY <1>1, <1>2, PTL DEF Spec

-----------------------------------------------------------------------------
(* What the request of a finalisation that is not idle names.              *)
LEMMA AtWorkTyped ==
  ASSUME TypeOK, NEW p \in Procs, procs[p].at # "idle"
  PROVE  procs[p].command \in Commands /\ procs[p].request \in Requests
BY DEF TypeOK, Idle

(* What a registration writes is evidence.                                 *)
LEMMA Registered ==
  ASSUME TypeOK, NEW p \in Procs, Register(p)
  PROVE  /\ object' \in Objects /\ object' # None
         /\ object' = [version |-> procs[p].request.version,
                       type |-> procs[p].request.type, late |-> expired]
<1>1. procs[p].request \in Requests
  BY AtWorkTyped DEF Register
<1>2. expired \in BOOLEAN
  BY DEF TypeOK
<1> QED
  BY <1>1, <1>2, NoneAssumption DEF Register, Requests, Objects

(* Rejecting touches no upload that is verified.                           *)
LEMMA VerifiedIsNotRejected ==
  ASSUME NEW version, TypeOK, VerifiedIsRegistered,
         upload' = Rejection(version), UNCHANGED object
  PROVE  VerifiedIsRegistered'
BY DEF TypeOK, VerifiedIsRegistered, Rejection, Rejectable

LEMMA StepVerified ==
  ASSUME TypeOK, VerifiedIsRegistered, [Next]_vars
  PROVE  VerifiedIsRegistered'
<1>1. CASE UNCHANGED <<upload, object>>
  BY <1>1 DEF VerifiedIsRegistered
<1>2. ASSUME NEW transient \in BOOLEAN, Begin(transient) PROVE VerifiedIsRegistered'
  BY <1>2 DEF Begin, VerifiedIsRegistered
<1>3. ASSUME NEW p \in Procs, NEW c \in Commands, NEW r \in Requests,
             Prepare(p, c, r)
      PROVE VerifiedIsRegistered'
  BY <1>3 DEF Prepare, VerifiedIsRegistered, TypeOK
<1>4. ASSUME NEW p \in Procs, Reject(p) PROVE VerifiedIsRegistered'
  BY <1>4, VerifiedIsNotRejected DEF Reject
<1>5. ASSUME NEW p \in Procs, Register(p) PROVE VerifiedIsRegistered'
  <2>2. /\ upload.version = procs[p].request.version
        /\ upload' = [upload EXCEPT !.state = "verified"]
        /\ object' = [version |-> procs[p].request.version,
                      type |-> procs[p].request.type, late |-> expired]
    BY <1>5 DEF Register, StillPrepared
  <2>3. object'.version = upload'.version /\ upload'.state = "verified"
    BY <2>2 DEF TypeOK
  <2>4. object' # None
    BY <1>5, Registered
  <2> QED BY <2>3, <2>4 DEF VerifiedIsRegistered
<1>6. CASE RejectOrphan
  BY <1>6, VerifiedIsNotRejected DEF RejectOrphan
<1> QED
  BY <1>1, <1>2, <1>3, <1>4, <1>5, <1>6
     DEF Next, Finalise, Cleanup, Put, Expire, Lock, AdoptAtOnce, Adopt, Read, AdoptLate,
         Abandon, List, Delete, CleanupDies, vars

(* An upload counts as verified exactly when its evidence is registered,   *)
(* and the evidence is of the version that was prepared last.              *)
THEOREM VerifiedMeansRegistered == Spec => []VerifiedIsRegistered
<1>1. Init => VerifiedIsRegistered
  BY DEF Init, VerifiedIsRegistered
<1>2. TypeOK /\ VerifiedIsRegistered /\ [Next]_vars => VerifiedIsRegistered'
  BY StepVerified
<1> QED
  BY <1>1, <1>2, TypeCorrect, PTL DEF Spec

-----------------------------------------------------------------------------
(* Completing a fresh command on evidence that fits it.                    *)
LEMMA CompleteAnswers ==
  ASSUME TypeOK, AnsweredAsAsked, NEW c \in Commands, NEW r \in Requests,
         Fresh(c), Complete(c, r), object' # None,
         object'.version = r.version, object'.type = r.type,
         object # None => object' = object
  PROVE  AnsweredAsAsked'
<1>1. SUFFICES ASSUME NEW d \in Commands
               PROVE  IF results'[d] = None
                      THEN completions'[d] = 0
                      ELSE /\ object' # None /\ completions'[d] = 1
                           /\ object'.version = results'[d].version
                           /\ object'.type = results'[d].type
  BY DEF AnsweredAsAsked
<1>2. CASE d = c
  <2>1. results'[c] = r /\ completions'[c] = completions[c] + 1
    BY DEF Complete, TypeOK
  <2>2. completions[c] = 0
    BY DEF Fresh, AnsweredAsAsked
  <2>3. r # None
    BY NoneAssumption
  <2> QED BY <1>2, <2>1, <2>2, <2>3
<1>3. CASE d # c
  <2>1. results'[d] = results[d] /\ completions'[d] = completions[d]
    BY <1>3 DEF Complete, TypeOK
  <2> QED BY <2>1 DEF AnsweredAsAsked
<1> QED
  BY <1>2, <1>3

LEMMA AdoptAnswers ==
  ASSUME TypeOK, AnsweredAsAsked, NEW c \in Commands, NEW r \in Requests, Adopt(c, r)
  PROVE  AnsweredAsAsked'
BY CompleteAnswers DEF Adopt, SameObject

LEMMA StepAnswered ==
  ASSUME TypeOK, AnsweredAsAsked, [Next]_vars
  PROVE  AnsweredAsAsked'
<1>1. CASE UNCHANGED <<object, results, completions>>
  BY <1>1 DEF AnsweredAsAsked
<1>2. ASSUME NEW p \in Procs, NEW c \in Commands, NEW r \in Requests,
             AdoptAtOnce(p, c, r)
      PROVE AnsweredAsAsked'
  BY <1>2, AdoptAnswers DEF AdoptAtOnce
<1>3. ASSUME NEW p \in Procs, AdoptLate(p) PROVE AnsweredAsAsked'
  BY <1>3, AdoptAnswers, AtWorkTyped DEF AdoptLate
<1>4. ASSUME NEW p \in Procs, Register(p) PROVE AnsweredAsAsked'
  <2>1. procs[p].command \in Commands /\ procs[p].request \in Requests
    BY <1>4, AtWorkTyped DEF Register
  <2>2. /\ Fresh(procs[p].command) /\ object = None
        /\ Complete(procs[p].command, procs[p].request)
    BY <1>4 DEF Register
  <2>3. /\ object' # None
        /\ object'.version = procs[p].request.version
        /\ object'.type = procs[p].request.type
    BY <1>4, Registered
  <2> QED BY <2>1, <2>2, <2>3, CompleteAnswers
<1> QED
  BY <1>1, <1>2, <1>3, <1>4
     DEF Next, Finalise, Cleanup, Begin, Put, Expire, Lock, Prepare, Read, Reject,
         Abandon, List, Delete, RejectOrphan, CleanupDies, vars

(* Every command is answered with the evidence it first asked for, once.   *)
THEOREM AnsweredOnceAsAsked == Spec => []AnsweredAsAsked
<1>1. Init => AnsweredAsAsked
  BY DEF Init, AnsweredAsAsked
<1>2. TypeOK /\ AnsweredAsAsked /\ [Next]_vars => AnsweredAsAsked'
  BY StepAnswered
<1> QED
  BY <1>1, <1>2, TypeCorrect, PTL DEF Spec

-----------------------------------------------------------------------------
(* What is at work: whoever is about to register has read the bytes, and   *)
(* they are still there unless a cleanup may run; a cleanup runs only on   *)
(* an upload that is transient and expired, and it deletes no version of   *)
(* what was registered before that.                                        *)
CleanupMayRun == upload.transient /\ expired

NothingBegun ==
  upload.state = "absent" =>
    /\ object = None /\ ~expired /\ cleaner.at = "idle"
    /\ \A p \in Procs : procs[p].at = "idle"

ReadIsThere == \A p \in Procs :
  procs[p].at = "register" /\ ~CleanupMayRun => stored[procs[p].request.version] = "asked"

CleanupIsLate ==
  /\ cleaner.at # "idle" => CleanupMayRun
  /\ cleaner.at = "delete" /\ object # None => object.late

AtWork == NothingBegun /\ ReadIsThere /\ CleanupIsLate /\ RegisteredIsStored

(* Steps that touch neither the storage, the expiry nor the cleaner.       *)
LEMMA Quiet ==
  ASSUME TypeOK, AtWork, NEW p \in Procs, UNCHANGED <<stored, object, expired, cleaner>>,
         upload.state # "absent", upload'.state # "absent",
         upload'.transient = upload.transient,
         \A q \in Procs : q # p => procs'[q] = procs[q],
         procs'[p].at = "register" =>
            stored[procs'[p].request.version] = "asked" \/ procs'[p] = procs[p]
  PROVE  AtWork'
BY DEF AtWork, NothingBegun, ReadIsThere, CleanupIsLate, RegisteredIsStored, CleanupMayRun

LEMMA NoneAtWork ==
  ASSUME TypeOK, AtWork, NEW p \in Procs, procs[p].at # "idle"
  PROVE  upload.state # "absent"
BY DEF AtWork, NothingBegun

LEMMA RejectionKeeps ==
  ASSUME TypeOK, NEW version, upload.state # "absent"
  PROVE  /\ Rejection(version).state # "absent"
         /\ Rejection(version).transient = upload.transient
BY DEF TypeOK, Rejection, Rejectable

LEMMA FinaliseAtWork ==
  ASSUME TypeOK, AtWork, NEW p \in Procs, Finalise(p)
  PROVE  AtWork'
<1>0. procs[p].at # "idle" => upload.state # "absent"
  BY NoneAtWork
<1>1. ASSUME NEW c \in Commands, NEW r \in Requests, AdoptAtOnce(p, c, r) PROVE AtWork'
  BY <1>1 DEF AdoptAtOnce, Adopt, AtWork, NothingBegun, ReadIsThere, CleanupIsLate,
              RegisteredIsStored, CleanupMayRun
<1>2. ASSUME NEW c \in Commands, NEW r \in Requests, Prepare(p, c, r) PROVE AtWork'
  <2>1. /\ upload'.state # "absent" /\ upload'.transient = upload.transient
        /\ procs'[p].at = "read" /\ \A q \in Procs : q # p => procs'[q] = procs[q]
    BY <1>2 DEF Prepare, TypeOK
  <2> QED BY <1>2, <2>1, Quiet DEF Prepare
<1>3. ASSUME NEW found \in BOOLEAN, Read(p, found) PROVE AtWork'
  <2>1. procs'[p] = [procs[p] EXCEPT !.at = IF found THEN "register" ELSE "reject"]
        /\ \A q \in Procs : q # p => procs'[q] = procs[q]
    BY <1>3 DEF Read, TypeOK
  <2>2. procs[p] \in [at : {"read", "reject", "register"}, command : Commands, request : Requests]
    BY <1>3 DEF Read, TypeOK, Idle
  <2>3. procs'[p].request = procs[p].request
    BY <2>1, <2>2
  <2>4. procs'[p].at = "register" => found
    BY <2>1, <2>2
  <2> QED BY <1>0, <1>3, <2>1, <2>3, <2>4, Quiet DEF Read
<1>4. CASE Reject(p)
  <2>1. procs'[p].at = "idle" /\ \A q \in Procs : q # p => procs'[q] = procs[q]
    BY <1>4 DEF Reject, TypeOK, Idle
  <2>2. upload'.state # "absent" /\ upload'.transient = upload.transient
    BY <1>0, <1>4, RejectionKeeps DEF Reject
  <2> QED BY <1>0, <1>4, <2>1, <2>2, Quiet DEF Reject
<1>5. CASE Register(p)
  <2>1. procs'[p].at = "idle" /\ \A q \in Procs : q # p => procs'[q] = procs[q]
    BY <1>5 DEF Register, TypeOK, Idle
  <2>2. /\ upload'.state # "absent" /\ upload'.transient = upload.transient
        /\ UNCHANGED <<stored, expired, cleaner>>
    BY <1>5 DEF Register, TypeOK
  <2>3. object'.late = expired /\ object'.version = procs[p].request.version
    BY <1>5, Registered
  <2>4. NothingBegun'
    BY <2>2 DEF NothingBegun
  <2>5. ReadIsThere'
    BY <2>1, <2>2 DEF AtWork, ReadIsThere, CleanupMayRun
  <2>6. CleanupIsLate'
    BY <2>2, <2>3 DEF AtWork, CleanupIsLate, CleanupMayRun
  <2>7. RegisteredIsStored'
    BY <1>5, <2>2, <2>3 DEF Register, AtWork, ReadIsThere, CleanupMayRun, RegisteredIsStored
  <2> QED BY <2>4, <2>5, <2>6, <2>7 DEF AtWork
<1>6. CASE AdoptLate(p) \/ Abandon(p)
  <2>1. procs'[p].at = "idle" /\ \A q \in Procs : q # p => procs'[q] = procs[q]
    BY <1>6 DEF AdoptLate, Abandon, TypeOK, Idle
  <2>2. UNCHANGED <<stored, upload, object, expired, cleaner>> /\ procs[p].at # "idle"
    BY <1>6 DEF AdoptLate, Adopt, Abandon, TypeOK, Idle
  <2> QED BY <1>0, <2>1, <2>2, Quiet
<1> QED
  BY <1>1, <1>2, <1>3, <1>4, <1>5, <1>6 DEF Finalise

LEMMA CleanupAtWork ==
  ASSUME TypeOK, AtWork, Cleanup
  PROVE  AtWork'
<1> USE DEF AtWork, NothingBegun, ReadIsThere, CleanupIsLate, RegisteredIsStored, CleanupMayRun
<1>1. CASE List
  BY <1>1 DEF List, Orphaned
<1>2. CASE Delete
  <2>1. CleanupMayRun /\ cleaner'.at = "reject" /\ upload.state # "absent"
    BY <1>2 DEF Delete, TypeOK
  <2> QED BY <1>2, <2>1 DEF Delete
<1>3. CASE RejectOrphan
  <2>1. upload.state # "absent" /\ cleaner'.at = "idle"
    BY <1>3 DEF RejectOrphan, Asleep
  <2>2. upload'.state # "absent" /\ upload'.transient = upload.transient
    BY <1>3, <2>1, RejectionKeeps DEF RejectOrphan
  <2> QED BY <1>3, <2>1, <2>2 DEF RejectOrphan
<1>4. CASE CleanupDies
  BY <1>4 DEF CleanupDies, Asleep
<1> QED
  BY <1>1, <1>2, <1>3, <1>4 DEF Cleanup

LEMMA StepAtWork ==
  ASSUME TypeOK, AtWork, [Next]_vars
  PROVE  AtWork'
<1>1. ASSUME NEW transient \in BOOLEAN, Begin(transient) PROVE AtWork'
  BY <1>1 DEF Begin, AtWork, NothingBegun, ReadIsThere, CleanupIsLate, RegisteredIsStored, CleanupMayRun
<1>2. ASSUME NEW v \in Versions, NEW bytes \in {"asked", "other"}, Put(v, bytes) PROVE AtWork'
  <2>1. \A w \in Versions : stored[w] = "asked" => stored'[w] = "asked"
    BY <1>2 DEF Put, TypeOK
  <2>2. \A p \in Procs : procs[p].at = "register" => procs[p].request.version \in Versions
    BY AtWorkTyped DEF Requests
  <2>3. object # None => object.version \in Versions
    BY DEF TypeOK, Objects
  <2> QED BY <1>2, <2>1, <2>2, <2>3
    DEF Put, AtWork, NothingBegun, ReadIsThere, CleanupIsLate, RegisteredIsStored, CleanupMayRun
<1>3. CASE Expire
  BY <1>3 DEF Expire, AtWork, NothingBegun, ReadIsThere, CleanupIsLate, RegisteredIsStored, CleanupMayRun
<1>4. CASE Lock \/ UNCHANGED vars
  BY <1>4 DEF Lock, vars, AtWork, NothingBegun, ReadIsThere, CleanupIsLate, RegisteredIsStored, CleanupMayRun
<1> QED
  BY <1>1, <1>2, <1>3, <1>4, FinaliseAtWork, CleanupAtWork DEF Next

(* Registered evidence keeps the bytes that were asked for, unless its     *)
(* transient upload had expired when it was registered.                    *)
THEOREM EvidenceIsStored == Spec => []RegisteredIsStored
<1>1. Init => AtWork
  BY DEF Init, AtWork, NothingBegun, ReadIsThere, CleanupIsLate, RegisteredIsStored,
         CleanupMayRun, Idle, Asleep
<1>2. TypeOK /\ AtWork /\ [Next]_vars => AtWork'
  BY StepAtWork
<1>3. AtWork => RegisteredIsStored
  BY DEF AtWork
<1> QED
  BY <1>1, <1>2, <1>3, TypeCorrect, PTL DEF Spec
=============================================================================
