--------------------------- MODULE EvidenceUpload ---------------------------
(***************************************************************************)
(* One evidence upload: finalisation (evidence.ts finalize, replayFinalize,*)
(* reject) against the cleanup of expired uploads (cleanupExpiredOrphans), *)
(* with the command identities of watchdog.ts and the guards of SQL 0269.  *)
(*                                                                         *)
(* A finalisation is two transactions under the job's advisory lock with a *)
(* read of the object storage between them; its process may die anywhere,  *)
(* and a command may be sent again, even with another request.  Cleanup    *)
(* lists, deletes and rejects in three steps that nothing holds together.  *)
(* The job is a live practice job; closing it is left out.                 *)
(***************************************************************************)
EXTENDS Naturals

CONSTANTS
  Versions,   \* versions that object storage may give the upload's key
  Types,      \* evidence types
  Commands,   \* command ids
  Procs,      \* processes that serve finalisations
  None

Requests == [version : Versions, type : Types]
Objects == [version : Versions, type : Types, late : BOOLEAN]

ASSUME NoneAssumption == None \notin Versions \cup Requests \cup Objects

VARIABLES
  stored,       \* what storage keeps as a version: "none" yet, the bytes that were
                \* "asked" for, "other" bytes, or nothing as "deleted"
  upload,       \* its row: state, version, and whether retention is transient
  object,       \* the registered evidence; late when the upload had expired by then
  results,      \* the request that a command's stored result is of
  completions,  \* how often the callback of a command has run
  expired,      \* expires_at has passed
  locked,       \* the job's final account is locked
  procs,        \* finalisations at work
  cleaner       \* the cleanup at work

vars == <<stored, upload, object, results, completions, expired, locked, procs, cleaner>>

Idle == [at |-> "idle", command |-> None, request |-> None]
Asleep == [at |-> "idle", version |-> None]

Init ==
  /\ stored = [v \in Versions |-> "none"]
  /\ upload = [state |-> "absent", version |-> None, transient |-> FALSE]
  /\ object = None
  /\ results = [c \in Commands |-> None]
  /\ completions = [c \in Commands |-> 0]
  /\ expired = FALSE
  /\ locked = FALSE
  /\ procs = [p \in Procs |-> Idle]
  /\ cleaner = Asleep

-----------------------------------------------------------------------------
(* beginUpload, and the surroundings: the client's PUT, the upload's       *)
(* expiry, the lock.  A repeated beginUpload returns the row it finds.     *)

Begin(transient) ==
  /\ upload.state = "absent" /\ ~locked
  /\ upload' = [state |-> "pending", version |-> None, transient |-> transient]
  /\ UNCHANGED <<stored, object, results, completions, expired, locked, procs, cleaner>>

Put(v, bytes) ==
  /\ upload.state # "absent" /\ stored[v] = "none"
  /\ stored' = [stored EXCEPT ![v] = bytes]
  /\ UNCHANGED <<upload, object, results, completions, expired, locked, procs, cleaner>>

Expire ==
  /\ upload.state # "absent" /\ ~expired
  /\ expired' = TRUE
  /\ UNCHANGED <<stored, upload, object, results, completions, locked, procs, cleaner>>

Lock ==
  /\ ~locked
  /\ locked' = TRUE
  /\ UNCHANGED <<stored, upload, object, results, completions, expired, procs, cleaner>>

-----------------------------------------------------------------------------
(* replayFinalize: a command whose result is stored returns it, or         *)
(* conflicts; only a fresh one goes on, and not past the lock.             *)

Fresh(c) == results[c] = None /\ ~locked

(* Operators named Mut... are mutations of the definition they precede.    *)
MutSameObject(r) == TRUE
SameObject(r) == object.version = r.version /\ object.type = r.type

Complete(c, r) ==
  /\ results' = [results EXCEPT ![c] = r]
  /\ completions' = [completions EXCEPT ![c] = @ + 1]

(* The evidence is registered already: the command is completed on it.     *)
Adopt(c, r) ==
  /\ Fresh(c) /\ object # None /\ SameObject(r)
  /\ Complete(c, r)
  /\ UNCHANGED <<stored, upload, object, expired, locked, cleaner>>

(* The first transaction.                                                  *)
AdoptAtOnce(p, c, r) ==
  /\ procs[p] = Idle /\ Adopt(c, r)
  /\ UNCHANGED procs

Prepare(p, c, r) ==
  /\ procs[p] = Idle /\ Fresh(c) /\ object = None
  /\ upload.state \notin {"absent", "rejected"} /\ ~expired
  /\ upload' = [upload EXCEPT !.state = "quarantined", !.version = r.version]
  /\ procs' = [procs EXCEPT ![p] = [at |-> "read", command |-> c, request |-> r]]
  /\ UNCHANGED <<stored, object, results, completions, expired, locked, cleaner>>

(* Between the transactions: read the version and verify it.  Any failure  *)
(* of the read counts as a missing version.                                *)
Read(p, found) ==
  /\ procs[p].at = "read"
  /\ found => stored[procs[p].request.version] = "asked"
  /\ procs' = [procs EXCEPT ![p].at = IF found THEN "register" ELSE "reject"]
  /\ UNCHANGED <<stored, upload, object, results, completions, expired, locked, cleaner>>

Rejectable(version) == upload.state \in {"pending", "quarantined"} /\ upload.version = version

Rejection(version) ==
  IF Rejectable(version) THEN [upload EXCEPT !.state = "rejected"] ELSE upload

Reject(p) ==
  /\ procs[p].at = "reject"
  /\ upload' = Rejection(procs[p].request.version)
  /\ procs' = [procs EXCEPT ![p] = Idle]
  /\ UNCHANGED <<stored, object, results, completions, expired, locked, cleaner>>

(* The second transaction, which does not look at the expiry again.        *)
MutStillPrepared(r) == upload.state # "rejected"
StillPrepared(r) == upload.state # "rejected" /\ upload.version = r.version

Register(p) ==
  LET c == procs[p].command
      r == procs[p].request IN
  /\ procs[p].at = "register" /\ Fresh(c) /\ object = None /\ StillPrepared(r)
  /\ upload' = [upload EXCEPT !.state = "verified"]
  /\ object' = [version |-> r.version, type |-> r.type, late |-> expired]
  /\ Complete(c, r)
  /\ procs' = [procs EXCEPT ![p] = Idle]
  /\ UNCHANGED <<stored, expired, locked, cleaner>>

AdoptLate(p) ==
  /\ procs[p].at = "register" /\ Adopt(procs[p].command, procs[p].request)
  /\ procs' = [procs EXCEPT ![p] = Idle]

(* The request is replayed or refused, the callback throws, or the process *)
(* dies: its transaction leaves nothing.                                   *)
Abandon(p) ==
  /\ procs[p] # Idle
  /\ procs' = [procs EXCEPT ![p] = Idle]
  /\ UNCHANGED <<stored, upload, object, results, completions, expired, locked, cleaner>>

-----------------------------------------------------------------------------
(* cleanupExpiredOrphans.                                                  *)

MutOrphaned ==
  /\ upload.state \in {"pending", "quarantined"} /\ upload.transient
  /\ object = None
Orphaned ==
  /\ upload.state \in {"pending", "quarantined"} /\ upload.transient
  /\ expired /\ object = None

List ==
  /\ cleaner.at = "idle" /\ Orphaned
  /\ cleaner' = [at |-> IF upload.version = None THEN "reject" ELSE "delete",
                 version |-> upload.version]
  /\ UNCHANGED <<stored, upload, object, results, completions, expired, locked, procs>>

Delete ==
  /\ cleaner.at = "delete"
  /\ stored' = [stored EXCEPT ![cleaner.version] = IF @ = "none" THEN @ ELSE "deleted"]
  /\ cleaner' = [cleaner EXCEPT !.at = "reject"]
  /\ UNCHANGED <<upload, object, results, completions, expired, locked, procs>>

RejectOrphan ==
  /\ cleaner.at = "reject"
  /\ upload' = Rejection(cleaner.version)
  /\ cleaner' = Asleep
  /\ UNCHANGED <<stored, object, results, completions, expired, locked, procs>>

CleanupDies ==
  /\ cleaner.at # "idle"
  /\ cleaner' = Asleep
  /\ UNCHANGED <<stored, upload, object, results, completions, expired, locked, procs>>

Finalise(p) ==
  \/ \E c \in Commands, r \in Requests : AdoptAtOnce(p, c, r) \/ Prepare(p, c, r)
  \/ \E found \in BOOLEAN : Read(p, found)
  \/ Reject(p)
  \/ Register(p)
  \/ AdoptLate(p)
  \/ Abandon(p)

Cleanup == List \/ Delete \/ RejectOrphan \/ CleanupDies

Next ==
  \/ \E transient \in BOOLEAN : Begin(transient)
  \/ \E v \in Versions, bytes \in {"asked", "other"} : Put(v, bytes)
  \/ Expire
  \/ Lock
  \/ \E p \in Procs : Finalise(p)
  \/ Cleanup

Spec == Init /\ [][Next]_vars

-----------------------------------------------------------------------------

(* The variables keep their types.                                         *)
TypeOK ==
  /\ stored \in [Versions -> {"none", "asked", "other", "deleted"}]
  /\ upload \in [state : {"absent", "pending", "quarantined", "verified", "rejected"},
                 version : Versions \cup {None}, transient : BOOLEAN]
  /\ object \in {None} \cup Objects
  /\ results \in [Commands -> {None} \cup Requests]
  /\ completions \in [Commands -> Nat]
  /\ expired \in BOOLEAN /\ locked \in BOOLEAN
  /\ procs \in [Procs -> {Idle} \cup
                 [at : {"read", "reject", "register"}, command : Commands, request : Requests]]
  /\ cleaner \in [at : {"idle", "delete", "reject"}, version : Versions \cup {None}]

(* The upload is verified exactly when evidence is registered, and then of *)
(* the one version it was last prepared with: finalisations of two         *)
(* versions, and the rejection of one of them, never mix.                  *)
VerifiedIsRegistered ==
  /\ upload.state = "verified" <=> object # None
  /\ object # None => object.version = upload.version

(* A command is answered with evidence of the version and type it first    *)
(* asked for, and its callback has run once, however often it was sent and *)
(* whoever else registered the evidence.                                   *)
AnsweredAsAsked == \A c \in Commands :
  IF results[c] = None
  THEN completions[c] = 0
  ELSE /\ object # None /\ completions[c] = 1
       /\ object.version = results[c].version /\ object.type = results[c].type

(* Registered evidence keeps the bytes that were asked for.  The exception *)
(* is the transient upload that was registered after it had expired: its   *)
(* version may be on the list of a cleanup, and is then deleted, although  *)
(* docs/operations/evidence-storage.md:18-19 excludes registered evidence. *)
RegisteredIsStored ==
  object # None /\ ~(upload.transient /\ object.late) => stored[object.version] = "asked"
=============================================================================
