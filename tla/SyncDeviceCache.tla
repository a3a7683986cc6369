--------------------------- MODULE SyncDeviceCache ---------------------------
(***************************************************************************)
(* A device's cache of assigned jobs (packages/core/src/                   *)
(* sync-device-cache.ts), the server that fills it (core/sync-download.ts, *)
(* apps/api/src/sync/download.application.ts) and the server's durable     *)
(* generations (apps/api/src/sync/snapshot.adapter.ts, migration 0551).    *)
(*                                                                         *)
(* A device asks for one page at a time.  Its requests may be repeated and *)
(* answered late, while its user's authority changes, the server is        *)
(* upgraded, and the device switches tenant.  A job is its number: the     *)
(* pages are ordered by it and no property is about its contents.          *)
(***************************************************************************)
EXTENDS Integers, Sequences, FiniteSetsExt

CONSTANTS
  Jobs,          \* job ids, which are ordered
  Tenants,       \* tenants the user belongs to
  PageSize,      \* rows of a page
  MaxChanges,    \* bound: changes of authority, tenant, deployment or rows
  MaxSequence,   \* bound: requests since the device signed in
  Settling,      \* the world stops changing this many requests before the bound
  MaxAnswers     \* bound: answers on their way or repeated

ASSUME SyncAssumption ==
  /\ Jobs \subseteq Nat \ {0}
  /\ PageSize \in Nat \ {0}
  /\ {MaxChanges, MaxSequence, Settling, MaxAnswers} \subseteq Nat

VARIABLES
  authority,   \* the user's current role and assignments, by tenant
  member,      \* the membership is not revoked in the database, by tenant
  active,      \* the tenant the session works in
  revision,    \* the provider's authorityRevision
  schema,      \* the newest server schema deployed
  source,      \* jobs that have a row to replicate
  quality,     \* what the rows are like
  checkpoint,  \* app.sync_snapshot_checkpoint, by tenant
  granted,     \* history: the authority each generation stands for
  token,       \* the subscription token the device holds
  cache,       \* SyncDeviceCacheV1
  answers,     \* answers of the server, any of which may arrive, repeatedly
  purgedAt,    \* history: the request with which a job was last purged
  changes,     \* how often the world has changed
  calm         \* history: the world is as it was when the device began to subscribe

server == <<authority, member, active, revision, schema, source, quality>>
durable == <<checkpoint, granted>>
history == <<purgedAt, changes, calm>>
vars == <<server, durable, token, cache, answers, history>>

NoJob == 0
Operative == [role : {"operative"}, jobs : SUBSET Jobs]
(* The rows are good, or not projectable, or not even replication rows.    *)
Quality == {"good", "invalid", "malformed"}
Authority == Operative \cup {[role |-> "office", jobs |-> {}]}
NoToken == [tenant |-> "none", generation |-> 0,
            scope |-> [role |-> "office", jobs |-> {}], live |-> FALSE]

(* createSyncDeviceCacheV1, keeping the counter of a cache it replaces.    *)
Fresh(t, generation, version, sequence) ==
  [tenant |-> t, generation |-> generation, schema |-> version, sequence |-> sequence,
   cursor |-> NoJob, subscribed |-> FALSE, pending |-> FALSE, rows |-> {}, purged |-> {}]

(* The kind and the cursor of a pending request follow from the state: the *)
(* refinement of syncDeviceCacheV1 refuses any other.                      *)
Kind == IF cache.subscribed THEN "page" ELSE "subscribe"

Init ==
  /\ authority \in [Tenants -> {[role |-> "operative", jobs |-> Jobs]}]
  /\ member = [t \in Tenants |-> TRUE]
  /\ active \in Tenants
  /\ revision = 1
  /\ schema = 1
  /\ source = Jobs
  /\ quality = "good"
  /\ checkpoint = [t \in Tenants |->
       [generation |-> 0, revision |-> 0, schema |-> 0, scope |-> authority[t]]]
  /\ granted = [t \in Tenants |-> <<>>]
  /\ token = NoToken
  /\ cache = Fresh(active, 0, 1, 0)
  /\ answers = {}
  /\ purgedAt = [j \in Jobs |-> 0]
  /\ changes = 0
  /\ calm = TRUE

-----------------------------------------------------------------------------
(* The world: authority, tenants, deployments, rows.                       *)

MayChange == cache.sequence + Settling <= MaxSequence

Change ==
  /\ MayChange /\ changes < MaxChanges
  /\ changes' = changes + 1
  /\ calm' = FALSE

(* A role or an assignment changes.  The provider advances its revision,   *)
(* unless it forgets to.                                                   *)
ChangeAuthority(t, a, advances) ==
  /\ Change
  /\ a # authority[t]
  /\ authority' = [authority EXCEPT ![t] = a]
  /\ revision' = IF advances THEN revision + 1 ELSE revision
  /\ UNCHANGED <<member, active, schema, source, quality, durable, token, cache,
                 answers, purgedAt>>

RevokeMembership(t) ==
  /\ Change
  /\ member[t]
  /\ member' = [member EXCEPT ![t] = FALSE]
  /\ revision' = revision + 1
  /\ UNCHANGED <<authority, active, schema, source, quality, durable, token, cache,
                 answers, purgedAt>>

SwitchTenant(t) ==
  /\ Change
  /\ t # active
  /\ active' = t
  /\ revision' = revision + 1
  /\ UNCHANGED <<authority, member, schema, source, quality, durable, token, cache,
                 answers, purgedAt>>

Deploy ==
  /\ Change
  /\ schema' = schema + 1
  /\ UNCHANGED <<authority, member, active, revision, source, quality, durable, token,
                 cache, answers, purgedAt>>

SourceChanges(rows, q) ==
  /\ Change
  /\ <<rows, q>> # <<source, quality>>
  /\ source' = rows
  /\ quality' = q
  /\ UNCHANGED <<authority, member, active, revision, schema, durable, token, cache, answers,
                 purgedAt>>

-----------------------------------------------------------------------------
(* The server.                                                             *)

(* sync_snapshot_generation, called by an instance of schema version s for *)
(* the active tenant: which calls it accepts, and what it then writes.     *)
CheckpointAccepts(s) ==
  LET c == checkpoint[active] IN
  /\ member[active]
  /\ c.generation > 0 => /\ revision >= c.revision
                         /\ s >= c.schema
                         /\ revision > c.revision \/ authority[active] = c.scope
Generation(s) ==
  LET c == checkpoint[active] IN
  IF revision > c.revision \/ s > c.schema THEN c.generation + 1 ELSE c.generation

Advance(s) ==
  /\ checkpoint' = [checkpoint EXCEPT ![active] =
       [generation |-> Generation(s), revision |-> revision, schema |-> s,
        scope |-> authority[active]]]
  /\ granted' = IF Generation(s) = checkpoint[active].generation THEN granted
                ELSE [granted EXCEPT ![active] = Append(@, authority[active])]

(* evaluateSyncDownloadV1: the jobs the authority admits.                  *)
Permitted(a) == a.role = "operative"
Projection(t) == authority[t].jobs \cap source

TokenExpires ==
  /\ token.live
  /\ token' = [token EXCEPT !.live = FALSE]
  /\ UNCHANGED <<server, durable, cache, answers, history>>

(* validToken, for a request that an instance of schema s serves.          *)
MutValidToken(s) ==   \* the generation is trusted to imply tenant and scope
  token.live /\ token.generation = Generation(s)
ValidToken(s) ==
  /\ token.live
  /\ token.tenant = active /\ token.tenant = cache.tenant
  /\ token.generation = Generation(s)
  /\ token.scope = authority[active]

(* pageSyncDownloadV1 and planSyncReconcileV1.  Cleanup is planned from    *)
(* the whole projection, of which a page is a part.                        *)
Smallest(n, S) == {j \in S : Cardinality({k \in S : k < j}) < n}

MutAdmitted(page) == page         \* cleanup from the page alone
Admitted(page) == Projection(active)

MutRest == {j \in Projection(active) : j >= cache.cursor}   \* the cursor's row again
Rest == {j \in Projection(active) : j > cache.cursor}

PageAnswer ==
  LET rest == Rest
      page == Smallest(PageSize, rest)
      all  == Admitted(page)
  IN [outcome |-> "allowed", rows |-> page, admitted |-> all,
      tombstones |-> cache.rows \ all,
      next |-> IF rest = page THEN NoJob ELSE Max(page)]
Refusal(admitted) ==
  [outcome |-> "refused", rows |-> {}, admitted |-> admitted,
   tombstones |-> cache.rows \ admitted, next |-> NoJob]
Hold == [outcome |-> "hold", rows |-> {}, admitted |-> {}, tombstones |-> {}, next |-> NoJob]

MutUnauthorized == Hold           \* a lost authority asks for no cleanup
Unauthorized == Refusal({})

(* evaluateSyncDownloadV1 and planSyncReconcileV1 for a valid token.  Bad  *)
(* rows are met only among those the authority admits; rows that are not   *)
(* replication rows make the request invalid, which asks for no cleanup.   *)
Decision ==
  CASE quality = "malformed" -> Hold
    [] quality = "invalid" /\ Projection(active) # {} -> Refusal(Projection(active))
    [] OTHER -> PageAnswer

(* subscribe: the checkpoint is written whatever the decision; a token is  *)
(* given only if a download would be allowed.                              *)
Renewable == /\ cache.tenant = active /\ Permitted(authority[active])
             /\ Decision.outcome = "allowed"
Subscribe(s) ==
  /\ CheckpointAccepts(s)
  /\ Advance(s)
  /\ token' = IF Renewable
              THEN [tenant |-> active, generation |-> Generation(s),
                    scope |-> authority[active], live |-> TRUE]
              ELSE token
  /\ UNCHANGED <<server, cache, answers, history>>

(* The receipt the transport binds to an answer: the request, the          *)
(* subscription's generation, and the server's schema.                     *)
Bound(decision, s) ==
  [tenant |-> cache.tenant, sequence |-> cache.sequence, generation |-> token.generation,
   schema |-> s, after |-> cache.cursor, body |-> decision]

Send(answer) ==
  /\ Cardinality(answers \cup {answer}) <= MaxAnswers
  /\ answers' = answers \cup {answer}

(* download: every request reads current authority again.                  *)
Download(s) ==
  /\ cache.pending /\ token # NoToken
  /\ CheckpointAccepts(s)
  /\ Advance(s)
  /\ Send(Bound(IF ValidToken(s) THEN Decision ELSE Unauthorized, s))
  /\ UNCHANGED <<server, token, cache, history>>

(* The session is gone, or belongs to nobody: SYNC_AUTHORITY_REQUIRED.     *)
DownloadWithoutSession(s) ==
  /\ cache.pending /\ token # NoToken
  /\ Send(Bound(Unauthorized, s))
  /\ UNCHANGED <<server, durable, token, cache, history>>

Forget(a) ==
  /\ answers' = answers \ {a}
  /\ UNCHANGED <<server, durable, token, cache, history>>

-----------------------------------------------------------------------------
(* The device.                                                             *)

(* beginSyncDeviceRequestV1; with a request pending it changes nothing.  A *)
(* device that asks for ever outlasts the minute of a token the server     *)
(* will not renew; the few requests of a run are not all spent within it.  *)
Outlasted == MayChange \/ ~token.live \/ quality # "malformed"   \* bound
Begin ==
  /\ ~cache.pending /\ cache.sequence < MaxSequence /\ Outlasted
  /\ cache' = [cache EXCEPT !.pending = TRUE, !.sequence = @ + 1]
  /\ calm' = (calm \/ Kind = "subscribe")
  /\ UNCHANGED <<server, durable, token, answers, purgedAt, changes>>

MutReset(c) ==   \* the rows survive
  [c EXCEPT !.cursor = NoJob, !.subscribed = FALSE, !.pending = FALSE]
Reset(c) ==
  [c EXCEPT !.rows = {}, !.purged = c.purged \cup c.rows,
            !.cursor = NoJob, !.subscribed = FALSE, !.pending = FALSE]

(* answerV1: what an answer may look like, or it is refused as invalid.    *)
Consistent(a) ==
  LET b == a.body IN
  /\ b.tombstones \cap b.admitted = {}
  /\ b.outcome # "allowed" => b.rows = {} /\ b.next = NoJob
  /\ b.outcome = "hold" => b.admitted = {} /\ b.tombstones = {}
  /\ b.rows \subseteq b.admitted
  /\ b.next # NoJob => b.next \in b.rows /\ \A j \in b.rows : j <= b.next

MutShow(c, rows) == [c EXCEPT !.rows = @ \cup rows]   \* the marks stay
Show(c, rows) == [c EXCEPT !.rows = @ \cup rows, !.purged = @ \ rows]

(* The cache after an answer that belongs to its pending request.          *)
Applied(a) ==
  LET base == IF a.generation = cache.generation THEN cache
              ELSE [Reset(cache) EXCEPT !.generation = a.generation]
      b == a.body
      removed == b.tombstones \cup
                 (IF b.outcome = "hold" THEN {} ELSE base.rows \ b.admitted)
      kept == [base EXCEPT !.rows = base.rows \ removed,
                           !.purged = base.purged \cup removed, !.pending = FALSE]
  IN IF a.schema # cache.schema
     THEN [Reset(cache) EXCEPT !.generation = a.generation, !.schema = a.schema]
     ELSE IF a.generation # cache.generation /\ Kind # "subscribe"
     THEN [Reset(cache) EXCEPT !.generation = a.generation]
     ELSE IF b.outcome # "allowed"
     THEN [kept EXCEPT !.cursor = NoJob, !.subscribed = FALSE]
     ELSE [Show(kept, b.rows) EXCEPT !.cursor = b.next, !.subscribed = TRUE]

(* A page may bring nothing it removes, and nothing before its cursor.     *)
Acceptable(a) ==
  Applied(a).subscribed => a.body.rows \cap a.body.tombstones = {}
                           /\ \A j \in a.body.rows : j > cache.cursor

MutBelongs(a) == cache.pending   \* any answer will do
Belongs(a) == cache.pending /\ a.sequence = cache.sequence

NotOlder(a) == a.generation >= cache.generation /\ a.schema >= cache.schema

Mark(purged) == [j \in Jobs |-> IF j \in purged \ cache.purged THEN cache.sequence
                                ELSE purgedAt[j]]

(* applySyncDeviceAnswerV1.  An answer for another scope or another        *)
(* request changes nothing; an older or an invalid one is an error, which  *)
(* changes nothing either.                                                 *)
Apply(a) ==
  /\ a.tenant = cache.tenant
  /\ NotOlder(a)
  /\ Belongs(a)
  /\ Consistent(a) /\ Acceptable(a)
  /\ cache' = Applied(a)
  /\ purgedAt' = Mark(cache'.purged)
  /\ UNCHANGED <<server, durable, token, answers, changes, calm>>

(* partitionSyncDeviceCacheV1: another scope, or the same one again.  The  *)
(* caller names a generation it knows; the counter goes on.                *)
MutCounterAfterSwitch == 0
CounterAfterSwitch == cache.sequence
Partition(t, generation) ==
  /\ MayChange /\ changes < MaxChanges
  /\ changes' = changes + 1
  /\ generation \in {0, checkpoint[t].generation}
  /\ cache' = Fresh(t, generation, 1, CounterAfterSwitch)
  /\ token' = NoToken
  /\ purgedAt' = [j \in Jobs |-> 0]
  /\ UNCHANGED <<server, durable, answers, calm>>

-----------------------------------------------------------------------------
Next ==
  \/ \E t \in Tenants :
       \/ \E a \in Authority, advances \in BOOLEAN : ChangeAuthority(t, a, advances)
       \/ RevokeMembership(t)
       \/ SwitchTenant(t)
       \/ \E g \in 0..MaxChanges + 1 : Partition(t, g)
  \/ Deploy
  \/ \E rows \in SUBSET Jobs, q \in Quality : SourceChanges(rows, q)
  \/ \E s \in 1..schema :
       \/ Subscribe(s)
       \/ Download(s)
       \/ DownloadWithoutSession(s)
  \/ TokenExpires
  \/ Begin
  \/ \E a \in answers : Forget(a) \/ Apply(a)

Spec == Init /\ [][Next]_vars

(* A device that runs asks again, a request reaches an up-to-date instance *)
(* once in a while, and so does an answer the device.  A token lasts a     *)
(* minute, and malformed rows keep it from being renewed.                  *)
Fairness ==
  /\ WF_vars(Begin)
  /\ SF_vars(Download(schema))
  /\ WF_vars(quality = "malformed" /\ TokenExpires)
  /\ SF_vars(\E a \in answers : Apply(a))
  /\ SF_vars(\E a \in answers : ~Belongs(a) /\ Forget(a))

FairSpec == Spec /\ Fairness

-----------------------------------------------------------------------------
(* Types, and the refinement of syncDeviceCacheV1: a state it refuses      *)
(* would stop the device for good.                                         *)
TypeOK ==
  /\ authority \in [Tenants -> Authority] /\ member \in [Tenants -> BOOLEAN]
  /\ active \in Tenants /\ revision \in Nat /\ schema \in Nat
  /\ source \subseteq Jobs /\ quality \in Quality
  /\ \A t \in Tenants : checkpoint[t].generation = Len(granted[t])
  /\ token # NoToken => token.tenant \in Tenants /\ token.scope \in Authority
  /\ cache.sequence \in 0..MaxSequence
  /\ cache.rows \cup cache.purged \subseteq Jobs
  /\ cache.rows \cap cache.purged = {}
  /\ cache.subscribed \/ cache.cursor = NoJob
  /\ purgedAt \in [Jobs -> Nat] /\ changes \in 0..MaxChanges /\ calm \in BOOLEAN

(* What the device shows, it was granted in the very generation its cache  *)
(* names: answers of an older generation are refused and a newer one       *)
(* clears the cache first, whatever arrives late and whoever signed out    *)
(* (sync-device-cache.ts:107-118, 0551:39-46).                             *)
ShownIsGranted ==
  cache.rows # {} =>
    /\ cache.generation \in DOMAIN granted[cache.tenant]
    /\ LET a == granted[cache.tenant][cache.generation]
       IN Permitted(a) /\ cache.rows \subseteq a.jobs

(* A purged job comes back only with an answer to a request the device     *)
(* made after the purge (sync-device-cache.ts:137).                        *)
PurgedReturnsFresh ==
  [][\A j \in cache.purged \cap cache'.rows :
       \E a \in answers : /\ j \in a.body.rows
                          /\ a.sequence > purgedAt[j]
                          /\ cache' = Applied(a)]_vars

(* A download that went through while nothing changed leaves the whole     *)
(* projection on the device, however many pages it took and however often  *)
(* they were asked for or repeated (download.application.ts:125-134).      *)
CompleteWhenCalm ==
  calm /\ cache.subscribed /\ cache.cursor = NoJob /\ ~cache.pending =>
    cache.rows = Projection(cache.tenant)

(* The device's schema accepts every answer the server makes: one it       *)
(* refused would be asked for for ever (sync-device-cache.ts:70-85,133).   *)
AnswersAreAccepted ==
  \A a \in answers : /\ Consistent(a)
                     /\ \A j \in a.body.rows : j > a.after

(* A job the user may not hold any longer leaves the device, as long as it *)
(* asks and the durable checkpoint accepts what the provider says          *)
(* ("prevents old-token downloads and emits identity-only cleanup          *)
(* obligations", docs/contracts/sync-download-v1.md:65-66).  A membership  *)
(* revoked in the database, or a provider that forgot to advance its       *)
(* revision, makes every download fail instead (0551:30-46).               *)
MayHold(j) ==
  /\ cache.tenant = active
  /\ Permitted(authority[active]) /\ j \in Projection(active)
WithdrawnLeaves ==
  \A j \in Jobs : <>[](~MayHold(j) /\ CheckpointAccepts(schema)) => <>[](j \notin cache.rows)

=============================================================================
