------------------------ MODULE SyncDeviceCacheProofs ------------------------
(***************************************************************************)
(* Theorems about SyncDeviceCache, for every set of jobs and tenants,      *)
(* every page size and any number of changes and requests.  The device     *)
(* sees only answers, which may be old: the invariant says of each answer  *)
(* what was granted in the generation it names, and of an answer to the    *)
(* pending request, while nothing changes, that it is a page of what the   *)
(* server says now (CalmAnswers).  A page that is not the last reaches as  *)
(* far as its last row, which is a fact about the least of many numbers.   *)
(***************************************************************************)
EXTENDS SyncDeviceCache, FiniteSetTheorems, TLAPS

Checkpoint == [generation : Nat, revision : Nat, schema : Nat, scope : Authority]
Token == [tenant : Tenants, generation : Nat, scope : Operative, live : BOOLEAN]
Cache == [tenant : Tenants, generation : Nat, schema : Nat, sequence : Nat, cursor : Nat,
          subscribed : BOOLEAN, pending : BOOLEAN, rows : SUBSET Jobs, purged : SUBSET Jobs]
Body == [outcome : {"allowed", "refused", "hold"}, rows : SUBSET Jobs,
         admitted : SUBSET Jobs, tombstones : SUBSET Jobs, next : Nat]
Answer == [tenant : Tenants, sequence : Nat, generation : Nat, schema : Nat, after : Nat,
           body : Body]

Types ==
  /\ authority \in [Tenants -> Authority] /\ member \in [Tenants -> BOOLEAN]
  /\ active \in Tenants /\ revision \in Nat \ {0} /\ schema \in Nat
  /\ source \subseteq Jobs /\ quality \in Quality
  /\ checkpoint \in [Tenants -> Checkpoint] /\ granted \in [Tenants -> Seq(Authority)]
  /\ token = NoToken \/ token \in Token
  /\ cache \in Cache
  /\ answers \subseteq Answer
  /\ purgedAt \in [Jobs -> Nat] /\ changes \in 0..MaxChanges /\ calm \in BOOLEAN

(* A generation stands for the scope its checkpoint was last called with.  *)
Generations ==
  \A t \in Tenants :
    /\ checkpoint[t].generation = Len(granted[t])
    /\ checkpoint[t].generation = 0 => checkpoint[t].revision = 0
    /\ checkpoint[t].generation > 0 =>
         granted[t][checkpoint[t].generation] = checkpoint[t].scope

Coherent ==
  /\ cache.rows \cap cache.purged = {}
  /\ cache.subscribed \/ cache.cursor = NoJob
  /\ cache.sequence <= MaxSequence

(* What an answer brings was granted in the generation it names.           *)
GrantedIn(scopes, g, rows) ==
  /\ g \in DOMAIN scopes
  /\ Permitted(scopes[g]) /\ rows \subseteq scopes[g].jobs
AnswersAreGranted ==
  \A a \in answers : a.body.rows # {} => GrantedIn(granted[a.tenant], a.generation, a.body.rows)

(* Answers are to requests made so far.                                    *)
AnswersAreAnswers == \A a \in answers : a.sequence <= cache.sequence

(* A job was purged by the answer to an earlier request than the next.     *)
PurgedBefore ==
  \A j \in cache.purged :
    /\ purgedAt[j] <= cache.sequence
    /\ cache.pending => purgedAt[j] < cache.sequence

(* As long as nothing changes, an answer to the pending request is what    *)
(* the server says now, and the device holds the projection up to its      *)
(* cursor.                                                                 *)
OnPage(b) ==
  /\ b.admitted = Projection(active)
  /\ b.tombstones = cache.rows \ b.admitted
  /\ b.rows \subseteq Rest
  /\ b.next = NoJob => b.rows = Rest
  /\ b.next # NoJob => {j \in Rest : j <= b.next} \subseteq b.rows
CalmAnswers ==
  calm /\ cache.pending =>
    \A a \in answers :
      a.tenant = cache.tenant /\ a.sequence = cache.sequence /\ a.body.outcome = "allowed" =>
        active = cache.tenant /\ OnPage(a.body)
CalmCache ==
  calm /\ cache.subscribed =>
    /\ active = cache.tenant
    /\ cache.rows \subseteq Projection(active)
    /\ {j \in Projection(active) : j <= cache.cursor} \subseteq cache.rows
    /\ cache.cursor = NoJob => cache.rows = Projection(active)

IInv ==
  /\ Types /\ Generations /\ Coherent
  /\ AnswersAreAnswers /\ AnswersAreGranted /\ AnswersAreAccepted
  /\ ShownIsGranted /\ PurgedBefore
  /\ CalmAnswers /\ CalmCache

-----------------------------------------------------------------------------
(* The steps: those of the world change nothing the device or the          *)
(* checkpoint holds.                                                       *)

World ==
  /\ Change
  /\ UNCHANGED <<durable, token, cache, answers, purgedAt>>

LEMMA Steps ==
  ASSUME [Next]_vars
  PROVE  \/ World
         \/ \E t \in Tenants, g \in 0..MaxChanges + 1 : Partition(t, g)
         \/ \E s \in 1..schema : Subscribe(s)
         \/ \E s \in 1..schema : Download(s)
         \/ \E s \in 1..schema : DownloadWithoutSession(s)
         \/ TokenExpires
         \/ Begin
         \/ \E a \in answers : Forget(a)
         \/ \E a \in answers : Apply(a)
         \/ UNCHANGED vars
<1>1. ASSUME NEW t \in Tenants, NEW a \in Authority, NEW advances \in BOOLEAN,
             ChangeAuthority(t, a, advances)
      PROVE  World
  BY <1>1 DEF ChangeAuthority, World
<1>2. ASSUME NEW t \in Tenants, RevokeMembership(t) \/ SwitchTenant(t)
      PROVE  World
  BY <1>2 DEF RevokeMembership, SwitchTenant, World
<1>3. Deploy => World
  BY DEF Deploy, World
<1>4. ASSUME NEW rows \in SUBSET Jobs, NEW q \in Quality, SourceChanges(rows, q)
      PROVE  World
  BY <1>4 DEF SourceChanges, World
<1> QED
  BY <1>1, <1>2, <1>3, <1>4 DEF Next

-----------------------------------------------------------------------------
(* Pages.                                                                  *)

LEMMA LeastNumber ==
  ASSUME NEW T, T \subseteq Nat, T # {}
  PROVE  \E n \in T : \A m \in T : n <= m
<1>1. PICK n \in T : \A m \in T : ~(<<m, n>> \in OpToRel(<, Nat))
  BY NatLessThanWellFounded, WFMin, Zenon
<1>2. \A m \in T : m \in Nat /\ n \in Nat
  OBVIOUS
<1>3. \A m \in T : ~(m < n)
  BY <1>1, <1>2, Zenon DEF OpToRel
<1> QED
  BY <1>2, <1>3

LEMMA BelowIsFinite ==
  ASSUME NEW S, S \subseteq Nat, NEW j \in Nat
  PROVE  LET below == {k \in S : k < j}
         IN  IsFiniteSet(below) /\ Cardinality(below) \in Nat
<1> DEFINE below == {k \in S : k < j}
<1>1. below \subseteq 0..j
  <2> SUFFICES ASSUME NEW k \in S, k < j
               PROVE  k \in 0..j
    OBVIOUS
  <2> QED
    OBVIOUS
<1>2. IsFiniteSet(0..j)
  BY FS_Interval
<1> QED
  BY <1>1, <1>2, FS_Subset, FS_CardinalityType

LEMMA BelowGrows ==
  ASSUME NEW S, S \subseteq Nat, NEW j \in Nat, NEW l \in Nat, j <= l
  PROVE  Cardinality({k \in S : k < j}) <= Cardinality({k \in S : k < l})
<1>1. ASSUME NEW k \in S, k < j
      PROVE  k < l
  BY <1>1
<1>2. IsFiniteSet({k \in S : k < l})
  BY BelowIsFinite
<1> QED
  BY <1>1, <1>2, FS_Subset

(* A page is the beginning of what is left, and not empty unless that is.  *)
LEMMA PageIsPrefix ==
  ASSUME NEW S, S \subseteq Nat, NEW n \in Nat \ {0}
  PROVE  /\ Smallest(n, S) \subseteq S
         /\ \A j \in Smallest(n, S), l \in S \ Smallest(n, S) : j < l
         /\ S # {} => Smallest(n, S) # {}
<1>1. Smallest(n, S) \subseteq S
  BY DEF Smallest
<1>2. ASSUME NEW j \in Smallest(n, S), NEW l \in S \ Smallest(n, S)
      PROVE  j < l
  <2>1. /\ j \in Nat /\ l \in Nat
        /\ Cardinality({k \in S : k < j}) < n
        /\ ~(Cardinality({k \in S : k < l}) < n)
    BY <1>2 DEF Smallest
  <2>2. /\ Cardinality({k \in S : k < j}) \in Nat
        /\ Cardinality({k \in S : k < l}) \in Nat
    BY <2>1, BelowIsFinite
  <2>3. l <= j => Cardinality({k \in S : k < l}) <= Cardinality({k \in S : k < j})
    BY <2>1, BelowGrows
  <2> QED
    BY <2>1, <2>2, <2>3
<1>3. ASSUME S # {}
      PROVE  Smallest(n, S) # {}
  <2>1. PICK j \in S : \A l \in S : j <= l
    BY <1>3, LeastNumber
  <2>2. {k \in S : k < j} = {}
    <3>1. ASSUME NEW k \in S
          PROVE  ~(k < j)
      BY <2>1
    <3> QED
      BY <3>1
  <2>3. Cardinality({k \in S : k < j}) < n
    BY <2>2, FS_EmptySet
  <2> QED
    BY <2>3 DEF Smallest
<1> QED
  BY <1>1, <1>2, <1>3

(* If something is left, the next cursor is the last job of the page.      *)
LEMMA NextIsLast ==
  ASSUME NEW S, S \subseteq Nat, NEW n \in Nat \ {0}, S # Smallest(n, S)
  PROVE  /\ Max(Smallest(n, S)) \in Smallest(n, S)
         /\ \A j \in Smallest(n, S) : j <= Max(Smallest(n, S))
<1> DEFINE page == Smallest(n, S)
           bounds == {u \in Nat : \A j \in page : j <= u}
<1>1. PICK l \in S : l \notin page
  BY PageIsPrefix
<1>2. l \in bounds
  <2>1. \A j \in page : j \in Nat /\ j < l
    BY <1>1, PageIsPrefix
  <2> QED
    BY <2>1
<1>3. PICK u \in bounds : \A v \in bounds : u <= v
  <2> HIDE DEF page
  <2> QED
    BY <1>2, LeastNumber
<1>4. page # {} /\ page \subseteq Nat
  BY <1>1, PageIsPrefix
<1> HIDE DEF page
<1>5. u \in page
  <2>1. SUFFICES ASSUME u \notin page PROVE FALSE
    OBVIOUS
  <2>2. PICK j \in page : TRUE
    BY <1>4
  <2>3. u - 1 \in Nat /\ \A k \in page : k <= u - 1
    BY <1>3, <1>4, <2>1, <2>2
  <2> QED
    BY <1>3, <2>3
<1>6. \A j \in page : u >= j
  BY <1>3, <1>4
<1> QED
  BY <1>4, <1>5, <1>6 DEF Max, page

-----------------------------------------------------------------------------
(* Applying an answer.                                                     *)

Removed(a) ==
  LET base == IF a.generation = cache.generation THEN cache.rows ELSE {}
      b == a.body
  IN b.tombstones \cup (IF b.outcome = "hold" THEN {} ELSE base \ b.admitted)

LEMMA AppliedTypes ==
  ASSUME cache \in Cache, NEW a \in Answer
  PROVE  /\ Applied(a) \in Cache
         /\ Applied(a).tenant = cache.tenant /\ Applied(a).sequence = cache.sequence
         /\ ~Applied(a).pending
<1> DEFINE base == IF a.generation = cache.generation THEN cache
                   ELSE [Reset(cache) EXCEPT !.generation = a.generation]
           b == a.body
           removed == b.tombstones \cup
                      (IF b.outcome = "hold" THEN {} ELSE base.rows \ b.admitted)
           kept == [base EXCEPT !.rows = base.rows \ removed,
                                !.purged = base.purged \cup removed, !.pending = FALSE]
           Typed(c) == /\ c \in Cache
                       /\ c.tenant = cache.tenant /\ c.sequence = cache.sequence
<1>1. b \in Body /\ a.generation \in Nat /\ a.schema \in Nat
  BY DEF Answer
<1>2. Typed(Reset(cache)) /\ ~Reset(cache).pending
  BY DEF Reset, Cache, NoJob
<1>3. \A c : Typed(c) => /\ Typed([c EXCEPT !.generation = a.generation])
                         /\ [c EXCEPT !.generation = a.generation].pending = c.pending
                         /\ Typed([c EXCEPT !.generation = a.generation, !.schema = a.schema])
                         /\ [c EXCEPT !.generation = a.generation,
                                      !.schema = a.schema].pending = c.pending
  BY <1>1 DEF Cache
<1>4. Typed(base)
  BY <1>2, <1>3
<1>5. removed \subseteq Jobs
  BY <1>1, <1>4 DEF Body, Cache
<1> HIDE DEF base, removed
<1>6. Typed(kept) /\ ~kept.pending
  BY <1>4, <1>5 DEF Cache
<1> HIDE DEF kept
<1>7. /\ Typed([kept EXCEPT !.cursor = NoJob, !.subscribed = FALSE])
      /\ ~[kept EXCEPT !.cursor = NoJob, !.subscribed = FALSE].pending
  BY <1>6 DEF Cache, NoJob
<1>8. Typed(Show(kept, b.rows)) /\ ~Show(kept, b.rows).pending
  BY <1>1, <1>6 DEF Show, Cache, Body
<1>9. /\ Typed([Show(kept, b.rows) EXCEPT !.cursor = b.next, !.subscribed = TRUE])
      /\ ~[Show(kept, b.rows) EXCEPT !.cursor = b.next, !.subscribed = TRUE].pending
  BY <1>1, <1>8 DEF Cache, Body
<1>10. /\ Typed([Reset(cache) EXCEPT !.generation = a.generation, !.schema = a.schema])
       /\ ~[Reset(cache) EXCEPT !.generation = a.generation, !.schema = a.schema].pending
       /\ Typed([Reset(cache) EXCEPT !.generation = a.generation])
       /\ ~[Reset(cache) EXCEPT !.generation = a.generation].pending
  BY <1>2, <1>3
<1>11. Typed(Applied(a)) /\ ~Applied(a).pending
  <2> HIDE DEF Typed
  <2> QED
    BY <1>7, <1>9, <1>10 DEF Applied, base, removed, kept
<1> QED
  BY <1>11

LEMMA AppliedCoherent ==
  ASSUME cache \in Cache, NEW a \in Answer, Coherent
  PROVE  /\ Applied(a).rows \cap Applied(a).purged = {}
         /\ Applied(a).subscribed \/ Applied(a).cursor = NoJob
BY DEF Applied, Reset, Show, Cache, Answer, Body, Coherent

(* An answer either stops the download, and then shows nothing new, or is  *)
(* a page, which is shown besides the rows of its own generation.          *)
LEMMA Stopped ==
  ASSUME cache \in Cache, NEW a \in Answer, ~Applied(a).subscribed
  PROVE  /\ Applied(a).rows \subseteq cache.rows
         /\ Applied(a).rows # {} => Applied(a).generation = cache.generation
BY DEF Applied, Reset, Show, Cache, Answer, Body

LEMMA Paged ==
  ASSUME cache \in Cache, NEW a \in Answer, Applied(a).subscribed
  PROVE  /\ a.body.outcome = "allowed"
         /\ Applied(a).generation = a.generation
         /\ Applied(a).cursor = a.body.next
         /\ Applied(a).rows = a.body.rows \cup
              ((IF a.generation = cache.generation THEN cache.rows ELSE {}) \ Removed(a))
         /\ a.generation = cache.generation \/ ~cache.subscribed
BY DEF Applied, Reset, Show, Cache, Answer, Body, Removed, Kind

-----------------------------------------------------------------------------
(* Type correctness.                                                       *)

LEMMA TypesInit == Init => Types /\ Generations /\ Coherent
<1> SUFFICES ASSUME Init PROVE Types /\ Generations /\ Coherent
  OBVIOUS
<1>1. authority \in [Tenants -> Authority]
  BY DEF Init, Authority, Operative
<1>2. checkpoint \in [Tenants -> Checkpoint]
  BY <1>1 DEF Init, Checkpoint
<1>3. cache \in Cache
  BY DEF Init, Fresh, Cache, NoJob
<1> QED
  BY <1>1, <1>2, <1>3, SyncAssumption
  DEF Init, Quality, Types, Generations, Coherent, Fresh, NoJob

LEMMA GenerationType ==
  ASSUME Types, NEW s \in Nat
  PROVE  /\ Generation(s) \in Nat
         /\ Generation(s) \in {checkpoint[active].generation,
                               checkpoint[active].generation + 1}
<1>1. checkpoint[active] \in Checkpoint
  BY DEF Types
<1> QED
  BY <1>1 DEF Types, Generation, Checkpoint

LEMMA AdvanceTypes ==
  ASSUME Types, NEW s \in Nat, Advance(s)
  PROVE  /\ checkpoint' \in [Tenants -> Checkpoint] /\ granted' \in [Tenants -> Seq(Authority)]
         /\ \A t \in Tenants \ {active} : /\ checkpoint'[t] = checkpoint[t]
                                          /\ granted'[t] = granted[t]
         /\ checkpoint'[active] = [generation |-> Generation(s), revision |-> revision,
                                   schema |-> s, scope |-> authority[active]]
         /\ granted'[active] = IF Generation(s) = checkpoint[active].generation
                               THEN granted[active]
                               ELSE Append(granted[active], authority[active])
<1>1. [generation |-> Generation(s), revision |-> revision, schema |-> s,
       scope |-> authority[active]] \in Checkpoint
  BY GenerationType DEF Types, Checkpoint
<1>2. Append(granted[active], authority[active]) \in Seq(Authority)
  BY DEF Types
<1> QED
  BY <1>1, <1>2 DEF Types, Advance

LEMMA DecisionType ==
  ASSUME Types
  PROVE  Decision \in Body /\ Unauthorized \in Body
<1>1. authority[active].jobs \subseteq Jobs /\ cache.rows \subseteq Jobs
  <2>1. authority[active] \in Authority
    BY DEF Types
  <2> QED
    BY <2>1 DEF Types, Authority, Operative, Cache
<1>2. Projection(active) \subseteq Jobs
  BY <1>1 DEF Projection
<1>3. /\ Refusal(Projection(active)) \in Body /\ Refusal({}) \in Body /\ Hold \in Body
  BY <1>1, <1>2 DEF Refusal, Hold, Body, NoJob
<1>4. Rest \subseteq Jobs /\ Rest \subseteq Nat
  BY <1>2, SyncAssumption DEF Rest
<1>5. PageSize \in Nat \ {0}
  BY SyncAssumption
<1>6. Smallest(PageSize, Rest) \subseteq Rest
  BY <1>4, <1>5, PageIsPrefix
<1>7. Rest # Smallest(PageSize, Rest) => Max(Smallest(PageSize, Rest)) \in Nat
  BY <1>4, <1>5, <1>6, NextIsLast
<1>8. PageAnswer \in Body
  BY <1>1, <1>2, <1>4, <1>6, <1>7 DEF PageAnswer, Admitted, Body, NoJob
<1> QED
  BY <1>3, <1>8 DEF Decision, Unauthorized

LEMMA TypesStep == Types /\ Coherent /\ [Next]_vars => Types' /\ Coherent'
<1> SUFFICES ASSUME Types, Coherent, [Next]_vars
             PROVE  Types' /\ Coherent'
  OBVIOUS
<1> USE DEF durable, history, server
<1>0. ASSUME Change
      PROVE  changes' \in 0..MaxChanges /\ calm' = FALSE
  BY <1>0, SyncAssumption DEF Change, Types
<1>1. ASSUME NEW t \in Tenants, NEW a \in Authority, NEW advances \in BOOLEAN,
             ChangeAuthority(t, a, advances)
      PROVE  Types' /\ Coherent'
  <2>1. authority' \in [Tenants -> Authority] /\ revision' \in Nat \ {0}
    BY <1>1 DEF ChangeAuthority, Types
  <2> QED
    BY <1>0, <1>1, <2>1 DEF ChangeAuthority, Types, Coherent
<1>2. ASSUME NEW t \in Tenants, RevokeMembership(t) \/ SwitchTenant(t)
      PROVE  Types' /\ Coherent'
  <2>1. /\ member' \in [Tenants -> BOOLEAN] /\ active' \in Tenants
        /\ revision' \in Nat \ {0}
    <3>1. CASE RevokeMembership(t)
      BY <3>1 DEF RevokeMembership, Types
    <3>2. CASE SwitchTenant(t)
      BY <3>2 DEF SwitchTenant, Types
    <3> QED
      BY <1>2, <3>1, <3>2
  <2> QED
    BY <1>0, <1>2, <2>1 DEF RevokeMembership, SwitchTenant, Types, Coherent
<1>3. ASSUME Deploy \/ \E rows \in SUBSET Jobs, q \in Quality : SourceChanges(rows, q)
      PROVE  Types' /\ Coherent'
  <2>1. schema' \in Nat /\ source' \subseteq Jobs /\ quality' \in Quality
    BY <1>3 DEF Deploy, SourceChanges, Types
  <2> QED
    BY <1>0, <1>3, <2>1 DEF Deploy, SourceChanges, Types, Coherent
<1>4. ASSUME NEW t \in Tenants, NEW g \in 0..MaxChanges + 1, Partition(t, g)
      PROVE  Types' /\ Coherent'
  <2>1. g \in Nat
    BY SyncAssumption
  <2>2. cache' = Fresh(t, g, 1, cache.sequence) /\ cache' \in Cache
    BY <1>4, <2>1 DEF Partition, CounterAfterSwitch, Fresh, Cache, Types, NoJob
  <2>3. Coherent'
    BY <2>2 DEF Coherent, Fresh
  <2> QED
    BY <1>4, <2>2, <2>3, SyncAssumption DEF Partition, Types
<1>5. ASSUME NEW s \in 1..schema, Subscribe(s)
      PROVE  Types' /\ Coherent'
  <2>1. s \in Nat /\ Generation(s) \in Nat
    BY GenerationType, SMTT(30) DEF Types
  <2>2. /\ checkpoint' \in [Tenants -> Checkpoint] /\ granted' \in [Tenants -> Seq(Authority)]
    BY <1>5, <2>1, AdvanceTypes DEF Subscribe
  <2>3. Renewable => authority[active] \in Operative
    BY DEF Renewable, Permitted, Types, Authority
  <2>4. token' = token \/ token' \in Token
    BY <1>5, <2>1, <2>3 DEF Subscribe, Token, Types
  <2> QED
    BY <1>5, <2>2, <2>4 DEF Subscribe, Types, Coherent
<1>6. ASSUME NEW s \in 1..schema, Download(s)
      PROVE  Types' /\ Coherent'
  <2>1. s \in Nat
    BY DEF Types
  <2>2. /\ checkpoint' \in [Tenants -> Checkpoint] /\ granted' \in [Tenants -> Seq(Authority)]
    BY <1>6, <2>1, AdvanceTypes DEF Download
  <2>3. \A b \in Body : Bound(b, s) \in Answer
    BY <1>6, <2>1 DEF Download, Types, Bound, Answer, Token, Cache
  <2>4. answers' \subseteq Answer
    BY <1>6, <2>3, DecisionType DEF Download, Send, Types
  <2> QED
    BY <1>6, <2>2, <2>4 DEF Download, Types, Coherent
<1>7. ASSUME NEW s \in 1..schema, DownloadWithoutSession(s)
      PROVE  Types' /\ Coherent'
  <2>1. Bound(Unauthorized, s) \in Answer
    BY <1>7, DecisionType, SMTT(30)
    DEF DownloadWithoutSession, Types, Bound, Answer, Token, Cache
  <2> QED
    BY <1>7, <2>1 DEF DownloadWithoutSession, Send, Types, Coherent
<1>8. ASSUME TokenExpires
      PROVE  Types' /\ Coherent'
  <2>1. token \in Token
    BY <1>8 DEF TokenExpires, Types, NoToken
  <2>2. token' \in Token
    BY <1>8, <2>1 DEF TokenExpires, Token
  <2> QED
    BY <1>8, <2>2 DEF TokenExpires, Types, Coherent
<1>9. ASSUME Begin
      PROVE  Types' /\ Coherent'
  <2>0. cache \in Cache
    BY DEF Types
  <2>1. /\ cache' \in Cache
        /\ cache'.sequence = cache.sequence + 1 /\ cache.sequence < MaxSequence
        /\ cache'.rows = cache.rows /\ cache'.purged = cache.purged
        /\ cache'.subscribed = cache.subscribed /\ cache'.cursor = cache.cursor
    <3>1. cache.sequence + 1 \in Nat
      BY <2>0 DEF Cache
    <3>2. /\ cache' = [cache EXCEPT !.pending = TRUE, !.sequence = cache.sequence + 1]
          /\ cache.sequence < MaxSequence
      BY <1>9 DEF Begin
    <3> QED
      BY <2>0, <3>1, <3>2 DEF Cache
  <2>3. Coherent'
    BY <2>0, <2>1, SyncAssumption DEF Coherent, Cache
  <2> QED
    BY <1>9, <2>1, <2>3 DEF Begin, Types
<1>10. ASSUME NEW a \in answers, Forget(a)
       PROVE  Types' /\ Coherent'
  BY <1>10 DEF Forget, Types, Coherent
<1>11. ASSUME NEW a \in answers, Apply(a)
       PROVE  Types' /\ Coherent'
  <2>1. a \in Answer /\ cache \in Cache /\ cache' = Applied(a)
    BY <1>11 DEF Apply, Types
  <2>2. cache' \in Cache /\ cache'.sequence = cache.sequence
    BY <2>1, AppliedTypes
  <2>3. Coherent'
    BY <2>1, <2>2, AppliedCoherent DEF Coherent
  <2>4. purgedAt' \in [Jobs -> Nat]
    BY <1>11 DEF Apply, Mark, Types, Cache
  <2> QED
    BY <1>11, <2>2, <2>3, <2>4 DEF Apply, Types
<1>12. CASE UNCHANGED vars
  BY <1>12 DEF vars, Types, Coherent
<1> QED
  BY <1>1, <1>2, <1>3, <1>4, <1>5, <1>6, <1>7, <1>8, <1>9, <1>10, <1>11, <1>12 DEF Next

-----------------------------------------------------------------------------
(* The generations, and what was granted in them.                          *)

LEMMA AdvanceStands ==
  ASSUME Types, Generations, NEW s \in Nat, CheckpointAccepts(s), Advance(s)
  PROVE  /\ Generations'
         /\ \A t \in Tenants : \A g \in DOMAIN granted[t] :
              g \in DOMAIN granted'[t] /\ granted'[t][g] = granted[t][g]
         /\ Generation(s) \in DOMAIN granted'[active]
         /\ granted'[active][Generation(s)] = authority[active]
<1> DEFINE c == checkpoint[active]
           old == granted[active]
<1>1. /\ active \in Tenants /\ c \in Checkpoint /\ old \in Seq(Authority)
      /\ revision \in Nat \ {0} /\ authority[active] \in Authority
      /\ c.generation = Len(old) /\ Len(old) \in Nat /\ DOMAIN old = 1..Len(old)
      /\ c.generation = 0 => c.revision = 0
      /\ c.generation > 0 => old[c.generation] = c.scope
  BY DEF Types, Generations
<1>2. /\ \A t \in Tenants \ {active} : /\ checkpoint'[t] = checkpoint[t]
                                       /\ granted'[t] = granted[t]
      /\ checkpoint'[active] = [generation |-> Generation(s), revision |-> revision,
                                schema |-> s, scope |-> authority[active]]
      /\ granted'[active] = IF Generation(s) = c.generation THEN old
                            ELSE Append(old, authority[active])
  BY AdvanceTypes
<1>3. CASE Generation(s) = c.generation
  <2>1. ~(revision > c.revision)
    BY <1>1, <1>3 DEF Generation, Checkpoint
  <2>2. c.generation > 0
    BY <1>1, <2>1 DEF Checkpoint
  <2>3. authority[active] = c.scope
    BY <2>1, <2>2 DEF CheckpointAccepts
  <2>4. granted'[active] = old /\ Generation(s) \in 1..Len(old)
    BY <1>1, <1>2, <1>3, <2>2
  <2>5. old[Generation(s)] = authority[active]
    BY <1>1, <1>3, <2>2, <2>3
  <2>6. granted' = [t \in Tenants |-> granted'[t]]
    BY AdvanceTypes
  <2>7. Generations'
    BY <1>1, <1>2, <1>3, <2>2, <2>4, <2>5 DEF Generations
  <2> QED
    BY <1>1, <1>2, <2>4, <2>5, <2>7
<1>4. CASE Generation(s) # c.generation
  <2>1. Generation(s) = c.generation + 1
    BY <1>4, GenerationType
  <2>2. granted'[active] = Append(old, authority[active])
    BY <1>2, <1>4
  <2>3. /\ Len(granted'[active]) = Len(old) + 1
        /\ DOMAIN granted'[active] = 1..(Len(old) + 1)
        /\ granted'[active][Len(old) + 1] = authority[active]
        /\ \A g \in 1..Len(old) : granted'[active][g] = old[g]
    BY <1>1, <2>2
  <2>4. ASSUME NEW t \in Tenants
        PROVE  /\ checkpoint'[t].generation = Len(granted'[t])
               /\ checkpoint'[t].generation = 0 => checkpoint'[t].revision = 0
               /\ checkpoint'[t].generation > 0 =>
                    granted'[t][checkpoint'[t].generation] = checkpoint'[t].scope
               /\ \A g \in DOMAIN granted[t] :
                    g \in DOMAIN granted'[t] /\ granted'[t][g] = granted[t][g]
    <3>1. CASE t = active
      <4>1. c.generation \in Nat
        BY <1>1 DEF Checkpoint
      <4>2. /\ checkpoint'[t].generation = Len(old) + 1 /\ Len(old) + 1 # 0
            /\ checkpoint'[t].scope = authority[active]
        BY <1>1, <1>2, <2>1, <3>1
      <4>3. DOMAIN granted[t] = 1..Len(old) /\ 1..Len(old) \subseteq 1..(Len(old) + 1)
        BY <1>1, <3>1
      <4> QED
        BY <2>3, <3>1, <4>1, <4>2, <4>3
    <3>2. CASE t # active
      BY <1>2, <3>2 DEF Generations
    <3> QED
      BY <3>1, <3>2
  <2> QED
    BY <1>1, <2>1, <2>3, <2>4 DEF Generations
<1> QED
  BY <1>3, <1>4

LEMMA GenerationsStep ==
  ASSUME Types, Generations, [Next]_vars
  PROVE  /\ Generations'
         /\ \A t \in Tenants : \A g \in DOMAIN granted[t] :
              g \in DOMAIN granted'[t] /\ granted'[t][g] = granted[t][g]
<1>1. CASE UNCHANGED durable
  BY <1>1 DEF durable, Generations
<1>2. ASSUME NEW s \in 1..schema, CheckpointAccepts(s), Advance(s)
      PROVE  /\ Generations'
             /\ \A t \in Tenants : \A g \in DOMAIN granted[t] :
                  g \in DOMAIN granted'[t] /\ granted'[t][g] = granted[t][g]
  <2>1. s \in Nat
    BY DEF Types
  <2> QED
    BY <1>2, <2>1, AdvanceStands
<1>3. \/ UNCHANGED durable
      \/ \E s \in 1..schema : CheckpointAccepts(s) /\ Advance(s)
  BY Steps DEF World, Partition, Subscribe, Download, DownloadWithoutSession, TokenExpires,
               Begin, Forget, Apply, vars
<1> QED
  BY <1>1, <1>2, <1>3

LEMMA GrantedStays ==
  ASSUME Types, Generations, [Next]_vars,
         NEW t \in Tenants, NEW g, NEW rows, GrantedIn(granted[t], g, rows)
  PROVE  GrantedIn(granted'[t], g, rows)
BY GenerationsStep DEF GrantedIn

-----------------------------------------------------------------------------
(* What the server answers.                                                *)

(* A page of a valid token is of the generation the token was for.         *)
LEMMA DownloadGrants ==
  ASSUME Types, Generations, NEW s \in 1..schema, Download(s)
  PROVE  \E b \in Body :
           LET a == Bound(b, s) IN
           /\ a \in Answer /\ answers' = answers \cup {a}
           /\ a.sequence = cache.sequence
           /\ b.outcome = "allowed" => b = PageAnswer /\ active = cache.tenant
           /\ b.outcome # "allowed" => b \in {Refusal(Projection(active)), Refusal({}), Hold}
           /\ b.rows # {} => GrantedIn(granted'[a.tenant], a.generation, b.rows)
<1> DEFINE b == IF ValidToken(s) THEN Decision ELSE Unauthorized
           a == Bound(b, s)
<1>1. s \in Nat /\ active \in Tenants /\ cache \in Cache /\ token \in Token
  BY DEF Types, Download
<1>2. b \in Body
  BY DecisionType
<1>3. a \in Answer
  BY <1>1, <1>2 DEF Bound, Answer, Token, Cache
<1>4. b \in {PageAnswer, Refusal(Projection(active)), Refusal({}), Hold}
  BY DEF Decision, Unauthorized
<1>5. PageAnswer.outcome = "allowed"
  BY DEF PageAnswer
<1>6. /\ Refusal(Projection(active)).outcome # "allowed" /\ Refusal({}).outcome # "allowed"
      /\ Hold.outcome # "allowed"
      /\ Refusal(Projection(active)).rows = {} /\ Refusal({}).rows = {} /\ Hold.rows = {}
  BY DEF Refusal, Hold
<1>7. ASSUME b.outcome = "allowed"
      PROVE  ValidToken(s)
  BY <1>6, <1>7 DEF Unauthorized
<1>8. ASSUME ValidToken(s), b = PageAnswer
      PROVE  active = cache.tenant /\ GrantedIn(granted'[a.tenant], a.generation, b.rows)
  <2>1. /\ active = cache.tenant /\ token.generation = Generation(s)
        /\ token.scope = authority[active]
    BY <1>8 DEF ValidToken
  <2>2. /\ Generation(s) \in DOMAIN granted'[active]
        /\ granted'[active][Generation(s)] = authority[active]
    BY <1>1, AdvanceStands DEF Download
  <2>3. Permitted(authority[active])
    BY <1>1, <2>1 DEF Token, Operative, Permitted
  <2>4. Rest \subseteq Nat /\ PageSize \in Nat \ {0} /\ Rest \subseteq Projection(active)
    BY SyncAssumption DEF Rest, Projection, Types
  <2>5. b.rows \subseteq authority[active].jobs
    <3>1. b.rows = Smallest(PageSize, Rest)
      BY <1>8 DEF PageAnswer
    <3>2. Smallest(PageSize, Rest) \subseteq Rest
      BY <2>4, PageIsPrefix
    <3> QED
      BY <2>4, <3>1, <3>2 DEF Projection
  <2>6. a.tenant = active /\ a.generation = Generation(s)
    BY <2>1 DEF Bound
  <2> QED
    BY <2>1, <2>2, <2>3, <2>5, <2>6 DEF GrantedIn
<1>9. answers' = answers \cup {a} /\ a.sequence = cache.sequence
  BY DEF Download, Send, Bound
<1> QED
  BY <1>2, <1>3, <1>4, <1>5, <1>6, <1>7, <1>8, <1>9

FromServer(a) ==
  /\ cache.pending /\ UNCHANGED <<server, cache, history>>
  /\ a \in Answer
  /\ a.sequence = cache.sequence /\ a.tenant = cache.tenant /\ a.after = cache.cursor
  /\ \/ /\ a.body = PageAnswer /\ active = cache.tenant
        /\ a.body.rows # {} => GrantedIn(granted'[a.tenant], a.generation, a.body.rows)
     \/ a.body \in {Refusal(Projection(active)), Refusal({}), Hold}

LEMMA NewAnswers ==
  ASSUME Types, Generations, [Next]_vars, NEW a \in answers', a \notin answers
  PROVE  FromServer(a)
<1>1. ASSUME NEW s \in 1..schema, Download(s)
      PROVE  FromServer(a)
  <2>1. PICK b \in Body :
          LET d == Bound(b, s) IN
          /\ d \in Answer /\ answers' = answers \cup {d}
          /\ d.sequence = cache.sequence
          /\ b.outcome = "allowed" => b = PageAnswer /\ active = cache.tenant
          /\ b.outcome # "allowed" => b \in {Refusal(Projection(active)), Refusal({}), Hold}
          /\ b.rows # {} => GrantedIn(granted'[d.tenant], d.generation, b.rows)
    BY <1>1, DownloadGrants
  <2>2. a = Bound(b, s) /\ a.body = b
    BY <2>1 DEF Bound
  <2> QED
    BY <1>1, <2>1, <2>2 DEF FromServer, Download, Bound
<1>2. ASSUME NEW s \in 1..schema, DownloadWithoutSession(s)
      PROVE  FromServer(a)
  <2>1. a = Bound(Refusal({}), s)
    BY <1>2 DEF DownloadWithoutSession, Send, Unauthorized
  <2>2. a.body = Refusal({})
    BY <2>1 DEF Bound
  <2>3. a \in Answer
    BY <1>2, <2>1, DecisionType, SMTT(30)
    DEF DownloadWithoutSession, Types, Bound, Answer, Token, Cache, Unauthorized
  <2> QED
    BY <1>2, <2>1, <2>2, <2>3 DEF FromServer, DownloadWithoutSession, Bound
<1>3. ASSUME answers' \subseteq answers
      PROVE  FALSE
  BY <1>3
<1> QED
  BY <1>1, <1>2, <1>3, Steps
  DEF World, Partition, Subscribe, TokenExpires, Begin, Forget, Apply, vars

(* How a step changes the cache.                                           *)
LEMMA CacheSteps ==
  ASSUME Types, [Next]_vars
  PROVE  \/ /\ UNCHANGED <<cache, purgedAt>>
            /\ calm' => calm /\ UNCHANGED server
         \/ /\ cache' = [cache EXCEPT !.pending = TRUE, !.sequence = cache.sequence + 1]
            /\ ~cache.pending
            /\ calm' = (calm \/ ~cache.subscribed)
            /\ UNCHANGED <<server, answers, purgedAt>>
         \/ /\ \E t \in Tenants, g \in Nat : cache' = Fresh(t, g, 1, cache.sequence)
            /\ UNCHANGED <<server, answers, calm>>
         \/ /\ \E a \in answers :
                 /\ a.tenant = cache.tenant /\ a.sequence = cache.sequence
                 /\ cache.pending
                 /\ Consistent(a) /\ Acceptable(a) /\ NotOlder(a)
                 /\ cache' = Applied(a)
            /\ purgedAt' = Mark(cache'.purged)
            /\ UNCHANGED <<server, answers, calm>>
<1>1. World => calm' = FALSE /\ UNCHANGED <<cache, purgedAt>>
  BY DEF World, Change
<1>2. ASSUME NEW t \in Tenants, NEW g \in 0..MaxChanges + 1, Partition(t, g)
      PROVE  /\ cache' = Fresh(t, g, 1, cache.sequence) /\ g \in Nat
             /\ UNCHANGED <<server, answers, calm>>
  BY <1>2, SyncAssumption DEF Partition, CounterAfterSwitch
<1>3. ASSUME \/ \E s \in 1..schema : Subscribe(s)
             \/ \E s \in 1..schema : Download(s)
             \/ \E s \in 1..schema : DownloadWithoutSession(s)
             \/ TokenExpires
             \/ \E a \in answers : Forget(a)
             \/ UNCHANGED vars
      PROVE  UNCHANGED <<cache, purgedAt, calm, server>>
  BY <1>3 DEF Subscribe, Download, DownloadWithoutSession, TokenExpires, Forget, vars, history
<1>4. Begin => /\ cache' = [cache EXCEPT !.pending = TRUE, !.sequence = cache.sequence + 1]
               /\ ~cache.pending
               /\ calm' = (calm \/ ~cache.subscribed)
               /\ UNCHANGED <<server, answers, purgedAt>>
  BY DEF Begin, Kind, Types
<1>5. ASSUME NEW a \in answers, Apply(a)
      PROVE  /\ a.tenant = cache.tenant /\ a.sequence = cache.sequence /\ cache.pending
             /\ Consistent(a) /\ Acceptable(a) /\ NotOlder(a)
             /\ cache' = Applied(a) /\ purgedAt' = Mark(cache'.purged)
             /\ UNCHANGED <<server, answers, calm>>
  BY <1>5 DEF Apply, Belongs
<1> QED
  BY <1>1, <1>2, <1>3, <1>4, <1>5, Steps

LEMMA AnswersAreAnswersStep ==
  ASSUME Types, Generations, AnswersAreAnswers, [Next]_vars
  PROVE  AnswersAreAnswers'
<1>1. cache'.sequence \in Nat /\ cache'.sequence >= cache.sequence
  <2>1. cache \in Cache
    BY DEF Types
  <2>2. ASSUME NEW t \in Tenants, NEW g \in Nat
        PROVE  Fresh(t, g, 1, cache.sequence).sequence = cache.sequence
    BY DEF Fresh
  <2>3. ASSUME NEW a \in answers
        PROVE  Applied(a).sequence = cache.sequence
    BY <2>1, AppliedTypes DEF Types
  <2>4. [cache EXCEPT !.pending = TRUE, !.sequence = cache.sequence + 1].sequence
          = cache.sequence + 1
    BY <2>1 DEF Cache
  <2>5. cache.sequence \in Nat
    BY <2>1 DEF Cache
  <2>6. \/ cache'.sequence = cache.sequence
        \/ cache'.sequence = cache.sequence + 1
    BY <2>2, <2>3, <2>4, CacheSteps, Zenon
  <2> QED
    BY <2>5, <2>6
<1>2. ASSUME NEW a \in answers'
      PROVE  a.sequence <= cache'.sequence
  <2>1. CASE a \in answers
    <3>1. a.sequence \in Nat /\ cache.sequence \in Nat /\ a.sequence <= cache.sequence
      BY <2>1 DEF Types, Answer, Cache, AnswersAreAnswers
    <3> QED
      BY <1>1, <3>1
  <2>2. CASE a \notin answers
    <3>1. a.sequence = cache.sequence /\ cache' = cache
      BY <2>2, NewAnswers DEF FromServer
    <3> QED
      BY <1>1, <3>1
  <2> QED
    BY <2>1, <2>2
<1> QED
  BY <1>2 DEF AnswersAreAnswers

LEMMA AnswersAreGrantedStep ==
  ASSUME Types, Generations, AnswersAreGranted, [Next]_vars
  PROVE  AnswersAreGranted'
<1> SUFFICES ASSUME NEW a \in answers', a.body.rows # {}
             PROVE  GrantedIn(granted'[a.tenant], a.generation, a.body.rows)
  BY DEF AnswersAreGranted, GrantedIn
<1>1. CASE a \in answers
  <2>1. a.tenant \in Tenants
    BY <1>1 DEF Types, Answer
  <2> QED
    BY <1>1, <2>1, GrantedStays DEF AnswersAreGranted
<1>2. CASE a \notin answers
  BY <1>2, NewAnswers DEF FromServer, Refusal, Hold
<1> QED
  BY <1>1, <1>2

LEMMA ShownIsGrantedStep ==
  ASSUME Types, Coherent, Generations, AnswersAreGranted, ShownIsGranted, [Next]_vars
  PROVE  ShownIsGranted'
<1> DEFINE Shown(c) == c.rows # {} => GrantedIn(granted[c.tenant], c.generation, c.rows)
<1>1. cache \in Cache /\ Shown(cache)
  BY DEF Types, ShownIsGranted, GrantedIn
<1>2. ASSUME NEW c \in Cache, Shown(c)
      PROVE  c.rows # {} => GrantedIn(granted'[c.tenant], c.generation, c.rows)
  BY <1>2, GrantedStays DEF Cache
<1>3. Shown(cache')
  <2>1. CASE cache' = cache
    BY <1>1, <2>1
  <2>2. CASE cache' = [cache EXCEPT !.pending = TRUE, !.sequence = cache.sequence + 1]
    <3>1. /\ cache'.rows = cache.rows /\ cache'.tenant = cache.tenant
          /\ cache'.generation = cache.generation
      BY <1>1, <2>2 DEF Cache
    <3> QED
      BY <1>1, <3>1
  <2>3. CASE \E t \in Tenants, g \in Nat : cache' = Fresh(t, g, 1, cache.sequence)
    BY <2>3 DEF Fresh
  <2>4. ASSUME NEW a \in answers, a.tenant = cache.tenant, cache' = Applied(a)
        PROVE  Shown(cache')
    <3>1. a \in Answer /\ cache'.tenant = cache.tenant
      BY <1>1, <2>4, AppliedTypes DEF Types
    <3>2. CASE ~cache'.subscribed
      <4>1. /\ cache'.rows \subseteq cache.rows
            /\ cache'.rows # {} => cache'.generation = cache.generation
        BY <1>1, <2>4, <3>1, <3>2, Stopped
      <4> QED
        BY <1>1, <3>1, <4>1 DEF GrantedIn
    <3>3. CASE cache'.subscribed
      <4>1. /\ cache'.generation = a.generation
            /\ cache'.rows \subseteq a.body.rows \cup
                 (IF a.generation = cache.generation THEN cache.rows ELSE {})
        BY <1>1, <2>4, <3>1, <3>3, Paged
      <4>2. a.body.rows # {} => GrantedIn(granted[a.tenant], a.generation, a.body.rows)
        BY DEF AnswersAreGranted
      <4> QED
        BY <1>1, <2>4, <3>1, <4>1, <4>2 DEF GrantedIn
    <3> QED
      BY <3>2, <3>3
  <2> QED
    BY <2>1, <2>2, <2>3, <2>4, CacheSteps
<1>4. cache' \in Cache
  BY TypesStep DEF Types
<1> HIDE DEF Shown
<1>5. cache'.rows # {} => GrantedIn(granted'[cache'.tenant], cache'.generation, cache'.rows)
  BY <1>2, <1>3, <1>4
<1> QED
  BY <1>5 DEF ShownIsGranted, GrantedIn

LEMMA PageFacts ==
  ASSUME Types
  PROVE  /\ PageAnswer.outcome = "allowed" /\ OnPage(PageAnswer)
         /\ Rest \subseteq Projection(active) /\ Projection(active) \subseteq Jobs
         /\ PageAnswer.next # NoJob => /\ PageAnswer.next \in PageAnswer.rows
                                       /\ \A j \in PageAnswer.rows : j <= PageAnswer.next
<1> DEFINE page == Smallest(PageSize, Rest)
<1>1. Projection(active) \subseteq Jobs /\ Rest \subseteq Projection(active)
  BY DEF Rest, Projection, Types
<1>2. Rest \subseteq Nat \ {0} /\ PageSize \in Nat \ {0}
  BY <1>1, SyncAssumption
<1>3. /\ page \subseteq Rest
      /\ \A j \in page, l \in Rest \ page : j < l
  BY <1>2, PageIsPrefix
<1>4. /\ PageAnswer.outcome = "allowed" /\ PageAnswer.rows = page
      /\ PageAnswer.admitted = Projection(active)
      /\ PageAnswer.tombstones = cache.rows \ Projection(active)
      /\ PageAnswer.next = IF Rest = page THEN NoJob ELSE Max(page)
  BY DEF PageAnswer, Admitted
<1>5. CASE Rest = page
  BY <1>1, <1>4, <1>5 DEF OnPage
<1>6. CASE Rest # page
  <2>1. Max(page) \in page /\ \A j \in page : j <= Max(page)
    BY <1>2, <1>6, NextIsLast
  <2>2. Max(page) # NoJob /\ Max(page) \in Nat
    BY <1>2, <1>3, <2>1 DEF NoJob
  <2>3. ASSUME NEW j \in Rest, j <= Max(page)
        PROVE  j \in page
    BY <1>2, <1>3, <2>1, <2>2, <2>3
  <2> HIDE DEF page
  <2> QED
    BY <1>1, <1>3, <1>4, <1>6, <2>1, <2>2, <2>3 DEF OnPage
<1> QED
  BY <1>5, <1>6

LEMMA AnswersAreAcceptedStep ==
  ASSUME Types, Generations, AnswersAreAccepted, [Next]_vars
  PROVE  AnswersAreAccepted'
<1> SUFFICES ASSUME NEW a \in answers'
             PROVE  Consistent(a) /\ \A j \in a.body.rows : j > a.after
  BY DEF AnswersAreAccepted, Consistent
<1>1. CASE a \in answers
  BY <1>1 DEF AnswersAreAccepted
<1>2. CASE a \notin answers /\ a.body = PageAnswer
  <2>1. a.after = cache.cursor
    BY <1>2, NewAnswers DEF FromServer
  <2>2. \A j \in Rest : j > cache.cursor
    BY DEF Rest
  <2> QED
    BY <1>2, <2>1, <2>2, PageFacts DEF OnPage, Consistent
<1>3. CASE a \notin answers /\ a.body \in {Refusal(Projection(active)), Refusal({}), Hold}
  BY <1>3 DEF Consistent, Refusal, Hold
<1> QED
  BY <1>1, <1>2, <1>3, NewAnswers DEF FromServer

-----------------------------------------------------------------------------
(* Purged jobs.                                                            *)

LEMMA PurgedBeforeStep ==
  ASSUME Types, Coherent, PurgedBefore, [Next]_vars
  PROVE  PurgedBefore'
<1>1. cache \in Cache /\ purgedAt \in [Jobs -> Nat]
  BY DEF Types
<1>2. cache.sequence \in Nat /\ \A j \in cache.purged : purgedAt[j] \in Nat
  BY <1>1 DEF Cache
<1>3. CASE UNCHANGED <<cache, purgedAt>>
  BY <1>1, <1>3 DEF PurgedBefore
<1>4. CASE /\ cache' = [cache EXCEPT !.pending = TRUE, !.sequence = cache.sequence + 1]
           /\ ~cache.pending
           /\ purgedAt' = purgedAt
  <2>1. cache'.purged = cache.purged /\ cache'.sequence = cache.sequence + 1
    BY <1>1, <1>4 DEF Cache
  <2> QED
    BY <1>1, <1>2, <1>4, <2>1 DEF PurgedBefore
<1>5. CASE \E t \in Tenants, g \in Nat : cache' = Fresh(t, g, 1, cache.sequence)
  BY <1>5 DEF PurgedBefore, Fresh
<1>6. ASSUME NEW a \in answers, cache' = Applied(a), purgedAt' = Mark(cache'.purged)
      PROVE  PurgedBefore'
  <2>1. /\ cache' \in Cache /\ cache'.sequence = cache.sequence /\ ~cache'.pending
    BY <1>1, <1>6, AppliedTypes DEF Types
  <2>2. ASSUME NEW j \in cache'.purged
        PROVE  purgedAt'[j] <= cache.sequence
    <3>1. j \in Jobs
      BY <2>1 DEF Cache
    <3>2. purgedAt'[j] = IF j \in cache'.purged \ cache.purged THEN cache.sequence
                         ELSE purgedAt[j]
      BY <1>6, <3>1 DEF Mark
    <3>3. CASE j \in cache.purged
      <4>1. purgedAt[j] <= cache.sequence
        BY <3>3 DEF PurgedBefore
      <4> QED
        BY <3>2, <3>3, <4>1
    <3>4. CASE j \notin cache.purged
      BY <1>2, <3>2, <3>4
    <3> QED
      BY <3>3, <3>4
  <2> QED
    BY <2>1, <2>2 DEF PurgedBefore
<1> QED
  BY <1>3, <1>4, <1>5, <1>6, CacheSteps

-----------------------------------------------------------------------------
(* Downloads while nothing changes.                                        *)

LEMMA CalmAnswersStep ==
  ASSUME Types, Generations, AnswersAreAnswers, CalmAnswers, [Next]_vars
  PROVE  CalmAnswers'
<1> SUFFICES ASSUME calm', cache'.pending, NEW a \in answers', a.tenant = cache'.tenant,
                    a.sequence = cache'.sequence, a.body.outcome = "allowed"
             PROVE  active' = cache'.tenant /\ OnPage(a.body)'
  BY DEF CalmAnswers, OnPage, Rest, Projection
<1>1. cache \in Cache /\ \A d \in answers : d \in Answer
  BY DEF Types
<1>2. ASSUME a \in answers, UNCHANGED <<cache, server>>, calm
      PROVE  active' = cache'.tenant /\ OnPage(a.body)'
  <2>1. active = cache.tenant /\ OnPage(a.body)
    BY <1>2 DEF CalmAnswers
  <2> QED
    BY <1>2, <2>1 DEF OnPage, Rest, Projection, server
<1>3. ASSUME a \notin answers
      PROVE  active' = cache'.tenant /\ OnPage(a.body)'
  <2>1. FromServer(a)
    BY <1>3, NewAnswers
  <2>2. a.body = PageAnswer /\ active = cache.tenant
    BY <2>1 DEF FromServer, Refusal, Hold
  <2>3. OnPage(a.body)
    BY <2>2, PageFacts
  <2> QED
    BY <2>1, <2>2, <2>3 DEF FromServer, OnPage, Rest, Projection, server
<1>4. CASE cache' = [cache EXCEPT !.pending = TRUE, !.sequence = cache.sequence + 1]
           /\ answers' = answers
  <2>1. cache'.sequence = cache.sequence + 1
    BY <1>1, <1>4 DEF Cache
  <2>2. a.sequence <= cache.sequence /\ a.sequence \in Nat /\ cache.sequence \in Nat
    BY <1>1, <1>4 DEF AnswersAreAnswers, Answer, Cache
  <2> QED
    BY <2>1, <2>2
<1>5. CASE \E t \in Tenants, g \in Nat : cache' = Fresh(t, g, 1, cache.sequence)
  BY <1>5 DEF Fresh
<1>6. CASE \E d \in answers : cache' = Applied(d)
  BY <1>1, <1>6, AppliedTypes
<1> QED
  BY <1>2, <1>3, <1>4, <1>5, <1>6, CacheSteps

LEMMA CalmCacheStep ==
  ASSUME Types, Coherent, Generations, CalmAnswers, CalmCache, [Next]_vars
  PROVE  CalmCache'
<1> SUFFICES ASSUME calm', cache'.subscribed
             PROVE  /\ active' = cache'.tenant
                    /\ cache'.rows \subseteq Projection(active)'
                    /\ {j \in Projection(active)' : j <= cache'.cursor} \subseteq cache'.rows
                    /\ cache'.cursor = NoJob => cache'.rows = Projection(active)'
  BY DEF CalmCache, Projection
<1> DEFINE P == Projection(active)
           Progress(c) == /\ active = c.tenant
                          /\ c.rows \subseteq P
                          /\ {j \in P : j <= c.cursor} \subseteq c.rows
                          /\ c.cursor = NoJob => c.rows = P
<1>1. cache \in Cache /\ P \subseteq Jobs /\ P \subseteq Nat \ {0}
  BY SyncAssumption DEF Types, Projection
<1>2. calm /\ cache.subscribed => Progress(cache)
  BY DEF CalmCache
<1>3. CASE UNCHANGED <<cache, server>> /\ calm
  BY <1>2, <1>3 DEF server, Projection
<1>4. CASE /\ cache' = [cache EXCEPT !.pending = TRUE, !.sequence = cache.sequence + 1]
           /\ calm' = (calm \/ ~cache.subscribed) /\ UNCHANGED server
  <2>1. /\ cache'.subscribed = cache.subscribed /\ cache'.tenant = cache.tenant
        /\ cache'.rows = cache.rows /\ cache'.cursor = cache.cursor
    BY <1>1, <1>4 DEF Cache
  <2> QED
    BY <1>2, <1>4, <2>1 DEF server, Projection
<1>5. CASE \E t \in Tenants, g \in Nat : cache' = Fresh(t, g, 1, cache.sequence)
  BY <1>5 DEF Fresh
<1>6. ASSUME NEW a \in answers, a.tenant = cache.tenant, a.sequence = cache.sequence,
             cache.pending, cache' = Applied(a), UNCHANGED <<server, calm>>
      PROVE  Progress(cache')
  <2>1. a \in Answer /\ cache'.tenant = cache.tenant
    BY <1>1, <1>6, AppliedTypes DEF Types
  <2> DEFINE b == a.body
             base == IF a.generation = cache.generation THEN cache.rows ELSE {}
  <2>2. /\ b.outcome = "allowed" /\ cache'.cursor = b.next
        /\ cache'.rows = b.rows \cup (base \ Removed(a))
        /\ a.generation = cache.generation \/ ~cache.subscribed
    BY <1>1, <1>6, <2>1, Paged
  <2>3. active = cache.tenant /\ OnPage(b)
    BY <1>6, <2>2 DEF CalmAnswers
  <2>4. base \ Removed(a) = base \cap P
    BY <2>2, <2>3 DEF Removed, OnPage
  <2>5. cache'.rows = b.rows \cup (base \cap P) /\ b.rows \subseteq P
    BY <2>2, <2>3, <2>4, PageFacts DEF OnPage
  <2>6. {j \in P : j <= cache.cursor} \subseteq base
    <3>1. CASE cache.subscribed
      BY <1>2, <1>6, <2>2, <3>1
    <3>2. CASE ~cache.subscribed
      <4>1. cache.cursor = 0
        BY <3>2 DEF Coherent, NoJob
      <4> QED
        BY <1>1, <4>1
    <3> QED
      BY <3>1, <3>2
  <2>7. ASSUME NEW j \in P, j \notin Rest
        PROVE  j \in base
    BY <1>1, <2>6, <2>7 DEF Rest, Cache
  <2>8. ASSUME NEW j \in P, j <= b.next
        PROVE  j \in cache'.rows
    <3>1. b.next # NoJob
      BY <1>1, <2>8 DEF NoJob
    <3> QED
      BY <2>3, <2>5, <2>7, <2>8, <3>1 DEF OnPage
  <2>9. ASSUME b.next = NoJob
        PROVE  P \subseteq cache'.rows
    BY <2>3, <2>5, <2>7, <2>9 DEF OnPage
  <2> QED
    BY <2>1, <2>2, <2>3, <2>5, <2>8, <2>9
<1>7. UNCHANGED server => active' = active /\ Projection(active)' = P
  BY DEF server, Projection
<1> HIDE DEF P
<1> QED
  BY <1>3, <1>4, <1>5, <1>6, <1>7, CacheSteps

-----------------------------------------------------------------------------
(* The invariant and the theorems.                                         *)

LEMMA Inductive == Spec => []IInv
<1>1. Init => IInv
  <2> SUFFICES ASSUME Init PROVE IInv
    OBVIOUS
  <2>1. /\ answers = {} /\ cache.rows = {} /\ cache.purged = {} /\ ~cache.subscribed
        /\ ~cache.pending
    BY DEF Init, Fresh
  <2>2. Types /\ Generations /\ Coherent
    BY TypesInit
  <2> QED
    BY <2>1, <2>2 DEF IInv, AnswersAreAnswers, AnswersAreGranted, AnswersAreAccepted,
                      ShownIsGranted, PurgedBefore, CalmAnswers, CalmCache
<1>2. IInv /\ [Next]_vars => IInv'
  BY TypesStep, GenerationsStep, AnswersAreAnswersStep, AnswersAreGrantedStep,
     AnswersAreAcceptedStep, ShownIsGrantedStep, PurgedBeforeStep, CalmAnswersStep,
     CalmCacheStep
  DEF IInv
<1> QED
  BY <1>1, <1>2, PTL DEF Spec

(* The cache and the checkpoints stay well typed, and the cache is one     *)
(* that the device's own schema accepts (sync-device-cache.ts:20-36).      *)
THEOREM TypeCorrect == Spec => []TypeOK
<1>1. IInv => TypeOK
  <2> SUFFICES ASSUME IInv PROVE TypeOK
    OBVIOUS
  <2>1. Types /\ Generations /\ Coherent /\ cache \in Cache
    BY DEF IInv, Types
  <2>2. token # NoToken => token.tenant \in Tenants /\ token.scope \in Authority
    BY <2>1 DEF Types, Token, Authority
  <2>3. /\ cache.sequence \in 0..MaxSequence /\ cache.rows \cup cache.purged \subseteq Jobs
    BY <2>1, SyncAssumption DEF Coherent, Cache
  <2> QED
    BY <2>1, <2>2, <2>3 DEF Types, Generations, Coherent, TypeOK
<1> QED
  BY <1>1, Inductive, PTL

(* No row is on the device that was not granted in the generation its      *)
(* cache names (sync-device-cache.ts:107-118, 0551:39-46).                 *)
THEOREM ShownOnlyGranted == Spec => []ShownIsGranted
<1>1. IInv => ShownIsGranted
  BY DEF IInv
<1> QED
  BY <1>1, Inductive, PTL

(* A download during which nothing changes leaves all of the projection on *)
(* the device (download.application.ts:125-134).                           *)
THEOREM CalmIsComplete == Spec => []CompleteWhenCalm
<1>1. IInv => CompleteWhenCalm
  BY DEF IInv, CalmCache, CompleteWhenCalm
<1> QED
  BY <1>1, Inductive, PTL

(* The device's schema refuses no answer of the server                     *)
(* (sync-device-cache.ts:70-85,133).                                       *)
THEOREM NoAnswerRefused == Spec => []AnswersAreAccepted
<1>1. IInv => AnswersAreAccepted
  BY DEF IInv
<1> QED
  BY <1>1, Inductive, PTL

(* A purged job comes back only by the answer to a request made after its  *)
(* purge (sync-device-cache.ts:137).                                       *)
THEOREM PurgedComesBackFresh == Spec => PurgedReturnsFresh
<1> DEFINE Returns == \A j \in cache.purged \cap cache'.rows :
                        \E a \in answers : /\ j \in a.body.rows
                                           /\ a.sequence > purgedAt[j]
                                           /\ cache' = Applied(a)
<1>1. IInv /\ [Next]_vars => Returns
  <2> SUFFICES ASSUME IInv, [Next]_vars, NEW j \in cache.purged, j \in cache'.rows
               PROVE  \E a \in answers : /\ j \in a.body.rows
                                         /\ a.sequence > purgedAt[j]
                                         /\ cache' = Applied(a)
    OBVIOUS
  <2>1. Types /\ cache \in Cache /\ j \notin cache.rows
    BY DEF IInv, Types, Coherent
  <2>2. CASE cache' = cache
    BY <2>1, <2>2
  <2>3. CASE cache' = [cache EXCEPT !.pending = TRUE, !.sequence = cache.sequence + 1]
    BY <2>1, <2>3 DEF Cache
  <2>4. CASE \E t \in Tenants, g \in Nat : cache' = Fresh(t, g, 1, cache.sequence)
    BY <2>4 DEF Fresh
  <2>5. ASSUME NEW a \in answers, a.sequence = cache.sequence, cache.pending,
               cache' = Applied(a)
        PROVE  j \in a.body.rows /\ a.sequence > purgedAt[j]
    <3>1. a \in Answer
      BY <2>1 DEF Types
    <3>2. Applied(a).subscribed \/ Applied(a).rows \subseteq cache.rows
      BY <2>1, <3>1, Stopped
    <3>3. j \in a.body.rows
      BY <2>1, <2>5, <3>1, <3>2, Paged
    <3>4. /\ purgedAt[j] < cache.sequence /\ purgedAt[j] \in Nat /\ cache.sequence \in Nat
      BY <2>1, <2>5 DEF IInv, PurgedBefore, Types, Cache
    <3> QED
      BY <2>5, <3>3, <3>4
  <2> QED
    BY <2>1, <2>2, <2>3, <2>4, <2>5, CacheSteps
<1> QED
  BY <1>1, Inductive, PTL DEF Spec, PurgedReturnsFresh

=============================================================================
