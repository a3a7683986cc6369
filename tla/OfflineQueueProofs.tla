------------------------- MODULE OfflineQueueProofs -------------------------
(***************************************************************************)
(* Theorems about OfflineQueue, for every set of commands and jobs, every  *)
(* budget of attempts and any number of crashes.  The parts of the         *)
(* invariant that speak of the items say the same of the three copies the  *)
(* device can restore; what a restoration makes of them is read off the    *)
(* entries it took in, one after another (FoldedUpTo).                     *)
(***************************************************************************)
EXTENDS OfflineQueue, WellFoundedInduction, TLAPS

Distinct(items) ==
  \A i, j \in DOMAIN items : items[i].command = items[j].command => i = j

Within(items, others) == \A i \in DOMAIN items : Holds(others, items[i].command)

(* Pairs of commands held in the reverse of the order of capture: the one  *)
(* in front is under review.                                               *)
Ordered(items, pairs) ==
  \A i, j \in DOMAIN items :
    i < j /\ <<items[j].command, items[i].command>> \in pairs =>
      items[i].status = "needs_review"

(* With a command, all that were captured before it.                       *)
Closed(items, pairs) ==
  \A i \in DOMAIN items, d \in Commands :
    <<d, items[i].command>> \in pairs => Holds(items, d)

(* What is true of every copy of the queue.                                *)
Sound(items, done, pairs) ==
  /\ items \in Seq(Item)
  /\ Distinct(items)
  /\ \A i \in DOMAIN items : items[i].status = "recorded" => items[i].command \in done
  /\ \A i \in DOMAIN items : items[i].altered => items[i].status = "needs_review"
  /\ Ordered(items, pairs)
  /\ Closed(items, pairs)

(* The uploads of a command are counted in the item that may be sent.      *)
Counted(items, uploads) ==
  \A i \in DOMAIN items :
    items[i].status # "needs_review" => uploads[items[i].command] <= items[i].attempts

(* What one copy has settled another has settled, or put to review.        *)
Upheld(items, others) ==
  \A i \in DOMAIN items : Terminal(items[i]) =>
    \E j \in DOMAIN others :
      /\ others[j].command = items[i].command
      /\ others[j].status \in {items[i].status, "needs_review"}

Copies ==
  /\ Sound(queue, recorded, before)
  /\ Sound(saved, recorded, before)
  /\ Sound(backup, recorded, before)
Store ==
  /\ Within(saved, queue) /\ Within(backup, saved)
  /\ Counted(queue, sent) /\ Counted(saved, sent)
  /\ Upheld(saved, queue)
Sending ==
  /\ \A r \in requests : ~r.altered /\ sent[r.command] > 0
  /\ \A c \in recorded : sent[c] > 0
  /\ \A c \in Commands : <<c, "recorded">> \in answers => c \in recorded
  /\ \A c \in Commands : sent[c] > 0 => Holds(saved, c)
  /\ \A c \in Commands : sent[c] <= MaxAttempts
Order ==
  \A d, c \in Commands : <<d, c>> \in before =>
    /\ d # c /\ Holds(queue, c)
    /\ Job[d] = Job[c] /\ sent[c] > 0 => d \in recorded

IInv == TypeOK /\ Copies /\ Store /\ Sending /\ Order

-----------------------------------------------------------------------------
(* The helpers.                                                            *)

LEMMA LeastNumber ==
  ASSUME NEW T, T \subseteq Nat, T # {}
  PROVE  \E n \in T : \A m \in T : n <= m
<1>1. PICK n \in T : \A m \in T : ~(<<m, n>> \in OpToRel(<, Nat))
  BY NatLessThanWellFounded, WFMin, Zenon
<1>2. \A m \in T : m \in Nat /\ n \in Nat
  OBVIOUS
<1>3. \A m \in T : ~(m < n)
  BY <1>1, <1>2, Zenon DEF OpToRel
<1> QED
  BY <1>2, <1>3

LEMMA IndexHolds ==
  ASSUME NEW items, NEW c, Holds(items, c)
  PROVE  IndexOf(items, c) \in DOMAIN items /\ items[IndexOf(items, c)].command = c
BY DEF Holds, IndexOf

LEMMA MergedIs ==
  ASSUME NEW old \in Item, NEW new \in Item,
         old.status # "sending", new.status # "sending"
  PROVE  LET item == Merged(old, new)
         IN  /\ item \in Item
             /\ item.command = old.command /\ item.altered = old.altered
             /\ item.status # "sending"
             /\ item.status = "recorded" => "recorded" \in {old.status, new.status}
             /\ item.status # "needs_review" =>
                  /\ old.status # "needs_review" /\ new.status # "needs_review"
                  /\ old.altered = new.altered
                  /\ old.attempts <= item.attempts /\ new.attempts <= item.attempts
             /\ "recorded" \in {old.status, new.status} => Terminal(item)
<1> USE OfflineQueueAssumption DEF Item, Merged, MergedStatus, Terminal
<1>1. CASE old.altered # new.altered
  BY <1>1
<1>2. CASE old.altered = new.altered
  <2> DEFINE status == MergedStatus(old.status, new.status)
             attempts == IF new.attempts > old.attempts THEN new.attempts ELSE old.attempts
  <2>1. /\ status \in {"queued", "recorded", "needs_review"}
        /\ status = "recorded" => "recorded" \in {old.status, new.status}
        /\ status # "needs_review" =>
             old.status # "needs_review" /\ new.status # "needs_review"
        /\ "recorded" \in {old.status, new.status} => status # "queued"
    OBVIOUS
  <2>2. /\ attempts \in 0..MaxAttempts
        /\ old.attempts <= attempts /\ new.attempts <= attempts
    OBVIOUS
  <2>3. (old.delayed \/ new.delayed) \in BOOLEAN
    OBVIOUS
  <2> HIDE DEF status, attempts
  <2>4. Merged(old, new) = [old EXCEPT !.status = status, !.attempts = attempts,
                                       !.delayed = old.delayed \/ new.delayed]
    BY <1>2 DEF status, attempts
  <2> QED
    BY <1>2, <2>1, <2>2, <2>3, <2>4, ZenonT(40)
<1> QED
  BY <1>1, <1>2

LEMMA RecoveredIs ==
  ASSUME NEW entry \in Item
  PROVE  /\ Recovered(entry) \in Item
         /\ Recovered(entry) = [entry EXCEPT !.status = Recovered(entry).status]
         /\ Recovered(entry).status # "sending"
         /\ \A s \in {"recorded", "needs_review"} :
              Recovered(entry).status = s <=> entry.status = s
BY DEF Item, Recovered

-----------------------------------------------------------------------------
(* What a restoration makes of the entries it finds.                       *)

(* items after the first n entries were taken in.                          *)
FromEntries(items, entries, n) ==
  /\ items \in Seq(Item)
  /\ Distinct(items)
  /\ \A m \in 1..n : Holds(items, entries[m].command)
  /\ \A i \in DOMAIN items : \E m \in 1..n : entries[m].command = items[i].command
Settles(items, entries, n) ==
  \A i \in DOMAIN items :
    /\ items[i].status # "sending"
    /\ items[i].status = "recorded" =>
         \E m \in 1..n :
           entries[m].command = items[i].command /\ entries[m].status = "recorded"
    /\ \A m \in 1..n : entries[m].command = items[i].command =>
         /\ entries[m].status = "recorded" => Terminal(items[i])
         /\ items[i].status # "needs_review" =>
              /\ entries[m].status # "needs_review"
              /\ entries[m].altered = items[i].altered
              /\ entries[m].attempts <= items[i].attempts
KeepsOrder(items, entries, n) ==
  \A i, j \in DOMAIN items : i < j =>
    \E m \in 1..n :
      /\ entries[m].command = items[i].command
      /\ \A k \in 1..m : entries[k].command # items[j].command
FoldedUpTo(items, entries, n) ==
  /\ FromEntries(items, entries, n)
  /\ Settles(items, entries, n)
  /\ KeepsOrder(items, entries, n)

(* A command not held yet is appended.                                     *)
LEMMA TakeInNew ==
  ASSUME NEW entries \in Seq(Item), NEW n \in 1..Len(entries), NEW items,
         FoldedUpTo(items, entries, n - 1), ~Holds(items, entries[n].command)
  PROVE  FoldedUpTo(TakeIn(items, entries[n]), entries, n)
<1> DEFINE e == entries[n]
           item == Recovered(e)
           new == Append(items, item)
<1> USE DEF FoldedUpTo, FromEntries
<1>1. e \in Item /\ n \in Nat \ {0}
  OBVIOUS
<1>2. /\ item \in Item /\ item.command = e.command
      /\ item.status # "sending" /\ item.altered = e.altered /\ item.attempts = e.attempts
      /\ item.status = "recorded" <=> e.status = "recorded"
      /\ item.status = "needs_review" <=> e.status = "needs_review"
  BY <1>1, RecoveredIs, SMTT(30) DEF Item
<1>3. TakeIn(items, e) = new
  BY <1>2 DEF TakeIn, Added
<1>4. /\ new \in Seq(Item) /\ Len(new) = Len(items) + 1
      /\ new[Len(items) + 1] = item
      /\ \A i \in DOMAIN items : new[i] = items[i]
      /\ DOMAIN new = DOMAIN items \cup {Len(items) + 1}
      /\ DOMAIN items = 1..Len(items)
      /\ Len(items) \in Nat
  BY <1>2
<1>5. \A m \in 1..n : m \in 1..(n - 1) \/ m = n
  BY <1>1
<1>6. \A m \in 1..(n - 1) : m \in 1..n
  BY <1>1
<1>7. \A i \in DOMAIN items : items[i].command # e.command
  BY DEF Holds
<1>8. \A m \in 1..(n - 1) : entries[m].command # e.command
  BY <1>7 DEF Holds
<1> HIDE DEF e, item, new
<1>9. FromEntries(new, entries, n)
  <2>1. Distinct(new)
    BY <1>2, <1>4, <1>7 DEF Distinct
  <2>2. ASSUME NEW m \in 1..n
        PROVE  Holds(new, entries[m].command)
    <3>1. CASE m = n
      BY <1>2, <1>4, <3>1 DEF Holds, e
    <3>2. CASE m \in 1..(n - 1)
      BY <1>4, <3>2, ZenonT(40) DEF Holds
    <3> QED
      BY <1>5, <3>1, <3>2
  <2>3. \A i \in DOMAIN new : \E m \in 1..n : entries[m].command = new[i].command
    BY <1>1, <1>2, <1>4, <1>6, SMTT(30) DEF e
  <2> QED
    BY <1>4, <2>1, <2>2, <2>3
<1>10. Settles(new, entries, n)
  <2>1. ASSUME NEW i \in DOMAIN items
        PROVE  /\ new[i].status # "sending"
               /\ new[i].status = "recorded" =>
                    \E m \in 1..n :
                      entries[m].command = new[i].command /\ entries[m].status = "recorded"
               /\ \A m \in 1..n : entries[m].command = new[i].command =>
                    /\ entries[m].status = "recorded" => Terminal(new[i])
                    /\ new[i].status # "needs_review" =>
                         /\ entries[m].status # "needs_review"
                         /\ entries[m].altered = new[i].altered
                         /\ entries[m].attempts <= new[i].attempts
    BY <1>4, <1>5, <1>6, <1>7 DEF Settles, e
  <2>2. ASSUME NEW m \in 1..n, entries[m].command = item.command
        PROVE  m = n
    BY <1>2, <1>5, <1>8, <2>2
  <2>3. e.attempts <= e.attempts
    BY <1>1 DEF Item
  <2> QED
    BY <1>1, <1>2, <1>4, <2>1, <2>2, <2>3 DEF Settles, Terminal, e
<1>11. KeepsOrder(new, entries, n)
  <2> SUFFICES ASSUME NEW i \in DOMAIN new, NEW j \in DOMAIN new, i < j
               PROVE  \E m \in 1..n :
                        /\ entries[m].command = new[i].command
                        /\ \A k \in 1..m : entries[k].command # new[j].command
    BY DEF KeepsOrder
  <2>1. i \in DOMAIN items
    BY <1>4
  <2>2. CASE j \in DOMAIN items
    <3>1. PICK m \in 1..(n - 1) :
            /\ entries[m].command = items[i].command
            /\ \A k \in 1..m : entries[k].command # items[j].command
      BY <2>1, <2>2 DEF KeepsOrder
    <3> QED
      BY <1>4, <1>6, <2>1, <2>2, <3>1
  <2>3. CASE j = Len(items) + 1
    <3>1. PICK m \in 1..(n - 1) : entries[m].command = new[i].command
      BY <1>4, <2>1
    <3>2. \A k \in 1..m : k \in 1..(n - 1)
      BY <1>1
    <3> QED
      BY <1>2, <1>4, <1>6, <1>8, <2>3, <3>1, <3>2
  <2> QED
    BY <1>4, <2>2, <2>3
<1> QED
  BY <1>3, <1>9, <1>10, <1>11 DEF e

(* A command held already is merged with its entry.                        *)
LEMMA TakeInHeld ==
  ASSUME NEW entries \in Seq(Item), NEW n \in 1..Len(entries), NEW items,
         FoldedUpTo(items, entries, n - 1), Holds(items, entries[n].command)
  PROVE  FoldedUpTo(TakeIn(items, entries[n]), entries, n)
<1> DEFINE e == entries[n]
           h == IndexOf(items, e.command)
           new == TakeIn(items, e)
<1> USE DEF FoldedUpTo, FromEntries
<1>1. e \in Item /\ n \in Nat \ {0}
  OBVIOUS
<1>2. h \in DOMAIN items /\ items[h].command = e.command
  BY IndexHolds
<1>3. new = [items EXCEPT ![h] = Merged(@, Recovered(e))]
  BY DEF TakeIn
<1>4. items[h] \in Item /\ items[h].status # "sending"
  BY <1>2 DEF Settles
<1>5. /\ Recovered(e) \in Item /\ Recovered(e).status # "sending"
      /\ Recovered(e).altered = e.altered /\ Recovered(e).attempts = e.attempts
      /\ Recovered(e).status = "recorded" <=> e.status = "recorded"
      /\ Recovered(e).status = "needs_review" <=> e.status = "needs_review"
  BY <1>1, RecoveredIs DEF Item
<1> DEFINE item == Merged(items[h], Recovered(e))
<1>6. /\ item \in Item
      /\ item.command = e.command /\ item.altered = items[h].altered
      /\ item.status # "sending"
      /\ item.status = "recorded" => "recorded" \in {items[h].status, e.status}
      /\ item.status # "needs_review" =>
           /\ items[h].status # "needs_review" /\ e.status # "needs_review"
           /\ items[h].altered = e.altered
           /\ items[h].attempts <= item.attempts /\ e.attempts <= item.attempts
      /\ "recorded" \in {items[h].status, e.status} => Terminal(item)
  BY <1>2, <1>4, <1>5, MergedIs
<1> HIDE DEF item
<1>7. /\ new \in Seq(Item) /\ Len(new) = Len(items) /\ DOMAIN new = DOMAIN items
      /\ new[h] = item
      /\ \A i \in DOMAIN items : i # h => new[i] = items[i]
  BY <1>2, <1>3, <1>6 DEF item
<1>8. \A i \in DOMAIN items : new[i].command = items[i].command
  BY <1>2, <1>6, <1>7
<1>9. \A m \in 1..n : m \in 1..(n - 1) \/ m = n
  BY <1>1
<1>10. \A m \in 1..(n - 1) : m \in 1..n
  BY <1>1
<1> HIDE DEF e, h, new
<1>11. FromEntries(new, entries, n)
  <2>1. Distinct(new)
    BY <1>7, <1>8 DEF Distinct
  <2>2. ASSUME NEW m \in 1..n
        PROVE  Holds(new, entries[m].command)
    <3>1. CASE m = n
      BY <1>2, <1>7, <1>8, <3>1 DEF Holds, e
    <3>2. CASE m \in 1..(n - 1)
      BY <1>7, <1>8, <3>2 DEF Holds
    <3> QED
      BY <1>9, <3>1, <3>2
  <2>3. \A i \in DOMAIN new : \E m \in 1..n : entries[m].command = new[i].command
    BY <1>7, <1>8, <1>10
  <2> QED
    BY <1>7, <2>1, <2>2, <2>3
<1>12. Settles(new, entries, n)
  <2> DEFINE Good(i) ==
               /\ new[i].status # "sending"
               /\ new[i].status = "recorded" =>
                    \E m \in 1..n :
                      entries[m].command = new[i].command /\ entries[m].status = "recorded"
               /\ \A m \in 1..n : entries[m].command = new[i].command =>
                    /\ entries[m].status = "recorded" => Terminal(new[i])
                    /\ new[i].status # "needs_review" =>
                         /\ entries[m].status # "needs_review"
                         /\ entries[m].altered = new[i].altered
                         /\ entries[m].attempts <= new[i].attempts
  <2>1. ASSUME NEW i \in DOMAIN items, i # h
        PROVE  Good(i)
    <3>1. items[i].command # e.command
      BY <1>2, <2>1 DEF Distinct
    <3>2. ASSUME NEW m \in 1..n, entries[m].command = items[i].command
          PROVE  m \in 1..(n - 1)
      BY <1>9, <3>1, <3>2 DEF e
    <3> QED
      BY <1>7, <1>10, <2>1, <3>2 DEF Settles
  <2>2. Good(h)
    <3>1. item.status = "recorded" =>
            \E m \in 1..n : entries[m].command = item.command /\ entries[m].status = "recorded"
      BY <1>1, <1>2, <1>6, <1>10 DEF Settles, e
    <3>2. ASSUME NEW m \in 1..n, entries[m].command = item.command
          PROVE  /\ entries[m].status = "recorded" => Terminal(item)
                 /\ item.status # "needs_review" =>
                      /\ entries[m].status # "needs_review"
                      /\ entries[m].altered = item.altered
                      /\ entries[m].attempts <= item.attempts
      <4>1. CASE m = n
        BY <1>6, <4>1 DEF e
      <4>2. CASE m \in 1..(n - 1)
        <5>1. entries[m] \in Item
          BY <1>1
        <5>2. /\ entries[m].status = "recorded" => Terminal(items[h])
              /\ items[h].status # "needs_review" =>
                   /\ entries[m].status # "needs_review"
                   /\ entries[m].altered = items[h].altered
                   /\ entries[m].attempts <= items[h].attempts
          BY <1>2, <1>6, <3>2, <4>2 DEF Settles
        <5>3. /\ entries[m].attempts \in Nat /\ items[h].attempts \in Nat
              /\ item.attempts \in Nat
          BY <1>4, <1>6, <5>1, SMTT(30) DEF Item
        <5> QED
          BY <1>6, <5>2, <5>3 DEF Terminal
      <4> QED
        BY <1>9, <4>1, <4>2
    <3> QED
      BY <1>6, <1>7, <3>1, <3>2
  <2> QED
    BY <1>7, <2>1, <2>2 DEF Settles
<1>13. KeepsOrder(new, entries, n)
  BY <1>7, <1>8, <1>10, SMTT(30) DEF KeepsOrder
<1> QED
  BY <1>11, <1>12, <1>13 DEF e, new

(* The recursion has a solution: the least length without one has none.    *)
LEMMA RestoredUnfolds ==
  ASSUME NEW entries \in Seq(Item)
  PROVE  \E items :
           /\ items[0] = <<>>
           /\ \A n \in 1..Len(entries) : items[n] = TakeIn(items[n - 1], entries[n])
           /\ Restored(entries) = items[Len(entries)]
<1> DEFINE Unfolding(items, N) ==
             items = [n \in 0..N |-> IF n = 0 THEN <<>> ELSE TakeIn(items[n - 1], entries[n])]
           L == Len(entries)
           Bad == {N \in 0..L : ~ \E items : Unfolding(items, N)}
<1>1. L \in Nat
  OBVIOUS
<1>2. Bad = {}
  <2> SUFFICES ASSUME Bad # {} PROVE FALSE
    OBVIOUS
  <2>1. PICK N \in Bad : \A m \in Bad : N <= m
    <3>1. Bad \subseteq Nat
      <4> HIDE DEF Unfolding
      <4> QED
        BY <1>1
    <3> HIDE DEF Bad
    <3> QED
      BY <3>1, LeastNumber
  <2>2. CASE N = 0
    <3>1. Unfolding([n \in 0..0 |-> <<>>], 0)
      BY DEF TakeIn
    <3> QED
      BY <2>1, <2>2, <3>1
  <2>3. CASE N # 0
    <3>1. N \in 1..L /\ N - 1 \in 0..L /\ N - 1 \notin Bad
      <4> HIDE DEF Unfolding
      <4>1. N \in 0..L
        BY <2>1
      <4>2. N \in 1..L /\ N - 1 \in 0..L /\ ~(N <= N - 1)
        BY <1>1, <2>3, <4>1
      <4> HIDE DEF Bad
      <4> QED
        BY <2>1, <4>2
    <3>2. PICK shorter : Unfolding(shorter, N - 1)
      BY <3>1
    <3> DEFINE items == [n \in 0..N |-> IF n < N THEN shorter[n]
                                        ELSE TakeIn(shorter[N - 1], entries[N])]
    <3>3. ASSUME NEW n \in 0..N
          PROVE  items[n] = IF n = 0 THEN <<>> ELSE TakeIn(items[n - 1], entries[n])
      <4>1. CASE n < N
        <5>1. n \in 0..(N - 1)
          BY <3>1, <4>1
        <5>2. shorter[n] = IF n = 0 THEN <<>> ELSE TakeIn(shorter[n - 1], entries[n])
          BY <3>2, <5>1
        <5>3. n # 0 => n - 1 \in 0..N /\ n - 1 < N /\ items[n - 1] = shorter[n - 1]
          BY <3>1, <4>1
        <5>4. items[n] = shorter[n]
          BY <4>1
        <5> QED
          BY <5>2, <5>3, <5>4
      <4>2. CASE n = N
        <5>1. n # 0 /\ n - 1 \in 0..N /\ n - 1 < N
          BY <3>1, <4>2
        <5>2. items[n - 1] = shorter[n - 1]
          BY <5>1
        <5>3. items[n] = TakeIn(shorter[N - 1], entries[N])
          BY <3>1, <4>2
        <5> QED
          BY <4>2, <5>1, <5>2, <5>3
      <4> QED
        BY <3>1, <4>1, <4>2
    <3>4. Unfolding(items, N)
      <4> DEFINE unfolded == [n \in 0..N |-> IF n = 0 THEN <<>>
                                             ELSE TakeIn(items[n - 1], entries[n])]
      <4>1. \A n \in 0..N : items[n] = unfolded[n]
        BY <3>3
      <4>2. DOMAIN items = 0..N /\ DOMAIN unfolded = 0..N
        OBVIOUS
      <4>3. items = [n \in 0..N |-> items[n]] /\ unfolded = [n \in 0..N |-> unfolded[n]]
        OBVIOUS
      <4> HIDE DEF items, unfolded
      <4>4. items = unfolded
        BY <4>1, <4>3
      <4> QED
        BY <4>4 DEF unfolded
    <3> QED
      BY <2>1, <3>4
  <2> QED
    BY <2>2, <2>3
<1>3. \E items : Unfolding(items, L)
  BY <1>1, <1>2
<1> DEFINE items == CHOOSE items : Unfolding(items, L)
<1>4. Unfolding(items, L)
  BY <1>3
<1>5. Restored(entries) = items[L]
  BY DEF Restored
<1> HIDE DEF items
<1>6. items[0] = <<>>
  BY <1>1, <1>4
<1>7. ASSUME NEW n \in 1..L
      PROVE  items[n] = TakeIn(items[n - 1], entries[n])
  <2>1. n \in 0..L /\ n # 0
    BY <1>1
  <2> QED
    BY <1>4, <2>1
<1> QED
  BY <1>5, <1>6, <1>7

(* A restored queue is what the taking in of all the entries makes.        *)
LEMMA RestoredIsFolded ==
  ASSUME NEW entries \in Seq(Item)
  PROVE  FoldedUpTo(Restored(entries), entries, Len(entries))
<1> DEFINE L == Len(entries)
<1>1. PICK items :
        /\ items[0] = <<>>
        /\ \A n \in 1..L : items[n] = TakeIn(items[n - 1], entries[n])
        /\ Restored(entries) = items[L]
  BY RestoredUnfolds
<1> DEFINE Bad == {n \in 0..L : ~FoldedUpTo(items[n], entries, n)}
<1>2. Bad = {}
  <2> SUFFICES ASSUME Bad # {} PROVE FALSE
    OBVIOUS
  <2>1. PICK n \in Bad : \A m \in Bad : n <= m
    <3>1. Bad \subseteq Nat
      OBVIOUS
    <3> HIDE DEF Bad
    <3> QED
      BY <3>1, LeastNumber
  <2>2. CASE n = 0
    <3>1. FoldedUpTo(<<>>, entries, 0)
      BY DEF FoldedUpTo, FromEntries, Settles, KeepsOrder, Distinct
    <3> QED
      BY <1>1, <2>1, <2>2, <3>1
  <2>3. CASE n # 0
    <3>1. n \in 1..L /\ n - 1 \in 0..L
      BY <2>1, <2>3
    <3>2. FoldedUpTo(items[n - 1], entries, n - 1)
      BY <2>1, <3>1
    <3>3. FoldedUpTo(TakeIn(items[n - 1], entries[n]), entries, n)
      BY <3>1, <3>2, TakeInNew, TakeInHeld
    <3> QED
      BY <1>1, <2>1, <3>1, <3>3
  <2> QED
    BY <2>2, <2>3
<1> QED
  BY <1>1, <1>2

-----------------------------------------------------------------------------
(* Steps that change items where they stand.                               *)

Revises(new, items, done) ==
  /\ new \in Seq(Item) /\ Len(new) = Len(items)
  /\ \A i \in DOMAIN items :
       /\ new[i].command = items[i].command /\ new[i].altered = items[i].altered
       /\ items[i].attempts <= new[i].attempts
       /\ Terminal(items[i]) => new[i].status = items[i].status
       /\ new[i].status = "recorded" => new[i].command \in done

LEMMA RevisedHolds ==
  ASSUME NEW items \in Seq(Item), NEW new, NEW done, Revises(new, items, done)
  PROVE  /\ DOMAIN new = DOMAIN items
         /\ \A c : Holds(new, c) <=> Holds(items, c)
         /\ \A i \in DOMAIN items :
              new[i].command = items[i].command /\ items[i] \in Item /\ new[i] \in Item
<1>1. DOMAIN new = DOMAIN items
  BY DEF Revises
<1> QED
  BY <1>1 DEF Revises, Holds

LEMMA RevisedIsSound ==
  ASSUME NEW items, NEW new, NEW done, NEW pairs,
         Sound(items, done, pairs), Revises(new, items, done)
  PROVE  Sound(new, done, pairs)
<1> USE DEF Sound
<1>1. /\ DOMAIN new = DOMAIN items
      /\ \A c : Holds(new, c) <=> Holds(items, c)
      /\ \A i \in DOMAIN items : new[i].command = items[i].command
  BY RevisedHolds
<1>2. \A i \in DOMAIN items :
        /\ items[i].status = "needs_review" => new[i].status = "needs_review"
        /\ new[i].altered = items[i].altered
        /\ new[i].status = "recorded" => new[i].command \in done
  BY DEF Revises, Terminal
<1>3. Distinct(new)
  BY <1>1 DEF Distinct
<1>4. Ordered(new, pairs)
  BY <1>1, <1>2 DEF Ordered
<1>5. Closed(new, pairs)
  BY <1>1 DEF Closed
<1> QED
  BY <1>1, <1>2, <1>3, <1>4, <1>5 DEF Revises

LEMMA RevisedIsCounted ==
  ASSUME NEW items \in Seq(Item), NEW new, NEW done, NEW uploads \in [Commands -> Nat],
         Counted(items, uploads), Revises(new, items, done)
  PROVE  Counted(new, uploads)
<1>1. DOMAIN new = DOMAIN items
  BY DEF Revises
<1> SUFFICES ASSUME NEW i \in DOMAIN items, new[i].status # "needs_review"
             PROVE  uploads[new[i].command] <= new[i].attempts
  BY <1>1 DEF Counted
<1>2. items[i].status # "needs_review" /\ new[i].command = items[i].command
  BY DEF Revises, Terminal
<1>3. items[i].attempts \in Nat /\ new[i].attempts \in Nat /\ items[i].command \in Commands
  <2>1. items[i] \in Item /\ new[i] \in Item
    BY <1>1 DEF Revises
  <2> QED
    BY <2>1, OfflineQueueAssumption DEF Item
<1>4. uploads[items[i].command] <= items[i].attempts /\ items[i].attempts <= new[i].attempts
  BY <1>2 DEF Counted, Revises
<1>5. uploads[items[i].command] \in Nat
  BY <1>3
<1> QED
  BY <1>2, <1>3, <1>4, <1>5

LEMMA RevisedUpholds ==
  ASSUME NEW items \in Seq(Item), NEW new, NEW done, NEW copy,
         Upheld(copy, items), Revises(new, items, done)
  PROVE  Upheld(copy, new)
<1>1. DOMAIN new = DOMAIN items
  BY DEF Revises
<1> SUFFICES ASSUME NEW i \in DOMAIN copy, Terminal(copy[i])
             PROVE  \E j \in DOMAIN new :
                      /\ new[j].command = copy[i].command
                      /\ new[j].status \in {copy[i].status, "needs_review"}
  BY DEF Upheld
<1>2. PICK j \in DOMAIN items :
        /\ items[j].command = copy[i].command
        /\ items[j].status \in {copy[i].status, "needs_review"}
  BY DEF Upheld
<1>3. Terminal(items[j])
  BY <1>2 DEF Terminal
<1> QED
  BY <1>1, <1>2, <1>3 DEF Revises

LEMMA SoundGrows ==
  ASSUME NEW items, NEW done, NEW pairs, NEW more, NEW others,
         Sound(items, done, pairs), done \subseteq more,
         \A i \in DOMAIN items, d \in Commands :
           <<d, items[i].command>> \in others => <<d, items[i].command>> \in pairs
  PROVE  Sound(items, more, others)
<1>1. \A i \in DOMAIN items : items[i].command \in Commands
  <2>1. \A i \in DOMAIN items : items[i] \in Item
    BY DEF Sound
  <2> QED
    BY <2>1 DEF Item
<1>2. Ordered(items, others)
  BY <1>1 DEF Sound, Ordered
<1>3. Closed(items, others)
  BY <1>1 DEF Sound, Closed
<1> QED
  BY <1>2, <1>3 DEF Sound

(* A copy is at least as final as itself.                                  *)
LEMMA UpheldBySelf ==
  ASSUME NEW items
  PROVE  Upheld(items, items) /\ Within(items, items)
BY DEF Upheld, Within, Holds

LEMMA CheckedRevises ==
  ASSUME NEW items \in Seq(Item), NEW done,
         \A i \in DOMAIN items : items[i].status = "recorded" => items[i].command \in done
  PROVE  /\ Revises(Checked(items), items, done)
         /\ \A i \in DOMAIN items :
              Checked(items)[i].status = "queued" => Checked(items)[i].attempts < MaxAttempts
<1>1. ASSUME NEW i \in DOMAIN items
      PROVE  /\ items[i] \in Item
             /\ Checked(items)[i] \in Item
             /\ Checked(items)[i].command = items[i].command
             /\ Checked(items)[i].altered = items[i].altered
             /\ Checked(items)[i].attempts = items[i].attempts
             /\ Terminal(items[i]) => Checked(items)[i].status = items[i].status
             /\ Checked(items)[i].status = "recorded" => items[i].status = "recorded"
             /\ Checked(items)[i].status = "queued" => Checked(items)[i].attempts < MaxAttempts
  <2>1. /\ items[i] \in Item
        /\ Checked(items)[i] = IF Exhausted(items[i])
                                 THEN [items[i] EXCEPT !.status = "needs_review"]
                                 ELSE items[i]
    BY DEF Checked
  <2>2. CASE Exhausted(items[i])
    BY <2>1, <2>2 DEF Exhausted, Terminal, Item
  <2>3. CASE ~Exhausted(items[i])
    BY <2>1, <2>3, OfflineQueueAssumption DEF Exhausted, Item
  <2> QED
    BY <2>2, <2>3
<1>2. \A i \in DOMAIN items : items[i].attempts <= Checked(items)[i].attempts
  BY <1>1, OfflineQueueAssumption DEF Item
<1>3. Checked(items) \in Seq(Item) /\ Len(Checked(items)) = Len(items)
  <2>1. DOMAIN items = 1..Len(items) /\ Len(items) \in Nat /\ DOMAIN Checked(items) = DOMAIN items
    BY DEF Checked
  <2>2. Checked(items) = [i \in 1..Len(items) |-> Checked(items)[i]]
    BY <2>1 DEF Checked
  <2> QED
    BY <1>1, <2>1, <2>2
<1> QED
  BY <1>1, <1>2, <1>3 DEF Revises

LEMMA DueRevises ==
  ASSUME NEW items \in Seq(Item), NEW done,
         \A i \in DOMAIN items : items[i].status = "recorded" => items[i].command \in done
  PROVE  Revises(Due(items), items, done) /\ Revises(items, Due(items), done)
<1>1. ASSUME NEW i \in DOMAIN items
      PROVE  /\ items[i] \in Item
             /\ Due(items)[i] \in Item
             /\ Due(items)[i].command = items[i].command
             /\ Due(items)[i].altered = items[i].altered
             /\ Due(items)[i].attempts = items[i].attempts
             /\ Due(items)[i].status = items[i].status
  <2>1. items[i] \in Item /\ Due(items)[i] = [items[i] EXCEPT !.delayed = FALSE]
    BY DEF Due
  <2> QED
    BY <2>1 DEF Item
<1>2. \A i \in DOMAIN items : items[i].attempts <= items[i].attempts
  BY <1>1, OfflineQueueAssumption DEF Item
<1>3. DOMAIN items = 1..Len(items) /\ Len(items) \in Nat /\ DOMAIN Due(items) = DOMAIN items
  BY DEF Due
<1>4. Due(items) \in Seq(Item) /\ Len(Due(items)) = Len(items)
  <2>2. Due(items) = [i \in 1..Len(items) |-> Due(items)[i]]
    BY <1>3 DEF Due
  <2> QED
    BY <1>1, <1>3, <2>2
<1> QED
  BY <1>1, <1>2, <1>3, <1>4 DEF Revises, Terminal

LEMMA AppliedRevises ==
  ASSUME NEW items \in Seq(Item), NEW done, NEW i \in DOMAIN items,
         NEW answer \in Answer \cup {"garbled"},
         \A j \in DOMAIN items : items[j].status = "recorded" => items[j].command \in done,
         answer = "recorded" => items[i].command \in done
  PROVE  Revises([items EXCEPT ![i] = Applied(@, answer)], items, done)
<1> DEFINE new == [items EXCEPT ![i] = Applied(@, answer)]
<1>1. items[i] \in Item
  OBVIOUS
<1>2. /\ Applied(items[i], answer) \in Item
      /\ Applied(items[i], answer).command = items[i].command
      /\ Applied(items[i], answer).altered = items[i].altered
      /\ Applied(items[i], answer).attempts = items[i].attempts
      /\ Terminal(items[i]) => Applied(items[i], answer).status = items[i].status
      /\ Applied(items[i], answer).status = "recorded" =>
           items[i].status = "recorded" \/ answer = "recorded"
  BY <1>1, OfflineQueueAssumption DEF Applied, Item, Answer, Terminal
<1>3. new \in Seq(Item) /\ Len(new) = Len(items) /\ DOMAIN new = DOMAIN items
  BY <1>2
<1>4. \A j \in DOMAIN items : new[j] = IF j = i THEN Applied(items[i], answer) ELSE items[j]
  OBVIOUS
<1>5. \A j \in DOMAIN items : items[j].attempts <= items[j].attempts
  <2>1. \A j \in DOMAIN items : items[j] \in Item
    OBVIOUS
  <2> QED
    BY <2>1, OfflineQueueAssumption DEF Item
<1> HIDE DEF new
<1>6. Revises(new, items, done)
  BY <1>2, <1>3, <1>4, <1>5 DEF Revises
<1> QED
  BY <1>6 DEF new
-----------------------------------------------------------------------------
(* A restart restores what was saved: whatever older copy or stray entry   *)
(* it finds beside it, the items are those of the saved commands.          *)

IsStray(entry) == entry.altered /\ entry.status = "queued" /\ Holds(saved, entry.command)
Segment(found, copy, offset) ==
  \A k \in 1..Len(copy) : offset + k \in 1..Len(found) /\ found[offset + k] = copy[k]
FromCopy(found, copy, m) ==
  \E offset \in Nat : Segment(found, copy, offset) /\ m - offset \in 1..Len(copy)
FoundOnDevice(found) ==
  /\ found \in Seq(Item)
  /\ \A m \in 1..Len(found) :
       IsStray(found[m]) \/ FromCopy(found, saved, m) \/ FromCopy(found, backup, m)
Covers(found) == \A i \in DOMAIN saved : \E m \in 1..Len(found) : found[m] = saved[i]

LEMMA SegmentOfConcatenation ==
  ASSUME NEW s \in Seq(Item), NEW t \in Seq(Item), NEW copy \in Seq(Item), NEW m \in Nat
  PROVE  /\ FromCopy(s, copy, m) => FromCopy(s \o t, copy, m)
         /\ FromCopy(t, copy, m) => FromCopy(s \o t, copy, Len(s) + m)
<1>1. /\ Len(s \o t) = Len(s) + Len(t) /\ Len(s) \in Nat /\ Len(t) \in Nat /\ Len(copy) \in Nat
      /\ \A k \in 1..Len(s) : (s \o t)[k] = s[k]
      /\ \A k \in 1..Len(t) : (s \o t)[Len(s) + k] = t[k]
  OBVIOUS
<1>2. ASSUME NEW o \in Nat, Segment(s, copy, o)
      PROVE  Segment(s \o t, copy, o)
  BY <1>1, <1>2 DEF Segment
<1>3. ASSUME NEW o \in Nat, Segment(t, copy, o)
      PROVE  Segment(s \o t, copy, Len(s) + o)
  <2> SUFFICES ASSUME NEW k \in 1..Len(copy)
               PROVE  /\ Len(s) + o + k \in 1..Len(s \o t)
                      /\ (s \o t)[Len(s) + o + k] = copy[k]
    BY DEF Segment
  <2>1. o + k \in 1..Len(t) /\ t[o + k] = copy[k]
    BY <1>3 DEF Segment
  <2>2. Len(s) + o + k = Len(s) + (o + k)
    BY <1>1
  <2> QED
    BY <1>1, <2>1, <2>2
<1>4. ASSUME FromCopy(t, copy, m)
      PROVE  FromCopy(s \o t, copy, Len(s) + m)
  <2>1. PICK o \in Nat : Segment(t, copy, o) /\ m - o \in 1..Len(copy)
    BY <1>4 DEF FromCopy
  <2>2. Len(s) + o \in Nat /\ (Len(s) + m) - (Len(s) + o) = m - o
    BY <1>1
  <2> QED
    BY <1>3, <2>1, <2>2 DEF FromCopy
<1> QED
  BY <1>2, <1>4 DEF FromCopy

LEMMA FoundConcatenation ==
  ASSUME NEW s, NEW t, FoundOnDevice(s), FoundOnDevice(t), TypeOK
  PROVE  /\ FoundOnDevice(s \o t)
         /\ Covers(s) \/ Covers(t) => Covers(s \o t)
<1> USE DEF FoundOnDevice
<1>1. /\ s \o t \in Seq(Item)
      /\ Len(s \o t) = Len(s) + Len(t) /\ Len(s) \in Nat /\ Len(t) \in Nat
      /\ \A k \in 1..Len(s) : (s \o t)[k] = s[k]
      /\ \A k \in 1..Len(t) : (s \o t)[Len(s) + k] = t[k]
  OBVIOUS
<1>2. saved \in Seq(Item) /\ backup \in Seq(Item)
  BY DEF TypeOK
<1>3. ASSUME NEW m \in 1..Len(s \o t)
      PROVE  \/ IsStray((s \o t)[m])
             \/ FromCopy(s \o t, saved, m) \/ FromCopy(s \o t, backup, m)
  <2>1. CASE m \in 1..Len(s)
    <3>1. m \in Nat
      OBVIOUS
    <3> QED
      BY <1>1, <1>2, <2>1, <3>1, SegmentOfConcatenation
  <2>2. CASE m \notin 1..Len(s)
    <3>1. m - Len(s) \in 1..Len(t) /\ m - Len(s) \in Nat /\ Len(s) + (m - Len(s)) = m
      BY <1>1, <2>2
    <3>2. (s \o t)[m] = t[m - Len(s)]
      BY <1>1, <3>1
    <3> QED
      BY <1>2, <3>1, <3>2, SegmentOfConcatenation
  <2> QED
    BY <2>1, <2>2
<1>4. ASSUME Covers(s) PROVE Covers(s \o t)
  <2>1. \A m \in 1..Len(s) : m \in 1..Len(s \o t)
    BY <1>1
  <2> QED
    BY <1>1, <1>4, <2>1 DEF Covers
<1>5. ASSUME Covers(t) PROVE Covers(s \o t)
  <2>1. \A m \in 1..Len(t) : Len(s) + m \in 1..Len(s \o t)
    BY <1>1
  <2> QED
    BY <1>1, <1>5, <2>1 DEF Covers
<1> QED
  BY <1>1, <1>3, <1>4, <1>5

LEMMA CapturedAltered ==
  ASSUME NEW c \in Commands
  PROVE  LET entry == [Captured(c) EXCEPT !.altered = TRUE]
         IN  /\ entry \in Item /\ entry.altered /\ entry.status = "queued"
             /\ entry.command = c
<1>1. Captured(c) \in Item
  BY OfflineQueueAssumption DEF Item, Captured
<1>2. Captured(c).command = c /\ Captured(c).status = "queued"
  BY DEF Captured
<1> QED
  BY <1>1, <1>2 DEF Item

LEMMA FoundAtRestart ==
  ASSUME TypeOK,
         NEW entries \in {saved, saved \o backup, backup \o saved},
         NEW stray \in Strays \cup {<<>>},
         NEW found \in {entries \o stray, stray \o entries}
  PROVE  FoundOnDevice(found) /\ Covers(found)
<1>1. saved \in Seq(Item) /\ backup \in Seq(Item)
  BY DEF TypeOK
<1>2. FoundOnDevice(saved) /\ Covers(saved) /\ FoundOnDevice(backup)
  <2>1. Segment(saved, saved, 0) /\ Segment(backup, backup, 0)
    BY <1>1 DEF Segment
  <2> QED
    BY <1>1, <2>1 DEF FoundOnDevice, FromCopy, Covers
<1>3. FoundOnDevice(stray)
  <2>1. CASE stray = <<>>
    BY <2>1 DEF FoundOnDevice
  <2>2. CASE stray \in Strays
    <3>1. PICK i \in DOMAIN saved :
            stray = <<[Captured(saved[i].command) EXCEPT !.altered = TRUE]>>
      BY <2>2 DEF Strays, ToSet
    <3> DEFINE entry == [Captured(saved[i].command) EXCEPT !.altered = TRUE]
    <3>2. saved[i].command \in Commands
      <4>1. saved[i] \in Item
        BY <1>1
      <4> QED
        BY <4>1 DEF Item
    <3>3. entry \in Item /\ entry.altered /\ entry.status = "queued"
          /\ entry.command = saved[i].command
      BY <3>2, CapturedAltered
    <3> HIDE DEF entry
    <3>4. entry \in Item /\ IsStray(entry)
      BY <3>3 DEF IsStray, Holds
    <3>5. stray \in Seq(Item) /\ Len(stray) = 1 /\ stray[1] = entry
      BY <3>1, <3>4 DEF entry
    <3> QED
      BY <3>4, <3>5 DEF FoundOnDevice
  <2> QED
    BY <2>1, <2>2
<1>4. FoundOnDevice(entries) /\ Covers(entries)
  BY <1>2, FoundConcatenation
<1> QED
  BY <1>3, <1>4, FoundConcatenation
LEMMA RestartRestores ==
  ASSUME IInv, NEW found, FoundOnDevice(found), Covers(found),
         NEW pairs, pairs \subseteq before,
         \A d, c \in Commands : <<d, c>> \in pairs => Holds(saved, d) /\ Holds(saved, c)
  PROVE  LET items == Restored(found)
         IN  /\ Sound(items, recorded, pairs)
             /\ Counted(items, sent)
             /\ \A c : Holds(items, c) <=> Holds(saved, c)
             /\ Upheld(saved, items)
<1> DEFINE items == Restored(found)
           N == Len(found)
<1>1. /\ found \in Seq(Item) /\ saved \in Seq(Item) /\ backup \in Seq(Item) /\ N \in Nat
      /\ FromEntries(items, found, N) /\ Settles(items, found, N) /\ KeepsOrder(items, found, N)
  BY RestoredIsFolded DEF FoundOnDevice, FoldedUpTo, IInv, TypeOK
<1> HIDE DEF items
<1>2. /\ Sound(saved, recorded, before) /\ Sound(backup, recorded, before)
      /\ Within(backup, saved) /\ Counted(saved, sent)
  BY DEF IInv, Copies, Store
<1>3. ASSUME NEW copy, NEW m \in 1..N, FromCopy(found, copy, m), copy \in Seq(Item)
      PROVE  \E i \in DOMAIN copy :
               /\ found[m] = copy[i]
               /\ \A k \in 1..i : \E l \in 1..m : found[l] = copy[k]
  <2>1. PICK o \in Nat : Segment(found, copy, o) /\ m - o \in 1..Len(copy)
    BY <1>3 DEF FromCopy
  <2>2. o + (m - o) = m /\ DOMAIN copy = 1..Len(copy) /\ Len(copy) \in Nat
    BY <1>3
  <2>3. found[m] = copy[m - o]
    BY <2>1, <2>2 DEF Segment
  <2>4. ASSUME NEW k \in 1..(m - o)
        PROVE  o + k \in 1..m /\ found[o + k] = copy[k]
    <3>1. k \in 1..Len(copy) /\ o + k \in 1..m
      BY <2>1, <2>2
    <3> QED
      BY <2>1, <3>1 DEF Segment
  <2> QED
    BY <2>1, <2>2, <2>3, <2>4
<1>4. \A m \in 1..N : Holds(saved, found[m].command)
  <2> SUFFICES ASSUME NEW m \in 1..N PROVE Holds(saved, found[m].command)
    OBVIOUS
  <2>1. CASE IsStray(found[m])
    BY <2>1 DEF IsStray
  <2>2. CASE FromCopy(found, saved, m)
    BY <1>1, <1>3, <2>2 DEF Holds
  <2>3. CASE FromCopy(found, backup, m)
    BY <1>1, <1>2, <1>3, <2>3 DEF Within
  <2> QED
    BY <2>1, <2>2, <2>3 DEF FoundOnDevice
<1>5. \A c : Holds(items, c) <=> Holds(saved, c)
  <2>1. \A s \in DOMAIN saved : Holds(items, saved[s].command)
    BY <1>1 DEF Covers, FromEntries
  <2>2. \A i \in DOMAIN items : Holds(saved, items[i].command)
    BY <1>1, <1>4 DEF FromEntries
  <2> QED
    BY <2>1, <2>2 DEF Holds
(* An item that may be sent is the saved one, with its budget.             *)
<1>6. ASSUME NEW i \in DOMAIN items, items[i].status # "needs_review"
      PROVE  /\ ~items[i].altered
             /\ sent[items[i].command] <= items[i].attempts
             /\ items[i].status = "recorded" => items[i].command \in recorded
  <2>1. PICK s \in DOMAIN saved : saved[s].command = items[i].command
    BY <1>5 DEF Holds
  <2>2. PICK m \in 1..N : found[m] = saved[s]
    BY DEF Covers
  <2>3. /\ saved[s].status # "needs_review"
        /\ saved[s].altered = items[i].altered
        /\ saved[s].attempts <= items[i].attempts
    BY <1>1, <1>6, <2>1, <2>2 DEF Settles
  <2>4. ~items[i].altered
    BY <1>2, <2>3 DEF Sound
  <2>5. sent[items[i].command] <= items[i].attempts
    <3>1. sent[items[i].command] <= saved[s].attempts
      BY <1>2, <2>1, <2>3 DEF Counted
    <3>2. items[i] \in Item /\ saved[s] \in Item
      BY <1>1 DEF FromEntries
    <3>3. /\ items[i].attempts \in Nat /\ saved[s].attempts \in Nat
          /\ sent[items[i].command] \in Nat
      BY <3>2, OfflineQueueAssumption DEF Item, IInv, TypeOK
    <3> QED
      BY <2>3, <3>1, <3>3
  <2>6. ASSUME items[i].status = "recorded"
        PROVE  items[i].command \in recorded
    <3>1. PICK n \in 1..N :
            found[n].command = items[i].command /\ found[n].status = "recorded"
      BY <1>1, <2>6 DEF Settles
    <3>2. ~IsStray(found[n])
      BY <3>1 DEF IsStray
    <3> QED
      BY <1>1, <1>2, <1>3, <3>1, <3>2 DEF FoundOnDevice, Sound
  <2> QED
    BY <2>4, <2>5, <2>6
<1>7. Upheld(saved, items)
  <2> SUFFICES ASSUME NEW s \in DOMAIN saved, Terminal(saved[s])
               PROVE  \E j \in DOMAIN items :
                        /\ items[j].command = saved[s].command
                        /\ items[j].status \in {saved[s].status, "needs_review"}
    BY DEF Upheld
  <2>1. PICK m \in 1..N : found[m] = saved[s]
    BY DEF Covers
  <2>2. PICK j \in DOMAIN items : items[j].command = saved[s].command
    BY <1>5 DEF Holds
  <2> QED
    BY <1>1, <2>1, <2>2 DEF Settles, Terminal
(* The first entry of the item in front is a stray, or an item of a copy   *)
(* that has the other command behind it.                                   *)
<1>8. Ordered(items, pairs)
  <2> SUFFICES ASSUME NEW i \in DOMAIN items, NEW j \in DOMAIN items, i < j,
                      <<items[j].command, items[i].command>> \in pairs,
                      items[i].status # "needs_review"
               PROVE  FALSE
    BY DEF Ordered
  <2>1. PICK m \in 1..N :
          /\ found[m].command = items[i].command
          /\ \A k \in 1..m : found[k].command # items[j].command
    BY <1>1 DEF KeepsOrder
  <2>2. /\ found[m].status # "needs_review" /\ found[m].altered = items[i].altered
    BY <1>1, <2>1 DEF Settles
  <2>3. ~IsStray(found[m])
    BY <1>6, <2>2 DEF IsStray
  <2>4. ASSUME NEW copy \in Seq(Item), Sound(copy, recorded, before),
               FromCopy(found, copy, m), Holds(copy, items[j].command)
        PROVE  FALSE
    <3>1. PICK k \in DOMAIN copy :
            /\ found[m] = copy[k]
            /\ \A h \in 1..k : \E l \in 1..m : found[l] = copy[h]
      BY <1>3, <2>4
    <3>2. PICK h \in DOMAIN copy : copy[h].command = items[j].command
      BY <2>4 DEF Holds
    <3>3. k < h
      BY <2>1, <3>1, <3>2
    <3> QED
      BY <2>1, <2>2, <2>4, <3>1, <3>2, <3>3 DEF Sound, Ordered
  <2>5. items[j].command \in Commands /\ items[i].command \in Commands
    <3>1. items[j] \in Item /\ items[i] \in Item
      BY <1>1 DEF FromEntries
    <3> QED
      BY <3>1 DEF Item
  <2>6. Holds(saved, items[j].command)
    BY <2>5
  <2>7. ASSUME FromCopy(found, backup, m)
        PROVE  Holds(backup, items[j].command)
    <3>1. \E k \in DOMAIN backup : backup[k].command = items[i].command
      BY <1>1, <1>3, <2>1, <2>7, SMTT(30)
    <3> QED
      BY <1>2, <2>5, <3>1 DEF Sound, Closed
  <2> QED
    BY <1>1, <1>2, <2>3, <2>4, <2>6, <2>7 DEF FoundOnDevice
<1>9. Closed(items, pairs)
  <2>1. \A i \in DOMAIN items : items[i].command \in Commands
    <3>1. \A i \in DOMAIN items : items[i] \in Item
      BY <1>1 DEF FromEntries
    <3> QED
      BY <3>1 DEF Item
  <2> QED
    BY <1>5, <2>1 DEF Closed
<1>10. Sound(items, recorded, pairs)
  BY <1>1, <1>6, <1>8, <1>9 DEF Sound, FromEntries
<1>11. Counted(items, sent)
  BY <1>6 DEF Counted
<1> QED
  BY <1>5, <1>7, <1>10, <1>11 DEF items
-----------------------------------------------------------------------------
(* The invariant, step by step.                                            *)

LEMMA Facts ==
  ASSUME IInv
  PROVE  /\ queue \in Seq(Item) /\ saved \in Seq(Item) /\ backup \in Seq(Item)
         /\ sent \in [Commands -> Nat]
         /\ \A c \in Commands : sent[c] > 0 => Holds(saved, c)
         /\ \A c : Holds(backup, c) => Holds(saved, c)
         /\ \A c : Holds(saved, c) => Holds(queue, c)
         /\ \A c : Holds(queue, c) => c \in Commands
<1>1. /\ queue \in Seq(Item) /\ saved \in Seq(Item) /\ backup \in Seq(Item)
      /\ sent \in [Commands -> Nat]
  BY OfflineQueueAssumption DEF IInv, TypeOK
<1>2. \A i \in DOMAIN queue : queue[i].command \in Commands
  <2>1. \A i \in DOMAIN queue : queue[i] \in Item
    BY <1>1
  <2> QED
    BY <2>1 DEF Item
<1>3. \A c : Holds(queue, c) => c \in Commands
  BY <1>2 DEF Holds
<1>4. /\ \A c : Holds(backup, c) => Holds(saved, c)
      /\ \A c : Holds(saved, c) => Holds(queue, c)
  BY DEF IInv, Store, Within, Holds
<1> QED
  BY <1>1, <1>3, <1>4 DEF IInv, Sending

LEMMA InitInvariant == Init => IInv
<1> SUFFICES ASSUME Init PROVE IInv
  OBVIOUS
<1> USE OfflineQueueAssumption DEF Init
<1>1. TypeOK
  BY DEF TypeOK
<1>2. Sound(<<>>, {}, {})
  BY DEF Sound, Distinct, Ordered, Closed
<1>3. Store
  BY DEF Store, Within, Counted, Upheld
<1>4. Sending /\ Order
  BY DEF Sending, Order
<1> QED
  BY <1>1, <1>2, <1>3, <1>4 DEF IInv, Copies

LEMMA CaptureStep ==
  ASSUME IInv, NEW c \in Commands, Capture(c)
  PROVE  IInv'
<1> DEFINE new == Append(queue, Captured(c))
           n == Len(queue) + 1
<1> USE DEF Capture
<1>1. Captured(c) \in Item /\ Captured(c).command = c /\ ~Captured(c).altered
      /\ Captured(c).status = "queued" /\ Captured(c).attempts = 0
  BY OfflineQueueAssumption DEF Item, Captured
<1>2. queue' = new
  BY <1>1 DEF Added
<1>3. /\ new \in Seq(Item) /\ new[n] = Captured(c)
      /\ DOMAIN new = DOMAIN queue \cup {n} /\ \A i \in DOMAIN queue : new[i] = queue[i] /\ i < n
      /\ n \in Nat
  BY <1>1, Facts
<1> HIDE DEF n, new
<1>4. \A d : Holds(queue', d) <=> Holds(queue, d) \/ d = c
  BY <1>1, <1>2, <1>3 DEF Holds
<1>5. ~Holds(queue, c) /\ ~Holds(saved, c) /\ ~Holds(backup, c) /\ sent[c] = 0
  BY Facts
<1>6. \A d, e \in Commands :
        <<d, e>> \in before' <=> <<d, e>> \in before \/ (e = c /\ Holds(queue, d))
  <2>1. before' = before \cup {<<queue[i].command, c>> : i \in DOMAIN queue}
    BY DEF ToSet
  <2> SUFFICES ASSUME NEW d \in Commands, NEW e \in Commands
               PROVE  <<d, e>> \in before' <=> <<d, e>> \in before \/ (e = c /\ Holds(queue, d))
    OBVIOUS
  <2>2. <<d, e>> \in before' <=>
          <<d, e>> \in before \/ \E i \in DOMAIN queue : <<d, e>> = <<queue[i].command, c>>
    BY <2>1
  <2>3. \A i \in DOMAIN queue :
          <<d, e>> = <<queue[i].command, c>> <=> d = queue[i].command /\ e = c
    OBVIOUS
  <2>4. (\E i \in DOMAIN queue : <<d, e>> = <<queue[i].command, c>>) <=>
          e = c /\ Holds(queue, d)
    BY <2>3, Zenon DEF Holds
  <2> QED
    BY <2>2, <2>4
<1>7. TypeOK'
  <2>1. before' \subseteq Commands \X Commands
    <3>1. \A i \in DOMAIN queue : queue[i].command \in Commands
      BY Facts DEF Holds
    <3> QED
      BY <3>1 DEF ToSet, IInv, TypeOK
  <2> QED
    BY <1>2, <1>3, <2>1 DEF IInv, TypeOK
<1>8. \A i \in DOMAIN queue : queue[i].command \in Commands /\ queue[i].command # c
  BY <1>5, Facts DEF Holds
<1>9. Sound(queue', recorded', before')
  <2>1. Sound(queue, recorded, before)
    BY DEF IInv, Copies
  <2>2. Distinct(new)
    BY <1>1, <1>3, <1>8, <2>1 DEF Sound, Distinct
  <2>3. Ordered(new, before')
    <3> SUFFICES ASSUME NEW i \in DOMAIN new, NEW j \in DOMAIN new, i < j,
                        <<new[j].command, new[i].command>> \in before'
                 PROVE  new[i].status = "needs_review"
      BY DEF Ordered
    <3>1. i \in DOMAIN queue
      BY <1>3
    <3>2. new[j].command \in Commands /\ new[i].command \in Commands /\ new[i].command # c
      BY <1>1, <1>3, <1>8, <3>1
    <3>3. <<new[j].command, new[i].command>> \in before
      BY <1>6, <3>2
    <3>4. Holds(queue, new[j].command)
      BY <1>3, <2>1, <3>1, <3>2, <3>3 DEF Sound, Closed
    <3>5. j \in DOMAIN queue
      BY <1>1, <1>3, <1>5, <3>4
    <3> QED
      BY <1>3, <2>1, <3>1, <3>3, <3>5 DEF Sound, Ordered
  <2>4. Closed(new, before')
    <3> SUFFICES ASSUME NEW i \in DOMAIN new, NEW d \in Commands,
                        <<d, new[i].command>> \in before'
                 PROVE  Holds(queue', d)
      BY <1>2 DEF Closed
    <3>1. new[i].command \in Commands
      BY <1>1, <1>3, <1>8
    <3>2. CASE <<d, new[i].command>> \in before /\ i \in DOMAIN queue
      BY <1>3, <1>4, <2>1, <3>2 DEF Sound, Closed
    <3>3. CASE <<d, new[i].command>> \in before /\ i = n
      BY <1>1, <1>3, <1>5, <3>3 DEF IInv, Order
    <3> QED
      BY <1>3, <1>4, <1>6, <3>1, <3>2, <3>3
  <2>5. \A i \in DOMAIN new :
          /\ new[i].status = "recorded" => new[i].command \in recorded'
          /\ new[i].altered => new[i].status = "needs_review"
    BY <1>1, <1>3, <2>1 DEF Sound
  <2> QED
    BY <1>2, <1>3, <2>2, <2>3, <2>4, <2>5 DEF Sound
<1>10. ASSUME NEW copy, Sound(copy, recorded, before), ~Holds(copy, c)
       PROVE  Sound(copy, recorded', before')
  <2>1. \A i \in DOMAIN copy : copy[i].command # c /\ copy[i].command \in Commands
    <3>1. \A i \in DOMAIN copy : copy[i] \in Item
      BY <1>10 DEF Sound
    <3> QED
      BY <1>10, <3>1 DEF Holds, Item
  <2> QED
    BY <1>6, <1>10, <2>1, SoundGrows
<1>11. Copies'
  BY <1>5, <1>9, <1>10 DEF IInv, Copies
<1>12. Store'
  <2>1. Within(saved, queue')
    BY <1>4 DEF IInv, Store, Within
  <2>2. Counted(queue', sent)
    BY <1>1, <1>2, <1>3, <1>5 DEF IInv, Store, Counted
  <2>3. Upheld(saved, queue')
    BY <1>2, <1>3 DEF IInv, Store, Upheld
  <2> QED
    BY <2>1, <2>2, <2>3 DEF IInv, Store
<1>13. Sending'
  BY DEF IInv, Sending
<1>14. Order'
  BY <1>4, <1>5, <1>6 DEF IInv, Order
<1> QED
  BY <1>7, <1>11, <1>12, <1>13, <1>14 DEF IInv

LEMMA ReceiveStep ==
  ASSUME IInv, NEW c \in Commands, NEW answer \in Answer \cup {"garbled"}, Receive(c, answer)
  PROVE  IInv'
<1> USE DEF Receive
<1>1. /\ IndexOf(queue, c) \in DOMAIN queue /\ queue[IndexOf(queue, c)].command = c
  BY IndexHolds
<1>2. answer = "recorded" => c \in recorded
  BY DEF IInv, Sending
<1>3. /\ Sound(queue, recorded, before)
      /\ \A i \in DOMAIN queue : queue[i].status = "recorded" => queue[i].command \in recorded
  BY DEF IInv, Copies, Sound
<1>4. Revises(queue', queue, recorded)
  BY <1>1, <1>2, <1>3, Facts, AppliedRevises
<1>5. \A d : Holds(queue', d) <=> Holds(queue, d)
  BY <1>4, Facts, RevisedHolds
<1>6. Sound(queue', recorded', before')
  BY <1>3, <1>4, RevisedIsSound
<1>7. TypeOK'
  BY <1>6 DEF IInv, TypeOK, Sound
<1>8. Copies'
  BY <1>6 DEF IInv, Copies
<1>9. Store'
  <2>1. Counted(queue', sent) /\ Upheld(saved, queue')
    BY <1>4, Facts, RevisedIsCounted, RevisedUpholds DEF IInv, Store
  <2>2. Within(saved, queue')
    BY <1>5 DEF IInv, Store, Within
  <2> QED
    BY <2>1, <2>2 DEF IInv, Store
<1>10. Sending'
  BY DEF IInv, Sending
<1>11. Order'
  BY <1>5 DEF IInv, Order
<1> QED
  BY <1>7, <1>8, <1>9, <1>10, <1>11 DEF IInv

LEMMA FallDueStep ==
  ASSUME IInv, FallDue
  PROVE  IInv'
<1> USE DEF FallDue
<1>1. ASSUME NEW items, Sound(items, recorded, before)
      PROVE  /\ Revises(Due(items), items, recorded)
             /\ Sound(Due(items), recorded, before)
             /\ \A c : Holds(Due(items), c) <=> Holds(items, c)
  <2>1. Revises(Due(items), items, recorded)
    BY <1>1, DueRevises DEF Sound
  <2> QED
    BY <1>1, <2>1, RevisedIsSound, RevisedHolds DEF Sound
<1>2. Copies'
  BY <1>1 DEF IInv, Copies
<1>3. TypeOK'
  BY <1>2 DEF Copies, Sound, IInv, TypeOK
<1>4. \A c : /\ Holds(queue', c) <=> Holds(queue, c)
             /\ Holds(saved', c) <=> Holds(saved, c)
             /\ Holds(backup', c) <=> Holds(backup, c)
  BY <1>1 DEF IInv, Copies
<1>5. Store'
  <2>1. Counted(queue', sent) /\ Counted(saved', sent)
    BY <1>1, Facts, RevisedIsCounted DEF IInv, Copies, Store
  <2>2. Within(saved', queue') /\ Within(backup', saved')
    BY <1>4, Facts DEF Within, Holds
  <2>3. Upheld(saved', queue')
    <3>1. Upheld(saved, queue')
      BY <1>1, Facts, RevisedUpholds DEF IInv, Copies, Store
    <3>2. \A i \in DOMAIN saved' :
            /\ i \in DOMAIN saved
            /\ saved'[i].command = saved[i].command /\ saved'[i].status = saved[i].status
      <4>1. DOMAIN saved' = DOMAIN saved
        BY DEF Due
      <4>2. ASSUME NEW i \in DOMAIN saved
            PROVE  saved'[i].command = saved[i].command /\ saved'[i].status = saved[i].status
        <5>1. saved'[i] = [saved[i] EXCEPT !.delayed = FALSE] /\ saved[i] \in Item
          BY Facts DEF Due
        <5> QED
          BY <5>1 DEF Item
      <4> QED
        BY <4>1, <4>2
    <3> QED
      BY <3>1, <3>2 DEF Upheld, Terminal
  <2> QED
    BY <2>1, <2>2, <2>3 DEF Store
<1>6. Sending'
  BY <1>4 DEF IInv, Sending
<1>7. Order'
  BY <1>4 DEF IInv, Order
<1> QED
  BY <1>2, <1>3, <1>5, <1>6, <1>7 DEF IInv

LEMMA SaveStep ==
  ASSUME IInv, Save \/ Backup
  PROVE  IInv'
<1>1. CASE Save
  <2> USE <1>1 DEF Save
  <2>1. Store'
    <3>1. Within(backup, queue)
      BY Facts DEF Within, Holds
    <3> QED
      BY <3>1, UpheldBySelf DEF IInv, Store
  <2>2. Sending'
    BY Facts DEF IInv, Sending
  <2> QED
    BY <2>1, <2>2 DEF IInv, TypeOK, Copies, Order
<1>2. CASE Backup
  <2> USE <1>2 DEF Backup
  <2>1. Store'
    BY UpheldBySelf DEF IInv, Store
  <2> QED
    BY <2>1 DEF IInv, TypeOK, Copies, Order, Sending
<1> QED
  BY <1>1, <1>2

LEMMA RestartStep ==
  ASSUME IInv, Restart
  PROVE  IInv' /\ Upheld(saved, saved')
<1> USE DEF Restart
<1>1. PICK entries \in {saved, saved \o backup, backup \o saved}, stray \in Strays \cup {<<>>} :
        \E found \in {entries \o stray, stray \o entries} : queue' = Restored(found)
  OBVIOUS
<1>2. PICK found \in {entries \o stray, stray \o entries} : queue' = Restored(found)
  BY <1>1
<1>3. FoundOnDevice(found) /\ Covers(found)
  BY <1>1, <1>2, FoundAtRestart DEF IInv
<1>4. /\ before' \subseteq before
      /\ \A d, c \in Commands :
           <<d, c>> \in before' <=> <<d, c>> \in before /\ Holds(saved, d) /\ Holds(saved, c)
  OBVIOUS
<1>5. /\ Sound(queue', recorded, before')
      /\ Counted(queue', sent)
      /\ \A c : Holds(queue', c) <=> Holds(saved, c)
      /\ Upheld(saved, queue')
  BY <1>2, <1>3, <1>4, RestartRestores
<1>6. Sound(backup, recorded', before')
  <2>1. Sound(backup, recorded, before)
    BY DEF IInv, Copies
  <2> QED
    BY <1>4, <2>1, SoundGrows
<1>7. TypeOK'
  BY <1>4, <1>5 DEF IInv, TypeOK, Sound
<1>8. Copies'
  BY <1>5, <1>6 DEF Copies
<1>9. Store'
  <2>1. Within(backup, saved')
    BY <1>5 DEF IInv, Store, Within
  <2> QED
    BY <1>5, <2>1, UpheldBySelf DEF Store
<1>10. Sending'
  BY <1>5 DEF IInv, Sending
<1>11. Order'
  BY <1>4, <1>5 DEF IInv, Order
<1> QED
  BY <1>5, <1>7, <1>8, <1>9, <1>10, <1>11 DEF IInv

LEMMA ServerStep ==
  ASSUME IInv, NEW r \in requests,
         Refuse(r) \/ Fail(r) \/ \E answer \in Answer : Record(r, answer)
  PROVE  IInv'
<1>1. r.command \in Commands /\ sent[r.command] > 0
  BY DEF IInv, TypeOK, Sending
<1>2. ASSUME Refuse(r) \/ Fail(r)
      PROVE  IInv'
  BY <1>1, <1>2 DEF Refuse, Fail, Answer, IInv, TypeOK, Copies, Store, Sending, Order
<1>3. ASSUME NEW answer \in Answer, Record(r, answer)
      PROVE  IInv'
  <2> USE <1>3 DEF Record
  <2>1. Copies'
    <3>1. recorded \subseteq recorded'
      OBVIOUS
    <3> QED
      BY <3>1, SoundGrows DEF IInv, Copies
  <2>2. Sending'
    BY <1>1 DEF IInv, Sending
  <2> QED
    BY <1>1, <2>1, <2>2 DEF Answer, IInv, TypeOK, Store, Order
<1> QED
  BY <1>2, <1>3
(* The least eligible item is one.                                         *)
LEMMA EligibleIsChosen ==
  ASSUME NEW items \in Seq(Item), Eligible(items) # {}
  PROVE  (CHOOSE i \in Eligible(items) : \A j \in Eligible(items) : i <= j) \in Eligible(items)
<1>1. Eligible(items) \subseteq Nat
  BY DEF Eligible
<1>2. \E i \in Eligible(items) : \A j \in Eligible(items) : i <= j
  BY <1>1, LeastNumber
<1> QED
  BY <1>2

LEMMA ClaimedIs ==
  ASSUME NEW item \in Item, item.attempts < MaxAttempts
  PROVE  /\ Claimed(item) \in Item
         /\ Claimed(item).command = item.command /\ Claimed(item).altered = item.altered
         /\ Claimed(item).attempts = item.attempts + 1
         /\ Claimed(item).status = "sending"
<1>1. item.attempts + 1 \in 0..MaxAttempts
  BY OfflineQueueAssumption DEF Item
<1> QED
  BY <1>1 DEF Claimed, Item

LEMMA ChooseStep ==
  ASSUME IInv, Choose
  PROVE  IInv' /\ Upheld(saved, saved')
<1> DEFINE items == Checked(queue)
           i == CHOOSE i \in Eligible(items) : \A j \in Eligible(items) : i <= j
           c == items[i].command
<1>1. /\ Sound(queue, recorded, before) /\ Sound(backup, recorded, before)
      /\ \A j \in DOMAIN queue : queue[j].status = "recorded" => queue[j].command \in recorded
  BY DEF IInv, Copies, Sound
<1>2. /\ Revises(items, queue, recorded)
      /\ \A j \in DOMAIN queue : items[j].status = "queued" => items[j].attempts < MaxAttempts
  BY <1>1, Facts, CheckedRevises
<1>3. /\ Sound(items, recorded, before) /\ Counted(items, sent)
      /\ DOMAIN items = DOMAIN queue /\ \A d : Holds(items, d) <=> Holds(queue, d)
      /\ Upheld(saved, items)
  BY <1>1, <1>2, Facts, RevisedIsSound, RevisedIsCounted, RevisedHolds, RevisedUpholds
     DEF IInv, Store
<1>4. saved' = queue' /\ UNCHANGED <<backup, answers, recorded, before>>
  BY DEF Choose
<1>5. ASSUME Sound(queue', recorded, before), Counted(queue', sent'),
             Upheld(saved, queue'),
             \A d : Holds(queue', d) <=> Holds(queue, d),
             sent' \in [Commands -> 0..SendCap],
             requests' \subseteq [command : Commands, altered : BOOLEAN],
             Sending',
             \A d, e \in Commands :
               <<d, e>> \in before /\ Job[d] = Job[e] /\ sent'[e] > 0 => d \in recorded
      PROVE  IInv' /\ Upheld(saved, saved')
  <2>1. TypeOK'
    BY <1>4, <1>5 DEF IInv, TypeOK, Sound
  <2>2. Copies'
    BY <1>1, <1>4, <1>5 DEF Copies
  <2>3. Within(backup, saved')
    BY <1>4, <1>5, Facts DEF Within, Holds
  <2>4. Store'
    BY <1>4, <1>5, <2>3, UpheldBySelf DEF Store
  <2>5. Order'
    BY <1>4, <1>5 DEF IInv, Order
  <2> QED
    BY <1>4, <1>5, <2>1, <2>2, <2>4, <2>5 DEF IInv
<1>6. CASE Eligible(items) = {}
  <2>1. queue' = items /\ UNCHANGED <<requests, sent>>
    BY <1>6 DEF Choose
  <2>2. Sending'
    BY <1>3, <1>4, <2>1, Facts DEF IInv, Sending
  <2> QED
    BY <1>3, <1>5, <2>1, <2>2 DEF IInv, TypeOK, Order
<1>7. CASE Eligible(items) # {}
  <2>1. /\ sent[c] < SendCap
        /\ queue' = [items EXCEPT ![i] = Claimed(@)]
        /\ requests' = requests \cup {[command |-> c, altered |-> items[i].altered]}
        /\ sent' = [sent EXCEPT ![c] = @ + 1]
    BY <1>7 DEF Choose
  <2>2. i \in Eligible(items)
    BY <1>3, <1>7, EligibleIsChosen DEF Sound
  <2> HIDE DEF i
  <2>3. /\ i \in DOMAIN items /\ items[i].status = "queued" /\ Free(items, i)
        /\ items[i].attempts < MaxAttempts
        /\ items[i] \in Item /\ c \in Commands /\ ~items[i].altered
    <3>1. i \in DOMAIN items /\ items[i].status = "queued" /\ Free(items, i)
      BY <2>2 DEF Eligible
    <3>2. items[i] \in Item /\ ~items[i].altered
      BY <1>3, <3>1 DEF Sound
    <3> QED
      BY <1>2, <1>3, <3>1, <3>2 DEF Item
  <2>4. /\ Claimed(items[i]) \in Item
        /\ Claimed(items[i]).command = c /\ Claimed(items[i]).altered = items[i].altered
        /\ Claimed(items[i]).attempts = items[i].attempts + 1
        /\ Claimed(items[i]).status = "sending"
    BY <2>3, ClaimedIs
  <2> HIDE DEF items
  <2>5. /\ queue' \in Seq(Item) /\ Len(queue') = Len(items) /\ DOMAIN queue' = DOMAIN items
        /\ queue'[i] = Claimed(items[i])
        /\ \A j \in DOMAIN items : j # i => queue'[j] = items[j]
        /\ items \in Seq(Item)
    BY <1>3, <2>1, <2>3, <2>4 DEF Sound
  <2>6. \A j \in DOMAIN items :
          items[j] \in Item /\ items[j].attempts \in Nat /\ items[j].command \in Commands
    <3>1. \A j \in DOMAIN items : items[j] \in Item
      BY <2>5
    <3> QED
      BY <3>1, OfflineQueueAssumption DEF Item
  <2>7. Revises(queue', items, recorded)
    BY <1>3, <2>3, <2>4, <2>5, <2>6 DEF Revises, Terminal, Sound
  <2>8. /\ Sound(queue', recorded, before) /\ \A d : Holds(queue', d) <=> Holds(queue, d)
        /\ Upheld(saved, queue')
    BY <1>3, <2>5, <2>7, RevisedIsSound, RevisedHolds, RevisedUpholds
  <2>9. /\ sent \in [Commands -> Nat] /\ sent' \in [Commands -> 0..SendCap]
        /\ sent'[c] = sent[c] + 1 /\ \A d \in Commands : d # c => sent'[d] = sent[d]
        /\ sent[c] <= items[i].attempts
    <3>1. sent \in [Commands -> 0..SendCap]
      BY DEF IInv, TypeOK
    <3>2. sent[c] <= items[i].attempts
      BY <1>3, <2>3 DEF Counted
    <3> QED
      BY <2>1, <2>3, <3>1, <3>2, OfflineQueueAssumption
  <2>10. Counted(queue', sent')
    <3> SUFFICES ASSUME NEW j \in DOMAIN items, queue'[j].status # "needs_review"
                 PROVE  sent'[queue'[j].command] <= queue'[j].attempts
      BY <2>5 DEF Counted
    <3>1. CASE j = i
      BY <2>3, <2>4, <2>5, <2>6, <2>9, <3>1
    <3>2. CASE j # i
      <4>1. items[j].command # c
        BY <1>3, <2>3, <3>2 DEF Sound, Distinct
      <4> QED
        BY <1>3, <2>5, <2>6, <2>9, <3>2, <4>1 DEF Counted
    <3> QED
      BY <3>1, <3>2
  <2>11. Sending'
    <3>1. \A r \in requests' : ~r.altered /\ r.command \in Commands /\ sent'[r.command] > 0
      <4>1. \A r \in requests : ~r.altered /\ r.command \in Commands /\ sent[r.command] > 0
        BY DEF IInv, TypeOK, Sending
      <4> QED
        BY <2>1, <2>3, <2>9, <4>1
    <3>2. \A d \in Commands : sent'[d] <= MaxAttempts
      BY <2>3, <2>6, <2>9, OfflineQueueAssumption DEF IInv, Sending
    <3>3. \A d \in recorded : sent'[d] > 0
      BY <2>9, SMTT(30) DEF IInv, TypeOK, Sending
    <3>4. \A d \in Commands : sent'[d] > 0 => Holds(saved', d)
      <4>1. Holds(items, c)
        BY <2>3 DEF Holds
      <4> QED
        BY <1>3, <1>4, <2>8, <2>9, <4>1, Facts
    <3> QED
      BY <1>4, <3>1, <3>2, <3>3, <3>4 DEF IInv, Sending
  <2>12. ASSUME NEW d \in Commands, NEW e \in Commands,
                <<d, e>> \in before, Job[d] = Job[e], sent'[e] > 0
         PROVE  d \in recorded
    <3>1. CASE e # c
      BY <2>9, <2>12, <3>1 DEF IInv, Order
    <3>2. CASE e = c
      <4>1. d # c
        BY <2>12, <3>2 DEF IInv, Order
      <4>2. PICK j \in DOMAIN items : items[j].command = d
        BY <1>3, <2>3, <2>12, <3>2 DEF Sound, Closed, Holds
      <4>3. ~(i < j)
        BY <1>3, <2>3, <2>12, <3>2, <4>2 DEF Sound, Ordered
      <4>4. j \in 1..(i - 1)
        BY <2>3, <2>5, <4>1, <4>2, <4>3
      <4>5. items[j].status = "recorded"
        BY <2>12, <3>2, <2>3, <4>2, <4>4 DEF Free, Blocks
      <4> QED
        BY <1>3, <4>2, <4>5 DEF Sound
    <3> QED
      BY <3>1, <3>2
  <2>13. requests' \subseteq [command : Commands, altered : BOOLEAN]
    BY <2>1, <2>3 DEF IInv, TypeOK, Item
  <2> QED
    BY <1>5, <2>8, <2>9, <2>10, <2>11, <2>12, <2>13
<1> QED
  BY <1>6, <1>7

LEMMA Invariance == IInv /\ [Next]_vars => IInv'
<1> SUFFICES ASSUME IInv, [Next]_vars PROVE IInv'
  OBVIOUS
<1>1. CASE Device
  BY <1>1, ChooseStep, SaveStep, FallDueStep, RestartStep DEF Device
<1>2. CASE Server
  BY <1>2, ServerStep DEF Server
<1>3. ASSUME NEW c \in Commands,
             Capture(c) \/ \E answer \in Answer \cup {"garbled"} : Receive(c, answer)
      PROVE  IInv'
  BY <1>3, CaptureStep, ReceiveStep
<1>4. CASE UNCHANGED vars
  BY <1>4 DEF vars, IInv, TypeOK, Copies, Store, Sending, Order
<1> QED
  BY <1>1, <1>2, <1>3, <1>4 DEF Next

LEMMA Invariant == Spec => []IInv
BY InitInvariant, Invariance, PTL DEF Spec

-----------------------------------------------------------------------------
(* The theorems.                                                           *)

(* Every copy of the queue holds items, and no item more attempts than     *)
(* the policy allows.                                                      *)
THEOREM TypeCorrect == Spec => []TypeOK
<1>1. IInv => TypeOK
  BY DEF IInv
<1> QED
  BY <1>1, Invariant, PTL

(* An item the device shows as recorded took effect at the server          *)
(* (applyOfflineUploadResultV1, restoreOfflineQueueV1).                    *)
THEOREM ShownIsRecorded == Spec => []RecordedIsOnServer
<1>1. IInv => RecordedIsOnServer
  BY DEF IInv, Copies, Sound, RecordedIsOnServer
<1> QED
  BY <1>1, Invariant, PTL

(* Commands of one job take effect in the order they were captured         *)
(* (chooseOfflineQueueItemV1), whatever a restart finds.                   *)
THEOREM JobsStayInOrder == Spec => []InCaptureOrder
<1>1. IInv => InCaptureOrder
  <2> SUFFICES ASSUME IInv, NEW pair \in before,
                      Job[pair[1]] = Job[pair[2]], pair[2] \in recorded
               PROVE  pair[1] \in recorded
    BY DEF InCaptureOrder
  <2>1. pair = <<pair[1], pair[2]>> /\ pair[1] \in Commands /\ pair[2] \in Commands
    BY DEF IInv, TypeOK
  <2>2. sent[pair[2]] > 0
    BY DEF IInv, Sending
  <2> QED
    BY <2>1, <2>2 DEF IInv, Order
<1> QED
  BY <1>1, Invariant, PTL

(* No crash and no old copy gives a command more uploads than              *)
(* offlineQueueRetryV1.maxAttempts.                                        *)
THEOREM BudgetIsKept == Spec => []BudgetHolds
<1>1. IInv => BudgetHolds
  BY DEF IInv, Sending, BudgetHolds
<1> QED
  BY <1>1, Invariant, PTL

(* A command restored with two identities is never uploaded.               *)
THEOREM NothingAlteredIsSent == Spec => []OnlyCapturedIsSent
<1>1. IInv => OnlyCapturedIsSent
  BY DEF IInv, Sending, OnlyCapturedIsSent
<1> QED
  BY <1>1, Invariant, PTL

(* What was saved as settled stays settled: no late answer, no old copy    *)
(* and no merge returns it to the queue.                                   *)
THEOREM SettledStays == Spec => TerminalStays
<1> DEFINE Stays == \A i \in DOMAIN saved : Terminal(saved[i]) =>
                      \E j \in DOMAIN saved' :
                        /\ saved'[j].command = saved[i].command
                        /\ \/ saved'[j].status = saved[i].status
                           \/ saved'[j].status = "needs_review"
<1>1. Upheld(saved, saved') => Stays
  BY DEF Upheld
<1>2. IInv /\ [Next]_vars => Upheld(saved, saved') \/ UNCHANGED vars
  <2> SUFFICES ASSUME IInv, Next PROVE Upheld(saved, saved')
    OBVIOUS
  <2>1. CASE Choose \/ Restart
    BY <2>1, ChooseStep, RestartStep
  <2>2. CASE Save
    BY <2>2 DEF Save, IInv, Store
  <2>3. CASE FallDue
    <3>1. Revises(Due(saved), saved, recorded)
      BY DueRevises DEF IInv, Copies, Sound
    <3> QED
      BY <2>3, <3>1, UpheldBySelf, RevisedUpholds, Facts DEF FallDue
  <2>4. CASE UNCHANGED saved
    BY <2>4, UpheldBySelf
  <2>5. Choose \/ Restart \/ Save \/ FallDue \/ UNCHANGED saved
    BY DEF Next, Device, Server, Backup, Capture, Receive, Refuse, Fail, Record
  <2> QED
    BY <2>1, <2>2, <2>3, <2>4, <2>5
<1>3. IInv /\ [Next]_vars => [Stays]_vars
  BY <1>1, <1>2
<1> QED
  BY <1>3, Invariant, PTL DEF Spec, TerminalStays

=============================================================================
