---------------------------- MODULE OfflineQueue ----------------------------
(***************************************************************************)
(* The queue of commands captured while a device is offline, and the       *)
(* server that receives them: the pure functions of                        *)
(* packages/core/src/offline-client-queue.ts applied by a device that      *)
(* saves its queue, dies and restores it from reordered, duplicated or     *)
(* conflicting backups, and OfflineUploadApplication.upload                *)
(* (apps/api/src/offline-upload.application.ts), whose answers are lost,   *)
(* repeated and late.                                                      *)
(***************************************************************************)
EXTENDS Naturals, Sequences, SequencesExt

CONSTANTS
  Commands,     \* identities of captured commands
  Job,          \* the job each command belongs to
  Commercial,   \* commands of kind "commercial_intent"
  MaxAttempts,  \* offlineQueueRetryV1.maxAttempts (8)
  SendCap       \* bound on the uploads of one command

ASSUME OfflineQueueAssumption ==
  /\ Job \in [Commands -> STRING]
  /\ Commercial \subseteq Commands
  /\ MaxAttempts \in Nat \ {0}
  /\ SendCap \in Nat

VARIABLES
  queue,     \* the items in memory, in capture order
  saved,     \* the items on the device's store
  backup,    \* an older copy of the store
  requests,  \* uploads under way: any number of copies of each
  answers,   \* the server's answers, each delivered any number of times
  recorded,  \* commands that took effect at the server
  sent,      \* how often each command was uploaded
  before     \* history: pairs of commands held, the first captured before the second

vars == <<queue, saved, backup, requests, answers, recorded, sent, before>>

(* "altered" stands for the item's identity (payload hash, job, kind and   *)
(* expected revision): not that of the command that was captured.          *)
(* "delayed" stands for nextAttemptAtMs > now.                             *)
Item == [command : Commands, altered : BOOLEAN, attempts : 0..MaxAttempts,
         delayed : BOOLEAN, status : {"queued", "sending", "recorded", "needs_review"}]
Answer == {"recorded", "refused", "unavailable"}

TypeOK ==
  /\ queue \in Seq(Item) /\ saved \in Seq(Item) /\ backup \in Seq(Item)
  /\ requests \subseteq [command : Commands, altered : BOOLEAN]
  /\ answers \subseteq Commands \X Answer
  /\ recorded \subseteq Commands
  /\ sent \in [Commands -> 0..SendCap]
  /\ before \subseteq Commands \X Commands

Init ==
  /\ queue = <<>> /\ saved = <<>> /\ backup = <<>>
  /\ requests = {} /\ answers = {} /\ recorded = {}
  /\ sent = [c \in Commands |-> 0]
  /\ before = {}

-----------------------------------------------------------------------------
(* The queue's functions.                                                  *)

Captured(c) == [command |-> c, altered |-> FALSE, attempts |-> 0,
                delayed |-> FALSE, status |-> "queued"]
Holds(items, c) == \E i \in DOMAIN items : items[i].command = c
IndexOf(items, c) == CHOOSE i \in DOMAIN items : items[i].command = c
Terminal(item) == item.status \in {"recorded", "needs_review"}

(* addOfflineQueueItemV1: a command already held is not held twice.        *)
Added(items, item) ==
  IF Holds(items, item.command) THEN items ELSE Append(items, item)

(* applyOfflineUploadResultV1.  Any response but an acknowledgment of a    *)
(* command that may be recorded, or an invitation to try again within the  *)
(* budget, needs review; nothing changes a terminal item.                  *)
MutApplied(item, answer) ==        \* a late answer undoes a review
  IF item.status = "recorded" THEN item
  ELSE IF answer = "recorded" THEN [item EXCEPT !.status = "recorded"]
  ELSE [item EXCEPT !.status = "needs_review"]
MutAppliedBusy(item, answer) ==    \* a busy server counts as success
  IF Terminal(item) THEN item
  ELSE [item EXCEPT !.status = IF answer = "refused" THEN "needs_review" ELSE "recorded"]
Applied(item, answer) ==
  CASE Terminal(item) -> item
    [] ~Terminal(item) /\ answer = "recorded" /\ item.command \notin Commercial ->
         [item EXCEPT !.status = "recorded"]
    [] ~Terminal(item) /\ answer = "unavailable" /\ item.attempts < MaxAttempts ->
         [item EXCEPT !.status = "queued", !.delayed = TRUE]
    [] OTHER -> [item EXCEPT !.status = "needs_review"]

(* chooseOfflineQueueItemV1: exhausted items are set aside for review, and *)
(* the first item of a job that is not recorded blocks the rest of it.     *)
Exhausted(item) == item.status = "queued" /\ item.attempts >= MaxAttempts
Checked(items) ==
  [i \in DOMAIN items |-> IF Exhausted(items[i])
                            THEN [items[i] EXCEPT !.status = "needs_review"]
                            ELSE items[i]]
MutBlocks(item) == item.status \in {"queued", "sending"}   \* a poison item does not block
Blocks(item) == item.status # "recorded"
Free(items, i) ==
  \A j \in 1..(i - 1) : Job[items[j].command] = Job[items[i].command] => ~Blocks(items[j])
Eligible(items) ==
  {i \in DOMAIN items : items[i].status = "queued" /\ ~items[i].delayed /\ Free(items, i)}
Claimed(item) == [item EXCEPT !.status = "sending", !.attempts = @ + 1]

(* restoreOfflineQueueV1: duplicates are merged to the more final status   *)
(* and the larger budget spent; two identities for one command, to review. *)
MergedStatus(s, t) ==
  CASE "needs_review" \in {s, t} -> "needs_review"
    [] "needs_review" \notin {s, t} /\ "recorded" \in {s, t} -> "recorded"
    [] OTHER -> "queued"
MutMerged(old, new) ==   \* the later copy's budget, even when its identity differs
  [old EXCEPT !.status = IF old.altered # new.altered THEN "needs_review"
                         ELSE MergedStatus(@, new.status),
              !.attempts = new.attempts]
Merged(old, new) ==
  IF old.altered # new.altered
    THEN [old EXCEPT !.status = "needs_review"]
    ELSE [old EXCEPT !.status = MergedStatus(old.status, new.status),
                     !.attempts = IF new.attempts > @ THEN new.attempts ELSE @,
                     !.delayed = @ \/ new.delayed]
MutRecovered(item) == item   \* an interrupted upload stays "sending"
Recovered(item) == IF item.status = "sending" THEN [item EXCEPT !.status = "queued"] ELSE item
MutTakeInAltered(items, entry) ==  \* the identity is not compared
  IF ~Holds(items, entry.command) THEN Append(items, Recovered(entry))
  ELSE [items EXCEPT ![IndexOf(items, entry.command)].status = MergedStatus(@, Recovered(entry).status)]
TakeIn(items, entry) ==
  IF ~Holds(items, entry.command) THEN Added(items, Recovered(entry))
  ELSE LET i == IndexOf(items, entry.command)
       IN  [items EXCEPT ![i] = Merged(@, Recovered(entry))]
Restored(entries) ==
  LET items[n \in 0..Len(entries)] ==
        IF n = 0 THEN <<>> ELSE TakeIn(items[n - 1], entries[n])
  IN  items[Len(entries)]

-----------------------------------------------------------------------------
(* The device.                                                             *)

Capture(c) ==
  /\ ~Holds(queue, c)
  /\ queue' = Added(queue, Captured(c))
  /\ before' = before \cup {<<i.command, c>> : i \in ToSet(queue)}
  /\ UNCHANGED <<saved, backup, requests, answers, recorded, sent>>

(* The queue is saved before the upload it claims leaves the device.       *)
Choose ==
  LET items == Checked(queue)
      i == CHOOSE i \in Eligible(items) : \A j \in Eligible(items) : i <= j
  IN
  /\ IF Eligible(items) = {}
       THEN queue' = items /\ UNCHANGED <<requests, sent>>
       ELSE /\ sent[items[i].command] < SendCap
            /\ queue' = [items EXCEPT ![i] = Claimed(@)]
            /\ requests' = requests \cup
                 {[command |-> items[i].command, altered |-> items[i].altered]}
            /\ sent' = [sent EXCEPT ![items[i].command] = @ + 1]
  /\ saved' = queue'
  /\ UNCHANGED <<backup, answers, recorded, before>>

Save ==
  /\ saved' = queue
  /\ UNCHANGED <<queue, backup, requests, answers, recorded, sent, before>>

Backup ==
  /\ backup' = saved
  /\ UNCHANGED <<queue, saved, requests, answers, recorded, sent, before>>

Due(items) == [i \in DOMAIN items |-> [items[i] EXCEPT !.delayed = FALSE]]
FallDue ==
  /\ queue' = Due(queue) /\ saved' = Due(saved) /\ backup' = Due(backup)
  /\ UNCHANGED <<requests, answers, recorded, sent, before>>

(* An answer arrives, whichever attempt it answers; "garbled" stands for   *)
(* an unknown, malformed or mismatched one.                                *)
Receive(c, answer) ==
  /\ Holds(queue, c)
  /\ \/ <<c, answer>> \in answers
     \/ answer = "garbled" /\ \E r \in requests : r.command = c
  /\ LET i == IndexOf(queue, c) IN queue' = [queue EXCEPT ![i] = Applied(@, answer)]
  /\ UNCHANGED <<saved, backup, requests, answers, recorded, sent, before>>

(* The process dies and restores what it finds: its store, the older copy  *)
(* before or after it, and perhaps a conflicting entry for a command.      *)
Strays == {<<[Captured(c) EXCEPT !.altered = TRUE]>> : c \in {i.command : i \in ToSet(saved)}}
Restart ==
  /\ \E entries \in {saved, saved \o backup, backup \o saved}, stray \in Strays \cup {<<>>} :
       \E found \in {entries \o stray, stray \o entries} : queue' = Restored(found)
  /\ saved' = queue'
  /\ before' = {pair \in before : Holds(saved, pair[1]) /\ Holds(saved, pair[2])}
  /\ UNCHANGED <<backup, requests, answers, recorded, sent>>

-----------------------------------------------------------------------------
(* The server.  Access is checked first, then the kind, then the receipt   *)
(* of the command; a failure may come before or after the commit.          *)

Refuse(r) ==
  /\ r \in requests
  /\ answers' = answers \cup {<<r.command, "refused">>}
  /\ UNCHANGED <<queue, saved, backup, requests, recorded, sent, before>>

Fail(r) ==
  /\ r \in requests
  /\ answers' = answers \cup {<<r.command, "unavailable">>}
  /\ UNCHANGED <<queue, saved, backup, requests, recorded, sent, before>>

Record(r, answer) ==
  /\ r \in requests
  /\ r.command \notin Commercial
  /\ answer \in {"recorded", "unavailable"}
  /\ recorded' = recorded \cup {r.command}
  /\ answers' = answers \cup {<<r.command, answer>>}
  /\ UNCHANGED <<queue, saved, backup, requests, sent, before>>

-----------------------------------------------------------------------------
Device == Choose \/ Save \/ Backup \/ FallDue \/ Restart
Server == \E r \in requests : Refuse(r) \/ Fail(r) \/ \E answer \in Answer : Record(r, answer)
Next ==
  \/ Device
  \/ Server
  \/ \E c \in Commands : Capture(c) \/ \E answer \in Answer \cup {"garbled"} : Receive(c, answer)

(* What is asked of the application that drives these functions, which is  *)
(* not in the repository: while it runs it keeps choosing, it comes back   *)
(* after it died, its clock goes on, and an upload ends some time, with an *)
(* answer of any kind or only with the process that made it.  No upload    *)
(* has to be answered, and the device may die in every single one.  A late *)
(* "unavailable" puts a waiting item off again, but not for ever: hence SF.*)
Uploading(c) == Holds(queue, c) /\ queue[IndexOf(queue, c)].status = "sending"
UploadEnds(c) ==
  /\ Uploading(c)
  /\ (\E answer \in Answer \cup {"garbled"} : Receive(c, answer)) \/ Restart

Fairness ==
  /\ SF_vars(Eligible(Checked(queue)) # {} /\ Choose)
  /\ WF_vars(Choose) /\ WF_vars(FallDue)
  /\ \A c \in Commands : WF_vars(UploadEnds(c))

Spec == Init /\ [][Next]_vars
FairSpec == Spec /\ Fairness

-----------------------------------------------------------------------------
(* Properties.                                                             *)

(* The device never claims more than the server did: an item shown as      *)
(* recorded took effect at the server, through every restart and merge.    *)
RecordedIsOnServer ==
  \A i \in DOMAIN queue : queue[i].status = "recorded" => queue[i].command \in recorded

(* Commands of one job take effect in the order they were captured: while  *)
(* an earlier one is unresolved no later one reaches the server.           *)
InCaptureOrder ==
  \A pair \in before :
    Job[pair[1]] = Job[pair[2]] /\ pair[2] \in recorded => pair[1] \in recorded

(* However often the device dies and whatever old copies it restores, a    *)
(* command is uploaded at most MaxAttempts times.                          *)
BudgetHolds == \A c \in Commands : sent[c] <= MaxAttempts

(* Of two saved identities of one command neither is chosen for automatic  *)
(* replay: nothing is uploaded but what was captured.                      *)
OnlyCapturedIsSent == \A r \in requests : ~r.altered

(* What was saved as needing review is never again anything else, and what *)
(* was saved as recorded is never sent again.                              *)
TerminalStays ==
  [][\A i \in DOMAIN saved : Terminal(saved[i]) =>
       \E j \in DOMAIN saved' :
         /\ saved'[j].command = saved[i].command
         /\ \/ saved'[j].status = saved[i].status
            \/ saved'[j].status = "needs_review"]_vars

(* A command that reached the device's store is never lost from it and     *)
(* never stuck half-sent: whatever copies later restarts find, it comes to *)
(* be shown as recorded or under review, or waits behind a command of its  *)
(* own job that is under review and stands in front of it.                 *)
Settled(c) ==
  \E i \in DOMAIN queue :
    /\ queue[i].command = c
    /\ \/ Terminal(queue[i])
       \/ \E j \in 1..(i - 1) :
            Job[queue[j].command] = Job[c] /\ queue[j].status = "needs_review"
CapturedIsSettled ==
  /\ [][\A c \in Commands : Holds(saved, c) => Holds(saved, c)']_vars
  /\ \A c \in Commands : Holds(saved, c) ~> Settled(c)

=============================================================================
