----------------------------- MODULE SampleQuery -----------------------------
(***************************************************************************)
(* How a sampled trace id reaches the controller: unSendIds and RetryList  *)
(* of internal/sampler/tailbase_sampler.go under samplingOnTick.           *)
(*                                                                         *)
(* Consumers append ids to a queue (cacheIds).  A ticker goroutine sends   *)
(* the whole queue in one QueryProfiles call, without holding the lock, so *)
(* that ids are appended while the call is under way.  When the call       *)
(* succeeds the ids that were sent are removed (markSent); when it fails   *)
(* they are kept for retryNum more calls (markUnSent), which RetryList     *)
(* counts.                                                                 *)
(*                                                                         *)
(* The slow, the error and the normal sampler each have such a queue; one  *)
(* call carries all three and its outcome is applied to each with its own  *)
(* count, so one queue is modelled.  Ids are numbered in the order in      *)
(* which they are appended.  What the answer adds to sampledTraceIds is in *)
(* TailbaseSampling.                                                       *)
(***************************************************************************)
EXTENDS Integers, Sequences

CONSTANTS
  RetryNums,  \* the values of SampleRetryNum
  MaxIds      \* bound: how many ids are sampled

ASSUME QueryAssumption == RetryNums \subseteq Nat /\ MaxIds \in Nat

Id == 1 .. MaxIds

VARIABLES
  retryNum,    \* SampleRetryNum: how often a failed id is sent again
  toSendIds,   \* the queue
  counts,      \* RetryList.counts; <<>> when retry is nil
  fromIndex,   \* RetryList.fromIndex
  lastNum,     \* RetryList.lastNum
  size,        \* RetryList.size
  calling,     \* QueryProfiles is under way
  sent,        \* how many ids the call carries (slowCount, ...)
  nextId,      \* the id sampled next
  attempts,    \* observer: the failed calls that carried an id, up to MaxAttempts
  delivered,   \* observer: the ids of the calls that succeeded
  dropped      \* observer: the ids markUnSent removed

retryVars == <<counts, fromIndex, lastNum, size>>
observers == <<attempts, delivered, dropped>>
vars == <<retryNum, toSendIds, retryVars, calling, sent, nextId, observers>>

\* Enough to tell an id that was kept too long from one that was not.
MaxAttempts == retryNum + 2

TypeOK ==
  /\ retryNum \in RetryNums
  /\ toSendIds \in Seq(Id)
  /\ counts \in Seq(Nat) /\ Len(counts) = retryNum
  /\ fromIndex \in 0 .. IF retryNum = 0 THEN 0 ELSE retryNum - 1
  /\ lastNum \in Int
  /\ size \in 0 .. retryNum
  /\ calling \in BOOLEAN
  /\ sent \in 0 .. MaxIds
  /\ nextId \in 1 .. MaxIds + 1
  /\ attempts \in [Id -> 0 .. MaxAttempts]
  /\ delivered \in SUBSET Id
  /\ dropped \in SUBSET Id

Init ==
  /\ retryNum \in RetryNums
  /\ toSendIds = <<>>
  /\ counts = [i \in 1 .. retryNum |-> 0]
  /\ fromIndex = 0
  /\ lastNum = 0
  /\ size = 0
  /\ calling = FALSE
  /\ sent = 0
  /\ nextId = 1
  /\ attempts = [id \in Id |-> 0]
  /\ delivered = {}
  /\ dropped = {}

\* s[n:] in Go.
From(s, n) == SubSeq(s, n + 1, Len(s))

Front(n) == {toSendIds[i] : i \in 1 .. n}

\* cacheIds.
CacheIds ==
  /\ nextId <= MaxIds
  /\ toSendIds' = Append(toSendIds, nextId)
  /\ nextId' = nextId + 1
  /\ UNCHANGED <<retryNum, retryVars, calling, sent, observers>>

\* A slip to be noticed: the newest id is not sent.
QueryButLast ==
  /\ ~calling
  /\ calling' = TRUE
  /\ sent' = IF toSendIds = <<>> THEN 0 ELSE Len(toSendIds) - 1
  /\ UNCHANGED <<retryNum, toSendIds, retryVars, nextId, observers>>

\* GetToSendIds, and QueryProfiles is called with the ids.
Query ==
  /\ ~calling
  /\ calling' = TRUE
  /\ sent' = Len(toSendIds)
  /\ UNCHANGED <<retryNum, toSendIds, retryVars, nextId, observers>>

\* A slip to be noticed: markSent clears the queue as it is now.
MarkSentAll(num) ==
  /\ toSendIds' = <<>>
  /\ size' = 0
  /\ lastNum' = 0
  /\ UNCHANGED <<counts, fromIndex>>

\* markSent, with RetryList.reset: fromIndex stays where it is.
MarkSent(num) ==
  /\ toSendIds' = From(toSendIds, num)
  /\ size' = 0
  /\ lastNum' = 0
  /\ UNCHANGED <<counts, fromIndex>>

\* The call succeeds: updateSampledTraceIds.
QuerySucceeds ==
  /\ calling
  /\ calling' = FALSE
  /\ sent' = 0
  /\ delivered' = delivered \cup Front(sent)
  /\ IF sent > 0 THEN MarkSent(sent) ELSE UNCHANGED <<toSendIds, retryVars>>
  /\ UNCHANGED <<retryNum, nextId, attempts, dropped>>

\* getToRemoveSize while the list still fills: nothing is removed.
RecordCount(num) ==
  LET index == (fromIndex + size) % retryNum
  IN  /\ counts' = [counts EXCEPT ![index + 1] = num - lastNum]
      /\ size' = size + 1
      /\ lastNum' = num
      /\ UNCHANGED fromIndex

\* A slip to be noticed: off by one.
ToRemoveSizeShort == IF counts[fromIndex + 1] = 0 THEN 0 ELSE counts[fromIndex + 1] - 1

\* How many ids getToRemoveSize removes once the list is full.
ToRemoveSize == counts[fromIndex + 1]

\* getToRemoveSize once the list is full: the count is written over the
\* oldest one, the list is shifted as well, and fromIndex moves on.
ReplaceOldest(num) ==
  /\ counts' = Append(Tail([counts EXCEPT ![fromIndex + 1] = num - lastNum]), num - lastNum)
  /\ lastNum' = num - ToRemoveSize
  /\ fromIndex' = IF fromIndex = retryNum - 1 THEN 0 ELSE fromIndex + 1
  /\ UNCHANGED size

\* markUnSent.  A toRemoveSize beyond the queue is a panic, which ends the
\* process (RemovesOnlyQueued).
MarkUnSent(num) ==
  \/ /\ retryNum = 0
     /\ toSendIds' = From(toSendIds, num)
     /\ dropped' = dropped \cup Front(num)
     /\ UNCHANGED retryVars
  \/ /\ size < retryNum
     /\ RecordCount(num)
     /\ UNCHANGED <<toSendIds, dropped>>
  \/ /\ retryNum > 0
     /\ size = retryNum
     /\ ToRemoveSize <= Len(toSendIds)
     /\ toSendIds' = From(toSendIds, ToRemoveSize)
     /\ dropped' = dropped \cup Front(ToRemoveSize)
     /\ ReplaceOldest(num)

\* The call fails: updateUnSentCount.
QueryFails ==
  /\ calling
  /\ calling' = FALSE
  /\ sent' = 0
  /\ attempts' = [id \in Id |-> IF id \in Front(sent) /\ attempts[id] < MaxAttempts
                                THEN attempts[id] + 1 ELSE attempts[id]]
  /\ IF sent > 0 THEN MarkUnSent(sent) ELSE UNCHANGED <<toSendIds, retryVars, dropped>>
  /\ UNCHANGED <<retryNum, nextId, delivered>>

Next == CacheIds \/ Query \/ QuerySucceeds \/ QueryFails

Spec == Init /\ [][Next]_vars

\* The ticker keeps calling, and a call comes to an end: gRPC keepalive turns
\* a dead connection into an error.
FairSpec == Spec /\ WF_vars(Query) /\ WF_vars(QuerySucceeds \/ QueryFails)

-----------------------------------------------------------------------------
(***************************************************************************)
(* Properties.                                                             *)
(***************************************************************************)

Queued == {toSendIds[i] : i \in 1 .. Len(toSendIds)}

\* An id that has left the queue was delivered or was given up on
\* after failed calls: ids appended during a call stay.
NoIdForgotten == \A id \in 1 .. nextId - 1 : id \in Queued \cup delivered \cup dropped

\* RetryList keeps an id for retryNum further calls: it is given up on only
\* when retryNum + 1 calls that carried it have failed.
GivenUpOnlyAfterRetries == \A id \in dropped : attempts[id] = retryNum + 1

\* With at most one retry RetryList is exact: an id is given up on by the
\* failed call after its last retry, not earlier and not later ("make cache
\* store N seconds").  With more, GivenUpOnlyAfterRetries fails.
RetriesExact ==
  retryNum <= 1 => GivenUpOnlyAfterRetries /\ \A id \in Queued : attempts[id] <= retryNum

\* Every sampled id leaves the queue, sent or given up on, even when no call
\* ever succeeds.  (With more than one retry the records of an id that is
\* still queued can be lost, and it then waits for a call that succeeds.)
QueueDrains == \A id \in Id : (retryNum <= 1 /\ id \in Queued) ~> (id \notin Queued)

\* With at most three retries, the default, markUnSent never panics.  With
\* four, counts can name an id twice, and the slice end up out of range.
RemovesOnlyQueued ==
  retryNum \in 1 .. 3 /\ size = retryNum /\ calling /\ sent > 0 => ToRemoveSize <= Len(toSendIds)

-----------------------------------------------------------------------------
(***************************************************************************)
(* The inductive invariant behind the safety properties.                   *)
(***************************************************************************)

\* The queue holds the youngest ids, in order, and no others have left it.
QueueRecent ==
  /\ \A i \in 1 .. Len(toSendIds) : toSendIds[i] = nextId - 1 - Len(toSendIds) + i
  /\ \A id \in dropped : id < nextId - Len(toSendIds)
  /\ Len(toSendIds) < nextId

\* What a call carries is still at the front of the queue, and contains what
\* RetryList has counted.
CountsBounded ==
  /\ lastNum <= Len(toSendIds)
  /\ calling => lastNum <= sent /\ sent <= Len(toSendIds)

\* The j-th record of RetryList, from the oldest.
Slot(j) == counts[((fromIndex + j) % retryNum) + 1]

\* With at most three retries the records that are removed next are covered
\* by the ids that were counted.
RecordsFit ==
  retryNum \in 1 .. 3 =>
    /\ lastNum >= 0
    /\ size >= 1 => Slot(0) <= lastNum
    /\ size = 2 /\ retryNum = 3 => Slot(0) + Slot(1) <= lastNum
    /\ size = 3 => counts[3] + (IF fromIndex = 0 THEN counts[1] ELSE counts[2]) <= lastNum

\* With at most one retry the ids that failed once are those counted.
AttemptsCounted ==
  retryNum <= 1 =>
    /\ lastNum >= 0
    /\ size = 0 => lastNum = 0
    /\ size = 1 => counts[1] = lastNum
    /\ \A i \in 1 .. Len(toSendIds) :
         attempts[toSendIds[i]] = IF i <= lastNum THEN 1 ELSE 0
    /\ \A id \in Id : id >= nextId => attempts[id] = 0

QueryInv ==
  /\ TypeOK
  /\ QueueRecent
  /\ CountsBounded
  /\ RecordsFit
  /\ AttemptsCounted
  /\ NoIdForgotten
  /\ GivenUpOnlyAfterRetries \/ retryNum > 1
=============================================================================
