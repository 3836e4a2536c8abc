-------------------------------- MODULE Silent --------------------------------
(***************************************************************************)
(* Silencing of slow and erroneous urls: internal/sampler/silent.go.       *)
(*                                                                         *)
(* Per pidUrl at most Count spans are sampled, then the url is silent:     *)
(* until the end of the window, in mode "window", or until Period seconds  *)
(* after the last of them, in mode "wait".  IsSilent is called by consumer *)
(* goroutines; neither the Load followed by a Store nor the fields of a    *)
(* SilentData are protected by a lock.  CheckAndResetSilent runs in the    *)
(* clean ticker.                                                           *)
(*                                                                         *)
(* Times are kept relative to the clock: how long ago silentTime was, and  *)
(* how far away nextWindowTime is.                                         *)
(***************************************************************************)
EXTENDS Integers

CONSTANTS
  Url,      \* pidUrls
  Caller,   \* consumer goroutines
  Object,   \* the SilentData values there can be at a time
  Count,    \* SilentCount
  Period,   \* SilentPeriod, in seconds
  Modes,    \* the values of SilentMode
  NoObject

ASSUME SilentAssumption ==
  /\ Count \in Nat \ {0}
  /\ Period \in Nat \ {0}
  /\ Modes \subseteq {"window", "wait"}
  /\ NoObject \notin Object
  /\ Url # {}

VARIABLES
  mode,         \* SilentMode
  pidUrlDatas,  \* the map, to SilentData or NoObject
  leftCount,    \* SilentData.leftCount
  silentTime,   \* seconds since SilentData.silentTime; Never when it is 0
  nextWindow,   \* seconds until nextWindowTime; Never when it is 0
  pc,           \* where a caller is in IsSilent
  url,          \* its argument
  object,       \* the SilentData it has loaded
  left,         \* the leftCount it has read
  doomed,       \* the urls CheckAndResetSilent found expired, not yet deleted
  admitted,     \* observer: spans sampled since the url was reset
  overlapped    \* observer: urls with overlapping calls since the reset

vars == <<mode, pidUrlDatas, leftCount, silentTime, nextWindow, pc, url, object, left,
          doomed, admitted, overlapped>>

Never == -1

\* A long time ago: older than any period.
Long == Period + 1

TypeOK ==
  /\ mode \in Modes
  /\ pidUrlDatas \in [Url -> Object \cup {NoObject}]
  /\ leftCount \in [Object -> Int]
  /\ silentTime \in [Object -> {Never} \cup 0 .. Long]
  /\ nextWindow \in {Never} \cup 0 .. Period
  /\ pc \in [Caller -> {"idle", "store", "read", "last", "decrement"}]
  /\ url \in [Caller -> Url]
  /\ object \in [Caller -> Object \cup {NoObject}]
  /\ left \in [Caller -> Int]
  /\ doomed \in SUBSET Url
  /\ admitted \in [Url -> Nat]
  /\ overlapped \in SUBSET Url

Init ==
  /\ mode \in Modes
  /\ pidUrlDatas = [u \in Url |-> NoObject]
  /\ leftCount = [o \in Object |-> 0]
  /\ silentTime = [o \in Object |-> Never]
  /\ nextWindow = Never
  /\ pc = [c \in Caller |-> "idle"]
  /\ url = [c \in Caller |-> CHOOSE u \in Url : TRUE]
  /\ object = [c \in Caller |-> NoObject]
  /\ left = [c \in Caller |-> 0]
  /\ doomed = {}
  /\ admitted = [u \in Url |-> 0]
  /\ overlapped = {}

\* A SilentData nobody refers to.
Unused == {o \in Object : /\ \A u \in Url : pidUrlDatas[u] # o
                          /\ \A c \in Caller : object[c] # o}

\* The callers of IsSilent for a url.
Calling(u) == {c \in Caller : pc[c] # "idle" /\ url[c] = u}

-----------------------------------------------------------------------------
(***************************************************************************)
(* IsSilent, for Count > 0 and Period > 0.                                 *)
(***************************************************************************)

Return(c) ==
  /\ pc' = [pc EXCEPT ![c] = "idle"]
  /\ object' = [object EXCEPT ![c] = NoObject]
  /\ left' = [left EXCEPT ![c] = 0]

\* IsSilent answers that the url is not silent: the span is sampled.  A late
\* caller still uses up the count of before the reset.
Admit(c) ==
  admitted' = IF pc[c] = "store" \/ pidUrlDatas[url[c]] = object[c]
              THEN [admitted EXCEPT ![url[c]] = @ + 1] ELSE admitted

\* pidUrlDatas.Load.
Load(c, u) ==
  /\ pc[c] = "idle"
  /\ url' = [url EXCEPT ![c] = u]
  /\ object' = [object EXCEPT ![c] = pidUrlDatas[u]]
  /\ pc' = [pc EXCEPT ![c] = IF pidUrlDatas[u] = NoObject THEN "store" ELSE "read"]
  /\ overlapped' = IF Calling(u) = {} THEN overlapped ELSE overlapped \cup {u}
  /\ UNCHANGED <<mode, pidUrlDatas, leftCount, silentTime, nextWindow, left, doomed, admitted>>

\* Not found: pidUrlDatas.Store of a new SilentData.
Store(c) ==
  /\ pc[c] = "store"
  /\ \E o \in Unused :
       /\ pidUrlDatas' = [pidUrlDatas EXCEPT ![url[c]] = o]
       /\ leftCount' = [leftCount EXCEPT ![o] = Count - 1]
       /\ silentTime' = [silentTime EXCEPT ![o] = Never]
  /\ Admit(c)
  /\ Return(c)
  /\ UNCHANGED <<mode, nextWindow, url, doomed, overlapped>>

\* checkSilent reads leftCount: silent, the last span, or one of several.
Read(c) ==
  /\ pc[c] = "read"
  /\ IF leftCount[object[c]] <= 0
     THEN Return(c)
     ELSE /\ pc' = [pc EXCEPT ![c] = IF leftCount[object[c]] = 1 THEN "last" ELSE "decrement"]
          /\ left' = [left EXCEPT ![c] = leftCount[object[c]]]
          /\ UNCHANGED object
  /\ UNCHANGED <<mode, pidUrlDatas, leftCount, silentTime, nextWindow, url, doomed, admitted, overlapped>>

\* A slip to be noticed: the time of the last span is not recorded.
TakeLastUntimed(c) ==
  /\ pc[c] = "last"
  /\ leftCount' = [leftCount EXCEPT ![object[c]] = 0]
  /\ Admit(c)
  /\ Return(c)
  /\ UNCHANGED <<mode, pidUrlDatas, silentTime, nextWindow, url, doomed, overlapped>>

\* leftCount = 0 and silentTime = now.
TakeLast(c) ==
  /\ pc[c] = "last"
  /\ leftCount' = [leftCount EXCEPT ![object[c]] = 0]
  /\ silentTime' = [silentTime EXCEPT ![object[c]] = 0]
  /\ Admit(c)
  /\ Return(c)
  /\ UNCHANGED <<mode, pidUrlDatas, nextWindow, url, doomed, overlapped>>

\* A slip to be noticed: leftCount is not decremented.
DecrementNothing(c) ==
  /\ pc[c] = "decrement"
  /\ silentTime' = [silentTime EXCEPT ![object[c]] = Never]
  /\ Admit(c)
  /\ Return(c)
  /\ UNCHANGED <<mode, pidUrlDatas, leftCount, nextWindow, url, doomed, overlapped>>

\* leftCount-- and silentTime = 0.  The two are a data race with the other
\* callers: leftCount-- starts from the value read before or from a new one.
Decrement(c) ==
  /\ pc[c] = "decrement"
  /\ \E n \in {left[c], leftCount[object[c]]} :
       leftCount' = [leftCount EXCEPT ![object[c]] = n - 1]
  /\ silentTime' = [silentTime EXCEPT ![object[c]] = Never]
  /\ Admit(c)
  /\ Return(c)
  /\ UNCHANGED <<mode, pidUrlDatas, nextWindow, url, doomed, overlapped>>

-----------------------------------------------------------------------------
\* isNewWindow for Period > 0.
IsNewWindow == mode = "window" /\ nextWindow = 0

\* isExpire for Period > 0.
IsExpire(o) ==
  IF mode = "wait" THEN silentTime[o] > Period ELSE IsNewWindow

\* CheckAndResetSilent, in the clean ticker: its range over the urls ...
CheckAndResetSilent ==
  /\ doomed = {}
  /\ nextWindow' = IF mode = "window" /\ nextWindow \in {Never, 0}
                   THEN Period ELSE nextWindow
  /\ doomed' = {u \in Url : pidUrlDatas[u] # NoObject /\ IsExpire(pidUrlDatas[u])}
  /\ UNCHANGED <<mode, pidUrlDatas, leftCount, silentTime, pc, url, object, left, admitted, overlapped>>

\* ... and its deletes, of whatever is in the map by then.
DeleteExpired ==
  /\ doomed # {}
  /\ pidUrlDatas' = [u \in Url |-> IF u \in doomed THEN NoObject ELSE pidUrlDatas[u]]
  /\ admitted' = [u \in Url |-> IF u \in doomed THEN 0 ELSE admitted[u]]
  /\ doomed' = {}
  /\ overlapped' = {u \in overlapped : u \in doomed => \E c, d \in Calling(u) : c # d}
  /\ UNCHANGED <<mode, leftCount, silentTime, nextWindow, pc, url, object, left>>

\* A second passes.
Second ==
  /\ nextWindow' = IF nextWindow > 0 THEN nextWindow - 1 ELSE nextWindow
  /\ silentTime' = [o \in Object |->
                      IF silentTime[o] \in 0 .. Period THEN silentTime[o] + 1 ELSE silentTime[o]]
  /\ UNCHANGED <<mode, pidUrlDatas, leftCount, pc, url, object, left, doomed, admitted, overlapped>>

IsSilent(c) ==
  \/ \E u \in Url : Load(c, u)
  \/ Store(c)
  \/ Read(c)
  \/ TakeLast(c)
  \/ Decrement(c)

Next ==
  \/ \E c \in Caller : IsSilent(c)
  \/ CheckAndResetSilent
  \/ DeleteExpired
  \/ Second

Spec == Init /\ [][Next]_vars

\* Time passes and the ticker goroutine runs.
FairSpec == Spec /\ WF_vars(Second) /\ WF_vars(CheckAndResetSilent \/ DeleteExpired)

-----------------------------------------------------------------------------
(***************************************************************************)
(* Properties.                                                             *)
(***************************************************************************)

\* The url would be found silent now.
IsSilenced(u) == pidUrlDatas[u] # NoObject /\ leftCount[pidUrlDatas[u]] <= 0

\* Between two resets of a url IsSilent lets at most silent_count spans
\* through, wherever the clean ticker interrupts the caller.  (Calls for the
\* same url that overlap can exceed it: the count is not locked.)
AdmissionBounded == \A u \in Url \ overlapped : admitted[u] <= Count

\* A silent url does not stay silent for ever: silent_period is a period.
\* (In mode "wait" two decrements that race can take leftCount to 0 without a
\* silentTime, so overlapping calls are excepted there.)
SilenceEnds ==
  \A u \in Url : IsSilenced(u) ~> (~IsSilenced(u) \/ (mode = "wait" /\ u \in overlapped))

-----------------------------------------------------------------------------
(***************************************************************************)
(* The inductive invariant behind AdmissionBounded.                        *)
(***************************************************************************)

\* A SilentData is in the map once, and a caller has the one of its own url.
ObjectsApart ==
  /\ \A u, v \in Url : pidUrlDatas[u] # NoObject /\ pidUrlDatas[u] = pidUrlDatas[v] => u = v
  /\ \A c \in Caller :
       IF pc[c] \in {"idle", "store"} THEN object[c] = NoObject
       ELSE object[c] # NoObject /\ \A v \in Url : pidUrlDatas[v] = object[c] => v = url[c]

\* Calls that do not overlap are one at a time.
CallsApart == \A u \in Url \ overlapped : \A c, d \in Calling(u) : c = d

\* What is left of the count is what was not admitted yet.
LeftCounts ==
  \A u \in Url \ overlapped :
    IF pidUrlDatas[u] = NoObject THEN admitted[u] = 0
    ELSE leftCount[pidUrlDatas[u]] >= 0 /\ admitted[u] + leftCount[pidUrlDatas[u]] <= Count

\* A caller that nobody overlaps goes by what it has read.
ReadsFresh ==
  \A c \in Caller : pc[c] # "idle" /\ url[c] \notin overlapped =>
    /\ pc[c] = "store" => pidUrlDatas[url[c]] = NoObject
    /\ pc[c] = "last" /\ object[c] = pidUrlDatas[url[c]] => leftCount[object[c]] = 1
    /\ pc[c] = "decrement" /\ object[c] = pidUrlDatas[url[c]] =>
         left[c] > 0 /\ left[c] = leftCount[object[c]]

SilentInv == TypeOK /\ ObjectsApart /\ CallsApart /\ LeftCounts /\ ReadsFresh
=============================================================================
