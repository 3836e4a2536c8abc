---------------------------- MODULE RetentionCache ----------------------------
(***************************************************************************)
(* What the two-stage cache of internal/cache/cache.go promises, without   *)
(* buckets, indexes or wrap-around: an entry stays for exactly Size clean  *)
(* ticks after the tick that last added data to it, and then goes away,    *)
(* unless it is picked first.  SpanCache implements this specification.    *)
(***************************************************************************)
EXTENDS Naturals

CONSTANTS Key, Data, Size

VARIABLES
  inbox,   \* written, not yet taken by the tick
  hand,    \* taken by the tick, not yet kept
  kept,    \* the data kept for a key
  ttl,     \* how many more ticks the entry of a key survives
  out,     \* the data handed out last
  stage    \* the stage of the tick

rvars == <<inbox, hand, kept, ttl, out, stage>>

Nothing == [k \in Key |-> {}]

Init ==
  /\ inbox = Nothing
  /\ hand = Nothing
  /\ kept = Nothing
  /\ ttl = [k \in Key |-> 0]
  /\ out = {}
  /\ stage = "idle"

Put(k, d) ==
  /\ inbox' = [inbox EXCEPT ![k] = @ \cup {d}]
  /\ UNCHANGED <<hand, kept, ttl, out, stage>>

Collect ==
  /\ stage = "idle"
  /\ hand' = inbox
  /\ inbox' = Nothing
  /\ stage' = "reset"
  /\ UNCHANGED <<kept, ttl, out>>

\* New data restart the time to live of their entry.
Keep ==
  /\ stage = "reset"
  /\ kept' = [k \in Key |-> kept[k] \cup hand[k]]
  /\ ttl' = [k \in Key |-> IF hand[k] # {} THEN Size ELSE ttl[k]]
  /\ hand' = Nothing
  /\ stage' = "copied"
  /\ UNCHANGED <<inbox, out>>

HandOut(keys) ==
  /\ stage = "copied"
  /\ out' = UNION {kept[k] : k \in keys}
  /\ kept' = [k \in Key |-> IF k \in keys THEN {} ELSE kept[k]]
  /\ ttl' = [k \in Key |-> IF k \in keys THEN 0 ELSE ttl[k]]
  /\ UNCHANGED <<inbox, hand, stage>>

\* An entry whose time is up goes, every other one gets a tick older.
Expire ==
  /\ stage = "copied"
  /\ kept' = [k \in Key |-> IF ttl[k] = 0 THEN {} ELSE kept[k]]
  /\ ttl' = [k \in Key |-> IF ttl[k] = 0 THEN 0 ELSE ttl[k] - 1]
  /\ out' = {}
  /\ stage' = "idle"
  /\ UNCHANGED <<inbox, hand>>

Next ==
  \/ \E k \in Key, d \in Data : Put(k, d)
  \/ Collect
  \/ Keep
  \/ \E keys \in SUBSET Key : HandOut(keys)
  \/ Expire

Spec == Init /\ [][Next]_rvars
=============================================================================
