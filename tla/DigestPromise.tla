---------------------------- MODULE DigestPromise ----------------------------
(***************************************************************************)
(* What DigestDelivery promises, without its sweeps, jobs, retries and     *)
(* crashes: the digest of a period is generated once, for a period of time *)
(* that never changes; it is mailed, perhaps several times, unless it is   *)
(* empty; it counts as sent only once it was mailed.                       *)
(***************************************************************************)
EXTENDS Integers

CONSTANTS Keys, None

VARIABLES
  period, \* the start and end of each digest generated, None before
  empty,  \* the digests that were generated and found empty
  mailed, \* those mailed at least once
  sent    \* those that count as sent

vars == <<period, empty, mailed, sent>>

Span == Int \X Nat

Init ==
  /\ period = [k \in Keys |-> None]
  /\ empty = {} /\ mailed = {} /\ sent = {}

Generate(k) ==
  /\ period[k] = None
  /\ period'[k] \in Span
  /\ period' = [period EXCEPT ![k] = period'[k]]
  /\ empty' \in {empty, empty \cup {k}}
  /\ UNCHANGED <<mailed, sent>>

Mail(k) ==
  /\ period[k] # None /\ k \notin empty
  /\ mailed' = mailed \cup {k}
  /\ UNCHANGED <<period, empty, sent>>

CountAsSent(k) ==
  /\ k \in mailed
  /\ sent' = sent \cup {k}
  /\ UNCHANGED <<period, empty, mailed>>

(* Another attempt starts over, or fails. *)
CountAsUnsent(k) ==
  /\ sent' = sent \ {k}
  /\ UNCHANGED <<period, empty, mailed>>

Next == \E k \in Keys : Generate(k) \/ Mail(k) \/ CountAsSent(k) \/ CountAsUnsent(k)

Spec == Init /\ [][Next]_vars
==============================================================================
