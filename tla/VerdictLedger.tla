---------------------------- MODULE VerdictLedger ----------------------------
(***************************************************************************)
(* What a scan of Light-Scan promises, whatever its threads, retries and   *)
(* locks: every port it is asked about stays pending until it has a        *)
(* verdict, a verdict once given is kept, and the ledger is published when *)
(* nothing is pending and never touched again.                             *)
(*                                                                         *)
(* PortScan, FlagScan and IdleScan implement it; their refinement mappings *)
(* say what pending means for an executor with a queue and a pool.         *)
(***************************************************************************)
EXTENDS Integers

CONSTANTS Keys,     \* what a scan gives verdicts on: pairs of target and port
          Verdicts  \* the buckets

VARIABLES pending,  \* keys whose last call has not returned
          verdicts, \* the verdicts each key was given
          excused,  \* keys that a call may end for without a verdict
          phase     \* "open", "published" or "withdrawn"

vars == <<pending, verdicts, excused, phase>>

Kept == \A j \in Keys : verdicts'[j] = verdicts[j]

Init ==
  /\ pending \in SUBSET Keys
  /\ verdicts = [k \in Keys |-> {}]
  /\ excused \in SUBSET Keys
  /\ phase = "open"

\* A call gives its key a verdict; it may be the last call for that key.
Give(k) ==
  /\ phase = "open"
  /\ k \in pending
  /\ pending' \in {pending, pending \ {k}}
  /\ \E v \in Verdicts : v \in verdicts'[k] /\ verdicts'[k] = verdicts[k] \cup {v}
  /\ \A j \in Keys \ {k} : verdicts'[j] = verdicts[j]
  /\ UNCHANGED <<excused, phase>>

\* The last call for a key returns: it has a verdict, or an excuse.
Close(k) ==
  /\ phase = "open"
  /\ k \in pending
  /\ pending' = pending \ {k}
  /\ verdicts[k] # {} \/ k \in excused
  /\ Kept
  /\ UNCHANGED <<excused, phase>>

\* A call raises, which excuses its key and may end the scan.
Excuse(k) ==
  /\ phase = "open"
  /\ k \in pending
  /\ excused' = excused \cup {k}
  /\ pending' \in {pending, pending \ {k}}
  /\ phase' \in {phase, "withdrawn"}
  /\ Kept

\* The scan ends before it gave a verdict.
Withdraw ==
  /\ phase = "open"
  /\ \A k \in Keys : verdicts[k] = {}
  /\ phase' = "withdrawn"
  /\ Kept
  /\ UNCHANGED <<pending, excused>>

Publish ==
  /\ phase = "open"
  /\ pending = {}
  /\ phase' = "published"
  /\ Kept
  /\ UNCHANGED <<pending, excused>>

Next == Publish \/ Withdraw \/ \E k \in Keys : Give(k) \/ Close(k) \/ Excuse(k)

Spec == Init /\ [][Next]_vars
=============================================================================
