----------------------------- MODULE DurableLog -----------------------------
(***************************************************************************)
(* What a committed event stream promises, without frames, locks, tails or *)
(* anchors: a log that grows by one record at a time, of which a prefix is *)
(* firm.  A power loss may take records off the end, never a firm one, and *)
(* no record is ever changed in place.                                     *)
(***************************************************************************)
EXTENDS Naturals, Sequences

CONSTANT Records

VARIABLES log,      \* the records of the stream
          firm      \* how many of them no power loss can take

logVars == <<log, firm>>

Init == log = <<>> /\ firm = 0

Add(r) == log' = Append(log, r) /\ firm' = firm

Harden == log' = log /\ firm' \in firm .. Len(log)

Lose(n) == log' = SubSeq(log, 1, n) /\ firm' = n

Next ==
    \/ \E r \in Records : Add(r)
    \/ Harden
    \/ \E n \in firm .. Len(log) : Lose(n)

Spec == Init /\ [][Next]_logVars
=============================================================================
