---------------------------- MODULE EventStream -----------------------------
(***************************************************************************)
(* One framed event stream and its writers (lib/aibobnet.sh,               *)
(* aib_event_commit; bin/anchor, reanchor).  A commit runs under the       *)
(* stream's lock:                                                          *)
(*                                                                         *)
(*   scan -> truncate an uncommitted tail -> check the high-water anchor   *)
(*   (catch it up) -> append a frame, its LF last -> sync the stream ->    *)
(*   move the new anchor into place -> sync the directory -> unlock        *)
(*                                                                         *)
(* and can stop between any two of these steps: the process is killed, a   *)
(* command fails, or the host loses power and with it what was not synced. *)
(* The tasks stream is the same without anchor and attempt checks.         *)
(***************************************************************************)
EXTENDS Naturals, Sequences, FiniteSets

CONSTANTS
    Writers,        \* the processes that may commit at the same time
    Requested,      \* the commits they ask for
    MaxSeq,         \* bound: no frame beyond this sequence number
    None            \* no holder, no request, no anchor file

Types == {"attempt.decided", "attempt.ended"}

\* One aib_event_commit call: the attempt an attempt.ended closes (by the
\* sequence number of its attempt.decided) and whether anchor_mode is
\* "anchor"; or one "anchor reanchor --accept-truncation".
Requests == [type : Types \cup {"reanchor"}, of : 0 .. MaxSeq, anchored : BOOLEAN]

\* A framed record: event_id carries the sequence number; the checksum and
\* length that make a frame intact are left out, frames are intact.
Records == [seq : 1 .. MaxSeq, type : Types, of : 0 .. MaxSeq]

ASSUME RequestsAssumption == Requested \subseteq Requests

ASSUME BoundAssumption == MaxSeq \in Nat

ASSUME NoneAssumption == None \notin Writers /\ None \notin Nat /\ None \notin Requests

VARIABLES
    events,     \* the terminated frames of the stream, as processes read them
    torn,       \* whether an unterminated tail follows them
    synced,     \* how many frames are known to be on disk
    anchor,     \* the high_water file as processes read it: a number or None
    onDisk,     \* the anchors a power loss may leave
    lock,       \* the holder of the stream lock
    pc,         \* where each writer stands
    req,        \* its call
    scan,       \* what its scan found
    acked       \* history: sequence numbers of anchored commits that returned

vars == <<events, torn, synced, anchor, onDisk, lock, pc, req, scan, acked>>

fileVars == <<events, torn, synced, anchor, onDisk>>

PCs == {"idle", "waiting", "locked", "truncate", "check", "catchSync", "catchMove",
        "catchDir", "append", "tail", "sync", "move", "dir", "release"}

Scans == [highest : Nat, admits : BOOLEAN]

NoScan == [highest |-> 0, admits |-> FALSE]

TypeOK ==
    /\ events \in Seq(Records)
    /\ torn \in BOOLEAN
    /\ synced \in 0 .. Len(events)
    /\ anchor \in Nat \cup {None}
    /\ onDisk \in SUBSET (Nat \cup {None})
    /\ lock \in Writers \cup {None}
    /\ pc \in [Writers -> PCs]
    /\ req \in [Writers -> Requested \cup {None}]
    /\ scan \in [Writers -> Scans]
    /\ acked \in SUBSET Nat

Init ==
    /\ events = <<>>
    /\ torn = FALSE
    /\ synced = 0
    /\ anchor = None
    /\ onDisk = {None}
    /\ lock = None
    /\ pc = [w \in Writers |-> "idle"]
    /\ req = [w \in Writers |-> None]
    /\ scan = [w \in Writers |-> NoScan]
    /\ acked = {}

-----------------------------------------------------------------------------
(***************************************************************************)
(* The scan (_aib_event_scan_core; lib/attempts_fold.py, scan).            *)
(***************************************************************************)

Seqs(evs) == {evs[i].seq : i \in DOMAIN evs}

Highest(evs) == IF evs = <<>> THEN 0 ELSE evs[Len(evs)].seq

\* A decreasing or repeated sequence number is corruption ...
Corrupt(evs) == \E i \in 1 .. Len(evs) - 1 : evs[i + 1].seq <= evs[i].seq

\* ... a forward gap is loss, which degrades the stream without blocking it.
Degraded(evs) == \E i \in DOMAIN evs : evs[i].seq # IF i = 1 THEN 1 ELSE evs[i - 1].seq + 1

Has(evs, type, of) == \E i \in DOMAIN evs : evs[i].type = type /\ evs[i].of = of

\* Mutant: the second look for an earlier attempt.ended is dropped.
Admits_AnyEnd(evs, q) ==
    q.type = "attempt.ended" =>
        \E i \in DOMAIN evs : evs[i].type = "attempt.decided" /\ evs[i].seq = q.of

\* attempt.ended needs its attempt.decided on record and no earlier end; a
\* decided attempt is identified by its own sequence number.
Admits(evs, q) ==
    q.type = "attempt.ended" =>
        /\ \E i \in DOMAIN evs : evs[i].type = "attempt.decided" /\ evs[i].seq = q.of
        /\ ~Has(evs, "attempt.ended", q.of)

\* _aib_anchor_read
AnchorState(a, m) ==
    CASE a = None -> "absent"
      [] a # None /\ a > m -> "ahead"
      [] a = m -> "ok"
      [] OTHER -> "lag"

-----------------------------------------------------------------------------
(***************************************************************************)
(* The steps of a commit.                                                  *)
(***************************************************************************)

Begin(w, q) ==
    /\ pc[w] = "idle"
    /\ pc' = [pc EXCEPT ![w] = "waiting"]
    /\ req' = [req EXCEPT ![w] = q]
    /\ UNCHANGED <<fileVars, lock, scan, acked>>

\* Mutant: the lock is taken shared.
Acquire_Shared(w) ==
    /\ pc[w] = "waiting"
    /\ lock' = w
    /\ pc' = [pc EXCEPT ![w] = "locked"]
    /\ UNCHANGED <<fileVars, req, scan, acked>>

Acquire(w) ==
    /\ pc[w] = "waiting"
    /\ lock = None
    /\ lock' = w
    /\ pc' = [pc EXCEPT ![w] = "locked"]
    /\ UNCHANGED <<fileVars, req, scan, acked>>

\* Where a commit goes once no tail is left.
AfterScan(q) == IF q.anchored THEN "check" ELSE "append"

\* The whole stream is validated; reanchor goes straight to the anchor.
Scan(w) ==
    /\ pc[w] = "locked"
    /\ ~Corrupt(events)
    /\ scan' = [scan EXCEPT ![w] = [highest |-> Highest(events),
                                    admits |-> Admits(events, req[w])]]
    /\ pc' = [pc EXCEPT ![w] = IF req[w].type = "reanchor" THEN "catchSync"
                               ELSE IF torn THEN "truncate"
                               ELSE AfterScan(req[w])]
    /\ UNCHANGED <<fileVars, lock, req, acked>>

\* Mutant: the offset of the tail is one frame short.
Truncate_IntoFrame(w) ==
    /\ pc[w] = "truncate"
    /\ torn' = FALSE
    /\ events' = SubSeq(events, 1, Len(events) - 1)
    /\ pc' = [pc EXCEPT ![w] = AfterScan(req[w])]
    /\ UNCHANGED <<synced, anchor, onDisk, lock, req, scan, acked>>

Truncate(w) ==
    /\ pc[w] = "truncate"
    /\ torn' = FALSE
    /\ pc' = [pc EXCEPT ![w] = AfterScan(req[w])]
    /\ UNCHANGED <<events, synced, anchor, onDisk, lock, req, scan, acked>>

\* Mutant: an anchor ahead of the stream is brought back like a lagging one.
CheckAnchor_Any(w) ==
    /\ pc[w] = "check"
    /\ pc' = [pc EXCEPT ![w] = IF AnchorState(anchor, scan[w].highest) = "ok"
                               THEN "append" ELSE "catchSync"]
    /\ UNCHANGED <<fileVars, lock, req, scan, acked>>

CheckAnchor(w) ==
    /\ pc[w] = "check"
    /\ AnchorState(anchor, scan[w].highest) # "ahead"
    /\ pc' = [pc EXCEPT ![w] = IF AnchorState(anchor, scan[w].highest) = "ok"
                               THEN "append" ELSE "catchSync"]
    /\ UNCHANGED <<fileVars, lock, req, scan, acked>>

\* aib_die, which ends the process and with it the lock: the stream is
\* corrupt, the anchor is ahead of it, or the attempt may not end.
Refused(w) ==
    \/ pc[w] = "locked" /\ Corrupt(events)
    \/ pc[w] = "check" /\ AnchorState(anchor, scan[w].highest) = "ahead"
    \/ pc[w] = "append" /\ ~scan[w].admits

Leave(w) ==
    /\ pc' = [pc EXCEPT ![w] = "idle"]
    /\ req' = [req EXCEPT ![w] = None]
    /\ scan' = [scan EXCEPT ![w] = NoScan]

Refuse(w) ==
    /\ Refused(w)
    /\ lock' = None
    /\ Leave(w)
    /\ UNCHANGED <<fileVars, acked>>

\* Mutant: the anchor is caught up without syncing the stream first.
SyncStream_AfterAppendOnly(w) ==
    /\ pc[w] \in {"catchSync", "sync"}
    /\ synced' = IF pc[w] = "sync" THEN Len(events) ELSE synced
    /\ pc' = [pc EXCEPT ![w] = IF pc[w] = "sync" THEN "move" ELSE "catchMove"]
    /\ UNCHANGED <<events, torn, anchor, onDisk, lock, req, scan, acked>>

\* Mutant: the appended frame is not synced.
SyncStream_CatchUpOnly(w) ==
    /\ pc[w] \in {"catchSync", "sync"}
    /\ synced' = IF pc[w] = "sync" THEN synced ELSE Len(events)
    /\ pc' = [pc EXCEPT ![w] = IF pc[w] = "sync" THEN "move" ELSE "catchMove"]
    /\ UNCHANGED <<events, torn, anchor, onDisk, lock, req, scan, acked>>

\* sync -d: before a caught-up anchor is published, and after the append.
SyncStream(w) ==
    /\ pc[w] \in {"catchSync", "sync"}
    /\ synced' = Len(events)
    /\ pc' = [pc EXCEPT ![w] = IF pc[w] = "sync" THEN "move" ELSE "catchMove"]
    /\ UNCHANGED <<events, torn, anchor, onDisk, lock, req, scan, acked>>

\* _aib_anchor_write: the temporary file is synced, then renamed; until the
\* directory is synced a power loss may undo the rename.
MoveAnchor(w) ==
    LET value == IF pc[w] = "move" THEN scan[w].highest + 1 ELSE scan[w].highest
    IN  /\ pc[w] \in {"catchMove", "move"}
        /\ anchor' = value
        /\ onDisk' = onDisk \cup {value}
        /\ pc' = [pc EXCEPT ![w] = IF pc[w] = "move" THEN "dir" ELSE "catchDir"]
        \* reanchor accepts that what lies above the new anchor is gone
        /\ acked' = IF req[w].type = "reanchor" THEN {s \in acked : s <= value} ELSE acked
        /\ UNCHANGED <<events, torn, synced, lock, req, scan>>

SyncDir(w) ==
    /\ pc[w] \in {"catchDir", "dir"}
    /\ onDisk' = {anchor}
    /\ pc' = [pc EXCEPT ![w] = IF pc[w] = "dir" \/ req[w].type = "reanchor"
                               THEN "release" ELSE "append"]
    /\ UNCHANGED <<events, torn, synced, anchor, lock, req, scan, acked>>

\* The frame's bytes reach the file ...
StartAppend(w) ==
    /\ pc[w] = "append"
    /\ scan[w].admits
    /\ scan[w].highest < MaxSeq
    /\ torn' = TRUE
    /\ pc' = [pc EXCEPT ![w] = "tail"]
    /\ UNCHANGED <<events, synced, anchor, onDisk, lock, req, scan, acked>>

\* ... and its LF, the commit marker.
Terminate(w) ==
    /\ pc[w] = "tail"
    /\ events' = Append(events, [seq |-> scan[w].highest + 1, type |-> req[w].type,
                                 of |-> req[w].of])
    /\ torn' = FALSE
    /\ pc' = [pc EXCEPT ![w] = IF req[w].anchored THEN "sync" ELSE "release"]
    /\ UNCHANGED <<synced, anchor, onDisk, lock, req, scan, acked>>

\* The lock is released and the caller gets event_id and sequence number.
Release(w) ==
    /\ pc[w] = "release"
    /\ acked' = IF req[w].anchored /\ req[w].type # "reanchor"
                THEN acked \cup {scan[w].highest + 1} ELSE acked
    /\ lock' = None
    /\ Leave(w)
    /\ UNCHANGED fileVars

\* The process is killed, one of its commands fails (aib_die), or it gives up
\* waiting for the lock.
Abort(w) ==
    /\ pc[w] # "idle"
    /\ lock' = IF lock = w THEN None ELSE lock
    /\ Leave(w)
    /\ UNCHANGED <<fileVars, acked>>

\* The host loses power.  Frames reach the disk in order; the tail may be a
\* partly written frame, or a truncated one whose truncation was not synced.
PowerLoss ==
    /\ \E k \in synced .. Len(events) :
         /\ events' = SubSeq(events, 1, k)
         /\ synced' = k
    /\ torn' \in BOOLEAN
    /\ \E a \in onDisk : anchor' = a /\ onDisk' = {a}
    /\ lock' = None
    /\ pc' = [w \in Writers |-> "idle"]
    /\ req' = [w \in Writers |-> None]
    /\ scan' = [w \in Writers |-> NoScan]
    /\ UNCHANGED acked

Step(w) ==
    \/ \E q \in Requested : Begin(w, q)
    \/ Acquire(w) \/ Scan(w) \/ Truncate(w) \/ CheckAnchor(w) \/ Refuse(w)
    \/ SyncStream(w) \/ MoveAnchor(w) \/ SyncDir(w) \/ StartAppend(w) \/ Terminate(w)
    \/ Release(w) \/ Abort(w)

Next == (\E w \in Writers : Step(w)) \/ PowerLoss

Spec == Init /\ [][Next]_vars

\* Somebody restores, stashes or cuts the stream file behind the writers'
\* back, between two of their writes.
Rewind ==
    /\ \A w \in Writers : pc[w] # "tail"
    /\ \E k \in 0 .. Len(events) - 1 :
         /\ events' = SubSeq(events, 1, k)
         /\ synced' = IF k < synced THEN k ELSE synced
    /\ torn' = FALSE
    /\ UNCHANGED <<anchor, onDisk, lock, pc, req, scan, acked>>

RewindSpec == Init /\ [][Next \/ Rewind]_vars
-----------------------------------------------------------------------------
(***************************************************************************)
(* Properties.                                                             *)
(***************************************************************************)

\* Neither kills, failing commands nor power losses leave the stream with a
\* gap, a duplicate or a decreasing number: only tampering makes a commit
\* refuse the stream as corrupt (aib_event_commit, scan and truncate).
Contiguous == \A i \in DOMAIN events : events[i].seq = i

\* No crash of a process or of the host makes the anchor run ahead of the
\* stream, which would block every later commit (append, sync, anchor, sync).
AnchorNeverAhead == anchor # None => anchor <= Highest(events)

\* A commit that returned with anchor_mode survives every later crash.
AckedSurvive == acked \subseteq Seqs(events)

\* Every attempt.ended on record closes one attempt.decided before it, and no
\* attempt is closed twice, although callers race and retry.
AttemptsEndOnce ==
    \A i \in DOMAIN events :
        events[i].type = "attempt.ended" =>
            /\ \E j \in 1 .. i - 1 : events[j].type = "attempt.decided" /\ events[j].seq = events[i].of
            /\ \A j \in DOMAIN events :
                 events[j].type = "attempt.ended" /\ events[j].of = events[i].of => j = i

\* An acknowledged record does not vanish unnoticed when the stream file is
\* cut behind the writers' back: either the anchor is ahead, which blocks
\* anchored commits, or a gap degrades the stream for good.
NoSilentLoss ==
    acked \subseteq Seqs(events) \/ AnchorState(anchor, Highest(events)) = "ahead"
        \/ Degraded(events)

Log == INSTANCE DurableLog WITH log <- events, firm <- synced

\* The commits implement a durable log: nothing is changed in place, records
\* are added at the end, and only unsynced ones can be lost.
ImplementsLog == Log!Spec
=============================================================================
