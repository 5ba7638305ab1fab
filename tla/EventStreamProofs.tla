------------------------- MODULE EventStreamProofs --------------------------
(***************************************************************************)
(* Proofs about EventStream for any writers, calls and bound.              *)
(*                                                                         *)
(* The inductive invariant says what a lock holder may rely on: that it    *)
(* alone holds the lock, that its scan still describes the stream, and     *)
(* that every anchor a power loss can leave, and every acknowledged        *)
(* record, lies within the synced prefix.                                  *)
(***************************************************************************)
EXTENDS EventStream, SequenceTheorems, LeastNumber

\* A writer past the flock is the holder, and the only one.
LockHeld == \A w \in Writers : pc[w] \notin {"idle", "waiting"} <=> lock = w

Committing == {"truncate", "check", "append", "tail", "sync", "move", "dir"}

\* A call in progress has its arguments; reanchor never appends, and only an
\* anchored commit syncs what it appended.
CallsKept ==
    \A w \in Writers :
        /\ pc[w] # "idle" => req[w] \in Requested
        /\ pc[w] \in Committing => req[w].type # "reanchor"
        /\ pc[w] \in {"sync", "move", "dir"} => req[w].anchored

Appended(w) == pc[w] \in {"sync", "move", "dir"} \/ (pc[w] = "release" /\ req[w].type # "reanchor")

\* What the holder scanned is still so; after its append, one frame more.
ScanFresh ==
    \A w \in Writers :
        /\ pc[w] \in {"truncate", "check", "catchSync", "catchMove", "catchDir", "append", "tail"} =>
             scan[w].highest = Len(events) /\ scan[w].admits = Admits(events, req[w])
        /\ pc[w] = "tail" => scan[w].admits /\ scan[w].highest < MaxSeq
        /\ Appended(w) => scan[w].highest + 1 = Len(events)

\* Before an anchor is moved or a commit acknowledged, its frame is synced.
SyncedFirst ==
    \A w \in Writers :
        /\ pc[w] \in {"catchMove", "catchDir", "move", "dir"} => synced = Len(events)
        /\ pc[w] = "release" /\ req[w].anchored => synced = Len(events)

\* Anchors and acknowledgements cover synced frames only.
CoverSynced ==
    /\ anchor \in onDisk
    /\ \A a \in onDisk : a # None => a <= synced
    /\ acked \subseteq 1 .. synced

IInv ==
    /\ TypeOK /\ LockHeld /\ CallsKept /\ ScanFresh /\ SyncedFirst /\ CoverSynced
    /\ Contiguous /\ AttemptsEndOnce


-----------------------------------------------------------------------------
\* A power loss leaves a prefix, and a prefix of a well-formed stream is one:
\* the facts PowerLoss needs of SubSeq.
LEMMA PrefixKeeps ==
    ASSUME Contiguous, AttemptsEndOnce, events \in Seq(Records),
           NEW k \in 0 .. Len(events), events' = SubSeq(events, 1, k)
    PROVE  /\ events' \in Seq(Records)
           /\ Len(events') = k
           /\ Contiguous'
           /\ AttemptsEndOnce'
<1>1. /\ events' \in Seq(Records) /\ Len(events') = k
      /\ DOMAIN events' = 1 .. k
      /\ \A i \in 1 .. k : events'[i] = events[i]
    BY SubSeqProperties
<1>2. DOMAIN events = 1 .. Len(events)
    BY LenProperties
<1>3. Contiguous'
    BY <1>1, <1>2 DEF Contiguous
<1>4. AttemptsEndOnce'
    BY <1>1, <1>2 DEF AttemptsEndOnce
<1> QED
    BY <1>1, <1>3, <1>4

\* The empty scan is a scan.
LEMMA NoScanType == NoScan \in Scans
    BY DEF NoScan, Scans

\* On a contiguous stream the highest number scanned is the length.
LEMMA HighestIsLen == ASSUME events \in Seq(Records), Contiguous PROVE Highest(events) = Len(events)
    BY DEF Highest, Contiguous

\* The initial states satisfy the invariant: empty stream, no anchor.
LEMMA InitIInv == Init => IInv
<1> SUFFICES ASSUME Init PROVE IInv
    OBVIOUS
<1> USE BoundAssumption, NoneAssumption
<1>1. /\ events = <<>> /\ events \in Seq(Records) /\ Len(events) = 0 /\ DOMAIN events = {}
    BY DEF Init
<1>2. TypeOK
  <2>1. torn \in BOOLEAN /\ pc \in [Writers -> PCs] /\ req \in [Writers -> Requested \cup {None}]
      BY DEF Init, PCs
  <2>2. scan \in [Writers -> Scans]
      BY NoScanType DEF Init
  <2>3. synced \in 0 .. Len(events) /\ lock \in Writers \cup {None} /\ acked \in SUBSET Nat
      BY <1>1 DEF Init
  <2>4. anchor \in Nat \cup {None} /\ onDisk \in SUBSET (Nat \cup {None})
      BY DEF Init
  <2> QED
      BY <1>1, <2>1, <2>2, <2>3, <2>4 DEF TypeOK
<1>3. LockHeld /\ CallsKept /\ ScanFresh /\ SyncedFirst
    BY <1>1 DEF Init, LockHeld, CallsKept, Committing, ScanFresh, Appended, SyncedFirst
<1>4. CoverSynced /\ Contiguous /\ AttemptsEndOnce
    BY <1>1 DEF Init, CoverSynced, Contiguous, AttemptsEndOnce
<1> QED
    BY <1>2, <1>3, <1>4 DEF IInv

\* A new call touches nothing but its own record.
LEMMA BeginKeeps == ASSUME IInv, NEW w \in Writers, NEW q \in Requested, Begin(w, q) PROVE IInv'
<1> USE BoundAssumption, NoneAssumption, RequestsAssumption
<1>1. TypeOK'
    BY NoScanType DEF IInv, TypeOK, PCs, Begin, fileVars
<1>2. LockHeld'
    BY DEF IInv, TypeOK, LockHeld, Begin, fileVars
<1>3. CallsKept'
    BY DEF IInv, TypeOK, LockHeld, CallsKept, Committing, AfterScan, Begin, fileVars
<1>4. ScanFresh'
    BY DEF IInv, TypeOK, LockHeld, CallsKept, Committing, ScanFresh, Appended, AfterScan, Begin, fileVars
<1>5. SyncedFirst'
    BY DEF IInv, TypeOK, LockHeld, CallsKept, Committing, SyncedFirst, AfterScan, Begin, fileVars
<1>6. CoverSynced'
    BY DEF IInv, TypeOK, CoverSynced, Begin, fileVars
<1>7. Contiguous' /\ AttemptsEndOnce'
    BY DEF IInv, Contiguous, AttemptsEndOnce, Begin, fileVars
<1> QED
    BY <1>1, <1>2, <1>3, <1>4, <1>5, <1>6, <1>7 DEF IInv

\* Taking the free lock keeps it exclusive.
LEMMA AcquireKeeps == ASSUME IInv, NEW w \in Writers, Acquire(w) PROVE IInv'
<1> USE BoundAssumption, NoneAssumption, RequestsAssumption
<1>1. TypeOK'
    BY NoScanType DEF IInv, TypeOK, PCs, Acquire, fileVars
<1>2. LockHeld'
    BY DEF IInv, TypeOK, LockHeld, Acquire, fileVars
<1>3. CallsKept'
    BY DEF IInv, TypeOK, LockHeld, CallsKept, Committing, AfterScan, Acquire, fileVars
<1>4. ScanFresh'
    BY DEF IInv, TypeOK, LockHeld, CallsKept, Committing, ScanFresh, Appended, AfterScan, Acquire, fileVars
<1>5. SyncedFirst'
    BY DEF IInv, TypeOK, LockHeld, CallsKept, Committing, SyncedFirst, AfterScan, Acquire, fileVars
<1>6. CoverSynced'
    BY DEF IInv, TypeOK, CoverSynced, Acquire, fileVars
<1>7. Contiguous' /\ AttemptsEndOnce'
    BY DEF IInv, Contiguous, AttemptsEndOnce, Acquire, fileVars
<1> QED
    BY <1>1, <1>2, <1>3, <1>4, <1>5, <1>6, <1>7 DEF IInv

\* Cutting the tail leaves every committed frame.
LEMMA TruncateKeeps == ASSUME IInv, NEW w \in Writers, Truncate(w) PROVE IInv'
<1> USE BoundAssumption, NoneAssumption, RequestsAssumption
<1>1. TypeOK'
    BY NoScanType DEF IInv, TypeOK, PCs, AfterScan, Truncate
<1>2. LockHeld'
    BY DEF IInv, TypeOK, LockHeld, AfterScan, Truncate
<1>3. CallsKept'
    BY DEF IInv, TypeOK, LockHeld, CallsKept, Committing, AfterScan, Truncate
<1>4. ScanFresh'
    BY DEF IInv, TypeOK, LockHeld, CallsKept, Committing, ScanFresh, Appended, AfterScan, Truncate
<1>5. SyncedFirst'
    BY DEF IInv, TypeOK, LockHeld, CallsKept, Committing, SyncedFirst, AfterScan, Truncate
<1>6. CoverSynced'
    BY DEF IInv, TypeOK, CoverSynced, Truncate
<1>7. Contiguous' /\ AttemptsEndOnce'
    BY DEF IInv, Contiguous, AttemptsEndOnce, Truncate
<1> QED
    BY <1>1, <1>2, <1>3, <1>4, <1>5, <1>6, <1>7 DEF IInv

\* The anchor check changes no file.
LEMMA CheckAnchorKeeps == ASSUME IInv, NEW w \in Writers, CheckAnchor(w) PROVE IInv'
<1> USE BoundAssumption, NoneAssumption, RequestsAssumption
<1>1. TypeOK'
    BY NoScanType DEF IInv, TypeOK, PCs, CheckAnchor, fileVars
<1>2. LockHeld'
    BY DEF IInv, TypeOK, LockHeld, CheckAnchor, fileVars
<1>3. CallsKept'
    BY DEF IInv, TypeOK, LockHeld, CallsKept, Committing, AfterScan, CheckAnchor, fileVars
<1>4. ScanFresh'
    BY DEF IInv, TypeOK, LockHeld, CallsKept, Committing, ScanFresh, Appended, AfterScan, CheckAnchor, fileVars
<1>5. SyncedFirst'
    BY DEF IInv, TypeOK, LockHeld, CallsKept, Committing, SyncedFirst, AfterScan, CheckAnchor, fileVars
<1>6. CoverSynced'
    BY DEF IInv, TypeOK, CoverSynced, CheckAnchor, fileVars
<1>7. Contiguous' /\ AttemptsEndOnce'
    BY DEF IInv, Contiguous, AttemptsEndOnce, CheckAnchor, fileVars
<1> QED
    BY <1>1, <1>2, <1>3, <1>4, <1>5, <1>6, <1>7 DEF IInv

\* A refusal releases the lock and forgets the scan.
LEMMA RefuseKeeps == ASSUME IInv, NEW w \in Writers, Refuse(w) PROVE IInv'
<1> USE BoundAssumption, NoneAssumption, RequestsAssumption
<1>1. TypeOK'
    BY NoScanType DEF IInv, TypeOK, PCs, Refuse, Leave, fileVars, Refused
<1>2. LockHeld'
    BY DEF IInv, TypeOK, LockHeld, Refuse, Leave, fileVars, Refused
<1>3. CallsKept'
    BY DEF IInv, TypeOK, LockHeld, CallsKept, Committing, AfterScan, Refuse, Leave, fileVars, Refused
<1>4. ScanFresh'
    BY DEF IInv, TypeOK, LockHeld, CallsKept, Committing, ScanFresh, Appended, AfterScan, Refuse, Leave, fileVars, Refused
<1>5. SyncedFirst'
    BY DEF IInv, TypeOK, LockHeld, CallsKept, Committing, SyncedFirst, AfterScan, Refuse, Leave, fileVars, Refused
<1>6. CoverSynced'
    BY DEF IInv, TypeOK, CoverSynced, Refuse, Leave, fileVars, Refused
<1>7. Contiguous' /\ AttemptsEndOnce'
    BY DEF IInv, Contiguous, AttemptsEndOnce, Refuse, Leave, fileVars, Refused
<1> QED
    BY <1>1, <1>2, <1>3, <1>4, <1>5, <1>6, <1>7 DEF IInv

\* A killed process leaves the files as they are.
LEMMA AbortKeeps == ASSUME IInv, NEW w \in Writers, Abort(w) PROVE IInv'
<1> USE BoundAssumption, NoneAssumption, RequestsAssumption
<1>1. TypeOK'
    BY NoScanType DEF IInv, TypeOK, PCs, Abort, Leave, fileVars
<1>2. LockHeld'
    BY DEF IInv, TypeOK, LockHeld, Abort, Leave, fileVars
<1>3. CallsKept'
    BY DEF IInv, TypeOK, LockHeld, CallsKept, Committing, AfterScan, Abort, Leave, fileVars
<1>4. ScanFresh'
    BY DEF IInv, TypeOK, LockHeld, CallsKept, Committing, ScanFresh, Appended, AfterScan, Abort, Leave, fileVars
<1>5. SyncedFirst'
    BY DEF IInv, TypeOK, LockHeld, CallsKept, Committing, SyncedFirst, AfterScan, Abort, Leave, fileVars
<1>6. CoverSynced'
    BY DEF IInv, TypeOK, CoverSynced, Abort, Leave, fileVars
<1>7. Contiguous' /\ AttemptsEndOnce'
    BY DEF IInv, Contiguous, AttemptsEndOnce, Abort, Leave, fileVars
<1> QED
    BY <1>1, <1>2, <1>3, <1>4, <1>5, <1>6, <1>7 DEF IInv

\* A sync covers the whole stream.
LEMMA SyncStreamKeeps == ASSUME IInv, NEW w \in Writers, SyncStream(w) PROVE IInv'
<1> USE BoundAssumption, NoneAssumption, RequestsAssumption
<1>1. TypeOK'
    BY NoScanType DEF IInv, TypeOK, PCs, SyncStream
<1>2. LockHeld'
    BY DEF IInv, TypeOK, LockHeld, SyncStream
<1>3. CallsKept'
    BY DEF IInv, TypeOK, LockHeld, CallsKept, Committing, AfterScan, SyncStream
<1>4. ScanFresh'
    BY DEF IInv, TypeOK, LockHeld, CallsKept, Committing, ScanFresh, Appended, AfterScan, SyncStream
<1>5. SyncedFirst'
    BY DEF IInv, TypeOK, LockHeld, CallsKept, Committing, SyncedFirst, AfterScan, SyncStream
<1>6. CoverSynced'
    BY DEF IInv, TypeOK, CoverSynced, SyncStream
<1>7. Contiguous' /\ AttemptsEndOnce'
    BY DEF IInv, Contiguous, AttemptsEndOnce, SyncStream
<1> QED
    BY <1>1, <1>2, <1>3, <1>4, <1>5, <1>6, <1>7 DEF IInv

\* The anchor moves only to the end of the synced stream.
LEMMA MoveAnchorKeeps == ASSUME IInv, NEW w \in Writers, MoveAnchor(w) PROVE IInv'
<1> USE BoundAssumption, NoneAssumption, RequestsAssumption
<1> DEFINE value == IF pc[w] = "move" THEN scan[w].highest + 1 ELSE scan[w].highest
<1>a. value = Len(events) /\ synced = Len(events) /\ value \in Nat
    BY DEF IInv, TypeOK, ScanFresh, SyncedFirst, Appended, MoveAnchor
<1>b. /\ anchor' = value /\ onDisk' = onDisk \cup {value} /\ synced' = synced
      /\ acked' \subseteq acked
    BY DEF MoveAnchor
<1> HIDE DEF value
<1>1. TypeOK'
    BY <1>a, <1>b DEF IInv, TypeOK, PCs, MoveAnchor
<1>2. LockHeld'
    BY DEF IInv, TypeOK, LockHeld, MoveAnchor
<1>3. CallsKept'
    BY DEF IInv, TypeOK, LockHeld, CallsKept, Committing, AfterScan, MoveAnchor
<1>4. ScanFresh'
    BY DEF IInv, TypeOK, LockHeld, CallsKept, Committing, ScanFresh, Appended, AfterScan, MoveAnchor
<1>5. SyncedFirst'
    BY DEF IInv, TypeOK, LockHeld, CallsKept, Committing, SyncedFirst, AfterScan, MoveAnchor
<1>6. CoverSynced'
    BY <1>a, <1>b DEF IInv, TypeOK, CoverSynced
<1>7. Contiguous' /\ AttemptsEndOnce'
    BY DEF IInv, Contiguous, AttemptsEndOnce, MoveAnchor
<1> QED
    BY <1>1, <1>2, <1>3, <1>4, <1>5, <1>6, <1>7 DEF IInv

\* Syncing the directory drops the older anchors.
LEMMA SyncDirKeeps == ASSUME IInv, NEW w \in Writers, SyncDir(w) PROVE IInv'
<1> USE BoundAssumption, NoneAssumption, RequestsAssumption
<1>1. TypeOK'
    BY NoScanType DEF IInv, TypeOK, PCs, SyncDir
<1>2. LockHeld'
    BY DEF IInv, TypeOK, LockHeld, SyncDir
<1>3. CallsKept'
    BY DEF IInv, TypeOK, LockHeld, CallsKept, Committing, AfterScan, SyncDir
<1>4. ScanFresh'
    BY DEF IInv, TypeOK, LockHeld, CallsKept, Committing, ScanFresh, Appended, AfterScan, SyncDir
<1>5. SyncedFirst'
    BY DEF IInv, TypeOK, LockHeld, CallsKept, Committing, SyncedFirst, AfterScan, SyncDir
<1>6. CoverSynced'
    BY DEF IInv, TypeOK, CoverSynced, SyncDir
<1>7. Contiguous' /\ AttemptsEndOnce'
    BY DEF IInv, Contiguous, AttemptsEndOnce, SyncDir
<1> QED
    BY <1>1, <1>2, <1>3, <1>4, <1>5, <1>6, <1>7 DEF IInv

\* An unterminated tail is no frame.
LEMMA StartAppendKeeps == ASSUME IInv, NEW w \in Writers, StartAppend(w) PROVE IInv'
<1> USE BoundAssumption, NoneAssumption, RequestsAssumption
<1>1. TypeOK'
    BY NoScanType DEF IInv, TypeOK, PCs, StartAppend
<1>2. LockHeld'
    BY DEF IInv, TypeOK, LockHeld, StartAppend
<1>3. CallsKept'
    BY DEF IInv, TypeOK, LockHeld, CallsKept, Committing, AfterScan, StartAppend
<1>4. ScanFresh'
    BY DEF IInv, TypeOK, LockHeld, CallsKept, Committing, ScanFresh, Appended, AfterScan, StartAppend
<1>5. SyncedFirst'
    BY DEF IInv, TypeOK, LockHeld, CallsKept, Committing, SyncedFirst, AfterScan, StartAppend
<1>6. CoverSynced'
    BY DEF IInv, TypeOK, CoverSynced, StartAppend
<1>7. Contiguous' /\ AttemptsEndOnce'
    BY DEF IInv, Contiguous, AttemptsEndOnce, StartAppend
<1> QED
    BY <1>1, <1>2, <1>3, <1>4, <1>5, <1>6, <1>7 DEF IInv

\* An anchored commit is acknowledged once its frame is synced.
LEMMA ReleaseKeeps == ASSUME IInv, NEW w \in Writers, Release(w) PROVE IInv'
<1> USE BoundAssumption, NoneAssumption, RequestsAssumption
<1>a. acked' \subseteq acked \cup (1 .. synced)
  <2>1. CASE req[w].anchored /\ req[w].type # "reanchor"
    <3>1. scan[w].highest + 1 = Len(events) /\ synced = Len(events)
        BY <2>1 DEF IInv, ScanFresh, SyncedFirst, Appended, Release
    <3>2. scan[w].highest \in Nat
        BY DEF IInv, TypeOK, Scans
    <3>3. scan[w].highest + 1 \in 1 .. synced
        BY <3>1, <3>2
    <3>4. acked' = acked \cup {scan[w].highest + 1}
        BY <2>1 DEF Release
    <3> QED
        BY <3>3, <3>4
  <2>2. CASE ~(req[w].anchored /\ req[w].type # "reanchor")
      BY <2>2 DEF Release
  <2> QED
      BY <2>1, <2>2
<1>b. acked' \in SUBSET Nat
    BY <1>a DEF IInv, TypeOK
<1>1. TypeOK'
    BY <1>b, NoScanType DEF IInv, TypeOK, PCs, Release, Leave, fileVars
<1>2. LockHeld'
    BY DEF IInv, TypeOK, LockHeld, Release, Leave, fileVars
<1>3. CallsKept'
    BY DEF IInv, TypeOK, LockHeld, CallsKept, Committing, AfterScan, Release, Leave, fileVars
<1>4. ScanFresh'
    BY DEF IInv, TypeOK, LockHeld, CallsKept, Committing, ScanFresh, Appended, AfterScan, Release, Leave, fileVars
<1>5. SyncedFirst'
    BY DEF IInv, TypeOK, LockHeld, CallsKept, Committing, SyncedFirst, AfterScan, Release, Leave, fileVars
<1>6. CoverSynced'
    BY <1>a DEF IInv, TypeOK, CoverSynced, Release, Leave, fileVars
<1>7. Contiguous' /\ AttemptsEndOnce'
    BY DEF IInv, Contiguous, AttemptsEndOnce, Release, Leave, fileVars
<1> QED
    BY <1>1, <1>2, <1>3, <1>4, <1>5, <1>6, <1>7 DEF IInv

\* A scan under the lock describes the stream the holder goes on with.
LEMMA ScanKeeps == ASSUME IInv, NEW w \in Writers, Scan(w) PROVE IInv'
<1> USE BoundAssumption, NoneAssumption, RequestsAssumption
<1>1. Highest(events) = Len(events) /\ Len(events) \in Nat
    BY HighestIsLen DEF IInv, TypeOK
<1>2. Admits(events, req[w]) \in BOOLEAN
    BY DEF Admits
<1> DEFINE found == [highest |-> Highest(events), admits |-> Admits(events, req[w])]
<1>3. /\ found \in Scans
      /\ found.highest = Len(events)
      /\ found.admits = Admits(events, req[w])
    BY <1>1, <1>2 DEF Scans
<1>4. /\ scan' = [scan EXCEPT ![w] = found]
      /\ pc[w] = "locked"
      /\ pc' = [pc EXCEPT ![w] = IF req[w].type = "reanchor" THEN "catchSync"
                                 ELSE IF torn THEN "truncate" ELSE AfterScan(req[w])]
      /\ UNCHANGED <<events, torn, synced, anchor, onDisk, lock, req, acked>>
    BY DEF Scan, fileVars
<1> HIDE DEF found
<1>5. TypeOK'
    BY <1>3, <1>4 DEF IInv, TypeOK, PCs, AfterScan
<1>6. LockHeld' /\ CallsKept' /\ SyncedFirst'
    BY <1>4 DEF IInv, TypeOK, LockHeld, CallsKept, Committing, SyncedFirst, AfterScan
<1>7. Admits(events, req[w])' = Admits(events, req[w])
    BY <1>4
<1>8. ScanFresh'
  <2> SUFFICES ASSUME NEW v \in Writers PROVE ScanFresh!(v)'
      BY DEF ScanFresh
  <2> QED
      BY <1>3, <1>4 DEF IInv, TypeOK, ScanFresh, Appended, AfterScan
<1>9. CoverSynced' /\ Contiguous' /\ AttemptsEndOnce'
    BY <1>4 DEF IInv, CoverSynced, Contiguous, AttemptsEndOnce
<1> QED
    BY <1>5, <1>6, <1>8, <1>9 DEF IInv

\* The committed frame gets the next number, and an attempt.ended is one the
\* holder found admissible in the very stream it is appended to.
LEMMA TerminateKeeps == ASSUME IInv, NEW w \in Writers, Terminate(w) PROVE IInv'
<1> USE BoundAssumption, NoneAssumption, RequestsAssumption
<1> DEFINE q == req[w]
           r == [seq |-> scan[w].highest + 1, type |-> q.type, of |-> q.of]
<1>1. /\ q \in Requests /\ q.type \in Types /\ q.of \in 0 .. MaxSeq
      /\ scan[w].highest = Len(events) /\ scan[w].highest < MaxSeq
      /\ Admits(events, q)
    BY DEF IInv, CallsKept, Committing, ScanFresh, Terminate, Requests
<1>2. Len(events) \in Nat /\ DOMAIN events = 1 .. Len(events)
    BY LenProperties DEF IInv, TypeOK
<1>3. /\ r \in Records /\ r.seq = Len(events) + 1 /\ r.type = q.type /\ r.of = q.of
    BY <1>1, <1>2 DEF Records
<1>4. /\ events' = Append(events, r) /\ torn' = FALSE
      /\ pc[w] = "tail"
      /\ pc' = [pc EXCEPT ![w] = IF q.anchored THEN "sync" ELSE "release"]
      /\ UNCHANGED <<synced, anchor, onDisk, lock, req, scan, acked>>
    BY DEF Terminate
<1> HIDE DEF r
<1>5. /\ events' \in Seq(Records) /\ Len(events') = Len(events) + 1
      /\ DOMAIN events' = 1 .. Len(events) + 1
      /\ \A i \in 1 .. Len(events) : events'[i] = events[i]
      /\ events'[Len(events) + 1] = r
    BY <1>3, <1>4, AppendProperties, LenProperties DEF IInv, TypeOK
<1>6. TypeOK'
  <2>1. synced' \in 0 .. Len(events')
      BY <1>2, <1>4, <1>5 DEF IInv, TypeOK
  <2>2. pc' \in [Writers -> PCs]
      BY <1>4 DEF IInv, TypeOK, PCs
  <2> QED
      BY <1>4, <1>5, <2>1, <2>2 DEF IInv, TypeOK
<1>7. LockHeld' /\ CallsKept' /\ SyncedFirst'
    BY <1>4 DEF IInv, TypeOK, LockHeld, CallsKept, Committing, SyncedFirst
<1>8. ScanFresh'
  <2>1. pc'[w] \in {"sync", "release"} /\ scan'[w].highest + 1 = Len(events')
      BY <1>1, <1>4, <1>5 DEF IInv, TypeOK
  <2>2. ASSUME NEW v \in Writers, v # w PROVE pc'[v] \in {"idle", "waiting"}
      BY <1>4, <2>2 DEF IInv, TypeOK, LockHeld
  <2> QED
      BY <2>1, <2>2 DEF ScanFresh, Appended
<1>9. CoverSynced'
    BY <1>4 DEF IInv, CoverSynced
<1>10. Contiguous'
    BY <1>2, <1>3, <1>5 DEF IInv, Contiguous
<1>11. AttemptsEndOnce'
  <2> DEFINE n == Len(events) + 1
  <2>1. n \in Nat /\ n \notin 1 .. Len(events) /\ \A i \in 1 .. n : i = n \/ i \in 1 .. Len(events)
      BY <1>2
  <2>2. q.type = "attempt.ended" =>
          /\ \E j \in 1 .. Len(events) : events[j].type = "attempt.decided" /\ events[j].seq = q.of
          /\ \A j \in 1 .. Len(events) : ~(events[j].type = "attempt.ended" /\ events[j].of = q.of)
      BY <1>1, <1>2 DEF Admits, Has
  <2> SUFFICES ASSUME NEW i \in 1 .. n, events'[i].type = "attempt.ended"
               PROVE  /\ \E j \in 1 .. i - 1 : /\ events'[j].type = "attempt.decided"
                                                /\ events'[j].seq = events'[i].of
                      /\ \A j \in 1 .. n : events'[j].type = "attempt.ended"
                                             /\ events'[j].of = events'[i].of => j = i
      BY <1>5 DEF AttemptsEndOnce
  <2>3. CASE i = n
      BY <1>2, <1>3, <1>5, <2>1, <2>2, <2>3
  <2>4. CASE i \in 1 .. Len(events)
    <3>1. /\ \E j \in 1 .. i - 1 : events[j].type = "attempt.decided" /\ events[j].seq = events[i].of
          /\ \A j \in 1 .. Len(events) :
               events[j].type = "attempt.ended" /\ events[j].of = events[i].of => j = i
        BY <1>2, <1>5, <2>4 DEF IInv, AttemptsEndOnce
    <3>2. ~(events'[n].type = "attempt.ended" /\ events'[n].of = events'[i].of)
        BY <1>3, <1>5, <2>2, <2>4
    <3> QED
        BY <1>2, <1>5, <2>1, <2>4, <3>1, <3>2
  <2> QED
      BY <2>1, <2>3, <2>4
<1> QED
    BY <1>6, <1>7, <1>8, <1>9, <1>10, <1>11 DEF IInv

\* A power loss takes unsynced frames only, and with them no acknowledged
\* record and nothing an anchor on disk covers.
LEMMA PowerLossKeeps == ASSUME IInv, PowerLoss PROVE IInv'
<1> USE BoundAssumption, NoneAssumption
<1>1. PICK k \in synced .. Len(events) : events' = SubSeq(events, 1, k) /\ synced' = k
    BY DEF PowerLoss
<1>2. PICK a \in onDisk : anchor' = a /\ onDisk' = {a}
    BY DEF PowerLoss
<1>3. k \in 0 .. Len(events) /\ k \in Nat /\ synced \in Nat /\ synced <= k
    BY DEF IInv, TypeOK
<1>4. events' \in Seq(Records) /\ Len(events') = k /\ Contiguous' /\ AttemptsEndOnce'
    BY <1>1, <1>3, PrefixKeeps DEF IInv, TypeOK
<1>5. TypeOK'
    BY <1>1, <1>2, <1>3, <1>4, NoScanType DEF IInv, TypeOK, PCs, PowerLoss
<1>6. LockHeld' /\ CallsKept' /\ ScanFresh' /\ SyncedFirst'
    BY DEF PowerLoss, LockHeld, CallsKept, Committing, ScanFresh, Appended, SyncedFirst
<1>7. CoverSynced'
    BY <1>1, <1>2, <1>3 DEF IInv, TypeOK, CoverSynced, PowerLoss
<1> QED
    BY <1>4, <1>5, <1>6, <1>7 DEF IInv

\* Every step of the stream's writers, and a power loss, keep the invariant.
LEMMA NextKeeps == IInv /\ [Next]_vars => IInv'
<1> SUFFICES ASSUME IInv, [Next]_vars PROVE IInv'
    OBVIOUS
<1>1. CASE Next
  <2>1. ASSUME NEW w \in Writers, Step(w) PROVE IInv'
      BY <2>1, BeginKeeps, AcquireKeeps, ScanKeeps, TruncateKeeps, CheckAnchorKeeps, RefuseKeeps,
         SyncStreamKeeps, MoveAnchorKeeps, SyncDirKeeps, StartAppendKeeps, TerminateKeeps,
         ReleaseKeeps, AbortKeeps DEF Step
  <2> QED
      BY <1>1, <2>1, PowerLossKeeps DEF Next
<1>2. CASE UNCHANGED vars
    BY <1>2 DEF vars, IInv, TypeOK, LockHeld, CallsKept, Committing, ScanFresh, Appended, SyncedFirst,
       CoverSynced, Contiguous, AttemptsEndOnce, Admits, Has
<1> QED
    BY <1>1, <1>2

\* The invariant holds in every reachable state of the stream.
THEOREM Invariant == Spec => []IInv
<1>1. Init => IInv
    BY InitIInv
<1>2. IInv /\ [Next]_vars => IInv'
    BY NextKeeps
<1> QED
    BY <1>1, <1>2, PTL DEF Spec
-----------------------------------------------------------------------------
\* Type correctness of a commit's state (aib_event_commit).
THEOREM StreamTypes == Spec => []TypeOK
<1>1. IInv => TypeOK
    BY DEF IInv
<1> QED
    BY <1>1, Invariant, PTL

\* No crash leaves a gap, a duplicate or a decreasing number in the stream.
THEOREM StreamContiguous == Spec => []Contiguous
<1>1. IInv => Contiguous
    BY DEF IInv
<1> QED
    BY <1>1, Invariant, PTL

\* No crash makes the anchor run ahead of the stream, so an "anchor ahead"
\* refusal always means that frames were taken away.
THEOREM StreamAnchored == Spec => []AnchorNeverAhead
<1>1. IInv => AnchorNeverAhead
    BY HighestIsLen, NoneAssumption DEF IInv, TypeOK, CoverSynced, AnchorNeverAhead
<1> QED
    BY <1>1, Invariant, PTL

\* An anchored commit that returned is never lost to a crash.
THEOREM AcknowledgedSurvive == Spec => []AckedSurvive
<1>1. ASSUME IInv, NEW s \in acked PROVE s \in Seqs(events)
  <2>1. s \in 1 .. Len(events) /\ DOMAIN events = 1 .. Len(events)
      BY <1>1, LenProperties DEF IInv, TypeOK, CoverSynced
  <2>2. events[s].seq = s
      BY <1>1, <2>1 DEF IInv, Contiguous
  <2> QED
      BY <2>1, <2>2 DEF Seqs
<1>2. IInv => AckedSurvive
    BY <1>1 DEF AckedSurvive
<1> QED
    BY <1>2, Invariant, PTL

\* However callers race and retry, an attempt on record ends at most once, and
\* only after it was decided.
THEOREM AttemptsEnd == Spec => []AttemptsEndOnce
<1>1. IInv => AttemptsEndOnce
    BY DEF IInv
<1> QED
    BY <1>1, Invariant, PTL

\* The stream's commits implement the durable log.
THEOREM StreamIsDurableLog == Spec => ImplementsLog
<1>1. Init => Log!Init
    BY DEF Init, Log!Init
<1>2. ASSUME IInv, [Next]_vars PROVE [Log!Next]_(Log!logVars)
  <2>1. CASE PowerLoss
      BY <2>1 DEF PowerLoss, Log!Next, Log!Lose
  <2>2. ASSUME NEW w \in Writers, Terminate(w) PROVE Log!Next
    <3> DEFINE r == [seq |-> scan[w].highest + 1, type |-> req[w].type, of |-> req[w].of]
    <3>1. /\ req[w] \in Requests /\ req[w].type \in Types /\ req[w].of \in 0 .. MaxSeq
          /\ scan[w].highest = Len(events) /\ scan[w].highest < MaxSeq /\ Len(events) \in Nat
        BY <1>2, <2>2, RequestsAssumption
        DEF IInv, TypeOK, CallsKept, Committing, ScanFresh, Terminate, Requests
    <3>2. r \in Records
        BY <3>1, BoundAssumption DEF Records
    <3>3. events' = Append(events, r) /\ synced' = synced
        BY <2>2 DEF Terminate
    <3> HIDE DEF r
    <3> QED
        BY <3>2, <3>3 DEF Log!Next, Log!Add
  <2>3. ASSUME NEW w \in Writers, SyncStream(w) PROVE Log!Next
    <3>1. Len(events) \in synced .. Len(events) /\ synced' = Len(events) /\ events' = events
        BY <1>2, <2>3 DEF IInv, TypeOK, SyncStream
    <3> QED
        BY <3>1 DEF Log!Next, Log!Harden
  <2>4. ASSUME NEW w \in Writers, Step(w), ~Terminate(w), ~SyncStream(w) PROVE UNCHANGED Log!logVars
      BY <2>4 DEF Step, Begin, Acquire, Scan, Truncate, CheckAnchor, Refuse, MoveAnchor, SyncDir,
         StartAppend, Release, Abort, fileVars, Log!logVars
  <2>5. CASE UNCHANGED vars
      BY <2>5 DEF vars, Log!logVars
  <2> QED
      BY <1>2, <2>1, <2>2, <2>3, <2>4, <2>5 DEF Next
<1> QED
    BY <1>1, <1>2, Invariant, PTL DEF Spec, ImplementsLog, Log!Spec
-----------------------------------------------------------------------------
(***************************************************************************)
(* Streams cut behind the writers' back.  A scan may now be stale and the  *)
(* numbers may have gaps; what remains is that no acknowledged number is   *)
(* above an anchor a power loss may leave.                                 *)
(***************************************************************************)

\* Every anchor that may be read now or after a power loss covers what was
\* acknowledged.
AckedAnchored ==
    /\ anchor \in onDisk
    /\ \A s \in acked : s >= 1 /\ \A a \in onDisk : a # None /\ s <= a

\* What an anchored commit knows of the acknowledged numbers once it has
\* passed the anchor check, and what it has put into place when it returns.
CommitCovers(w) ==
    /\ pc[w] = "tail" => scan[w].highest < MaxSeq
    /\ /\ pc[w] \in {"catchSync", "catchMove", "catchDir", "append", "tail", "sync", "move"}
       /\ req[w].type # "reanchor" /\ req[w].anchored
       => \A s \in acked : s <= scan[w].highest
    /\ pc[w] \in {"check", "catchSync", "catchMove", "catchDir"} =>
         req[w].type = "reanchor" \/ req[w].anchored
    /\ pc[w] = "dir" => anchor = scan[w].highest + 1
    /\ pc[w] = "release" /\ req[w].type # "reanchor" /\ req[w].anchored =>
         anchor = scan[w].highest + 1 /\ onDisk = {anchor}

RInv ==
    /\ TypeOK /\ LockHeld /\ CallsKept /\ AckedAnchored
    /\ \A w \in Writers : CommitCovers(w)

\* The highest number of a stream, with or without gaps, is a number.
LEMMA HighestType == ASSUME events \in Seq(Records) PROVE Highest(events) \in Nat
<1>1. CASE events = <<>>
    BY <1>1 DEF Highest
<1>2. CASE events # <<>>
  <2>1. Len(events) \in DOMAIN events
      BY <1>2, LenProperties
  <2>2. events[Len(events)] \in Records
      BY <2>1, ElementOfSeq
  <2> QED
      BY <1>2, <2>2, BoundAssumption DEF Highest, Records
<1> QED
    BY <1>1, <1>2

\* The steps that leave files and acknowledgements alone: the anchor check is
\* what makes an anchored commit cover the acknowledged numbers.
LEMMA RewindLocalSteps ==
    ASSUME RInv, NEW w \in Writers,
           \/ \E q \in Requested : Begin(w, q)
           \/ Acquire(w) \/ Truncate(w) \/ Scan(w) \/ CheckAnchor(w) \/ SyncStream(w)
           \/ StartAppend(w) \/ Refuse(w) \/ Abort(w)
    PROVE  RInv'
<1> USE BoundAssumption, NoneAssumption, RequestsAssumption
<1>1. /\ UNCHANGED <<events, anchor, onDisk, acked>>
      /\ synced' \in {synced, Len(events)} /\ torn' \in BOOLEAN
      /\ \A v \in Writers : v # w => pc'[v] = pc[v] /\ req'[v] = req[v] /\ scan'[v] = scan[v]
    BY DEF RInv, TypeOK, Begin, Acquire, Truncate, Scan, CheckAnchor, SyncStream, StartAppend,
           Refuse, Abort, Leave, fileVars
<1>2. AckedAnchored' /\ (\A s \in acked : anchor \in Nat /\ s <= anchor)
    BY <1>1 DEF RInv, TypeOK, AckedAnchored
<1>3. ASSUME NEW v \in Writers, v # w PROVE CommitCovers(v)'
    BY <1>1, <1>3 DEF RInv, CommitCovers
<1>4. CASE \E q \in Requested : Begin(w, q)
  <2>1. TypeOK' /\ LockHeld' /\ CallsKept' /\ CommitCovers(w)'
      BY <1>4 DEF RInv, TypeOK, PCs, LockHeld, CallsKept, Committing, CommitCovers, Begin, fileVars
  <2> QED
      BY <1>2, <1>3, <2>1 DEF RInv
<1>5. CASE Acquire(w)
  <2>1. TypeOK' /\ LockHeld' /\ CallsKept' /\ CommitCovers(w)'
      BY <1>5 DEF RInv, TypeOK, PCs, LockHeld, CallsKept, Committing, CommitCovers, Acquire, fileVars
  <2> QED
      BY <1>2, <1>3, <2>1 DEF RInv
<1>6. CASE Truncate(w)
  <2>1. TypeOK' /\ LockHeld' /\ CallsKept' /\ CommitCovers(w)'
      BY <1>6 DEF RInv, TypeOK, PCs, LockHeld, CallsKept, Committing, CommitCovers, Truncate,
                  AfterScan
  <2> QED
      BY <1>2, <1>3, <2>1 DEF RInv
<1>7. CASE Scan(w)
  <2> DEFINE found == [highest |-> Highest(events), admits |-> Admits(events, req[w])]
  <2>1. Highest(events) \in Nat /\ Admits(events, req[w]) \in BOOLEAN
      BY HighestType DEF RInv, TypeOK, Admits
  <2>2. found \in Scans
      BY <2>1 DEF Scans
  <2>3. /\ scan' = [scan EXCEPT ![w] = found]
        /\ pc[w] = "locked"
        /\ pc' = [pc EXCEPT ![w] = IF req[w].type = "reanchor" THEN "catchSync"
                                   ELSE IF torn THEN "truncate" ELSE AfterScan(req[w])]
        /\ UNCHANGED <<events, torn, synced, anchor, onDisk, lock, req, acked>>
      BY <1>7 DEF Scan, fileVars
  <2> HIDE DEF found
  <2>4. TypeOK'
      BY <2>2, <2>3 DEF RInv, TypeOK, PCs, AfterScan
  <2>5. LockHeld' /\ CallsKept' /\ CommitCovers(w)'
      BY <2>3 DEF RInv, TypeOK, LockHeld, CallsKept, Committing, CommitCovers, AfterScan
  <2> QED
      BY <1>2, <1>3, <2>4, <2>5 DEF RInv
<1>8. CASE CheckAnchor(w)
  <2>1. TypeOK' /\ LockHeld' /\ CallsKept'
      BY <1>8 DEF RInv, TypeOK, PCs, LockHeld, CallsKept, Committing, CheckAnchor, fileVars
  <2>2. scan[w].highest \in Nat /\ AnchorState(anchor, scan[w].highest) # "ahead"
      BY <1>8 DEF RInv, TypeOK, Scans, CheckAnchor
  <2>3. \A s \in acked : s <= scan[w].highest
      BY <1>2, <2>2 DEF AnchorState, RInv, TypeOK
  <2>4. CommitCovers(w)'
      BY <1>8, <2>3 DEF RInv, TypeOK, CommitCovers, CheckAnchor, fileVars
  <2> QED
      BY <1>2, <1>3, <2>1, <2>4 DEF RInv
<1>9. CASE SyncStream(w)
  <2>1. TypeOK' /\ LockHeld' /\ CallsKept' /\ CommitCovers(w)'
      BY <1>9 DEF RInv, TypeOK, PCs, LockHeld, CallsKept, Committing, CommitCovers, SyncStream
  <2> QED
      BY <1>2, <1>3, <2>1 DEF RInv
<1>10. CASE StartAppend(w)
  <2>1. TypeOK' /\ LockHeld' /\ CallsKept' /\ CommitCovers(w)'
      BY <1>10 DEF RInv, TypeOK, PCs, LockHeld, CallsKept, Committing, CommitCovers, StartAppend
  <2> QED
      BY <1>2, <1>3, <2>1 DEF RInv
<1>11. CASE Refuse(w) \/ Abort(w)
  <2>1. TypeOK'
    <3>1. lock' \in Writers \cup {None}
        BY <1>11 DEF RInv, TypeOK, Refuse, Abort
    <3>2. Leave(w) /\ UNCHANGED <<events, torn, synced, anchor, onDisk, acked>>
        BY <1>11 DEF Refuse, Abort, fileVars
    <3> QED
        BY <3>1, <3>2, NoScanType DEF RInv, TypeOK, PCs, Leave
  <2>2. LockHeld' /\ CallsKept' /\ CommitCovers(w)'
      BY <1>11 DEF RInv, TypeOK, LockHeld, CallsKept, Committing, CommitCovers, Refuse, Refused,
                   Abort, Leave, fileVars
  <2> QED
      BY <1>2, <1>3, <2>1, <2>2 DEF RInv
<1> QED
    BY <1>4, <1>5, <1>6, <1>7, <1>8, <1>9, <1>10, <1>11

\* The steps that write: an anchor never moves below an acknowledged number,
\* except by a reanchor, which gives those up.
LEMMA RewindWrites ==
    ASSUME RInv, NEW w \in Writers,
           Terminate(w) \/ MoveAnchor(w) \/ SyncDir(w) \/ Release(w)
    PROVE  RInv'
<1> USE BoundAssumption, NoneAssumption, RequestsAssumption
<1>1. lock = w /\ scan[w] \in Scans /\ scan[w].highest \in Nat
    BY DEF RInv, TypeOK, LockHeld, Scans, Terminate, MoveAnchor, SyncDir, Release
<1>2. \A v \in Writers : v # w =>
        /\ pc[v] \in {"idle", "waiting"} /\ pc'[v] = pc[v]
        /\ req'[v] = req[v] /\ scan'[v] = scan[v]
    BY <1>1 DEF RInv, TypeOK, LockHeld, Terminate, MoveAnchor, SyncDir, Release, Leave
<1>3. ASSUME NEW v \in Writers, v # w PROVE CommitCovers(v)'
    BY <1>2, <1>3 DEF CommitCovers
<1>4. CASE Terminate(w)
  <2> DEFINE r == [seq |-> scan[w].highest + 1, type |-> req[w].type, of |-> req[w].of]
  <2>1. /\ req[w] \in Requests /\ req[w].type \in Types /\ req[w].of \in 0 .. MaxSeq
        /\ scan[w].highest < MaxSeq
      BY <1>4 DEF RInv, CallsKept, Committing, CommitCovers, Terminate, Requests
  <2>2. r \in Records
      BY <1>1, <2>1 DEF Records
  <2>3. /\ events' = Append(events, r) /\ torn' = FALSE
        /\ pc[w] = "tail"
        /\ pc' = [pc EXCEPT ![w] = IF req[w].anchored THEN "sync" ELSE "release"]
        /\ UNCHANGED <<synced, anchor, onDisk, lock, req, scan, acked>>
      BY <1>4 DEF Terminate
  <2> HIDE DEF r
  <2>4. events' \in Seq(Records) /\ Len(events') = Len(events) + 1 /\ Len(events) \in Nat
      BY <2>2, <2>3, AppendProperties, LenProperties DEF RInv, TypeOK
  <2>5. synced' \in 0 .. Len(events') /\ pc' \in [Writers -> PCs]
      BY <2>3, <2>4 DEF RInv, TypeOK, PCs
  <2>6. TypeOK'
      BY <2>3, <2>4, <2>5 DEF RInv, TypeOK
  <2>7. LockHeld' /\ CallsKept' /\ AckedAnchored' /\ CommitCovers(w)'
      BY <2>3 DEF RInv, TypeOK, LockHeld, CallsKept, Committing, AckedAnchored, CommitCovers
  <2> QED
      BY <1>3, <2>6, <2>7 DEF RInv
<1>5. CASE MoveAnchor(w)
  <2> DEFINE value == IF pc[w] = "move" THEN scan[w].highest + 1 ELSE scan[w].highest
  <2>1. /\ value \in Nat
        /\ pc[w] = "move" => value = scan[w].highest + 1
        /\ pc[w] # "move" => value = scan[w].highest
      BY <1>1
  <2>2. /\ pc[w] \in {"catchMove", "move"}
        /\ anchor' = value /\ onDisk' = onDisk \cup {value}
        /\ pc' = [pc EXCEPT ![w] = IF pc[w] = "move" THEN "dir" ELSE "catchDir"]
        /\ acked' = IF req[w].type = "reanchor" THEN {s \in acked : s <= value} ELSE acked
        /\ UNCHANGED <<events, torn, synced, lock, req, scan>>
      BY <1>5 DEF MoveAnchor
  <2> HIDE DEF value
  <2>3. acked' \subseteq acked /\ \A s \in acked' : s <= value
    <3>1. CASE req[w].type = "reanchor"
        BY <2>2, <3>1
    <3>2. CASE req[w].type # "reanchor"
      <4>1. req[w].anchored
          BY <2>2, <3>2 DEF RInv, CallsKept, CommitCovers
      <4>2. \A s \in acked : s \in Nat /\ s <= scan[w].highest
          BY <2>2, <3>2, <4>1 DEF RInv, TypeOK, CommitCovers
      <4> QED
          BY <1>1, <2>1, <2>2, <3>2, <4>2
    <3> QED
        BY <3>1, <3>2
  <2>4. TypeOK'
      BY <2>1, <2>2, <2>3 DEF RInv, TypeOK, PCs
  <2>5. LockHeld' /\ CallsKept'
      BY <2>2 DEF RInv, TypeOK, LockHeld, CallsKept, Committing
  <2>6. AckedAnchored'
      BY <2>1, <2>2, <2>3 DEF RInv, AckedAnchored
  <2>7. CommitCovers(w)'
      BY <2>1, <2>2, <2>3 DEF RInv, TypeOK, CommitCovers, CallsKept
  <2> QED
      BY <1>3, <2>4, <2>5, <2>6, <2>7 DEF RInv
<1>6. CASE SyncDir(w)
  <2>1. TypeOK' /\ LockHeld' /\ CallsKept'
      BY <1>6 DEF RInv, TypeOK, PCs, LockHeld, CallsKept, Committing, SyncDir
  <2>2. AckedAnchored'
      BY <1>6 DEF RInv, AckedAnchored, SyncDir
  <2>3. CommitCovers(w)'
      BY <1>6 DEF RInv, TypeOK, CommitCovers, CallsKept, SyncDir
  <2> QED
      BY <1>3, <2>1, <2>2, <2>3 DEF RInv
<1>7. CASE Release(w)
  <2>1. /\ acked' \subseteq acked \cup {scan[w].highest + 1}
        /\ ~(req[w].anchored /\ req[w].type # "reanchor") => acked' = acked
        /\ pc[w] = "release" /\ UNCHANGED <<events, torn, synced, anchor, onDisk>>
      BY <1>7 DEF Release, fileVars
  <2>2. acked' \in SUBSET Nat
      BY <1>1, <2>1 DEF RInv, TypeOK
  <2>3. TypeOK'
      BY <1>7, <2>2, NoScanType DEF RInv, TypeOK, PCs, Release, Leave, fileVars
  <2>4. LockHeld' /\ CallsKept' /\ CommitCovers(w)'
      BY <1>7 DEF RInv, TypeOK, LockHeld, CallsKept, Committing, CommitCovers, Release, Leave
  <2>5. AckedAnchored'
    <3>1. CASE req[w].anchored /\ req[w].type # "reanchor"
      <4>1. anchor = scan[w].highest + 1 /\ onDisk = {anchor}
          BY <2>1, <3>1 DEF RInv, CommitCovers
      <4> QED
          BY <1>1, <2>1, <4>1 DEF RInv, AckedAnchored
    <3>2. CASE ~(req[w].anchored /\ req[w].type # "reanchor")
        BY <2>1, <3>2 DEF RInv, AckedAnchored
    <3> QED
        BY <3>1, <3>2
  <2> QED
      BY <1>3, <2>3, <2>4, <2>5 DEF RInv
<1> QED
    BY <1>4, <1>5, <1>6, <1>7

\* A power loss and a cut leave a prefix and an anchor that covers.
LEMMA RewindCuts ==
    ASSUME RInv, PowerLoss \/ Rewind
    PROVE  RInv'
<1> USE BoundAssumption, NoneAssumption
<1>1. CASE PowerLoss
  <2>1. PICK k \in synced .. Len(events) : events' = SubSeq(events, 1, k) /\ synced' = k
      BY <1>1 DEF PowerLoss
  <2>2. PICK a \in onDisk : anchor' = a /\ onDisk' = {a}
      BY <1>1 DEF PowerLoss
  <2>3. k \in 0 .. Len(events) /\ events \in Seq(Records)
      BY DEF RInv, TypeOK
  <2>4. events' \in Seq(Records) /\ Len(events') = k
      BY <2>1, <2>3, SubSeqProperties
  <2>5. TypeOK'
      BY <1>1, <2>1, <2>2, <2>3, <2>4, NoScanType DEF RInv, TypeOK, PCs, PowerLoss
  <2>6. LockHeld' /\ CallsKept' /\ \A w \in Writers : CommitCovers(w)'
      BY <1>1 DEF PowerLoss, LockHeld, CallsKept, Committing, CommitCovers
  <2>7. AckedAnchored'
      BY <1>1, <2>2 DEF RInv, AckedAnchored, PowerLoss
  <2> QED
      BY <2>5, <2>6, <2>7 DEF RInv
<1>2. CASE Rewind
  <2>1. PICK k \in 0 .. Len(events) - 1 :
          events' = SubSeq(events, 1, k) /\ synced' = IF k < synced THEN k ELSE synced
      BY <1>2 DEF Rewind
  <2>2. k \in 0 .. Len(events) /\ events \in Seq(Records) /\ synced \in Nat
      BY DEF RInv, TypeOK
  <2>3. events' \in Seq(Records) /\ Len(events') = k
      BY <2>1, <2>2, SubSeqProperties
  <2>4. synced' \in 0 .. Len(events')
      BY <2>1, <2>2, <2>3
  <2>5. /\ torn' = FALSE
        /\ UNCHANGED <<anchor, onDisk, lock, pc, req, scan, acked>>
      BY <1>2 DEF Rewind
  <2>6. TypeOK'
      BY <2>3, <2>4, <2>5 DEF RInv, TypeOK
  <2>7. LockHeld' /\ CallsKept' /\ AckedAnchored'
      BY <2>5 DEF RInv, LockHeld, CallsKept, AckedAnchored
  <2>8. \A w \in Writers : CommitCovers(w)'
      BY <2>5 DEF RInv, CommitCovers
  <2> QED
      BY <2>6, <2>7, <2>8 DEF RInv
<1> QED
    BY <1>1, <1>2

\* An anchor that is not ahead of a gapless stream leaves no room for a lost
\* acknowledged number.
LEMMA AnchorTells == ASSUME RInv PROVE NoSilentLoss
<1> USE NoneAssumption
<1> SUFFICES ASSUME AnchorState(anchor, Highest(events)) # "ahead", ~Degraded(events),
                    NEW s \in acked
             PROVE  s \in Seqs(events)
    BY DEF NoSilentLoss
<1>1. anchor \in Nat /\ s \in Nat /\ s >= 1 /\ s <= anchor
    BY DEF RInv, TypeOK, AckedAnchored
<1>2. events \in Seq(Records) /\ DOMAIN events = 1 .. Len(events) /\ Len(events) \in Nat
    BY LenProperties DEF RInv, TypeOK
<1>3. Highest(events) \in Nat
    BY <1>2, HighestType
<1>4. s <= Highest(events)
    BY <1>1, <1>3 DEF AnchorState
<1>5. events # <<>> /\ Len(events) >= 1 /\ Highest(events) = events[Len(events)].seq
    BY <1>1, <1>2, <1>4 DEF Highest
<1>6. /\ events[1].seq = 1
      /\ \A i \in 1 .. Len(events) : i # 1 => events[i].seq = events[i - 1].seq + 1
  <2>1. \A i \in 1 .. Len(events) : events[i].seq = IF i = 1 THEN 1 ELSE events[i - 1].seq + 1
      BY <1>2 DEF Degraded
  <2> QED
      BY <1>2, <1>5, <2>1
<1>7. \A i \in 1 .. Len(events) : events[i].seq = i
  <2> DEFINE Wrong == {i \in 1 .. Len(events) : events[i].seq # i}
  <2> SUFFICES ASSUME Wrong # {} PROVE FALSE
      BY <1>2
  <2>1. PICK n \in Wrong : \A m \in Wrong : n <= m
    <3>1. Wrong \in SUBSET Nat
        BY <1>2
    <3> HIDE DEF Wrong
    <3> QED
        BY <3>1, LeastNatural
  <2>2. n \in 1 .. Len(events) /\ n # 1
      BY <1>6
  <2>3. n - 1 \in 1 .. Len(events) /\ n - 1 \notin Wrong
      BY <1>2, <2>1, <2>2
  <2> QED
      BY <1>2, <1>6, <2>2, <2>3
<1> QED
    BY <1>1, <1>2, <1>4, <1>5, <1>7 DEF Seqs

\* However often the stream file is cut behind the writers' back, between any
\* two of their steps, an acknowledged number never goes missing unnoticed.
THEOREM LossIsNeverSilent == RewindSpec => []NoSilentLoss
<1>1. Init => RInv
  <2>1. Init => IInv
      BY InitIInv
  <2>2. Init => AckedAnchored /\ \A w \in Writers : CommitCovers(w)
      BY DEF Init, AckedAnchored, CommitCovers
  <2> QED
      BY <2>1, <2>2 DEF IInv, RInv
<1>2. RInv /\ [Next \/ Rewind]_vars => RInv'
  <2> SUFFICES ASSUME RInv, [Next \/ Rewind]_vars PROVE RInv'
      OBVIOUS
  <2>1. ASSUME NEW w \in Writers, Step(w) PROVE RInv'
      BY <2>1, RewindLocalSteps, RewindWrites DEF Step
  <2>2. CASE UNCHANGED vars
      BY <2>2 DEF vars, RInv, TypeOK, LockHeld, CallsKept, Committing, AckedAnchored, CommitCovers
  <2> QED
      BY <2>1, <2>2, RewindCuts DEF Next
<1>3. RInv => NoSilentLoss
    BY AnchorTells
<1> QED
    BY <1>1, <1>2, <1>3, PTL DEF RewindSpec
=============================================================================
