------------------------- MODULE RegisterLinkProofs -------------------------
(***************************************************************************)
(* Proofs about ConfigSync, against any peer, and about RegisterLink, for  *)
(* any number of commands, losses, failed saves and retries, and whichever *)
(* topics the gateway listens to.                                          *)
(*                                                                         *)
(* The registration cache, for every size of the queue and every bound.    *)
(* The invariants of ConfigSync are inductive together.  An action does    *)
(* one of three things to the records: it drops some of them               *)
(* (RemoveQueued), moves the first queued one to the active place          *)
(* (PromoteNext), or adds one record whose key is new (Track, TickRetry);  *)
(* one lemma for each shows that keys stay unique and that no record waits *)
(* while the active place is empty.                                        *)
(*                                                                         *)
(* The protocol.  The telemetry gate compares two numbers the gateway      *)
(* keeps.  That they say something about Pc_data's database rests on an    *)
(* order: what the gateway has seen acknowledged is not above the          *)
(* acknowledgements on their way, these not above what Pc_data has saved,  *)
(* that not above the snapshots on their way, and these not above          *)
(* config_version.  Ordered states it; the rest of the invariant says that *)
(* every snapshot carries a version (a payload with version 0 is           *)
(* acknowledged as the present one), which needs that no record exists     *)
(* before the first version.                                               *)
(***************************************************************************)
EXTENDS RegisterLink, TLAPS

-----------------------------------------------------------------------------
(* The registration cache                                                  *)

Records == Entry \cup {None}
Queues  == [Slots -> Records]

\* The part of the invariant that speaks of a queue q and an active record a.
Coherent(a, q, top) ==
  /\ a \in Records
  /\ q \in Queues
  /\ \A i, j \in Slots : q[i] # None /\ q[j] # None /\ SameKey(q[i], q[j]) => i = j
  /\ \A i \in Slots : q[i] # None => ~SameKey(q[i], a)
  /\ a = None => \A i \in Slots : q[i] = None
  /\ a.seq <= top
  /\ \A i \in Slots : q[i].seq <= top

\* The inductive invariant.
IInv ==
  /\ TypeOK
  /\ NothingWaitsWhileIdle
  /\ KeysAreUnique
  /\ SeqsIssued
  /\ AckedVersionIssued
  /\ SuccessMeansDrained

\* The named invariants are the coherence of the present records.
LEMMA InvIsCoherent ==
  ASSUME TypeOK
  PROVE  (NothingWaitsWhileIdle /\ KeysAreUnique /\ SeqsIssued)
         <=> (Coherent(active, queue, sync_seq) /\ sync_seq >= SeqBase)
  BY DEF TypeOK, NothingWaitsWhileIdle, KeysAreUnique, SeqsIssued, Coherent, Used,
         Records, Queues

\* None is no entry: entries have a sequence number.
LEMMA NoneIsNoEntry == None \notin Entry /\ None.seq = 0 /\ None \in Records
  BY DEF None, Entry, Records

\* Removing a queued record, remove_queued_pending_locked, keeps coherence with
\* an active record.
LEMMA RemoveQueuedCoherent ==
  ASSUME NEW a, NEW q, NEW top, NEW k, top \in Nat, Coherent(a, q, top)
  PROVE  Coherent(a, RemoveQueued(q, k), top)
  <1> DEFINE p == RemoveQueued(q, k)
  <1>1. p \in Queues /\ \A i \in Slots : p[i] = None \/ p[i] = q[i]
    BY NoneIsNoEntry DEF RemoveQueued, Coherent, Queues
  <1>2. None.seq <= top
    BY NoneIsNoEntry
  <1> HIDE DEF p
  <1>3. Coherent(a, p, top)
    BY <1>1, <1>2 DEF Coherent
  <1> QED
    BY <1>3 DEF p

\* Promoting the first queued record, promote_next_pending_locked, keeps
\* coherence whatever the active record was.
LEMMA PromoteNextCoherent ==
  ASSUME NEW a, NEW q, NEW top, NEW r \in BOOLEAN, NEW c \in Nat, age \in Ages,
         top \in Nat, Coherent(a, q, top), PromoteNext(q, r, c)
  PROVE  /\ Coherent(active', queue', top)
         /\ retryable' \in BOOLEAN
         /\ retry_count' \in Nat
         /\ age' \in Ages
  <1>1. CASE Used(q) = {}
    BY <1>1, NoneIsNoEntry DEF PromoteNext, Coherent, Used, SameKey
  <1>2. CASE Used(q) # {}
    <2>1. PICK i \in Slots : /\ IsFirst(i, Used(q))
                             /\ SetActive(q[i])
                             /\ queue' = [q EXCEPT ![i] = None]
      BY <1>2 DEF PromoteNext
    <2>2. q[i] # None
      BY <2>1 DEF IsFirst, Used
    <2>3. queue' \in Queues /\ \A j \in Slots : queue'[j] = IF j = i THEN None ELSE q[j]
      BY <2>1, NoneIsNoEntry DEF Coherent, Queues
    <2>4. active' = q[i] /\ active' \in Records
      BY <2>1 DEF SetActive, Coherent, Queues
    <2>5. None.seq <= top
      BY NoneIsNoEntry
    <2> QED
      BY <2>1, <2>2, <2>3, <2>4, <2>5 DEF Coherent, SetActive, Ages
  <1> QED
    BY <1>1, <1>2

\* Recording a message, the tail of mark_sent and of publish_latest_snapshot,
\* keeps coherence: the key is the active record's, a queued record's, or new.
LEMMA TrackCoherent ==
  ASSUME NEW top \in Nat, NEW e \in Entry, e.seq <= top,
         Coherent(active, queue, top), Track(e),
         retry_count \in Nat, retryable \in BOOLEAN, age \in Ages
  PROVE  /\ Coherent(active', queue', top)
         /\ retryable' \in BOOLEAN
         /\ retry_count' \in Nat
         /\ age' \in Ages
         /\ status' \in {"syncing", "offline"}
  <1>1. status' \in {"syncing", "offline"}
    BY DEF Track
  <1>2. e # None /\ e \in Records
    BY NoneIsNoEntry DEF Records
  <1>3. CASE active = None \/ SameKey(active, e)
    <2>1. SetActive(e) /\ queue' = queue
      BY <1>3 DEF Track
    <2> QED
      BY <1>1, <1>2, <1>3, <2>1 DEF SetActive, Coherent, SameKey, Ages
  <1>4. CASE ~(active = None \/ SameKey(active, e))
    <2>1. /\ Enqueue(e)
          /\ active' = active /\ retry_count' = retry_count
          /\ retryable' = retryable /\ age' = age
      BY <1>4 DEF Track
    <2> DEFINE hits == Hits(queue, e)
               free == Slots \ Used(queue)
    <2>2. CASE hits # {}
      <3>1. PICK i \in Slots : IsFirst(i, hits) /\ queue' = [queue EXCEPT ![i] = e]
        BY <2>1, <2>2 DEF Enqueue
      <3>2. queue[i] # None /\ SameKey(queue[i], e)
        BY <3>1 DEF IsFirst, Hits, Used
      <3>3. /\ queue' \in Queues
            /\ \A j \in Slots : queue'[j] = IF j = i THEN e ELSE queue[j]
        BY <3>1, <1>2 DEF Coherent, Queues
      <3> QED
        BY <1>1, <1>2, <1>4, <2>1, <3>2, <3>3 DEF Coherent, SameKey
    <2>3. CASE hits = {} /\ free # {}
      <3>1. PICK i \in Slots : IsFirst(i, free) /\ queue' = [queue EXCEPT ![i] = e]
        BY <2>1, <2>3 DEF Enqueue
      <3>2. \A j \in Slots : queue[j] # None => ~SameKey(queue[j], e)
        BY <2>3 DEF Hits, Used
      <3>3. /\ queue' \in Queues
            /\ \A j \in Slots : queue'[j] = IF j = i THEN e ELSE queue[j]
        BY <3>1, <1>2 DEF Coherent, Queues
      <3> QED
        BY <1>1, <1>2, <1>4, <2>1, <3>2, <3>3 DEF Coherent, SameKey
    <2>4. CASE hits = {} /\ free = {}
      BY <1>1, <2>1, <2>4 DEF Enqueue
    <2> QED
      BY <2>2, <2>3, <2>4
  <1> QED
    BY <1>3, <1>4

\* Recording a message, with a version that does not go back, preserves the
\* invariant.
LEMMA RecordInv ==
  ASSUME IInv, NEW e \in Entry, e.seq <= sync_seq, Track(e), sync_seq' = sync_seq,
         config_version' \in Nat, config_version' >= config_version
  PROVE  IInv'
  <1>1. Coherent(active, queue, sync_seq) /\ sync_seq >= SeqBase
    BY InvIsCoherent DEF IInv
  <1>2. /\ Coherent(active', queue', sync_seq)
        /\ retryable' \in BOOLEAN
        /\ retry_count' \in Nat
        /\ age' \in Ages
        /\ status' \in {"syncing", "offline"}
    BY <1>1, TrackCoherent DEF IInv, TypeOK
  <1>3. TypeOK'
    BY <1>2 DEF IInv, TypeOK, Track, Coherent, Records, Queues, Statuses
  <1>4. (NothingWaitsWhileIdle /\ KeysAreUnique /\ SeqsIssued)'
    BY <1>1, <1>2, <1>3
       DEF NothingWaitsWhileIdle, KeysAreUnique, SeqsIssued, Coherent, Used, IInv, TypeOK
  <1>5. AckedVersionIssued' /\ SuccessMeansDrained'
    BY <1>2 DEF IInv, TypeOK, Track, AckedVersionIssued, SuccessMeansDrained
  <1> QED
    BY <1>3, <1>4, <1>5 DEF IInv

\* MarkSent and PublishLatestSnapshot record a message under a number in use.
LEMMA CommandRecords ==
  ASSUME IInv, NEW seq \in Nat \ {0}, seq <= sync_seq, NEW ed \in Nat,
         \/ \E cmd \in MarkedCmds : MarkSent(seq, cmd, ed)
         \/ PublishLatestSnapshot(seq, ed)
  PROVE  /\ config_version' \in Nat \ {0}
         /\ config_version' >= config_version
         /\ sync_seq' = sync_seq
         /\ \E e \in Entry : e.seq <= sync_seq /\ e.edition = ed /\ Track(e)
  <1>1. CASE \E cmd \in MarkedCmds : MarkSent(seq, cmd, ed)
    <2>1. PICK cmd \in MarkedCmds : MarkSent(seq, cmd, ed)
      BY <1>1
    <2>2. [seq |-> seq, cmd |-> cmd, edition |-> ed, version |-> 0] \in Entry
      BY DEF Entry
    <2> QED
      BY <2>1, <2>2 DEF MarkSent, IInv, TypeOK
  <1>2. CASE PublishLatestSnapshot(seq, ed)
    <2>1. config_version' \in Nat \ {0} /\ config_version' >= config_version
      BY <1>2 DEF PublishLatestSnapshot, IInv, TypeOK
    <2>2. [seq |-> seq, cmd |-> "config_snapshot",
           edition |-> ed, version |-> config_version'] \in Entry
      BY <2>1 DEF Entry, MarkedCmds
    <2> QED
      BY <1>2, <2>1, <2>2 DEF PublishLatestSnapshot
  <1> QED
    BY <1>1, <1>2

\* MarkSent and PublishLatestSnapshot preserve the invariant.
LEMMA CommandInv == IInv /\ Command => IInv'
  <1> SUFFICES ASSUME IInv, Command PROVE IInv'
    OBVIOUS
  <1>1. PICK seq \in 1 .. sync_seq, ed \in Editions :
           \/ \E cmd \in MarkedCmds : MarkSent(seq, cmd, ed)
           \/ PublishLatestSnapshot(seq, ed)
    BY DEF Command
  <1>2. seq \in Nat \ {0} /\ seq <= sync_seq /\ ed \in Nat
    BY EditionsAssumption DEF IInv, TypeOK
  <1>3. /\ config_version' \in Nat /\ config_version' >= config_version /\ sync_seq' = sync_seq
        /\ \E e \in Entry : e.seq <= sync_seq /\ Track(e)
    BY <1>1, <1>2, CommandRecords
  <1> QED
    BY <1>3, RecordInv

\* HandleAck preserves the invariant for every acknowledgement that echoes no
\* version the gateway has not issued.
LEMMA AckInv ==
  ASSUME IInv, NEW a, HandleAck(a), a.version \in 0 .. config_version,
         a.ok \in BOOLEAN, a.retryable \in BOOLEAN
  PROVE  IInv'
  <1> DEFINE activeMatch == a.seq # 0 /\ SameKey(active, a)
             snapshotAck == a.cmd \in SnapshotCmds
             q == IF ~activeMatch /\ a.seq # 0 THEN RemoveQueued(queue, a) ELSE queue
  <1>1. Coherent(active, queue, sync_seq) /\ sync_seq >= SeqBase
    BY InvIsCoherent DEF IInv
  <1>2. a.version \in 0 .. config_version /\ a.ok \in BOOLEAN /\ a.retryable \in BOOLEAN
    OBVIOUS
  <1>3. Coherent(active, q, sync_seq)
    BY <1>1, RemoveQueuedCoherent DEF IInv, TypeOK
  <1>4. CASE AckIgnored(a)
    BY <1>4 DEF HandleAck, IInv, TypeOK, NothingWaitsWhileIdle, KeysAreUnique,
       SeqsIssued, AckedVersionIssued, SuccessMeansDrained,
       syncVars, trackVars, gateVars, Used
  <1>5. CASE ~AckIgnored(a)
    <2>1. /\ last_acked_config_version' \in Nat
          /\ last_acked_config_version' <= config_version
          /\ last_acked_snapshot' \in BOOLEAN
      <3>1. IF a.ok /\ snapshotAck
            THEN /\ last_acked_config_version' = IF a.version > 0 THEN a.version
                                                 ELSE config_version
                 /\ last_acked_snapshot' = TRUE
            ELSE UNCHANGED <<last_acked_config_version, last_acked_snapshot>>
        BY <1>5 DEF HandleAck
      <3>2. /\ config_version \in Nat /\ last_acked_config_version \in Nat
            /\ last_acked_snapshot \in BOOLEAN
            /\ last_acked_config_version <= config_version
        BY DEF IInv, TypeOK, AckedVersionIssued
      <3>3. CASE a.ok /\ snapshotAck
        BY <1>2, <3>1, <3>2, <3>3
      <3>4. CASE ~(a.ok /\ snapshotAck)
        BY <3>1, <3>2, <3>4
      <3> QED
        BY <3>3, <3>4
    <2>2. config_version' = config_version /\ sync_seq' = sync_seq /\ connected' = connected
      BY <1>5 DEF HandleAck
    <2>3. status' = IF ~a.ok THEN "failed"
                    ELSE IF active' # None THEN "syncing" ELSE "success"
      BY <1>5 DEF HandleAck, AckStatus
    <2>4. /\ Coherent(active', queue', sync_seq)
          /\ retryable' \in BOOLEAN /\ retry_count' \in Nat /\ age' \in Ages
      <3>1. CASE a.ok /\ (activeMatch \/ (snapshotAck /\ active = None))
        <4>1. PromoteNext(q, a.retryable, 0)
          BY <1>5, <3>1 DEF HandleAck
        <4> HIDE DEF q
        <4> QED
          BY <1>2, <1>3, <4>1, PromoteNextCoherent DEF IInv, TypeOK
      <3>2. CASE ~(a.ok /\ (activeMatch \/ (snapshotAck /\ active = None)))
        <4>1. /\ queue' = q /\ retryable' = a.retryable
              /\ retry_count' = IF a.ok THEN 0 ELSE retry_count
              /\ active' = active /\ age' = age
          BY <1>5, <3>2 DEF HandleAck
        <4> HIDE DEF q
        <4> QED
          BY <1>2, <1>3, <4>1 DEF IInv, TypeOK
      <3> QED
        BY <3>1, <3>2
    <2>5. TypeOK'
      BY <1>2, <2>1, <2>2, <2>3, <2>4 DEF IInv, TypeOK, Coherent, Records, Queues, Statuses
    <2>6. (NothingWaitsWhileIdle /\ KeysAreUnique /\ SeqsIssued)'
      BY <1>1, <2>2, <2>4, <2>5
         DEF NothingWaitsWhileIdle, KeysAreUnique, SeqsIssued, Coherent, Used, IInv, TypeOK
    <2>7. AckedVersionIssued'
      BY <2>1, <2>2 DEF AckedVersionIssued
    <2>8. SuccessMeansDrained'
      BY <2>3, <2>6 DEF SuccessMeansDrained, NothingWaitsWhileIdle
    <2> QED
      BY <2>5, <2>6, <2>7, <2>8 DEF IInv
  <1> QED
    BY <1>4, <1>5

\* What a peer can echo is such an acknowledgement.
LEMMA HandleAckInv ==
  ASSUME IInv, NEW a \in EchoableAcks, HandleAck(a)
  PROVE  IInv'
  <1>1. config_version \in Nat
    BY DEF IInv, TypeOK
  <1>2. \/ a \in [seq : 0 .. sync_seq, cmd : AckCmds, ok : BOOLEAN,
                  retryable : BOOLEAN, version : {0}]
        \/ a \in [seq : 0 .. sync_seq, cmd : SnapshotCmds, ok : {TRUE},
                  retryable : BOOLEAN, version : 1 .. config_version]
    BY DEF EchoableAcks
  <1>3. (a.version = 0 \/ a.version \in 1 .. config_version)
        /\ a.ok \in BOOLEAN /\ a.retryable \in BOOLEAN
    BY <1>2, Zenon
  <1> QED
    BY <1>1, <1>3, AckInv

\* The tick preserves the invariant: its promotion finds nothing to promote, and
\* a retry takes a number no record carries.
LEMMA TickInv == IInv /\ (TickWait \/ TickRetry) => IInv'
  <1> SUFFICES ASSUME IInv, TickWait \/ TickRetry PROVE IInv'
    OBVIOUS
  <1>1. Coherent(active, queue, sync_seq) /\ sync_seq >= SeqBase
    BY InvIsCoherent DEF IInv
  <1>2. CASE TickWait
    <2>1. /\ Coherent(active', queue', sync_seq)
          /\ retryable' \in BOOLEAN /\ retry_count' \in Nat /\ age' \in Ages
          /\ active = None => active' = None /\ queue' = queue
          /\ active # None => active' = active /\ queue' = queue
      <3>1. CASE active = None
        <4>1. PromoteNext(queue, retryable, retry_count)
          BY <1>2, <3>1 DEF TickWait
        <4>2. Used(queue) = {}
          BY <3>1 DEF IInv, NothingWaitsWhileIdle
        <4> QED
          BY <1>1, <3>1, <4>1, <4>2, PromoteNextCoherent DEF IInv, TypeOK, PromoteNext
      <3>2. CASE active # None
        BY <1>1, <1>2, <3>2 DEF TickWait, trackVars, IInv, TypeOK
      <3> QED
        BY <3>1, <3>2
    <2>2. /\ config_version' = config_version
          /\ last_acked_config_version' = last_acked_config_version
          /\ last_acked_snapshot' = last_acked_snapshot
          /\ sync_seq' = sync_seq /\ connected' = connected
          /\ status' \in {status, "offline", "timeout"}
      BY <1>2 DEF TickWait, gateVars
    <2>3. TypeOK'
      BY <2>1, <2>2 DEF IInv, TypeOK, Coherent, Records, Queues, Statuses
    <2>4. (NothingWaitsWhileIdle /\ KeysAreUnique /\ SeqsIssued)'
      BY <1>1, <2>1, <2>2, <2>3
         DEF NothingWaitsWhileIdle, KeysAreUnique, SeqsIssued, Coherent, Used, IInv, TypeOK
    <2>5. AckedVersionIssued' /\ SuccessMeansDrained'
      BY <2>1, <2>2 DEF IInv, AckedVersionIssued, SuccessMeansDrained, Used
    <2> QED
      BY <2>3, <2>4, <2>5 DEF IInv
  <1>3. CASE TickRetry
    <2>1. /\ active # None /\ active \in Entry
          /\ active' = [active EXCEPT !.seq = sync_seq + 1, !.version = config_version]
          /\ sync_seq' = sync_seq + 1
      BY <1>3 DEF TickRetry, Resent, IInv, TypeOK
    <2>2. active' \in Entry /\ active'.seq = sync_seq + 1
      <3>1. sync_seq + 1 \in Nat \ {0} /\ config_version \in Nat
        BY DEF IInv, TypeOK
      <3> QED
        BY <2>1, <3>1 DEF Entry
    <2>3. active' # None
      BY <2>2, NoneIsNoEntry
    <2>4. /\ queue' = queue /\ retryable' = retryable /\ connected' = connected
          /\ config_version' = config_version
          /\ last_acked_config_version' = last_acked_config_version
          /\ last_acked_snapshot' = last_acked_snapshot
          /\ retry_count' \in Nat /\ age' \in Ages
          /\ status' \in {"retrying", "timeout"}
      BY <1>3 DEF TickRetry, gateVars, Ages, IInv, TypeOK
    <2>5. TypeOK'
      BY <2>1, <2>2, <2>4 DEF IInv, TypeOK, Statuses
    <2>6. \A i \in Slots : queue[i].seq <= sync_seq /\ queue[i].seq \in Nat
      BY <1>1, NoneIsNoEntry DEF Coherent, Queues, Records, Entry
    <2>7. (NothingWaitsWhileIdle /\ KeysAreUnique /\ SeqsIssued)'
      BY <1>1, <2>1, <2>2, <2>3, <2>4, <2>6, SeqAssumption
         DEF NothingWaitsWhileIdle, KeysAreUnique, SeqsIssued, Coherent, Used, SameKey,
             IInv, TypeOK
    <2>8. AckedVersionIssued' /\ SuccessMeansDrained'
      BY <2>4 DEF IInv, AckedVersionIssued, SuccessMeansDrained
    <2> QED
      BY <2>5, <2>7, <2>8 DEF IInv
  <1> QED
    BY <1>2, <1>3

-----------------------------------------------------------------------------
\* Every step preserves the invariant.
LEMMA NextInv == IInv /\ [Next]_syncVars => IInv'
  <1> SUFFICES ASSUME IInv, [Next]_syncVars PROVE IInv'
    OBVIOUS
  <1> USE DEF IInv, TypeOK, NothingWaitsWhileIdle, KeysAreUnique, SeqsIssued,
              AckedVersionIssued, SuccessMeansDrained, Used
  <1>1. CASE Elapse
    BY <1>1 DEF Elapse, gateVars, Ages
  <1>2. CASE Connect
    BY <1>2 DEF Connect, trackVars, gateVars
  <1>3. CASE NextSeq
    <2>1. /\ active.seq \in Nat
          /\ \A i \in Slots : queue[i].seq \in Nat
      BY NoneIsNoEntry DEF Entry
    <2> QED
      BY <1>3, <2>1, SeqAssumption DEF NextSeq, trackVars, gateVars
  <1>4. CASE UNCHANGED syncVars
    BY <1>4 DEF syncVars, trackVars, gateVars
  <1> HIDE DEF IInv
  <1> QED
    BY <1>1, <1>2, <1>3, <1>4, CommandInv, HandleAckInv, TickInv DEF Next

\* The initial state of data_config_sync.c satisfies the invariant.
LEMMA InitInv == Init => IInv
  <1> SUFFICES ASSUME Init PROVE IInv
    OBVIOUS
  <1>1. TypeOK
    BY SeqAssumption DEF Init, TypeOK, Statuses, Ages
  <1>2. Used(queue) = {}
    BY DEF Init, Used
  <1>3. NothingWaitsWhileIdle /\ KeysAreUnique /\ AckedVersionIssued /\ SuccessMeansDrained
    BY <1>2 DEF Init, NothingWaitsWhileIdle, KeysAreUnique, AckedVersionIssued,
                SuccessMeansDrained
  <1>4. SeqsIssued
    BY NoneIsNoEntry, SeqAssumption DEF Init, SeqsIssued
  <1> QED
    BY <1>1, <1>3, <1>4 DEF IInv

\* The registration cache keeps its types, for every instance.
THEOREM TypeCorrect == Spec => []TypeOK
  <1>1. IInv => TypeOK
    BY DEF IInv
  <1> QED
    BY <1>1, InitInv, NextInv, PTL DEF Spec

\* No record waits in the queue while the active place is empty, so that a promotion
\* is never forgotten (promote_next_pending_locked), for every instance and peer.
THEOREM NothingIsStranded == Spec => []NothingWaitsWhileIdle
  <1>1. IInv => NothingWaitsWhileIdle
    BY DEF IInv
  <1> QED
    BY <1>1, InitInv, NextInv, PTL DEF Spec

\* No two records have the same number and command, so that an acknowledgement
\* names one record (enqueue_pending_locked, send_pending_locked).
THEOREM KeysStayUnique == Spec => []KeysAreUnique
  <1>1. IInv => KeysAreUnique
    BY DEF IInv
  <1> QED
    BY <1>1, InitInv, NextInv, PTL DEF Spec

\* No version above config_version is ever taken for acknowledged
\* (data_config_sync_handle_ack_json), the fact the telemetry gate rests on.
THEOREM NoForeignVersion == Spec => []AckedVersionIssued
  <1>1. IInv => AckedVersionIssued
    BY DEF IInv
  <1> QED
    BY <1>1, InitInv, NextInv, PTL DEF Spec

\* "success" is shown only when nothing is left to acknowledge (publish_state_locked).
THEOREM SuccessIsHonest == Spec => []SuccessMeansDrained
  <1>1. IInv => SuccessMeansDrained
    BY DEF IInv
  <1> QED
    BY <1>1, InitInv, NextInv, PTL DEF Spec

\* Publishing a new snapshot closes the telemetry gate: the step that advances
\* config_version ends in a state where telemetry is not allowed.
THEOREM GateCloses == Spec => NewVersionClosesGate
  <1> DEFINE Closes == config_version' # config_version => ~TelemetryAllowed'
  <1>1. IInv /\ [Next]_syncVars => [Closes]_syncVars
    <2> SUFFICES ASSUME IInv, Next, config_version' # config_version
                 PROVE  ~TelemetryAllowed'
      BY DEF IInv
    <2>1. Command
      BY DEF Next, HandleAck, TickWait, TickRetry, NextSeq, Elapse, Connect, gateVars, syncVars
    <2>2. /\ config_version' \in Nat /\ config_version' > config_version
          /\ last_acked_config_version' = last_acked_config_version
      <3>1. PICK seq \in 1 .. sync_seq, ed \in Editions :
               \/ \E cmd \in MarkedCmds : MarkSent(seq, cmd, ed)
               \/ PublishLatestSnapshot(seq, ed)
        BY <2>1 DEF Command
      <3>2. /\ config_version' \in {config_version, config_version + 1, 1}
            /\ config_version' = 1 => config_version \in {0, 1}
        <4>1. config_version \in Nat
          BY DEF IInv, TypeOK
        <4>2. CASE PublishLatestSnapshot(seq, ed)
          BY <4>1, <4>2 DEF PublishLatestSnapshot
        <4>3. CASE \E cmd \in MarkedCmds : MarkSent(seq, cmd, ed)
          <5>1. config_version' = config_version + 1
                \/ config_version' = (IF config_version = 0 THEN 1 ELSE config_version)
            BY <4>1, <4>3 DEF MarkSent
          <5> QED
            BY <4>1, <5>1
        <4> QED
          BY <3>1, <4>2, <4>3
      <3>3. last_acked_config_version' = last_acked_config_version
        BY <3>1 DEF MarkSent, PublishLatestSnapshot, Track
      <3> QED
        BY <3>2, <3>3 DEF IInv, TypeOK
    <2> QED
      BY <2>2 DEF TelemetryAllowed, IInv, TypeOK, AckedVersionIssued
  <1> QED
    BY <1>1, InitInv, NextInv, PTL DEF Spec, NewVersionClosesGate

\* The keys of an active record a and a queue q.
LEMMA KeysAre ==
  ASSUME NEW a \in Records, NEW q \in Queues
  PROVE  \A k : k \in Keys(a, q) <=>
                  \/ a # None /\ k = <<a.seq, a.cmd>>
                  \/ \E i \in Slots : q[i] # None /\ k = <<q[i].seq, q[i].cmd>>
  <1>1. None.seq = 0 /\ \A e \in Records : e # None => e.seq # 0
    BY NoneIsNoEntry DEF Records, Entry
  <1>2. \A e \in Records : e # None => <<e.seq, e.cmd>> # <<None.seq, None.cmd>>
    BY <1>1
  <1>3. \A i \in Slots : q[i] \in Records
    BY DEF Queues
  <1> QED
    BY <1>2, <1>3 DEF Keys, Used

\* promote_next_pending_locked keeps every key of the queue.
LEMMA PromoteNextKeepsKeys ==
  ASSUME NEW q \in Queues, NEW r, NEW c, PromoteNext(q, r, c),
         active' \in Records, queue' \in Queues
  PROVE  \A i \in Slots : q[i] # None => <<q[i].seq, q[i].cmd>> \in Keys(active', queue')
  <1> SUFFICES ASSUME NEW i \in Slots, q[i] # None
               PROVE  <<q[i].seq, q[i].cmd>> \in Keys(active', queue')
    OBVIOUS
  <1>1. PICK j \in Slots : q[j] # None /\ active' = q[j] /\ queue' = [q EXCEPT ![j] = None]
    BY DEF PromoteNext, Used, IsFirst, SetActive
  <1>2. CASE i = j
    <2>1. active' # None /\ active' = q[i]
      BY <1>1, <1>2
    <2> QED
      BY <2>1, KeysAre
  <1>3. CASE i # j
    <2>1. queue'[i] = q[i]
      BY <1>1, <1>3 DEF Queues
    <2> QED
      BY <2>1, KeysAre
  <1> QED
    BY <1>2, <1>3

\* Recording a message keeps every key: it takes a free place, or that of a
\* record with the same key.
LEMMA TrackKeepsKeys ==
  ASSUME NEW e \in Entry, active \in Records, queue \in Queues, Track(e),
         active' \in Records, queue' \in Queues
  PROVE  Keys(active, queue) \subseteq Keys(active', queue')
  <1>1. e # None
    BY NoneIsNoEntry
  <1>2. CASE active = None \/ SameKey(active, e)
    <2>1. active' = e /\ queue' = queue
      BY <1>2 DEF Track, SetActive
    <2>2. active # None => <<active.seq, active.cmd>> = <<e.seq, e.cmd>>
      BY <1>2 DEF SameKey
    <2> QED
      BY <1>1, <2>1, <2>2, KeysAre
  <1>3. CASE ~(active = None \/ SameKey(active, e))
    <2>1. Enqueue(e) /\ active' = active
      BY <1>3 DEF Track
    <2>2. \A i \in Slots : queue[i] # None =>
            queue'[i] # None /\ <<queue'[i].seq, queue'[i].cmd>> = <<queue[i].seq, queue[i].cmd>>
      <3>1. CASE queue' = queue
        BY <3>1
      <3>2. CASE \E j \in Slots : /\ queue[j] = None \/ SameKey(queue[j], e)
                                  /\ queue' = [queue EXCEPT ![j] = e]
        BY <1>1, <3>2 DEF Queues, SameKey
      <3> QED
        BY <2>1, <3>1, <3>2 DEF Enqueue, Hits, Used, IsFirst
    <2> QED
      BY <2>1, <2>2, KeysAre
  <1> QED
    BY <1>2, <1>3

\* A record leaves the cache only by an acknowledgement with its own sequence
\* number and command (a positive one, if it is the active record), or by a
\* retry, which renumbers it.
THEOREM RecordsAreKept == Spec => OnlyItsAckRetires
  <1> DEFINE Gone == Keys(active, queue) \ Keys(active', queue')
             Cause(k) == \/ TickRetry /\ k = <<active.seq, active.cmd>>
                         \/ \E ok, r \in BOOLEAN, v \in 0 .. config_version :
                              /\ HandleAck([seq |-> k[1], cmd |-> k[2], ok |-> ok,
                                            retryable |-> r, version |-> v])
                              /\ k = <<active.seq, active.cmd>> => ok
  <1>1. ASSUME IInv, IInv', Next, NEW k \in Gone
        PROVE  Cause(k)
    <2>1. /\ active \in Records /\ queue \in Queues /\ active' \in Records /\ queue' \in Queues
          /\ config_version \in Nat
      BY <1>1 DEF IInv, TypeOK, Records, Queues
    <2>2. ~(Keys(active, queue) \subseteq Keys(active', queue'))
      OBVIOUS
    <2>3. CASE Command
      <3>1. PICK e \in Entry : Track(e)
        <4>1. PICK seq \in 1 .. sync_seq, ed \in Editions :
                 \/ \E cmd \in MarkedCmds : MarkSent(seq, cmd, ed)
                 \/ PublishLatestSnapshot(seq, ed)
          BY <2>3 DEF Command
        <4>2. seq \in Nat \ {0} /\ seq <= sync_seq /\ ed \in Nat
          BY <1>1, EditionsAssumption DEF IInv, TypeOK
        <4> QED
          BY <1>1, <4>1, <4>2, CommandRecords
      <3> QED
        BY <2>1, <2>2, <3>1, TrackKeepsKeys
    <2>4. CASE \E a \in EchoableAcks : HandleAck(a)
      <3>1. PICK a \in EchoableAcks : HandleAck(a)
        BY <2>4
      <3>2. /\ a = [seq |-> a.seq, cmd |-> a.cmd, ok |-> a.ok, retryable |-> a.retryable,
                    version |-> a.version]
            /\ a.ok \in BOOLEAN /\ a.retryable \in BOOLEAN /\ a.version \in 0 .. config_version
        <4>1. 0 \in 0 .. config_version /\ 1 .. config_version \subseteq 0 .. config_version
          BY <2>1
        <4>2. CASE a \in [seq : 0 .. sync_seq, cmd : AckCmds, ok : BOOLEAN, retryable : BOOLEAN,
                          version : {0}]
          BY <4>1, <4>2
        <4>3. CASE a \in [seq : 0 .. sync_seq, cmd : SnapshotCmds, ok : {TRUE}, retryable : BOOLEAN,
                          version : 1 .. config_version]
          BY <4>1, <4>3
        <4> QED
          BY <4>2, <4>3 DEF EchoableAcks
      <3>3. SUFFICES /\ k = <<a.seq, a.cmd>>
                     /\ k = <<active.seq, active.cmd>> => a.ok
        BY <3>1, <3>2
      <3> DEFINE activeMatch == a.seq # 0 /\ SameKey(active, a)
                 snapshotAck == a.cmd \in SnapshotCmds
                 q == IF ~activeMatch /\ a.seq # 0 THEN RemoveQueued(queue, a) ELSE queue
      <3>4. ~AckIgnored(a)
        BY <2>2, <3>1 DEF HandleAck, syncVars, trackVars
      <3>5. /\ q \in Queues
            /\ \A i \in Slots : \/ q[i] = queue[i]
                                \/ ~activeMatch /\ a.seq # 0 /\ SameKey(queue[i], a)
        BY <2>1, NoneIsNoEntry DEF RemoveQueued, Queues, IsFirst, Hits, Used
      <3>6. CASE a.ok /\ (activeMatch \/ (snapshotAck /\ active = None))
        <4>1. PromoteNext(q, a.retryable, 0)
          BY <3>1, <3>4, <3>6 DEF HandleAck
        <4>2. \A i \in Slots : q[i] # None => <<q[i].seq, q[i].cmd>> \in Keys(active', queue')
          BY <2>1, <3>5, <4>1, PromoteNextKeepsKeys
        <4>3. \/ active # None /\ k = <<active.seq, active.cmd>>
              \/ \E i \in Slots : queue[i] # None /\ k = <<queue[i].seq, queue[i].cmd>>
          BY <2>1, KeysAre
        <4>4. active = None => \A i \in Slots : queue[i] = None
          BY <1>1 DEF IInv, NothingWaitsWhileIdle, Used
        <4>5. activeMatch /\ q = queue
          BY <3>6, <4>3, <4>4
        <4>6. k = <<active.seq, active.cmd>>
          BY <4>2, <4>3, <4>5
        <4> QED
          BY <3>6, <4>5, <4>6 DEF SameKey
      <3>7. CASE ~(a.ok /\ (activeMatch \/ (snapshotAck /\ active = None)))
        <4>1. queue' = q /\ active' = active
          BY <3>1, <3>4, <3>7 DEF HandleAck
        <4>2. PICK i \in Slots : /\ queue[i] # None /\ k = <<queue[i].seq, queue[i].cmd>>
                                 /\ q[i] # queue[i]
          BY <2>1, <4>1, KeysAre
        <4>3. ~activeMatch /\ a.seq # 0 /\ SameKey(queue[i], a)
          BY <3>5, <4>2
        <4> QED
          BY <4>2, <4>3 DEF SameKey
      <3> QED
        BY <3>6, <3>7
    <2>5. CASE TickWait
      <3>1. CASE active # None
        BY <2>2, <2>5, <3>1 DEF TickWait, trackVars
      <3>2. CASE active = None
        <4>1. \A i \in Slots : queue[i] # None =>
                <<queue[i].seq, queue[i].cmd>> \in Keys(active', queue')
          BY <2>1, <2>5, <3>2, PromoteNextKeepsKeys DEF TickWait
        <4> QED
          BY <2>1, <2>2, <3>2, <4>1, KeysAre
      <3> QED
        BY <3>1, <3>2
    <2>6. CASE TickRetry
      <3>1. queue' = queue
        BY <2>6 DEF TickRetry
      <3>2. k = <<active.seq, active.cmd>>
        BY <2>1, <3>1, KeysAre
      <3> QED
        BY <2>6, <3>2
    <2>7. CASE NextSeq \/ Elapse \/ Connect
      BY <2>2, <2>7 DEF NextSeq, Elapse, Connect, trackVars
    <2> QED
      BY <1>1, <2>3, <2>4, <2>5, <2>6, <2>7 DEF Next
  <1>2. IInv /\ IInv' /\ [Next]_syncVars => [\A k \in Gone : Cause(k)]_syncVars
    BY <1>1
  <1> QED
    BY <1>2, InitInv, NextInv, PTL DEF Spec, OnlyItsAckRetires

-----------------------------------------------------------------------------
(* The protocol                                                            *)


Steps == {"idle", "publish", "mark", "export", "snapshot"}

LinkAck == [seq : Nat, cmd : MarkedCmds, ok : BOOLEAN, retryable : BOOLEAN, version : Nat,
            topic : {"gateway", "port"}]

\* What a thread may be doing while the configuration is the ed-th.
Work(ed) == [step : Steps, cmd : MarkedCmds \cup {"none"}, seq : 0 .. SeqBase, exported : 0 .. ed]

LinkTypes ==
  /\ edition \in 0 .. MaxEdition
  /\ th \in [Threads -> Work(edition)]
  /\ up \in Seq(Entry) /\ down \in Seq(LinkAck)
  /\ pc_editions \subseteq 0 .. edition
  /\ pc_version \in Nat
  /\ faults \in 0 .. MaxFaults

\* A thread at work has a number, and registers before it records.
Busy(w) == /\ w.step # "idle" => w.seq # 0
           /\ w.step \in {"publish", "mark"} => w.cmd \in RegisterCmds

AtWork == \A t \in Threads : Busy(th[t])

\* A record comes from a configuration there has been, and after a version.
Known(e, ed, cv) == e.edition <= ed /\ (e # None => cv # 0)

RecordsKnown == /\ Known(active, edition, config_version)
                /\ \A i \in Slots : Known(queue[i], edition, config_version)

\* The messages u towards Pc_data, while the configuration is the ed-th, the
\* version cv and Pc_data has saved pc.
UpFits(u, ed, cv, pc) ==
  /\ \A i \in 1 .. Len(u) :
       /\ u[i].edition <= ed /\ u[i].version <= cv
       /\ u[i].cmd = "config_snapshot" => u[i].version # 0 /\ pc <= u[i].version
  /\ \A i, j \in 1 .. Len(u) :
       i < j /\ u[i].cmd = "config_snapshot" /\ u[j].cmd = "config_snapshot" =>
         u[i].version <= u[j].version

\* An acknowledgement that opens the gate.
Opens(a) == a.ok /\ a.cmd = "config_snapshot"

\* The acknowledgements d towards a gateway that has seen la acknowledged.
DownFits(d, cv, pc, la) ==
  /\ \A i \in 1 .. Len(d) :
       /\ d[i].version <= cv
       /\ Opens(d[i]) => d[i].version # 0 /\ d[i].version <= pc /\ la <= d[i].version
  /\ \A i, j \in 1 .. Len(d) :
       i < j /\ Opens(d[i]) /\ Opens(d[j]) => d[i].version <= d[j].version

Ordered ==
  /\ UpFits(up, edition, config_version, pc_version)
  /\ DownFits(down, config_version, pc_version, last_acked_config_version)
  /\ last_acked_config_version <= pc_version /\ pc_version <= config_version

LinkInv == IInv /\ LinkTypes /\ AtWork /\ RecordsKnown /\ Ordered

-----------------------------------------------------------------------------
\* Topics

\* The fields of what is on the two topics.
LEMMA EntryFields ==
  ASSUME NEW e \in Entry
  PROVE  e.seq \in Nat \ {0} /\ e.cmd \in MarkedCmds /\ e.edition \in Nat /\ e.version \in Nat
BY DEF Entry

\* ... and of the acknowledgements that answer it.
LEMMA AckFields ==
  ASSUME NEW a \in LinkAck
  PROVE  /\ a.seq \in Nat /\ a.cmd \in MarkedCmds /\ a.ok \in BOOLEAN /\ a.retryable \in BOOLEAN
         /\ a.version \in Nat
BY DEF LinkAck

\* Publishing a message.
LEMMA AppendIs ==
  ASSUME NEW T, NEW s \in Seq(T), NEW e \in T, NEW u, u = Append(s, e)
  PROVE  /\ u \in Seq(T) /\ Len(u) = Len(s) + 1 /\ Len(s) \in Nat
         /\ \A i \in 1 .. Len(s) : s[i] \in T /\ u[i] = s[i]
         /\ u[Len(s) + 1] = e
         /\ \A i \in 1 .. Len(u) : i \in 1 .. Len(s) \/ i = Len(s) + 1
OBVIOUS

\* Receiving, or losing, one.
LEMMA TailIs ==
  ASSUME NEW T, NEW s \in Seq(T), s # <<>>, NEW u, u = Tail(s)
  PROVE  /\ u \in Seq(T) /\ Len(u) = Len(s) - 1 /\ Len(s) \in Nat \ {0}
         /\ Head(s) = s[1] /\ Head(s) \in T /\ 1 \in 1 .. Len(s)
         /\ \A i \in 1 .. Len(u) : i + 1 \in 1 .. Len(s) /\ u[i] = s[i + 1]
OBVIOUS

\* A new configuration or version leaves what is on its way in order.
LEMMA UpStays ==
  ASSUME NEW u \in Seq(Entry), NEW ed \in Nat, NEW cv \in Nat, NEW pc \in Nat, UpFits(u, ed, cv, pc),
         NEW ed2 \in Nat, ed <= ed2, NEW cv2 \in Nat, cv <= cv2
  PROVE  UpFits(u, ed2, cv2, pc)
<1>1. \A i \in 1 .. Len(u) : u[i].edition \in Nat /\ u[i].version \in Nat
  <2>1. \A i \in 1 .. Len(u) : u[i] \in Entry
    OBVIOUS
  <2> QED BY <2>1, EntryFields
<1> QED BY <1>1 DEF UpFits

\* So does a message that carries, if it is a snapshot, the present version.
LEMMA UpGrows ==
  ASSUME NEW u \in Seq(Entry), NEW ed \in Nat, NEW cv \in Nat, NEW pc \in Nat, UpFits(u, ed, cv, pc),
         NEW m \in Entry, m.edition <= ed, m.version <= cv, pc <= cv,
         m.cmd = "config_snapshot" => m.version = cv /\ cv # 0,
         NEW v, v = Append(u, m)
  PROVE  v \in Seq(Entry) /\ UpFits(v, ed, cv, pc)
<1>1. /\ v \in Seq(Entry) /\ Len(v) = Len(u) + 1 /\ Len(u) \in Nat
      /\ \A i \in 1 .. Len(u) : u[i] \in Entry /\ v[i] = u[i]
      /\ v[Len(u) + 1] = m
      /\ \A i \in 1 .. Len(v) : i \in 1 .. Len(u) \/ i = Len(u) + 1
  BY AppendIs
<1>2. /\ \A i \in 1 .. Len(v) :
           /\ v[i].edition <= ed /\ v[i].version <= cv
           /\ v[i].cmd = "config_snapshot" => v[i].version # 0 /\ pc <= v[i].version
  BY <1>1 DEF UpFits
<1>3. ASSUME NEW i \in 1 .. Len(v), NEW j \in 1 .. Len(v), i < j,
             v[i].cmd = "config_snapshot", v[j].cmd = "config_snapshot"
      PROVE  v[i].version <= v[j].version
  <2>1. i \in 1 .. Len(u)
    BY <1>1, <1>3
  <2>2. CASE j \in 1 .. Len(u)
    BY <1>1, <1>3, <2>1, <2>2 DEF UpFits
  <2>3. CASE j = Len(u) + 1
    BY <1>1, <1>2, <1>3, <2>3
  <2> QED BY <1>1, <2>2, <2>3
<1> QED BY <1>1, <1>2, <1>3 DEF UpFits

\* The next message; after a snapshot come only snapshots as new.
LEMMA UpShrinks ==
  ASSUME NEW u \in Seq(Entry), NEW ed \in Nat, NEW cv \in Nat, NEW pc \in Nat, UpFits(u, ed, cv, pc),
         u # <<>>, NEW v, v = Tail(u)
  PROVE  /\ v \in Seq(Entry) /\ UpFits(v, ed, cv, pc)
         /\ Head(u) \in Entry /\ Head(u).edition <= ed /\ Head(u).version <= cv
         /\ Head(u).cmd = "config_snapshot" =>
              Head(u).version # 0 /\ pc <= Head(u).version /\ UpFits(v, ed, cv, Head(u).version)
<1>1. /\ v \in Seq(Entry) /\ Len(v) = Len(u) - 1 /\ Len(u) \in Nat \ {0}
      /\ Head(u) = u[1] /\ Head(u) \in Entry /\ 1 \in 1 .. Len(u)
      /\ \A i \in 1 .. Len(v) : i + 1 \in 1 .. Len(u) /\ v[i] = u[i + 1]
  BY TailIs
<1>2. UpFits(v, ed, cv, pc)
  BY <1>1 DEF UpFits
<1>3. /\ Head(u).edition <= ed /\ Head(u).version <= cv
      /\ Head(u).cmd = "config_snapshot" => Head(u).version # 0 /\ pc <= Head(u).version
  BY <1>1 DEF UpFits
<1>4. ASSUME Head(u).cmd = "config_snapshot" PROVE UpFits(v, ed, cv, Head(u).version)
  <2>1. \A i \in 1 .. Len(v) : v[i].cmd = "config_snapshot" => Head(u).version <= v[i].version
    BY <1>1, <1>4 DEF UpFits
  <2> QED BY <1>2, <2>1 DEF UpFits
<1> QED BY <1>1, <1>2, <1>3, <1>4

\* An acknowledgement that opens the gate carries the version just saved.
LEMMA DownGrows ==
  ASSUME NEW d \in Seq(LinkAck), NEW cv \in Nat, NEW pc \in Nat, NEW la \in Nat,
         DownFits(d, cv, pc, la), NEW pc2 \in Nat, pc <= pc2, la <= pc,
         NEW a \in LinkAck, a.version <= cv, Opens(a) => a.version = pc2 /\ pc2 # 0,
         NEW v, v = Append(d, a)
  PROVE  v \in Seq(LinkAck) /\ DownFits(v, cv, pc2, la)
<1>1. /\ v \in Seq(LinkAck) /\ Len(v) = Len(d) + 1 /\ Len(d) \in Nat
      /\ \A i \in 1 .. Len(d) : d[i] \in LinkAck /\ v[i] = d[i]
      /\ v[Len(d) + 1] = a
      /\ \A i \in 1 .. Len(v) : i \in 1 .. Len(d) \/ i = Len(d) + 1
  BY AppendIs
<1>2. \A i \in 1 .. Len(d) : d[i].version \in Nat
  BY <1>1, AckFields
<1>3. \A i \in 1 .. Len(v) :
        /\ v[i].version <= cv
        /\ Opens(v[i]) => v[i].version # 0 /\ v[i].version <= pc2 /\ la <= v[i].version
  <2>1. ASSUME NEW i \in 1 .. Len(d)
        PROVE  /\ v[i].version <= cv
               /\ Opens(v[i]) => v[i].version # 0 /\ v[i].version <= pc2 /\ la <= v[i].version
    BY <1>1, <1>2 DEF DownFits
  <2>2. ASSUME NEW i, i = Len(d) + 1
        PROVE  /\ v[i].version <= cv
               /\ Opens(v[i]) => v[i].version # 0 /\ v[i].version <= pc2 /\ la <= v[i].version
    BY <1>1, <2>2
  <2> QED BY <1>1, <2>1, <2>2
<1>4. ASSUME NEW i \in 1 .. Len(v), NEW j \in 1 .. Len(v), i < j, Opens(v[i]), Opens(v[j])
      PROVE  v[i].version <= v[j].version
  <2>1. i \in 1 .. Len(d)
    BY <1>1, <1>4
  <2>2. CASE j \in 1 .. Len(d)
    BY <1>1, <1>4, <2>1, <2>2 DEF DownFits
  <2>3. CASE j = Len(d) + 1
    BY <1>1, <1>3, <1>4, <2>3
  <2> QED BY <1>1, <2>2, <2>3
<1> QED BY <1>1, <1>3, <1>4 DEF DownFits

\* The next acknowledgement; after one that opens the gate come only as new ones.
LEMMA DownShrinks ==
  ASSUME NEW d \in Seq(LinkAck), NEW cv \in Nat, NEW pc \in Nat, NEW la \in Nat,
         DownFits(d, cv, pc, la), d # <<>>, NEW v, v = Tail(d)
  PROVE  /\ v \in Seq(LinkAck) /\ DownFits(v, cv, pc, la)
         /\ Head(d) \in LinkAck /\ Head(d).version <= cv
         /\ Opens(Head(d)) =>
              /\ Head(d).version # 0 /\ Head(d).version <= pc /\ la <= Head(d).version
              /\ DownFits(v, cv, pc, Head(d).version)
<1>1. /\ v \in Seq(LinkAck) /\ Len(v) = Len(d) - 1 /\ Len(d) \in Nat \ {0}
      /\ Head(d) = d[1] /\ Head(d) \in LinkAck /\ 1 \in 1 .. Len(d)
      /\ \A i \in 1 .. Len(v) : i + 1 \in 1 .. Len(d) /\ v[i] = d[i + 1]
  BY TailIs
<1>2. DownFits(v, cv, pc, la)
  BY <1>1 DEF DownFits
<1>3. /\ Head(d).version <= cv
      /\ Opens(Head(d)) =>
           Head(d).version # 0 /\ Head(d).version <= pc /\ la <= Head(d).version
  BY <1>1 DEF DownFits
<1>4. ASSUME Opens(Head(d)) PROVE DownFits(v, cv, pc, Head(d).version)
  <2>1. \A i \in 1 .. Len(v) : Opens(v[i]) => Head(d).version <= v[i].version
    BY <1>1, <1>4 DEF DownFits
  <2> QED BY <1>2, <2>1 DEF DownFits
<1> QED BY <1>1, <1>2, <1>3, <1>4

\* A new version leaves the acknowledgements in order.
LEMMA DownStays ==
  ASSUME NEW d \in Seq(LinkAck), NEW cv \in Nat, NEW pc \in Nat, NEW la \in Nat,
         DownFits(d, cv, pc, la), NEW cv2 \in Nat, cv <= cv2
  PROVE  DownFits(d, cv2, pc, la)
<1>1. \A i \in 1 .. Len(d) : d[i].version \in Nat
  <2>1. \A i \in 1 .. Len(d) : d[i] \in LinkAck
    OBVIOUS
  <2> QED BY <2>1, AckFields
<1> QED BY <1>1 DEF DownFits

-----------------------------------------------------------------------------
\* The records

\* What the registration cache keeps.
LEMMA CacheTypes ==
  ASSUME IInv
  PROVE  /\ active \in Records /\ queue \in Queues
         /\ config_version \in Nat /\ last_acked_config_version \in Nat
         /\ sync_seq \in Nat /\ SeqBase <= sync_seq
         /\ last_acked_config_version <= config_version
BY SeqAssumption DEF IInv, TypeOK, SeqsIssued, AckedVersionIssued, Records, Queues

\* A record is dropped, moved, kept or new.
MovedFrom(e) ==
  /\ active' \in {active, e, None} \/ \E j \in Slots : active' = queue[j]
  /\ \A i \in Slots : queue'[i] \in {queue[i], e, None}

\* Then the records still tell no version but a known one.
LEMMA RecordsStay ==
  ASSUME IInv, RecordsKnown, edition \in Nat, edition' \in Nat, edition <= edition',
         config_version' \in Nat, config_version <= config_version',
         NEW e, Known(e, edition', config_version'), MovedFrom(e)
  PROVE  RecordsKnown'
<1>1. /\ active \in Records /\ queue \in Queues /\ config_version \in Nat
  BY CacheTypes
<1>2. None.edition = 0 /\ \A r \in Records : r.edition \in Nat
  BY EntryFields DEF Records, None
<1>3. \A r \in Records : Known(r, edition, config_version) => Known(r, edition', config_version')
  BY <1>1, <1>2 DEF Known
<1>4. Known(None, edition', config_version')
  BY <1>2 DEF Known
<1>5. \A i \in Slots : queue[i] \in Records /\ Known(queue[i], edition', config_version')
  BY <1>1, <1>3 DEF Queues, RecordsKnown
<1>6. Known(active, edition', config_version')
  BY <1>1, <1>3 DEF RecordsKnown
<1>7. Known(active', edition', config_version')
  BY <1>4, <1>5, <1>6 DEF MovedFrom
<1>8. \A i \in Slots : Known(queue'[i], edition', config_version')
  BY <1>4, <1>5 DEF MovedFrom
<1> QED BY <1>7, <1>8 DEF RecordsKnown

\* promote_next_pending_locked moves one.
LEMMA PromoteMoves ==
  ASSUME NEW q \in Queues, NEW r, NEW c, PromoteNext(q, r, c),
         \A i \in Slots : q[i] \in {queue[i], None}
  PROVE  MovedFrom(None)
<1>1. CASE Used(q) = {}
  BY <1>1 DEF PromoteNext, MovedFrom
<1>2. CASE Used(q) # {}
  <2>1. PICK i \in Slots : SetActive(q[i]) /\ queue' = [q EXCEPT ![i] = None]
    BY <1>2 DEF PromoteNext
  <2> QED BY <2>1 DEF SetActive, MovedFrom, Queues
<1> QED BY <1>1, <1>2

\* So does an acknowledgement, or it drops some.
LEMMA AckMoves ==
  ASSUME IInv, NEW a, HandleAck(a)
  PROVE  MovedFrom(None)
<1> DEFINE activeMatch == a.seq # 0 /\ SameKey(active, a)
           snapshotAck == a.cmd \in SnapshotCmds
           q == IF ~activeMatch /\ a.seq # 0 THEN RemoveQueued(queue, a) ELSE queue
<1>1. queue \in Queues
  BY CacheTypes
<1>2. q \in Queues /\ \A i \in Slots : q[i] \in {queue[i], None}
  BY <1>1, NoneIsNoEntry DEF RemoveQueued, Queues
<1>3. CASE AckIgnored(a)
  BY <1>3 DEF HandleAck, MovedFrom, syncVars, trackVars
<1>4. CASE ~AckIgnored(a)
  <2>1. PromoteNext(q, a.retryable, 0) \/ (queue' = q /\ active' = active)
    BY <1>4 DEF HandleAck
  <2> HIDE DEF q
  <2> QED BY <1>2, <2>1, PromoteMoves DEF MovedFrom
<1> QED BY <1>3, <1>4

\* mark_sent and publish_latest_snapshot add one.
LEMMA TrackMoves ==
  ASSUME IInv, NEW e, Track(e)
  PROVE  MovedFrom(e)
<1>1. queue \in Queues
  BY CacheTypes
<1> QED BY <1>1 DEF Track, SetActive, Enqueue, MovedFrom, Queues

-----------------------------------------------------------------------------
\* The gateway's threads

\* A thread moves on.
LEMMA ThreadMoves ==
  ASSUME LinkTypes, AtWork, edition' \in Nat, edition <= edition', NEW t \in Threads,
         NEW w \in Work(edition'), Busy(w), th' = [th EXCEPT ![t] = w]
  PROVE  th' \in [Threads -> Work(edition')] /\ AtWork'
<1>1. \A x \in Work(edition) : x \in Work(edition')
  <2>1. 0 .. edition \subseteq 0 .. edition'
    BY DEF LinkTypes
  <2> QED BY <2>1 DEF Work
<1>2. th \in [Threads -> Work(edition)]
  BY DEF LinkTypes
<1>3. th' \in [Threads -> Work(edition')]
  BY <1>1, <1>2
<1>4. \A x \in Threads : th'[x] = IF x = t THEN w ELSE th[x]
  BY <1>2
<1> QED BY <1>3, <1>4 DEF AtWork

\* The parts of the invariant that speak of the topics and of Pc_data, when they
\* and the acknowledged version are left alone.
LEMMA TopicsStay ==
  ASSUME IInv, LinkTypes, Ordered, UNCHANGED <<up, down, pc_version, last_acked_config_version>>,
         edition' \in Nat, edition <= edition',
         config_version' \in Nat, config_version <= config_version'
  PROVE  Ordered'
<1>1. /\ config_version \in Nat /\ last_acked_config_version \in Nat /\ pc_version \in Nat
      /\ up \in Seq(Entry) /\ down \in Seq(LinkAck) /\ edition \in Nat
  BY CacheTypes, LinkBoundsAssumption DEF LinkTypes
<1>2. /\ UpFits(up, edition, config_version, pc_version)
      /\ DownFits(down, config_version, pc_version, last_acked_config_version)
  BY DEF Ordered
<1>3. UpFits(up, edition', config_version', pc_version)
  BY <1>1, <1>2, UpStays
<1>4. DownFits(down, config_version', pc_version, last_acked_config_version)
  BY <1>1, <1>2, DownStays
<1> QED BY <1>1, <1>3, <1>4 DEF Ordered

\* offline_publish_or_cache: the topic has one message more, or is unchanged.
LEMMA SendFits ==
  ASSUME IInv, IInv', LinkTypes, Ordered, config_version <= config_version', edition' = edition,
         UNCHANGED <<down, pc_version, last_acked_config_version>>,
         NEW m \in Entry, Send(m), m.edition <= edition, m.version <= config_version',
         m.cmd = "config_snapshot" => m.version = config_version' /\ config_version' # 0
  PROVE  up' \in Seq(Entry) /\ Ordered'
<1>1. /\ config_version \in Nat /\ last_acked_config_version \in Nat /\ pc_version \in Nat
      /\ up \in Seq(Entry) /\ down \in Seq(LinkAck) /\ edition \in Nat
  BY CacheTypes, LinkBoundsAssumption DEF LinkTypes
<1>2. config_version' \in Nat
  BY DEF IInv, TypeOK
<1>3. /\ UpFits(up, edition, config_version, pc_version) /\ pc_version <= config_version
      /\ DownFits(down, config_version, pc_version, last_acked_config_version)
      /\ last_acked_config_version <= pc_version
  BY DEF Ordered
<1>4. UpFits(up, edition, config_version', pc_version) /\ pc_version <= config_version'
  BY <1>1, <1>2, <1>3, UpStays
<1>5. DownFits(down, config_version', pc_version, last_acked_config_version)
  BY <1>1, <1>2, <1>3, DownStays
<1>6. up' \in Seq(Entry) /\ UpFits(up', edition, config_version', pc_version)
  <2>1. CASE up' = up
    BY <1>1, <1>4, <2>1
  <2>2. CASE up' = Append(up, m)
    BY <1>1, <1>2, <1>4, <2>2, UpGrows
  <2> QED BY <2>1, <2>2 DEF Send
<1> QED BY <1>3, <1>4, <1>5, <1>6 DEF Ordered

\* The whole invariant at once, of its parts.
LEMMA Parts ==
  ASSUME LinkInv
  PROVE  /\ IInv /\ LinkTypes /\ AtWork /\ RecordsKnown /\ Ordered
         /\ edition \in Nat /\ th \in [Threads -> Work(edition)]
         /\ \A t \in Threads : th[t] \in Work(edition) /\ Busy(th[t])
BY LinkBoundsAssumption DEF LinkInv, LinkTypes, AtWork

\* The registrations are no snapshots.
LEMMA Registrations ==
  /\ "config_snapshot" \notin RegisterCmds /\ RegisterCmds \subseteq MarkedCmds
  /\ "config_snapshot" \in MarkedCmds
  /\ "gateway_register" \in RegisterCmds /\ "device_register" \in RegisterCmds
  /\ \A cmd \in MarkedCmds : cmd \in SnapshotCmds => cmd = "config_snapshot"
BY RegisterCmdsAssumption, LinkCmdsAssumption DEF MarkedCmds, SnapshotCmds

\* The cache and its records are left alone.
LEMMA CacheStays ==
  ASSUME IInv, RecordsKnown, UNCHANGED syncVars, edition \in Nat, edition' \in Nat,
         edition <= edition'
  PROVE  /\ IInv' /\ RecordsKnown' /\ config_version' = config_version
         /\ last_acked_config_version' = last_acked_config_version
<1>1. IInv'
  BY NextInv
<1>2. /\ config_version' = config_version /\ active' = active /\ queue' = queue
      /\ last_acked_config_version' = last_acked_config_version
  BY DEF syncVars, trackVars, gateVars
<1>3. config_version \in Nat
  BY CacheTypes
<1>4. MovedFrom(active) /\ Known(active, edition', config_version')
  <2>1. active.edition \in Nat
    BY CacheTypes, EntryFields DEF Records, None
  <2> QED BY <1>2, <2>1 DEF MovedFrom, RecordsKnown, Known
<1>5. RecordsKnown'
  BY <1>2, <1>3, <1>4, RecordsStay
<1> QED BY <1>1, <1>2, <1>5

\* A command changes the configuration.
LEMMA BeginCommandInv ==
  ASSUME LinkInv, NEW t \in Commanders, BeginCommand(t)
  PROVE  LinkInv'
<1>1. /\ IInv /\ LinkTypes /\ AtWork /\ RecordsKnown /\ Ordered /\ edition \in Nat
  BY Parts
<1>2. edition' = edition + 1 /\ edition' \in 1 .. MaxEdition
  BY <1>1, LinkBoundsAssumption DEF BeginCommand
<1>3. UNCHANGED <<syncVars, up, down, pc_editions, pc_version, faults>>
  BY DEF BeginCommand
<1>4. PICK cmd \in {"device_register", "config_snapshot"} :
        th' = [th EXCEPT ![t] = [step |-> IF cmd = "device_register" THEN "publish" ELSE "export",
                                 cmd |-> cmd, seq |-> edition', exported |-> 0]]
  BY DEF BeginCommand
<1> DEFINE s == IF cmd = "device_register" THEN "publish" ELSE "export"
           w == [step |-> s, cmd |-> cmd, seq |-> edition', exported |-> 0]
<1>5. w \in Work(edition') /\ Busy(w)
  <2>1. edition' \in 1 .. SeqBase /\ 0 \in 0 .. edition'
    BY <1>1, <1>2, LinkSeqAssumption, LinkBoundsAssumption
  <2>2. s \in Steps /\ (s = "publish" => cmd = "device_register") /\ s # "mark"
    BY DEF Steps
  <2>3. cmd \in MarkedCmds
    BY Registrations
  <2> HIDE DEF s
  <2> QED BY <2>1, <2>2, <2>3, Registrations DEF Work, Busy
<1>6. t \in Threads /\ edition' \in Nat /\ edition <= edition' /\ th' = [th EXCEPT ![t] = w]
  BY <1>1, <1>2, <1>4 DEF Threads
<1> HIDE DEF w
<1>7. th' \in [Threads -> Work(edition')] /\ AtWork'
  BY <1>1, <1>5, <1>6, ThreadMoves
<1>8. LinkTypes'
  <2>1. 0 .. edition \subseteq 0 .. edition'
    BY <1>1, <1>2
  <2> QED BY <1>1, <1>2, <1>3, <1>7, <2>1, LinkBoundsAssumption DEF LinkTypes
<1>9. /\ IInv' /\ RecordsKnown' /\ config_version' = config_version
      /\ last_acked_config_version' = last_acked_config_version
  BY <1>1, <1>3, <1>6, CacheStays
<1>10. Ordered'
  <2>1. config_version \in Nat /\ config_version <= config_version'
    BY <1>1, <1>9, CacheTypes
  <2> QED BY <1>1, <1>3, <1>6, <1>9, <2>1, TopicsStay
<1> QED BY <1>7, <1>8, <1>9, <1>10 DEF LinkInv

\* The first connection.
LEMMA ConnectInv ==
  ASSUME LinkInv, ConnectAndRegister
  PROVE  LinkInv'
<1>1. /\ IInv /\ LinkTypes /\ AtWork /\ RecordsKnown /\ Ordered /\ edition \in Nat
  BY Parts
<1>2. UNCHANGED <<trackVars, gateVars, status, sync_seq>> /\ Connect
      /\ UNCHANGED <<edition, up, down, pc_editions, pc_version, faults>>
  BY DEF ConnectAndRegister, Connect
<1> DEFINE w == [step |-> "publish", cmd |-> "gateway_register", seq |-> MaxEdition + 1,
                 exported |-> 0]
<1>3. w \in Work(edition') /\ Busy(w)
  <2>1. MaxEdition + 1 \in 1 .. SeqBase /\ 0 \in 0 .. edition'
    BY <1>1, <1>2, LinkSeqAssumption, LinkBoundsAssumption
  <2> QED BY <2>1, Registrations DEF Work, Busy, Steps
<1>4. "poll" \in Threads /\ edition' \in Nat /\ edition <= edition'
      /\ th' = [th EXCEPT !["poll"] = w]
  BY <1>1, <1>2 DEF Threads, ConnectAndRegister
<1> HIDE DEF w
<1>5. th' \in [Threads -> Work(edition')] /\ AtWork'
  BY <1>1, <1>3, <1>4, ThreadMoves
<1>6. LinkTypes'
  BY <1>1, <1>2, <1>5 DEF LinkTypes
<1>7. IInv'
  BY <1>1, <1>2, NextInv DEF Next
<1>8. RecordsKnown'
  BY <1>1, <1>2 DEF RecordsKnown, trackVars, gateVars
<1>9. Ordered'
  BY <1>1, <1>2 DEF Ordered, gateVars
<1> QED BY <1>5, <1>6, <1>7, <1>8, <1>9 DEF LinkInv

\* A registration is published before it is recorded.
LEMMA PublishRegisterInv ==
  ASSUME LinkInv, NEW t \in Threads, PublishRegister(t)
  PROVE  LinkInv'
<1>1. /\ IInv /\ LinkTypes /\ AtWork /\ RecordsKnown /\ Ordered /\ edition \in Nat
      /\ th[t] \in Work(edition) /\ Busy(th[t]) /\ th \in [Threads -> Work(edition)]
  BY Parts
<1>2. UNCHANGED <<syncVars, edition, down, pc_editions, pc_version, faults>>
      /\ th[t].step = "publish"
  BY DEF PublishRegister
<1> DEFINE m == [seq |-> th[t].seq, cmd |-> th[t].cmd, edition |-> edition, version |-> 0]
           w == [th[t] EXCEPT !.step = "mark"]
<1>3. th[t].seq \in 1 .. SeqBase /\ th[t].cmd \in RegisterCmds
  BY <1>1, <1>2, SeqAssumption DEF Work, Busy
<1>4. m \in Entry /\ m.edition = edition /\ m.version = 0 /\ m.cmd # "config_snapshot"
  BY <1>1, <1>3, SeqAssumption, Registrations DEF Entry
<1>5. w \in Work(edition') /\ Busy(w)
  BY <1>1, <1>2, <1>3, SeqAssumption DEF Work, Busy, Steps
<1>6. Send(m) /\ th' = [th EXCEPT ![t] = w]
  BY <1>1 DEF PublishRegister, Goto
<1> HIDE DEF m, w
<1>7. /\ IInv' /\ RecordsKnown' /\ config_version' = config_version
      /\ last_acked_config_version' = last_acked_config_version /\ config_version \in Nat
      /\ edition' = edition /\ edition' \in Nat /\ edition <= edition'
  BY <1>1, <1>2, CacheStays, CacheTypes
<1>8. th' \in [Threads -> Work(edition')] /\ AtWork'
  BY <1>1, <1>5, <1>6, <1>7, ThreadMoves
<1>9. up' \in Seq(Entry) /\ Ordered'
  BY <1>1, <1>2, <1>4, <1>6, <1>7, SendFits
<1>10. LinkTypes'
  BY <1>1, <1>2, <1>8, <1>9 DEF LinkTypes
<1> QED BY <1>7, <1>8, <1>9, <1>10 DEF LinkInv

\* Then it is recorded; the first record begins the first version.
LEMMA MarkRegisterInv ==
  ASSUME LinkInv, NEW t \in Threads, MarkRegister(t)
  PROVE  LinkInv'
<1>1. /\ IInv /\ LinkTypes /\ AtWork /\ RecordsKnown /\ Ordered /\ edition \in Nat
      /\ th[t] \in Work(edition) /\ Busy(th[t]) /\ th \in [Threads -> Work(edition)]
  BY Parts
<1>2. UNCHANGED <<edition, up, down, pc_editions, pc_version, faults>> /\ th[t].step = "mark"
      /\ MarkSent(th[t].seq, th[t].cmd, edition) /\ edition' \in Nat /\ edition <= edition'
  BY <1>1 DEF MarkRegister
<1> DEFINE n == IF t = "poll" THEN MaxEdition + 2 ELSE th[t].seq
           w == [th[t] EXCEPT !.step = "export", !.seq = n]
<1>3. th[t].seq \in 1 .. SeqBase /\ th[t].cmd \in RegisterCmds
  BY <1>1, <1>2, SeqAssumption DEF Work, Busy
<1>4. n \in 1 .. SeqBase
  BY <1>3, SeqAssumption, LinkSeqAssumption, LinkBoundsAssumption
<1>5. th' = [th EXCEPT ![t] = w]
  BY <1>1 DEF MarkRegister
<1> HIDE DEF n
<1>6. w \in Work(edition') /\ Busy(w)
  <2>1. n \in 0 .. SeqBase /\ n # 0 /\ "export" \in Steps
    BY <1>4, SeqAssumption DEF Steps
  <2>2. w \in Work(edition') /\ w.step = "export" /\ w.seq = n
    BY <1>1, <1>2, <2>1 DEF Work
  <2> HIDE DEF w
  <2> QED BY <2>1, <2>2 DEF Busy
<1> HIDE DEF w
<1>7. th' \in [Threads -> Work(edition')] /\ AtWork'
  BY <1>1, <1>2, <1>5, <1>6, ThreadMoves
<1>8. LinkTypes'
  BY <1>1, <1>2, <1>7 DEF LinkTypes
<1>9. /\ config_version' \in Nat \ {0} /\ config_version' >= config_version /\ sync_seq' = sync_seq
      /\ \E e \in Entry : e.seq <= sync_seq /\ e.edition = edition /\ Track(e)
  <2>1. th[t].seq \in Nat \ {0} /\ th[t].seq <= sync_seq /\ th[t].cmd \in MarkedCmds
    BY <1>1, <1>3, CacheTypes, SeqAssumption, Registrations
  <2> QED BY <1>1, <1>2, <2>1, CommandRecords
<1>10. PICK e \in Entry : e.seq <= sync_seq /\ e.edition = edition /\ Track(e)
  BY <1>9
<1>11. IInv' /\ last_acked_config_version' = last_acked_config_version
  BY <1>1, <1>9, <1>10, RecordInv DEF Track
<1>12. config_version \in Nat /\ config_version <= config_version'
  BY <1>1, <1>9, CacheTypes
<1>13. RecordsKnown'
  <2>1. Known(e, edition', config_version') /\ MovedFrom(e)
    BY <1>1, <1>2, <1>9, <1>10, TrackMoves DEF Known
  <2> QED BY <1>1, <1>2, <1>9, <1>12, <2>1, RecordsStay
<1>14. Ordered'
  BY <1>1, <1>2, <1>9, <1>11, <1>12, TopicsStay
<1> QED BY <1>7, <1>8, <1>11, <1>13, <1>14 DEF LinkInv

\* A snapshot is exported.
LEMMA ExportInv ==
  ASSUME LinkInv, NEW t \in Threads, ExportSnapshot(t)
  PROVE  LinkInv'
<1>1. /\ IInv /\ LinkTypes /\ AtWork /\ RecordsKnown /\ Ordered /\ edition \in Nat
      /\ th[t] \in Work(edition) /\ Busy(th[t]) /\ th \in [Threads -> Work(edition)]
  BY Parts
<1>2. UNCHANGED <<syncVars, edition, up, down, pc_editions, pc_version, faults>>
      /\ th[t].step = "export" /\ edition' \in Nat /\ edition <= edition'
  BY <1>1 DEF ExportSnapshot
<1> DEFINE w == [th[t] EXCEPT !.step = "snapshot", !.exported = edition]
<1>3. w \in Work(edition') /\ Busy(w)
  <2>1. edition \in 0 .. edition'
    BY <1>1, <1>2
  <2> QED BY <1>1, <1>2, <2>1 DEF Work, Busy, Steps
<1>4. th' = [th EXCEPT ![t] = w]
  BY <1>1 DEF ExportSnapshot
<1> HIDE DEF w
<1>5. th' \in [Threads -> Work(edition')] /\ AtWork'
  BY <1>1, <1>2, <1>3, <1>4, ThreadMoves
<1>6. LinkTypes'
  BY <1>1, <1>2, <1>5 DEF LinkTypes
<1>7. /\ IInv' /\ RecordsKnown' /\ config_version' = config_version
      /\ last_acked_config_version' = last_acked_config_version
  BY <1>1, <1>2, CacheStays
<1>8. Ordered'
  BY <1>1, <1>2, <1>7 DEF Ordered
<1> QED BY <1>5, <1>6, <1>7, <1>8 DEF LinkInv

\* It is published with a new version, the highest on its way.
LEMMA PublishSnapshotInv ==
  ASSUME LinkInv, NEW t \in Threads, PublishSnapshot(t)
  PROVE  LinkInv'
<1>1. /\ IInv /\ LinkTypes /\ AtWork /\ RecordsKnown /\ Ordered /\ edition \in Nat
      /\ th[t] \in Work(edition) /\ Busy(th[t]) /\ th \in [Threads -> Work(edition)]
  BY Parts
<1>2. /\ UNCHANGED <<edition, down, pc_editions, pc_version, faults>> /\ th[t].step = "snapshot"
      /\ PublishLatestSnapshot(th[t].seq, th[t].exported)
      /\ edition' = edition /\ edition' \in Nat /\ edition <= edition'
  BY <1>1 DEF PublishSnapshot
<1>3. th[t].seq \in 1 .. SeqBase /\ th[t].exported \in 0 .. edition
  BY <1>1, <1>2, SeqAssumption DEF Work, Busy
<1>4. /\ config_version' \in Nat \ {0} /\ config_version' >= config_version /\ sync_seq' = sync_seq
      /\ \E e \in Entry : e.seq <= sync_seq /\ e.edition = th[t].exported /\ Track(e)
  <2>1. th[t].seq \in Nat \ {0} /\ th[t].seq <= sync_seq /\ th[t].exported \in Nat
    BY <1>1, <1>3, CacheTypes, SeqAssumption
  <2> QED BY <1>1, <1>2, <2>1, CommandRecords
<1>5. PICK e \in Entry : e.seq <= sync_seq /\ e.edition = th[t].exported /\ Track(e)
  BY <1>4
<1>6. IInv' /\ last_acked_config_version' = last_acked_config_version
  BY <1>1, <1>4, <1>5, RecordInv DEF Track
<1>7. config_version \in Nat /\ config_version <= config_version'
  BY <1>1, <1>4, CacheTypes
<1>8. RecordsKnown'
  <2>1. Known(e, edition', config_version') /\ MovedFrom(e)
    BY <1>1, <1>2, <1>3, <1>4, <1>5, TrackMoves DEF Known
  <2> QED BY <1>1, <1>2, <1>4, <1>7, <2>1, RecordsStay
<1> DEFINE m == [seq |-> th[t].seq, cmd |-> "config_snapshot", edition |-> th[t].exported,
                 version |-> config_version']
<1>9. m \in Entry /\ m.edition <= edition /\ m.version = config_version'
  BY <1>1, <1>3, <1>4, SeqAssumption, Registrations DEF Entry
<1>10. Send(m)
  BY DEF PublishSnapshot
<1> HIDE DEF m
<1>11. up' \in Seq(Entry) /\ Ordered'
  <2>1. m.version <= config_version' /\ config_version' # 0
    BY <1>4, <1>9
  <2> QED BY <1>1, <1>2, <1>6, <1>7, <1>9, <1>10, <2>1, SendFits
<1>12. Idle \in Work(edition') /\ Busy(Idle) /\ th' = [th EXCEPT ![t] = Idle]
  <2>1. 0 \in 0 .. edition' /\ 0 \in 0 .. SeqBase
    BY <1>2, SeqAssumption
  <2> QED BY <2>1 DEF Idle, Work, Busy, Steps, PublishSnapshot
<1>13. th' \in [Threads -> Work(edition')] /\ AtWork'
  BY <1>1, <1>2, <1>12, ThreadMoves
<1>14. LinkTypes'
  BY <1>1, <1>2, <1>11, <1>13 DEF LinkTypes
<1> QED BY <1>6, <1>8, <1>11, <1>13, <1>14 DEF LinkInv

\* mqtt_poll's tick: a retry carries the present version.
LEMMA PollTickInv ==
  ASSUME LinkInv, PollTick
  PROVE  LinkInv'
<1>1. /\ IInv /\ LinkTypes /\ AtWork /\ RecordsKnown /\ Ordered /\ edition \in Nat
      /\ config_version \in Nat /\ active \in Records /\ queue \in Queues
  BY Parts, CacheTypes
<1>2. UNCHANGED <<edition, th, down, pc_editions, pc_version, faults>> /\ edition <= edition'
      /\ edition' \in Nat
  BY <1>1 DEF PollTick
<1>3. IInv' /\ config_version' = config_version
      /\ last_acked_config_version' = last_acked_config_version
  <2>1. TickWait \/ TickRetry
    BY DEF PollTick
  <2> QED BY <1>1, <2>1, TickInv DEF TickWait, TickRetry, gateVars
<1>4. AtWork'
  BY <1>1, <1>2 DEF AtWork
<1>5. CASE TickWait /\ UNCHANGED up
  <2>1. MovedFrom(None)
    <3>1. CASE active = None
      BY <1>1, <1>5, <3>1, PromoteMoves DEF TickWait
    <3>2. CASE active # None
      BY <1>5, <3>2 DEF TickWait, trackVars, MovedFrom
    <3> QED BY <3>1, <3>2
  <2>2. Known(None, edition', config_version')
    BY <1>2 DEF Known, None
  <2>3. RecordsKnown'
    BY <1>1, <1>2, <1>3, <2>1, <2>2, RecordsStay
  <2>4. LinkTypes' /\ Ordered'
    BY <1>1, <1>2, <1>3, <1>5 DEF LinkTypes, Ordered
  <2> QED BY <1>3, <1>4, <2>3, <2>4 DEF LinkInv
<1>6. CASE TickRetry /\ Send(active')
  <2>1. active # None /\ active' = [active EXCEPT !.seq = sync_seq', !.version = config_version]
        /\ queue' = queue
    BY <1>6 DEF TickRetry, Resent
  <2>2. active \in Entry /\ active.edition <= edition /\ config_version # 0
    BY <1>1, <2>1 DEF Records, RecordsKnown, Known
  <2>3. /\ active'.edition = active.edition /\ active'.version = config_version
        /\ active' \in Entry
    <3>1. active' \in Records /\ active'.edition = active.edition /\ active'.version = config_version
          /\ active'.seq = sync_seq'
      BY <1>3, <2>1, <2>2 DEF Entry, IInv, TypeOK, Records
    <3>2. sync_seq' \in Nat \ {0}
      BY <1>1, <1>6, CacheTypes DEF TickRetry
    <3>3. active' # None
      BY <3>1, <3>2, NoneIsNoEntry
    <3> QED BY <3>1, <3>3 DEF Records
  <2>4. up' \in Seq(Entry) /\ Ordered'
    <3> DEFINE m == active'
    <3>1. /\ m \in Entry /\ Send(m) /\ m.edition <= edition /\ m.version = config_version'
          /\ m.version <= config_version' /\ config_version' # 0 /\ config_version <= config_version'
      BY <1>1, <1>3, <1>6, <2>2, <2>3
    <3> HIDE DEF m
    <3> QED BY <1>1, <1>2, <1>3, <3>1, SendFits
  <2>5. RecordsKnown'
    BY <1>1, <1>2, <1>3, <2>1, <2>2, <2>3 DEF RecordsKnown, Known
  <2>6. LinkTypes'
    BY <1>1, <1>2, <2>4 DEF LinkTypes
  <2> QED BY <1>3, <1>4, <2>4, <2>5, <2>6 DEF LinkInv
<1> QED BY <1>5, <1>6 DEF PollTick

\* The clock.
LEMMA PassTimeInv ==
  ASSUME LinkInv, PassTime
  PROVE  LinkInv'
<1>1. IInv'
  BY Parts, NextInv DEF PassTime, Next
<1> QED BY <1>1 DEF LinkInv, LinkTypes, AtWork, RecordsKnown, Ordered, PassTime, Elapse,
                    gateVars, linkVars

-----------------------------------------------------------------------------
\* Pc_data

\* An acknowledgement of a message on its way.
LEMMA AckOf ==
  ASSUME NEW m \in Entry, NEW verdict, NEW a, a = RegisterAck(m, verdict)
  PROVE  /\ a \in LinkAck /\ a.version <= m.version
         /\ Opens(a) => /\ verdict = "saved" /\ m.cmd = "config_snapshot" /\ a.version = m.version
<1>1. m.seq \in Nat /\ m.cmd \in MarkedCmds /\ m.version \in Nat
  BY EntryFields
<1> DEFINE v == IF m.cmd = "device_register" THEN 0 ELSE m.version
           p == IF m.cmd \in {"gateway_register", "config_snapshot"} THEN "gateway" ELSE "port"
           ok == verdict = "saved"
           re == verdict = "db_error"
<1>2. v \in Nat /\ v <= m.version /\ (m.cmd = "config_snapshot" => v = m.version)
  BY <1>1
<1>3. p \in {"gateway", "port"} /\ ok \in BOOLEAN /\ re \in BOOLEAN
  OBVIOUS
<1>4. a = [seq |-> m.seq, cmd |-> m.cmd, ok |-> ok, retryable |-> re, version |-> v, topic |-> p]
  BY DEF RegisterAck
<1>5. ok => verdict = "saved"
  OBVIOUS
<1> HIDE DEF v, p, ok, re
<1>6. a \in LinkAck /\ a.version = v /\ a.ok = ok /\ a.cmd = m.cmd
  BY <1>1, <1>2, <1>3, <1>4 DEF LinkAck
<1> QED BY <1>1, <1>2, <1>5, <1>6 DEF Opens

\* A handler saves or refuses the next message, and acknowledges it.
LEMMA PcHandleInv ==
  ASSUME LinkInv, PcHandle
  PROVE  LinkInv' /\ pc_version' >= pc_version
<1> DEFINE m == Head(up)
<1>1. /\ IInv /\ LinkTypes /\ AtWork /\ RecordsKnown /\ Ordered /\ edition \in Nat
  BY Parts
<1>2. /\ config_version \in Nat /\ last_acked_config_version \in Nat /\ pc_version \in Nat
      /\ up \in Seq(Entry) /\ down \in Seq(LinkAck) /\ up # <<>>
      /\ UpFits(up, edition, config_version, pc_version)
      /\ DownFits(down, config_version, pc_version, last_acked_config_version)
      /\ last_acked_config_version <= pc_version /\ pc_version <= config_version
  BY <1>1, CacheTypes DEF LinkTypes, Ordered, PcHandle
<1>3. PICK verdict \in Verdicts(m.cmd) :
        /\ PcAnswer(m, verdict)
        /\ IF m.cmd = "config_snapshot" /\ verdict = "saved"
           THEN pc_editions' = {m.edition} /\ pc_version' = m.version
           ELSE /\ pc_editions' \in {pc_editions, pc_editions \cup {m.edition}}
                /\ UNCHANGED pc_version
  BY DEF PcHandle, PcGatewayRegister, PcDeviceRegister, PcConfigSnapshot
<1>4. /\ up' = Tail(up) /\ down' = Append(down, RegisterAck(m, verdict))
      /\ faults' = IF verdict = "saved" THEN faults ELSE faults + 1
      /\ UNCHANGED <<syncVars, edition, th>>
  BY <1>3 DEF PcAnswer
<1>5. /\ up' \in Seq(Entry) /\ UpFits(up', edition, config_version, pc_version)
      /\ m \in Entry /\ m.edition <= edition /\ m.version <= config_version
      /\ m.cmd = "config_snapshot" =>
           m.version # 0 /\ pc_version <= m.version /\ UpFits(up', edition, config_version, m.version)
  BY <1>1, <1>2, <1>4, UpShrinks
<1>6. m.version \in Nat /\ m.edition \in Nat
  BY <1>5, EntryFields
<1> DEFINE a == RegisterAck(m, verdict)
<1>7. /\ a \in LinkAck /\ a.version <= m.version
      /\ Opens(a) => verdict = "saved" /\ m.cmd = "config_snapshot" /\ a.version = m.version
  BY <1>5, AckOf
<1>8. down' = Append(down, a)
  BY <1>4
<1> HIDE DEF m, a
<1>9. faults' \in 0 .. MaxFaults
  <2>1. verdict # "saved" => faults < MaxFaults
    BY DEF Verdicts
  <2> QED BY <1>1, <1>4, <2>1, LinkBoundsAssumption DEF LinkTypes
<1>10. /\ pc_version' \in Nat /\ pc_version <= pc_version' /\ pc_version' <= config_version
       /\ UpFits(up', edition, config_version, pc_version')
       /\ Opens(a) => a.version = pc_version' /\ pc_version' # 0
       /\ pc_editions' \subseteq 0 .. edition
  <2>1. m.edition \in 0 .. edition /\ pc_editions \subseteq 0 .. edition
    BY <1>1, <1>5, <1>6 DEF LinkTypes
  <2>2. CASE m.cmd = "config_snapshot" /\ verdict = "saved"
    BY <1>3, <1>5, <1>6, <1>7, <2>1, <2>2
  <2>3. CASE ~(m.cmd = "config_snapshot" /\ verdict = "saved")
    <3>1. /\ pc_editions' \in {pc_editions, pc_editions \cup {m.edition}}
          /\ pc_version' = pc_version /\ ~Opens(a)
      BY <1>3, <1>7, <2>3
    <3>2. pc_editions' \subseteq 0 .. edition
      BY <2>1, <3>1
    <3> QED BY <1>2, <1>5, <3>1, <3>2
  <2> QED BY <2>2, <2>3
<1>11. down' \in Seq(LinkAck) /\ DownFits(down', config_version, pc_version', last_acked_config_version)
  <2>1. a.version <= config_version
    <3>1. a.version \in Nat
      BY <1>7, AckFields
    <3> QED BY <1>2, <1>5, <1>6, <1>7, <3>1
  <2> QED BY <1>2, <1>7, <1>8, <1>10, <2>1, DownGrows
<1>12. /\ IInv' /\ RecordsKnown' /\ config_version' = config_version
       /\ last_acked_config_version' = last_acked_config_version
  BY <1>1, <1>4, CacheStays
<1>13. LinkTypes' /\ AtWork'
  BY <1>1, <1>4, <1>5, <1>9, <1>10, <1>11 DEF LinkTypes, AtWork
<1>14. Ordered'
  <2>1. last_acked_config_version <= pc_version'
    BY <1>2, <1>10
  <2> QED BY <1>4, <1>10, <1>11, <1>12, <2>1 DEF Ordered
<1> QED BY <1>2, <1>10, <1>12, <1>13, <1>14 DEF LinkInv

-----------------------------------------------------------------------------
\* Acknowledgements and losses

\* An acknowledgement that reaches the cache: the version it opens the gate for
\* is one Pc_data has saved, and not below the one before.
LEMMA ReceiveAckInv ==
  ASSUME LinkInv, ReceiveAck
  PROVE  LinkInv' /\ last_acked_config_version' >= last_acked_config_version
<1> DEFINE a == Head(down)
<1>1. /\ IInv /\ LinkTypes /\ AtWork /\ RecordsKnown /\ Ordered /\ edition \in Nat
  BY Parts
<1>2. /\ config_version \in Nat /\ last_acked_config_version \in Nat /\ pc_version \in Nat
      /\ down \in Seq(LinkAck) /\ down # <<>> /\ down' = Tail(down)
      /\ DownFits(down, config_version, pc_version, last_acked_config_version)
      /\ last_acked_config_version <= pc_version /\ pc_version <= config_version
  BY <1>1, CacheTypes DEF LinkTypes, Ordered, ReceiveAck
<1>3. UNCHANGED <<edition, th, up, pc_editions, pc_version, faults>>
      /\ (HandleAck(a) \/ UNCHANGED syncVars)
  BY DEF ReceiveAck
<1>4. /\ down' \in Seq(LinkAck)
      /\ DownFits(down', config_version, pc_version, last_acked_config_version)
      /\ a \in LinkAck /\ a.version <= config_version
      /\ Opens(a) => /\ a.version # 0 /\ a.version <= pc_version
                     /\ last_acked_config_version <= a.version
                     /\ DownFits(down', config_version, pc_version, a.version)
  BY <1>2, DownShrinks
<1>5. a.version \in Nat /\ a.ok \in BOOLEAN /\ a.retryable \in BOOLEAN /\ a.cmd \in MarkedCmds
  BY <1>4, AckFields
<1> HIDE DEF a
<1>6. IInv'
  BY <1>1, <1>2, <1>3, <1>4, <1>5, AckInv, NextInv
<1>7. /\ config_version' = config_version
      /\ last_acked_config_version' # last_acked_config_version =>
           Opens(a) /\ last_acked_config_version' = a.version
  <2>1. CASE UNCHANGED syncVars
    BY <2>1 DEF syncVars, gateVars
  <2>2. CASE HandleAck(a)
    <3>1. CASE AckIgnored(a)
      BY <2>2, <3>1 DEF HandleAck, syncVars, gateVars
    <3>2. CASE ~AckIgnored(a)
      <4>1. config_version' = config_version
        BY <2>2, <3>2 DEF HandleAck
      <4>2. CASE a.ok /\ a.cmd \in SnapshotCmds
        <5>1. Opens(a)
          BY <1>5, <4>2, Registrations DEF Opens
        <5>2. last_acked_config_version' = IF a.version > 0 THEN a.version ELSE config_version
          BY <2>2, <3>2, <4>2 DEF HandleAck
        <5> QED BY <1>4, <1>5, <4>1, <5>1, <5>2
      <4>3. CASE ~(a.ok /\ a.cmd \in SnapshotCmds)
        <5>1. last_acked_config_version' = last_acked_config_version
          BY <2>2, <3>2, <4>3 DEF HandleAck
        <5> QED BY <4>1, <5>1
      <4> QED BY <4>2, <4>3
    <3> QED BY <3>1, <3>2
  <2> QED BY <1>3, <2>1, <2>2
<1>8. RecordsKnown'
  <2>1. MovedFrom(None)
    <3>1. CASE HandleAck(a)
      BY <1>1, <3>1, AckMoves
    <3>2. CASE UNCHANGED syncVars
      BY <3>2 DEF syncVars, trackVars, MovedFrom
    <3> QED BY <1>3, <3>1, <3>2
  <2>2. Known(None, edition', config_version') /\ edition' \in Nat /\ edition <= edition'
        /\ config_version <= config_version' /\ config_version' \in Nat
    BY <1>1, <1>2, <1>3, <1>7 DEF Known, None
  <2> QED BY <1>1, <2>1, <2>2, RecordsStay
<1>9. LinkTypes' /\ AtWork'
  BY <1>1, <1>3, <1>4 DEF LinkTypes, AtWork
<1>10. Ordered' /\ last_acked_config_version' >= last_acked_config_version
  <2>1. CASE last_acked_config_version' = last_acked_config_version
    BY <1>1, <1>2, <1>3, <1>4, <1>7, <2>1 DEF Ordered
  <2>2. CASE last_acked_config_version' # last_acked_config_version
    BY <1>1, <1>2, <1>3, <1>4, <1>5, <1>7, <2>2 DEF Ordered
  <2> QED BY <2>1, <2>2
<1> QED BY <1>6, <1>8, <1>9, <1>10 DEF LinkInv

\* A lost message leaves the others in order.
LEMMA LoseInv ==
  ASSUME LinkInv, Lose
  PROVE  LinkInv'
<1>1. /\ IInv /\ LinkTypes /\ AtWork /\ RecordsKnown /\ Ordered /\ edition \in Nat
  BY Parts
<1>2. /\ config_version \in Nat /\ last_acked_config_version \in Nat /\ pc_version \in Nat
      /\ up \in Seq(Entry) /\ down \in Seq(LinkAck)
      /\ UpFits(up, edition, config_version, pc_version)
      /\ DownFits(down, config_version, pc_version, last_acked_config_version)
      /\ last_acked_config_version <= pc_version /\ pc_version <= config_version
  BY <1>1, CacheTypes DEF LinkTypes, Ordered
<1>3. UNCHANGED <<syncVars, edition, th, pc_editions, pc_version>> /\ faults' \in 0 .. MaxFaults
  BY <1>1, LinkBoundsAssumption DEF Lose, LinkTypes
<1>4. up' \in Seq(Entry) /\ UpFits(up', edition, config_version, pc_version)
  <2>1. CASE up' = up
    BY <1>2, <2>1
  <2>2. CASE up # <<>> /\ up' = Tail(up)
    BY <1>1, <1>2, <2>2, UpShrinks
  <2> QED BY <2>1, <2>2 DEF Lose
<1>5. /\ down' \in Seq(LinkAck)
      /\ DownFits(down', config_version, pc_version, last_acked_config_version)
  <2>1. CASE down' = down
    BY <1>2, <2>1
  <2>2. CASE down # <<>> /\ down' = Tail(down)
    BY <1>2, <2>2, DownShrinks
  <2> QED BY <2>1, <2>2 DEF Lose
<1>6. /\ IInv' /\ RecordsKnown' /\ config_version' = config_version
      /\ last_acked_config_version' = last_acked_config_version
  BY <1>1, <1>3, CacheStays
<1>7. LinkTypes' /\ AtWork'
  BY <1>1, <1>3, <1>4, <1>5 DEF LinkTypes, AtWork
<1>8. Ordered'
  BY <1>2, <1>3, <1>4, <1>5, <1>6 DEF Ordered
<1> QED BY <1>6, <1>7, <1>8 DEF LinkInv

-----------------------------------------------------------------------------
\* The specification

\* Nothing is recorded, on its way or saved at the start.
LEMMA LinkInitInv == LinkInit => LinkInv
<1> SUFFICES ASSUME LinkInit PROVE LinkInv
  OBVIOUS
<1>1. /\ edition = 0 /\ th = [t \in Threads |-> Idle] /\ up = <<>> /\ down = <<>>
      /\ pc_editions = {0} /\ pc_version = 0 /\ faults = 0 /\ Init
  BY DEF LinkInit
<1>2. IInv
  BY <1>1, InitInv
<1>3. Idle \in Work(0) /\ Busy(Idle)
  BY SeqAssumption DEF Idle, Work, Busy, Steps
<1>4. LinkTypes
  BY <1>1, <1>3, LinkBoundsAssumption DEF LinkTypes
<1>5. AtWork
  BY <1>1, <1>3 DEF AtWork
<1>6. RecordsKnown
  BY <1>1 DEF Init, RecordsKnown, Known, None
<1>7. Ordered
  BY <1>1 DEF Init, Ordered, UpFits, DownFits
<1> QED BY <1>2, <1>4, <1>5, <1>6, <1>7 DEF LinkInv

\* Every step keeps the invariant, and neither version goes back.
LEMMA LinkStep ==
  ASSUME LinkInv, [LinkNext]_vars
  PROVE  /\ LinkInv'
         /\ pc_version' >= pc_version
         /\ last_acked_config_version' >= last_acked_config_version
<1>1. pc_version \in Nat /\ last_acked_config_version \in Nat
  BY Parts, CacheTypes DEF LinkTypes
<1>2. CASE \E t \in Commanders : BeginCommand(t)
  <2> PICK t \in Commanders : BeginCommand(t)
    BY <1>2
  <2>1. pc_version' = pc_version /\ last_acked_config_version' = last_acked_config_version
    BY DEF BeginCommand, syncVars, gateVars
  <2>2. LinkInv'
    BY BeginCommandInv
  <2> QED BY <1>1, <2>1, <2>2
<1>3. CASE ConnectAndRegister
  BY <1>1, <1>3, ConnectInv DEF ConnectAndRegister, Connect, gateVars
<1>4. CASE \E t \in Threads : PublishRegister(t) \/ ExportSnapshot(t)
  BY <1>1, <1>4, PublishRegisterInv, ExportInv DEF PublishRegister, ExportSnapshot, syncVars, gateVars
<1>5. CASE \E t \in Threads : MarkRegister(t)
  <2> PICK t \in Threads : MarkRegister(t)
    BY <1>5
  <2>1. pc_version' = pc_version /\ last_acked_config_version' = last_acked_config_version
    BY DEF MarkRegister, MarkSent, Track
  <2>2. LinkInv'
    BY MarkRegisterInv
  <2> QED BY <1>1, <2>1, <2>2
<1>6. CASE \E t \in Threads : PublishSnapshot(t)
  <2> PICK t \in Threads : PublishSnapshot(t)
    BY <1>6
  <2>1. pc_version' = pc_version /\ last_acked_config_version' = last_acked_config_version
    BY DEF PublishSnapshot, PublishLatestSnapshot, Track
  <2>2. LinkInv'
    BY PublishSnapshotInv
  <2> QED BY <1>1, <2>1, <2>2
<1>7. CASE PollTick
  <2>1. pc_version' = pc_version /\ last_acked_config_version' = last_acked_config_version
    BY <1>7 DEF PollTick, TickWait, TickRetry, gateVars
  <2>2. LinkInv'
    BY <1>7, PollTickInv
  <2> QED BY <1>1, <2>1, <2>2
<1>8. CASE PassTime
  BY <1>1, <1>8, PassTimeInv DEF PassTime, Elapse, linkVars, gateVars
<1>9. CASE PcHandle
  <2>1. last_acked_config_version' = last_acked_config_version
    BY <1>9 DEF PcHandle, PcGatewayRegister, PcDeviceRegister, PcConfigSnapshot, PcAnswer, syncVars,
                gateVars
  <2> QED BY <1>1, <1>9, <2>1, PcHandleInv
<1>10. CASE ReceiveAck
  <2>1. pc_version' = pc_version
    BY <1>10 DEF ReceiveAck
  <2> QED BY <1>1, <1>10, <2>1, ReceiveAckInv
<1>11. CASE Lose
  BY <1>1, <1>11, LoseInv DEF Lose, syncVars, gateVars
<1>12. CASE UNCHANGED vars
  <2>1. /\ UNCHANGED syncVars /\ edition' = edition /\ th' = th /\ up' = up /\ down' = down
        /\ pc_editions' = pc_editions /\ pc_version' = pc_version /\ faults' = faults
    BY <1>12 DEF vars, linkVars
  <2>2. /\ IInv' /\ RecordsKnown' /\ config_version' = config_version
        /\ last_acked_config_version' = last_acked_config_version
    BY <2>1, Parts, CacheStays
  <2>3. LinkTypes' /\ AtWork' /\ Ordered'
    BY <2>1, <2>2, Parts DEF LinkTypes, AtWork, Ordered
  <2> QED BY <1>1, <2>1, <2>2, <2>3 DEF LinkInv
<1> QED BY <1>2, <1>3, <1>4, <1>5, <1>6, <1>7, <1>8, <1>9, <1>10, <1>11, <1>12 DEF LinkNext, ThreadStep

\* The inductive invariant of the registration protocol.
THEOREM LinkInductive == LinkSpec => []LinkInv
<1>1. LinkInv /\ [LinkNext]_vars => LinkInv'
  BY LinkStep
<1> QED BY <1>1, LinkInitInv, PTL DEF LinkSpec

\* The types of the protocol, the cache's included.
THEOREM LinkTypeCorrect == LinkSpec => []LinkTypeOK
<1>1. LinkInv => LinkTypeOK
  <2> SUFFICES ASSUME LinkInv PROVE LinkTypeOK
    OBVIOUS
  <2>1. \A t \in Threads : /\ th[t].step \in {"idle", "publish", "mark", "export", "snapshot"}
                           /\ th[t].seq \in 0 .. SeqBase
                           /\ th[t].exported \in 0 .. edition
    BY Parts DEF Work, Steps
  <2>2. up \in Seq(Entry) /\ DOMAIN up = 1 .. Len(up) /\ \A i \in 1 .. Len(up) : up[i] \in Entry
    BY DEF LinkInv, LinkTypes
  <2>3. pc_version \in 0 .. config_version
    BY CacheTypes DEF LinkInv, LinkTypes, Ordered
  <2> QED BY <2>1, <2>2, <2>3 DEF LinkInv, LinkTypes, IInv, LinkTypeOK
<1> QED BY <1>1, LinkInductive, PTL

\* Driven by the gateway's threads and by Pc_data's answers instead of any peer,
\* the registration cache keeps what the first section shows of it: what it
\* assumes of acknowledgements and sequence numbers the protocol provides.
THEOREM CacheInLink ==
  LinkSpec => [](NothingWaitsWhileIdle /\ KeysAreUnique /\ AckedVersionIssued /\ SuccessMeansDrained)
<1>1. LinkInv =>
        NothingWaitsWhileIdle /\ KeysAreUnique /\ AckedVersionIssued /\ SuccessMeansDrained
  BY DEF LinkInv, IInv
<1> QED BY <1>1, LinkInductive, PTL

\* When the gateway lets telemetry out, the snapshot Pc_data saved last is the
\* one of the gateway's present version.
THEOREM GateIsHonest == LinkSpec => []GateMeansSaved
<1>1. LinkInv => GateMeansSaved
  BY CacheTypes DEF LinkInv, LinkTypes, Ordered, GateMeansSaved, TelemetryAllowed
<1> QED BY <1>1, LinkInductive, PTL

\* Neither the saved nor the acknowledged version ever goes back.
THEOREM VersionsAdvance == LinkSpec => VersionsNeverGoBack
<1>1. LinkInv /\ [LinkNext]_vars =>
        [pc_version' >= pc_version /\ last_acked_config_version' >= last_acked_config_version]_vars
  BY LinkStep
<1> QED BY <1>1, LinkInductive, PTL DEF LinkSpec, VersionsNeverGoBack
=============================================================================
