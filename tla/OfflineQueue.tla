----------------------------- MODULE OfflineQueue -----------------------------
(***************************************************************************)
(* What becomes of a message the gateway publishes: Linux_data's           *)
(* offline_cache (OfflinePublishQueue, OfflineCacheDatabase,               *)
(* OfflineCachePolicy) and the in-memory send queue of mqtt_wrapper.c.     *)
(*                                                                         *)
(* A publisher tries the in-memory queue and, if MQTT is not connected or  *)
(* the queue is full, stores the message in a SQLite table.  The MQTT      *)
(* thread (mqtt_poll) takes one message per round from the in-memory queue *)
(* to the broker and flushes the table into the queue from time to time;   *)
(* flush_offline_cache does the same on a command thread.  lock_ is taken  *)
(* and released several times in a flush, so that every such section is an *)
(* action of its own.                                                      *)
(*                                                                         *)
(* Messages are numbered in the order of their timestamps.  A message is   *)
(* stored at most once, so that its number also stands for its row id.     *)
(***************************************************************************)
EXTENDS Integers, Sequences, FiniteSets

CONSTANTS Kind,               \* the kind of each message, a sequence
          Publishers,         \* threads that publish: port pollers, commands, ...
          Commanders,         \* threads that execute commands: "ipc", "rx"
          QUEUE_MAX,          \* MQTT_QUEUE_MAX (32); one slot stays empty
          FLUSH_BATCH,        \* kFlushBatchSize (50)
          MAX_RECORDS,        \* kMaxOfflineRecords (5000)
          CLEANUP_BATCH,      \* kCleanupBatchSize (100)
          MAX_SENDS,          \* failed sends after which a row is 'failed' (5)
          SAMPLE_INTERVAL,    \* kTelemetrySampleIntervalMs, in message numbers
          MaxFaults           \* bound on restarts and losses of the network

Kinds == {"alarm", "changed", "sample", "register"}

ASSUME KindAssumption == Kind \in Seq(Kinds)
\* "poll" names the MQTT thread, which executes no commands.
ASSUME CommandersAssumption == IsFiniteSet(Commanders) /\ "poll" \notin Commanders
ASSUME OfflineBoundsAssumption ==
         /\ QUEUE_MAX \in Nat \ {0, 1}
         /\ {FLUSH_BATCH, CLEANUP_BATCH, MAX_SENDS} \subseteq Nat \ {0}
         /\ {MAX_RECORDS, SAMPLE_INTERVAL, MaxFaults} \subseteq Nat

VARIABLES published,      \* messages published so far
          refused,        \* refused[p]: the message p could not send and must cache, or 0
          ring,           \* g_queue
          connected,      \* g_connected
          stored,         \* the rows of offline_publish_queue
          send_count,     \* their send_count column
          last_sample,    \* last_sample_time_ of the only sensor, 0 if none
          cache_enabled,  \* cache_enabled_
          flush_enabled,  \* flush_enabled_
          config,         \* both flags as saved in the configuration file
          thread,         \* what the MQTT thread and the command threads are doing
          net,            \* whether the broker can be reached
          out,            \* what the broker has received, in order
          lost,           \* messages that were in memory only and are gone
          cleared,        \* rows deleted by clear_offline_cache
          rejected,       \* messages whose publisher was told that publishing failed
          overlapped,     \* two flushes have overlapped, or Linux_data restarted
          faults          \* restarts and losses of the network so far

flagVars  == <<cache_enabled, flush_enabled, config>>
tableVars == <<stored, send_count, cleared>>
envVars   == <<net, out, lost, faults>>
vars == <<published, refused, rejected, ring, connected, tableVars, last_sample, flagVars,
          thread, overlapped, envVars>>

-----------------------------------------------------------------------------
Msgs     == 1 .. Len(Kind)
Flushers == Commanders \cup {"poll"}

\* The meta.priority the publishers pass: data_ack.c and alarms 3, invalid or
\* changed telemetry 2, other telemetry 1, registrations and snapshots 0.
Priority(m) == CASE Kind[m] = "alarm"    -> 3
                 [] Kind[m] = "changed"  -> 2
                 [] Kind[m] = "sample"   -> 1
                 [] Kind[m] = "register" -> 0

Critical == {m \in Msgs : Priority(m) >= 2}
Pending  == {m \in stored : send_count[m] < MAX_SENDS}

\* ORDER BY priority DESC, timestamp_ms ASC
Before(a, b) == Priority(a) > Priority(b) \/ (Priority(a) = Priority(b) /\ a < b)

\* Mutant of MostUrgent: the limit is off by one.
MutMostUrgentShort(S, n) == {m \in S : Cardinality({k \in S : Before(k, m)}) < n - 1}

\* loadPending: ORDER BY ... LIMIT n
MostUrgent(S, n) == {m \in S : Cardinality({k \in S : Before(k, m)}) < n}

\* deleteOldByPriority selects the oldest rows
Oldest(S, n) == {m \in S : Cardinality({k \in S : k < m}) < n}

\* enforceMaxRecords for one priority: whole batches are deleted until the table
\* fits or no row of the priority is left.
DeleteOld(S, p) ==
  LET excess == Cardinality(S) - MAX_RECORDS
      rows   == {m \in S : Priority(m) = p}
  IN  IF excess <= 0 THEN S
      ELSE S \ Oldest(rows, CLEANUP_BATCH * ((excess + CLEANUP_BATCH - 1) \div CLEANUP_BATCH))

\* Mutant of EnforceMaxRecords: priority 2 is swept too.
MutEnforceAll(S) == DeleteOld(DeleteOld(DeleteOld(S, 0), 1), 2)

EnforceMaxRecords(S) == DeleteOld(DeleteOld(S, 0), 1)

\* allowSample
SampleDue(m) == last_sample = 0 \/ m - last_sample >= SAMPLE_INTERVAL

\* OfflineCachePolicy::shouldCache: registrations and snapshots are never kept.
ShouldCache(m) ==
  \/ Kind[m] \in {"alarm", "changed"}
  \/ Kind[m] = "sample" /\ SampleDue(m)

\* mqtt_send_direct_if_connected succeeds
CanSend == connected /\ Len(ring) < QUEUE_MAX - 1

Idle == [step |-> "idle", rows |-> {}, ok |-> TRUE, flag |-> FALSE]

\* The state of the flags after mqtt_init has loaded the saved configuration.
Init ==
  /\ published = 0
  /\ refused = [p \in Publishers |-> 0] /\ rejected = {}
  /\ ring = <<>>
  /\ connected = FALSE
  /\ stored = {} /\ send_count = [m \in Msgs |-> 0]
  /\ last_sample = 0
  /\ config \in {[cache |-> TRUE, flush |-> TRUE], [cache |-> TRUE, flush |-> FALSE]}
  /\ cache_enabled = config.cache
  /\ flush_enabled = config.flush
  /\ thread = [f \in Flushers |-> Idle]
  /\ net = FALSE /\ out = <<>> /\ lost = {} /\ cleared = {}
  /\ overlapped = FALSE
  /\ faults = 0

Goto(f, step) == thread' = [thread EXCEPT ![f].step = step]

-----------------------------------------------------------------------------
\* publishOrCache, the direct attempt.
PublishDirect(p) ==
  /\ refused[p] = 0 /\ published < Len(Kind)
  /\ published' = published + 1
  /\ IF CanSend
     THEN ring' = Append(ring, published') /\ UNCHANGED refused
     ELSE refused' = [refused EXCEPT ![p] = published'] /\ UNCHANGED ring
  /\ UNCHANGED <<rejected, connected, tableVars, last_sample, flagVars, thread,
                 overlapped, envVars>>

\* cacheMessage, after the direct attempt has failed; the insertion may fail too.
PublishCache(p) ==
  LET m == refused[p]
      candidate == cache_enabled /\ ShouldCache(m)
  IN  /\ m # 0
      /\ refused' = [refused EXCEPT ![p] = 0]
      /\ last_sample' = IF candidate /\ Kind[m] = "sample" THEN m ELSE last_sample
      /\ \/ candidate /\ stored' = EnforceMaxRecords(stored \cup {m}) /\ UNCHANGED rejected
         \/ rejected' = rejected \cup {m} /\ UNCHANGED stored
      /\ UNCHANGED <<published, ring, connected, send_count, cleared, flagVars,
                     thread, overlapped, envVars>>

-----------------------------------------------------------------------------
\* mqtt_poll, 1: the first connection; connected is never reset afterwards.
Connect ==
  /\ ~connected /\ net
  /\ connected' = TRUE
  /\ Goto("poll", "connected")
  /\ UNCHANGED <<published, refused, rejected, ring, tableVars, last_sample, flagVars,
                 overlapped, envVars>>

\* mqtt_poll, 5: one message per round; mqtt_publish_one ignores the result.
PollPop ==
  /\ connected /\ thread["poll"].step = "idle"
  /\ Goto("poll", "popped")
  /\ IF ring = <<>>
     THEN UNCHANGED <<ring, out, lost>>
     ELSE /\ ring' = Tail(ring)
          /\ IF net THEN out' = Append(out, Head(ring)) /\ UNCHANGED lost
             ELSE lost' = lost \cup {Head(ring)} /\ UNCHANGED out
  /\ UNCHANGED <<published, refused, rejected, connected, tableVars, last_sample, flagVars,
                 overlapped, net, faults>>

\* mqtt_poll, 1 and 6: a flush upon the connection and then whenever one is due, if
\* allowed; otherwise the round goes on without it.
PollFlush ==
  /\ thread["poll"].step \in {"connected", "popped"} /\ flush_enabled
  /\ Goto("poll", "load")
  /\ UNCHANGED <<published, refused, rejected, ring, connected, tableVars, last_sample, flagVars,
                 overlapped, envVars>>

PollSkip ==
  /\ thread["poll"].step = "popped" \/ (thread["poll"].step = "connected" /\ ~flush_enabled)
  /\ Goto("poll", "idle")
  /\ UNCHANGED <<published, refused, rejected, ring, connected, tableVars, last_sample, flagVars,
                 overlapped, envVars>>

\* What a thread does after its flush: mqtt_flush_offline_cache_once restores the flag.
AfterFlush(f) == IF f = "poll" THEN "idle" ELSE "restore"

\* flushToMqttOnce, second section: the rows are loaded.
FlushLoad(f) ==
  LET rows == MostUrgent(Pending, FLUSH_BATCH)
  IN  /\ thread[f].step = "load"
      /\ thread' = [thread EXCEPT ![f].rows = rows,
                                  ![f].step = IF rows = {} THEN AfterFlush(f) ELSE "send"]
      /\ overlapped' = (overlapped \/ \E g \in Flushers \ {f} : thread[g].rows # {})
      /\ UNCHANGED <<published, refused, rejected, ring, connected, tableVars, last_sample, flagVars,
                     envVars>>

\* The row the loop is at.
Row(f) == CHOOSE m \in thread[f].rows : \A k \in thread[f].rows \ {m} : Before(m, k)

\* The loop, without the lock: the row is put into the in-memory queue.
FlushSend(f) ==
  /\ thread[f].step = "send"
  /\ ring' = IF CanSend THEN Append(ring, Row(f)) ELSE ring
  /\ thread' = [thread EXCEPT ![f].step = "settle", ![f].ok = CanSend]
  /\ UNCHANGED <<published, refused, rejected, connected, tableVars, last_sample, flagVars,
                 overlapped, envVars>>

\* Mutant of FlushSettle: the row is kept after it was sent.
MutFlushKeeps(f) ==
  LET rest == IF thread[f].ok THEN thread[f].rows \ {Row(f)} ELSE {}
  IN  /\ thread[f].step = "settle"
      /\ send_count' = [send_count EXCEPT ![Row(f)] = IF thread[f].ok THEN @ ELSE @ + 1]
      /\ thread' = [thread EXCEPT ![f].rows = rest, ![f].ok = TRUE,
                                  ![f].step = IF rest = {} THEN AfterFlush(f) ELSE "send"]
      /\ UNCHANGED <<published, refused, rejected, ring, connected, stored, cleared, last_sample,
                     flagVars, overlapped, envVars>>

\* The loop, under the lock: remove the row and go on, or markSendFailed and stop.
\* Either statement has no effect if the row has been deleted in the meantime.
FlushSettle(f) ==
  LET m    == Row(f)
      rest == IF thread[f].ok THEN thread[f].rows \ {m} ELSE {}
  IN  /\ thread[f].step = "settle"
      /\ IF thread[f].ok
         THEN stored' = stored \ {m} /\ UNCHANGED send_count
         ELSE /\ send_count' = [send_count EXCEPT ![m] = IF m \in stored THEN @ + 1 ELSE @]
              /\ UNCHANGED stored
      /\ thread' = [thread EXCEPT ![f].rows = rest, ![f].ok = TRUE,
                                  ![f].step = IF rest = {} THEN AfterFlush(f) ELSE "send"]
      /\ UNCHANGED <<published, refused, rejected, ring, connected, cleared, last_sample, flagVars,
                     overlapped, envVars>>

-----------------------------------------------------------------------------
cmdUnchanged == <<published, refused, rejected, ring, connected, last_sample, overlapped, envVars>>

\* mqtt_flush_offline_cache_once, 604-611: the conditions of a manual flush.
HandleFlush(t) ==
  /\ thread[t].step = "idle"
  /\ flush_enabled /\ Pending # {} /\ connected
  /\ Goto(t, "old")
  /\ UNCHANGED <<cmdUnchanged, tableVars, flagVars>>

\* 613: the flag to restore.
ReadOldFlag(t) ==
  /\ thread[t].step = "old"
  /\ thread' = [thread EXCEPT ![t].step = "force", ![t].flag = flush_enabled]
  /\ UNCHANGED <<cmdUnchanged, tableVars, flagVars>>

\* 614
ForceFlag(t) ==
  /\ thread[t].step = "force"
  /\ flush_enabled' = TRUE
  /\ Goto(t, "check")
  /\ UNCHANGED <<cmdUnchanged, tableVars, cache_enabled, config>>

\* flushToMqttOnce, first section.
FlushCheck(t) ==
  /\ thread[t].step = "check"
  /\ Goto(t, IF flush_enabled THEN "load" ELSE "restore")
  /\ UNCHANGED <<cmdUnchanged, tableVars, flagVars>>

\* 616
RestoreFlag(t) ==
  /\ thread[t].step = "restore"
  /\ flush_enabled' = thread[t].flag
  /\ thread' = [thread EXCEPT ![t] = Idle]
  /\ UNCHANGED <<cmdUnchanged, tableVars, cache_enabled, config>>

\* Mutant of HandleSet: the flags are applied although the save failed.
MutHandleSetUnsaved(t) ==
  /\ thread[t].step = "idle"
  /\ \E c, f, saved \in BOOLEAN :
       /\ config' = IF saved THEN [cache |-> c, flush |-> c /\ f] ELSE config
       /\ cache_enabled' = c
       /\ thread' = [thread EXCEPT ![t].step = "apply", ![t].flag = c /\ f]
  /\ UNCHANGED <<cmdUnchanged, tableVars, flush_enabled>>

\* handle_set_offline_cache_config: save, then set the two flags one by one; if
\* the save fails nothing is set.  Flags the command leaves out keep their value.
HandleSet(t) ==
  /\ thread[t].step = "idle"
  /\ \E c, f, saved \in BOOLEAN :
       /\ config' = IF saved THEN [cache |-> c, flush |-> c /\ f] ELSE config
       /\ IF saved THEN /\ cache_enabled' = c
                        /\ thread' = [thread EXCEPT ![t].step = "apply", ![t].flag = c /\ f]
          ELSE UNCHANGED <<cache_enabled, thread>>
  /\ UNCHANGED <<cmdUnchanged, tableVars, flush_enabled>>

\* handle_get_offline_cache_config sets the flags from the file.
HandleGet(t) ==
  /\ thread[t].step = "idle"
  /\ cache_enabled' = config.cache
  /\ thread' = [thread EXCEPT ![t].step = "apply", ![t].flag = config.flush]
  /\ UNCHANGED <<cmdUnchanged, tableVars, flush_enabled, config>>

ApplyFlushFlag(t) ==
  /\ thread[t].step = "apply"
  /\ flush_enabled' = thread[t].flag
  /\ thread' = [thread EXCEPT ![t] = Idle]
  /\ UNCHANGED <<cmdUnchanged, tableVars, cache_enabled, config>>

\* handle_clear_offline_cache: failed rows stay.
HandleClear(t) ==
  /\ thread[t].step = "idle" /\ Pending # {}
  /\ stored' = stored \ Pending
  /\ cleared' = cleared \cup Pending
  /\ UNCHANGED <<cmdUnchanged, send_count, flagVars, thread>>

-----------------------------------------------------------------------------
\* The network and the process.
NetUp ==
  /\ ~net /\ net' = TRUE
  /\ UNCHANGED <<published, refused, rejected, ring, connected, tableVars, last_sample, flagVars,
                 thread, overlapped, out, lost, faults>>

NetDown ==
  /\ net /\ faults < MaxFaults
  /\ net' = FALSE /\ faults' = faults + 1
  /\ UNCHANGED <<published, refused, rejected, ring, connected, tableVars, last_sample, flagVars,
                 thread, overlapped, out, lost>>

\* Linux_data stops and starts again: the table and the configuration survive.
Crash ==
  /\ faults < MaxFaults /\ faults' = faults + 1
  /\ refused' = [p \in Publishers |-> 0]
  /\ ring' = <<>>
  /\ lost' = lost \cup {ring[i] : i \in DOMAIN ring}
                  \cup ({refused[p] : p \in Publishers} \ {0})
  /\ connected' = FALSE
  /\ last_sample' = 0
  /\ cache_enabled' = config.cache /\ flush_enabled' = config.flush
  /\ thread' = [f \in Flushers |-> Idle]
  /\ overlapped' = TRUE
  /\ UNCHANGED <<published, rejected, tableVars, config, net, out>>

PollStep == PollPop \/ PollSkip \/ FlushLoad("poll") \/ FlushSend("poll") \/ FlushSettle("poll")

CommandStep(t) ==
  \/ ReadOldFlag(t) \/ ForceFlag(t) \/ FlushCheck(t) \/ RestoreFlag(t) \/ ApplyFlushFlag(t)
  \/ FlushLoad(t) \/ FlushSend(t) \/ FlushSettle(t)

Next ==
  \/ \E p \in Publishers : PublishDirect(p) \/ PublishCache(p)
  \/ Connect \/ PollStep \/ PollFlush
  \/ \E t \in Commanders : \/ HandleFlush(t) \/ HandleSet(t) \/ HandleGet(t) \/ HandleClear(t)
                           \/ CommandStep(t)
  \/ NetUp \/ NetDown \/ Crash

Spec == Init /\ [][Next]_vars

\* The threads keep running once started.  A round of mqtt_poll in which the
\* flush is due comes again and again, since its timer is 200 ms.
LiveSpec ==
  /\ Spec
  /\ \A p \in Publishers : WF_vars(PublishCache(p))
  /\ WF_vars(PollStep) /\ SF_vars(PollFlush)
  /\ \A t \in Commanders : WF_vars(CommandStep(t))

-----------------------------------------------------------------------------
TypeOK ==
  /\ published \in 0 .. Len(Kind)
  /\ refused \in [Publishers -> 0 .. published]
  /\ Len(ring) < QUEUE_MAX
  /\ stored \subseteq 1 .. published
  /\ send_count \in [Msgs -> 0 .. MAX_SENDS + Cardinality(Flushers)]
  /\ last_sample \in 0 .. published
  /\ {connected, cache_enabled, flush_enabled, config.cache, config.flush, net,
      overlapped} \subseteq BOOLEAN
  /\ \A f \in Flushers : /\ thread[f].rows \subseteq 1 .. published
                         /\ thread[f].step \in {"send", "settle"} <=> thread[f].rows # {}

Items(s) == {s[i] : i \in DOMAIN s}

\* A critical message (alarm, command result, status change) the gateway has taken
\* over is not lost by the cache itself: sweeping the table, giving up on a row or
\* a flush that fails halfway.  It is on its way, stored or delivered, unless the
\* operator cleared the cache or it was in memory at a restart or during an outage.
CriticalIsKept ==
  \A m \in Critical :
    m <= published =>
      \/ m \in stored \cup Items(ring) \cup Items(out)
      \/ m \in cleared \cup rejected \cup lost
      \/ \E p \in Publishers : refused[p] = m

\* A message is handed to the broker twice only if two flushes overlapped or the
\* gateway restarted: one flush alone never sends a row again after it was queued.
NoOverlapNoDuplicate ==
  \/ overlapped
  \/ LET s == out \o ring IN \A i, j \in DOMAIN s : s[i] = s[j] => i = j

\* Between commands the flags in force are the saved ones, so that a restart does
\* not change them, and flushing is never on while caching is off; a failed save
\* and a manual flush leave it so.  (For one command thread; see README.md.)
FlagsFollowConfig ==
  (\A t \in Commanders : thread[t].step = "idle") =>
    /\ [cache |-> cache_enabled, flush |-> flush_enabled] = config
    /\ config.flush => config.cache

\* A stored message leaves the table, or is given up after MAX_SENDS failures, as
\* long as flushing stays on, whatever else is published meanwhile.
PendingIsFlushed ==
  \A m \in Msgs :
    (connected /\ m \in Pending) ~> (m \notin Pending \/ ~flush_enabled \/ ~connected)

=============================================================================
