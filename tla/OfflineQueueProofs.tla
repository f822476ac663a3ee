-------------------------- MODULE OfflineQueueProofs --------------------------
(***************************************************************************)
(* Proofs about OfflineQueue, for any sequence of messages, any publishers *)
(* and command threads and all sizes of the queue and the table.           *)
(*                                                                         *)
(* The invariants the runs check are not inductive: they say nothing about *)
(* the row a flush is at.  A row that was queued and is still stored is    *)
(* the row some flush is about to remove, and the rows a flush has still   *)
(* to send were not sent before.                                           *)
(***************************************************************************)
EXTENDS OfflineQueue, FiniteSetTheorems, WellFoundedInduction, TLAPS

Steps   == {"idle", "connected", "popped", "load", "send", "settle", "old", "force",
            "check", "restore", "apply"}
Flush   == {"send", "settle"}                  \* the steps of the loop of a flush
Manual  == {"old", "force", "check", "load", "restore"} \cup Flush
Flusher == [step : Steps, rows : SUBSET Msgs, ok : BOOLEAN, flag : BOOLEAN]

Types ==
  /\ published \in 0 .. Len(Kind)
  /\ refused \in [Publishers -> 0 .. published]
  /\ ring \in Seq(1 .. published) /\ Len(ring) < QUEUE_MAX
  /\ out \in Seq(1 .. published)
  /\ stored \subseteq 1 .. published
  /\ send_count \in [Msgs -> Nat]
  /\ last_sample \in 0 .. published
  /\ config \in [cache : BOOLEAN, flush : BOOLEAN]
  /\ {connected, cache_enabled, flush_enabled, net, overlapped} \subseteq BOOLEAN
  /\ thread \in [Flushers -> Flusher]
  /\ \A f \in Flushers : /\ thread[f].rows \subseteq 1 .. published
                         /\ thread[f].step \in Flush <=> thread[f].rows # {}
  /\ ~connected => thread["poll"].step = "idle"

\* The first of a set of rows in the order of loadPending.
First(S) == CHOOSE m \in S : \A k \in S \ {m} : Before(m, k)

\* The row a flush has queued and not yet removed, and the rows it has still to send.
Queued(w) == IF w.step = "settle" /\ w.ok THEN {First(w.rows)} ELSE {}
Unsent(w) == w.rows \ Queued(w)

\* A row is counted down once for every flush that has loaded it.
Holders(m) == {f \in Flushers : m \in thread[f].rows}
Counted ==
  \A m \in Msgs : send_count[m] + Cardinality(Holders(m)) < MAX_SENDS + Cardinality(Flushers)

\* A row a flush is about to remove is in the queue or beyond it.
QueuedIsSafe ==
  \A f \in Flushers : Queued(thread[f]) \subseteq Items(ring) \cup Items(out) \cup lost

Sent == Items(ring) \cup Items(out)
Distinct(s) == \A i, j \in DOMAIN s : s[i] = s[j] => i = j

\* Every message sent was sent once, and what is to be sent was not.
SentOnce ==
  /\ Distinct(ring) /\ Distinct(out)
  /\ Items(ring) \cap Items(out) = {}
\* A message being published is nowhere else.
RefusedApart ==
  \A p \in Publishers : refused[p] # 0 =>
    /\ refused[p] \notin Sent \cup stored
    /\ \A f \in Flushers : refused[p] \notin thread[f].rows
    /\ \A q \in Publishers : refused[q] = refused[p] => q = p
RowsApart ==
  /\ \A f, g \in Flushers : thread[f].rows # {} /\ thread[g].rows # {} => f = g
  /\ \A f \in Flushers : Unsent(thread[f]) \cap Sent = {}
  /\ \A m \in stored \cap Sent : \E f \in Flushers : m \in Queued(thread[f])
Once == ~overlapped => SentOnce /\ RefusedApart /\ RowsApart

IInv == Types /\ Counted /\ CriticalIsKept /\ QueuedIsSafe /\ Once

\* With one command thread, which flags a command has found and will set.
FlagsInv ==
  /\ config.flush => config.cache
  /\ cache_enabled = config.cache
  /\ (\A t \in Commanders : thread[t].step # "apply") => flush_enabled = config.flush
  /\ \A t \in Commanders :
       /\ thread[t].step = "apply" => thread[t].flag = config.flush
       /\ thread[t].step \in Manual => flush_enabled
       /\ thread[t].step \in Manual \ {"old"} => thread[t].flag

-----------------------------------------------------------------------------
(* The operators the model is built from.                                  *)

Less == OpToRel(<, Nat)

\* A set of numbers that is not empty has a least one.
LEMMA Least ==
  ASSUME NEW S, S \subseteq Nat, S # {}
  PROVE  \E x \in S : \A y \in S : x <= y
  <1>1. IsWellFoundedOn(Less, Nat) BY NatLessThanWellFounded DEF Less
  <1>2. \E x \in S : \A y \in S : ~ (<<y, x>> \in Less) BY <1>1, WFMin, Zenon
  <1>3. Less = {ss \in Nat \X Nat : ss[1] < ss[2]} BY DEF Less, OpToRel
  <1>4. \A x, y \in Nat : x < y => <<x, y>> \in Less BY <1>3
  <1>5. PICK x \in S : \A y \in S : ~ (<<y, x>> \in Less) BY <1>2
  <1>6. \A y \in S : ~ (y < x) BY <1>4, <1>5
  <1>7. \A y \in S : x <= y BY <1>5, <1>6
  <1> QED BY <1>5, <1>7

\* The priorities the publishers pass are 0 to 3.
LEMMA PriorityType == \A m \in Msgs : Priority(m) \in 0 .. 3
  <1> TAKE m \in Msgs
  <1>1. Kind[m] \in Kinds BY KindAssumption DEF Msgs
  <1> QED BY <1>1 DEF Kinds, Priority

\* The loop of a flush is at one of its rows: the order of loadPending has a first
\* row in every set of rows.
LEMMA FirstIsIn ==
  ASSUME NEW S, S \subseteq Msgs, S # {}
  PROVE  First(S) \in S
  <1>1. \A m \in S : Priority(m) \in 0 .. 3 BY PriorityType
  <1>2. \E p \in 0 .. 3 : (\E m \in S : Priority(m) = p) /\ \A k \in S : Priority(k) <= p
    <2>3. CASE \E m \in S : Priority(m) = 3 BY <2>3, <1>1
    <2>2. CASE (\A m \in S : Priority(m) # 3) /\ \E m \in S : Priority(m) = 2 BY <2>2, <1>1
    <2>1. CASE (\A m \in S : Priority(m) \notin {2, 3}) /\ \E m \in S : Priority(m) = 1
      BY <2>1, <1>1
    <2>0. CASE \A m \in S : Priority(m) \notin {1, 2, 3}
      <3>1. \A m \in S : Priority(m) = 0 BY <2>0, <1>1
      <3> QED BY <3>1
    <2> QED BY <2>0, <2>1, <2>2, <2>3
  <1>3. PICK p \in 0 .. 3 : (\E m \in S : Priority(m) = p) /\ \A k \in S : Priority(k) <= p
    BY <1>2
  <1> DEFINE T == {m \in S : Priority(m) = p}
  <1>4. T # {} BY <1>3
  <1>5. T \subseteq Nat
    <2>1. S \subseteq Nat BY DEF Msgs
    <2> QED BY <2>1
  <1>6. \E m \in T : \A k \in T : m <= k BY <1>4, <1>5, Least
  <1>7. PICK m \in T : \A k \in T : m <= k BY <1>6
  <1>8. m \in S /\ \A k \in S \ {m} : Before(m, k)
    <2>1. m \in S /\ Priority(m) = p BY <1>7
    <2>2. ASSUME NEW k \in S \ {m} PROVE Before(m, k)
      <3>1. Priority(k) \in 0 .. 3 /\ Priority(k) <= p /\ m \in Nat /\ k \in Nat
        BY <1>1, <1>3, <2>1 DEF Msgs
      <3>2. CASE Priority(k) = p
        <4>1. m <= k BY <1>7, <3>2
        <4> QED BY <4>1, <3>1, <3>2, <2>1 DEF Before
      <3>3. CASE Priority(k) # p BY <3>1, <3>3, <2>1 DEF Before
      <3> QED BY <3>2, <3>3
    <2> QED BY <2>1, <2>2
  <1> QED BY <1>8 DEF First

\* The row of a flush is a message.
LEMMA RowIsIn ==
  ASSUME Types, NEW f \in Flushers, thread[f].step \in Flush
  PROVE  Row(f) = First(thread[f].rows) /\ Row(f) \in thread[f].rows /\ Row(f) \in Msgs
  <1>1. thread[f].rows \subseteq Msgs /\ thread[f].rows # {} BY DEF Types, Msgs, Flusher
  <1>2. First(thread[f].rows) \in thread[f].rows BY <1>1, FirstIsIn
  <1>3. Row(f) = First(thread[f].rows) BY DEF Row, First
  <1> QED BY <1>1, <1>2, <1>3

\* The sweep of the table only deletes rows of priorities 0 and 1.
LEMMA SweepKeeps ==
  ASSUME NEW S, S \subseteq Msgs
  PROVE  /\ EnforceMaxRecords(S) \subseteq S
         /\ \A m \in S : m \in Critical => m \in EnforceMaxRecords(S)
  <1>1. \A T, p : DeleteOld(T, p) \subseteq T
    <2> TAKE T, p
    <2> QED BY DEF DeleteOld
  <1>2. \A T, p : \A m \in T : Priority(m) # p => m \in DeleteOld(T, p)
    <2> TAKE T, p
    <2> TAKE m \in T
    <2> HAVE Priority(m) # p
    <2>1. \A n : m \notin Oldest({k \in T : Priority(k) = p}, n) BY DEF Oldest
    <2> QED BY <2>1 DEF DeleteOld
  <1>3. \A m \in Critical : Priority(m) # 0 /\ Priority(m) # 1
    BY PriorityType DEF Critical
  <1> QED BY <1>1, <1>2, <1>3 DEF EnforceMaxRecords

\* A message behind the others of a queue.
LEMMA Appended ==
  ASSUME NEW T, NEW s \in Seq(T), NEW x \in T
  PROVE  /\ Append(s, x) \in Seq(T)
         /\ Items(Append(s, x)) = Items(s) \cup {x}
         /\ Distinct(s) /\ x \notin Items(s) => Distinct(Append(s, x))
  <1>1. Append(s, x) \in Seq(T) /\ Len(Append(s, x)) = Len(s) + 1 OBVIOUS
  <1>2. DOMAIN Append(s, x) = DOMAIN s \cup {Len(s) + 1} /\ Len(s) + 1 \notin DOMAIN s
    BY <1>1
  <1>3. \A i \in DOMAIN s : Append(s, x)[i] = s[i] OBVIOUS
  <1>4. Append(s, x)[Len(s) + 1] = x OBVIOUS
  <1>5. Items(Append(s, x)) = Items(s) \cup {x} BY <1>2, <1>3, <1>4, Zenon DEF Items
  <1>6. Distinct(s) /\ x \notin Items(s) => Distinct(Append(s, x))
    BY <1>2, <1>3, <1>4, Zenon DEF Items, Distinct
  <1> QED BY <1>1, <1>5, <1>6

\* The first message leaves a queue.
LEMMA Taken ==
  ASSUME NEW T, NEW s \in Seq(T), s # <<>>
  PROVE  /\ Tail(s) \in Seq(T) /\ Head(s) \in T /\ Len(Tail(s)) = Len(s) - 1
         /\ Items(s) = Items(Tail(s)) \cup {Head(s)}
         /\ Distinct(s) => Distinct(Tail(s)) /\ Head(s) \notin Items(Tail(s))
  <1>1. Tail(s) \in Seq(T) /\ Head(s) \in T /\ Len(Tail(s)) = Len(s) - 1 OBVIOUS
  <1>2. Len(s) \in Nat /\ Len(s) > 0 /\ Head(s) = s[1] OBVIOUS
  <1>3. DOMAIN s = 1 .. Len(s) /\ DOMAIN Tail(s) = 1 .. Len(s) - 1 BY <1>1, <1>2
  <1>4. \A i \in DOMAIN Tail(s) : i + 1 \in DOMAIN s /\ Tail(s)[i] = s[i + 1] BY <1>1, <1>3
  <1>5. \A i \in DOMAIN s : i = 1 \/ (i - 1 \in DOMAIN Tail(s) /\ Tail(s)[i - 1] = s[i])
    <2> TAKE i \in DOMAIN s
    <2>1. i # 1 => i - 1 \in DOMAIN Tail(s) /\ (i - 1) + 1 = i BY <1>2, <1>3
    <2> QED BY <2>1, <1>4
  <1>6. Items(s) = Items(Tail(s)) \cup {Head(s)}
    <2>1. 1 \in DOMAIN s BY <1>2, <1>3
    <2>2. Items(s) \subseteq Items(Tail(s)) \cup {Head(s)} BY <1>2, <1>5, Zenon DEF Items
    <2>3. Items(Tail(s)) \subseteq Items(s) BY <1>4, Zenon DEF Items
    <2>4. Head(s) \in Items(s) BY <2>1, <1>2 DEF Items
    <2> QED BY <2>2, <2>3, <2>4
  <1>7. ASSUME Distinct(s) PROVE Distinct(Tail(s)) /\ Head(s) \notin Items(Tail(s))
    <2>1. ASSUME NEW i \in DOMAIN Tail(s), NEW j \in DOMAIN Tail(s), Tail(s)[i] = Tail(s)[j]
          PROVE  i = j
      <3>1. i + 1 = j + 1 BY <1>4, <1>7, <2>1, Zenon DEF Distinct
      <3> QED BY <3>1, <1>2, <1>3
    <2>2. ASSUME NEW i \in DOMAIN Tail(s) PROVE Tail(s)[i] # Head(s)
      <3>1. i + 1 # 1 /\ 1 \in DOMAIN s BY <1>2, <1>3
      <3> QED BY <1>2, <1>4, <1>7, <3>1, Zenon DEF Distinct
    <2> QED BY <2>1, <2>2, Zenon DEF Distinct, Items
  <1> QED BY <1>1, <1>6, <1>7

-----------------------------------------------------------------------------
(* Steps that leave the messages alone.                                    *)

msgVars == <<published, refused, rejected, ring, out, lost, stored, send_count, cleared,
             overlapped, last_sample>>

\* If no message moves and every flush stays at its rows, all that is said about
\* them still holds.
LEMMA QuietFrame ==
  ASSUME IInv, Types', UNCHANGED msgVars,
         \A f \in Flushers : /\ thread'[f].rows = thread[f].rows
                             /\ Queued(thread'[f]) = Queued(thread[f])
  PROVE  IInv'
  <1>1. Counted'
    <2>1. \A m : Holders(m)' = Holders(m) BY DEF Holders
    <2> QED BY <2>1 DEF IInv, Counted, msgVars
  <1>2. CriticalIsKept' BY DEF IInv, CriticalIsKept, msgVars
  <1>3. QueuedIsSafe' BY DEF IInv, QueuedIsSafe, msgVars
  <1>4. Once'
    <2>1. \A f \in Flushers : Unsent(thread'[f]) = Unsent(thread[f]) BY DEF Unsent
    <2>2. Sent' = Sent BY DEF Sent, msgVars
    <2>3. SentOnce => SentOnce' BY DEF SentOnce, msgVars
    <2>4. RefusedApart => RefusedApart' BY <2>2 DEF RefusedApart, msgVars
    <2>5. RowsApart => RowsApart' BY <2>1, <2>2 DEF RowsApart, msgVars
    <2> QED BY <2>3, <2>4, <2>5 DEF IInv, Once, msgVars
  <1> QED BY <1>1, <1>2, <1>3, <1>4 DEF IInv

\* A thread outside the loop of a flush moves on outside it.
LEMMA QuietMove ==
  ASSUME IInv, NEW f \in Flushers, NEW w \in Flusher, UNCHANGED msgVars,
         thread' = [thread EXCEPT ![f] = w],
         thread[f].step \notin Flush, w.step \notin Flush, w.rows = {},
         connected' \in BOOLEAN, net' \in BOOLEAN, cache_enabled' \in BOOLEAN,
         flush_enabled' \in BOOLEAN, config' \in [cache : BOOLEAN, flush : BOOLEAN],
         connected => connected', f = "poll" => connected'
  PROVE  IInv'
  <1>1. Types BY DEF IInv
  <1>2. thread[f].rows = {} BY <1>1 DEF Types
  <1>3. /\ thread' \in [Flushers -> Flusher] /\ thread'[f] = w
        /\ \A g \in Flushers \ {f} : thread'[g] = thread[g]
    BY <1>1 DEF Types
  <1>4. \A g \in Flushers : thread'[g].rows = thread[g].rows BY <1>2, <1>3
  <1>5. \A g \in Flushers : thread'[g].step \in Flush <=> thread[g].step \in Flush BY <1>3
  <1>6. \A g \in Flushers : Queued(thread'[g]) = Queued(thread[g])
    <2> TAKE g \in Flushers
    <2>1. CASE g = f BY <1>3, <2>1 DEF Queued, Flush
    <2>2. CASE g # f BY <1>3, <2>2
    <2> QED BY <2>1, <2>2
  <1>7. ~connected' => thread'["poll"].step = "idle"
    <2>1. "poll" \in Flushers BY DEF Flushers
    <2> QED BY <2>1, <1>1, <1>3 DEF Types
  <1>8. Types'
    <2>1. \A g \in Flushers : /\ thread'[g].rows \subseteq 1 .. published
                              /\ thread'[g].step \in Flush <=> thread'[g].rows # {}
      BY <1>1, <1>4, <1>5 DEF Types
    <2>2. {connected', cache_enabled', flush_enabled', net', overlapped'} \subseteq BOOLEAN
      BY <1>1 DEF Types, msgVars
    <2> QED BY <1>1, <1>3, <1>7, <2>1, <2>2 DEF Types, msgVars
  <1> QED BY <1>4, <1>6, <1>8, QuietFrame

\* A thread with another step is still a thread.
LEMMA Stepped ==
  ASSUME NEW v \in Flusher, NEW s \in Steps, NEW b \in BOOLEAN
  PROVE  /\ [v EXCEPT !.step = s] \in Flusher
         /\ [v EXCEPT !.step = s].step = s /\ [v EXCEPT !.step = s].rows = v.rows
         /\ [v EXCEPT !.step = s].flag = v.flag /\ [v EXCEPT !.step = s].ok = v.ok
         /\ [v EXCEPT !.step = s, !.flag = b] \in Flusher
         /\ [v EXCEPT !.step = s, !.flag = b].step = s
         /\ [v EXCEPT !.step = s, !.flag = b].rows = v.rows
         /\ [v EXCEPT !.step = s, !.flag = b].flag = b
BY DEF Flusher

\* A thread that is idle.
LEMMA IdleType == Idle \in Flusher /\ Idle.step = "idle" /\ Idle.rows = {} /\ Idle.flag = FALSE
BY DEF Idle, Flusher, Steps

\* The MQTT thread's and the command threads' steps from one section to the next.
LEMMA QuietGoto ==
  ASSUME IInv, NEW f \in Flushers, NEW s \in Steps, UNCHANGED msgVars,
         Goto(f, s) \/ \E b \in BOOLEAN :
                         thread' = [thread EXCEPT ![f].step = s, ![f].flag = b],
         thread[f].step \notin Flush, s \notin Flush,
         connected' \in BOOLEAN, net' \in BOOLEAN, cache_enabled' \in BOOLEAN,
         flush_enabled' \in BOOLEAN, config' \in [cache : BOOLEAN, flush : BOOLEAN],
         connected => connected', f = "poll" => connected'
  PROVE  IInv'
  <1>1. Types BY DEF IInv
  <1>2. thread[f] \in Flusher /\ thread[f].rows = {} BY <1>1 DEF Types
  <1>3. CASE Goto(f, s)
    <2> DEFINE w == [thread[f] EXCEPT !.step = s]
    <2>1. thread' = [thread EXCEPT ![f] = w] BY <1>1, <1>3 DEF Goto, Types
    <2>2. w \in Flusher /\ w.step = s /\ w.rows = {} BY <1>2, Stepped
    <2> HIDE DEF w
    <2> QED BY <2>1, <2>2, QuietMove
  <1>4. ASSUME NEW b \in BOOLEAN, thread' = [thread EXCEPT ![f].step = s, ![f].flag = b]
        PROVE  IInv'
    <2> DEFINE w == [thread[f] EXCEPT !.step = s, !.flag = b]
    <2>1. thread' = [thread EXCEPT ![f] = w] BY <1>1, <1>4 DEF Types
    <2>2. w \in Flusher /\ w.step = s /\ w.rows = {} BY <1>2, <1>4 DEF Flusher
    <2> HIDE DEF w
    <2> QED BY <2>1, <2>2, QuietMove
  <1> QED BY <1>3, <1>4

\* The steps of Next that leave the messages alone.
PollQuiet == Connect \/ PollFlush \/ PollSkip
CommandQuiet(t) ==
  \/ HandleFlush(t) \/ HandleSet(t) \/ HandleGet(t)
  \/ ReadOldFlag(t) \/ ForceFlag(t) \/ FlushCheck(t) \/ RestoreFlag(t) \/ ApplyFlushFlag(t)

\* The steps of mqtt_poll around its flush.
LEMMA PollQuietKeeps ==
  ASSUME IInv, PollQuiet
  PROVE  IInv'
  <1>1. Types /\ "poll" \in Flushers BY DEF IInv, Flushers
  <1>2. /\ connected \in BOOLEAN /\ net \in BOOLEAN /\ cache_enabled \in BOOLEAN
        /\ flush_enabled \in BOOLEAN /\ config \in [cache : BOOLEAN, flush : BOOLEAN]
    BY <1>1 DEF Types
  <1>3. {"connected", "load", "idle"} \subseteq Steps \ Flush BY DEF Steps, Flush
  <1>4. CASE Connect
    <2>1. thread["poll"].step \notin Flush BY <1>1, <1>4 DEF Connect, Types, Flush
    <2>2. UNCHANGED msgVars /\ UNCHANGED <<net, flagVars>> /\ connected'
      BY <1>4 DEF Connect, msgVars, tableVars, envVars
    <2>3. Goto("poll", "connected") BY <1>4 DEF Connect
    <2> QED BY <1>1, <1>2, <1>3, <2>1, <2>2, <2>3, QuietGoto DEF flagVars
  <1>5. CASE PollFlush \/ PollSkip
    <2>1. thread["poll"].step \notin Flush BY <1>5 DEF PollFlush, PollSkip, Flush
    <2>2. connected BY <1>1, <1>5 DEF PollFlush, PollSkip, Types
    <2>3. UNCHANGED msgVars /\ UNCHANGED <<connected, net, flagVars>>
      BY <1>5 DEF PollFlush, PollSkip, msgVars, tableVars, envVars
    <2>4. Goto("poll", "load") \/ Goto("poll", "idle") BY <1>5 DEF PollFlush, PollSkip
    <2> QED BY <1>1, <1>2, <1>3, <2>1, <2>2, <2>3, <2>4, QuietGoto DEF flagVars
  <1> QED BY <1>4, <1>5 DEF PollQuiet

\* The commands, and the sections of a manual flush around the flush itself.
LEMMA CommandQuietKeeps ==
  ASSUME IInv, NEW t \in Commanders, CommandQuiet(t)
  PROVE  IInv'
  <1>1. Types /\ t \in Flushers /\ t # "poll" BY CommandersAssumption DEF IInv, Flushers
  <1>2. /\ connected \in BOOLEAN /\ net \in BOOLEAN /\ cache_enabled \in BOOLEAN
        /\ flush_enabled \in BOOLEAN /\ config \in [cache : BOOLEAN, flush : BOOLEAN]
    BY <1>1 DEF Types
  <1>3. config.cache \in BOOLEAN /\ config.flush \in BOOLEAN BY <1>2
  <1>4. thread[t] \in Flusher /\ thread[t].flag \in BOOLEAN BY <1>1 DEF Types, Flusher
  <1>5. thread[t].step \notin Flush
    BY DEF CommandQuiet, HandleFlush, HandleSet, HandleGet, ReadOldFlag, ForceFlag, FlushCheck,
           RestoreFlag, ApplyFlushFlag, Flush
  <1>6. UNCHANGED msgVars /\ UNCHANGED <<connected, net>>
    BY DEF CommandQuiet, HandleFlush, HandleSet, HandleGet, ReadOldFlag, ForceFlag, FlushCheck,
           RestoreFlag, ApplyFlushFlag, msgVars, cmdUnchanged, tableVars, envVars
  <1>7. {"old", "force", "check", "load", "restore", "apply"} \subseteq Steps \ Flush
    BY DEF Steps, Flush
  <1>8. CASE HandleFlush(t) \/ ForceFlag(t) \/ FlushCheck(t)
    <2>1. \/ Goto(t, "old") \/ Goto(t, "check") \/ Goto(t, "load") \/ Goto(t, "restore")
      BY <1>8 DEF HandleFlush, ForceFlag, FlushCheck
    <2>2. /\ flush_enabled' \in BOOLEAN /\ cache_enabled' \in BOOLEAN
          /\ config' \in [cache : BOOLEAN, flush : BOOLEAN]
      BY <1>2, <1>8 DEF HandleFlush, ForceFlag, FlushCheck, flagVars
    <2> QED BY <1>1, <1>2, <1>5, <1>6, <1>7, <2>1, <2>2, QuietGoto
  <1>9. CASE ReadOldFlag(t)
    <2>1. thread' = [thread EXCEPT ![t].step = "force", ![t].flag = flush_enabled]
      BY <1>9 DEF ReadOldFlag
    <2>2. UNCHANGED flagVars BY <1>9 DEF ReadOldFlag
    <2> QED BY <1>1, <1>2, <1>5, <1>6, <1>7, <2>1, <2>2, QuietGoto DEF flagVars
  <1>10. CASE RestoreFlag(t) \/ ApplyFlushFlag(t)
    <2>1. thread' = [thread EXCEPT ![t] = Idle] BY <1>10 DEF RestoreFlag, ApplyFlushFlag
    <2>2. /\ flush_enabled' \in BOOLEAN /\ cache_enabled' \in BOOLEAN
          /\ config' \in [cache : BOOLEAN, flush : BOOLEAN]
      BY <1>2, <1>4, <1>10 DEF RestoreFlag, ApplyFlushFlag
    <2>3. Idle.step \notin Flush BY IdleType DEF Flush
    <2> QED BY <1>1, <1>2, <1>5, <1>6, <2>1, <2>2, <2>3, IdleType, QuietMove
  <1>11. CASE HandleSet(t)
    <2>1. PICK c, f, saved \in BOOLEAN :
            /\ config' = IF saved THEN [cache |-> c, flush |-> c /\ f] ELSE config
            /\ IF saved THEN /\ cache_enabled' = c
                             /\ thread' = [thread EXCEPT ![t].step = "apply", ![t].flag = c /\ f]
               ELSE UNCHANGED <<cache_enabled, thread>>
      BY <1>11 DEF HandleSet
    <2>2. flush_enabled' = flush_enabled BY <1>11 DEF HandleSet
    <2>3. CASE saved
      <3>1. (c /\ f) \in BOOLEAN OBVIOUS
      <3>2. config' = [cache |-> c, flush |-> c /\ f] /\ cache_enabled' = c BY <2>1, <2>3
      <3>3. config' \in [cache : BOOLEAN, flush : BOOLEAN] BY <3>1, <3>2
      <3>4. thread' = [thread EXCEPT ![t].step = "apply", ![t].flag = c /\ f] BY <2>1, <2>3
      <3>5. \E b \in BOOLEAN : thread' = [thread EXCEPT ![t].step = "apply", ![t].flag = b]
        BY <3>1, <3>4
      <3>6. /\ cache_enabled' \in BOOLEAN /\ flush_enabled' \in BOOLEAN
            /\ connected' \in BOOLEAN /\ net' \in BOOLEAN
        BY <1>2, <1>6, <2>2, <3>2
      <3> QED BY <1>1, <1>2, <1>5, <1>6, <1>7, <3>3, <3>5, <3>6, QuietGoto
    <2>4. CASE ~saved
      <3>1. UNCHANGED <<thread, cache_enabled, config>> BY <2>1, <2>4
      <3>2. Types' BY <1>1, <1>6, <2>2, <3>1 DEF Types, msgVars
      <3> QED BY <1>6, <3>1, <3>2, QuietFrame
    <2> QED BY <2>3, <2>4
  <1>12. CASE HandleGet(t)
    <2>1. thread' = [thread EXCEPT ![t].step = "apply", ![t].flag = config.flush]
      BY <1>12 DEF HandleGet
    <2>2. /\ flush_enabled' \in BOOLEAN /\ cache_enabled' \in BOOLEAN
          /\ config' \in [cache : BOOLEAN, flush : BOOLEAN]
      BY <1>2, <1>3, <1>12 DEF HandleGet
    <2> QED BY <1>1, <1>2, <1>3, <1>5, <1>6, <1>7, <2>1, <2>2, QuietGoto
  <1> QED BY <1>8, <1>9, <1>10, <1>11, <1>12 DEF CommandQuiet

\* The network comes and goes.
LEMMA NetKeeps ==
  ASSUME IInv, NetUp \/ NetDown
  PROVE  IInv'
  <1>1. UNCHANGED msgVars /\ UNCHANGED <<thread, connected, flagVars>> /\ net' \in BOOLEAN
    BY DEF NetUp, NetDown, msgVars, tableVars
  <1>2. Types' BY <1>1 DEF IInv, Types, msgVars, flagVars
  <1> QED BY <1>1, <1>2, QuietFrame

-----------------------------------------------------------------------------
(* Publishing.                                                             *)

\* What is in a queue.
LEMMA ItemsIn ==
  ASSUME NEW T, NEW s \in Seq(T)
  PROVE  Items(s) \subseteq T
BY DEF Items

\* A queue of some messages is one of more messages.
LEMMA SeqGrows ==
  ASSUME NEW S, NEW T, S \subseteq T, NEW s \in Seq(S)
  PROVE  s \in Seq(T)
OBVIOUS

\* The next message is nowhere yet.
LEMMA NotYet ==
  ASSUME Types
  PROVE  /\ published + 1 \notin Sent \cup stored
         /\ \A f \in Flushers : published + 1 \notin thread[f].rows
         /\ \A p \in Publishers : refused[p] # published + 1
  <1>1. published \in Nat BY DEF Types
  <1>2. published + 1 \notin 0 .. published BY <1>1
  <1>3. 1 .. published \subseteq 0 .. published BY <1>1
  <1>4. Items(ring) \subseteq 1 .. published /\ Items(out) \subseteq 1 .. published
    BY ItemsIn DEF Types
  <1>5. published + 1 \notin 1 .. published BY <1>2, <1>3
  <1>6. published + 1 \notin Sent BY <1>4, <1>5 DEF Sent
  <1>7. published + 1 \notin stored BY <1>5 DEF Types
  <1>8. \A f \in Flushers : published + 1 \notin thread[f].rows BY <1>5 DEF Types
  <1>9. \A p \in Publishers : refused[p] # published + 1 BY <1>2 DEF Types
  <1> QED BY <1>6, <1>7, <1>8, <1>9

\* publishOrCache: the message is queued, or left to its publisher.
LEMMA PublishDirectKeeps ==
  ASSUME IInv, NEW p \in Publishers, PublishDirect(p)
  PROVE  IInv'
  <1> DEFINE n == published + 1
  <1>1. Types BY DEF IInv
  <1>2. /\ published \in Nat /\ n \in Nat /\ n \in 1 .. Len(Kind) /\ published' = n
        /\ 0 .. published \subseteq 0 .. n /\ 1 .. published \subseteq 1 .. n
        /\ n \in 1 .. n /\ n # 0 /\ n \in 0 .. n
    <2>1. published \in Nat /\ Len(Kind) \in Nat /\ published < Len(Kind)
      BY <1>1, KindAssumption DEF PublishDirect, Types
    <2>2. published' = n BY DEF PublishDirect
    <2> QED BY <2>1, <2>2
  <1>3. /\ UNCHANGED <<rejected, connected, out, lost, stored, send_count, cleared, thread, net,
                       flagVars, overlapped, last_sample>>
        /\ refused[p] = 0
    BY DEF PublishDirect, tableVars, envVars
  <1>4. /\ n \notin Sent \cup stored /\ \A f \in Flushers : n \notin thread[f].rows
        /\ \A q \in Publishers : refused[q] # n
    BY <1>1, NotYet
  <1>5. \/ /\ ring' = Append(ring, n) /\ refused' = refused /\ Len(ring) < QUEUE_MAX - 1
        \/ /\ refused' = [refused EXCEPT ![p] = n] /\ ring' = ring
    BY DEF PublishDirect, CanSend
  <1> HIDE DEF n
  <1>6. /\ ring \in Seq(1 .. n) /\ out \in Seq(1 .. n) /\ refused \in [Publishers -> 0 .. n]
        /\ ring \in Seq(1 .. published) /\ Len(ring) \in Nat
    <2>1. ring \in Seq(1 .. published) /\ out \in Seq(1 .. published) BY <1>1 DEF Types
    <2>2. refused \in [Publishers -> 0 .. published] BY <1>1 DEF Types
    <2>3. ring \in Seq(1 .. n) /\ out \in Seq(1 .. n) BY <1>2, <2>1, SeqGrows
    <2>4. refused \in [Publishers -> 0 .. n] BY <1>2, <2>2
    <2>5. Len(ring) \in Nat BY <2>1
    <2> QED BY <2>1, <2>3, <2>4, <2>5
  <1>7. CASE ring' = Append(ring, n) /\ refused' = refused /\ Len(ring) < QUEUE_MAX - 1
    <2>1. /\ ring' \in Seq(1 .. n) /\ Items(ring') = Items(ring) \cup {n}
          /\ Distinct(ring) /\ n \notin Items(ring) => Distinct(ring')
      BY <1>2, <1>6, <1>7, Appended
    <2>2. Len(ring') < QUEUE_MAX
      <3>1. Len(ring') = Len(ring) + 1 /\ Len(ring) \in Nat BY <1>6, <1>7
      <3> QED BY <1>7, <3>1, OfflineBoundsAssumption
    <2>3. Types'
      <3>1. stored \subseteq 1 .. n /\ last_sample \in 0 .. n BY <1>1, <1>2 DEF Types
      <3>2. \A f \in Flushers : thread[f].rows \subseteq 1 .. n BY <1>1, <1>2 DEF Types
      <3>3. n \in 0 .. Len(Kind) BY <1>2
      <3> QED BY <1>1, <1>2, <1>3, <1>6, <1>7, <2>1, <2>2, <3>1, <3>2, <3>3 DEF Types, flagVars
    <2>4. Counted'
      <3>1. \A m : Holders(m)' = Holders(m) BY <1>3 DEF Holders
      <3> QED BY <1>3, <3>1 DEF IInv, Counted
    <2>5. CriticalIsKept'
      <3> SUFFICES ASSUME NEW m \in Critical, m <= n
                   PROVE  CriticalIsKept!(m)!2'
        BY <1>2 DEF CriticalIsKept
      <3>1. m \in Nat BY DEF Critical, Msgs
      <3>2. CASE m = n BY <2>1, <3>2
      <3>3. CASE m # n
        <4>1. m <= published BY <1>2, <3>1, <3>3 DEF n
        <4> QED BY <4>1, <1>3, <1>7, <2>1 DEF IInv, CriticalIsKept
      <3> QED BY <3>2, <3>3
    <2>6. QueuedIsSafe' BY <1>3, <2>1 DEF IInv, QueuedIsSafe
    <2>7. Once'
      <3>1. Sent' = Sent \cup {n} BY <1>3, <2>1 DEF Sent
      <3>2. SentOnce => SentOnce' BY <1>3, <1>4, <2>1 DEF SentOnce, Sent
      <3>3. RefusedApart => RefusedApart' BY <1>3, <1>4, <1>7, <3>1 DEF RefusedApart
      <3>4. RowsApart => RowsApart' BY <1>3, <1>4, <3>1 DEF RowsApart, Unsent
      <3> QED BY <1>3, <3>2, <3>3, <3>4 DEF IInv, Once
    <2> QED BY <2>3, <2>4, <2>5, <2>6, <2>7 DEF IInv
  <1>8. CASE refused' = [refused EXCEPT ![p] = n] /\ ring' = ring
    <2>1. /\ refused' \in [Publishers -> 0 .. n] /\ refused'[p] = n
          /\ \A q \in Publishers \ {p} : refused'[q] = refused[q]
      BY <1>2, <1>6, <1>8
    <2>3. Types' BY <1>1, <1>2, <1>3, <1>6, <1>8, <2>1 DEF Types, flagVars
    <2>4. Counted'
      <3>1. \A m : Holders(m)' = Holders(m) BY <1>3 DEF Holders
      <3> QED BY <1>3, <3>1 DEF IInv, Counted
    <2>5. CriticalIsKept'
      <3> SUFFICES ASSUME NEW m \in Critical, m <= n
                   PROVE  CriticalIsKept!(m)!2'
        BY <1>2 DEF CriticalIsKept
      <3>1. m \in Nat /\ m # 0 BY DEF Critical, Msgs
      <3>2. CASE m = n BY <2>1, <3>2
      <3>3. CASE m # n
        <4>1. m <= published BY <1>2, <3>1, <3>3 DEF n
        <4>2. (\E q \in Publishers : refused[q] = m) => \E q \in Publishers : refused'[q] = m
          BY <1>3, <2>1, <3>1
        <4> QED BY <4>1, <4>2, <1>3, <1>8 DEF IInv, CriticalIsKept
      <3> QED BY <3>2, <3>3
    <2>6. QueuedIsSafe' BY <1>3, <1>8 DEF IInv, QueuedIsSafe
    <2>7. Once'
      <3>1. Sent' = Sent BY <1>3, <1>8 DEF Sent
      <3>2. SentOnce => SentOnce' BY <1>3, <1>8 DEF SentOnce
      <3>3. RefusedApart => RefusedApart' BY <1>3, <1>4, <2>1, <3>1 DEF RefusedApart
      <3>4. RowsApart => RowsApart' BY <1>3, <3>1 DEF RowsApart
      <3> QED BY <1>3, <3>2, <3>3, <3>4 DEF IInv, Once
    <2> QED BY <2>3, <2>4, <2>5, <2>6, <2>7 DEF IInv
  <1> QED BY <1>5, <1>7, <1>8

\* cacheMessage: the message is stored and the table swept, or its publisher is told.
LEMMA PublishCacheKeeps ==
  ASSUME IInv, NEW p \in Publishers, PublishCache(p)
  PROVE  IInv'
  <1>1. Types BY DEF IInv
  <1>2. PICK m \in 1 .. published : refused[p] = m
    <2>1. refused[p] \in 0 .. published /\ refused[p] # 0 /\ published \in Nat
      BY <1>1 DEF PublishCache, Types
    <2>2. refused[p] \in 1 .. published BY <2>1
    <2> QED BY <2>2
  <1>3. UNCHANGED <<published, ring, connected, send_count, cleared, flagVars, thread, overlapped,
                    net, out, lost>>
    BY DEF PublishCache, envVars
  <1>4. /\ refused' \in [Publishers -> 0 .. published] /\ refused'[p] = 0
        /\ \A q \in Publishers \ {p} : refused'[q] = refused[q]
    <2>1. refused' = [refused EXCEPT ![p] = 0] BY DEF PublishCache
    <2>2. 0 \in 0 .. published BY <1>1 DEF Types
    <2> QED BY <1>1, <2>1, <2>2 DEF Types
  <1>5. last_sample' \in 0 .. published
    <2>1. last_sample' \in {m, last_sample} BY <1>2 DEF PublishCache
    <2>2. m \in 0 .. published BY <1>1 DEF Types
    <2> QED BY <1>1, <2>1, <2>2 DEF Types
  <1>6. \/ stored' = EnforceMaxRecords(stored \cup {m}) /\ rejected' = rejected
        \/ rejected' = rejected \cup {m} /\ stored' = stored
    BY <1>2 DEF PublishCache
  <1>7. /\ stored' \subseteq stored \cup {m} /\ rejected \subseteq rejected'
        /\ \A k \in Critical : k \in stored => k \in stored'
        /\ m \in Critical => m \in stored' \cup rejected'
    <2>1. stored \cup {m} \subseteq Msgs
      <3>1. 1 .. published \subseteq Msgs BY <1>1 DEF Types, Msgs
      <3> QED BY <3>1, <1>1 DEF Types
    <2>2. CASE stored' = EnforceMaxRecords(stored \cup {m}) /\ rejected' = rejected
      BY <2>1, <2>2, SweepKeeps
    <2>3. CASE rejected' = rejected \cup {m} /\ stored' = stored BY <2>3
    <2> QED BY <1>6, <2>2, <2>3
  <1>8. Types'
    <2>1. stored' \subseteq 1 .. published BY <1>1, <1>7 DEF Types
    <2> QED BY <1>1, <1>3, <1>4, <1>5, <2>1 DEF Types, flagVars
  <1>9. Counted'
    <2>1. \A k : Holders(k)' = Holders(k) BY <1>3 DEF Holders
    <2> QED BY <1>3, <2>1 DEF IInv, Counted
  <1>10. CriticalIsKept'
    <2> SUFFICES ASSUME NEW k \in Critical, k <= published
                 PROVE  CriticalIsKept!(k)!2'
      BY <1>3 DEF CriticalIsKept
    <2>1. CASE k = m BY <1>7, <2>1
    <2>2. CASE k # m
      <3>1. (\E q \in Publishers : refused[q] = k) => \E q \in Publishers : refused'[q] = k
        BY <1>2, <1>4, <2>2
      <3> QED BY <1>3, <1>7, <3>1 DEF IInv, CriticalIsKept
    <2> QED BY <2>1, <2>2
  <1>11. QueuedIsSafe' BY <1>3 DEF IInv, QueuedIsSafe
  <1>12. Once'
    <2>1. Sent' = Sent BY <1>3 DEF Sent
    <2>2. SentOnce => SentOnce' BY <1>3 DEF SentOnce
    <2>3. m # 0 BY <1>1 DEF Types
    <2>4. RefusedApart => RefusedApart' BY <1>2, <1>3, <1>4, <1>7, <2>1, <2>3 DEF RefusedApart
    <2>5. RefusedApart => m \notin Sent BY <1>2, <2>3 DEF RefusedApart
    <2>6. RefusedApart /\ RowsApart => RowsApart' BY <1>3, <1>7, <2>1, <2>5 DEF RowsApart
    <2> QED BY <1>3, <2>2, <2>4, <2>6 DEF IInv, Once
  <1> QED BY <1>8, <1>9, <1>10, <1>11, <1>12 DEF IInv

-----------------------------------------------------------------------------
(* The MQTT thread.                                                        *)

\* mqtt_poll takes a message from the queue to the broker, or loses it.
LEMMA PollPopKeeps ==
  ASSUME IInv, PollPop
  PROVE  IInv'
  <1>1. Types /\ "poll" \in Flushers BY DEF IInv, Flushers
  <1> DEFINE w == [thread["poll"] EXCEPT !.step = "popped"]
  <1>2. thread' = [thread EXCEPT !["poll"] = w] BY <1>1 DEF PollPop, Goto, Types
  <1>3. w \in Flusher /\ w.step = "popped" /\ w.rows = {}
    <2>1. thread["poll"] \in Flusher /\ thread["poll"].rows = {}
      BY <1>1 DEF Types, PollPop, Flush
    <2>2. "popped" \in Steps BY DEF Steps
    <2> QED BY <2>1, <2>2 DEF Flusher
  <1> HIDE DEF w
  <1>4. /\ thread' \in [Flushers -> Flusher] /\ thread'["poll"] = w
        /\ \A g \in Flushers \ {"poll"} : thread'[g] = thread[g]
    BY <1>1, <1>2, <1>3 DEF Types
  <1>5. thread["poll"].step = "idle" /\ thread["poll"].rows = {} /\ connected
    BY <1>1 DEF PollPop, Types, Flush
  <1>6. \A g \in Flushers : /\ thread'[g].rows = thread[g].rows
                            /\ Queued(thread'[g]) = Queued(thread[g])
    <2> TAKE g \in Flushers
    <2>1. CASE g = "poll" BY <1>3, <1>4, <1>5, <2>1 DEF Queued
    <2>2. CASE g # "poll" BY <1>4, <2>2
    <2> QED BY <2>1, <2>2
  <1>7. \A g \in Flushers : thread'[g].step \in Flush <=> thread[g].step \in Flush
    BY <1>3, <1>4, <1>5 DEF Flush
  <1>8. UNCHANGED <<published, refused, rejected, connected, stored, send_count, cleared,
                    last_sample, flagVars, overlapped, net>>
    BY DEF PollPop, tableVars
  <1>9. CASE ring = <<>>
    <2>1. UNCHANGED msgVars BY <1>8, <1>9 DEF PollPop, msgVars
    <2>2. Types' BY <1>1, <1>4, <1>5, <1>6, <1>7, <1>8, <2>1 DEF Types, msgVars, flagVars
    <2> QED BY <1>6, <2>1, <2>2, QuietFrame
  <1>10. CASE ring # <<>>
    <2> DEFINE h == Head(ring)
    <2>1. /\ ring' = Tail(ring)
          /\ \/ out' = Append(out, h) /\ lost' = lost
             \/ lost' = lost \cup {h} /\ out' = out
      BY <1>10 DEF PollPop
    <2>2. /\ ring \in Seq(1 .. published) /\ out \in Seq(1 .. published)
          /\ Len(ring) \in Nat /\ Len(ring) < QUEUE_MAX
      BY <1>1 DEF Types
    <2>3. /\ ring' \in Seq(1 .. published) /\ h \in 1 .. published /\ Len(ring') = Len(ring) - 1
          /\ Items(ring) = Items(ring') \cup {h}
          /\ Distinct(ring) => Distinct(ring') /\ h \notin Items(ring')
      BY <1>10, <2>1, <2>2, Taken
    <2>4. Len(ring') < QUEUE_MAX BY <2>2, <2>3, OfflineBoundsAssumption
    <2> HIDE DEF h
    <2>5. /\ out' \in Seq(1 .. published) /\ lost \subseteq lost'
          /\ Items(out) \subseteq Items(out') /\ Items(out') \subseteq Items(out) \cup {h}
          /\ Distinct(out) /\ h \notin Items(out) => Distinct(out')
          /\ h \in Items(out') \cup lost'
      <3>1. CASE out' = Append(out, h) /\ lost' = lost
        <4>1. /\ Append(out, h) \in Seq(1 .. published)
              /\ Items(Append(out, h)) = Items(out) \cup {h}
              /\ Distinct(out) /\ h \notin Items(out) => Distinct(Append(out, h))
          BY <2>2, <2>3, Appended
        <4> QED BY <3>1, <4>1
      <3>2. CASE lost' = lost \cup {h} /\ out' = out BY <2>2, <3>2
      <3> QED BY <2>1, <3>1, <3>2
    <2>6. Types'
      BY <1>1, <1>4, <1>5, <1>6, <1>7, <1>8, <2>3, <2>4, <2>5 DEF Types, flagVars
    <2>7. Counted'
      <3>1. \A k : Holders(k)' = Holders(k) BY <1>6 DEF Holders
      <3> QED BY <1>8, <3>1 DEF IInv, Counted
    <2>8. Items(ring) \cup Items(out) \cup lost \subseteq Items(ring') \cup Items(out') \cup lost'
      BY <2>3, <2>5
    <2>9. CriticalIsKept' BY <1>8, <2>8 DEF IInv, CriticalIsKept
    <2>10. QueuedIsSafe' BY <1>6, <2>8 DEF IInv, QueuedIsSafe
    <2>11. Once'
      <3>1. Sent' \subseteq Sent BY <2>3, <2>5 DEF Sent
      <3>2. SentOnce => SentOnce' BY <2>3, <2>5 DEF SentOnce
      <3>3. RefusedApart => RefusedApart' BY <1>6, <1>8, <3>1 DEF RefusedApart
      <3>4. \A f \in Flushers : Unsent(thread'[f]) = Unsent(thread[f]) BY <1>6 DEF Unsent
      <3>5. RowsApart => RowsApart' BY <1>6, <1>8, <3>1, <3>4 DEF RowsApart
      <3> QED BY <1>8, <3>2, <3>3, <3>5 DEF IInv, Once
    <2> QED BY <2>6, <2>7, <2>9, <2>10, <2>11 DEF IInv
  <1> QED BY <1>9, <1>10

-----------------------------------------------------------------------------
\* handle_clear_offline_cache deletes rows, also those a flush has loaded.
LEMMA HandleClearKeeps ==
  ASSUME IInv, NEW t \in Commanders, HandleClear(t)
  PROVE  IInv'
  <1>1. UNCHANGED <<published, refused, rejected, ring, connected, last_sample, overlapped, out,
                    lost, net, send_count, flagVars, thread>>
    BY DEF HandleClear, cmdUnchanged, envVars
  <1>2. stored' \subseteq stored /\ stored \cup cleared \subseteq stored' \cup cleared'
    BY DEF HandleClear
  <1>3. Types' BY <1>1, <1>2 DEF IInv, Types, flagVars
  <1>4. Counted'
    <2>1. \A k : Holders(k)' = Holders(k) BY <1>1 DEF Holders
    <2> QED BY <1>1, <2>1 DEF IInv, Counted
  <1>5. CriticalIsKept' BY <1>1, <1>2 DEF IInv, CriticalIsKept
  <1>6. QueuedIsSafe' BY <1>1 DEF IInv, QueuedIsSafe
  <1>7. Once'
    <2>1. Sent' = Sent BY <1>1 DEF Sent
    <2>2. SentOnce => SentOnce' BY <1>1 DEF SentOnce
    <2>3. RefusedApart => RefusedApart' BY <1>1, <1>2, <2>1 DEF RefusedApart
    <2>4. RowsApart => RowsApart' BY <1>1, <1>2, <2>1 DEF RowsApart
    <2> QED BY <1>1, <2>2, <2>3, <2>4 DEF IInv, Once
  <1> QED BY <1>3, <1>4, <1>5, <1>6, <1>7 DEF IInv

\* A restart: what was in memory only is lost.
LEMMA CrashKeeps ==
  ASSUME IInv, Crash
  PROVE  IInv'
  <1>1. Types BY DEF IInv
  <1>2. thread' = [f \in Flushers |-> Idle] /\ ring' = <<>> /\ overlapped'
    BY DEF Crash
  <1>3. UNCHANGED <<published, rejected, stored, send_count, cleared, config, net, out>>
    BY DEF Crash, tableVars
  <1>4. refused' = [p \in Publishers |-> 0] /\ last_sample' = 0 /\ connected' = FALSE
    BY DEF Crash
  <1>5. lost' = lost \cup Items(ring) \cup ({refused[p] : p \in Publishers} \ {0})
    BY DEF Crash, Items
  <1>6. Types'
    <2>1. 0 \in 0 .. published BY <1>1 DEF Types
    <2>2. refused' \in [Publishers -> 0 .. published] BY <1>4, <2>1
    <2>3. ring' \in Seq(1 .. published) /\ Len(ring') < QUEUE_MAX
      BY <1>2, OfflineBoundsAssumption
    <2>4. {connected', cache_enabled', flush_enabled', net', overlapped'} \subseteq BOOLEAN
      <3>1. cache_enabled' = config.cache /\ flush_enabled' = config.flush BY DEF Crash
      <3>2. config \in [cache : BOOLEAN, flush : BOOLEAN] BY <1>1 DEF Types
      <3>3. config.cache \in BOOLEAN /\ config.flush \in BOOLEAN BY <3>2
      <3>4. net' \in BOOLEAN BY <1>1, <1>3 DEF Types
      <3> QED BY <1>2, <1>4, <3>1, <3>3, <3>4
    <2>5. /\ thread' \in [Flushers -> Flusher]
          /\ \A f \in Flushers : thread'[f].step = "idle" /\ thread'[f].rows = {}
          /\ thread'["poll"].step = "idle"
      BY <1>2, IdleType DEF Flushers
    <2>6. \A f \in Flushers : /\ thread'[f].rows \subseteq 1 .. published
                              /\ thread'[f].step \in Flush <=> thread'[f].rows # {}
      BY <2>5 DEF Flush
    <2> QED BY <1>1, <1>3, <1>4, <2>1, <2>2, <2>3, <2>4, <2>5, <2>6 DEF Types
  <1>7. Counted'
    <2>1. \A m : Holders(m)' = {} BY <1>2, IdleType DEF Holders
    <2>2. \A m : Holders(m) \subseteq Flushers /\ IsFiniteSet(Flushers)
      BY CommandersAssumption, FS_AddElement DEF Holders, Flushers
    <2>3. \A m : Cardinality(Holders(m)) \in Nat /\ Cardinality(Flushers) \in Nat
      BY <2>2, FS_Subset, FS_CardinalityType
    <2>4. \A m : Cardinality(Holders(m)') = 0 BY <2>1, FS_EmptySet
    <2>5. ASSUME NEW m \in Msgs
          PROVE  send_count'[m] + Cardinality(Holders(m)') < MAX_SENDS + Cardinality(Flushers)
      <3>1. send_count[m] \in Nat /\ send_count' = send_count BY <1>1, <1>3 DEF Types
      <3>2. send_count[m] + Cardinality(Holders(m)) < MAX_SENDS + Cardinality(Flushers)
        BY DEF IInv, Counted
      <3>3. MAX_SENDS \in Nat BY OfflineBoundsAssumption
      <3> QED BY <2>3, <2>4, <3>1, <3>2, <3>3
    <2> QED BY <2>5 DEF Counted
  <1>8. CriticalIsKept'
    <2> SUFFICES ASSUME NEW k \in Critical, k <= published
                 PROVE  CriticalIsKept!(k)!2'
      BY <1>3 DEF CriticalIsKept
    <2>1. k # 0 BY DEF Critical, Msgs
    <2>2. (\E p \in Publishers : refused[p] = k) => k \in lost' BY <1>5, <2>1
    <2>3. k \in Items(ring) \cup lost => k \in lost' BY <1>5
    <2> QED BY <1>3, <2>2, <2>3 DEF IInv, CriticalIsKept
  <1>9. QueuedIsSafe' BY <1>2, IdleType DEF QueuedIsSafe, Queued
  <1>10. Once' BY <1>2 DEF Once
  <1> QED BY <1>6, <1>7, <1>8, <1>9, <1>10 DEF IInv

-----------------------------------------------------------------------------
(* The flush.                                                              *)

\* A thread that is not idle goes on to w, and its rows are known messages.
LEMMA Moves ==
  ASSUME Types, NEW f \in Flushers, NEW w \in Flusher, thread' = [thread EXCEPT ![f] = w],
         thread[f].step # "idle", UNCHANGED connected,
         w.rows \subseteq 1 .. published, w.step \in Flush <=> w.rows # {}
  PROVE  /\ thread' \in [Flushers -> Flusher] /\ thread'[f] = w
         /\ \A g \in Flushers \ {f} : thread'[g] = thread[g]
         /\ \A g \in Flushers : /\ thread'[g].rows \subseteq 1 .. published
                                /\ thread'[g].step \in Flush <=> thread'[g].rows # {}
         /\ ~connected' => thread'["poll"].step = "idle"
  <1>1. /\ thread' \in [Flushers -> Flusher] /\ thread'[f] = w
        /\ \A g \in Flushers \ {f} : thread'[g] = thread[g]
    BY DEF Types
  <1>2. \A g \in Flushers : /\ thread'[g].rows \subseteq 1 .. published
                            /\ thread'[g].step \in Flush <=> thread'[g].rows # {}
    BY <1>1 DEF Types
  <1>3. ~connected' => thread'["poll"].step = "idle"
    <2>1. "poll" \in Flushers BY DEF Flushers
    <2> QED BY <1>1, <2>1 DEF Types
  <1> QED BY <1>1, <1>2, <1>3

\* The flushes that hold a row are finitely many.
LEMMA HoldersFinite ==
  ASSUME NEW m
  PROVE  /\ IsFiniteSet(Holders(m)) /\ Cardinality(Holders(m)) \in Nat
         /\ Cardinality(Flushers) \in Nat /\ Cardinality(Holders(m)) <= Cardinality(Flushers)
  <1>1. IsFiniteSet(Flushers) BY CommandersAssumption, FS_AddElement DEF Flushers
  <1>2. Holders(m) \subseteq Flushers BY DEF Holders
  <1>3. /\ IsFiniteSet(Holders(m)) /\ Cardinality(Holders(m)) <= Cardinality(Flushers)
    BY <1>1, <1>2, FS_Subset
  <1> QED BY <1>1, <1>3, FS_CardinalityType

\* What a flush does next.
LEMMA AfterFlushStep == \A f : AfterFlush(f) \in Steps \ Flush
BY DEF AfterFlush, Steps, Flush

\* loadPending: the rows of one batch.
LEMMA FlushLoadKeeps ==
  ASSUME IInv, NEW f \in Flushers, FlushLoad(f)
  PROVE  IInv'
  <1>1. Types BY DEF IInv
  <1> DEFINE R == MostUrgent(Pending, FLUSH_BATCH)
             s == IF R = {} THEN AfterFlush(f) ELSE "send"
             w == [thread[f] EXCEPT !.rows = R, !.step = s]
  <1>2. R \subseteq stored /\ \A m \in R : send_count[m] < MAX_SENDS
    BY DEF MostUrgent, Pending
  <1>3. R \subseteq Msgs /\ R \subseteq 1 .. published
    <2>1. stored \subseteq 1 .. published /\ 1 .. published \subseteq Msgs
      BY <1>1 DEF Types, Msgs
    <2> QED BY <1>2, <2>1
  <1>4. thread' = [thread EXCEPT ![f] = w] BY <1>1 DEF FlushLoad, Types
  <1>5. /\ UNCHANGED <<published, refused, rejected, ring, connected, stored, send_count, cleared,
                       last_sample, flagVars, out, lost, net>>
        /\ thread[f].step = "load"
    BY DEF FlushLoad, tableVars, envVars
  <1>6. overlapped' = (overlapped \/ \E g \in Flushers \ {f} : thread[g].rows # {})
    BY DEF FlushLoad
  <1> HIDE DEF R
  <1>7. s \in Steps /\ (s \in Flush <=> R # {}) /\ s # "settle"
    <2>1. "send" \in Steps /\ "send" \in Flush BY DEF Steps, Flush
    <2>2. AfterFlush(f) # "settle" BY DEF AfterFlush
    <2> QED BY <2>1, <2>2, AfterFlushStep
  <1> HIDE DEF s
  <1>8. w \in Flusher /\ w.rows = R /\ w.step = s
    <2>1. thread[f] \in Flusher BY <1>1 DEF Types
    <2> QED BY <2>1, <1>3, <1>7 DEF Flusher
  <1> HIDE DEF w
  <1>9. thread[f].step # "idle" /\ thread[f].rows = {} /\ Queued(thread[f]) = {}
    BY <1>1, <1>5 DEF Types, Flush, Queued
  <1>10. /\ thread' \in [Flushers -> Flusher] /\ thread'[f] = w
         /\ \A g \in Flushers \ {f} : thread'[g] = thread[g]
         /\ \A g \in Flushers : /\ thread'[g].rows \subseteq 1 .. published
                                /\ thread'[g].step \in Flush <=> thread'[g].rows # {}
         /\ ~connected' => thread'["poll"].step = "idle"
    <2>1. w.step \in Flush <=> w.rows # {} BY <1>7, <1>8
    <2>2. w.rows \subseteq 1 .. published BY <1>3, <1>8
    <2> QED BY <1>1, <1>4, <1>5, <1>8, <1>9, <2>1, <2>2, Moves
  <1>11. Types'
    <2>1. overlapped' \in BOOLEAN BY <1>1, <1>6 DEF Types
    <2> QED BY <1>1, <1>5, <1>10, <2>1 DEF Types, flagVars
  <1>12. Queued(w) = {} /\ Unsent(w) = R BY <1>7, <1>8 DEF Queued, Unsent
  <1>13. Counted'
    <2> SUFFICES ASSUME NEW m \in Msgs
                 PROVE  send_count[m] + Cardinality(Holders(m)') < MAX_SENDS + Cardinality(Flushers)
      BY <1>5 DEF Counted
    <2>1. CASE m \in R
      <3>1. Holders(m)' \subseteq Flushers BY DEF Holders
      <3>2. IsFiniteSet(Flushers) BY CommandersAssumption, FS_AddElement DEF Flushers
      <3>3. Cardinality(Holders(m)') <= Cardinality(Flushers) BY <3>1, <3>2, FS_Subset
      <3>4. Cardinality(Holders(m)') \in Nat /\ Cardinality(Flushers) \in Nat
        BY <3>1, <3>2, FS_Subset, FS_CardinalityType
      <3>5. send_count[m] \in Nat /\ send_count[m] < MAX_SENDS /\ MAX_SENDS \in Nat
        BY <1>1, <1>2, <2>1, OfflineBoundsAssumption DEF Types
      <3> QED BY <3>3, <3>4, <3>5
    <2>2. CASE m \notin R
      <3>1. Holders(m)' = Holders(m) BY <1>8, <1>9, <1>10, <2>2 DEF Holders
      <3> QED BY <3>1 DEF IInv, Counted
    <2> QED BY <2>1, <2>2
  <1>14. CriticalIsKept' BY <1>5 DEF IInv, CriticalIsKept
  <1>15. QueuedIsSafe' BY <1>5, <1>10, <1>12 DEF IInv, QueuedIsSafe
  <1>16. Once'
    <2> SUFFICES ASSUME ~overlapped' PROVE SentOnce' /\ RefusedApart' /\ RowsApart'
      BY DEF Once
    <2>1. /\ ~overlapped /\ \A g \in Flushers \ {f} : thread[g].rows = {} BY <1>6
    <2>2. SentOnce /\ RefusedApart /\ RowsApart BY <2>1 DEF IInv, Once
    <2>3. Sent' = Sent BY <1>5 DEF Sent
    <2>4. \A g \in Flushers : Queued(thread[g]) = {}
      <3> TAKE g \in Flushers
      <3>1. thread[g].rows = {} BY <1>9, <2>1
      <3>2. thread[g].step \notin Flush BY <1>1, <3>1 DEF Types
      <3> QED BY <3>2 DEF Queued, Flush
    <2>5. stored \cap Sent = {} BY <2>2, <2>4 DEF RowsApart
    <2>6. RefusedApart'
      <3>1. \A g \in Flushers : thread'[g].rows \subseteq stored \cup thread[g].rows
        BY <1>2, <1>8, <1>10
      <3> QED BY <1>5, <2>2, <2>3, <3>1 DEF RefusedApart
    <2>7. RowsApart'
      <3>1. \A g \in Flushers : thread'[g].rows # {} => g = f BY <1>10, <2>1
      <3>2. \A g \in Flushers : Unsent(thread'[g]) \subseteq stored
        <4> TAKE g \in Flushers
        <4>1. CASE g = f BY <1>2, <1>10, <1>12, <4>1
        <4>2. CASE g # f BY <3>1, <4>2 DEF Unsent
        <4> QED BY <4>1, <4>2
      <3> QED BY <1>5, <2>3, <2>5, <3>1, <3>2 DEF RowsApart
    <2> QED BY <1>5, <2>2, <2>6, <2>7 DEF SentOnce
  <1> QED BY <1>11, <1>13, <1>14, <1>15, <1>16 DEF IInv

\* A flush puts its row into the queue, if there is room.
LEMMA FlushSendKeeps ==
  ASSUME IInv, NEW f \in Flushers, FlushSend(f)
  PROVE  IInv'
  <1>1. Types BY DEF IInv
  <1> DEFINE r == Row(f)
             w == [thread[f] EXCEPT !.step = "settle", !.ok = CanSend]
  <1>2. /\ UNCHANGED <<published, refused, rejected, connected, stored, send_count, cleared,
                       last_sample, flagVars, out, lost, net, overlapped>>
        /\ thread[f].step = "send"
    BY DEF FlushSend, tableVars, envVars
  <1>3. thread' = [thread EXCEPT ![f] = w] BY <1>1 DEF FlushSend, Types
  <1>4. thread[f].step \in Flush /\ thread[f].step # "idle" BY <1>2 DEF Flush
  <1>5. r = First(thread[f].rows) /\ r \in thread[f].rows /\ r \in Msgs
    BY <1>1, <1>4, RowIsIn
  <1>6. r \in 1 .. published BY <1>1, <1>5 DEF Types
  <1>7. CanSend \in BOOLEAN
    <2>1. connected \in BOOLEAN BY <1>1 DEF Types
    <2> QED BY <2>1 DEF CanSend
  <1>8. /\ w \in Flusher /\ w.step = "settle" /\ w.rows = thread[f].rows /\ w.ok = CanSend
    <2>1. thread[f] \in Flusher /\ "settle" \in Steps BY <1>1 DEF Types, Steps
    <2> QED BY <2>1, <1>7 DEF Flusher
  <1>9. ring' = IF CanSend THEN Append(ring, r) ELSE ring BY DEF FlushSend
  <1> HIDE DEF w, r
  <1>10. /\ thread' \in [Flushers -> Flusher] /\ thread'[f] = w
         /\ \A g \in Flushers \ {f} : thread'[g] = thread[g]
         /\ \A g \in Flushers : /\ thread'[g].rows \subseteq 1 .. published
                                /\ thread'[g].step \in Flush <=> thread'[g].rows # {}
         /\ ~connected' => thread'["poll"].step = "idle"
    <2>1. w.step \in Flush <=> w.rows # {} BY <1>5, <1>8 DEF Flush
    <2>2. w.rows \subseteq 1 .. published BY <1>1, <1>8 DEF Types
    <2> QED BY <1>1, <1>2, <1>3, <1>4, <1>8, <2>1, <2>2, Moves
  <1>11. \A g \in Flushers : thread'[g].rows = thread[g].rows BY <1>8, <1>10
  <1>12. Queued(thread[f]) = {} /\ Unsent(thread[f]) = thread[f].rows
    BY <1>2 DEF Queued, Unsent
  <1>13. CASE ~CanSend
    <2>1. UNCHANGED msgVars BY <1>2, <1>9, <1>13 DEF msgVars
    <2>2. Types' BY <1>1, <1>2, <1>10, <2>1 DEF Types, msgVars, flagVars
    <2>3. Queued(w) = {} BY <1>8, <1>13 DEF Queued
    <2>4. \A g \in Flushers : Queued(thread'[g]) = Queued(thread[g]) BY <1>10, <1>12, <2>3
    <2> QED BY <1>11, <2>1, <2>2, <2>4, QuietFrame
  <1>14. CASE CanSend
    <2>1. ring \in Seq(1 .. published) /\ ring' = Append(ring, r) BY <1>1, <1>9, <1>14 DEF Types
    <2>2. /\ ring' \in Seq(1 .. published) /\ Items(ring') = Items(ring) \cup {r}
          /\ Distinct(ring) /\ r \notin Items(ring) => Distinct(ring')
      <3>1. /\ Append(ring, r) \in Seq(1 .. published)
            /\ Items(Append(ring, r)) = Items(ring) \cup {r}
            /\ Distinct(ring) /\ r \notin Items(ring) => Distinct(Append(ring, r))
        BY <1>6, <2>1, Appended
      <3> QED BY <2>1, <3>1
    <2>3. Len(ring') < QUEUE_MAX
      <3>1. Len(ring') = Len(ring) + 1 /\ Len(ring) \in Nat BY <2>1
      <3>2. Len(ring) < QUEUE_MAX - 1 BY <1>14 DEF CanSend
      <3> QED BY <3>1, <3>2, OfflineBoundsAssumption
    <2>4. Types' BY <1>1, <1>2, <1>10, <2>2, <2>3 DEF Types, flagVars
    <2>5. Counted'
      <3>1. \A m : Holders(m)' = Holders(m) BY <1>11 DEF Holders
      <3> QED BY <1>2, <3>1 DEF IInv, Counted
    <2>6. CriticalIsKept' BY <1>2, <2>2 DEF IInv, CriticalIsKept
    <2>7. Queued(w) = {r} BY <1>5, <1>8, <1>14 DEF Queued
    <2>8. QueuedIsSafe' BY <1>2, <1>10, <2>2, <2>7 DEF IInv, QueuedIsSafe
    <2>9. Once'
      <3> SUFFICES ASSUME ~overlapped PROVE SentOnce' /\ RefusedApart' /\ RowsApart'
        BY <1>2 DEF Once
      <3>1. SentOnce /\ RefusedApart /\ RowsApart BY DEF IInv, Once
      <3>2. Sent' = Sent \cup {r} BY <1>2, <2>2 DEF Sent
      <3>3. r \notin Sent BY <1>5, <1>12, <3>1 DEF RowsApart
      <3>4. SentOnce' BY <1>2, <2>2, <3>1, <3>3 DEF SentOnce, Sent
      <3>5. RefusedApart' BY <1>2, <1>5, <1>11, <3>1, <3>2 DEF RefusedApart
      <3>6. RowsApart'
        <4>1. \A g \in Flushers : thread[g].rows # {} => g = f BY <1>5, <3>1 DEF RowsApart
        <4>2. Unsent(w) = Unsent(thread[f]) \ {r} BY <1>8, <1>12, <2>7 DEF Unsent
        <4>3. \A g \in Flushers : Unsent(thread'[g]) \cap Sent' = {}
          <5> TAKE g \in Flushers
          <5>1. CASE g = f BY <1>10, <3>1, <3>2, <4>2, <5>1 DEF RowsApart
          <5>2. CASE g # f BY <1>11, <4>1, <5>2 DEF Unsent
          <5> QED BY <5>1, <5>2
        <4>4. \A m \in stored \cap Sent' : \E g \in Flushers : m \in Queued(thread'[g])
          <5> TAKE m \in stored \cap Sent'
          <5>1. CASE m = r BY <1>10, <2>7, <5>1
          <5>2. CASE m # r
            <6>1. PICK g \in Flushers : m \in Queued(thread[g]) BY <3>1, <3>2, <5>2 DEF RowsApart
            <6>2. g # f BY <1>12, <6>1
            <6> QED BY <1>10, <6>1, <6>2
          <5> QED BY <5>1, <5>2
        <4> QED BY <1>2, <1>11, <4>1, <4>3, <4>4 DEF RowsApart
      <3> QED BY <3>4, <3>5, <3>6
    <2> QED BY <2>4, <2>5, <2>6, <2>8, <2>9 DEF IInv
  <1> QED BY <1>13, <1>14

\* A flush removes the row it has queued, or marks it as failed and stops.
LEMMA FlushSettleKeeps ==
  ASSUME IInv, NEW f \in Flushers, FlushSettle(f)
  PROVE  IInv'
  <1>1. Types BY DEF IInv
  <1> DEFINE r == Row(f)
             rest == IF thread[f].ok THEN thread[f].rows \ {r} ELSE {}
             s == IF rest = {} THEN AfterFlush(f) ELSE "send"
             w == [thread[f] EXCEPT !.rows = rest, !.ok = TRUE, !.step = s]
  <1>2. /\ UNCHANGED <<published, refused, rejected, ring, connected, cleared, last_sample,
                       flagVars, out, lost, net, overlapped>>
        /\ thread[f].step = "settle"
    BY DEF FlushSettle, envVars
  <1>3. thread' = [thread EXCEPT ![f] = w] BY <1>1 DEF FlushSettle, Types
  <1>4. thread[f].step \in Flush /\ thread[f].step # "idle" BY <1>2 DEF Flush
  <1>5. r = First(thread[f].rows) /\ r \in thread[f].rows /\ r \in Msgs
    BY <1>1, <1>4, RowIsIn
  <1>6. \/ /\ thread[f].ok /\ stored' = stored \ {r} /\ send_count' = send_count
        \/ /\ ~thread[f].ok /\ stored' = stored
           /\ send_count' =
                [send_count EXCEPT ![r] = IF r \in stored THEN send_count[r] + 1 ELSE send_count[r]]
    BY DEF FlushSettle
  <1> HIDE DEF r
  <1>7. rest \subseteq thread[f].rows \ {r} /\ (thread[f].ok => rest = thread[f].rows \ {r})
    OBVIOUS
  <1>8. rest \subseteq Msgs /\ rest \subseteq 1 .. published
    <2>1. thread[f].rows \subseteq 1 .. published /\ 1 .. published \subseteq Msgs
      BY <1>1 DEF Types, Msgs
    <2> QED BY <1>7, <2>1
  <1> HIDE DEF rest
  <1>9. s \in Steps /\ (s \in Flush <=> rest # {}) /\ s # "settle"
    <2>1. "send" \in Steps /\ "send" \in Flush BY DEF Steps, Flush
    <2>2. AfterFlush(f) # "settle" BY DEF AfterFlush
    <2> QED BY <2>1, <2>2, AfterFlushStep
  <1> HIDE DEF s
  <1>10. w \in Flusher /\ w.rows = rest /\ w.step = s
    <2>1. thread[f] \in Flusher BY <1>1 DEF Types
    <2> QED BY <2>1, <1>8, <1>9 DEF Flusher
  <1> HIDE DEF w
  <1>11. /\ thread' \in [Flushers -> Flusher] /\ thread'[f] = w
         /\ \A g \in Flushers \ {f} : thread'[g] = thread[g]
         /\ \A g \in Flushers : /\ thread'[g].rows \subseteq 1 .. published
                                /\ thread'[g].step \in Flush <=> thread'[g].rows # {}
         /\ ~connected' => thread'["poll"].step = "idle"
    <2>1. w.step \in Flush <=> w.rows # {} BY <1>9, <1>10
    <2>2. w.rows \subseteq 1 .. published BY <1>8, <1>10
    <2> QED BY <1>1, <1>2, <1>3, <1>4, <1>10, <2>1, <2>2, Moves
  <1>12. Queued(w) = {} /\ Unsent(w) = rest BY <1>9, <1>10 DEF Queued, Unsent
  <1>13. /\ stored' \subseteq stored /\ (thread[f].ok => r \notin stored')
         /\ (~thread[f].ok => stored' = stored) /\ stored \subseteq stored' \cup {r}
    BY <1>6
  <1>14. send_count' \in [Msgs -> Nat]
    <2>1. send_count \in [Msgs -> Nat] BY <1>1 DEF Types
    <2> QED BY <1>5, <1>6, <2>1
  <1>15. Types'
    <2>1. stored' \subseteq 1 .. published BY <1>1, <1>13 DEF Types
    <2> QED BY <1>1, <1>2, <1>11, <1>14, <2>1 DEF Types, flagVars
  <1>16. Counted'
    <2> SUFFICES ASSUME NEW m \in Msgs
                 PROVE  send_count'[m] + Cardinality(Holders(m)') < MAX_SENDS + Cardinality(Flushers)
      BY DEF Counted
    <2>1. /\ IsFiniteSet(Holders(m)) /\ Cardinality(Holders(m)) \in Nat
          /\ Cardinality(Flushers) \in Nat
      BY HoldersFinite
    <2>2. send_count[m] + Cardinality(Holders(m)) < MAX_SENDS + Cardinality(Flushers)
      BY DEF IInv, Counted
    <2>3. send_count[m] \in Nat /\ send_count'[m] \in Nat /\ MAX_SENDS \in Nat
      BY <1>1, <1>14, OfflineBoundsAssumption DEF Types
    <2>4. Holders(m)' \subseteq Holders(m) BY <1>7, <1>10, <1>11 DEF Holders
    <2>5. /\ Cardinality(Holders(m)') \in Nat
          /\ Cardinality(Holders(m)') <= Cardinality(Holders(m))
      BY <2>1, <2>4, FS_Subset, FS_CardinalityType
    <2>6. CASE send_count'[m] = send_count[m] BY <2>1, <2>2, <2>3, <2>5, <2>6
    <2>7. CASE send_count'[m] # send_count[m]
      <3>1. m = r /\ send_count'[m] = send_count[m] + 1
        <4>1. send_count \in [Msgs -> Nat] BY <1>1 DEF Types
        <4> QED BY <1>5, <1>6, <2>7, <4>1
      <3>2. f \in Holders(m) /\ f \notin Holders(m)'
        BY <1>5, <1>7, <1>10, <1>11, <3>1 DEF Holders
      <3>3. Holders(m)' \subseteq Holders(m) \ {f} BY <2>4, <3>2
      <3>4. /\ IsFiniteSet(Holders(m) \ {f})
            /\ Cardinality(Holders(m) \ {f}) = Cardinality(Holders(m)) - 1
        BY <2>1, <3>2, FS_RemoveElement
      <3>5. Cardinality(Holders(m)') <= Cardinality(Holders(m)) - 1
        BY <3>3, <3>4, FS_Subset
      <3> QED BY <2>1, <2>2, <2>3, <2>5, <3>1, <3>5
    <2> QED BY <2>6, <2>7
  <1>17. thread[f].ok => Queued(thread[f]) = {r} BY <1>2, <1>5 DEF Queued
  <1>18. CriticalIsKept'
    <2>1. thread[f].ok => r \in Items(ring) \cup Items(out) \cup lost
      BY <1>17 DEF IInv, QueuedIsSafe
    <2>2. CASE thread[f].ok BY <1>2, <1>13, <2>1, <2>2 DEF IInv, CriticalIsKept
    <2>3. CASE ~thread[f].ok BY <1>2, <1>13, <2>3 DEF IInv, CriticalIsKept
    <2> QED BY <2>2, <2>3
  <1>19. QueuedIsSafe' BY <1>2, <1>11, <1>12 DEF IInv, QueuedIsSafe
  <1>20. Once'
    <2> SUFFICES ASSUME ~overlapped PROVE SentOnce' /\ RefusedApart' /\ RowsApart'
      BY <1>2 DEF Once
    <2>1. SentOnce /\ RefusedApart /\ RowsApart BY DEF IInv, Once
    <2>2. Sent' = Sent BY <1>2 DEF Sent
    <2>3. \A g \in Flushers : thread'[g].rows \subseteq thread[g].rows BY <1>7, <1>10, <1>11
    <2>4. SentOnce' BY <1>2, <2>1 DEF SentOnce
    <2>5. RefusedApart' BY <1>2, <1>13, <2>1, <2>2, <2>3 DEF RefusedApart
    <2>6. RowsApart'
      <3>1. rest \subseteq Unsent(thread[f]) BY <1>5, <1>7 DEF Unsent, Queued
      <3>2. \A g \in Flushers : Unsent(thread'[g]) \subseteq Unsent(thread[g])
        BY <1>11, <1>12, <3>1
      <3>3. \A m \in stored' \cap Sent : \E g \in Flushers : m \in Queued(thread'[g])
        <4> TAKE m \in stored' \cap Sent
        <4>1. PICK g \in Flushers : m \in Queued(thread[g]) BY <1>13, <2>1 DEF RowsApart
        <4>2. g # f
          <5>1. CASE thread[f].ok BY <1>13, <1>17, <4>1, <5>1
          <5>2. CASE ~thread[f].ok BY <4>1, <5>2 DEF Queued
          <5> QED BY <5>1, <5>2
        <4> QED BY <1>11, <4>1, <4>2
      <3> QED BY <2>1, <2>2, <2>3, <3>2, <3>3 DEF RowsApart
    <2> QED BY <2>4, <2>5, <2>6
  <1> QED BY <1>15, <1>16, <1>18, <1>19, <1>20 DEF IInv

-----------------------------------------------------------------------------
(* The theorems.                                                           *)

\* What a fresh gateway starts from.
LEMMA InitHolds == Init => IInv
  <1> SUFFICES ASSUME Init PROVE IInv OBVIOUS
  <1>1. thread = [f \in Flushers |-> Idle] /\ ring = <<>> /\ out = <<>> /\ published = 0
    BY DEF Init
  <1>2. \A f \in Flushers : thread[f] = Idle /\ thread[f].rows = {} BY <1>1, IdleType
  <1>3. Types
    <2>1. 0 \in 0 .. Len(Kind) /\ 0 \in 0 .. 0 BY KindAssumption
    <2>2. refused \in [Publishers -> 0 .. 0] /\ last_sample \in 0 .. 0 BY <2>1 DEF Init
    <2>3. <<>> \in Seq(1 .. 0) /\ Len(<<>>) < QUEUE_MAX BY OfflineBoundsAssumption
    <2>4. send_count \in [Msgs -> Nat] BY DEF Init
    <2>5. config \in [cache : BOOLEAN, flush : BOOLEAN]
      <3>1. \/ config = [cache |-> TRUE, flush |-> TRUE]
            \/ config = [cache |-> TRUE, flush |-> FALSE]
        BY DEF Init
      <3>2. [cache |-> TRUE, flush |-> TRUE] \in [cache : BOOLEAN, flush : BOOLEAN] OBVIOUS
      <3>3. [cache |-> TRUE, flush |-> FALSE] \in [cache : BOOLEAN, flush : BOOLEAN] OBVIOUS
      <3> QED BY <3>1, <3>2, <3>3
    <2>6. {connected, cache_enabled, flush_enabled, net, overlapped} \subseteq BOOLEAN
      <3>1. config.cache \in BOOLEAN /\ config.flush \in BOOLEAN BY <2>5
      <3> QED BY <3>1 DEF Init
    <2>7. /\ thread \in [Flushers -> Flusher] /\ thread["poll"].step = "idle"
          /\ \A f \in Flushers : thread[f].step \notin Flush
      BY <1>1, IdleType DEF Flushers, Flush
    <2>8. stored = {} BY DEF Init
    <2> QED BY <1>1, <1>2, <2>1, <2>2, <2>3, <2>4, <2>5, <2>6, <2>7, <2>8 DEF Types
  <1>4. Counted
    <2> SUFFICES ASSUME NEW m \in Msgs
                 PROVE  send_count[m] + Cardinality(Holders(m)) < MAX_SENDS + Cardinality(Flushers)
      BY DEF Counted
    <2>1. Holders(m) = {} BY <1>2 DEF Holders
    <2>2. Cardinality(Holders(m)) = 0 BY <2>1, FS_EmptySet
    <2>3. Cardinality(Flushers) \in Nat BY HoldersFinite
    <2>4. send_count[m] = 0 BY DEF Init
    <2>5. MAX_SENDS \in Nat \ {0} BY OfflineBoundsAssumption
    <2> QED BY <2>2, <2>3, <2>4, <2>5
  <1>5. CriticalIsKept
    <2>1. \A m \in Critical : m \in Nat \ {0} BY DEF Critical, Msgs
    <2>2. \A m \in Critical : ~(m <= published) BY <1>1, <2>1
    <2> QED BY <2>2 DEF CriticalIsKept
  <1>6. \A f \in Flushers : Queued(thread[f]) = {} /\ Unsent(thread[f]) = {}
    BY <1>2, IdleType DEF Queued, Unsent
  <1>7. QueuedIsSafe BY <1>6 DEF QueuedIsSafe
  <1>8. Once
    <2>1. Items(<<>>) = {} /\ Distinct(<<>>) BY DEF Items, Distinct
    <2>2. Sent = {} /\ SentOnce BY <1>1, <2>1 DEF Sent, SentOnce
    <2>3. RefusedApart BY DEF Init, RefusedApart
    <2>4. RowsApart BY <1>2, <1>6, <2>2 DEF RowsApart
    <2> QED BY <2>2, <2>3, <2>4 DEF Once
  <1> QED BY <1>3, <1>4, <1>5, <1>7, <1>8 DEF IInv

\* Every step of the gateway's threads, its operator and its surroundings keeps the
\* invariant.
LEMMA NextKeeps == IInv /\ [Next]_vars => IInv'
  <1> SUFFICES ASSUME IInv, [Next]_vars PROVE IInv' OBVIOUS
  <1>1. CASE UNCHANGED vars
    <2>1. UNCHANGED msgVars /\ UNCHANGED <<thread, connected, net, flagVars>>
      BY <1>1 DEF vars, msgVars, tableVars, envVars
    <2>2. Types' BY <2>1 DEF IInv, Types, msgVars, flagVars
    <2> QED BY <2>1, <2>2, QuietFrame
  <1>2. ASSUME NEW p \in Publishers, PublishDirect(p) \/ PublishCache(p) PROVE IInv'
    BY <1>2, PublishDirectKeeps, PublishCacheKeeps
  <1>3. CASE Connect \/ PollFlush \/ PollSkip BY <1>3, PollQuietKeeps DEF PollQuiet
  <1>4. CASE PollPop BY <1>4, PollPopKeeps
  <1>5. ASSUME NEW f \in Flushers, FlushLoad(f) \/ FlushSend(f) \/ FlushSettle(f) PROVE IInv'
    BY <1>5, FlushLoadKeeps, FlushSendKeeps, FlushSettleKeeps
  <1>6. ASSUME NEW t \in Commanders, CommandQuiet(t) PROVE IInv' BY <1>6, CommandQuietKeeps
  <1>7. ASSUME NEW t \in Commanders, HandleClear(t) PROVE IInv' BY <1>7, HandleClearKeeps
  <1>8. CASE NetUp \/ NetDown BY <1>8, NetKeeps
  <1>9. CASE Crash BY <1>9, CrashKeeps
  <1>10. "poll" \in Flushers /\ Commanders \subseteq Flushers BY DEF Flushers
  <1> QED
    BY <1>1, <1>2, <1>3, <1>4, <1>5, <1>6, <1>7, <1>8, <1>9, <1>10
    DEF Next, PollStep, CommandStep, CommandQuiet

\* The strengthened invariant holds in every state the gateway can reach.
THEOREM Inductive == Spec => []IInv
BY InitHolds, NextKeeps, PTL DEF Spec

\* Every variable has its type; in particular the queue is never full to its last
\* slot, and a row is not counted as failed more often than MAX_SENDS and the number
\* of flushes that can hold it allow.
THEOREM TypeCorrect == Spec => []TypeOK
  <1>1. IInv => TypeOK
    <2> SUFFICES ASSUME IInv PROVE TypeOK OBVIOUS
    <2>1. Types BY DEF IInv
    <2>2. send_count \in [Msgs -> 0 .. MAX_SENDS + Cardinality(Flushers)]
      <3>1. send_count \in [Msgs -> Nat] BY <2>1 DEF Types
      <3>2. ASSUME NEW m \in Msgs PROVE send_count[m] \in 0 .. MAX_SENDS + Cardinality(Flushers)
        <4>1. Cardinality(Holders(m)) \in Nat /\ Cardinality(Flushers) \in Nat BY HoldersFinite
        <4>2. send_count[m] + Cardinality(Holders(m)) < MAX_SENDS + Cardinality(Flushers)
          BY DEF IInv, Counted
        <4>3. send_count[m] \in Nat /\ MAX_SENDS \in Nat BY <3>1, OfflineBoundsAssumption
        <4> QED BY <4>1, <4>2, <4>3
      <3> QED BY <3>1, <3>2
    <2>3. {connected, cache_enabled, flush_enabled, config.cache, config.flush, net,
           overlapped} \subseteq BOOLEAN
      <3>1. config \in [cache : BOOLEAN, flush : BOOLEAN] BY <2>1 DEF Types
      <3>2. config.cache \in BOOLEAN /\ config.flush \in BOOLEAN BY <3>1
      <3> QED BY <2>1, <3>2 DEF Types
    <2> QED BY <2>1, <2>2, <2>3 DEF Types, TypeOK, Flush
  <1> QED BY <1>1, Inductive, PTL

\* The offline cache itself loses no alarm, command result or status change.
THEOREM CriticalKept == Spec => []CriticalIsKept
  <1>1. IInv => CriticalIsKept BY DEF IInv
  <1> QED BY <1>1, Inductive, PTL

\* Without overlapping flushes and restarts nothing is sent twice.
THEOREM SentAtMostOnce == Spec => []NoOverlapNoDuplicate
  <1>1. IInv => NoOverlapNoDuplicate
    <2> SUFFICES ASSUME IInv, ~overlapped
                 PROVE  \A i, j \in DOMAIN (out \o ring) :
                          (out \o ring)[i] = (out \o ring)[j] => i = j
      BY DEF NoOverlapNoDuplicate
    <2>1. Distinct(ring) /\ Distinct(out) /\ Items(ring) \cap Items(out) = {}
      BY DEF IInv, Once, SentOnce
    <2>2. out \in Seq(1 .. published) /\ ring \in Seq(1 .. published) BY DEF IInv, Types
    <2> DEFINE s == out \o ring
               n == Len(out)
    <2>3. /\ n \in Nat /\ Len(ring) \in Nat /\ DOMAIN out = 1 .. n
          /\ DOMAIN ring = 1 .. Len(ring) /\ DOMAIN s = 1 .. n + Len(ring)
      BY <2>2
    <2>4. \A i \in 1 .. n : s[i] = out[i] BY <2>2, <2>3
    <2>5. \A i \in DOMAIN s : i > n => i - n \in DOMAIN ring /\ s[i] = ring[i - n]
      BY <2>2, <2>3
    <2> HIDE DEF s, n
    <2>6. ASSUME NEW i \in DOMAIN s, NEW j \in DOMAIN s, s[i] = s[j] PROVE i = j
      <3>0. i \in Nat /\ j \in Nat /\ i >= 1 /\ j >= 1 BY <2>3
      <3>1. CASE i <= n /\ j <= n
        <4>1. i \in DOMAIN out /\ j \in DOMAIN out /\ i \in 1 .. n /\ j \in 1 .. n
          BY <2>3, <3>0, <3>1
        <4> QED BY <2>1, <2>4, <2>6, <4>1 DEF Distinct
      <3>2. CASE i > n /\ j > n
        <4>1. i - n = j - n BY <2>1, <2>5, <2>6, <3>2 DEF Distinct
        <4> QED BY <2>3, <3>0, <4>1
      <3>3. ASSUME NEW k \in DOMAIN s, NEW l \in 1 .. n, k > n PROVE s[k] # s[l]
        <4>1. s[k] \in Items(ring) BY <2>5, <3>3 DEF Items
        <4>2. s[l] \in Items(out) BY <2>3, <2>4 DEF Items
        <4> QED BY <2>1, <4>1, <4>2
      <3>4. ~(i > n /\ j <= n) /\ ~(i <= n /\ j > n) BY <2>3, <2>6, <3>0, <3>3
      <3> QED BY <2>3, <3>0, <3>1, <3>2, <3>4
    <2> QED BY <2>6 DEF s
  <1> QED BY <1>1, Inductive, PTL

-----------------------------------------------------------------------------
(* The two flags, for one command thread.                                  *)

\* Steps that leave the flags and the command threads' place in a command alone.
LEMMA FlagsFrame ==
  ASSUME FlagsInv, UNCHANGED flagVars,
         \A t \in Commanders : thread'[t].step = thread[t].step /\ thread'[t].flag = thread[t].flag
  PROVE  FlagsInv'
BY DEF FlagsInv, flagVars

\* A step of the only command thread.
LEMMA FlagsMove ==
  ASSUME NEW t \in Commanders, \A a, b \in Commanders : a = b, NEW w, thread'[t] = w,
         config'.flush => config'.cache, cache_enabled' = config'.cache,
         w.step # "apply" => flush_enabled' = config'.flush,
         w.step = "apply" => w.flag = config'.flush,
         w.step \in Manual => flush_enabled',
         w.step \in Manual \ {"old"} => w.flag
  PROVE  FlagsInv'
  <1>1. \A a \in Commanders : thread'[a] = w BY Zenon
  <1>2. (\A a \in Commanders : thread'[a].step # "apply") => w.step # "apply" BY <1>1
  <1> QED BY <1>1, <1>2 DEF FlagsInv

\* What the only command thread knows about the flags, whatever it is doing.
LEMMA FlagsOf ==
  ASSUME FlagsInv, NEW t \in Commanders, \A a, b \in Commanders : a = b
  PROVE  /\ config.flush => config.cache
         /\ cache_enabled = config.cache
         /\ thread[t].step # "apply" => flush_enabled = config.flush
         /\ thread[t].step = "apply" => thread[t].flag = config.flush
         /\ thread[t].step \in Manual => flush_enabled
         /\ thread[t].step \in Manual \ {"old"} => thread[t].flag
  <1>1. thread[t].step # "apply" => \A a \in Commanders : thread[a].step # "apply" BY Zenon
  <1> QED BY <1>1 DEF FlagsInv

\* The sections of a command and of a manual flush.
LEMMA CommandFlags ==
  ASSUME Types, FlagsInv, NEW t \in Commanders, \A a, b \in Commanders : a = b,
         CommandQuiet(t) \/ FlushLoad(t) \/ FlushSend(t) \/ FlushSettle(t)
  PROVE  FlagsInv'
  <1>1. t \in Flushers /\ t # "poll" BY CommandersAssumption DEF Flushers
  <1>2. thread[t] \in Flusher /\ thread \in [Flushers -> Flusher] BY <1>1 DEF Types
  <1>3. /\ config \in [cache : BOOLEAN, flush : BOOLEAN] /\ cache_enabled \in BOOLEAN
        /\ flush_enabled \in BOOLEAN
    BY DEF Types
  <1>4. /\ config.flush => config.cache
        /\ cache_enabled = config.cache
        /\ thread[t].step # "apply" => flush_enabled = config.flush
        /\ thread[t].step = "apply" => thread[t].flag = config.flush
        /\ thread[t].step \in Manual => flush_enabled
        /\ thread[t].step \in Manual \ {"old"} => thread[t].flag
    BY FlagsOf
  <1> DEFINE w == thread'[t]
  <1>5. CASE HandleFlush(t)
    <2>1. w.step = "old" /\ UNCHANGED flagVars /\ flush_enabled /\ thread[t].step = "idle"
      BY <1>1, <1>2, <1>5 DEF HandleFlush, Goto, Flusher
    <2> QED BY <1>4, <2>1, FlagsMove DEF flagVars, Manual, Flush
  <1>6. CASE ReadOldFlag(t)
    <2>1. /\ w.step = "force" /\ w.flag = flush_enabled /\ UNCHANGED flagVars
          /\ thread[t].step = "old"
      BY <1>1, <1>2, <1>6 DEF ReadOldFlag, Flusher
    <2>2. flush_enabled BY <1>4, <2>1 DEF Manual
    <2> QED BY <1>4, <2>1, <2>2, FlagsMove DEF flagVars, Manual, Flush
  <1>7. CASE ForceFlag(t)
    <2>1. /\ w.step = "check" /\ w.flag = thread[t].flag /\ UNCHANGED <<cache_enabled, config>>
          /\ flush_enabled' = TRUE /\ thread[t].step = "force"
      BY <1>1, <1>2, <1>7 DEF ForceFlag, Goto, Flusher
    <2>2. flush_enabled /\ thread[t].flag BY <1>4, <2>1 DEF Manual
    <2>3. config.flush BY <1>4, <2>1, <2>2
    <2> QED BY <1>3, <1>4, <2>1, <2>2, <2>3, FlagsMove DEF Manual, Flush
  <1>8. CASE FlushCheck(t)
    <2>1. /\ w.step \in {"load", "restore"} /\ w.flag = thread[t].flag /\ UNCHANGED flagVars
          /\ thread[t].step = "check"
      BY <1>1, <1>2, <1>8 DEF FlushCheck, Goto, Flusher
    <2>2. flush_enabled /\ thread[t].flag BY <1>4, <2>1 DEF Manual
    <2> QED BY <1>4, <2>1, <2>2, FlagsMove DEF flagVars, Manual, Flush
  <1>9. CASE FlushLoad(t) \/ FlushSend(t) \/ FlushSettle(t)
    <2>1. /\ thread[t].step \in Manual \ {"old"} /\ thread[t].step # "apply"
          /\ UNCHANGED flagVars
      BY <1>9 DEF FlushLoad, FlushSend, FlushSettle, Manual, Flush
    <2>2. w.step \in Manual \ {"old"} /\ w.flag = thread[t].flag /\ w.step # "apply"
      <3>1. AfterFlush(t) = "restore" BY <1>1 DEF AfterFlush
      <3>2. CASE FlushLoad(t)
        <4>1. w.step \in {"send", "restore"} /\ w.flag = thread[t].flag
          BY <1>1, <1>2, <3>1, <3>2 DEF FlushLoad, Flusher
        <4> QED BY <4>1 DEF Manual, Flush
      <3>3. CASE FlushSend(t)
        <4>1. w.step = "settle" /\ w.flag = thread[t].flag
          BY <1>1, <1>2, <3>3 DEF FlushSend, Flusher
        <4> QED BY <4>1 DEF Manual, Flush
      <3>4. CASE FlushSettle(t)
        <4>1. w.step \in {"send", "restore"} /\ w.flag = thread[t].flag
          BY <1>1, <1>2, <3>1, <3>4 DEF FlushSettle, Flusher
        <4> QED BY <4>1 DEF Manual, Flush
      <3> QED BY <1>9, <3>2, <3>3, <3>4
    <2>3. flush_enabled /\ thread[t].flag BY <1>4, <2>1
    <2> QED BY <1>4, <2>1, <2>2, <2>3, FlagsMove DEF flagVars
  <1>10. CASE RestoreFlag(t)
    <2>1. /\ w = Idle /\ UNCHANGED <<cache_enabled, config>> /\ flush_enabled' = thread[t].flag
          /\ thread[t].step = "restore"
      BY <1>1, <1>2, <1>10 DEF RestoreFlag
    <2>2. flush_enabled /\ thread[t].flag /\ flush_enabled = config.flush
      BY <1>4, <2>1 DEF Manual
    <2>3. flush_enabled' = config'.flush
      <3>1. thread[t].flag \in BOOLEAN BY <1>2 DEF Flusher
      <3> QED BY <1>3, <2>1, <2>2, <3>1
    <2> QED BY <1>4, <2>1, <2>3, IdleType, FlagsMove DEF Manual, Flush
  <1>11. CASE ApplyFlushFlag(t)
    <2>1. /\ w = Idle /\ UNCHANGED <<cache_enabled, config>> /\ flush_enabled' = thread[t].flag
          /\ thread[t].step = "apply"
      BY <1>1, <1>2, <1>11 DEF ApplyFlushFlag
    <2>2. flush_enabled' = config'.flush BY <1>4, <2>1
    <2> QED BY <1>4, <2>1, <2>2, IdleType, FlagsMove DEF Manual, Flush
  <1>12. CASE HandleSet(t)
    <2>1. PICK c, f, saved \in BOOLEAN :
            /\ config' = IF saved THEN [cache |-> c, flush |-> c /\ f] ELSE config
            /\ IF saved THEN /\ cache_enabled' = c
                             /\ thread' = [thread EXCEPT ![t].step = "apply", ![t].flag = c /\ f]
               ELSE UNCHANGED <<cache_enabled, thread>>
      BY <1>12 DEF HandleSet
    <2>2. flush_enabled' = flush_enabled /\ thread[t].step = "idle" BY <1>12 DEF HandleSet
    <2>3. CASE saved
      <3>1. config' = [cache |-> c, flush |-> c /\ f] /\ cache_enabled' = c BY <2>1, <2>3
      <3>2. config'.cache = c /\ config'.flush = (c /\ f) BY <3>1
      <3>3. thread' = [thread EXCEPT ![t].step = "apply", ![t].flag = c /\ f] BY <2>1, <2>3
      <3>4. w.step = "apply" /\ w.flag = (c /\ f) BY <1>1, <1>2, <3>3 DEF Flusher
      <3>5. config'.flush => config'.cache BY <3>2
      <3>6. w.flag = config'.flush /\ cache_enabled' = config'.cache BY <3>1, <3>2, <3>4
      <3> HIDE DEF w
      <3>7. w.step \notin Manual BY <3>4 DEF Manual, Flush
      <3> QED BY <3>4, <3>5, <3>6, <3>7, FlagsMove DEF w
    <2>4. CASE ~saved
      <3>1. UNCHANGED <<thread, flagVars>> BY <2>1, <2>2, <2>4 DEF flagVars
      <3> QED BY <3>1, FlagsFrame
    <2> QED BY <2>3, <2>4
  <1>13. CASE HandleGet(t)
    <2>1. /\ w.step = "apply" /\ w.flag = config.flush /\ UNCHANGED config
          /\ cache_enabled' = config.cache
      BY <1>1, <1>2, <1>13 DEF HandleGet, Flusher
    <2>2. w.step \notin Manual BY <2>1 DEF Manual, Flush
    <2> QED BY <1>4, <2>1, <2>2, FlagsMove
  <1> QED
    BY <1>5, <1>6, <1>7, <1>8, <1>9, <1>10, <1>11, <1>12, <1>13 DEF CommandQuiet

\* Between commands the flags in force are the saved ones, if one thread executes the
\* commands.  With two the restore of a manual flush can undo a configuration.
THEOREM FlagsAreSaved ==
  ASSUME \A a, b \in Commanders : a = b
  PROVE  Spec => []FlagsFollowConfig
  <1>1. Init => FlagsInv
    <2> SUFFICES ASSUME Init PROVE FlagsInv OBVIOUS
    <2>1. \A t \in Commanders : thread[t] = Idle BY DEF Init, Flushers
    <2>2. \A t \in Commanders : thread[t].step \notin Manual \cup {"apply"}
      BY <2>1, IdleType DEF Manual, Flush
    <2>3. config.cache BY DEF Init
    <2> QED BY <2>2, <2>3 DEF Init, FlagsInv
  <1>2. IInv /\ FlagsInv /\ [Next]_vars => FlagsInv'
    <2> SUFFICES ASSUME IInv, FlagsInv, [Next]_vars PROVE FlagsInv' OBVIOUS
    <2>1. Types BY DEF IInv
    <2>2. CASE UNCHANGED vars BY <2>2, FlagsFrame DEF vars
    <2>3. ASSUME NEW p \in Publishers, PublishDirect(p) \/ PublishCache(p) PROVE FlagsInv'
      BY <2>3, FlagsFrame DEF PublishDirect, PublishCache
    <2>4. CASE Connect \/ PollStep \/ PollFlush
      <3>1. UNCHANGED flagVars
        BY <2>4 DEF Connect, PollStep, PollFlush, PollPop, PollSkip, FlushLoad, FlushSend,
                    FlushSettle
      <3>2. \E w : thread' = [thread EXCEPT !["poll"] = w]
        <4>1. thread \in [Flushers -> Flusher] /\ "poll" \in Flushers BY <2>1 DEF Types, Flushers
        <4> QED
          BY <2>4, <4>1 DEF Connect, PollStep, PollFlush, PollPop, PollSkip, FlushLoad, FlushSend,
                            FlushSettle, Goto
      <3>3. \A t \in Commanders : thread'[t] = thread[t]
        BY <2>1, <3>2, CommandersAssumption DEF Types, Flushers
      <3> QED BY <3>1, <3>3, FlagsFrame
    <2>5. ASSUME NEW t \in Commanders, HandleClear(t) PROVE FlagsInv'
      BY <2>5, FlagsFrame DEF HandleClear
    <2>6. ASSUME NEW t \in Commanders,
                 CommandQuiet(t) \/ FlushLoad(t) \/ FlushSend(t) \/ FlushSettle(t)
          PROVE  FlagsInv'
      BY <2>1, <2>6, CommandFlags
    <2>7. CASE NetUp \/ NetDown BY <2>7, FlagsFrame DEF NetUp, NetDown
    <2>8. CASE Crash
      <3>1. \A t \in Commanders : thread'[t] = Idle BY <2>8 DEF Crash, Flushers
      <3>2. \A t \in Commanders : thread'[t].step \notin Manual \cup {"apply"}
        BY <3>1, IdleType DEF Manual, Flush
      <3>3. UNCHANGED config /\ cache_enabled' = config.cache /\ flush_enabled' = config.flush
        BY <2>8 DEF Crash
      <3> QED BY <3>2, <3>3 DEF FlagsInv
    <2> QED
      BY <2>2, <2>3, <2>4, <2>5, <2>6, <2>7, <2>8 DEF Next, CommandStep, CommandQuiet
  <1>3. IInv /\ FlagsInv => FlagsFollowConfig
    <2> SUFFICES ASSUME IInv, FlagsInv, \A t \in Commanders : thread[t].step = "idle"
                 PROVE  /\ [cache |-> cache_enabled, flush |-> flush_enabled] = config
                        /\ config.flush => config.cache
      BY DEF FlagsFollowConfig
    <2>1. config \in [cache : BOOLEAN, flush : BOOLEAN] BY DEF IInv, Types
    <2>2. config = [cache |-> config.cache, flush |-> config.flush] BY <2>1
    <2>3. cache_enabled = config.cache /\ flush_enabled = config.flush BY DEF FlagsInv
    <2> QED BY <2>2, <2>3 DEF FlagsInv
  <1> QED BY <1>1, <1>2, <1>3, Inductive, PTL DEF Spec
=============================================================================
