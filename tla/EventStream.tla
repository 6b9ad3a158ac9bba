----------------------------- MODULE EventStream -----------------------------
(***************************************************************************)
(* The live feed on its way to one browser: the in-memory broker            *)
(* (packages/events/broker.py), the stream that serves it                   *)
(* (apps/api/app/routers/events.py) and the browser's EventSource           *)
(* (apps/web/src/hooks/useLiveMatches.ts), which asks to resume after the   *)
(* last event id it was given, if it was given one.                         *)
(*                                                                         *)
(* The watcher of the database publishes on the event loop; a request that  *)
(* deletes a listing publishes from a thread of its own, so that its steps  *)
(* interleave with everything the loop does.  Events are numbered over the  *)
(* life of the system; a broker numbers those it publishes from 1.          *)
(***************************************************************************)
EXTENDS Integers, Sequences, FiniteSets

CONSTANTS
  Publisher,    \* "loop", and "thread" where listings are deleted
  HistorySize,  \* events the broker remembers
  QueueSize,    \* events that may wait for one subscriber
  MaxEvents,    \* bound: events ever published
  MaxDrops,     \* bound: times the connection drops
  MaxRestarts   \* bound: times the api process restarts

ASSUME StreamAssumption ==
  /\ "loop" \in Publisher
  /\ HistorySize \in Nat \ {0} /\ QueueSize \in Nat \ {0}
  /\ MaxEvents \in Nat /\ MaxDrops \in Nat /\ MaxRestarts \in Nat

Number == 1..MaxEvents
Close == 0      \* the None that ends a stream
Resync == -1    \* the `resync` event, which has no id
NoId == -1

VARIABLES
  \* the broker
  serial,     \* events published so far, by this process and those before it
  base,       \* events published before this process
  history,    \* the last events, oldest first
  pub,        \* how far each publisher is with which event
  \* the subscription of the browser
  stream,     \* none, reading (the history is read), or open
  registered, \* the broker knows the subscriber
  backlog, queue,
  \* the browser
  lastId,     \* what it sends as Last-Event-ID, NoId before its first event
  \* history and bounds
  watching,   \* the browser has been connected once
  missing,    \* events published since, that it neither got nor was told to reload
  doubt,      \* events that met one of the known ways of getting lost
  stale,      \* lastId was given by a broker that is gone
  drops, restarts

broker == <<serial, base, history, pub>>
subscription == <<stream, registered, backlog, queue>>
bounds == <<drops, restarts>>
vars == <<serial, base, history, pub, stream, registered, backlog, queue, lastId,
          watching, missing, doubt, stale, drops, restarts>>

Idle == [at |-> "idle", n |-> 0]
Id(n) == n - base
LoopFree == pub["loop"] = Idle

\* deque(maxlen=history_size): the oldest goes when there is one too many.
Bounded_Not(s) == s
Bounded(s) == IF Len(s) > HistorySize THEN Tail(s) ELSE s

Init ==
  /\ serial = 0 /\ base = 0 /\ history = <<>> /\ pub = [p \in Publisher |-> Idle]
  /\ stream = "none" /\ registered = FALSE /\ backlog = <<>> /\ queue = <<>>
  /\ lastId = NoId
  /\ watching = FALSE /\ missing = {} /\ doubt = {} /\ stale = FALSE
  /\ drops = 0 /\ restarts = 0

-----------------------------------------------------------------------------
(* publish, in the three steps a thread can be interrupted between. *)

\* Nobody would send the event again to a browser that is away and either has no
\* id or has one of another broker.
OutOfReach == stream = "none" /\ (lastId = NoId \/ stale)

Create(p) ==
  LET n == serial + 1 IN
  /\ serial < MaxEvents
  /\ pub[p] = Idle
  /\ p = "loop" => stream # "reading"
  /\ serial' = n
  /\ pub' = [pub EXCEPT ![p] = [at |-> "created", n |-> n]]
  /\ missing' = missing \cup {k \in {n} : watching}
  /\ doubt' = doubt \cup {k \in {n} : watching /\ OutOfReach}
  /\ UNCHANGED <<base, history, subscription, lastId, watching, stale, bounds>>

\* Events of the two publishers can be remembered out of order, and then the first
\* of the history is not the oldest.
Remember(p) ==
  LET n == pub[p].n IN
  /\ pub[p].at = "created"
  /\ history' = Bounded(Append(history, n))
  /\ pub' = [pub EXCEPT ![p].at = "appended"]
  /\ doubt' = doubt \cup {k \in n..serial : \E i \in DOMAIN history : history[i] > n}
                    \cup {k \in {n} : stream = "reading"}
  /\ UNCHANGED <<serial, base, subscription, lastId, watching, missing, stale, bounds>>

\* put_nowait to the subscriber, if there is one, or its eviction: what has waited
\* longest makes room for the sentinel.
Evicted_Silently == queue
Evicted == Append(Tail(queue), Close)
Full == registered /\ Len(queue) = QueueSize
Overtaken(n) ==
  stream = "reading" \/ lastId >= Id(n) \/ \E i \in DOMAIN queue : queue[i] > n
FanOut(p) ==
  LET n == pub[p].n IN
  /\ pub[p].at = "appended"
  /\ pub' = [pub EXCEPT ![p] = Idle]
  /\ \/ ~registered /\ UNCHANGED <<registered, queue>>
     \/ registered /\ ~Full /\ queue' = Append(queue, n) /\ UNCHANGED registered
     \/ Full /\ queue' = Evicted /\ registered' = FALSE
  /\ doubt' = doubt \cup {k \in {n} : Overtaken(n)} \cup (IF Full THEN {Head(queue)} ELSE {})
  /\ UNCHANGED <<serial, base, history, stream, backlog, lastId, watching, missing, stale, bounds>>

-----------------------------------------------------------------------------
(* The stream *)

Missed_FromLast(last) == SelectSeq(history, LAMBDA n : Id(n) > last + 1)
Missed(last) == SelectSeq(history, LAMBDA n : Id(n) > last)
Gap_Never(last) == FALSE
Gap(last) == Id(Head(history)) > last + 1

\* subscribe, up to the registration: what to replay, or that it cannot be replayed.
SubscribeRead ==
  /\ stream = "none" /\ LoopFree
  /\ stream' = "reading"
  /\ backlog' = IF lastId = NoId \/ history = <<>> THEN <<>>
                ELSE IF Gap(lastId) THEN <<Resync>> ELSE Missed(lastId)
  /\ UNCHANGED <<broker, registered, queue, lastId, watching, missing, doubt, stale, bounds>>

SubscribeAdd ==
  /\ stream = "reading"
  /\ stream' = "open" /\ registered' = TRUE /\ queue' = <<>>
  /\ watching' = TRUE
  /\ UNCHANGED <<broker, backlog, lastId, missing, doubt, stale, bounds>>

\* One element of the backlog, or else of the queue, reaches the browser.
Front == IF backlog # <<>> THEN Head(backlog) ELSE Head(queue)
Deliver ==
  /\ stream = "open" /\ LoopFree
  /\ backlog # <<>> \/ queue # <<>>
  /\ Front # Close
  /\ IF backlog # <<>> THEN backlog' = Tail(backlog) /\ UNCHANGED queue
                       ELSE queue' = Tail(queue) /\ UNCHANGED backlog
  /\ IF Front = Resync
     THEN missing' = {} /\ UNCHANGED <<lastId, stale>>
     ELSE missing' = missing \ {Front} /\ lastId' = Id(Front) /\ stale' = FALSE
  /\ UNCHANGED <<broker, stream, registered, watching, doubt, bounds>>

\* The stream is gone; the browser connects again by itself.
Gone ==
  /\ stream' = "none" /\ registered' = FALSE /\ backlog' = <<>> /\ queue' = <<>>
  /\ doubt' = doubt \cup {n \in missing : lastId = NoId \/ stale}
  /\ UNCHANGED <<lastId, watching, missing>>

End ==
  /\ stream = "open" /\ LoopFree
  /\ backlog = <<>> /\ queue # <<>> /\ Head(queue) = Close
  /\ Gone
  /\ UNCHANGED <<broker, stale, bounds>>

Drop ==
  /\ stream # "none"
  /\ drops < MaxDrops /\ drops' = drops + 1
  /\ Gone
  /\ UNCHANGED <<broker, stale, restarts>>

-----------------------------------------------------------------------------
\* The api process restarts with an empty broker.
Restart ==
  /\ restarts < MaxRestarts /\ restarts' = restarts + 1
  /\ base' = serial /\ history' = <<>> /\ pub' = [p \in Publisher |-> Idle]
  /\ stream' = "none" /\ registered' = FALSE /\ backlog' = <<>> /\ queue' = <<>>
  /\ doubt' = doubt \cup missing
  /\ stale' = (lastId # NoId)
  /\ UNCHANGED <<serial, lastId, watching, missing, drops>>

Next ==
  \/ \E p \in Publisher : Create(p) \/ Remember(p) \/ FanOut(p)
  \/ SubscribeRead \/ SubscribeAdd \/ Deliver \/ End \/ Drop \/ Restart

Spec == Init /\ [][Next]_vars

\* The loop and the threads run, and the browser reconnects by itself.  Nothing has to
\* be published, and the connection does not have to last.
Fairness ==
  /\ \A p \in Publisher : WF_vars(Remember(p) \/ FanOut(p))
  /\ WF_vars(SubscribeRead) /\ WF_vars(SubscribeAdd) /\ WF_vars(Deliver) /\ WF_vars(End)
FairSpec == Spec /\ Fairness

-----------------------------------------------------------------------------
(* Properties *)

\* Every variable keeps its type, and no queue outgrows its bound.
TypeOK ==
  /\ serial \in 0..MaxEvents /\ base \in 0..serial
  /\ history \in Seq(Number) /\ Len(history) <= HistorySize
  /\ pub \in [Publisher -> [at : {"idle", "created", "appended"}, n : 0..MaxEvents]]
  /\ stream \in {"none", "reading", "open"} /\ registered \in BOOLEAN
  /\ backlog \in Seq(Number \cup {Resync}) /\ Len(backlog) <= HistorySize
  /\ queue \in Seq(Number \cup {Close}) /\ Len(queue) <= QueueSize
  /\ lastId \in Number \cup {NoId}
  /\ watching \in BOOLEAN /\ stale \in BOOLEAN
  /\ missing \subseteq Number /\ doubt \subseteq Number
  /\ drops \in 0..MaxDrops /\ restarts \in 0..MaxRestarts

\* A browser that was cut off gets every event of the time it was away, or is told to
\* load the list again: nothing is skipped but what was evicted from a full queue,
\* published out of order by a thread, or published around a restart or before the
\* first event id.
NothingIsSkipped ==
  \A n \in Number : (n \in missing) ~> (n \notin missing \/ n \in doubt)

\* A browser never listens to a broker that has forgotten it: the stream of a
\* subscriber that was evicted always has its end in the queue.
DroppedMeansEnding ==
  stream = "open" /\ ~registered => \E i \in DOMAIN queue : queue[i] = Close
=============================================================================
