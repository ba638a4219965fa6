------------------------------ MODULE EventLog ------------------------------
(***************************************************************************)
(* The gateway's partitioned in-memory log and its live subscriptions      *)
(* (services/gateway/internal/eventlog).  Producers append under the log's *)
(* mutex; every subscriber owns a buffered channel that it drains without  *)
(* the mutex.  A subscriber whose channel is full when an event arrives is *)
(* evicted: its channel is closed and its entry deleted.                   *)
(*                                                                         *)
(* A subscriber is a receive loop such as the SSE handler or the webhook   *)
(* dispatcher: it reads until its context ends or its channel is closed,   *)
(* and runs the subscription's cancel function when it returns.  Between   *)
(* two receives it is busy with the event: the SSE handler writes it and   *)
(* flushes to its client, which may stall for as long as it likes.         *)
(***************************************************************************)
EXTENDS Naturals, Sequences, FiniteSets

CONSTANTS
    Key,            \* record keys
    Payload,        \* what a record carries (type and JSON payload)
    NumPartitions,  \* the argument of New
    KeyHash,        \* KeyHash[k]: the FNV-1a hash of key k
    BufSizes,       \* buffer sizes passed to Subscribe
    MaxSubs,        \* bound: number of Subscribe calls
    MaxEvents       \* bound: number of Append calls

ASSUME ConstantsOK ==
    /\ NumPartitions \in Nat
    /\ KeyHash \in [Key -> Nat]
    /\ BufSizes \subseteq Nat
    /\ MaxSubs \in Nat
    /\ MaxEvents \in Nat

VARIABLES
    parts,      \* parts[p]: the events of partition p
    subs,       \* ids with an entry in the subscription map
    nextSub,    \* next subscription id
    queue,      \* queue[id]: buffered, unread events of the channel of id
    cap,        \* cap[id]: capacity of that channel
    closed,     \* closed[id]: the channel has been closed
    loop,       \* loop[id]: the subscriber's receive loop: at its select, busy
                \* with an event, or over
    history,    \* ghost: all events, in the order they were appended
    start,      \* ghost: Len(history) when id subscribed
    rcvd        \* ghost: the events id has received

logVars == <<parts, history>>
subVars == <<subs, nextSub, cap, closed, start>>
recvVars == <<loop, rcvd>>
vars == <<parts, subs, nextSub, queue, cap, closed, loop, history, start, rcvd>>

AtLeastOne(n) == IF n < 1 THEN 1 ELSE n
Partition == 0 .. (AtLeastOne(NumPartitions) - 1)
SubId == 0 .. (MaxSubs - 1)
Event == [part: Partition, offset: Nat, key: Key, payload: Payload]

\* Mutant: records spread over the partitions whatever their key.
PartitionInTurn(k) == Len(history) % AtLeastOne(NumPartitions)

\* The partition that owns a key.
PartitionOf(k) == KeyHash[k] % AtLeastOne(NumPartitions)

Init ==
    /\ parts = [p \in Partition |-> <<>>]
    /\ subs = {}
    /\ nextSub = 0
    /\ queue = [id \in SubId |-> <<>>]
    /\ cap = [id \in SubId |-> 0]
    /\ closed = [id \in SubId |-> FALSE]
    /\ loop = [id \in SubId |-> "none"]
    /\ history = <<>>
    /\ start = [id \in SubId |-> 0]
    /\ rcvd = [id \in SubId |-> <<>>]

-----------------------------------------------------------------------------
\* Mutant: a channel counts as full while it still has one free slot.
FullOneEarly(id) == Len(queue[id]) + 1 >= cap[id]

\* A non-blocking send on the channel of id would block.
Full(id) == Len(queue[id]) >= cap[id]
Evicted == {id \in subs : Full(id)}

\* The record that appending payload x under key k creates.
NewEvent(k, x) ==
    [part |-> PartitionOf(k), offset |-> Len(parts[PartitionOf(k)]),
     key |-> k, payload |-> x]

\* Mutants: an evicted subscriber stays in the map; a full channel loses the
\* event and nothing else.
EvictKeepsEntry == closed' = [id \in SubId |-> closed[id] \/ Full(id)] /\ UNCHANGED subs
EvictNobody == UNCHANGED <<closed, subs>>

\* A channel that cannot take an event is closed and forgotten.
Evict ==
    /\ closed' = [id \in SubId |-> closed[id] \/ id \in Evicted]
    /\ subs' = subs \ Evicted

\* Append: store the event, then offer it to every registered channel without
\* blocking.  (A payload that does not marshal returns an error before anything
\* changes.)
AppendEvent(k, x) ==
    /\ Len(history) < MaxEvents
    /\ parts' = [parts EXCEPT ![PartitionOf(k)] = Append(@, NewEvent(k, x))]
    /\ history' = Append(history, NewEvent(k, x))
    /\ queue' = [id \in SubId |-> IF id \in subs \ Evicted
                                  THEN Append(queue[id], NewEvent(k, x))
                                  ELSE queue[id]]
    /\ Evict
    /\ UNCHANGED <<nextSub, cap, start, recvVars>>

\* Subscribe: a fresh id with an empty channel of capacity max(buf, 1).  The
\* SSE handler writes a greeting before its loop, so it begins busy.
Subscribe(buf, at) ==
    /\ nextSub < MaxSubs
    /\ nextSub' = nextSub + 1
    /\ subs' = subs \cup {nextSub}
    /\ cap' = [cap EXCEPT ![nextSub] = AtLeastOne(buf)]
    /\ loop' = [loop EXCEPT ![nextSub] = at]
    /\ start' = [start EXCEPT ![nextSub] = Len(history)]
    /\ UNCHANGED <<logVars, queue, closed, rcvd>>

\* The cancel function: close and delete, unless the entry is already gone.
cancel(id) ==
    /\ closed' = [closed EXCEPT ![id] = @ \/ id \in subs]
    /\ subs' = subs \ {id}

\* One receive of a buffered event; a closed channel is still drained.  The
\* loop is busy with the event until Handled.
Receive(id) ==
    /\ loop[id] = "reading"
    /\ queue[id] # <<>>
    /\ rcvd' = [rcvd EXCEPT ![id] = Append(@, Head(queue[id]))]
    /\ queue' = [queue EXCEPT ![id] = Tail(@)]
    /\ loop' = [loop EXCEPT ![id] = "busy"]
    /\ UNCHANGED <<logVars, subVars>>

\* The write and the flush to the client have returned (an error is ignored),
\* or Deliver has.
Handled(id) ==
    /\ loop[id] = "busy"
    /\ loop' = [loop EXCEPT ![id] = "reading"]
    /\ UNCHANGED <<logVars, subVars, queue, rcvd>>

\* The loop's context ends: it returns and its deferred cancel runs.
Leave(id) ==
    /\ loop[id] = "reading"
    /\ loop' = [loop EXCEPT ![id] = "left"]
    /\ cancel(id)
    /\ UNCHANGED <<logVars, nextSub, queue, cap, start, rcvd>>

\* The loop receives "not open" from a closed, drained channel and returns.
SeeClosed(id) ==
    /\ loop[id] = "reading"
    /\ queue[id] = <<>>
    /\ closed[id]
    /\ loop' = [loop EXCEPT ![id] = "evicted"]
    /\ cancel(id)
    /\ UNCHANGED <<logVars, nextSub, queue, cap, start, rcvd>>

Next ==
    \/ \E k \in Key, x \in Payload : AppendEvent(k, x)
    \/ \E buf \in BufSizes, at \in {"reading", "busy"} : Subscribe(buf, at)
    \/ \E id \in SubId : Receive(id) \/ Handled(id) \/ Leave(id) \/ SeeClosed(id)

Spec == Init /\ [][Next]_vars

\* Go schedules every receive loop that is at its select.  Nothing is assumed of
\* Handled: the server sets no write timeout, so a client that stops reading can
\* keep a handler in its flush for ever.
Fairness == \A id \in SubId : WF_vars(Receive(id)) /\ WF_vars(SeeClosed(id))

FairSpec == Spec /\ Fairness

-----------------------------------------------------------------------------
TypeOK ==
    /\ parts \in [Partition -> Seq(Event)]
    /\ subs \subseteq SubId
    /\ nextSub \in 0 .. MaxSubs
    /\ queue \in [SubId -> Seq(Event)]
    /\ cap \in [SubId -> Nat]
    /\ closed \in [SubId -> BOOLEAN]
    /\ loop \in [SubId -> {"none", "reading", "busy", "left", "evicted"}]
    /\ history \in Seq(Event)
    /\ start \in [SubId -> Nat]
    /\ rcvd \in [SubId -> Seq(Event)]

\* The subscription map holds exactly the channels that are still open.  So
\* neither Append nor cancel ever sends on or closes a closed channel (either
\* would panic while the log's mutex is held), and no loop waits for ever on an
\* open channel that nobody feeds.
MapHoldsOpenChannels == subs = {id \in SubId : id < nextSub /\ ~closed[id]}

\* What a subscriber has received, followed by what its channel still holds, is
\* a gap-free run of the log that begins where it subscribed.
GapFreeRun(id) ==
    /\ start[id] + Len(rcvd[id]) + Len(queue[id]) <= Len(history)
    /\ \A i \in 1 .. Len(rcvd[id]) : rcvd[id][i] = history[start[id] + i]
    /\ \A i \in 1 .. Len(queue[id]) :
          queue[id][i] = history[start[id] + Len(rcvd[id]) + i]

GapFree == \A id \in SubId : GapFreeRun(id)

\* A registered subscriber has missed nothing: its run reaches the log's end.
LiveSeesAll ==
    \A id \in subs : start[id] + Len(rcvd[id]) + Len(queue[id]) = Len(history)

\* Partition and offset identify an event: offsets are dense in a partition,
\* and the log as a whole repeats no (partition, offset) pair.  The pair is the
\* event id of the SSE stream.
OffsetsIdentify ==
    /\ \A p \in Partition : \A i \in 1 .. Len(parts[p]) :
          parts[p][i].part = p /\ parts[p][i].offset = i - 1
    /\ \A i, j \in 1 .. Len(history) :
          i < j /\ history[i].part = history[j].part
             => history[i].offset < history[j].offset

\* Per-key ordering: events with the same key share a partition, and append
\* order is their offset order.
KeyOrder ==
    \A i, j \in 1 .. Len(history) :
        i < j /\ history[i].key = history[j].key
           => /\ history[i].part = history[j].part
              /\ history[i].offset < history[j].offset

\* Subscribe's comment: a channel is closed on its subscriber only when the
\* subscriber is more than its buffer behind the log.
EvictOnlyBehind ==
    [][\A id \in subs \ subs' :
          \/ loop'[id] = "left"
          \/ Len(history') - (start[id] + Len(rcvd[id])) > cap[id]]_vars

\* The writes of subscriber id return, each in its own time: the loop is not
\* stuck for ever in one of them.
Returns(id) == []<>(loop[id] # "busy")

\* Every event appended while a subscriber is registered is received by it,
\* unless its loop ends first; an evicted loop does end.  This is promised to a
\* subscriber whose own writes return, however the other ones' clients stall; a
\* handler stuck in a flush to its client neither receives what is buffered nor
\* sees that it was evicted.
EventuallyServed ==
    \A id \in SubId : Returns(id) => \A i \in 1 .. MaxEvents :
        (id \in subs /\ start[id] < i /\ i <= Len(history))
            ~> (Len(rcvd[id]) >= i - start[id] \/ loop[id] \in {"left", "evicted"})

=============================================================================
