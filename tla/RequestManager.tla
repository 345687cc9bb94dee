--------------------------- MODULE RequestManager ---------------------------
(***************************************************************************)
(* The request manager of the stream protocols                             *)
(* (p2p/stream/common/requestmanager): it hands every request to one idle  *)
(* stream and matches the responses.  All bookkeeping is done by one loop  *)
(* goroutine; beside it run the goroutine that watches the context of each *)
(* request, the goroutine that writes each request to its stream, the      *)
(* streams that deliver responses and the stream manager.                  *)
(*                                                                         *)
(* A stream ID is the ID of the remote peer.  A peer that reconnects gets  *)
(* a new stream object with the old ID, so objects are numbered: object n  *)
(* of an ID is its n-th stream.  A request ID is drawn anew from 64 bits   *)
(* for each pending request and stands for the request.  A channel whose   *)
(* order no case of the loop depends on is the set of what was sent on it. *)
(***************************************************************************)
EXTENDS Naturals, Sequences, SequencesExt

CONSTANTS
    Requests,
    StreamIDs,
    None,           \* the nil pointer
    HighPriority,   \* requests made with WithHighPriority
    Allowed,        \* Allowed[r]: stream IDs isStreamAllowed accepts
    Supported,      \* Supported[r]: stream IDs whose protocol supports the request
    MaxWaiting,     \* maxWaitingSize
    ThrottleBatch,  \* throttleBatch
    MaxObjects      \* bound: stream objects per stream ID

ASSUME RequestsAssumption ==
    /\ HighPriority \subseteq Requests
    /\ Allowed \in [Requests -> SUBSET StreamIDs]
    /\ Supported \in [Requests -> SUBSET StreamIDs]

\* Stream objects; object 0 of an ID stands for no object.
Objects == [id : StreamIDs, n : Nat]

ASSUME NilAssumption == None \notin Requests /\ None \notin Objects

ASSUME LimitsAssumption ==
    MaxWaiting \in Nat \ {0} /\ ThrottleBatch \in Nat /\ MaxObjects \in Nat

VARIABLES
    result,     \* "idle" before DoRequest, "none" until doneWithResponse
    submitted,  \* newRequestC
    canceled,   \* cancelReqC
    replies,    \* responses on their way through the stream and deliveryC
    watching,   \* requests whose context watcher still runs
    writing,    \* requests whose WriteBytes has not returned
    high, low,  \* rm.waitings
    pendings,   \* rm.pendings
    owner,      \* req.owner, a stream object
    streams,    \* rm.streams: the object kept for an ID, 0 for none
    cur,        \* stream.req of the object kept for an ID
    available,  \* rm.available
    objects,    \* how many stream objects an ID has had
    live,       \* IDs in the stream manager's set
    event,      \* the stream manager is sending an event to this loop
    loop,       \* where the loop is: select, batch, refresh, closed
    left,       \* iterations left in a throttle batch
    throttleC   \* throttleC holds an element

queues == <<high, low>>
env == <<objects, live, event>>
table == <<pendings, owner, streams, cur, available>>
control == <<loop, left, throttleC>>
goroutines == <<submitted, canceled, replies, watching, writing>>
vars == <<result, goroutines, queues, table, env, control>>

\* The object rm.streams keeps for an ID.
Object(id) == [id |-> id, n |-> streams[id]]

Init ==
    /\ result = [r \in Requests |-> "idle"]
    /\ submitted = {} /\ canceled = {} /\ replies = {} /\ watching = {} /\ writing = {}
    /\ high = <<>> /\ low = <<>>
    /\ pendings = {} /\ owner = [r \in Requests |-> None]
    /\ streams = [id \in StreamIDs |-> 0]
    /\ cur = [id \in StreamIDs |-> None]
    /\ available = {}
    /\ objects = [id \in StreamIDs |-> 0] /\ live = {} /\ event = FALSE
    /\ loop = "select" /\ left = 0 /\ throttleC = FALSE

\* The compare-and-swap on atmDone: only the first result counts.
doneWithResponse(rs, res) ==
    [r \in Requests |-> IF r \in rs /\ result[r] = "none" THEN res ELSE result[r]]

isDone(r) == result[r] # "none"

-----------------------------------------------------------------------------
(* Callers, watchers, writers and streams.                                 *)

DoRequest(r) ==
    /\ result[r] = "idle"
    /\ result' = [result EXCEPT ![r] = "none"]
    /\ submitted' = submitted \cup {r}
    /\ watching' = watching \cup {r}
    /\ UNCHANGED <<canceled, replies, writing, queues, table, env, control>>

\* The watcher of a request: its context ends, or the request is done.
ContextDone(r) ==
    /\ r \in watching
    /\ watching' = watching \ {r}
    /\ canceled' = canceled \cup {r}
    /\ UNCHANGED <<result, submitted, replies, writing, queues, table, env, control>>

WatchDone(r) ==
    /\ r \in watching /\ isDone(r)
    /\ watching' = watching \ {r}
    /\ UNCHANGED <<result, submitted, canceled, replies, writing, queues, table, env, control>>

\* The goroutine that writes the request to its stream.  A failed write answers
\* the request and leaves the tables of the loop alone.
WriteBytes(r) ==
    /\ r \in writing
    /\ writing' = writing \ {r}
    /\ replies' = replies \cup {[stID |-> owner[r].id, req |-> r]}
    /\ UNCHANGED <<result, submitted, canceled, watching, queues, table, env, control>>

WriteBytesFails(r) ==
    /\ r \in writing
    /\ writing' = writing \ {r}
    /\ result' = doneWithResponse({r}, "write")
    /\ UNCHANGED <<submitted, canceled, replies, watching, queues, table, env, control>>

\* A response that never comes, or that DeliverResponse drops after deliverTimeout.
LoseResponse(d) ==
    /\ d \in replies
    /\ replies' = replies \ {d}
    /\ UNCHANGED <<result, submitted, canceled, watching, writing, queues, table, env, control>>

\* The stream manager adds or removes a stream and then blocks in Feed.Send until
\* this loop has received the event (after close it is no longer subscribed).
AddStream(id) ==
    /\ ~event /\ id \notin live /\ objects[id] < MaxObjects
    /\ objects' = [objects EXCEPT ![id] = @ + 1]
    /\ live' = live \cup {id}
    /\ event' = (loop # "closed")
    /\ UNCHANGED <<result, goroutines, queues, table, control>>

RemoveStream(id) ==
    /\ ~event /\ id \in live
    /\ live' = live \ {id}
    /\ event' = (loop # "closed")
    /\ UNCHANGED <<result, goroutines, queues, table, objects, control>>

-----------------------------------------------------------------------------
(* The loop.                                                               *)

Full(q) == Len(q) >= MaxWaiting

\* requestQueue.push
push(q, r) == IF Full(q) THEN q ELSE Append(q, r)

\* requestQueue.remove
remove(q, r) ==
    IF \E i \in DOMAIN q : q[i] = r
    THEN RemoveAt(q, CHOOSE i \in DOMAIN q : q[i] = r)
    ELSE q

Tick ==
    /\ loop = "select" /\ ~throttleC
    /\ throttleC' = TRUE
    /\ UNCHANGED <<result, goroutines, queues, table, env, loop, left>>

handleNewRequest(r) ==
    /\ loop = "select" /\ r \in submitted
    /\ submitted' = submitted \ {r}
    /\ LET q == IF r \in HighPriority THEN high ELSE low
       IN  IF Full(q)
           THEN /\ result' = doneWithResponse({r}, "full")
                /\ UNCHANGED <<queues, throttleC>>
           ELSE /\ throttleC' = TRUE
                /\ IF r \in HighPriority
                   THEN high' = push(high, r) /\ UNCHANGED low
                   ELSE low' = push(low, r) /\ UNCHANGED high
                /\ UNCHANGED result
    /\ UNCHANGED <<canceled, replies, watching, writing, table, env, loop, left>>

StartBatch ==
    /\ loop = "select" /\ throttleC
    /\ throttleC' = FALSE
    /\ loop' = "batch"
    /\ left' = ThrottleBatch
    /\ UNCHANGED <<result, goroutines, queues, table, env>>

\* getNextRequest pops the high priority queue first and skips requests that are
\* done by then.
skipDone(q) ==
    LET open == {i \in DOMAIN q : ~isDone(q[i])}
    IN  IF open = {} THEN <<>> ELSE SubSeq(q, Min(open), Len(q))

Waiting == skipDone(high) # <<>> \/ skipDone(low) # <<>>

FromHigh == skipDone(high) # <<>>

Popped == IF FromHigh THEN Head(skipDone(high)) ELSE Head(skipDone(low))

highRest == IF FromHigh THEN Tail(skipDone(high)) ELSE <<>>

lowRest == IF FromHigh THEN low ELSE Tail(skipDone(low))

EndBatch ==
    /\ loop = "batch"
    /\ \/ left = 0 /\ UNCHANGED queues
       \/ left > 0 /\ ~Waiting /\ high' = <<>> /\ low' = <<>>
    /\ loop' = "select" /\ left' = 0
    /\ UNCHANGED <<result, goroutines, table, env, throttleC>>

\* The map is walked in any order and the walk stops at an entry that fails a
\* sanity check, so a sane candidate may or may not be met first.
Candidates(r) == available \cap Allowed[r]

SaneBusy(id) == streams[id] # 0

Sane(id) == streams[id] # 0 /\ cur[id] = None

pickAvailableStream(r) == {id \in Candidates(r) : Sane(id) /\ id \in Supported[r]}

CannotPick(r) == (\E id \in Candidates(r) : ~Sane(id)) \/ pickAvailableStream(r) = {}

\* getNextRequest and addPendingRequest
AssignNext(id) ==
    /\ loop = "batch" /\ left > 0 /\ Waiting
    /\ id \in pickAvailableStream(Popped)
    /\ owner' = [owner EXCEPT ![Popped] = Object(id)]
    /\ cur' = [cur EXCEPT ![id] = Popped]
    /\ available' = available \ {id}
    /\ pendings' = pendings \cup {Popped}
    /\ writing' = writing \cup {Popped}
    /\ high' = highRest /\ low' = lowRest
    /\ left' = left - 1
    /\ UNCHANGED <<result, submitted, canceled, replies, watching, streams, env, loop, throttleC>>

NoStreamForgets ==
    /\ loop = "batch" /\ left > 0 /\ Waiting
    /\ CannotPick(Popped)
    /\ high' = highRest /\ low' = lowRest
    /\ loop' = "select" /\ left' = 0
    /\ UNCHANGED <<result, goroutines, table, env, throttleC>>

\* No stream: the request goes to the back of the high priority queue, an error of
\* the push is ignored, and the batch ends.
NoStream ==
    /\ loop = "batch" /\ left > 0 /\ Waiting
    /\ CannotPick(Popped)
    /\ high' = push(highRest, Popped) /\ low' = lowRest
    /\ loop' = "select" /\ left' = 0
    /\ UNCHANGED <<result, goroutines, table, env, throttleC>>

\* removePendingRequest: the owner's slot is freed even when the owner is no longer
\* the object registered under its ID.
removePendingRequest(r) ==
    /\ pendings' = pendings \ {r}
    /\ IF r \in pendings /\ owner[r] # None
       THEN /\ available' = available \cup {owner[r].id}
            /\ cur' = [cur EXCEPT ![owner[r].id] =
                         IF owner[r] = Object(owner[r].id) THEN None ELSE @]
       ELSE UNCHANGED <<available, cur>>
    /\ UNCHANGED <<owner, streams>>

validateDeliveryAnyRequest(d) ==
    /\ streams[d.stID] # 0
    /\ d.req \in pendings
    /\ owner[d.req] # None /\ owner[d.req].id = d.stID

validateDelivery(d) ==
    /\ streams[d.stID] # 0
    /\ d.req \in pendings
    /\ owner[d.req] # None /\ owner[d.req].id = d.stID
    /\ cur[d.stID] = d.req

handleDeliverData(d) ==
    /\ loop = "select" /\ d \in replies
    /\ replies' = replies \ {d}
    /\ IF validateDelivery(d)
       THEN /\ result' = doneWithResponse({d.req}, "ok")
            /\ removePendingRequest(d.req)
       ELSE UNCHANGED <<result, table>>
    /\ UNCHANGED <<submitted, canceled, watching, writing, queues, env, control>>

handleCancelRequestSilent(r) ==
    /\ loop = "select" /\ r \in canceled
    /\ canceled' = canceled \ {r}
    /\ high' = remove(high, r)
    /\ low' = remove(low, r)
    /\ removePendingRequest(r)
    /\ UNCHANGED <<result, submitted, replies, watching, writing, env, control>>

handleCancelRequest(r) ==
    /\ loop = "select" /\ r \in canceled
    /\ canceled' = canceled \ {r}
    /\ high' = remove(high, r)
    /\ low' = remove(low, r)
    /\ removePendingRequest(r)
    /\ result' = doneWithResponse({r}, "ctx")
    /\ UNCHANGED <<submitted, replies, watching, writing, env, control>>

\* An add or remove event is received; the refresh that follows reads the stream
\* manager's set as it is by then.
ReceiveEvent ==
    /\ loop = "select" /\ event
    /\ event' = FALSE
    /\ loop' = "refresh"
    /\ UNCHANGED <<result, goroutines, queues, table, objects, live, left, throttleC>>

added == {id \in live : streams[id] = 0}

removed == {id \in StreamIDs \ live : streams[id] # 0}

\* removeStream answers the request of a stream that went away and leaves it in
\* pendings.
refreshStreams ==
    /\ loop = "refresh"
    /\ streams' = [id \in StreamIDs |->
                     IF id \in added THEN objects[id] ELSE IF id \in removed THEN 0 ELSE streams[id]]
    /\ available' = (available \cup added) \ removed
    /\ cur' = [id \in StreamIDs |-> IF id \in added \cup removed THEN None ELSE cur[id]]
    /\ result' = doneWithResponse({cur[id] : id \in removed} \ {None}, "removed")
    /\ loop' = "select"
    /\ UNCHANGED <<goroutines, queues, pendings, owner, env, left, throttleC>>

\* Close and rm.close
Close ==
    /\ loop = "select"
    /\ loop' = "closed"
    /\ result' = doneWithResponse(pendings, "closed")
    /\ pendings' = {} /\ available' = {}
    /\ streams' = [id \in StreamIDs |-> 0]
    /\ cur' = [id \in StreamIDs |-> None]
    /\ high' = <<>> /\ low' = <<>>
    /\ event' = FALSE
    /\ UNCHANGED <<goroutines, owner, objects, live, left, throttleC>>

-----------------------------------------------------------------------------

Step ==
    \/ \E r \in Requests :
          DoRequest(r) \/ ContextDone(r) \/ WatchDone(r) \/ WriteBytes(r) \/ WriteBytesFails(r)
            \/ handleNewRequest(r) \/ handleCancelRequest(r)
    \/ \E id \in StreamIDs : AddStream(id) \/ RemoveStream(id) \/ AssignNext(id)
    \/ \E d \in replies : LoseResponse(d) \/ handleDeliverData(d)
    \/ Tick \/ StartBatch \/ EndBatch \/ NoStream \/ ReceiveEvent \/ refreshStreams

Next == Step \/ Close

Spec == Init /\ [][Next]_vars

\* Contexts of requests have deadlines; a select that keeps returning takes each of
\* its ready cases; the other goroutines run.
Fairness ==
    /\ \A r \in Requests :
        /\ WF_vars(ContextDone(r) \/ WatchDone(r))
        /\ WF_vars(WriteBytes(r) \/ WriteBytesFails(r))
        /\ SF_vars(handleNewRequest(r))
        /\ SF_vars(handleCancelRequest(r))
    /\ WF_vars(EndBatch \/ NoStream \/ refreshStreams \/ \E id \in StreamIDs : AssignNext(id))

FairSpec == Spec /\ Fairness

-----------------------------------------------------------------------------
(* Properties.                                                             *)

\* A pending request that is still open is the one its owner is serving, and the
\* owner is the object registered under its ID: whatever disconnects, reconnects,
\* late cancellations and failed writes do to the tables, no stream ever serves two
\* open requests (pickAvailableStream, removeStream, removePendingRequest).
OneRequestPerStream ==
    \A r \in pendings : ~isDone(r) =>
        /\ owner[r] = Object(owner[r].id)
        /\ cur[owner[r].id] = r

\* Where a request is: in the channel to the loop, at a position of a waiting queue, or
\* pending.
Places(r) ==
    {<<"submitted", 0>> : x \in submitted \cap {r}}
      \cup {<<"high", i>> : i \in {k \in DOMAIN high : high[k] = r}}
      \cup {<<"low", i>> : i \in {k \in DOMAIN low : low[k] = r}}
      \cup {<<"pending", 0>> : x \in pendings \cap {r}}

\* While the loop runs, an open request is in exactly one place: getNextRequest, which
\* pops a request, releases the lock and may push it back with the error ignored, never
\* loses one and never queues one twice.
NoLostRequest ==
    loop # "closed" =>
        \A r \in Requests : result[r] = "none" => \E p \in Places(r) : Places(r) = {p}

\* Except for a late cancellation, a stream becomes available
\* only when it is registered and serves nothing: an answer that was sent over an
\* earlier connection of the peer never frees the stream that serves another request
\* now (validateDelivery).
LateAnswerFreesNothing ==
    [][canceled \subseteq canceled' =>
          \A id \in available' \ available : streams'[id] # 0 /\ cur'[id] = None]_vars

\* DoRequest returns: unless the manager is closed, a request whose context has a
\* deadline is answered, whatever streams and responses do.
EveryRequestAnswered ==
    \A r \in Requests : (result[r] = "none") ~> (result[r] # "none" \/ loop = "closed")
=============================================================================
