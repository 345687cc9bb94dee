---------------------------- MODULE StreamManager ----------------------------
(***************************************************************************)
(* The stream manager of the stream protocols                              *)
(* (p2p/stream/common/streammanager) with the life of the sync streams it  *)
(* manages (p2p/stream/protocols/sync/stream.go, protocol.go).  One loop   *)
(* goroutine adds, removes and discovers; a stream is handed to it by      *)
(* HandleStream and asks it to be removed in its own Close.  Both callers  *)
(* wait for the loop on unbuffered channels.                               *)
(*                                                                         *)
(* A connection is one raw libp2p stream; the stream ID is its peer.       *)
(***************************************************************************)
EXTENDS Naturals, FiniteSets

CONSTANTS
    Conns,          \* raw streams
    Peer,           \* Peer[c]: the remote peer of a raw stream
    Current,        \* raw streams whose protocol version is at least ours
    Compatible,     \* raw streams that pass sanityCheckStream
    HiCap, SoftLoCap, HardLoCap,    \* Config
    Timely          \* the loop takes a discovery task before the next tick

VARIABLES
    \* Life of a raw stream. "adding": HandleStream waits in NewStream; "closing":
    \* Close has won the compare-and-swap on closeStat and waits in RemoveStream;
    \* "removed": RemoveStream has returned; "reset": the raw stream is reset.
    conn,
    streams,        \* sm.streams
    loop,           \* where the loop is
    discCh,         \* sm.discCh holds a task
    tickDue,        \* discTicker.C holds a tick
    coolDown,       \* sm.coolDown
    coolDownCache,  \* peers a connection attempt failed with lately
    discovering,    \* a discovery goroutine runs
    setups          \* peers setupStreamWithPeer is connecting to

vars == <<conn, streams, loop, discCh, tickDue, coolDown, coolDownCache, discovering, setups>>

Peers == {Peer[c] : c \in Conns}

Init ==
    /\ conn = [c \in Conns |-> "none"]
    /\ streams = {}
    /\ loop = "select"
    /\ discCh = TRUE        \* bootstrap discovery
    /\ tickDue = FALSE
    /\ coolDown = FALSE /\ coolDownCache = {}
    /\ discovering = FALSE /\ setups = {}

numStreams == Cardinality(streams \cap Current)

softHaveEnoughStreams == numStreams >= SoftLoCap

hardHaveEnoughStream == numStreams >= HardLoCap

-----------------------------------------------------------------------------
(* Streams.                                                                *)

\* HandleStream: a raw stream a peer opened, or one host.NewStream made.
HandleStream(c) ==
    /\ conn[c] = "none"
    /\ conn' = [conn EXCEPT ![c] = IF c \in Compatible THEN "adding" ELSE "refused"]
    /\ UNCHANGED <<streams, loop, discCh, tickDue, coolDown, coolDownCache, discovering, setups>>

\* syncStream.Close: a read or a request handler failed, or the stream misbehaved.
Close(c) ==
    /\ conn[c] = "open"
    /\ conn' = [conn EXCEPT ![c] = "closing"]
    /\ UNCHANGED <<streams, loop, discCh, tickDue, coolDown, coolDownCache, discovering, setups>>

\* The rest of Close, after RemoveStream has returned.
Reset(c) ==
    /\ conn[c] = "removed"
    /\ conn' = [conn EXCEPT ![c] = "reset"]
    /\ UNCHANGED <<streams, loop, discCh, tickDue, coolDown, coolDownCache, discovering, setups>>

-----------------------------------------------------------------------------
(* The loop.                                                               *)

StreamOf(p) == {c \in streams : Peer[c] = p}

AdmitsDuplicate(c) == Cardinality(streams) < HiCap

\* The two refusals of handleAddStream.
Admits(c) == Cardinality(streams) < HiCap /\ StreamOf(Peer[c]) = {}

\* sm.streams is a map of peers: adding replaces an entry of the peer.  The loop
\* then sends the event and waits for the subscribers.
handleAddStream(c) ==
    /\ loop = "select" /\ conn[c] = "adding"
    /\ IF Admits(c)
       THEN /\ streams' = (streams \ StreamOf(Peer[c])) \cup {c}
            /\ conn' = [conn EXCEPT ![c] = "open"]
            /\ loop' = "sending"
       ELSE /\ conn' = [conn EXCEPT ![c] = "refused"]
            /\ UNCHANGED <<streams, loop>>
    /\ UNCHANGED <<discCh, tickDue, coolDown, coolDownCache, discovering, setups>>

handleRemoveStreamUnanswered(c) ==
    /\ loop = "select" /\ conn[c] = "closing" /\ StreamOf(Peer[c]) # {}
    /\ streams' = streams \ StreamOf(Peer[c])
    /\ loop' = "sending"
    /\ discCh' = (discCh \/ ~hardHaveEnoughStream')
    /\ UNCHANGED <<conn, tickDue, coolDown, coolDownCache, discovering, setups>>

\* RemoveStream names the stream by its peer.  A discovery task is queued when too
\* few streams are left, unless one is queued already.
handleRemoveStream(c) ==
    /\ loop = "select" /\ conn[c] = "closing"
    /\ conn' = [conn EXCEPT ![c] = "removed"]
    /\ streams' = streams \ StreamOf(Peer[c])
    /\ IF StreamOf(Peer[c]) = {}
       THEN UNCHANGED <<loop, discCh>>
       ELSE /\ loop' = "sending"
            /\ discCh' = (discCh \/ ~hardHaveEnoughStream')
    /\ UNCHANGED <<tickDue, coolDown, coolDownCache, discovering, setups>>

\* Feed.Send returns: the subscribers have received the event.
EventReceived ==
    /\ loop = "sending"
    /\ loop' = "select"
    /\ UNCHANGED <<conn, streams, discCh, tickDue, coolDown, coolDownCache, discovering, setups>>

\* checkInterval passes while the loop waits, not while it has a task to take.
TickerFires ==
    /\ ~tickDue
    /\ loop = "sending" \/ (loop = "select" /\ ~discCh)
    /\ tickDue' = TRUE
    /\ UNCHANGED <<conn, streams, loop, discCh, coolDown, coolDownCache, discovering, setups>>

TickIdle ==
    /\ loop = "select" /\ tickDue /\ softHaveEnoughStreams
    /\ tickDue' = FALSE
    /\ UNCHANGED <<conn, streams, loop, discCh, coolDown, coolDownCache, discovering, setups>>

TickHard ==
    /\ loop = "select" /\ tickDue /\ ~softHaveEnoughStreams
    /\ Timely => ~discCh
    /\ tickDue' = FALSE
    /\ discCh' = (discCh \/ ~hardHaveEnoughStream)
    /\ UNCHANGED <<conn, streams, loop, coolDown, coolDownCache, discovering, setups>>

\* The tick sends on discCh, which has room for one task; the loop that sends is the
\* only receiver.
Tick ==
    /\ loop = "select" /\ tickDue /\ ~softHaveEnoughStreams
    /\ Timely => ~discCh
    /\ tickDue' = FALSE
    /\ discCh' = TRUE
    /\ loop' = IF discCh THEN "blocked" ELSE "select"
    /\ UNCHANGED <<conn, streams, coolDown, coolDownCache, discovering, setups>>

SkipDiscovery ==
    /\ loop = "select" /\ discCh /\ coolDown
    /\ discCh' = FALSE
    /\ UNCHANGED <<conn, streams, loop, tickDue, coolDown, coolDownCache, discovering, setups>>

StartDiscovery ==
    /\ loop = "select" /\ discCh /\ ~coolDown
    /\ discCh' = FALSE
    /\ discovering' = TRUE
    /\ UNCHANGED <<conn, streams, loop, tickDue, coolDown, coolDownCache, setups>>

\* Close of the manager and removeAllStreamOnClose
Stop ==
    /\ loop = "select"
    /\ loop' = "stopped"
    /\ conn' = [c \in Conns |-> IF c \in streams /\ conn[c] = "open" THEN "reset" ELSE conn[c]]
    /\ streams' = {}
    /\ discovering' = FALSE /\ setups' = {}
    /\ UNCHANGED <<discCh, tickDue, coolDown, coolDownCache>>

-----------------------------------------------------------------------------
(* Discovery.                                                              *)

\* discoverAndSetupStream: the peers found that are neither connected nor cooling
\* down; with none of them discovery cools down.
Discovered(found) ==
    /\ discovering
    /\ Cardinality(found) <= HiCap - Cardinality(streams)
    /\ discovering' = FALSE
    /\ LET fresh == {p \in found : p \notin coolDownCache /\ StreamOf(p) = {}}
       IN  /\ setups' = setups \cup fresh
           /\ coolDown' = (coolDown \/ fresh = {})
    /\ UNCHANGED <<conn, streams, loop, discCh, tickDue, coolDownCache>>

SetupStream(p) ==
    /\ p \in setups
    /\ setups' = setups \ {p}
    /\ \/ /\ coolDownCache' = coolDownCache \cup {p}
          /\ UNCHANGED conn
       \/ /\ \E c \in Conns :
                /\ Peer[c] = p /\ conn[c] = "none"
                /\ conn' = [conn EXCEPT ![c] = IF c \in Compatible THEN "adding" ELSE "refused"]
          /\ UNCHANGED coolDownCache
    /\ UNCHANGED <<streams, loop, discCh, tickDue, coolDown, discovering>>

CoolDownOver ==
    /\ coolDown
    /\ coolDown' = FALSE
    /\ UNCHANGED <<conn, streams, loop, discCh, tickDue, coolDownCache, discovering, setups>>

CacheExpires(p) ==
    /\ p \in coolDownCache
    /\ coolDownCache' = coolDownCache \ {p}
    /\ UNCHANGED <<conn, streams, loop, discCh, tickDue, coolDown, discovering, setups>>

-----------------------------------------------------------------------------

Step ==
    \/ \E c \in Conns : HandleStream(c) \/ Close(c) \/ Reset(c) \/ handleAddStream(c) \/ handleRemoveStream(c)
    \/ EventReceived \/ TickerFires \/ TickIdle \/ Tick \/ SkipDiscovery \/ StartDiscovery
    \/ \E found \in SUBSET Peers : Discovered(found)
    \/ \E p \in Peers : SetupStream(p) \/ CacheExpires(p)
    \/ CoolDownOver

Next == Step \/ Stop

Spec == Init /\ [][Next]_vars

\* The select takes each ready case as long as it is reached, subscribers receive,
\* discovery is bounded by discTimeout, cool-downs end and goroutines run.
Fairness ==
    /\ \A c \in Conns :
        WF_vars(Reset(c)) /\ SF_vars(handleAddStream(c)) /\ SF_vars(handleRemoveStream(c))
    /\ WF_vars(EventReceived) /\ SF_vars(TickerFires) /\ SF_vars(TickIdle \/ Tick)
    /\ SF_vars(SkipDiscovery \/ StartDiscovery)
    /\ WF_vars(\E found \in SUBSET Peers : Discovered(found))
    /\ WF_vars(CoolDownOver)

FairSpec == Spec /\ Fairness

-----------------------------------------------------------------------------
(* Properties.                                                             *)

\* The manager's set is exactly the streams that run and have not been taken out by
\* their own Close, one per peer: closing one connection of a peer never unregisters
\* another, although RemoveStream names only the peer.
SetIsOpenStreams ==
    loop # "stopped" =>
        /\ streams = {c \in Conns : conn[c] \in {"open", "closing"}}
        /\ \A c, d \in streams : Peer[c] = Peer[d] => c = d

\* Close of a stream comes to an end and the raw stream is reset, unless the manager
\* is stopped meanwhile.
ClosedIsReset ==
    \A c \in Conns : (conn[c] = "closing") ~> (conn[c] = "reset" \/ loop = "stopped")

\* Item 3 of the comment on streamManager: with fewer streams than the low cap a
\* discovery is made, or the cap is reached some other way.
Discovers == []<>(softHaveEnoughStreams \/ discovering \/ loop = "stopped")
=============================================================================
