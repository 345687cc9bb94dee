--------------------------- MODULE MCStreamManager ---------------------------
(***************************************************************************)
(* Instances of StreamManager; the variable part names the one a behaviour *)
(* belongs to.                                                             *)
(***************************************************************************)
EXTENDS Naturals, TLC

CONSTANTS c1, c2, c3, p1, p2

VARIABLE part

-----------------------------------------------------------------------------
(* Two peers and room for one stream (part "crowded"); two peers one of      *)
(* which may be connected twice (part "twice"); and two peers whose          *)
(* discovery tasks are taken in time (part "timely").                        *)

VARIABLES conn, streams, loop, discCh, tickDue, coolDown, coolDownCache, discovering,
          setups

Crowded == INSTANCE StreamManager WITH
    Conns <- {c1, c3}, Peer <- c1 :> p1 @@ c3 :> p2,
    Current <- {c1, c3}, Compatible <- {c1, c3},
    HiCap <- 1, SoftLoCap <- 1, HardLoCap <- 1, Timely <- FALSE

Twice == INSTANCE StreamManager WITH
    Conns <- {c1, c2, c3}, Peer <- c1 :> p1 @@ c2 :> p1 @@ c3 :> p2,
    Current <- {c1, c2}, Compatible <- {c1, c2, c3},
    HiCap <- 2, SoftLoCap <- 1, HardLoCap <- 1, Timely <- FALSE

Timely == INSTANCE StreamManager WITH
    Conns <- {c1, c3}, Peer <- c1 :> p1 @@ c3 :> p2,
    Current <- {c1, c3}, Compatible <- {c1, c3},
    HiCap <- 2, SoftLoCap <- 2, HardLoCap <- 1, Timely <- TRUE

streamVars == <<conn, streams, loop, discCh, tickDue, coolDown, coolDownCache,
                discovering, setups>>

-----------------------------------------------------------------------------
PartInit ==
    \/ part = "crowded" /\ Crowded!Init
    \/ part = "twice" /\ Twice!Init
    \/ part = "timely" /\ Timely!Init

PartNext ==
    /\ UNCHANGED part
    /\ \/ part = "crowded" /\ Crowded!Next
       \/ part = "twice" /\ Twice!Next
       \/ part = "timely" /\ Timely!Next

\* Fairness of StreamManager in the part whose tasks are taken in time.
On(A) == part = "timely" /\ A

PartSpec ==
    /\ PartInit /\ [][PartNext]_<<part, streamVars>>
    /\ \A c \in {c1, c3} :
          /\ WF_streamVars(On(Timely!Reset(c)))
          /\ SF_streamVars(On(Timely!handleAddStream(c)))
          /\ SF_streamVars(On(Timely!handleRemoveStream(c)))
    /\ WF_streamVars(On(Timely!EventReceived)) /\ SF_streamVars(On(Timely!TickerFires))
    /\ SF_streamVars(On(Timely!TickIdle \/ Timely!Tick))
    /\ SF_streamVars(On(Timely!SkipDiscovery \/ Timely!StartDiscovery))
    /\ WF_streamVars(On(\E found \in SUBSET {p1, p2} : Timely!Discovered(found)))
    /\ WF_streamVars(On(Timely!CoolDownOver))

-----------------------------------------------------------------------------

\* The set holds exactly the streams that run, one per peer (handleAddStream,
\* handleRemoveStream).
SetIsOpenStreams ==
    /\ part = "crowded" => Crowded!SetIsOpenStreams
    /\ part = "twice" => Twice!SetIsOpenStreams
    /\ part = "timely" => Timely!SetIsOpenStreams

\* Close of a stream ends in a reset unless the manager is stopped (baseStream.Close).
ClosedIsReset ==
    \A c \in {c1, c3} : (part = "timely" /\ conn[c] = "closing")
                         ~> (conn[c] = "reset" \/ loop = "stopped")

\* With fewer streams than the low cap a discovery is made ("discover and connect new
\* streams when the number of streams is below threshold").
Discovers ==
    []<>(part = "timely" => Timely!softHaveEnoughStreams \/ discovering \/ loop = "stopped")
=============================================================================
