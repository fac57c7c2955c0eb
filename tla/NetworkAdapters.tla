-------------------------- MODULE NetworkAdapters --------------------------
(***************************************************************************)
(* The adapters of io/cnet and io/chttp, the check of their                *)
(* configurations, and the protocol intake.  They share no state, so a     *)
(* behaviour is one of them: "mechanism" says which, and the other         *)
(* variables are that module's.                                            *)
(***************************************************************************)
EXTENDS Naturals

CONSTANTS
    Mechanisms,     \* the adapters of this instance
    Messages, None, Capacity, ItemSlots, Generations, MaxStarts, MaxFaults,
    Conns, MaxDemand, MaxId, Tags,
    Settings        \* the configurations of the protocol intake

VARIABLES mechanism, obj, work, call, net

vars == <<mechanism, obj, work, call, net>>

StreamSink == INSTANCE CNetStreamSink WITH Messages <- {1, 2}
DatagramSink == INSTANCE CNetDatagramSink
PacketSink ==
    INSTANCE CNetPacketSink
    WITH Messages <- {1, 2}, Capacity <- ItemSlots, MaxGeneration <- Generations, MaxStarts <- 1
StreamSource == INSTANCE CNetStreamSource
ListenerSource == INSTANCE CNetListenerSource WITH MaxDemand <- 2, Tags <- {1, 2}
PacketSource == INSTANCE CNetPacketSource WITH MaxId <- 3
Config == INSTANCE TypedConfig
HttpClient == INSTANCE ChttpClient WITH Messages <- {1, 2}, RequestSlots <- 2, MaxAttempts <- 2
HttpServer == INSTANCE ChttpServer WITH Requests <- {1, 2}, MaxGeneration <- 1, MaxStarts <- 1
Websocket ==
    INSTANCE ChttpWebsocket
    WITH Connections <- {1, 2}, Events <- {<<1, "DATA">>, <<1, "CLOSE">>, <<2, "DATA">>},
         SessionSlots <- ItemSlots, FrameSlots <- ItemSlots,
         MaxGeneration <- 2, Quiescers <- {<<0, "HOST">>, <<0, "COMMAND">>}
Intake == INSTANCE ProtocolIntake WITH Links <- {1}, MaxMessages <- 2, MaxGeneration <- 2

Init ==
    /\ mechanism \in Mechanisms
    /\ \/ mechanism = "STREAM_SINK" /\ StreamSink!Init
       \/ mechanism = "DATAGRAM_SINK" /\ DatagramSink!Init
       \/ mechanism = "PACKET_SINK" /\ PacketSink!Init
       \/ mechanism = "STREAM_SOURCE" /\ StreamSource!Init
       \/ mechanism = "LISTENER_SOURCE" /\ ListenerSource!Init
       \/ mechanism = "PACKET_SOURCE" /\ PacketSource!Init
       \/ mechanism = "CONFIG" /\ Config!Init
       \/ mechanism = "HTTP_CLIENT" /\ HttpClient!Init
       \/ mechanism = "HTTP_SERVER" /\ HttpServer!Init
       \/ mechanism = "WEBSOCKET" /\ Websocket!Init
       \/ mechanism = "INTAKE" /\ Intake!Init

Next ==
    /\ \/ mechanism = "STREAM_SINK" /\ StreamSink!Next
       \/ mechanism = "DATAGRAM_SINK" /\ DatagramSink!Next
       \/ mechanism = "PACKET_SINK" /\ PacketSink!Next
       \/ mechanism = "STREAM_SOURCE" /\ StreamSource!Next
       \/ mechanism = "LISTENER_SOURCE" /\ ListenerSource!Next
       \/ mechanism = "PACKET_SOURCE" /\ PacketSource!Next
       \/ mechanism = "CONFIG" /\ Config!Next
       \/ mechanism = "HTTP_CLIENT" /\ HttpClient!Next
       \/ mechanism = "HTTP_SERVER" /\ HttpServer!Next
       \/ mechanism = "WEBSOCKET" /\ Websocket!Next
       \/ mechanism = "INTAKE" /\ Intake!Next
    /\ UNCHANGED mechanism

Spec == Init /\ [][Next]_vars

(* The caller polls the intake for as long as it is let, the source's poll
   ends the replies it is sending, and storage has room again and again. *)
parts == <<obj, work, call, net>>
PollingSpec ==
    /\ Spec
    /\ WF_parts(Intake!Poll) /\ WF_parts(Intake!DrainEnd) /\ WF_parts(Intake!SendEnd)
    /\ WF_parts(Intake!FrontEnd) /\ WF_parts(Intake!PollSource) /\ WF_parts(Intake!PollReturn)
    /\ WF_parts(Intake!DrainTerminal(1)) /\ SF_parts(Intake!Sent(1))
    /\ WF_parts(Intake!PollEnd(TRUE)) /\ WF_parts(Intake!PumpEnd) /\ WF_parts(Intake!PumpBlocks)
    /\ WF_parts(Intake!Settle(TRUE))
    /\ \A b \in BOOLEAN : WF_parts(Intake!ProcessFront(b)) /\ SF_parts(Intake!Admit(b))
    /\ \A answer \in {"OK", "EBUSY", "ERROR"} : WF_parts(Intake!SendReply(answer))

(* Sinks.  A graph thread inside a sink's actor finds it alive however a stop
   races it; every claim the sink took is completed exactly once, by the end
   of its own send; and what the boundary snapshot reports is so.  The HTTP
   client also sends no more than its policy of attempts allows. *)
SinkClaimsSettle ==
    /\ mechanism = "STREAM_SINK" => StreamSink!ActorAlive /\ StreamSink!ClaimsSettle
    /\ mechanism = "DATAGRAM_SINK" => DatagramSink!ActorAlive /\ DatagramSink!ClaimsSettle
    /\ mechanism = "PACKET_SINK" => PacketSink!ActorAlive /\ PacketSink!ClaimsSettle
    /\ mechanism = "HTTP_CLIENT" => HttpClient!ClaimsSettleOnce /\ HttpClient!RequestsBounded

(* Sources.  No more is read than the graph asked for where the transport can
   hold back, messages reach the graph in id order and none is lost while the
   source runs, and between two polls a run with demand is woken or waits for
   something that will wake it.  Every slot of the HTTP and WebSocket servers
   is in use or free, a drained WebSocket session is closed, and the intake
   admits a frame once, settles its claims in order and keeps the catalog
   loaded for its owners. *)
SourceDelivers ==
    /\ mechanism = "STREAM_SOURCE" => StreamSource!Delivers /\ StreamSource!NeverAsleep
    /\ mechanism = "LISTENER_SOURCE" => ListenerSource!Delivers /\ ListenerSource!NeverAsleep
    /\ mechanism = "PACKET_SOURCE" => PacketSource!Delivers /\ PacketSource!NeverAsleep
    /\ mechanism = "HTTP_SERVER" => HttpServer!SlotsAccounted
    /\ mechanism = "WEBSOCKET" => Websocket!SnapshotConsistent /\ Websocket!DrainedCloses
    /\ mechanism = "INTAKE" =>
          /\ Intake!FramesAdmittedOnce /\ Intake!ClaimsSettleInOrder
          /\ Intake!CatalogOutlivesOwners

(* Replies.  A reply a source accepted has exactly one terminal, whatever
   closes its connection or stops the source, and the source cannot be freed
   before the terminal was taken.  The HTTP server answers a request once and
   with its own reply; the intake accounts for each reply it queued. *)
RepliesEndOnce ==
    /\ mechanism = "LISTENER_SOURCE" => ListenerSource!ReplyEndsOnce
    /\ mechanism = "PACKET_SOURCE" => PacketSource!ReplyEndsOnce
    /\ mechanism = "HTTP_SERVER" => HttpServer!RepliesMatch
    /\ mechanism = "INTAKE" => Intake!RepliesAccounted

(* A configuration that passed preflight is one its adapter opens, but for the
   two known gaps of the CHTTP plugin. *)
PreflightPredictsOpen == mechanism = "CONFIG" => Config!PreflightPredictsOpen

(* "Repeated public poll() calls are the explicit retry action": a reply that
   was queued leaves the intake if it is polled again and again. *)
RepliesLeave == Intake!RepliesLeave

(***************************************************************************)
(* The instance that is checked: every adapter, and the protocol intake    *)
(* over one link.                                                          *)
(***************************************************************************)

MCMechanisms ==
    {"STREAM_SINK", "DATAGRAM_SINK", "PACKET_SINK", "STREAM_SOURCE", "LISTENER_SOURCE",
     "PACKET_SOURCE", "CONFIG", "HTTP_CLIENT", "HTTP_SERVER", "WEBSOCKET", "INTAKE"}

(* Intake: one or two claims, with and without replies, over every transport. *)
MCSettings ==
    [kind : {"JTT808", "COAP"}, transport : {"LISTENER", "UDP", "KCP"}, sessions : {1},
     connections : {1}, steps : {1}, claims : {1, 2}, message : {1}, bytes : {3}, frame : {2},
     reply : {0, 2}, mapper : {2}]

MCReplySettings == {c \in MCSettings : c.claims = 2 /\ c.reply = 2 /\ c.transport # "KCP"}
=============================================================================
