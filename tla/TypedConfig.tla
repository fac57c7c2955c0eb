---------------------------- MODULE TypedConfig ----------------------------
(***************************************************************************)
(* How the CNet and CHTTP providers decide that an instance can be opened. *)
(* At preflight the policy passes the schema's bounds and the typed checks *)
(* of turbo_flow_cnet_typed_config.c or turbo_flow_chttp_typed_config.c    *)
(* against the deployment resource; later, when owners are materialized    *)
(* and the flow is starting, the adapter checks the configuration it is    *)
(* given again, with code of its own.                                      *)
(*                                                                         *)
(* A configuration is a record of the policy and deployment fields the     *)
(* checks read; every number is one the checks' thresholds tell apart, a   *)
(* text is its length, or a word for the property of it that is checked.   *)
(*                                                                         *)
(*   net   the provider;  obj  the configuration;  call  how far it got.   *)
(***************************************************************************)
EXTENDS Naturals, Sequences, FiniteSetsExt

CONSTANT None

VARIABLES obj, work, call, net

vars == <<obj, work, call, net>>

(* Limits of the CNet library. *)
TlsMinIo == 64
AlpnMax == 16
MaxPayload == 1400
RecordOverhead == 32
PskBytes == 32

KcpMinMtu == 50
SecureKcpMinMtu == 576
FecMaxShards == 255
FecMaxGroups == 64
FecWireOverhead == 46
CommandPayloadMin == 2048
U16Max == 65535

PowerOfTwo(n) == n \in {1, 2, 4, 8}

(* The bounds the schema puts on fields before the typed checks run. *)
SchemaValid(c) ==
    /\ \A f \in DOMAIN c \cap {"commands", "requests", "batch", "maxSend", "recv", "conns",
                               "connCap", "sendCap", "maxDatagram", "sessions", "queue",
                               "adapterSend", "max", "steps"} : c[f] >= 1
    /\ "events" \in DOMAIN c => c.events >= 2
    /\ c.mode \in 0 .. 1 /\ c.encoding \in 0 .. 5

DeploymentValid(c) == c.psk # 0 => c.pskGiven

ClientValid(c) ==
    /\ PowerOfTwo(c.commands) /\ PowerOfTwo(c.events) /\ c.events >= 2
    /\ c.batch <= c.requests
    /\ c.cmdBuf # 0 => c.cmdBuf >= c.maxSend /\ c.cmdBuf >= CommandPayloadMin
    /\ c.evBuf # 0 => c.evBuf >= c.recv
    /\ c.tlsIo = 0 <=> c.tlsTimeout = 0
    /\ c.tlsIo # 0 => c.tlsIo >= TlsMinIo
    /\ c.evBuf # 0 /\ c.tlsIo # 0 => c.evBuf >= AlpnMax

TlsEmpty(c) == ~(c.ca \/ c.cert \/ c.key \/ c.password)

UriValid(c) == c.scheme \in {"pipe", "tcp", "tls"} /\ c.uriValid

StreamTls(c) ==
    /\ DeploymentValid(c) /\ UriValid(c)
    /\ IF c.scheme # "tls"
       THEN c.tlsIo = 0 /\ c.tlsTimeout = 0 /\ TlsEmpty(c)
       ELSE /\ c.tlsIo # 0 /\ c.tlsTimeout # 0
            /\ c.cert = c.key
            /\ c.password => c.key

ListenerTls(c) ==
    IF c.mode = 0
    THEN c.tlsIo = 0 /\ c.tlsTimeout = 0 /\ ~c.auth /\ TlsEmpty(c)
    ELSE /\ c.cert /\ c.key /\ c.tlsIo # 0 /\ c.tlsTimeout # 0
         /\ c.auth = c.ca

(* Only numeric hosts are accepted, for binding and for the peer. *)
NumericHost(h) == h \in {"IPV4", "IPV6"}

ParsePeer(c) == NumericHost(c.peer) /\ c.peerPort # 0

DatagramValid(c) ==
    /\ DeploymentValid(c) /\ NumericHost(c.bind)
    /\ c.requests > c.sendCap /\ c.batch <= c.requests
    /\ c.maxDatagram <= MaxPayload
    /\ c.recv >= c.maxDatagram /\ c.recv <= MaxPayload

NoFec(c) == c.retry = 0 /\ ~c.fec /\ c.data = 0 /\ c.parity = 0 /\ c.payload = 0 /\ c.groups = 0

KcpEmpty(c) == c.mtu = 0 /\ c.window = 0 /\ c.interval = 0 /\ c.kcpMax = 0 /\ ~c.stream

(* The intermediate sums of the source: shards, shard size, group bytes. *)
FecValid(c) ==
    LET total == c.data + c.parity
        datagram == c.payload + FecWireOverhead
    IN  /\ c.fec /\ c.data # 0 /\ c.parity # 0
        /\ total <= FecMaxShards
        /\ c.groups \in 1 .. FecMaxGroups
        /\ c.payload >= c.mtu + RecordOverhead
        /\ total * (c.payload + 2) * c.groups <= 64 * 1024 * 1024
        /\ datagram <= c.maxDatagram /\ datagram <= c.recv

PacketValid(c) ==
    IF c.mode = 0 THEN KcpEmpty(c) /\ ~c.secure /\ NoFec(c) /\ c.psk = 0
    ELSE /\ c.mtu # 0 /\ c.window # 0 /\ c.interval \in 10 .. 5000 /\ c.kcpMax # 0 /\ ~c.stream
         /\ IF ~c.secure
            THEN c.mtu >= KcpMinMtu /\ c.mtu <= c.maxDatagram /\ NoFec(c) /\ c.psk = 0
            ELSE /\ c.mtu >= SecureKcpMinMtu /\ c.mtu <= MaxPayload
                 /\ c.psk = PskBytes /\ c.pskGiven /\ c.retry # 0
                 /\ FecValid(c)

U16FieldsValid(c) == \A f \in {"data", "parity", "payload", "groups"} : c[f] <= U16Max

PacketCommon(c) == U16FieldsValid(c) /\ DatagramValid(c) /\ PacketValid(c)

PacketMax(c) == IF c.mode = 0 THEN c.maxDatagram ELSE c.kcpMax

(***************************************************************************)
(* The six typed checks.                                                   *)
(***************************************************************************)
TypedStreamSource(c) == ClientValid(c) /\ StreamTls(c) /\ c.max <= c.recv

TypedStreamSink(c) == ClientValid(c) /\ StreamTls(c) /\ c.max <= c.maxSend

TypedListenerSource(c) ==
    /\ DeploymentValid(c) /\ ClientValid(c) /\ NumericHost(c.bind)
    /\ c.conns <= c.connCap /\ c.max <= c.recv
    /\ ListenerTls(c)

TypedPacketSource(c) == PacketCommon(c) /\ c.max <= PacketMax(c)

TypedDatagramSink(c) == DatagramValid(c) /\ ParsePeer(c) /\ c.max <= c.maxDatagram

(* Mutant: the capacity of the adapter is not compared with the endpoint's. *)
TypedPacketSinkLoose(c) ==
    /\ PacketCommon(c) /\ ParsePeer(c) /\ c.max <= PacketMax(c)
    /\ IF c.mode = 0 THEN c.conversation = 0 ELSE c.secure <=> c.conversation = 0

TypedPacketSink(c) ==
    /\ PacketCommon(c) /\ ParsePeer(c) /\ c.max <= PacketMax(c)
    /\ IF c.mode = 0 THEN c.conversation = 0 /\ c.adapterSend <= c.sendCap
       ELSE c.secure <=> c.conversation = 0

Typed(c) ==
    CASE c.kind = "STREAM_SOURCE" -> TypedStreamSource(c)
      [] c.kind = "LISTENER_SOURCE" -> TypedListenerSource(c)
      [] c.kind = "PACKET_SOURCE" -> TypedPacketSource(c)
      [] c.kind = "STREAM_SINK" -> TypedStreamSink(c)
      [] c.kind = "DATAGRAM_SINK" -> TypedDatagramSink(c)
      [] c.kind = "PACKET_SINK" -> TypedPacketSink(c)

(***************************************************************************)
(* The adapters' own checks, on the configuration the provider builds: TLS *)
(* is passed on only for a tls:// endpoint or a TLS listener.              *)
(***************************************************************************)
SchemeKnown(c) == c.scheme \in {"pipe", "tcp", "tls"}

StreamSourceAccepts(c) == c.max > 0 /\ c.steps > 0 /\ c.max <= c.recv /\ SchemeKnown(c)

StreamSinkAccepts(c) == c.max > 0 /\ c.steps > 0 /\ c.max <= c.maxSend /\ SchemeKnown(c)

ListenerSourceAccepts(c) ==
    /\ c.conns > 0 /\ c.conns <= c.connCap /\ c.max > 0 /\ c.max <= c.recv /\ c.steps > 0
    /\ c.mode = 1 => c.tlsIo >= TlsMinIo /\ c.tlsTimeout # 0

PacketSourceAccepts(c) ==
    /\ c.queue > 0 /\ c.max > 0 /\ c.steps > 0 /\ c.sessions > 0
    /\ IF c.mode = 0 THEN c.max <= c.maxDatagram /\ c.max <= c.recv ELSE c.max <= c.kcpMax

PeerAccepts(c) == c.peerPort # 0 /\ c.peer \in {"IPV4", "IPV6"}

DatagramSinkAccepts(c) ==
    /\ c.max > 0 /\ c.steps > 0 /\ c.sendCap > 0 /\ c.requests > c.sendCap
    /\ c.batch > 0 /\ c.batch <= c.requests
    /\ c.maxDatagram \in 1 .. MaxPayload /\ c.recv >= c.maxDatagram
    /\ c.max <= c.maxDatagram /\ PeerAccepts(c)

PacketSinkAccepts(c) ==
    /\ c.adapterSend > 0 /\ c.max > 0 /\ c.steps > 0 /\ PeerAccepts(c) /\ c.sessions > 0
    /\ IF c.mode = 0
       THEN c.conversation = 0 /\ c.adapterSend <= c.sendCap /\ c.max <= c.maxDatagram
       ELSE c.max <= c.kcpMax /\ ~c.stream /\ (c.secure <=> c.conversation = 0)

Accepts(c) ==
    CASE c.kind = "STREAM_SOURCE" -> StreamSourceAccepts(c)
      [] c.kind = "LISTENER_SOURCE" -> ListenerSourceAccepts(c)
      [] c.kind = "PACKET_SOURCE" -> PacketSourceAccepts(c)
      [] c.kind = "STREAM_SINK" -> StreamSinkAccepts(c)
      [] c.kind = "DATAGRAM_SINK" -> DatagramSinkAccepts(c)
      [] c.kind = "PACKET_SINK" -> PacketSinkAccepts(c)

(***************************************************************************)
(* The configurations: a working one of each family, with up to two of its *)
(* fields replaced by another value its checks tell apart.                 *)
(***************************************************************************)
Client(kind) ==
    [kind |-> kind, mode |-> 0, encoding |-> 0, commands |-> 2, events |-> 2, requests |-> 2,
     batch |-> 2, maxSend |-> 64, recv |-> 64, cmdBuf |-> 0, evBuf |-> 0, tlsIo |-> 0,
     tlsTimeout |-> 0, max |-> 64, steps |-> 1, scheme |-> "tcp", uriValid |-> TRUE, ca |-> FALSE,
     cert |-> FALSE, key |-> FALSE, password |-> FALSE, psk |-> 0, pskGiven |-> FALSE]

Secured(c) ==
    [c EXCEPT !.scheme = "tls", !.mode = 1, !.tlsIo = TlsMinIo, !.tlsTimeout = 1, !.cert = TRUE,
              !.key = TRUE]

Listener(c) ==
    [f \in DOMAIN c \cup {"conns", "connCap", "bind", "auth"} |->
        IF f \in DOMAIN c THEN c[f]
        ELSE IF f = "bind" THEN "IPV4" ELSE IF f = "auth" THEN FALSE ELSE 2]

Packet(kind) ==
    [kind |-> kind, mode |-> 0, encoding |-> 0, sendCap |-> 2, requests |-> 3, batch |-> 3,
     maxDatagram |-> MaxPayload, recv |-> MaxPayload, sessions |-> 1, queue |-> 1,
     adapterSend |-> 2, max |-> 64, steps |-> 1, mtu |-> 0, window |-> 0, interval |-> 0,
     kcpMax |-> 0, stream |-> FALSE, secure |-> FALSE, retry |-> 0, fec |-> FALSE, data |-> 0,
     parity |-> 0, payload |-> 0, groups |-> 0, conversation |-> 0, bind |-> "IPV4",
     peer |-> "IPV6", peerPort |-> 1, psk |-> 0, pskGiven |-> FALSE]

Kcp(c) ==
    [c EXCEPT !.mode = 1, !.mtu = SecureKcpMinMtu, !.window = 1, !.interval = 10, !.kcpMax = 64,
              !.conversation = 1]

SecureKcp(c) ==
    [Kcp(c) EXCEPT !.secure = TRUE, !.retry = 1, !.fec = TRUE, !.data = 2, !.parity = 1,
                   !.payload = SecureKcpMinMtu + RecordOverhead, !.groups = 1, !.psk = PskBytes,
                   !.pskGiven = TRUE, !.conversation = 0]

Working ==
    {Client("STREAM_SOURCE"), Client("STREAM_SINK"), Listener(Client("LISTENER_SOURCE")),
     Secured(Client("STREAM_SOURCE")), Secured(Client("STREAM_SINK")),
     Secured(Listener(Client("LISTENER_SOURCE"))), Packet("DATAGRAM_SINK")}
    \cup UNION {{Packet(k), Kcp(Packet(k)), SecureKcp(Packet(k))} :
                   k \in {"PACKET_SOURCE", "PACKET_SINK"}}

Others(f) ==
    CASE f = "kind" -> {}
      [] f = "scheme" -> {"pipe", "tls", "udp"}
      [] f \in {"bind", "peer"} -> {"NAME"}
      [] f \in {"uriValid", "ca", "cert", "key", "password", "auth", "pskGiven", "stream",
                "secure", "fec"} -> BOOLEAN
      [] f = "tlsIo" -> {0, TlsMinIo - 1, TlsMinIo}
      [] f \in {"cmdBuf", "evBuf"} -> {15, 2048}
      [] f \in {"recv", "maxDatagram"} -> {0, 63, 654, MaxPayload + 1}
      [] f \in {"max", "maxSend", "kcpMax"} -> {0, 63, 65, MaxPayload + 1}
      [] f = "mtu" -> {0, 49, 575, MaxPayload}
      [] f = "payload" -> {0, 607, 609, U16Max + 1}
      [] f \in {"data", "parity", "groups"} -> {0, 1, 254, U16Max + 1}
      [] f = "psk" -> {0, 1, PskBytes}
      [] f = "interval" -> {0, 9, 5001}
      [] OTHER -> {0, 1, 3}

Deviations(c) ==
    UNION {UNION {{[c EXCEPT ![f] = v, ![g] = w] : v \in Others(f), w \in Others(g)} :
                     g \in DOMAIN c} : f \in DOMAIN c}

-----------------------------------------------------------------------------
(* The CHTTP provider. *)

H2InputMin == 16393
H2OutputMin == 16468
H1ResponseReserve == 281
ChunkReserve == 32
HpackFieldOverhead == 15
HpackUpdateReserve == 12
HpackGeneratedReserve == 58
FrameHeader == 9
WireHeader == 14
MinFrame == 2
RefusalText == 17       \* "request too large"
HeaderCapacity == 64

Has(c, f) == f \in DOMAIN c

MethodLength(m) == CASE m \in {"GET", "PUT"} -> 3 [] m \in {"POST", "HEAD"} -> 4
                     [] m = "PATCH" -> 5 [] m = "DELETE" -> 6 [] m = "OPTIONS" -> 7

(* The bounds of turbo_flow_chttp_provider_config.schema. *)
HttpSchemaValid(c) ==
    /\ c.version = 2
    /\ \A f \in DOMAIN c \cap
             {"conns", "commands", "requests", "batch", "events", "maxSend", "recv", "cmdBuf", "evBuf",
              "slots", "attempts", "stopMs", "startLine", "headerCount", "headerBytes", "body",
              "chunk", "h2Input", "respHeaderBytes", "respBody", "buffered", "bufferCap",
              "maxTarget", "maxMessage", "firstId", "contentType", "errorType", "sessions",
              "frames", "inputBytes", "authority", "target", "pathLen"} : c[f] >= 1
    /\ \A f \in DOMAIN c \cap {"maxFrame", "maxWsMessage"} : c[f] >= 2
    /\ \A f \in DOMAIN c \cap {"okStatus", "overStatus", "goneStatus", "errStatus"} :
          c[f] \in 200 .. 599

(* network_validate *)
HttpTlsEmpty(c) == ~c.ca /\ ~c.cert /\ ~c.key /\ ~c.password /\ ~c.serverName /\ c.alpn = <<>>

NetworkValid(c) ==
    /\ PowerOfTwo(c.commands) /\ PowerOfTwo(c.events) /\ c.events >= 2
    /\ c.batch <= c.requests /\ c.cmdBuf >= c.maxSend /\ c.evBuf >= c.recv
    /\ IF c.tls THEN c.tlsIo >= TlsMinIo /\ c.tlsTimeout # 0 /\ c.alpn # <<>>
       ELSE c.tlsIo = 0 /\ c.tlsTimeout = 0 /\ HttpTlsEmpty(c)
    /\ c.cert = c.key
    /\ c.password => c.key

(* validate_route *)
RouteValid(c) ==
    /\ c.path # "BAD"
    /\ c.path = "PARAM" => c.params >= 1 /\ c.paramBytes >= 2

BodyStatus(s) == s \in 200 .. 599 /\ s \notin {204, 205, 304}

(* server_base_validate *)
H2Valid(c) ==
    LET response == (c.respHeaders + 2) * HpackFieldOverhead + c.respHeaderBytes + HpackGeneratedReserve
        request == c.headerCount * HpackFieldOverhead + c.headerBytes + HpackUpdateReserve
    IN  /\ c.h2Streams # 0 /\ c.h2Table # 0 /\ c.h2Settings # 0
        /\ c.h2Input >= H2InputMin /\ c.h2Output >= H2OutputMin
        /\ c.h2Output >= Max({request, response}) + FrameHeader
        /\ c.h2Output <= c.maxSend

NoH2(c) == c.h2Streams = 0 /\ c.h2Input = 0 /\ c.h2Output = 0 /\ c.h2Table = 0 /\ c.h2Settings = 0

ServerTls(c) ==
    IF ~c.tls THEN ~c.auth
    ELSE /\ c.cert /\ c.key /\ c.auth = c.ca
         /\ c.alpn = IF c.h2 THEN <<"h2", "http/1.1">> ELSE <<"http/1.1">>

ServerBase(c) ==
    /\ c.resource = "SERVER" /\ ~c.serverName /\ c.bind \in {"IPV4", "IPV6"} /\ RouteValid(c)
    /\ c.pathLen <= c.maxTarget
    /\ c.maxSend >= ChunkReserve /\ c.chunk + ChunkReserve <= c.maxSend
    /\ c.buffered <= c.respBody /\ c.bufferCap >= c.maxSend
    /\ c.params # 0 => c.paramBytes # 0
    /\ c.buffered + c.respHeaderBytes + H1ResponseReserve <= c.maxSend
    /\ IF c.h2 THEN H2Valid(c) ELSE NoH2(c)
    /\ ServerTls(c)

(***************************************************************************)
(* The three typed checks.                                                 *)
(***************************************************************************)
(* chttp_typed_client_config *)
TypedClient(c) ==
    /\ NetworkValid(c) /\ c.resource = "CLIENT"
    /\ c.scheme = (IF c.tls THEN "tls" ELSE "tcp") /\ c.uriValid
    /\ c.tls => c.alpn = <<IF c.h2 THEN "h2" ELSE "http/1.1">>
    /\ c.h2 => c.maxSend >= H2OutputMin
    /\ c.startLine > 15 /\ c.headerCount >= 3 /\ c.h2Input >= H2InputMin
    /\ c.maxSend >= ChunkReserve /\ c.chunk + ChunkReserve <= c.maxSend
    /\ c.target + MethodLength(c.method) + 12 <= c.startLine
    /\ c.staticHeaders <= HeaderCapacity /\ c.headersValid
    /\ c.staticHeaders + 3 <= c.headerCount
    /\ c.authority + 8 + 6 * c.staticHeaders <= c.headerBytes
    /\ c.startLine + c.headerBytes + c.body + ChunkReserve <= c.maxSend

(* chttp_typed_server_config: a content type is given 12 bytes of wire *)
TypedServer(c) ==
    /\ NetworkValid(c) /\ ServerBase(c)
    /\ BodyStatus(c.overStatus) /\ BodyStatus(c.goneStatus) /\ BodyStatus(c.errStatus)
    /\ c.typesClean /\ c.buffered >= RefusalText /\ c.errBody <= c.buffered
    /\ c.maxMessage >= c.body
    /\ c.contentType + 12 <= c.respHeaderBytes /\ c.errorType + 12 <= c.respHeaderBytes

(* chttp_typed_websocket_config *)
TypedWebsocket(c) ==
    /\ NetworkValid(c) /\ ServerBase(c)
    /\ c.maxFrame >= MinFrame /\ c.maxWsMessage >= c.maxFrame
    /\ c.maxFrame + WireHeader <= c.maxSend /\ c.inputBytes >= c.maxFrame + WireHeader
    /\ c.sessions <= c.conns * (IF c.h2 THEN c.h2Streams ELSE 1)

HttpTyped(c) ==
    CASE c.kind = "CLIENT" -> TypedClient(c)
      [] c.kind = "SERVER" -> TypedServer(c)
      [] c.kind = "WEBSOCKET" -> TypedWebsocket(c)

(***************************************************************************)
(* The adapters' own checks.                                               *)
(***************************************************************************)
(* chttp_adapter_config_valid, chttp_adapter_uri_valid: GET up to PATCH *)
ClientAccepts(c) ==
    /\ c.method # "OPTIONS" /\ c.authority # 0 /\ c.target # 0
    /\ c.attempts # 0 /\ c.stopMs # 0 /\ c.slots # 0 /\ c.staticHeaders <= c.headerCount
    /\ c.scheme \in {"tcp", "tls", "pipe"} /\ (c.tls <=> c.scheme = "tls")
    /\ ~(c.h2 /\ c.scheme = "pipe")

(* chttp_server_adapter_config_valid, _content_type_fits: 16 bytes of wire *)
ContentTypeFits(c, n) == c.typesClean /\ n # 0 /\ n + 16 <= c.respHeaderBytes
ServerAccepts(c) ==
    /\ c.conns # 0 /\ c.maxMessage # 0 /\ c.buffered >= RefusalText /\ c.path # "BAD"
    /\ c.okStatus \in 200 .. 599 /\ c.errStatus \in 200 .. 599
    /\ BodyStatus(c.overStatus) /\ BodyStatus(c.goneStatus)
    /\ c.errBody # 0 => BodyStatus(c.errStatus) /\ c.errBody <= c.buffered
    /\ ContentTypeFits(c, c.contentType) /\ ContentTypeFits(c, c.errorType)
    /\ c.firstId # 0 /\ c.stopMs # 0

(* websocket_config_valid *)
WebsocketAccepts(c) ==
    /\ c.path # "BAD" /\ c.sessions # 0 /\ c.frames # 0 /\ c.maxFrame >= MinFrame
    /\ c.maxWsMessage >= c.maxFrame /\ c.firstId # 0 /\ c.stopMs # 0
    /\ c.conns # 0 /\ c.commands # 0 /\ c.maxSend # 0
    /\ c.maxFrame + WireHeader <= c.maxSend /\ c.inputBytes >= c.maxFrame + WireHeader
    /\ c.h2 => c.h2Streams # 0
    /\ c.sessions <= c.conns * (IF c.h2 THEN c.h2Streams ELSE 1)

HttpAccepts(c) ==
    CASE c.kind = "CLIENT" -> ClientAccepts(c)
      [] c.kind = "SERVER" -> ServerAccepts(c)
      [] c.kind = "WEBSOCKET" -> WebsocketAccepts(c)

(***************************************************************************)
(* The configurations: a working one of each kind and protocol, with up to *)
(* two of its fields replaced by a value the checks tell apart.            *)
(***************************************************************************)
Network ==
    [version |-> 2, conns |-> 1, commands |-> 2, requests |-> 2, batch |-> 2, events |-> 2,
     maxSend |-> 20000, recv |-> 64, cmdBuf |-> 20000, evBuf |-> 64, tlsIo |-> 0, tlsTimeout |-> 0,
     tls |-> FALSE, h2 |-> FALSE, ca |-> FALSE, cert |-> FALSE, key |-> FALSE, password |-> FALSE,
     serverName |-> FALSE, alpn |-> <<>>, stopMs |-> 1, chunk |-> 64, body |-> 64, headerCount |-> 4,
     headerBytes |-> 64, method |-> "PATCH"]

Both(r, s) == [f \in DOMAIN r \cup DOMAIN s |-> IF Has(s, f) THEN s[f] ELSE r[f]]

HttpClient ==
    Both(Network, [kind |-> "CLIENT", resource |-> "CLIENT", scheme |-> "tcp", uriValid |-> TRUE, slots |-> 1,
     attempts |-> 1, startLine |-> 32, h2Input |-> H2InputMin, target |-> 15, authority |-> 50,
     staticHeaders |-> 1, headersValid |-> TRUE])

Base ==
    Both(Network, [resource |-> "SERVER", bind |-> "IPV4", path |-> "PLAIN", pathLen |-> 4, maxTarget |-> 4,
     params |-> 1, paramBytes |-> 2, respHeaders |-> 1, respHeaderBytes |-> 64, respBody |-> 64,
     buffered |-> 64, bufferCap |-> 20000, h2Streams |-> 0, h2Input |-> 0, h2Output |-> 0, h2Table |-> 0,
     h2Settings |-> 0, auth |-> FALSE, firstId |-> 1])

Server ==
    Both(Base, [kind |-> "SERVER", maxMessage |-> 64, okStatus |-> 200, overStatus |-> 503,
     goneStatus |-> 503, errStatus |-> 500, typesClean |-> TRUE, contentType |-> 48, errorType |-> 48,
     errBody |-> 1])

Websocket ==
    Both(Base, [kind |-> "WEBSOCKET", sessions |-> 1, frames |-> 1, maxFrame |-> 120,
     maxWsMessage |-> 120, inputBytes |-> 120 + WireHeader])

HttpSecured(c) ==
    LET t == [c EXCEPT !.tls = TRUE, !.h2 = TRUE, !.tlsIo = TlsMinIo, !.tlsTimeout = 1, !.cert = TRUE,
                       !.key = TRUE, !.alpn = IF c.kind = "CLIENT" THEN <<"h2">>
                                              ELSE <<"h2", "http/1.1">>]
    IN  IF c.kind = "CLIENT" THEN [t EXCEPT !.scheme = "tls"]
        ELSE [t EXCEPT !.h2Streams = 2, !.h2Input = H2InputMin, !.h2Output = H2OutputMin,
                       !.h2Table = 1, !.h2Settings = 1]

HttpWorking == {HttpClient, Server, Websocket, HttpSecured(HttpClient), HttpSecured(Server), HttpSecured(Websocket)}

HttpOthers(f) ==
    CASE f = "kind" -> {}
      [] f = "version" -> {1}
      [] f = "resource" -> {"OTHER"}
      [] f = "scheme" -> {"tcp", "tls", "pipe"}
      [] f = "bind" -> {"NAME"}
      [] f = "path" -> {"PARAM", "BAD"}
      [] f = "alpn" -> {<<>>, <<"h2">>, <<"http/1.1">>}
      [] f = "method" -> {"OPTIONS"}
      [] f \in {"uriValid", "headersValid", "typesClean", "tls", "h2", "ca", "cert", "key",
                "password", "serverName", "auth"} -> BOOLEAN
      [] f \in {"overStatus", "goneStatus", "errStatus", "okStatus"} -> {204, 600}
      [] f \in {"contentType", "errorType"} -> {0, 49, 52, 53}
      [] f \in {"maxSend", "cmdBuf", "bufferCap"} -> {31, 133, 409, 19999}
      [] f \in {"h2Input", "h2Output"} -> {0, H2InputMin - 1, H2OutputMin - 1}
      [] f \in {"maxFrame", "maxWsMessage", "inputBytes"} -> {0, 1, 119, 121, 133}
      [] f = "tlsIo" -> {0, TlsMinIo - 1, TlsMinIo}
      [] OTHER -> {0, 1, 65}

-----------------------------------------------------------------------------
Init ==
    /\ \/ net = "CNET" /\ \E c \in Working : obj \in Deviations(c) \cup {c}
       \/ /\ net = "CHTTP"
          /\ \E c \in HttpWorking : \E f, g \in DOMAIN c :
                \/ obj = c
                \/ \E v \in HttpOthers(f), w \in HttpOthers(g) :
                      obj = [c EXCEPT ![f] = v, ![g] = w]
    /\ work = None /\ call = "NEW"

Passes(c) == IF net = "CNET" THEN SchemaValid(c) /\ Typed(c) ELSE HttpSchemaValid(c) /\ HttpTyped(c)

Opens(c) == IF net = "CNET" THEN Accepts(c) ELSE HttpAccepts(c)

Preflight ==
    /\ call = "NEW"
    /\ call' = IF Passes(obj) THEN "PREFLIGHTED" ELSE "REFUSED"
    /\ UNCHANGED <<obj, work, net>>

Open ==
    /\ call = "PREFLIGHTED"
    /\ call' = IF Opens(obj) THEN "OPENED" ELSE "UNOPENED"
    /\ UNCHANGED <<obj, work, net>>

Next == Preflight \/ Open

Spec == Init /\ [][Next]_vars

(* A configuration that passed preflight is one its adapter opens: no
   instance is refused after the plan that names it was accepted.  The CHTTP
   plugin has two gaps between the two checks: a client with the method
   OPTIONS, and a server whose content type leaves between 12 and 15 bytes of
   headers. *)
PreflightPredictsOpen ==
    call = "UNOPENED" =>
       /\ net = "CHTTP"
       /\ \/ obj.kind = "CLIENT" /\ obj.method = "OPTIONS"
          \/ /\ obj.kind = "SERVER"
             /\ Max({obj.contentType, obj.errorType}) + 16 > obj.respHeaderBytes
=============================================================================
