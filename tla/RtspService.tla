----------------------------- MODULE RtspService -----------------------------
(***************************************************************************)
(* rv1126b::RTSPServer as the programs of the SDK use it, with the clients  *)
(* on the network.  The class is in the prebuilt library; this module keeps *)
(* what its header says: start() opens a listening port, push_frame() hands *)
(* a frame to every connected client and is an error when the server is not *)
(* running, stop() disconnects all clients.                                 *)
(*                                                                         *)
(* A client knows a URL, of which only the port matters, and connects to    *)
(* that port.  A URL without a port means DefaultPort, where something else *)
(* or nothing listens when the server has another port.                     *)
(***************************************************************************)
EXTENDS Integers, Sequences, FiniteSets

CONSTANTS
  Client,       \* RTSP clients on the network
  DefaultPort,  \* 554, the port of an rtsp:// URL that names none
  ServerPort    \* rtsp_cfg.port

Ports == {DefaultPort, ServerPort} \subseteq Nat \ {0}

VARIABLES
  port,      \* port the server listens on, 0 when it is not running
  url,       \* port of the URL each client was told, 0 for none
  watching,  \* connected clients
  refused,   \* clients that tried their URL while the server was running
             \* and did not reach it
  seen       \* pts of the frames each client received

rtspVars == <<port, url, watching, refused, seen>>

RtspInit ==
  /\ port = 0 /\ watching = {} /\ refused = {}
  /\ url = [c \in Client |-> 0]
  /\ seen = [c \in Client |-> <<>>]

Running == port # 0

\* Result<void> start(const Config&): an error leaves the server stopped.
RtspStart ==
  /\ port' = ServerPort
  /\ UNCHANGED <<url, watching, refused, seen>>

\* void stop()
RtspStop ==
  /\ port' = 0
  /\ watching' = {}
  /\ UNCHANGED <<url, refused, seen>>

\* Result<void> push_frame(): without a running server nobody is watching.
RtspPush(pts) ==
  /\ seen' = [c \in Client |->
                IF Running /\ c \in watching THEN Append(seen[c], pts) ELSE seen[c]]
  /\ UNCHANGED <<port, url, watching, refused>>

\* int client_count()
client_count == Cardinality(watching)

\* A client is told a URL with port p.
Told(c, p) ==
  /\ url[c] = 0
  /\ url' = [url EXCEPT ![c] = p]
  /\ UNCHANGED <<port, watching, refused, seen>>

Connect(c) ==
  /\ url[c] # 0 /\ c \notin watching /\ Running
  /\ IF url[c] = port
       THEN watching' = watching \union {c} /\ UNCHANGED refused
       ELSE refused' = refused \union {c} /\ UNCHANGED watching
  /\ UNCHANGED <<port, url, seen>>

Leave(c) ==
  /\ c \in watching
  /\ watching' = watching \ {c}
  /\ UNCHANGED <<port, url, refused, seen>>

RtspTypeOK ==
  /\ port \in {0, ServerPort}
  /\ url \in [Client -> {0, DefaultPort, ServerPort}]
  /\ watching \subseteq Client /\ refused \subseteq Client
  /\ seen \in [Client -> Seq(Nat)]
=============================================================================
