----------------------------- MODULE Listeners ------------------------------
(***************************************************************************)
(* main: the futures that try_join! polls, all in one task, with the two   *)
(* listeners in detail.  While watch_config is not suspended, none of the  *)
(* others is polled.  The HTTP listener hands an accepted connection on at *)
(* once; the HTTPS listener accepts the next only when the TLS handshake   *)
(* of the last is over, which takes as long as the client likes.  An error *)
(* or a panic of one future ends the process: a bind or an accept that     *)
(* fails, or a client that has reset its connection when server::create    *)
(* asks for its address.                                                   *)
(***************************************************************************)
EXTENDS Acme

CONSTANTS
  Http,          \* connections to the HTTP listener
  Https,         \* connections to the HTTPS listener
  Local          \* the names with a certificate in a file

VARIABLES
  process,       \* "running" or "ended"
  https,         \* the HTTPS listener accepts connections
  backlog,       \* the connections of each listener not accepted yet
  shaking,       \* the connection in the TLS handshake, if any
  gone,          \* those of them whose client has left
  hanging,       \* those of them whose client stops in the handshake
  certificates,  \* the names in RuntimeConfig::certificates
  obtained       \* history: the names certified by ACME in this reload

connVars == <<backlog, shaking, gone, hanging>>
certVars == <<certificates, obtained>>
mainVars == <<vars, process, https, connVars, certVars>>

NoBacklog == [scheme \in {"HTTP", "HTTPS"} |-> <<>>]

(* read_initial_config leaves the ACME names out.                          *)
MainInit ==
  /\ Init
  /\ process = "running" /\ https = FALSE
  /\ backlog = NoBacklog
  /\ shaking = {} /\ gone = {} /\ hanging = {}
  /\ certificates = Local /\ obtained = {}
-----------------------------------------------------------------------------
(* initiate_challenge returns the certificate of the domain in hand.       *)
Obtain(ok) == obtained' = obtained \cup {Domains[i] : i \in {i \in DOMAIN Domains : ok /\ i = next}}

(* The end of a reload: a certificate does not load or is not for the name *)
(* it is configured for, or the new configuration is stored.               *)
StoreCertificates ==
  /\ FinishReload
  /\ certificates' \in {certificates, Local \cup {Domains[i] : i \in DOMAIN Domains}}

WatchConfig ==
  /\ process = "running"
  /\ \/ Reload /\ obtained' = {} /\ UNCHANGED certificates
     \/ InitiateChallenge /\ Obtain(next' > next) /\ UNCHANGED certificates
     \/ HandleMessage /\ Obtain(message.ok) /\ UNCHANGED certificates
     \/ Receive /\ UNCHANGED certVars
     \/ StoreCertificates /\ UNCHANGED obtained
  /\ UNCHANGED <<process, https, connVars>>

AcmeThread ==
  /\ process = "running"
  /\ ThreadStep
  /\ UNCHANGED <<process, https, connVars, certVars>>

AcmeServer ==
  /\ process = "running"
  /\ ServerAsks
  /\ UNCHANGED <<process, https, connVars, certVars>>
-----------------------------------------------------------------------------
(* try_join! gets to the listeners once watch_config is suspended.         *)
Polled == process = "running" /\ task \in {"recv", "idle"}

(* The process ends, and the operating system closes its connections.      *)
End ==
  /\ process' = "ended" /\ backlog' = NoBacklog
  /\ shaking' = {} /\ gone' = {} /\ hanging' = {}

(* produce_acceptor: the HTTP listener is polled before the HTTPS one.     *)
Bind ==
  /\ Polled
  /\ \/ ~https /\ End /\ UNCHANGED <<vars, https, certVars>>
     \/ Listen /\ UNCHANGED <<process, https, connVars, certVars>>
     \/ /\ listening /\ ~https
        /\ https' = TRUE
        /\ UNCHANGED <<vars, process, connVars, certVars>>

(* listener.accept().await? returns an error.                              *)
AcceptFails == Polled /\ listening /\ End /\ UNCHANGED <<vars, https, certVars>>

(* The connection is closed, or has a task of its own.                     *)
HandOn(c) == gone' = gone \ {c} /\ hanging' = hanging \ {c} /\ UNCHANGED process

(* server::create: remote_addr().expect() panics if the client has left by *)
(* a reset, which leaves no address; one that closed its end still has it. *)
(* Otherwise the connection gets a task.                                   *)
Create(c) == (c \in gone /\ End) \/ HandOn(c)

(* Mutated: one acceptor waits for the handshakes of the other.            *)
AcceptHttpAfterHandshake ==
  /\ Polled /\ backlog["HTTP"] # <<>> /\ shaking = {}
  /\ Create(Head(backlog["HTTP"]))
  /\ process' = "running" => /\ backlog' = [backlog EXCEPT !["HTTP"] = Tail(@)]
                             /\ UNCHANGED shaking
  /\ UNCHANGED <<vars, https, certVars>>

AcceptHttp ==
  /\ Polled /\ backlog["HTTP"] # <<>>
  /\ Create(Head(backlog["HTTP"]))
  /\ process' = "running" => /\ backlog' = [backlog EXCEPT !["HTTP"] = Tail(@)]
                             /\ UNCHANGED shaking
  /\ UNCHANGED <<vars, https, certVars>>

(* Mutated: the next connection is accepted while a handshake goes on.     *)
AcceptHttpsAtOnce ==
  /\ Polled /\ backlog["HTTPS"] # <<>>
  /\ backlog' = [backlog EXCEPT !["HTTPS"] = Tail(@)]
  /\ shaking' = shaking \cup {Head(backlog["HTTPS"])}
  /\ UNCHANGED <<vars, process, https, gone, hanging, certVars>>

AcceptHttps ==
  /\ Polled /\ backlog["HTTPS"] # <<>> /\ shaking = {}
  /\ backlog' = [backlog EXCEPT !["HTTPS"] = Tail(@)]
  /\ shaking' = {Head(backlog["HTTPS"])}
  /\ UNCHANGED <<vars, process, https, gone, hanging, certVars>>

(* ResolvesServerCert::resolve, none without a name.                       *)
resolve(name) == name \cap certificates

(* Mutated: it is not noticed that a client left in the handshake.         *)
HandshakeEndsWithClient ==
  /\ Polled
  /\ \E c \in shaking \ (hanging \cup gone), name \in {{}} \cup {{n} : n \in Local \cup Domain} :
       \/ (resolve(name) = {} \/ c \in gone) /\ HandOn(c)
       \/ resolve(name) # {} /\ Create(c)
  /\ process' = "running" => shaking' = {} /\ UNCHANGED backlog
  /\ UNCHANGED <<vars, https, certVars>>

(* tls_acceptor.accept returns.  The client names a server, or none; the   *)
(* handshake fails for want of a certificate or because the client left,   *)
(* which it may also do just after the end of the handshake.               *)
HandshakeEnds ==
  /\ Polled
  /\ \E c \in shaking \ (hanging \ gone), name \in {{}} \cup {{n} : n \in Local \cup Domain} :
       \/ (resolve(name) = {} \/ c \in gone) /\ HandOn(c)
       \/ resolve(name) # {} /\ Create(c)
  /\ process' = "running" => shaking' = {} /\ UNCHANGED backlog
  /\ UNCHANGED <<vars, https, certVars>>
-----------------------------------------------------------------------------
Waiting == UNION {{backlog[scheme][i] : i \in DOMAIN backlog[scheme]} : scheme \in {"HTTP", "HTTPS"}}

(* A client connects to a listener that is bound.                          *)
Connect(c) ==
  /\ process = "running" /\ c \notin Waiting \cup shaking
  /\ \/ c \in Http /\ listening /\ backlog' = [backlog EXCEPT !["HTTP"] = Append(@, c)]
     \/ c \in Https /\ https /\ backlog' = [backlog EXCEPT !["HTTPS"] = Append(@, c)]
  /\ hanging' \in IF c \in Https THEN {hanging, hanging \cup {c}} ELSE {hanging}
  /\ UNCHANGED <<vars, process, https, shaking, gone, certVars>>

Leave(c) ==
  /\ process = "running" /\ c \in (Waiting \cup shaking) \ gone
  /\ gone' = gone \cup {c}
  /\ UNCHANGED <<vars, process, https, backlog, shaking, hanging, certVars>>

HttpListener == AcceptFails \/ AcceptHttp
HttpsListener == AcceptHttps \/ HandshakeEnds
AcmeOrder == AcmeThread \/ AcmeServer

MainNext ==
  \/ WatchConfig \/ AcmeOrder \/ Bind \/ HttpListener \/ HttpsListener
  \/ \E c \in Http \cup Https : Connect(c) \/ Leave(c)

MainSpec == MainInit /\ [][MainNext]_mainVars

(* The runtime polls main's task, and try_join! all of its futures each    *)
(* time, so a listener that can go on whenever watch_config is suspended   *)
(* does: strong fairness.  The operating system runs the thread, and the   *)
(* ACME server answers it; one of them at most has a step to take.  The    *)
(* clients and the next reload may never come.                             *)
FairMainSpec ==
  /\ MainSpec
  /\ WF_mainVars(WatchConfig /\ task # "idle") /\ WF_mainVars(AcmeOrder)
  /\ SF_mainVars(AcceptHttp) /\ SF_mainVars(HttpsListener)
-----------------------------------------------------------------------------
MainTypeOK ==
  /\ TypeOK
  /\ process \in {"running", "ended"} /\ https \in BOOLEAN
  /\ backlog["HTTP"] \in Seq(Http) /\ backlog["HTTPS"] \in Seq(Https)
  /\ shaking \subseteq Https /\ \A c, d \in shaking : c = d
  /\ gone \cup hanging \subseteq Http \cup Https
  /\ certificates \subseteq Local \cup Domain /\ obtained \subseteq Domain

(* A name of an ACME domain is served only with a certificate that this    *)
(* reload has ordered, or found on disk: a reload in which one domain      *)
(* fails changes nothing, and the initial configuration has none of them.  *)
CertificatesWereObtained ==
  [][certificates' # certificates => certificates' \subseteq Local \cup obtained]_mainVars

(* Every reload comes to its end, whatever handshakes are under way and    *)
(* wherever their clients stopped.                                         *)
ReloadsEnd == (task # "idle") ~> (task = "idle" \/ process = "ended")

(* An HTTP connection is accepted, also while a TLS handshake hangs and    *)
(* while reloads follow each other and wait for the ACME server.           *)
HttpIsAccepted ==
  \A c \in Http : c \in Waiting ~> (c \notin Waiting \/ process = "ended")

(* An HTTPS connection is accepted unless it is behind one whose client    *)
(* stopped in the handshake.                                               *)
HttpsWaitsForHandshakesOnly ==
  \A c \in Https : c \in Waiting ~>
    (c \notin Waiting \/ process = "ended" \/ shaking \cap (hanging \ gone) # {})
=============================================================================
