---------------------------- MODULE ClientLifecycle ----------------------------
(***************************************************************************)
(* The Dataplane client shared by the worker and the readiness probes      *)
(* (getOrCreateClient, DataplaneReady and Close in                         *)
(* internal/controller/secret_controller.go): created on first use under   *)
(* clientMu, from the mounted files or from a SPIRE X509Source that the    *)
(* shutdown has to close.                                                  *)
(***************************************************************************)
EXTENDS Credentials

CONSTANTS
  Worker,      (* the controller's goroutine; the other callers are probes  *)
  None,        (* nobody, nothing                                           *)
  MaxOutages   (* bound: times the SPIRE agent goes away                    *)

ASSUME LifecycleAssumption == Worker \in Callers /\ None \notin Callers /\ MaxOutages \in Nat

VARIABLES
  spire, urlParses,  (* the configuration: SPIRE socket set, usable URL     *)
  agentUp, outages,  (* the SPIRE agent answers                             *)
  phase,             (* the manager: running, stopping, exited              *)
  elected,           (* this process is the leader                          *)
  closed,            (* spireSourceCloser has run                           *)
  clientMu,          (* who holds the mutex                                 *)
  clientReady,
  haproxyClient,     (* generation NewClient loaded, or 0                   *)
  spireSource,       (* the caller that created the published source        *)
  open,              (* callers whose source is open                        *)
  pc,
  expired,           (* probes whose ten seconds are over                   *)
  ready              (* the last answer of /readyz                          *)

fieldVars   == <<clientMu, clientReady, haproxyClient, spireSource, open>>
processVars == <<spire, urlParses, phase, elected, closed>>
agentVars   == <<agentUp, outages>>
lifeVars    == <<tlsVars, fieldVars, processVars, agentVars, pc, expired, ready>>

Probes == Callers \ {Worker}

-----------------------------------------------------------------------------
Goto(a, step) == pc' = [pc EXCEPT ![a] = step]

(* The call returns: a probe with its verdict. *)
Return(a, ok) ==
  /\ Goto(a, "idle")
  /\ expired' = expired \ {a}
  /\ ready' = IF a \in Probes THEN ok ELSE ready

(* A reconcile, on the leader, or a probe. *)
Call(a) ==
  /\ pc[a] = "idle"
  /\ IF a = Worker THEN elected /\ phase = "running" ELSE phase # "exited"
  /\ Goto(a, "lock")
  /\ UNCHANGED <<tlsVars, fieldVars, processVars, agentVars, expired, ready>>

(* Variant: every caller makes a client of its own. *)
NeedsClient_Always == TRUE

NeedsClient == ~clientReady

Acquire(a) ==
  /\ pc[a] = "lock" /\ clientMu = None
  /\ IF NeedsClient
       THEN clientMu' = a /\ Goto(a, IF spire THEN "source" ELSE "build")
       ELSE UNCHANGED clientMu /\ Goto(a, "send")
  /\ UNCHANGED <<tlsVars, processVars, agentVars, clientReady, haproxyClient, spireSource, open,
                 expired, ready>>

(* The deadline of a probe does not end its wait for the mutex. *)
DeadlinePasses(a) ==
  /\ a \in Probes \ expired
  /\ \/ pc[a] = "lock" /\ clientMu # None
     \/ pc[a] = "source" /\ ~agentUp
  /\ expired' = expired \cup {a}
  /\ UNCHANGED <<tlsVars, fieldVars, processVars, agentVars, pc, ready>>

(* The worker's context ends with the manager's, and has no deadline. *)
CtxDone(a) == IF a = Worker THEN phase # "running" ELSE a \in expired

(* NewX509Source blocks until the agent has answered. *)
SourceOpens(a) ==
  /\ pc[a] = "source" /\ agentUp /\ ~CtxDone(a)
  /\ open' = open \cup {a}
  /\ Goto(a, "build")
  /\ UNCHANGED <<tlsVars, processVars, agentVars, clientMu, clientReady, haproxyClient, spireSource,
                 expired, ready>>

(* Variant: the outcome of the first attempt is kept, with the lock. *)
SourceFails_KeepsLock(a) ==
  /\ pc[a] = "source" /\ CtxDone(a)
  /\ Return(a, FALSE)
  /\ UNCHANGED <<tlsVars, fieldVars, processVars, agentVars>>

SourceFails(a) ==
  /\ pc[a] = "source" /\ CtxDone(a)
  /\ clientMu' = None
  /\ Return(a, FALSE)
  /\ UNCHANGED <<tlsVars, processVars, agentVars, clientReady, haproxyClient, spireSource, open>>

(* With files, NewClient loads all of them once; a pair torn by a renewal  *)
(* fails like an absent one and is left out.                               *)
Buildable == urlParses /\ (spire \/ mount # 0)

Publish(a) ==
  /\ pc[a] = "build" /\ Buildable
  /\ clientReady' = TRUE /\ clientMu' = None
  /\ haproxyClient' = mount
  /\ spireSource' = IF spire THEN a ELSE None
  /\ Goto(a, "send")
  /\ UNCHANGED <<tlsVars, processVars, agentVars, open, expired, ready>>

(* Variant: the source of a client that could not be built stays open. *)
BuildFails_LeavesSource(a) ==
  /\ pc[a] = "build" /\ ~Buildable
  /\ clientMu' = None
  /\ Return(a, FALSE)
  /\ UNCHANGED <<tlsVars, processVars, agentVars, clientReady, haproxyClient, spireSource, open>>

BuildFails(a) ==
  /\ pc[a] = "build" /\ ~Buildable
  /\ open' = open \ {a}
  /\ clientMu' = None
  /\ Return(a, FALSE)
  /\ UNCHANGED <<tlsVars, processVars, agentVars, clientReady, haproxyClient, spireSource>>

-----------------------------------------------------------------------------
(* One request with the client: Ping for a probe, any call for the worker. *)
(* The handshake verifies the gateway first, then shows the client's leaf. *)

requestFrame == <<fieldVars, processVars, agentVars>>

Fail(a) == Return(a, FALSE) /\ Hangup(a, FALSE) /\ UNCHANGED serverExpiry

Send(a) ==
  /\ pc[a] = "send"
  /\ \/ a \in expired /\ Fail(a)
     \/ a \notin expired /\ Reuse(a) /\ Goto(a, "await") /\ UNCHANGED <<expired, ready>>
     \/ a \notin expired /\ Dial(a) /\ Goto(a, "verify") /\ UNCHANGED <<expired, ready>>
  /\ UNCHANGED requestFrame

(* A SPIRE client asks its source for everything. *)
VerifyServer(a) ==
  /\ pc[a] = "verify"
  /\ LET trusted == IF spire THEN spireSource \in open ELSE Trusts(Material(haproxyClient), conn[a])
     IN  IF trusted /\ a \notin broken
           THEN /\ Goto(a, IF spire THEN "await" ELSE "read cert")
                /\ UNCHANGED <<tlsVars, expired, ready>>
           ELSE Fail(a)
  /\ UNCHANGED requestFrame

ReadClientCert(a) ==
  /\ pc[a] = "read cert"
  /\ ReadCert(a, haproxyClient)
  /\ Goto(a, "read key")
  /\ UNCHANGED <<requestFrame, expired, ready>>

ReadClientKey(a) ==
  /\ pc[a] = "read key"
  /\ IF KeyFits(a, haproxyClient) /\ a \notin broken
       THEN Goto(a, "await") /\ UNCHANGED <<tlsVars, expired, ready>>
       ELSE Fail(a)
  /\ UNCHANGED requestFrame

Await(a) ==
  /\ pc[a] = "await"
  /\ IF a \in broken
       THEN Fail(a)
       ELSE Goto(a, "answered") /\ UNCHANGED <<tlsVars, expired, ready>>
  /\ UNCHANGED requestFrame

Answered(a) ==
  /\ pc[a] = "answered"
  /\ ObserveServerCert(a) /\ Hangup(a, TRUE)
  /\ Return(a, TRUE)
  /\ UNCHANGED requestFrame

-----------------------------------------------------------------------------
(* The process: election, shutdown, and spireSourceCloser, which reads     *)
(* spireSource without the mutex.                                          *)

Elect ==
  /\ ~elected /\ phase = "running"
  /\ elected' = TRUE
  /\ UNCHANGED <<tlsVars, fieldVars, agentVars, spire, urlParses, phase, closed, pc, expired, ready>>

Shutdown ==
  /\ phase = "running" /\ phase' = "stopping"
  /\ UNCHANGED <<tlsVars, fieldVars, agentVars, spire, urlParses, elected, closed, pc, expired, ready>>

(* A runnable that needs leader election starts only on the leader, and    *)
(* waits for the end of the manager's context.                             *)
CloserDue == phase = "stopping" /\ elected /\ ~closed

(* Variant: the source is dropped, not closed. *)
Close_Forgets ==
  /\ CloserDue
  /\ closed' = TRUE /\ spireSource' = None
  /\ UNCHANGED <<tlsVars, agentVars, spire, urlParses, phase, elected, clientMu, clientReady,
                 haproxyClient, open, pc, expired, ready>>

Close ==
  /\ CloserDue
  /\ closed' = TRUE
  /\ open' = open \ {spireSource}
  /\ UNCHANGED <<tlsVars, agentVars, spire, urlParses, phase, elected, clientMu, clientReady,
                 haproxyClient, spireSource, pc, expired, ready>>

(* The manager waits for its runnables, or gives them up. *)
Exit ==
  /\ phase = "stopping" /\ phase' = "exited"
  /\ UNCHANGED <<tlsVars, fieldVars, agentVars, spire, urlParses, elected, closed, pc, expired, ready>>

Agent ==
  /\ spire /\ agentUp' = ~agentUp
  /\ outages' = IF agentUp THEN outages + 1 ELSE outages
  /\ outages' <= MaxOutages
  /\ UNCHANGED <<tlsVars, fieldVars, processVars, pc, expired, ready>>

Rotate ==
  /\ (~spire /\ RotateMount) \/ InstallLeaf
  /\ UNCHANGED <<fieldVars, processVars, agentVars, pc, expired, ready>>

CertWatcher ==
  /\ ~spire /\ phase # "exited"
  /\ ObserveClientCertFile
  /\ UNCHANGED <<fieldVars, processVars, agentVars, pc, expired, ready>>

-----------------------------------------------------------------------------
(* The files are those of the gateway's last installation, or are not      *)
(* mounted yet.                                                            *)
LifeInit ==
  /\ spire \in BOOLEAN /\ urlParses \in BOOLEAN
  /\ agentUp = FALSE /\ outages = 0
  /\ phase = "running" /\ elected \in BOOLEAN /\ closed = FALSE
  /\ clientMu = None /\ clientReady = FALSE /\ haproxyClient = 0
  /\ spireSource = None /\ open = {}
  /\ pc = [a \in Callers |-> "idle"] /\ expired = {} /\ ready = FALSE
  /\ gatewayLeaf \in Generations /\ pooled = {}
  /\ mount \in IF spire THEN {0} ELSE {0, gatewayLeaf}
  /\ conn = [a \in Callers |-> 0] /\ broken = {} /\ crt = [a \in Callers |-> 0]
  /\ serverExpiry = 0 /\ clientExpiry = 0 /\ rotations = 0

Create(a) ==
  Call(a) \/ DeadlinePasses(a) \/ SourceOpens(a) \/ SourceFails(a) \/ Publish(a) \/ BuildFails(a)

Request(a) ==
  \/ Send(a) \/ VerifyServer(a) \/ ReadClientCert(a) \/ ReadClientKey(a) \/ Await(a) \/ Answered(a)

CallerStep(a) == phase # "exited" /\ (Create(a) \/ Request(a))

LifeNext ==
  \/ \E a \in Callers : CallerStep(a) \/ (phase # "exited" /\ Acquire(a))
  \/ Elect \/ Shutdown \/ Close \/ Exit \/ Agent \/ Rotate \/ CertWatcher

LifeSpec == LifeInit /\ [][LifeNext]_lifeVars

(* Requests and probes keep coming, deadlines pass, a Go mutex starves     *)
(* nobody, and the watcher ticks.                                          *)
FairLifeSpec ==
  /\ LifeSpec
  /\ \A a \in Callers : WF_lifeVars(CallerStep(a)) /\ SF_lifeVars(Acquire(a))
  /\ WF_lifeVars(CertWatcher)

-----------------------------------------------------------------------------
Steps == {"idle", "lock", "source", "build", "send", "verify", "read cert", "read key", "await", "answered"}

(* Every variable keeps its type, and the mutex is held exactly inside the *)
(* critical section of getOrCreateClient.                                  *)
LifeTypeOK ==
  /\ pc \in [Callers -> Steps]
  /\ mount \in Generations \cup {0} /\ gatewayLeaf \in Generations /\ pooled \subseteq Generations
  /\ conn \in [Callers -> Generations \cup {0}] /\ crt \in [Callers -> Generations \cup {0}]
  /\ broken \subseteq Callers /\ expired \subseteq Probes /\ ready \in BOOLEAN
  /\ serverExpiry \in Generations \cup {0} /\ clientExpiry \in Generations \cup {0}
  /\ phase \in {"running", "stopping", "exited"} /\ clientReady \in BOOLEAN
  /\ haproxyClient \in Generations \cup {0} /\ spireSource \in Callers \cup {None}
  /\ clientMu \in Callers \cup {None} /\ open \subseteq Callers
  /\ \A a \in Callers : pc[a] \in {"source", "build"} <=> clientMu = a

(* Until the shutdown the open SPIRE sources are the published one and the *)
(* one under construction: none is lost when a second caller arrives, a    *)
(* probe's deadline passes or the client cannot be built, and none is      *)
(* closed that the client still uses.                                      *)
Building == {a \in Callers : spire /\ pc[a] = "build"}
SourcesAccountedFor ==
  ~closed => open = Building \cup (IF spire /\ clientReady THEN {spireSource} ELSE {})

(* The closer leaves a source open only if its creator had not left        *)
(* getOrCreateClient when the closer looked (transport.go: "The caller     *)
(* must close the returned X509Source when the operator shuts down").      *)
CloseStep == closed' /\ ~closed => open' \subseteq Building
CloseLeavesOnlyUnpublished == [][CloseStep]_lifeVars

Serviceable ==
  /\ phase = "running" /\ urlParses
  /\ IF spire THEN agentUp ELSE Trusts(mount, gatewayLeaf)

(* Once client and gateway can understand each other the probes say so for *)
(* good: no failure of the creation is cached, no caller is stuck behind   *)
(* the mutex, no handshake uses credentials that were replaced.            *)
ReadyFollows == <>[]Serviceable => <>[]ready

(* The expiry gauges end up with the certificates in use, although late    *)
(* answers of dropped connections report the old one.                      *)
GaugesFollow ==
  <>[]Serviceable => <>[](serverExpiry = gatewayLeaf /\ (~spire => clientExpiry = mount))
=============================================================================
