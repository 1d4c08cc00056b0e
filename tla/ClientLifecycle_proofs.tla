------------------------- MODULE ClientLifecycle_proofs -------------------------
(***************************************************************************)
(* Proofs about ClientLifecycle: the mutex excludes, and every SPIRE       *)
(* source is accounted for up to the shutdown, for any number of probes,   *)
(* any certificates and any bounds.                                        *)
(***************************************************************************)
EXTENDS ClientLifecycle, TLAPS

-----------------------------------------------------------------------------
(* The inductive invariant. *)

Critical == {"source", "build"}

(* From the dial or the reuse on a caller has a connection. *)
Connected ==
  \A a \in Callers : pc[a] \in {"verify", "read cert", "read key", "await", "answered"} =>
    conn[a] \in Generations

(* Whoever creates a client found none, and nobody else can publish one;   *)
(* the agent is asked only where SPIRE is configured.                      *)
CreatesOnce ==
  \A a \in Callers : (pc[a] \in Critical => ~clientReady) /\ (pc[a] = "source" => spire)

LifeInv == LifeTypeOK /\ Connected /\ CreatesOnce /\ SourcesAccountedFor

-----------------------------------------------------------------------------
LEMMA InitialState == LifeInit => LifeInv
<1> SUFFICES ASSUME LifeInit PROVE LifeInv
  OBVIOUS
<1>1. \A a \in Callers : pc[a] = "idle"
  BY DEF LifeInit
<1>2. LifeTypeOK
  BY <1>1, LifecycleAssumption DEF LifeInit, LifeTypeOK, Steps
<1>3. Connected /\ CreatesOnce
  BY <1>1 DEF Connected, CreatesOnce, Critical
<1>4. SourcesAccountedFor
  BY <1>1 DEF LifeInit, SourcesAccountedFor, Building
<1>5. QED
  BY <1>2, <1>3, <1>4 DEF LifeInv

(* What one caller does between two steps outside the critical section     *)
(* leaves mutex and sources alone.                                         *)
LEMMA OutsideCritical ==
  ASSUME LifeInv, NEW a \in Callers, NEW step \in Steps \ Critical,
         pc[a] \notin Critical, Goto(a, step),
         UNCHANGED <<clientMu, clientReady, spireSource, open, spire, closed>>
  PROVE  /\ pc' \in [Callers -> Steps]
         /\ \A b \in Callers : pc'[b] \in Critical <=> clientMu' = b
         /\ CreatesOnce' /\ SourcesAccountedFor'
<1>1. /\ pc' = [pc EXCEPT ![a] = step] /\ pc \in [Callers -> Steps]
      /\ \A b \in Callers : pc[b] \in Critical <=> clientMu = b
  BY DEF Goto, LifeInv, LifeTypeOK, Critical
<1>2. /\ pc' \in [Callers -> Steps]
      /\ \A b \in Callers : pc'[b] = IF b = a THEN step ELSE pc[b]
  BY <1>1
<1>3. \A b \in Callers : pc'[b] \in Critical <=> clientMu' = b
  BY <1>1, <1>2
<1>4. CreatesOnce'
  BY <1>2 DEF LifeInv, CreatesOnce, Critical
<1>5. Building' = Building
  BY <1>2 DEF Building, Critical
<1>6. SourcesAccountedFor'
  BY <1>5 DEF LifeInv, SourcesAccountedFor
<1>7. QED
  BY <1>2, <1>3, <1>4, <1>6

(* Conn and the other TLS variables while nobody uses the network.         *)
LEMMA TlsStays ==
  ASSUME LifeInv, UNCHANGED tlsVars
  PROVE  /\ mount' \in Generations \cup {0} /\ gatewayLeaf' \in Generations /\ pooled' \subseteq Generations
         /\ conn' \in [Callers -> Generations \cup {0}] /\ crt' \in [Callers -> Generations \cup {0}]
         /\ broken' \subseteq Callers
         /\ serverExpiry' \in Generations \cup {0} /\ clientExpiry' \in Generations \cup {0}
BY DEF tlsVars, LifeInv, LifeTypeOK

-----------------------------------------------------------------------------
(* getOrCreateClient. *)

LEMMA ApproachSteps ==
  ASSUME LifeInv, NEW a \in Callers, Call(a) \/ DeadlinePasses(a)
  PROVE  LifeInv'
<1>1. UNCHANGED <<tlsVars, fieldVars, processVars, ready>>
  BY DEF Call, DeadlinePasses
<1>2. expired' \subseteq Probes
  BY DEF Call, DeadlinePasses, LifeInv, LifeTypeOK
<1>3. CASE Call(a)
  <2>1. pc[a] = "idle" /\ Goto(a, "lock") /\ "lock" \in Steps \ Critical
    BY <1>3 DEF Call, Steps, Critical
  <2>2. /\ pc' \in [Callers -> Steps]
        /\ \A b \in Callers : pc'[b] \in Critical <=> clientMu' = b
        /\ CreatesOnce' /\ SourcesAccountedFor'
    BY <1>1, <2>1, OutsideCritical DEF fieldVars, processVars, Critical
  <2>3. LifeTypeOK'
    BY <1>1, <1>2, <2>2, TlsStays DEF fieldVars, processVars, LifeInv, LifeTypeOK, Critical
  <2>4. Connected'
    BY <1>1, <2>1 DEF tlsVars, Goto, LifeInv, LifeTypeOK, Connected
  <2>5. QED
    BY <2>2, <2>3, <2>4 DEF LifeInv
<1>4. CASE DeadlinePasses(a)
  <2>1. UNCHANGED pc
    BY <1>4 DEF DeadlinePasses
  <2>2. LifeTypeOK'
    BY <1>1, <1>2, <2>1, TlsStays DEF fieldVars, processVars, LifeInv, LifeTypeOK
  <2>3. QED
    BY <1>1, <2>1, <2>2
       DEF fieldVars, processVars, tlsVars, LifeInv, Connected, CreatesOnce, SourcesAccountedFor, Building
<1>5. QED
  BY <1>3, <1>4

LEMMA AcquireStep ==
  ASSUME LifeInv, NEW a \in Callers, Acquire(a)
  PROVE  LifeInv'
<1>1. /\ UNCHANGED <<tlsVars, processVars, clientReady, haproxyClient, spireSource, open, expired, ready>>
      /\ pc[a] = "lock" /\ clientMu = None
      /\ pc \in [Callers -> Steps] /\ (\A b \in Callers : pc[b] \in Critical <=> clientMu = b)
  BY DEF Acquire, LifeInv, LifeTypeOK, Critical
<1>2. CASE clientReady
  <2>1. Goto(a, "send") /\ UNCHANGED clientMu /\ "send" \in Steps \ Critical
    BY <1>2 DEF Acquire, NeedsClient, Steps, Critical
  <2>2. /\ pc' \in [Callers -> Steps]
        /\ \A b \in Callers : pc'[b] \in Critical <=> clientMu' = b
        /\ CreatesOnce' /\ SourcesAccountedFor'
    BY <1>1, <2>1, OutsideCritical DEF processVars, Critical
  <2>3. LifeTypeOK'
    BY <1>1, <2>1, <2>2, TlsStays DEF processVars, LifeInv, LifeTypeOK, Critical
  <2>4. Connected'
    BY <1>1, <2>1 DEF tlsVars, Goto, LifeInv, Connected
  <2>5. QED
    BY <2>2, <2>3, <2>4 DEF LifeInv
<1>3. CASE ~clientReady
  <2>1. clientMu' = a /\ pc' = [pc EXCEPT ![a] = IF spire THEN "source" ELSE "build"]
    BY <1>3 DEF Acquire, NeedsClient, Goto
  <2>2. \A b \in Callers : pc[b] \notin Critical
    BY <1>1, LifecycleAssumption
  <2>3. /\ pc' \in [Callers -> Steps]
        /\ \A b \in Callers : pc'[b] = IF b # a THEN pc[b] ELSE IF spire THEN "source" ELSE "build"
    BY <1>1, <2>1 DEF Steps
  <2>4. \A b \in Callers : pc'[b] \in Critical <=> clientMu' = b
    BY <2>1, <2>2, <2>3 DEF Critical
  <2>5. LifeTypeOK'
    BY <1>1, <2>1, <2>3, <2>4, TlsStays DEF processVars, LifeInv, LifeTypeOK, Critical
  <2>6. Connected'
    BY <1>1, <2>3 DEF tlsVars, LifeInv, Connected
  <2>7. CreatesOnce'
    BY <1>1, <1>3, <2>3 DEF processVars, LifeInv, CreatesOnce
  <2>8. Building' = Building
    BY <1>1, <2>2, <2>3 DEF Building, Critical, processVars
  <2>9. SourcesAccountedFor'
    BY <1>1, <2>8 DEF processVars, LifeInv, SourcesAccountedFor
  <2>10. QED
    BY <2>5, <2>6, <2>7, <2>9 DEF LifeInv
<1>4. QED
  BY <1>2, <1>3

(* Inside the critical section the caller is alone. *)
LEMMA Alone ==
  ASSUME LifeInv, NEW a \in Callers, pc[a] \in Critical
  PROVE  /\ clientMu = a /\ ~clientReady
         /\ \A b \in Callers \ {a} : pc[b] \notin Critical
         /\ Building = IF spire /\ pc[a] = "build" THEN {a} ELSE {}
         /\ ~closed => open = Building
<1>1. clientMu = a /\ ~clientReady
  BY DEF LifeInv, LifeTypeOK, CreatesOnce, Critical
<1>2. \A b \in Callers \ {a} : pc[b] \notin Critical
  BY <1>1 DEF LifeInv, LifeTypeOK, Critical
<1>3. Building = IF spire /\ pc[a] = "build" THEN {a} ELSE {}
  BY <1>2 DEF Building, Critical
<1>4. ~closed => open = Building
  BY <1>1 DEF LifeInv, SourcesAccountedFor
<1>5. QED
  BY <1>1, <1>2, <1>3, <1>4

LEMMA SourceOpensStep ==
  ASSUME LifeInv, NEW a \in Callers, SourceOpens(a)
  PROVE  LifeInv'
<1>1. /\ UNCHANGED <<tlsVars, processVars, clientMu, clientReady, haproxyClient, spireSource, expired, ready>>
      /\ pc[a] = "source" /\ pc' = [pc EXCEPT ![a] = "build"] /\ open' = open \cup {a}
      /\ pc \in [Callers -> Steps] /\ pc[a] \in Critical
  BY DEF SourceOpens, Goto, LifeInv, LifeTypeOK, Critical
<1>2. /\ pc' \in [Callers -> Steps]
      /\ \A b \in Callers : pc'[b] = IF b = a THEN "build" ELSE pc[b]
  BY <1>1 DEF Steps
<1>3. \A b \in Callers : pc'[b] \in Critical <=> pc[b] \in Critical
  BY <1>1, <1>2 DEF Critical
<1>4. LifeTypeOK'
  BY <1>1, <1>2, <1>3, TlsStays DEF processVars, LifeInv, LifeTypeOK, Critical
<1>5. Connected' /\ CreatesOnce'
  BY <1>1, <1>2, <1>3 DEF tlsVars, processVars, LifeInv, Connected, CreatesOnce
<1>6. SourcesAccountedFor'
  <2>1. spire /\ (~closed => open = {})
    BY <1>1, Alone DEF LifeInv, CreatesOnce
  <2>2. Building' = {a}
    BY <1>1, <1>2, <2>1, Alone DEF Building, Critical, processVars
  <2>3. ~clientReady'
    BY <1>1, Alone
  <2>4. QED
    BY <1>1, <2>1, <2>2, <2>3 DEF processVars, SourcesAccountedFor
<1>7. QED
  BY <1>4, <1>5, <1>6 DEF LifeInv

(* The caller leaves the critical section. *)
LEMMA LeavesCritical ==
  ASSUME LifeInv, NEW a \in Callers, NEW step \in {"idle", "send"},
         pc[a] \in Critical, Goto(a, step), clientMu' = None
  PROVE  /\ pc' \in [Callers -> Steps]
         /\ \A b \in Callers : pc'[b] \notin Critical /\ pc'[b] # "source" /\ clientMu' # b
         /\ Building' = {}
         /\ UNCHANGED conn => Connected'
         /\ CreatesOnce'
<1>1. pc' = [pc EXCEPT ![a] = step] /\ pc \in [Callers -> Steps]
  BY DEF Goto, LifeInv, LifeTypeOK
<1>2. /\ pc' \in [Callers -> Steps]
      /\ \A b \in Callers : pc'[b] = IF b = a THEN step ELSE pc[b]
  BY <1>1 DEF Steps
<1>3. \A b \in Callers : pc'[b] \notin Critical /\ clientMu' # b
  BY <1>2, Alone, LifecycleAssumption DEF Critical
<1>4. Building' = {}
  BY <1>3 DEF Building, Critical
<1>5. UNCHANGED conn => Connected'
  BY <1>2 DEF LifeInv, Connected
<1>6. QED
  BY <1>2, <1>3, <1>4, <1>5 DEF CreatesOnce, Critical

LEMMA CreationEnds ==
  ASSUME LifeInv, NEW a \in Callers, SourceFails(a) \/ Publish(a) \/ BuildFails(a)
  PROVE  LifeInv'
<1>1. /\ UNCHANGED <<tlsVars, processVars>> /\ clientMu' = None /\ pc[a] \in Critical
      /\ Goto(a, "idle") \/ Goto(a, "send")
      /\ expired' \subseteq Probes /\ ready' \in BOOLEAN
  BY DEF SourceFails, Publish, BuildFails, Return, LifeInv, LifeTypeOK, Critical
<1>2. /\ pc' \in [Callers -> Steps]
      /\ \A b \in Callers : pc'[b] \notin Critical /\ pc'[b] # "source" /\ clientMu' # b
      /\ Building' = {}
      /\ UNCHANGED conn => Connected'
      /\ CreatesOnce'
  BY <1>1, LeavesCritical
<1>3. /\ haproxyClient' \in Generations \cup {0} /\ spireSource' \in Callers \cup {None}
      /\ open' \subseteq Callers /\ clientReady' \in BOOLEAN
  BY DEF SourceFails, Publish, BuildFails, LifeInv, LifeTypeOK
<1>4. LifeTypeOK'
  BY <1>1, <1>2, <1>3, TlsStays DEF processVars, LifeInv, LifeTypeOK, Critical
<1>5. ~closed => open = IF spire /\ pc[a] = "build" THEN {a} ELSE {}
  BY <1>1, Alone
<1>6. ~closed => open' = IF spire /\ clientReady' THEN {spireSource'} ELSE {}
  <2>1. CASE SourceFails(a)
    BY <1>1, <1>5, <2>1, Alone DEF SourceFails
  <2>2. CASE Publish(a)
    BY <1>5, <2>2 DEF Publish
  <2>3. CASE BuildFails(a)
    BY <1>1, <1>5, <2>3, Alone DEF BuildFails
  <2>4. QED
    BY <2>1, <2>2, <2>3
<1>7. SourcesAccountedFor'
  BY <1>1, <1>2, <1>6 DEF processVars, SourcesAccountedFor
<1>8. QED
  BY <1>1, <1>2, <1>4, <1>7 DEF tlsVars, LifeInv

-----------------------------------------------------------------------------
(* The request. *)

TlsTyped ==
  /\ mount \in Generations \cup {0} /\ gatewayLeaf \in Generations /\ pooled \subseteq Generations
  /\ conn \in [Callers -> Generations \cup {0}] /\ crt \in [Callers -> Generations \cup {0}]
  /\ broken \subseteq Callers
  /\ serverExpiry \in Generations \cup {0} /\ clientExpiry \in Generations \cup {0}

(* A caller with a connection. *)
OnTheWire == {"verify", "read cert", "read key", "await", "answered"}

LEMMA HangupTyped ==
  ASSUME LifeInv, NEW a \in Callers, NEW keep \in BOOLEAN, Hangup(a, keep),
         keep => conn[a] \in Generations, serverExpiry' \in Generations \cup {0}
  PROVE  /\ TlsTyped'
         /\ \A b \in Callers \ {a} : conn'[b] = conn[b]
<1>1. TlsTyped
  BY DEF LifeInv, LifeTypeOK, TlsTyped
<1>2. /\ conn' = [conn EXCEPT ![a] = 0] /\ crt' = [crt EXCEPT ![a] = 0]
      /\ broken' = broken \ {a}
      /\ pooled' = IF keep /\ a \notin broken THEN pooled \cup {conn[a]} ELSE pooled
      /\ UNCHANGED <<mount, gatewayLeaf, clientExpiry>>
  BY DEF Hangup
<1>3. pooled' \subseteq Generations
  BY <1>1, <1>2 DEF TlsTyped
<1>4. QED
  BY <1>1, <1>2, <1>3 DEF TlsTyped

(* Every step of a request keeps the TLS side typed, gives the caller a    *)
(* connection before it goes on the wire, and leaves those of the others.  *)
LEMMA FailStep ==
  ASSUME LifeInv, NEW a \in Callers, Fail(a)
  PROVE  /\ TlsTyped' /\ expired' \subseteq Probes /\ ready' \in BOOLEAN
         /\ Goto(a, "idle")
         /\ \A b \in Callers \ {a} : conn'[b] = conn[b]
<1>1. Hangup(a, FALSE) /\ Return(a, FALSE) /\ UNCHANGED serverExpiry
  BY DEF Fail
<1>2. TlsTyped' /\ \A b \in Callers \ {a} : conn'[b] = conn[b]
  BY <1>1, HangupTyped DEF LifeInv, LifeTypeOK
<1>3. QED
  BY <1>1, <1>2 DEF Return, LifeInv, LifeTypeOK

(* A step inside the handshake fails, or goes on with what it has. *)
LEMMA HandshakeMoves ==
  ASSUME LifeInv, NEW a \in Callers, NEW step \in OnTheWire, pc[a] \in OnTheWire,
         Fail(a) \/ (Goto(a, step) /\ UNCHANGED <<tlsVars, expired, ready>>)
  PROVE  /\ TlsTyped' /\ expired' \subseteq Probes /\ ready' \in BOOLEAN
         /\ \A b \in Callers \ {a} : conn'[b] = conn[b]
         /\ \/ Goto(a, "idle")
            \/ \E next \in OnTheWire : Goto(a, next) /\ conn'[a] \in Generations
<1>1. CASE Fail(a)
  BY <1>1, FailStep
<1>2. CASE Goto(a, step) /\ UNCHANGED <<tlsVars, expired, ready>>
  <2>1. TlsTyped' /\ \A b \in Callers : conn'[b] = conn[b]
    BY <1>2, TlsStays DEF TlsTyped, tlsVars
  <2>2. conn'[a] \in Generations
    BY <2>1 DEF LifeInv, Connected, OnTheWire
  <2>3. expired' \subseteq Probes /\ ready' \in BOOLEAN
    BY <1>2 DEF LifeInv, LifeTypeOK
  <2>4. QED
    BY <1>2, <2>1, <2>2, <2>3
<1>3. QED
  BY <1>1, <1>2

LEMMA SendMoves ==
  ASSUME LifeInv, NEW a \in Callers, Send(a)
  PROVE  /\ TlsTyped' /\ expired' \subseteq Probes /\ ready' \in BOOLEAN
         /\ \A b \in Callers \ {a} : conn'[b] = conn[b]
         /\ \/ Goto(a, "idle")
            \/ \E next \in OnTheWire : Goto(a, next) /\ conn'[a] \in Generations
<1>1. TlsTyped /\ expired \subseteq Probes /\ ready \in BOOLEAN
  BY DEF LifeInv, LifeTypeOK, TlsTyped
<1>2. CASE a \in expired /\ Fail(a)
  BY <1>2, FailStep
<1>3. CASE Reuse(a) /\ Goto(a, "await") /\ UNCHANGED <<expired, ready>>
  <2>1. PICK leaf \in pooled : conn' = [conn EXCEPT ![a] = leaf] /\ pooled' = pooled \ {leaf}
    BY <1>3 DEF Reuse
  <2>2. leaf \in Generations
    BY <1>1, <2>1 DEF TlsTyped
  <2>3. TlsTyped' /\ conn'[a] \in Generations /\ \A b \in Callers \ {a} : conn'[b] = conn[b]
    BY <1>1, <1>3, <2>1, <2>2 DEF TlsTyped, Reuse
  <2>4. QED
    BY <1>1, <1>3, <2>3 DEF OnTheWire
<1>4. CASE Dial(a) /\ Goto(a, "verify") /\ UNCHANGED <<expired, ready>>
  <2>1. TlsTyped' /\ conn'[a] \in Generations /\ \A b \in Callers \ {a} : conn'[b] = conn[b]
    BY <1>1, <1>4 DEF TlsTyped, Dial
  <2>2. QED
    BY <1>1, <1>4, <2>1 DEF OnTheWire
<1>5. QED
  BY <1>2, <1>3, <1>4 DEF Send

LEMMA WireMoves ==
  ASSUME LifeInv, NEW a \in Callers,
         VerifyServer(a) \/ ReadClientCert(a) \/ ReadClientKey(a) \/ Await(a) \/ Answered(a)
  PROVE  /\ TlsTyped' /\ expired' \subseteq Probes /\ ready' \in BOOLEAN
         /\ \A b \in Callers \ {a} : conn'[b] = conn[b]
         /\ \/ Goto(a, "idle")
            \/ \E next \in OnTheWire : Goto(a, next) /\ conn'[a] \in Generations
<1>1. CASE VerifyServer(a) \/ ReadClientKey(a) \/ Await(a)
  <2>1. PICK step \in OnTheWire : Fail(a) \/ (Goto(a, step) /\ UNCHANGED <<tlsVars, expired, ready>>)
    BY <1>1 DEF VerifyServer, ReadClientKey, Await, OnTheWire
  <2>2. pc[a] \in OnTheWire
    BY <1>1 DEF VerifyServer, ReadClientKey, Await, OnTheWire
  <2>3. QED
    BY <2>1, <2>2, HandshakeMoves
<1>2. CASE ReadClientCert(a)
  <2>1. /\ crt' = [crt EXCEPT ![a] = mount] /\ Goto(a, "read key") /\ pc[a] = "read cert"
        /\ UNCHANGED <<mount, gatewayLeaf, pooled, conn, broken, serverExpiry, clientExpiry, expired, ready>>
    BY <1>2 DEF ReadClientCert, ReadCert, Material
  <2>2. TlsTyped'
    BY <2>1 DEF LifeInv, LifeTypeOK, TlsTyped
  <2>3. conn'[a] \in Generations
    BY <2>1 DEF LifeInv, Connected
  <2>4. QED
    BY <2>1, <2>2, <2>3 DEF LifeInv, LifeTypeOK, OnTheWire
<1>3. CASE Answered(a)
  <2>1. conn[a] \in Generations
    BY <1>3 DEF Answered, LifeInv, Connected
  <2>2. Hangup(a, TRUE) /\ Return(a, TRUE) /\ serverExpiry' = conn[a]
    BY <1>3 DEF Answered, ObserveServerCert
  <2>3. TlsTyped' /\ \A b \in Callers \ {a} : conn'[b] = conn[b]
    BY <2>1, <2>2, HangupTyped
  <2>4. QED
    BY <2>2, <2>3 DEF Return, LifeInv, LifeTypeOK
<1>4. QED
  BY <1>1, <1>2, <1>3

LEMMA RequestStep ==
  ASSUME LifeInv, NEW a \in Callers, Request(a)
  PROVE  LifeInv'
<1>1. /\ TlsTyped' /\ expired' \subseteq Probes /\ ready' \in BOOLEAN
      /\ \A b \in Callers \ {a} : conn'[b] = conn[b]
      /\ \/ Goto(a, "idle")
         \/ \E next \in OnTheWire : Goto(a, next) /\ conn'[a] \in Generations
  BY SendMoves, WireMoves DEF Request
<1>2. /\ UNCHANGED <<clientMu, clientReady, haproxyClient, spireSource, open, spire, phase, closed>>
      /\ pc[a] \notin Critical
  BY DEF Request, Send, VerifyServer, ReadClientCert, ReadClientKey, Await, Answered, requestFrame,
         fieldVars, processVars, Critical
<1>3. PICK step \in OnTheWire \cup {"idle"} :
        Goto(a, step) /\ (step \in OnTheWire => conn'[a] \in Generations)
  <2>1. CASE Goto(a, "idle")
    <3>1. "idle" \notin OnTheWire
      BY DEF OnTheWire
    <3>2. QED
      BY <2>1, <3>1
  <2>2. CASE \E next \in OnTheWire : Goto(a, next) /\ conn'[a] \in Generations
    BY <2>2
  <2>3. QED
    BY <1>1, <2>1, <2>2
<1>4. step \in Steps \ Critical
  BY DEF OnTheWire, Steps, Critical
<1>5. /\ pc' \in [Callers -> Steps]
      /\ \A b \in Callers : pc'[b] \in Critical <=> clientMu' = b
      /\ CreatesOnce' /\ SourcesAccountedFor'
  BY <1>2, <1>3, <1>4, OutsideCritical
<1>6. LifeTypeOK'
  BY <1>1, <1>2, <1>5 DEF TlsTyped, LifeInv, LifeTypeOK, Critical
<1>7. Connected'
  <2>1. \A b \in Callers : pc'[b] = IF b = a THEN step ELSE pc[b]
    BY <1>3 DEF Goto, LifeInv, LifeTypeOK
  <2>2. QED
    BY <1>1, <1>3, <2>1 DEF LifeInv, Connected, OnTheWire
<1>8. QED
  BY <1>5, <1>6, <1>7 DEF LifeInv

-----------------------------------------------------------------------------
(* The process around the callers. *)

(* A step that moves no caller and touches neither mutex nor sources. *)
LEMMA CallersStay ==
  ASSUME LifeInv, TlsTyped', UNCHANGED <<fieldVars, pc, expired, ready, spire, closed, conn>>,
         phase' \in {"running", "stopping", "exited"}
  PROVE  LifeInv'
<1>1. LifeTypeOK'
  BY DEF TlsTyped, fieldVars, LifeInv, LifeTypeOK
<1>2. Building' = Building
  BY DEF Building
<1>3. SourcesAccountedFor'
  BY <1>2 DEF fieldVars, LifeInv, SourcesAccountedFor
<1>4. Connected' /\ CreatesOnce'
  BY DEF fieldVars, LifeInv, Connected, CreatesOnce
<1>5. QED
  BY <1>1, <1>3, <1>4 DEF LifeInv

LEMMA CloseSteps ==
  ASSUME LifeInv, Close
  PROVE  LifeInv'
<1>1. /\ UNCHANGED <<tlsVars, agentVars, spire, urlParses, phase, elected, clientMu, clientReady,
                     haproxyClient, spireSource, pc, expired, ready>>
      /\ closed' = TRUE /\ open' = open \ {spireSource}
  BY DEF Close
<1>2. LifeTypeOK'
  BY <1>1, TlsStays DEF LifeInv, LifeTypeOK
<1>3. Connected' /\ CreatesOnce'
  BY <1>1 DEF tlsVars, LifeInv, Connected, CreatesOnce
<1>4. SourcesAccountedFor'
  BY <1>1 DEF SourcesAccountedFor
<1>5. QED
  BY <1>2, <1>3, <1>4 DEF LifeInv

LEMMA ProcessSteps ==
  ASSUME LifeInv, Elect \/ Shutdown \/ Exit \/ Agent \/ Rotate \/ CertWatcher
  PROVE  LifeInv'
<1>1. TlsTyped
  BY DEF LifeInv, LifeTypeOK, TlsTyped
<1>2. CASE Elect \/ Shutdown \/ Exit \/ Agent
  <2>1. UNCHANGED <<tlsVars, fieldVars, pc, expired, ready, spire, closed>>
    BY <1>2 DEF Elect, Shutdown, Exit, Agent, processVars
  <2>2. phase' \in {"running", "stopping", "exited"}
    BY <1>2 DEF Elect, Shutdown, Exit, Agent, processVars, LifeInv, LifeTypeOK
  <2>3. TlsTyped' /\ UNCHANGED conn
    BY <2>1, TlsStays DEF TlsTyped, tlsVars
  <2>4. QED
    BY <2>1, <2>2, <2>3, CallersStay
<1>3. CASE Rotate \/ CertWatcher
  <2>1. UNCHANGED <<fieldVars, pc, expired, ready, spire, closed, phase>>
    BY <1>3 DEF Rotate, CertWatcher, processVars
  <2>2. TlsTyped' /\ UNCHANGED conn
    <3>1. CASE RotateMount
      BY <1>1, <3>1 DEF RotateMount, TlsTyped
    <3>2. CASE InstallLeaf
      BY <1>1, <3>2 DEF InstallLeaf, TlsTyped
    <3>3. CASE ObserveClientCertFile
      BY <1>1, <3>3 DEF ObserveClientCertFile, TlsTyped
    <3>4. QED
      BY <1>3, <3>1, <3>2, <3>3 DEF Rotate, CertWatcher
  <2>3. phase' \in {"running", "stopping", "exited"}
    BY <2>1 DEF LifeInv, LifeTypeOK
  <2>4. QED
    BY <2>1, <2>2, <2>3, CallersStay
<1>4. QED
  BY <1>2, <1>3

LEMMA StutteringStep ==
  ASSUME LifeInv, UNCHANGED lifeVars
  PROVE  LifeInv'
<1>1. UNCHANGED <<tlsVars, fieldVars, processVars, pc, expired, ready>>
  BY DEF lifeVars
<1>2. TlsTyped' /\ UNCHANGED conn
  BY <1>1, TlsStays DEF TlsTyped, tlsVars
<1>3. phase' \in {"running", "stopping", "exited"}
  BY <1>1 DEF processVars, LifeInv, LifeTypeOK
<1>4. QED
  BY <1>1, <1>2, <1>3, CallersStay DEF processVars

LEMMA InvariantStep ==
  LifeInv /\ [LifeNext]_lifeVars => LifeInv'
<1> SUFFICES ASSUME LifeInv, [LifeNext]_lifeVars PROVE LifeInv'
  OBVIOUS
<1>1. CASE UNCHANGED lifeVars
  BY <1>1, StutteringStep
<1>2. ASSUME NEW a \in Callers, CallerStep(a) PROVE LifeInv'
  <2>1. CASE Create(a)
    BY <2>1, ApproachSteps, SourceOpensStep, CreationEnds DEF Create
  <2>2. CASE Request(a)
    BY <2>2, RequestStep
  <2>3. QED
    BY <1>2, <2>1, <2>2 DEF CallerStep
<1>3. ASSUME NEW a \in Callers, Acquire(a) PROVE LifeInv'
  BY <1>3, AcquireStep
<1>4. CASE Close
  BY <1>4, CloseSteps
<1>5. CASE Elect \/ Shutdown \/ Exit \/ Agent \/ Rotate \/ CertWatcher
  BY <1>5, ProcessSteps
<1>6. QED
  BY <1>1, <1>2, <1>3, <1>4, <1>5 DEF LifeNext

-----------------------------------------------------------------------------
(* The theorems. *)

(* getOrCreateClient, the requests of the worker and the probes, and       *)
(* spireSourceCloser keep the invariant in every interleaving.             *)
THEOREM LifeInvariant == LifeSpec => []LifeInv
<1>1. LifeInit => LifeInv
  BY InitialState
<1>2. LifeInv /\ [LifeNext]_lifeVars => LifeInv'
  BY InvariantStep
<1>3. QED
  BY <1>1, <1>2, PTL DEF LifeSpec

(* Types, and the exclusion of clientMu: only its holder is between the    *)
(* lock and the end of getOrCreateClient, and nobody returns holding it.   *)
THEOREM LifeTypeCorrect == LifeSpec => []LifeTypeOK
<1>1. LifeInv => LifeTypeOK
  BY DEF LifeInv
<1>2. QED
  BY <1>1, LifeInvariant, PTL

(* No SPIRE X509Source that getOrCreateClient opens is lost, none is       *)
(* closed under the client that uses it.                                   *)
THEOREM SourcesAreAccountedFor == LifeSpec => []SourcesAccountedFor
<1>1. LifeInv => SourcesAccountedFor
  BY DEF LifeInv
<1>2. QED
  BY <1>1, LifeInvariant, PTL

LEMMA CloserStep ==
  LifeInv /\ [LifeNext]_lifeVars => [CloseStep]_lifeVars
<1> SUFFICES ASSUME LifeInv, [LifeNext]_lifeVars, closed', ~closed PROVE open' \subseteq Building
  BY DEF CloseStep
<1>1. Close
  <2>1. ~ UNCHANGED closed
    OBVIOUS
  <2>2. ~ UNCHANGED lifeVars
    BY <2>1 DEF lifeVars, processVars
  <2>3. ASSUME NEW a \in Callers, CallerStep(a) PROVE UNCHANGED closed
    <3>1. CASE Create(a)
      BY <3>1 DEF Create, Call, DeadlinePasses, SourceOpens, SourceFails, Publish, BuildFails, processVars
    <3>2. CASE Request(a)
      BY <3>2 DEF Request, Send, VerifyServer, ReadClientCert, ReadClientKey, Await, Answered,
                  requestFrame, processVars
    <3>3. QED
      BY <2>3, <3>1, <3>2 DEF CallerStep
  <2>4. ASSUME NEW a \in Callers, Acquire(a) PROVE UNCHANGED closed
    BY <2>4 DEF Acquire, processVars
  <2>5. Elect \/ Shutdown \/ Exit \/ Agent \/ Rotate \/ CertWatcher => UNCHANGED closed
    BY DEF Elect, Shutdown, Exit, Agent, Rotate, CertWatcher, processVars
  <2>6. QED
    BY <2>1, <2>2, <2>3, <2>4, <2>5 DEF LifeNext
<1>2. open' = open \ {spireSource}
  BY <1>1 DEF Close
<1>3. open = Building \cup (IF spire /\ clientReady THEN {spireSource} ELSE {})
  BY DEF LifeInv, SourcesAccountedFor
<1>4. QED
  BY <1>2, <1>3

(* spireSourceCloser, which reads spireSource without clientMu, closes the *)
(* source of the client whenever it has been published.                    *)
THEOREM CloserClosesThePublished == LifeSpec => CloseLeavesOnlyUnpublished
<1>1. LifeInv /\ [LifeNext]_lifeVars => [CloseStep]_lifeVars
  BY CloserStep
<1>2. QED
  BY <1>1, LifeInvariant, PTL DEF LifeSpec, CloseLeavesOnlyUnpublished
=============================================================================
