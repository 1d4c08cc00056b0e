------------------------------ MODULE Credentials ------------------------------
(***************************************************************************)
(* The TLS side of a request to the Data Plane API: the mounted CA and     *)
(* client certificate (NewClient in internal/haproxy/dataplane_client.go), *)
(* the connections net/http keeps, and the two expiry gauges of            *)
(* internal/metrics/cert_expiry.go.                                        *)
(*                                                                         *)
(* A generation of credentials is a number; a mount is replaced as a whole *)
(* (ca.crt, tls.crt and tls.key of one Secret), 0 being an unreadable one. *)
(* A leaf is trusted by whoever holds a certificate of its authority.      *)
(***************************************************************************)
EXTENDS Integers, FiniteSets

CONSTANTS
  Callers,       (* goroutines that use the client                          *)
  Generations,   (* generations of certificates that get issued             *)
  Authority,     (* [Generations -> CAs]: who signed it                     *)
  MaxRotations   (* bound: renewals of the mount and of the gateway's leaf  *)

ASSUME CredentialsAssumption ==
  /\ Generations \subseteq Nat \ {0} /\ Generations # {}
  /\ DOMAIN Authority = Generations
  /\ MaxRotations \in Nat

VARIABLES
  mount,         (* generation of the mounted files, or 0                   *)
  gatewayLeaf,   (* generation the gateway presents                         *)
  pooled,        (* leaves presented on the idle connections                *)
  conn,          (* leaf presented on the connection a caller uses, or 0    *)
  broken,        (* callers whose connection is gone                        *)
  crt,           (* certificate a handshake has read, before its key        *)
  serverExpiry,  (* generation shown by the server certificate gauge        *)
  clientExpiry,  (* generation shown by the client certificate gauge, or 0  *)
  rotations

tlsVars == <<mount, gatewayLeaf, pooled, conn, broken, crt, serverExpiry, clientExpiry, rotations>>

-----------------------------------------------------------------------------
Trusts(own, leaf) == own # 0 /\ Authority[own] = Authority[leaf]

(* Variant: what NewClient loaded serves every handshake. *)
Material_AtStart(loaded) == loaded

(* Every handshake reads the files again. *)
Material(loaded) == mount

Reuse(a) ==
  /\ \E leaf \in pooled : conn' = [conn EXCEPT ![a] = leaf] /\ pooled' = pooled \ {leaf}
  /\ UNCHANGED <<mount, gatewayLeaf, broken, crt, serverExpiry, clientExpiry, rotations>>

Dial(a) ==
  /\ pooled = {}
  /\ conn' = [conn EXCEPT ![a] = gatewayLeaf]
  /\ UNCHANGED <<mount, gatewayLeaf, pooled, broken, crt, serverExpiry, clientExpiry, rotations>>

(* GetClientCertificate reads the certificate, then the key. *)
ReadCert(a, loaded) ==
  /\ crt' = [crt EXCEPT ![a] = Material(loaded)]
  /\ UNCHANGED <<mount, gatewayLeaf, pooled, conn, broken, serverExpiry, clientExpiry, rotations>>

KeyFits(a, loaded) == crt[a] = Material(loaded) /\ Trusts(crt[a], conn[a])

(* Variant: the gauge is set by the first answer of the process only. *)
ObserveServerCert_Once(a) == serverExpiry' = IF serverExpiry = 0 THEN conn[a] ELSE serverExpiry

(* A response updates the gauge from the handshake of its connection.      *)
ObserveServerCert(a) == serverExpiry' = conn[a]

(* The request is over; a connection that is not broken goes back to the   *)
(* pool unless the request failed on it.                                   *)
Hangup(a, keep) ==
  /\ conn' = [conn EXCEPT ![a] = 0] /\ crt' = [crt EXCEPT ![a] = 0]
  /\ broken' = broken \ {a}
  /\ pooled' = IF keep /\ a \notin broken THEN pooled \cup {conn[a]} ELSE pooled
  /\ UNCHANGED <<mount, gatewayLeaf, clientExpiry, rotations>>

-----------------------------------------------------------------------------
(* StartClientCertWatcher: one observation, at once and then on each tick. *)
ObserveClientCertFile ==
  /\ clientExpiry' = mount
  /\ UNCHANGED <<mount, gatewayLeaf, pooled, conn, broken, crt, serverExpiry, rotations>>

RotateMount ==
  /\ rotations < MaxRotations /\ rotations' = rotations + 1
  /\ \E g \in Generations \cup {0} : g # mount /\ mount' = g
  /\ UNCHANGED <<gatewayLeaf, pooled, conn, broken, crt, serverExpiry, clientExpiry>>

(* Installing a leaf restarts dataplaneapi: every connection is dropped.   *)
InstallLeaf ==
  /\ rotations < MaxRotations /\ rotations' = rotations + 1
  /\ \E g \in Generations : g # gatewayLeaf /\ gatewayLeaf' = g
  /\ pooled' = {} /\ broken' = {a \in Callers : conn[a] # 0}
  /\ UNCHANGED <<mount, conn, crt, serverExpiry, clientExpiry>>
=============================================================================
