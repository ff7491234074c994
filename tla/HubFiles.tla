------------------------------ MODULE HubFiles ------------------------------
(***************************************************************************)
(* A hub that keeps its certificates and its working IPs in files, is      *)
(* killed and started again.  (ResourceCache, SingleInstance and           *)
(* ProxyLifecycle have its other files.)                                   *)
(***************************************************************************)
EXTENDS Certificates, WorkingIpFile

vars == <<hubVars, certVars, ipVars>>

\* Bound: a behaviour has handshakes or connects.
Init == HubInit /\ CertInit /\ IpInit /\ (left = 0 \/ records = 0)

Start == LoadOrGenerate /\ LoadIps

Kill == Killed /\ CertKilled /\ IpKilled

Next ==
  \/ Start
  \/ (SaveCa \/ SaveCaFails) /\ UNCHANGED ipVars
  \/ (\E t \in Tasks : Handshake(t)) /\ UNCHANGED ipVars
  \/ (\E d \in Domains : Evict(d)) /\ UNCHANGED ipVars
  \/ Store /\ UNCHANGED certVars
  \/ Kill

Spec == Init /\ [][Next]_vars

=============================================================================
