------------------------------ MODULE Connector ------------------------------
(***************************************************************************)
(* What a call of the upstream connectors promises (TlsOrigin in           *)
(* mitm/tls_origin.rs, SniSpoofConnector in mitm/sni_spoof.rs), without    *)
(* the way it races the addresses.  The call learns addresses from its     *)
(* sources, sees some of them fail, and returns once: a connection to an   *)
(* address that has not failed, or an error, and an error only when no     *)
(* source is left to answer and every address it ever knew has failed.     *)
(* HappyEyeballs and SniStream implement it.                               *)
(***************************************************************************)
CONSTANT Addresses

VARIABLES
    known,      \* addresses the call has got from its caller, its store or DNS
    asking,     \* a source may still deliver addresses
    bad,        \* addresses whose attempt it has seen fail
    outcome     \* "none" until it returns, then "ok" or "error"

vars == <<known, asking, bad, outcome>>

Init ==
    /\ known \in SUBSET Addresses
    /\ asking \in BOOLEAN
    /\ bad = {}
    /\ outcome = "none"

\* A source answers, and may have been the last one.
Learn ==
    /\ outcome = "none" /\ asking
    /\ known \subseteq known' /\ known' \subseteq Addresses
    /\ asking' \in BOOLEAN
    /\ UNCHANGED <<bad, outcome>>

\* An error needs all sources exhausted and all addresses failed.
MayReturn(res) ==
    res = "none" \/ (res = "error" /\ ~asking' /\ known' \subseteq bad')

\* An attempt is seen to fail; the call may give up at once if it was the last.
Reject(a) ==
    /\ outcome = "none"
    /\ bad' = bad \cup {a}
    /\ MayReturn(outcome')
    /\ UNCHANGED <<known, asking>>

\* Nothing (more) has come from the sources.
GiveUp ==
    /\ outcome = "none"
    /\ outcome' = "error" /\ MayReturn(outcome')
    /\ UNCHANGED <<known, bad>>

\* Addresses that were not tried are forgotten.
Succeed ==
    /\ outcome = "none" /\ known \ bad # {}
    /\ outcome' = "ok"
    /\ known' \subseteq known
    /\ UNCHANGED <<asking, bad>>

\* A source ends after the call has returned.
Lapse ==
    /\ outcome = "ok" /\ asking
    /\ asking' = FALSE
    /\ UNCHANGED <<known, bad, outcome>>

Next == Learn \/ GiveUp \/ Succeed \/ Lapse \/ \E a \in known : Reject(a)

Spec == Init /\ [][Next]_vars

==============================================================================
