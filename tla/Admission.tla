------------------------------ MODULE Admission ------------------------------
(***************************************************************************)
(* What the proxy server promises a client about max_connections           *)
(* (proxy/server.rs), without the handlers, permits and counts that keep   *)
(* it: a client that has come in waits, is inside while its connection is  *)
(* handled, and leaves for good; no more than limit clients are inside at  *)
(* a time, unless limit is 0.  ProxyConnection implements it.              *)
(***************************************************************************)
EXTENDS Naturals, FiniteSets

CONSTANTS Clients, AllLimits

VARIABLES
  open,     \* clients may still come in
  limit,    \* max_connections
  where     \* where[c]: "outside", "waiting", "inside" or "gone"

vars == <<open, limit, where>>

Inside == {c \in Clients : where[c] = "inside"}

Init ==
  /\ open = TRUE
  /\ limit \in AllLimits
  /\ where = [c \in Clients |-> "outside"]

Move(c, from, to) == where[c] = from /\ where' = [where EXCEPT ![c] = to]

Enter(c) == open /\ Move(c, "outside", "waiting") /\ UNCHANGED <<open, limit>>

Admit(c) ==
  /\ limit = 0 \/ Cardinality(Inside) < limit
  /\ Move(c, "waiting", "inside")
  /\ UNCHANGED <<open, limit>>

Leave(c) == Move(c, "inside", "gone") /\ UNCHANGED <<open, limit>>

Close == open /\ open' = FALSE /\ UNCHANGED <<limit, where>>

Next == Close \/ \E c \in Clients : Enter(c) \/ Admit(c) \/ Leave(c)

Spec == Init /\ [][Next]_vars

==============================================================================
