----------------------------- MODULE HubProcess -----------------------------
(***************************************************************************)
(* The life of a hub's process, as the parts that keep files see it: it    *)
(* may be killed at any instruction, between the truncation and the write  *)
(* of std::fs::write too, and is started again.                            *)
(***************************************************************************)
EXTENDS Naturals

CONSTANTS
  None,       \* no file, no entry
  Torn,       \* what a file holds that was truncated and not written, or written
              \* in part: neither PEM nor JSON
  MaxKills    \* bound: how often a hub is killed

ASSUME ProcessConstants == None # Torn /\ {None, Torn} \cap Nat = {} /\ MaxKills \in Nat

VARIABLES
  hub,     \* "down", a label of CertificateAuthority::load_or_generate, or "up"
  kills    \* how often it has been killed

hubVars == <<hub, kills>>

HubInit == hub = "down" /\ kills = 0

Killed ==
  /\ hub # "down" /\ kills < MaxKills
  /\ hub' = "down" /\ kills' = kills + 1

=============================================================================
