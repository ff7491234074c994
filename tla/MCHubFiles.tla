----------------------------- MODULE MCHubFiles -----------------------------
EXTENDS HubFiles, TLC

\* a.b and a_b share a file.
MCFileOf == "a.b" :> "a_b" @@ "a_b" :> "a_b" @@ "c.d" :> "c_d"

Symmetric == Permutations(Tasks) \cup Permutations(Callers)

=============================================================================
