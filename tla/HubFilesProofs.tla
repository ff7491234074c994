--------------------------- MODULE HubFilesProofs ---------------------------
(***************************************************************************)
(* Proofs about HubFiles, for every number of domains, handshakes,         *)
(* callers, kills and generated roots: the root that a hub signs with is   *)
(* the published one, what it serves is signed by it, and the working IPs  *)
(* it saved stay saved.                                                    *)
(***************************************************************************)
EXTENDS HubFiles, TLAPS

\* Labels of load_or_generate while it saves a root.
SavingLabels == {"open_crt", "write_crt", "open_key", "write_key"}

Leaves == [dom : Domains, root : Nat]

\* A leaf that may be kept in file f while ca.key.pem holds k.
Good(p, f, k) == p \in Leaves /\ FileOf[p.dom] = f /\ (k # Torn => p.root = k)

\* The certificate is complete before the key is begun, and the key is never
\* rewritten.
CaInv ==
  /\ hub \in SavingLabels \cup {"down", "up"}
  /\ roots \in Nat
  /\ key \in {None, Torn} \/ (key \in Nat /\ crt = key)
  /\ crt = None => key = None
  /\ hub \in {"open_crt", "write_crt", "open_key"} => key = None
  /\ hub \in {"open_key", "write_key"} => crt = ca
  /\ hub \in SavingLabels \cup {"up"} => ca \in Nat
  /\ hub = "up" => key # None /\ (key # Torn => ca = key)

\* There is no leaf before the key is saved, and none of another root than the
\* key's unless the key is torn.
LeafInv ==
  /\ leaf \in [Files -> Leaves \cup {None, Torn}]
  /\ \A f \in Files : leaf[f] \in {None, Torn} \/ Good(leaf[f], f, key)
  /\ hub \in SavingLabels \/ key = None => \A f \in Files : leaf[f] \in {None, Torn}
  /\ memory \in [Domains -> Leaves \cup {None}]
  /\ \A d \in Domains : memory[d] = None \/ Good(memory[d], FileOf[d], key)
  /\ hub # "up" => \A d \in Domains : memory[d] = None

\* Labels at which a handshake has a leaf.
HasPair == {"open", "write", "insert", "got"}

\* Handshakes run only in a running hub, and carry a leaf for what they asked.
TaskInv ==
  /\ pc \in [Tasks -> HasPair \cup {"idle", "memory", "disk", "sign"}]
  /\ caller \in [Tasks -> {None, "accept", "resolver"}]
  /\ asked \in [Tasks -> Domains \cup {None}]
  /\ pair \in [Tasks -> Leaves \cup {None}]
  /\ \A t \in Tasks : pc[t] # "idle" => hub = "up" /\ asked[t] \in Domains
  /\ \A t \in Tasks : pc[t] \in HasPair => Good(pair[t], FileOf[asked[t]], key)

Inv == CaInv /\ LeafInv /\ TaskInv

SaveThreads == [id : Nat, map : Nat, open : BOOLEAN, mixed : BOOLEAN]

\* What the variables of the working IPs hold; only a running hub saves.
IpTypes ==
  /\ data \in Nat /\ owed \in Nat /\ saved \in Nat /\ overlap \in BOOLEAN
  /\ spawned \in Nat
  /\ file \in Nat \cup {None, Torn}
  /\ rec \in [Callers -> {"idle", "clone", "spawn"}]
  /\ clone \in [Callers -> Nat]
  /\ writers \subseteq SaveThreads
  /\ hub # "up" => ~Saving

\* Unless the last save was begun during another, there is one save at most,
IpAlone ==
  /\ \A c, d \in Callers : rec[c] # "idle" /\ rec[d] # "idle" => c = d
  /\ writers # {} => \A c \in Callers : rec[c] = "idle"
  /\ \A v, w \in writers : v = w
  /\ \A w \in writers : ~w.mixed

\* which carries what is owed from the map to the file.
IpCarried ==
  /\ hub # "down" => data >= owed
  /\ \A c \in Callers : rec[c] = "spawn" => clone[c] >= owed
  /\ \A w \in writers : w.map >= owed

\* The file has what is owed between saves, and what was saved before until the
\* one save truncates it.
IpKept ==
  /\ ~Saving /\ owed > 0 => file \in Nat /\ file >= owed
  /\ Saving => saved <= owed
  /\ Saving /\ ~Truncated /\ saved > 0 => file \in Nat /\ file >= saved

IpSafe == IpAlone /\ IpCarried /\ IpKept

IpInv == IpTypes /\ (~overlap => IpSafe)

-----------------------------------------------------------------------------
(* Facts that several actions use *)

\* A hub begins with empty files and idle tasks.
LEMMA InvInit == Init => Inv
  <1> SUFFICES ASSUME Init PROVE Inv
    OBVIOUS
  <1> USE DEF Init, HubInit, CertInit
  <1>1. CaInv
    BY ProcessConstants DEF CaInv, SavingLabels
  <1>2. LeafInv
    BY DEF LeafInv
  <1>3. TaskInv
    BY DEF TaskInv, HasPair
  <1> QED
    BY <1>1, <1>2, <1>3 DEF Inv

\* When the files and the root stay as they are, nothing about the root changes.
LEMMA CaUnchanged ==
  ASSUME CaInv, UNCHANGED <<hubVars, caVars>>
  PROVE  CaInv'
  BY DEF CaInv, hubVars, caVars

\* Leaves that stay as they are remain right while hub and key do.
LEMMA LeavesUnchanged ==
  ASSUME LeafInv, UNCHANGED <<hub, key, leafVars>>
  PROVE  LeafInv'
  BY DEF LeafInv, leafVars

\* The same of the handshakes.
LEMMA TasksUnchanged ==
  ASSUME TaskInv, UNCHANGED <<hub, key, pc, caller, asked, pair>>
  PROVE  TaskInv'
  BY DEF TaskInv

\* A step of one task that keeps the rest, described by its new label and pair.
LEMMA TaskMoves ==
  ASSUME TaskInv, UNCHANGED <<hub, key>>, NEW t \in Tasks,
         NEW label \in HasPair \cup {"idle", "memory", "disk", "sign"},
         NEW who \in {None, "accept", "resolver"},
         NEW d \in Domains \cup {None}, NEW p \in Leaves \cup {None},
         pc' = [pc EXCEPT ![t] = label], caller' = [caller EXCEPT ![t] = who],
         asked' = [asked EXCEPT ![t] = d], pair' = [pair EXCEPT ![t] = p],
         label # "idle" => hub = "up" /\ d \in Domains,
         label \in HasPair => Good(p, FileOf[d], key)
  PROVE  TaskInv'
  <1>1. /\ pc' \in [Tasks -> HasPair \cup {"idle", "memory", "disk", "sign"}]
        /\ caller' \in [Tasks -> {None, "accept", "resolver"}]
        /\ asked' \in [Tasks -> Domains \cup {None}]
        /\ pair' \in [Tasks -> Leaves \cup {None}]
    BY DEF TaskInv
  <1>2. ASSUME NEW u \in Tasks
        PROVE  /\ pc'[u] # "idle" => hub' = "up" /\ asked'[u] \in Domains
               /\ pc'[u] \in HasPair => Good(pair'[u], FileOf[asked'[u]], key')
    <2>1. CASE u = t
      <3>1. pc'[u] = label /\ asked'[u] = d /\ pair'[u] = p
        BY <2>1 DEF TaskInv
      <3> QED
        BY <3>1
    <2>2. CASE u # t
      <3>1. pc'[u] = pc[u] /\ asked'[u] = asked[u] /\ pair'[u] = pair[u]
        BY <2>2 DEF TaskInv
      <3> QED
        BY <3>1 DEF TaskInv
    <2> QED
      BY <2>1, <2>2
  <1> QED
    BY <1>1, <1>2 DEF TaskInv

-----------------------------------------------------------------------------
(* The root *)

\* load_or_generate saves a new root only if there was no key, and so no leaf.
LEMMA StartKeepsInv == Inv /\ LoadOrGenerate => Inv'
  <1> SUFFICES ASSUME Inv, LoadOrGenerate PROVE Inv'
    OBVIOUS
  <1>1. hub = "down" /\ UNCHANGED <<crt, key, leafVars, taskVars>>
    BY DEF LoadOrGenerate
  <1>2. CaInv'
    BY <1>1, ProcessConstants DEF Inv, CaInv, LoadOrGenerate, Generate, SavingLabels
  <1>3. hub' \in SavingLabels => key = None
    BY <1>1 DEF Inv, CaInv, LoadOrGenerate, SavingLabels
  <1>4. LeafInv'
    BY <1>1, <1>3 DEF Inv, LeafInv, leafVars
  <1>5. TaskInv'
    BY <1>1 DEF Inv, TaskInv, taskVars
  <1> QED
    BY <1>2, <1>4, <1>5 DEF Inv

\* The two writes of a root, at each point of which there is no leaf yet.
LEMMA SaveKeepsInv == Inv /\ (SaveCa \/ SaveCaFails) => Inv'
  <1> SUFFICES ASSUME Inv, SaveCa \/ SaveCaFails PROVE Inv'
    OBVIOUS
  <1>1. hub \in SavingLabels /\ UNCHANGED <<leafVars, taskVars>>
    BY DEF SaveCa, SaveCaFails, SavingLabels
  <1>2. CaInv'
    BY <1>1, ProcessConstants DEF Inv, CaInv, SaveCa, SaveCaFails, SavingLabels
  <1>3. /\ \A f \in Files : leaf'[f] \in {None, Torn}
        /\ \A d \in Domains : memory'[d] = None
    BY <1>1 DEF Inv, LeafInv, leafVars, SavingLabels
  <1>4. LeafInv'
    BY <1>1, <1>3 DEF Inv, LeafInv, leafVars
  <1>5. \A t \in Tasks : pc'[t] = "idle"
    BY <1>1 DEF Inv, TaskInv, taskVars, SavingLabels
  <1>6. TaskInv'
    BY <1>1, <1>5 DEF Inv, TaskInv, taskVars, HasPair
  <1> QED
    BY <1>2, <1>4, <1>6 DEF Inv

\* What is left of a hub that is killed is its files.
LEMMA KillKeepsInv == Inv /\ Kill => Inv'
  <1> SUFFICES ASSUME Inv, Kill PROVE Inv'
    OBVIOUS
  <1> USE DEF Kill, Killed, CertKilled
  <1>1. CaInv'
    BY DEF Inv, CaInv, SavingLabels
  <1>2. LeafInv'
    BY DEF Inv, LeafInv, SavingLabels
  <1>3. TaskInv'
    BY DEF TaskInv, HasPair
  <1> QED
    BY <1>1, <1>2, <1>3 DEF Inv

-----------------------------------------------------------------------------
(* Handshakes *)

\* Every step of a handshake passes on a leaf that fits the file and the key.
LEMMA HandshakeKeepsInv ==
  ASSUME Inv, NEW t \in Tasks, Handshake(t)
  PROVE  Inv'
  <1>1. UNCHANGED <<hubVars, caVars>>
    BY DEF Handshake, BeginHandshake, LookInMemory, LookOnDisk, Sign, OpenLeaf,
           WriteLeaf, Insert, Hello, EndHandshake
  <1>2. CaInv'
    BY <1>1, CaUnchanged DEF Inv
  <1> SUFFICES LeafInv' /\ TaskInv'
    BY <1>2 DEF Inv
  <1>3. UNCHANGED <<hub, key>>
    BY <1>1 DEF hubVars, caVars
  <1>4. pc[t] # "idle" => hub = "up" /\ asked[t] \in Domains /\ FileOf[asked[t]] \in Files
    BY DEF Inv, TaskInv, Files
  <1>5. /\ caller = [caller EXCEPT ![t] = caller[t]] /\ caller[t] \in {None, "accept", "resolver"}
        /\ asked = [asked EXCEPT ![t] = asked[t]] /\ asked[t] \in Domains \cup {None}
        /\ pair = [pair EXCEPT ![t] = pair[t]] /\ pair[t] \in Leaves \cup {None}
    BY DEF Inv, TaskInv
  <1>6. pc[t] \in HasPair => Good(pair[t], FileOf[asked[t]], key) /\ pair[t] \in Leaves
    BY DEF Inv, TaskInv, Good
  <1>7. ASSUME NEW d \in Domains, BeginHandshake(t, d) PROVE LeafInv' /\ TaskInv'
    <2>1. LeafInv'
      BY <1>3, <1>7, LeavesUnchanged DEF Inv, BeginHandshake
    <2>2. TaskInv'
      BY <1>3, <1>5, <1>7, TaskMoves DEF Inv, BeginHandshake, Goto, HasPair
    <2> QED
      BY <2>1, <2>2
  <1>8. CASE LookInMemory(t)
    <2>1. LeafInv'
      BY <1>3, <1>8, LeavesUnchanged DEF Inv, LookInMemory
    <2>2. hub = "up" /\ asked[t] \in Domains
      BY <1>4, <1>8 DEF LookInMemory
    <2>3. CASE memory[asked[t]] # None
      <3>1. Good(memory[asked[t]], FileOf[asked[t]], key) /\ memory[asked[t]] \in Leaves
        BY <2>2, <2>3 DEF Inv, LeafInv, Good
      <3> QED
        BY <1>3, <1>5, <1>8, <2>1, <2>2, <2>3, <3>1, TaskMoves
        DEF Inv, LookInMemory, Got, Goto, HasPair
    <2>4. CASE memory[asked[t]] = None
      BY <1>3, <1>5, <1>8, <2>1, <2>2, <2>4, TaskMoves DEF Inv, LookInMemory, Goto, HasPair
    <2> QED
      BY <2>3, <2>4
  <1>9. CASE LookOnDisk(t)
    <2> DEFINE p == leaf[FileOf[asked[t]]]
    <2>1. hub = "up" /\ asked[t] \in Domains /\ FileOf[asked[t]] \in Files
      BY <1>4, <1>9 DEF LookOnDisk
    <2>2. CASE p \notin {None, Torn}
      <3>1. Good(p, FileOf[asked[t]], key) /\ p \in Leaves
        BY <2>1, <2>2 DEF Inv, LeafInv, Good
      <3>2. memory' = [memory EXCEPT ![asked[t]] = p] /\ UNCHANGED leaf
        BY <1>9, <2>2 DEF LookOnDisk
      <3>3. memory' \in [Domains -> Leaves \cup {None}]
        BY <2>1, <3>1, <3>2 DEF Inv, LeafInv
      <3>4. \A d \in Domains : memory'[d] = None \/ Good(memory'[d], FileOf[d], key')
        BY <1>3, <2>1, <3>1, <3>2 DEF Inv, LeafInv
      <3>5. LeafInv'
        BY <1>3, <2>1, <3>2, <3>3, <3>4 DEF Inv, LeafInv
      <3>6. /\ pc' = [pc EXCEPT ![t] = "got"] /\ caller' = [caller EXCEPT ![t] = caller[t]]
            /\ asked' = [asked EXCEPT ![t] = asked[t]] /\ pair' = [pair EXCEPT ![t] = p]
        BY <1>5, <1>9, <2>2 DEF LookOnDisk, Got, Goto
      <3> QED
        BY <1>3, <1>5, <2>1, <3>1, <3>5, <3>6, TaskMoves DEF Inv, HasPair
    <2>3. CASE p \in {None, Torn}
      <3>1. LeafInv'
        BY <1>3, <1>9, <2>3, LeavesUnchanged DEF Inv, LookOnDisk, leafVars
      <3>2. /\ pc' = [pc EXCEPT ![t] = "sign"] /\ caller' = [caller EXCEPT ![t] = caller[t]]
            /\ asked' = [asked EXCEPT ![t] = asked[t]] /\ pair' = [pair EXCEPT ![t] = pair[t]]
        BY <1>5, <1>9, <2>3 DEF LookOnDisk, Goto
      <3> QED
        BY <1>3, <1>5, <2>1, <3>1, <3>2, TaskMoves DEF Inv, HasPair
    <2> QED
      BY <2>2, <2>3
  <1>10. ASSUME Close(t), UNCHANGED leafVars PROVE LeafInv' /\ TaskInv'
    <2>1. LeafInv'
      BY <1>3, <1>10, LeavesUnchanged DEF Inv
    <2>2. TaskInv'
      BY <1>3, <1>10, TaskMoves DEF Inv, Close, Goto, HasPair
    <2> QED
      BY <2>1, <2>2
  <1>11. CASE Sign(t)
    <2>1. CASE Close(t)
      BY <1>10, <1>11, <2>1 DEF Sign
    <2>2. CASE ~Close(t)
      <3>1. LeafInv'
        BY <1>3, <1>11, LeavesUnchanged DEF Inv, Sign
      <3>2. hub = "up" /\ asked[t] \in Domains
        BY <1>4, <1>11 DEF Sign
      <3>3. Good([dom |-> asked[t], root |-> ca], FileOf[asked[t]], key)
        BY <3>2 DEF Inv, CaInv, Good, Leaves
      <3>4. [dom |-> asked[t], root |-> ca] \in Leaves
        BY <3>3 DEF Good
      <3> QED
        BY <1>3, <1>5, <1>11, <2>2, <3>1, <3>2, <3>3, <3>4, TaskMoves
        DEF Inv, Sign, Goto, HasPair
    <2> QED
      BY <2>1, <2>2
  <1>12. CASE OpenLeaf(t) \/ WriteLeaf(t)
    <2>1. hub = "up" /\ asked[t] \in Domains /\ FileOf[asked[t]] \in Files
      BY <1>4, <1>12 DEF OpenLeaf, WriteLeaf
    <2>2. Good(pair[t], FileOf[asked[t]], key) /\ pair[t] \in Leaves
      BY <1>6, <1>12 DEF OpenLeaf, WriteLeaf, HasPair
    <2>3. /\ UNCHANGED memory
          /\ \/ UNCHANGED leaf
             \/ leaf' = [leaf EXCEPT ![FileOf[asked[t]]] = Torn]
             \/ leaf' = [leaf EXCEPT ![FileOf[asked[t]]] = pair[t]]
      BY <1>12 DEF OpenLeaf, WriteLeaf
    <2>4. leaf' \in [Files -> Leaves \cup {None, Torn}]
      BY <2>1, <2>2, <2>3 DEF Inv, LeafInv
    <2>5. \A f \in Files : leaf'[f] \in {None, Torn} \/ Good(leaf'[f], f, key')
      BY <1>3, <2>1, <2>2, <2>3 DEF Inv, LeafInv
    <2>6. hub \notin SavingLabels /\ key # None
      BY <2>1 DEF Inv, CaInv, SavingLabels
    <2>7. LeafInv'
      BY <1>3, <2>1, <2>3, <2>4, <2>5, <2>6 DEF Inv, LeafInv
    <2>8. TaskInv'
      BY <1>3, <1>5, <1>12, <2>1, <2>2, TaskMoves
      DEF Inv, OpenLeaf, WriteLeaf, Goto, HasPair
    <2> QED
      BY <2>7, <2>8
  <1>13. CASE Insert(t)
    <2>1. hub = "up" /\ asked[t] \in Domains
      BY <1>4, <1>13 DEF Insert
    <2>2. Good(pair[t], FileOf[asked[t]], key) /\ pair[t] \in Leaves
      BY <1>6, <1>13 DEF Insert, HasPair
    <2>3. memory' = [memory EXCEPT ![asked[t]] = pair[t]] /\ UNCHANGED leaf
      BY <1>13 DEF Insert
    <2>4. memory' \in [Domains -> Leaves \cup {None}]
      BY <2>1, <2>2, <2>3 DEF Inv, LeafInv
    <2>5. \A d \in Domains : memory'[d] = None \/ Good(memory'[d], FileOf[d], key')
      BY <1>3, <2>1, <2>2, <2>3 DEF Inv, LeafInv
    <2>6. LeafInv'
      BY <1>3, <2>1, <2>3, <2>4, <2>5 DEF Inv, LeafInv
    <2>7. /\ pc' = [pc EXCEPT ![t] = "got"] /\ caller' = [caller EXCEPT ![t] = caller[t]]
          /\ asked' = [asked EXCEPT ![t] = asked[t]] /\ pair' = [pair EXCEPT ![t] = pair[t]]
      BY <1>5, <1>13 DEF Insert, Goto
    <2>8. TaskInv'
      BY <1>3, <1>5, <2>1, <2>2, <2>7, TaskMoves DEF Inv, HasPair
    <2> QED
      BY <2>6, <2>8
  <1>14. CASE Hello(t)
    <2>1. CASE Close(t)
      BY <1>10, <1>14, <2>1 DEF Hello
    <2>2. CASE ~Close(t)
      <3>1. PICK sni \in Domains : asked' = [asked EXCEPT ![t] = sni]
        BY <1>14, <2>2 DEF Hello
      <3>2. LeafInv'
        BY <1>3, <1>14, LeavesUnchanged DEF Inv, Hello
      <3>3. hub = "up"
        BY <1>4, <1>14 DEF Hello
      <3> QED
        BY <1>3, <1>14, <2>2, <3>1, <3>2, <3>3, TaskMoves DEF Inv, Hello, Goto, HasPair
    <2> QED
      BY <2>1, <2>2
  <1>15. CASE EndHandshake(t)
    BY <1>10, <1>15 DEF EndHandshake
  <1> QED
    BY <1>7, <1>8, <1>9, <1>11, <1>12, <1>13, <1>14, <1>15 DEF Handshake

\* Forgetting a leaf does no harm.
LEMMA EvictKeepsInv ==
  ASSUME Inv, NEW d \in Domains, Evict(d)
  PROVE  Inv'
  <1>1. CaInv' /\ UNCHANGED <<hub, key, leaf, pc, caller, asked, pair>>
    BY CaUnchanged DEF Inv, Evict, hubVars, caVars, taskVars
  <1>2. TaskInv'
    BY <1>1, TasksUnchanged DEF Inv
  <1>3. LeafInv'
    BY <1>1 DEF Inv, LeafInv, Evict
  <1> QED
    BY <1>1, <1>2, <1>3 DEF Inv

\* Every step of the hub; those of the working IPs touch none of this.
LEMMA NextKeepsInv == Inv /\ [Next]_vars => Inv'
  <1> SUFFICES ASSUME Inv, [Next]_vars PROVE Inv'
    OBVIOUS
  <1>1. CASE Start
    BY <1>1, StartKeepsInv DEF Start
  <1>2. CASE SaveCa \/ SaveCaFails
    BY <1>2, SaveKeepsInv
  <1>3. CASE \E t \in Tasks : Handshake(t)
    BY <1>3, HandshakeKeepsInv
  <1>4. CASE \E d \in Domains : Evict(d)
    BY <1>4, EvictKeepsInv
  <1>5. CASE Kill
    BY <1>5, KillKeepsInv
  <1>6. CASE UNCHANGED <<hubVars, certVars>>
    <2>1. UNCHANGED <<hubVars, caVars, leafVars, hub, key, pc, caller, asked, pair>>
      BY <1>6 DEF certVars, hubVars, caVars, taskVars
    <2> QED
      BY <2>1, CaUnchanged, LeavesUnchanged, TasksUnchanged DEF Inv
  <1>7. Store => UNCHANGED hubVars
    BY DEF Store, Elapse, RecordSuccess, Clone, Spawn, OpenIps, WriteIps, WriteIpsFails
  <1> QED
    BY <1>1, <1>2, <1>3, <1>4, <1>5, <1>6, <1>7 DEF Next, vars

-----------------------------------------------------------------------------
(* The file of the working IPs *)

\* At first there is nothing to save.
LEMMA IpInvInit == Init => IpInv
  <1> SUFFICES ASSUME Init PROVE IpInv
    OBVIOUS
  <1> USE DEF Init, HubInit, IpInit
  <1>1. ~Saving
    BY DEF Saving
  <1>2. IpTypes
    BY <1>1 DEF IpTypes
  <1>3. IpSafe
    BY <1>1 DEF IpSafe, IpAlone, IpCarried, IpKept
  <1> QED
    BY <1>2, <1>3 DEF IpInv

\* Steps that leave the store as it is and neither start nor stop the hub.
LEMMA IpUnchanged ==
  ASSUME IpInv, UNCHANGED ipVars, hub = "up" => hub' = "up", hub' # "down" => hub # "down"
  PROVE  IpInv'
  <1>1. UNCHANGED <<data, rec, clone, writers, spawned, file, owed, saved, overlap>>
    BY DEF ipVars, historyVars
  <1>2. Saving' = Saving /\ Truncated' = Truncated
    BY <1>1 DEF Saving, Truncated
  <1> QED
    BY <1>1, <1>2 DEF IpInv, IpTypes, IpSafe, IpAlone, IpCarried, IpKept

\* WorkingIpStore::new runs when nothing is being saved, and reads what is owed.
LEMMA IpStart == IpInv /\ Start => IpInv'
  <1> SUFFICES ASSUME IpInv, Start PROVE IpInv'
    OBVIOUS
  <1>1. /\ hub = "down" /\ data' \in Nat /\ (file \in Nat => data' = file)
        /\ UNCHANGED <<rec, clone, writers, spawned, file, owed, saved, overlap>>
    BY ProcessConstants DEF Start, LoadOrGenerate, LoadIps, IpInv, IpTypes, historyVars
  <1>2. ~Saving /\ ~Saving'
    BY <1>1 DEF IpInv, IpTypes, Saving
  <1>3. IpTypes'
    BY <1>1, <1>2 DEF IpInv, IpTypes
  <1>4. (~overlap => IpSafe)'
    BY <1>1, <1>2 DEF IpInv, IpTypes, IpSafe, IpAlone, IpCarried, IpKept
  <1> QED
    BY <1>3, <1>4 DEF IpInv

\* A kill ends every save: what an earlier one left stays, unless the file is
\* truncated.
LEMMA IpKill == IpInv /\ Kill => IpInv'
  <1> SUFFICES ASSUME IpInv, Kill PROVE IpInv'
    OBVIOUS
  <1>1. /\ hub' = "down" /\ data' = 0 /\ writers' = {}
        /\ rec' = [c \in Callers |-> "idle"] /\ clone' = [c \in Callers |-> 0]
        /\ owed' = IF Saving THEN (IF Truncated THEN 0 ELSE saved) ELSE owed
        /\ UNCHANGED <<spawned, file, saved, overlap>>
    BY DEF Kill, Killed, IpKilled, SaveLost
  <1>2. ~Saving'
    BY <1>1 DEF Saving
  <1>3. IpTypes'
    BY <1>1, <1>2 DEF IpInv, IpTypes
  <1>4. (~overlap => IpSafe)'
    BY <1>1, <1>2 DEF IpInv, IpTypes, IpSafe, IpAlone, IpCarried, IpKept
  <1> QED
    BY <1>3, <1>4 DEF IpInv

\* record_success: a save that is begun during another is not counted on.
LEMMA IpRecord ==
  ASSUME IpInv, NEW c \in Callers, RecordSuccess(c)
  PROVE  IpInv'
  <1>1. /\ hub = "up" /\ hub' = hub /\ rec[c] = "idle" /\ data' = data + 1
        /\ UNCHANGED <<clone, writers, spawned, file>>
    BY DEF RecordSuccess, hubVars
  <1>2. CASE due
    <2>1. /\ rec' = [rec EXCEPT ![c] = "clone"] /\ overlap' = Saving
          /\ saved' = (IF Saving \/ overlap THEN 0 ELSE owed)
          /\ owed' = IF saved' > data' THEN saved' ELSE data'
      BY <1>2 DEF RecordSuccess, BeginSave
    <2>2. rec'[c] = "clone" /\ \A d \in Callers : d # c => rec'[d] = rec[d]
      BY <2>1 DEF IpInv, IpTypes
    <2>3. Saving' /\ Saving \in BOOLEAN
      BY <2>2 DEF Saving
    <2>4. IpTypes'
      BY <1>1, <2>1, <2>3 DEF IpInv, IpTypes
    <2>5. ASSUME ~overlap' PROVE IpSafe'
      <3>1. writers = {} /\ \A d \in Callers : rec[d] = "idle"
        BY <2>1, <2>5 DEF Saving
      <3>2. saved' <= data /\ (saved' > 0 => file \in Nat /\ file >= saved')
        BY <1>1, <2>1, <2>5 DEF IpInv, IpTypes, IpSafe, IpCarried, IpKept
      <3>3. owed' = data' /\ saved' <= owed'
        BY <1>1, <2>1, <2>4, <3>2 DEF IpInv, IpTypes
      <3>4. IpAlone'
        BY <1>1, <2>2, <3>1 DEF IpAlone
      <3>5. IpCarried'
        BY <1>1, <2>2, <2>4, <3>1, <3>3 DEF IpCarried, IpTypes
      <3>6. IpKept'
        BY <1>1, <2>3, <3>2, <3>3 DEF IpKept
      <3> QED
        BY <3>4, <3>5, <3>6 DEF IpSafe
    <2> QED
      BY <2>4, <2>5 DEF IpInv
  <1>3. CASE ~due
    <2>1. UNCHANGED <<rec, owed, saved, overlap>>
      BY <1>3 DEF RecordSuccess, historyVars
    <2>2. Saving' = Saving /\ Truncated' = Truncated
      BY <1>1, <2>1 DEF Saving, Truncated
    <2>3. IpTypes'
      BY <1>1, <2>1, <2>2 DEF IpInv, IpTypes
    <2>4. ASSUME ~overlap' PROVE IpSafe'
      BY <1>1, <2>1, <2>2, <2>4 DEF IpInv, IpTypes, IpSafe, IpAlone, IpCarried, IpKept
    <2> QED
      BY <2>3, <2>4 DEF IpInv
  <1> QED
    BY <1>2, <1>3

\* The clone is taken of a map that has what is owed.
LEMMA IpClone ==
  ASSUME IpInv, NEW c \in Callers, Clone(c)
  PROVE  IpInv'
  <1>1. /\ rec[c] = "clone" /\ rec' = [rec EXCEPT ![c] = "spawn"]
        /\ clone' = [clone EXCEPT ![c] = data]
        /\ UNCHANGED <<hub, data, writers, spawned, file, owed, saved, overlap>>
    BY DEF Clone, hubVars, historyVars
  <1>2. Saving /\ Saving' /\ hub = "up" /\ Truncated' = Truncated
    BY <1>1 DEF IpInv, IpTypes, Saving, Truncated
  <1>3. IpTypes'
    BY <1>1, <1>2 DEF IpInv, IpTypes
  <1>4. ASSUME ~overlap' PROVE IpSafe'
    <2>1. IpAlone' /\ IpCarried'
      BY <1>1, <1>2, <1>4 DEF IpInv, IpTypes, IpSafe, IpAlone, IpCarried
    <2>2. IpKept'
      BY <1>1, <1>2, <1>4 DEF IpInv, IpSafe, IpKept
    <2> QED
      BY <2>1, <2>2 DEF IpSafe
  <1> QED
    BY <1>3, <1>4 DEF IpInv

\* The thread takes the clone over.
LEMMA IpSpawn ==
  ASSUME IpInv, NEW c \in Callers, Spawn(c)
  PROVE  IpInv'
  <1> DEFINE w == [id |-> spawned, map |-> clone[c], open |-> FALSE, mixed |-> FALSE]
  <1>1. /\ rec[c] = "spawn" /\ rec' = [rec EXCEPT ![c] = "idle"]
        /\ clone' = [clone EXCEPT ![c] = 0] /\ spawned' = spawned + 1
        /\ writers' = writers \cup {w}
        /\ UNCHANGED <<hub, data, file, owed, saved, overlap>>
    BY DEF Spawn, hubVars, historyVars
  <1>2. w \in SaveThreads /\ w.map = clone[c] /\ ~w.open /\ ~w.mixed
    BY DEF IpInv, IpTypes, SaveThreads
  <1> HIDE DEF w
  <1>3. Saving /\ Saving' /\ hub = "up"
    BY <1>1 DEF IpInv, IpTypes, Saving
  <1>4. IpTypes'
    BY <1>1, <1>2, <1>3 DEF IpInv, IpTypes
  <1>5. ASSUME ~overlap' PROVE IpSafe'
    <2>1. writers = {} /\ \A d \in Callers : rec'[d] = "idle"
      BY <1>1, <1>5 DEF IpInv, IpTypes, IpSafe, IpAlone
    <2>2. clone[c] >= owed
      BY <1>1, <1>5 DEF IpInv, IpSafe, IpCarried
    <2>3. IpAlone'
      BY <1>1, <1>2, <2>1 DEF IpAlone
    <2>4. IpCarried'
      BY <1>1, <1>2, <1>5, <2>1, <2>2 DEF IpInv, IpSafe, IpCarried
    <2>5. ~Truncated
      BY <2>1 DEF Truncated
    <2>6. IpKept'
      BY <1>1, <1>3, <1>5, <2>5 DEF IpInv, IpSafe, IpKept
    <2> QED
      BY <2>3, <2>4, <2>6 DEF IpSafe
  <1> QED
    BY <1>4, <1>5 DEF IpInv

\* A thread that is alone leaves in the file what it carried, or fails; what was
\* saved before is in the file until it opens it.
LEMMA IpThread ==
  ASSUME IpInv, NEW w \in writers, OpenIps(w) \/ WriteIps(w) \/ WriteIpsFails(w)
  PROVE  IpInv'
  <1>1. UNCHANGED <<hub, data, rec, clone, spawned, saved, overlap>>
    BY DEF OpenIps, WriteIps, WriteIpsFails, hubVars, historyVars
  <1>2. w \in SaveThreads /\ Saving /\ hub = "up"
    BY DEF IpInv, IpTypes, Saving
  <1>3. ~overlap => /\ writers = {w} /\ (Truncated <=> w.open)
                    /\ \A c \in Callers : rec[c] = "idle"
    BY DEF IpInv, IpSafe, IpAlone, Truncated
  <1>4. CASE OpenIps(w)
    <2> DEFINE o(v) == [v EXCEPT !.open = @ \/ v = w,
                                 !.mixed = @ \/ v.open \/ (v = w /\ Truncated)]
    <2>1. ~w.open /\ file' = Torn /\ writers' = {o(v) : v \in writers} /\ owed' = owed
      BY <1>4 DEF OpenIps, historyVars
    <2>2. Truncated \in BOOLEAN
      BY DEF Truncated
    <2>3. \A v \in SaveThreads : o(v) \in SaveThreads /\ o(v).map = v.map
      BY <2>2 DEF SaveThreads
    <2>4. o(w).open /\ (o(w).mixed <=> w.mixed \/ w.open \/ Truncated)
      BY <1>2, <2>2 DEF SaveThreads
    <2> HIDE DEF o
    <2>5. Saving' /\ Truncated'
      BY <2>1, <2>4 DEF Saving, Truncated
    <2>6. IpTypes'
      BY <1>1, <1>2, <2>1, <2>3 DEF IpInv, IpTypes
    <2>7. ASSUME ~overlap' PROVE IpSafe'
      <3>1. writers' = {o(w)} /\ ~o(w).mixed /\ o(w).map >= owed
        BY <1>1, <1>2, <1>3, <2>1, <2>3, <2>4, <2>7 DEF IpInv, IpSafe, IpAlone, IpCarried
      <3>2. IpAlone' /\ IpCarried'
        BY <1>1, <1>3, <2>1, <2>7, <3>1 DEF IpInv, IpSafe, IpAlone, IpCarried
      <3>3. IpKept'
        BY <1>1, <1>2, <2>1, <2>5, <2>7 DEF IpInv, IpSafe, IpKept
      <3> QED
        BY <3>2, <3>3 DEF IpSafe
    <2> QED
      BY <2>6, <2>7 DEF IpInv
  <1>5. CASE WriteIps(w)
    <2>1. /\ file' = w.map \/ (w.mixed /\ file' = Torn)
          /\ writers' = writers \ {w} /\ owed' = owed
      BY <1>5 DEF WriteIps, historyVars
    <2>2. w.map \in Nat
      BY <1>2 DEF SaveThreads
    <2>3. IpTypes'
      BY <1>1, <1>2, <2>1, <2>2 DEF IpInv, IpTypes
    <2>4. ASSUME ~overlap' PROVE IpSafe'
      <3>1. writers' = {} /\ file' = w.map /\ w.map >= owed
        BY <1>1, <1>3, <2>1, <2>4 DEF IpInv, IpSafe, IpAlone, IpCarried
      <3>2. ~Saving'
        BY <1>1, <1>3, <2>4, <3>1 DEF Saving
      <3> QED
        BY <1>1, <1>3, <2>1, <2>2, <2>4, <3>1, <3>2
        DEF IpInv, IpSafe, IpAlone, IpCarried, IpKept
    <2> QED
      BY <2>3, <2>4 DEF IpInv
  <1>6. CASE WriteIpsFails(w)
    <2>1. /\ file' = file \/ (w.open /\ file' = Torn)
          /\ writers' = writers \ {w} /\ owed' = IF Truncated THEN 0 ELSE saved
      BY <1>6 DEF WriteIpsFails, SaveLost
    <2>2. IpTypes'
      BY <1>1, <1>2, <2>1 DEF IpInv, IpTypes
    <2>3. ASSUME ~overlap' PROVE IpSafe'
      <3>1. writers' = {} /\ (~Truncated => file' = file)
        BY <1>1, <1>3, <2>1, <2>3
      <3>2. ~Saving'
        BY <1>1, <1>3, <2>3, <3>1 DEF Saving
      <3>3. owed' <= owed
        BY <1>1, <1>2, <2>1, <2>3 DEF IpInv, IpTypes, IpSafe, IpKept
      <3>4. IpAlone' /\ IpCarried'
        BY <1>1, <1>2, <1>3, <2>2, <2>3, <3>1, <3>3
        DEF IpInv, IpTypes, IpSafe, IpAlone, IpCarried
      <3>5. IpKept'
        BY <1>1, <1>2, <2>1, <2>3, <3>1, <3>2 DEF IpInv, IpTypes, IpSafe, IpKept
      <3> QED
        BY <3>4, <3>5 DEF IpSafe
    <2> QED
      BY <2>2, <2>3 DEF IpInv
  <1> QED
    BY <1>4, <1>5, <1>6

\* Every step of the hub; those of the certificates touch none of this.
LEMMA NextKeepsIps == IpInv /\ [Next]_vars => IpInv'
  <1> SUFFICES ASSUME IpInv, [Next]_vars PROVE IpInv'
    OBVIOUS
  <1>1. CASE Start
    BY <1>1, IpStart
  <1>2. CASE (SaveCa \/ SaveCaFails) /\ UNCHANGED ipVars
    BY <1>2, IpUnchanged DEF SaveCa, SaveCaFails
  <1>3. CASE (\E t \in Tasks : Handshake(t)) /\ UNCHANGED ipVars
    <2>1. UNCHANGED hubVars
      BY <1>3 DEF Handshake, BeginHandshake, LookInMemory, LookOnDisk, Sign, OpenLeaf,
                  WriteLeaf, Insert, Hello, EndHandshake
    <2> QED
      BY <1>3, <2>1, IpUnchanged DEF hubVars
  <1>4. CASE (\E d \in Domains : Evict(d)) /\ UNCHANGED ipVars
    BY <1>4, IpUnchanged DEF Evict, hubVars
  <1>5. CASE Kill
    BY <1>5, IpKill
  <1>6. CASE Elapse
    <2>1. UNCHANGED <<hub, data, rec, clone, writers, spawned, file, owed, saved, overlap>>
      BY <1>6 DEF Elapse, hubVars, historyVars
    <2>2. Saving' = Saving /\ Truncated' = Truncated
      BY <2>1 DEF Saving, Truncated
    <2> QED
      BY <2>1, <2>2 DEF IpInv, IpTypes, IpSafe, IpAlone, IpCarried, IpKept
  <1>7. CASE Store /\ ~Elapse
    BY <1>7, IpRecord, IpClone, IpSpawn, IpThread DEF Store
  <1>8. CASE UNCHANGED vars
    BY <1>8, IpUnchanged DEF vars, hubVars
  <1> QED
    BY <1>1, <1>2, <1>3, <1>4, <1>5, <1>6, <1>7, <1>8 DEF Next

-----------------------------------------------------------------------------
(* Theorems *)

\* A running hub signs with the root of ca.crt.pem unless its key file is torn,
\* for any number of starts, failed writes and kills.
THEOREM RootIsPublished == Spec => []SignerIsPublished
  <1>1. Inv => SignerIsPublished
    BY ProcessConstants DEF Inv, CaInv, SignerIsPublished
  <1> QED
    BY <1>1, InvInit, NextKeepsInv, PTL DEF Spec

\* Every handshake is served a leaf of the published root, fresh, cached or left
\* on disk by an earlier hub, whichever handshakes and kills came before.
THEOREM ClientsAcceptLeaves == Spec => []ServedLeafAccepted
  <1>1. Inv => ServedLeafAccepted
    <2> SUFFICES ASSUME Inv, NEW t \in Tasks, Served(t)
                 PROVE  /\ key # Torn => pair[t].root = crt
                        /\ FileOf[pair[t].dom] = FileOf[asked[t]]
      BY DEF ServedLeafAccepted
    <2>1. hub = "up" /\ Good(pair[t], FileOf[asked[t]], key)
      BY DEF Inv, TaskInv, Served, HasPair
    <2> QED
      BY <2>1 DEF Inv, CaInv, Good
  <1> QED
    BY <1>1, InvInit, NextKeepsInv, PTL DEF Spec

\* What a save put into working_ips.json stays in it from save to save and over
\* kills and restarts, also when a later save is ended by a kill or an error before
\* it opens the file; and the success that began a save is there when it has ended:
\* for any number of callers, successes, saves and kills.  The promise begins anew
\* after a kill or an error between the truncation and the end of the write, which
\* loses the file, and after saves that overlapped.
THEOREM SavedSuccessKept == Spec => []SavedSuccessStays
  <1>1. IpInv => SavedSuccessStays
    BY ProcessConstants DEF IpInv, IpTypes, IpSafe, IpKept, SavedSuccessStays
  <1> QED
    BY <1>1, IpInvInit, NextKeepsIps, PTL DEF Spec

=============================================================================
