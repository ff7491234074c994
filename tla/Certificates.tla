---------------------------- MODULE Certificates ----------------------------
(***************************************************************************)
(* The certificates of the MITM proxy: the root (mitm/ca.rs), loaded or    *)
(* generated when a hub starts, the leaves kept in memory and on disk      *)
(* (mitm/cert_cache.rs), and the handshakes that ask for them              *)
(* (mitm/tls_terminator.rs).                                               *)
(*                                                                         *)
(* A root is the number of its key: load_existing_ca reads the key alone   *)
(* and rebuilds the same certificate from it.  A leaf is its domain and    *)
(* the root that signed it; its certificate and its key are one file.      *)
(* fs::write is two steps, the truncation and the write.                   *)
(***************************************************************************)
EXTENDS HubProcess, FiniteSets

CONSTANTS
  Domains,       \* domains that clients ask for
  FileOf,        \* disk_path: every character but letters, digits and - is _
  MaxCacheSize,  \* max_cache_size: leaves in memory
  Tasks,         \* TLS handshakes at the same time
  MaxHandshakes, \* bound: handshakes in all
  MaxRoots       \* bound: roots that are generated

VARIABLES
  crt, key,   \* ca.crt.pem and ca.key.pem: a root, None or Torn
  leaf,       \* leaf[f]: the leaf in a file of the disk cache, None or Torn
  roots,      \* roots generated so far
  ca,         \* root of the running hub
  memory,     \* memory[d]: the leaf cached for a domain, or None
  pc,         \* where a handshake is in get_or_generate
  caller,     \* who called it: accept, then the resolver
  asked,      \* the domain it asks get_or_generate for
  pair,       \* the leaf it has got
  left        \* handshakes that may still begin

caVars == <<crt, key, roots, ca>>
leafVars == <<leaf, memory>>
taskVars == <<pc, caller, asked, pair, left>>
certVars == <<caVars, leafVars, taskVars>>

Files == {FileOf[d] : d \in Domains}
Goto(t, label) == pc' = [pc EXCEPT ![t] = label]

CertInit ==
  /\ crt = None /\ key = None /\ roots = 0 /\ ca = None
  /\ leaf = [f \in Files |-> None] /\ memory = [d \in Domains |-> None]
  /\ pc = [t \in Tasks |-> "idle"] /\ caller = [t \in Tasks |-> None]
  /\ asked = [t \in Tasks |-> None] /\ pair = [t \in Tasks |-> None]
  /\ left \in 0..MaxHandshakes

-----------------------------------------------------------------------------
(* CertificateAuthority::load_or_generate *)

Generate ==
  /\ roots < MaxRoots
  /\ roots' = roots + 1 /\ ca' = roots + 1

\* Mutant: a root is generated although there is one.
LoadOrGenerate_Always ==
  /\ hub = "down"
  /\ Generate
  /\ hub' = "open_crt"
  /\ UNCHANGED <<kills, crt, key, leafVars, taskVars>>

\* Both files are there: the key is read, and a new root is used but not saved
\* if it cannot be.  Otherwise a new root is generated and saved.
LoadOrGenerate ==
  /\ hub = "down"
  /\ \/ /\ crt # None /\ key # None
        /\ IF key # Torn THEN ca' = key /\ UNCHANGED roots ELSE Generate
        /\ hub' = "up"
     \/ /\ crt = None \/ key = None
        /\ Generate
        /\ hub' = "open_crt"
  /\ UNCHANGED <<kills, crt, key, leafVars, taskVars>>

\* Mutant: the key is saved before the certificate.
SaveCa_KeyFirst ==
  /\ \/ hub = "open_crt" /\ key' = Torn /\ hub' = "write_crt" /\ UNCHANGED crt
     \/ hub = "write_crt" /\ key' = ca /\ hub' = "open_key" /\ UNCHANGED crt
     \/ hub = "open_key" /\ crt' = Torn /\ hub' = "write_key" /\ UNCHANGED key
     \/ hub = "write_key" /\ crt' = ca /\ hub' = "up" /\ UNCHANGED key
  /\ UNCHANGED <<kills, roots, ca, leafVars, taskVars>>

\* fs::write of the certificate, then of the key.
SaveCa ==
  /\ \/ hub = "open_crt" /\ crt' = Torn /\ hub' = "write_crt" /\ UNCHANGED key
     \/ hub = "write_crt" /\ crt' = ca /\ hub' = "open_key" /\ UNCHANGED key
     \/ hub = "open_key" /\ key' = Torn /\ hub' = "write_key" /\ UNCHANGED crt
     \/ hub = "write_key" /\ key' = ca /\ hub' = "up" /\ UNCHANGED crt
  /\ UNCHANGED <<kills, roots, ca, leafVars, taskVars>>

\* An error of a write is returned, and the hub does not start.
SaveCaFails ==
  /\ hub \in {"open_crt", "write_crt", "open_key", "write_key"}
  /\ hub' = "down" /\ ca' = None
  /\ UNCHANGED <<kills, crt, key, roots, leafVars, taskVars>>

-----------------------------------------------------------------------------
(* CertCache::get_or_generate, called by accept for the host of the CONNECT *)
(* and by the resolver for the name in the client's hello                   *)

\* accept(domain)
BeginHandshake(t, d) ==
  /\ hub = "up" /\ pc[t] = "idle" /\ left > 0
  /\ left' = left - 1
  /\ asked' = [asked EXCEPT ![t] = d] /\ caller' = [caller EXCEPT ![t] = "accept"]
  /\ Goto(t, "memory")
  /\ UNCHANGED <<hubVars, caVars, leafVars, pair>>

\* A handshake is over.
Close(t) ==
  /\ Goto(t, "idle")
  /\ caller' = [caller EXCEPT ![t] = None] /\ asked' = [asked EXCEPT ![t] = None]
  /\ pair' = [pair EXCEPT ![t] = None]

\* get_or_generate returns.
Got(t, p) == pair' = [pair EXCEPT ![t] = p] /\ Goto(t, "got")

LookInMemory(t) ==
  /\ pc[t] = "memory"
  /\ IF memory[asked[t]] # None THEN Got(t, memory[asked[t]])
                                ELSE Goto(t, "disk") /\ UNCHANGED pair
  /\ UNCHANGED <<hubVars, caVars, leafVars, caller, asked, left>>

\* load_from_disk looks for the two blocks of PEM, and neither at the name nor
\* at the signature nor at the dates in them.
LookOnDisk(t) ==
  LET p == leaf[FileOf[asked[t]]] IN
  /\ pc[t] = "disk"
  /\ IF p \notin {None, Torn}
     THEN Got(t, p) /\ memory' = [memory EXCEPT ![asked[t]] = p]
     ELSE Goto(t, "sign") /\ UNCHANGED <<memory, pair>>
  /\ UNCHANGED <<hubVars, caVars, leaf, caller, asked, left>>

\* sign_domain_cert
Sign(t) ==
  /\ pc[t] = "sign"
  /\ \/ /\ pair' = [pair EXCEPT ![t] = [dom |-> asked[t], root |-> ca]]
        /\ Goto(t, "open")
        /\ UNCHANGED <<caller, asked>>
     \/ Close(t)      \* not a name that can be signed
  /\ UNCHANGED <<hubVars, caVars, leafVars, left>>

\* save_to_disk, whose errors are ignored.
OpenLeaf(t) ==
  /\ pc[t] = "open"
  /\ \/ leaf' = [leaf EXCEPT ![FileOf[asked[t]]] = Torn] /\ Goto(t, "write")
     \/ UNCHANGED leaf /\ Goto(t, "insert")
  /\ UNCHANGED <<hubVars, caVars, memory, caller, asked, pair, left>>

WriteLeaf(t) ==
  /\ pc[t] = "write"
  /\ \/ leaf' = [leaf EXCEPT ![FileOf[asked[t]]] = pair[t]]
     \/ UNCHANGED leaf
  /\ Goto(t, "insert")
  /\ UNCHANGED <<hubVars, caVars, memory, caller, asked, pair, left>>

Insert(t) ==
  /\ pc[t] = "insert"
  /\ memory' = [memory EXCEPT ![asked[t]] = pair[t]]
  /\ Goto(t, "got")
  /\ UNCHANGED <<hubVars, caVars, leaf, caller, asked, pair, left>>

\* The client's hello names a domain, most often the same, and the resolver asks
\* for it; without a name the handshake fails.
Hello(t) ==
  /\ pc[t] = "got" /\ caller[t] = "accept"
  /\ \/ /\ \E sni \in Domains : asked' = [asked EXCEPT ![t] = sni]
        /\ caller' = [caller EXCEPT ![t] = "resolver"]
        /\ pair' = [pair EXCEPT ![t] = None]
        /\ Goto(t, "memory")
     \/ Close(t)
  /\ UNCHANGED <<hubVars, caVars, leafVars, left>>

\* The handshake goes on with the resolver's pair.
Served(t) == pc[t] = "got" /\ caller[t] = "resolver"

EndHandshake(t) ==
  /\ Served(t)
  /\ Close(t)
  /\ UNCHANGED <<hubVars, caVars, leafVars, left>>

\* SimpleEvictableCache makes room (EvictableCache has how).
Evict(d) ==
  /\ memory[d] # None
  /\ Cardinality({e \in Domains : memory[e] # None}) > MaxCacheSize
  /\ memory' = [memory EXCEPT ![d] = None]
  /\ UNCHANGED <<hubVars, caVars, leaf, taskVars>>

\* With the process all but the files is gone.
CertKilled ==
  /\ ca' = None
  /\ memory' = [d \in Domains |-> None]
  /\ pc' = [t \in Tasks |-> "idle"] /\ caller' = [t \in Tasks |-> None]
  /\ asked' = [t \in Tasks |-> None] /\ pair' = [t \in Tasks |-> None]
  /\ UNCHANGED <<crt, key, roots, leaf, left>>

Handshake(t) ==
  \/ \E d \in Domains : BeginHandshake(t, d)
  \/ LookInMemory(t) \/ LookOnDisk(t) \/ Sign(t) \/ OpenLeaf(t) \/ WriteLeaf(t)
  \/ Insert(t) \/ Hello(t) \/ EndHandshake(t)

-----------------------------------------------------------------------------
(* Properties *)

\* What the running hub signs with is what ca.crt.pem says and Git is told to
\* trust (git/config.rs), however often the hub was killed or failed while it
\* saved the two files, unless it was in the middle of the key: with a torn key
\* every start generates a root that no file has.
SignerIsPublished == hub = "up" /\ key # Torn => ca # None /\ crt = ca

\* A client that trusts ca.crt.pem is served a leaf of that root, made by this
\* hub or an earlier one, and for a domain of the same file name.
ServedLeafAccepted ==
  \A t \in Tasks : Served(t) =>
    /\ key # Torn => pair[t].root = crt
    /\ FileOf[pair[t].dom] = FileOf[asked[t]]

=============================================================================
