-------------------------- MODULE ProxyConnection --------------------------
(***************************************************************************)
(* The proxy server and its connections: the accept loop with its          *)
(* semaphore and its count of active connections (proxy/server.rs), the    *)
(* handler from the first peek to the last relay (proxy/handler.rs) and    *)
(* the plain tunnel (proxy/tunnel.rs).                                     *)
(*                                                                         *)
(* Every await at which a connection may wait for its client, an upstream  *)
(* or the disk is a label of pc.  What a client asks and an upstream       *)
(* answers is chosen freely.  An upstream's answer is counted in units:    *)
(* one for the head, one for each piece of the body.  Replies that the     *)
(* proxy makes up itself (302, 400, 403, 431, the PAC file) are not told   *)
(* apart: the connection returns.  The cache is a map here; ResourceCache  *)
(* has its files, MirrorHealth the tracker that the mirror branch feeds,   *)
(* HappyEyeballs and SniStream what a connect does.                        *)
(***************************************************************************)
EXTENDS Integers, FiniteSets

CONSTANTS
  Conns,       \* connections that clients open
  Urls,        \* cacheable URLs: images of a GitHub domain
  Limits,      \* values of max_connections; 0 is no limit
  MaxBody      \* bound: units of a body

ASSUME ConnectionConstants ==
  /\ Limits \subseteq Nat /\ MaxBody \in Nat
  /\ IsFiniteSet(Conns)
  /\ "none" \notin Urls

VARIABLES
  config,     \* mitm_enabled, sni_spoof_enabled and max_connections
  listening,  \* the accept loop runs
  permits,    \* free permits of the semaphore
  active,     \* metrics.active_connections
  cache,      \* cache[u]: units of the body cached for u, or NoBody
  announced,  \* history: the Content-Length of the answer cached for u
  pc,         \* where the task of a connection waits
  via,        \* the branch of perform_mitm that a request takes
  url,        \* its URL if it is cacheable, or "none"
  want,       \* Content-Length of the answer, or NoBody
  got, out    \* units read from the upstream, units written to the client

vars == <<config, listening, permits, active, cache, announced, pc, via, url, want,
          got, out>>
serverVars == <<config, listening, permits, active>>
answerVars == <<want, got, out>>
cacheVars == <<cache, announced>>

NoBody == -1
Lengths == NoBody..MaxBody
Goto(c, label) == pc' = [pc EXCEPT ![c] = label]

\* Labels of pc inside handle_connection, by who ends the wait.
Timed == {"request", "head_sni", "inject_body", "relay"}
Untimed == {"peek", "connect_head", "http_head", "tunnel_connect", "http_connect",
            "handshake", "mirror_connect", "origin_connect", "lookup", "sni_connect",
            "connect", "head", "send_head", "body", "put", "inject_head",
            "inject_length", "send_page", "reply", "relay_metrics"}
Handling == Timed \cup Untimed \cup {"returned"}

Init ==
  /\ config \in [mitm : BOOLEAN, sni : BOOLEAN, max : Limits]
  /\ listening = TRUE
  /\ permits = config.max
  /\ active = 0
  /\ cache = [u \in Urls |-> NoBody] /\ announced = [u \in Urls |-> NoBody]
  /\ pc = [c \in Conns |-> "new"]
  /\ via = [c \in Conns |-> "none"]
  /\ url = [c \in Conns |-> "none"]
  /\ want = [c \in Conns |-> NoBody]
  /\ got = [c \in Conns |-> 0] /\ out = [c \in Conns |-> 0]

-----------------------------------------------------------------------------
(* ProxyServer::start and the task it spawns for a connection *)

Accept(c) ==
  /\ listening /\ pc[c] = "new"
  /\ Goto(c, "queued")
  /\ UNCHANGED <<serverVars, cacheVars, via, url, answerVars>>

\* Mutant: the permit is not bound to a name and dropped at once.
Acquire_Dropped(c) ==
  /\ pc[c] = "queued"
  /\ config.max = 0 \/ permits > 0
  /\ Goto(c, "admitted")
  /\ UNCHANGED <<config, listening, permits, active, cacheVars, via, url, answerVars>>

\* The permit; the semaphore is never closed, so that acquire never fails.
Acquire(c) ==
  /\ pc[c] = "queued"
  /\ IF config.max = 0 THEN UNCHANGED permits
                       ELSE permits > 0 /\ permits' = permits - 1
  /\ Goto(c, "admitted")
  /\ UNCHANGED <<config, listening, active, cacheVars, via, url, answerVars>>

IncActive(c) ==
  /\ pc[c] = "admitted"
  /\ active' = active + 1
  /\ Goto(c, "peek")
  /\ UNCHANGED <<config, listening, permits, cacheVars, via, url, answerVars>>

\* Mutant: the count is kept when the handler returns an error.
DecActive_OkOnly(c) ==
  /\ pc[c] = "returned"
  /\ \E ok \in BOOLEAN : active' = IF ok THEN active - 1 ELSE active
  /\ Goto(c, "counted")
  /\ UNCHANGED <<config, listening, permits, cacheVars, via, url, answerVars>>

\* handle_connection has returned, with or without an error.
DecActive(c) ==
  /\ pc[c] = "returned"
  /\ active' = active - 1
  /\ Goto(c, "counted")
  /\ via' = [via EXCEPT ![c] = "none"] /\ url' = [url EXCEPT ![c] = "none"]
  /\ want' = [want EXCEPT ![c] = NoBody]
  /\ got' = [got EXCEPT ![c] = 0] /\ out' = [out EXCEPT ![c] = 0]
  /\ UNCHANGED <<config, listening, permits, cacheVars>>

\* The task ends and drops its permit.
Release(c) ==
  /\ pc[c] = "counted"
  /\ permits' = IF config.max = 0 THEN permits ELSE permits + 1
  /\ Goto(c, "closed")
  /\ UNCHANGED <<config, listening, active, cacheVars, via, url, answerVars>>

\* proxy_handle.abort(): the tasks of the connections go on.
StopListening ==
  /\ listening /\ listening' = FALSE
  /\ UNCHANGED <<config, permits, active, cacheVars, pc, via, url, answerVars>>

-----------------------------------------------------------------------------
(* handle_connection, handle_connect, handle_http and establish_tunnel *)

\* A step that goes on at one of the labels and changes nothing else.
Await(c, from, to) ==
  /\ pc[c] = from
  /\ \E label \in to : Goto(c, label)
  /\ UNCHANGED <<serverVars, cacheVars, via, url, answerVars>>

Peek(c) == Await(c, "peek", {"connect_head", "http_head", "returned"})

\* A malformed or overlong CONNECT, a blocked or aborted domain returns.
Classes == {"Proxy", "Direct", "Block"}
ConnectHead(c) ==
  \/ Await(c, "connect_head", {"returned"})
  \/ \E class \in Classes :
       Await(c, "connect_head",
             {CASE class = "Proxy" /\ config.mitm -> "handshake"
                [] class = "Block" -> "returned"
                [] OTHER -> "tunnel_connect"})

\* The PAC file, a malformed or overlong request, a blocked domain returns.
HttpHead(c) == Await(c, "http_head", {"returned", "http_connect"})

TunnelConnect(c) == Await(c, "tunnel_connect", {"relay", "returned"})
HttpConnect(c) == Await(c, "http_connect", {"relay", "returned"})

-----------------------------------------------------------------------------
(* perform_mitm *)

Handshake(c) == Await(c, "handshake", {"request", "returned"})

\* resolve_upstream: what the matched rule says, an SNI rule being ignored
\* when sni_spoof is disabled.
Decisions == {"Redirect", "Mirror", "Sni", "Assets", "Direct", "Abort"}
ResolveUpstream(rule) ==
  IF rule \in {"Sni", "Assets"} /\ ~config.sni THEN "Direct" ELSE rule

\* The request is read.  Assets stands for the SNI branch and a page below
\* /releases/expanded_assets/, which is not cacheable.
Request(c) ==
  /\ pc[c] = "request"
  /\ \E rule \in Decisions, u \in Urls \cup {"none"} :
       LET way == ResolveUpstream(rule) IN
       /\ rule = "Assets" => u = "none"
       /\ via' = [via EXCEPT ![c] = way]
       /\ url' = [url EXCEPT ![c] = IF way \in {"Sni", "Direct"} THEN u ELSE "none"]
       /\ Goto(c, CASE way = "Redirect" -> "reply"
                    [] way = "Abort" -> "returned"
                    [] way = "Mirror" -> "mirror_connect"
                    [] u # "none" -> "lookup"
                    [] way = "Direct" -> "connect"
                    [] OTHER -> "sni_connect")
  /\ UNCHANGED <<serverVars, cacheVars, answerVars>>

\* The client sends nothing, or closes.
RequestFails(c) == Await(c, "request", {"returned"})

\* The mirror, else the original host; the request is written.
MirrorConnect(c) == Await(c, "mirror_connect", {"relay", "origin_connect", "returned"})
OriginConnect(c) == Await(c, "origin_connect", {"relay", "returned"})

\* resource_cache.get: a hit is sent and the connection closed.
Lookup(c) ==
  Await(c, "lookup", {IF cache[url[c]] # NoBody THEN "reply"
                      ELSE IF via[c] = "Sni" THEN "sni_connect" ELSE "connect"})

Reply(c) == Await(c, "reply", {"returned"})

\* Where a request goes on once it is written to the upstream.
Forwarded(c) ==
  CASE via[c] = "Assets" -> "inject_head"
    [] via[c] = "Sni" /\ url[c] = "none" -> "relay_metrics"
    [] via[c] = "Sni" -> "head_sni"
    [] url[c] # "none" -> "head"
    [] OTHER -> "relay"

SniConnect(c) == Await(c, "sni_connect", {Forwarded(c), "connect", "returned"})
Connect(c) == Await(c, "connect", {Forwarded(c), "returned"})

\* The whole head of the answer is read, with the first k units of the body,
\* and parsed.
HeadRead(c, label) ==
  /\ pc[c] = label
  /\ \E k \in 0..MaxBody, len \in Lengths :
       /\ got' = [got EXCEPT ![c] = 1 + k]
       /\ want' = [want EXCEPT ![c] = len]
  /\ Goto(c, "send_head")
  /\ UNCHANGED <<serverVars, cacheVars, via, url, out>>

\* The upstream closes or sends too much before the head is complete: what
\* was read is passed on.
HeadBroken(c, label) ==
  /\ pc[c] = label
  /\ \E k \in {0, 1} : got' = [got EXCEPT ![c] = k]
  /\ Goto(c, "send_head")
  /\ UNCHANGED <<serverVars, cacheVars, via, url, want, out>>

ReadHead(c, label) == HeadRead(c, label) \/ HeadBroken(c, label)

\* In the Direct branch a read error returns.
HeadFails(c) == Await(c, "head", {"returned"})

\* What was read goes to the client.  With a Content-Length (and a type) the
\* body is read for the cache, otherwise relayed.
SendHead(c) ==
  /\ pc[c] = "send_head"
  /\ \/ Goto(c, "returned") /\ UNCHANGED out
     \/ /\ out' = [out EXCEPT ![c] = got[c]]
        /\ Goto(c, IF want[c] = NoBody THEN "relay" ELSE "body")
  /\ UNCHANGED <<serverVars, cacheVars, via, url, want, got>>

\* The body so far, all of it units that have been sent to the client.
Body(c) == got[c] - 1

ReadBody(c) ==
  /\ pc[c] = "body" /\ Body(c) < want[c]
  /\ got' = [got EXCEPT ![c] = @ + 1]
  /\ \/ out' = [out EXCEPT ![c] = @ + 1] /\ UNCHANGED pc
     \/ Goto(c, "returned") /\ UNCHANGED out
  /\ UNCHANGED <<serverVars, cacheVars, via, url, want>>

\* Mutant: what was read before the upstream closed is cached.
BodyEnds_Unchecked(c) ==
  /\ pc[c] = "body"
  /\ Goto(c, "put")
  /\ UNCHANGED <<serverVars, cacheVars, via, url, answerVars>>

\* The loop is over, or the upstream closed.  Only a body of the announced
\* length is cached: a longer one, of which more than that came with the
\* head, is not.
BodyEnds(c) ==
  /\ pc[c] = "body"
  /\ Goto(c, IF Body(c) = want[c] THEN "put" ELSE "relay")
  /\ UNCHANGED <<serverVars, cacheVars, via, url, answerVars>>

\* resource_cache.put, which may fail or refuse a large file.
Put(c) ==
  /\ pc[c] = "put"
  /\ \/ /\ cache' = [cache EXCEPT ![url[c]] = Body(c)]
        /\ announced' = [announced EXCEPT ![url[c]] = want[c]]
     \/ UNCHANGED cacheVars
  /\ Goto(c, "relay")
  /\ UNCHANGED <<serverVars, via, url, answerVars>>

\* The page of a release's assets: a plain HTML answer is read to its end
\* (by length without a timeout, otherwise with one), another one relayed.
InjectHead(c) ==
  /\ pc[c] = "inject_head"
  /\ \E k \in 0..MaxBody + 1 :
       /\ got' = [got EXCEPT ![c] = k]
       /\ \/ k > 0 /\ \E next \in {"inject_length", "inject_body"} : Goto(c, next)
          \/ Goto(c, "send_page")
  /\ UNCHANGED <<serverVars, cacheVars, via, url, want, out>>

InjectBody(c, label) == Await(c, label, {"reply"})

\* Mutant: the part of the body that came with the head is dropped.
SendPage_DropsRead(c) ==
  /\ pc[c] = "send_page"
  /\ \/ Goto(c, "returned") /\ UNCHANGED out
     \/ Goto(c, "relay_metrics") /\ out' = [out EXCEPT ![c] = 1]
  /\ UNCHANGED <<serverVars, cacheVars, via, url, want, got>>

\* The head and the body read with it are written before the relay begins.
SendPage(c) ==
  /\ pc[c] = "send_page"
  /\ \/ Goto(c, "returned") /\ UNCHANGED out
     \/ Goto(c, "relay_metrics") /\ out' = [out EXCEPT ![c] = got[c]]
  /\ UNCHANGED <<serverVars, cacheVars, via, url, want, got>>

\* Either side closes, or a copy fails.
RelayEnds(c) == Await(c, "relay", {"returned"})
RelayMetricsEnds(c) == Await(c, "relay_metrics", {"returned"})

\* Mutant: the hour's timeout of a relay is forgotten.
TimedOut_NotRelays(c) ==
  \/ Await(c, "request", {"returned"})
  \/ HeadBroken(c, "head_sni")
  \/ Await(c, "inject_body", {"reply"})

\* The timeouts: 30 s for the request and for the head in the SNI branch, 3 or
\* 5 s for a read of a page, an hour for a relay.
TimedOut(c) ==
  \/ Await(c, "request", {"returned"})
  \/ HeadBroken(c, "head_sni")
  \/ Await(c, "inject_body", {"reply"})
  \/ Await(c, "relay", {"returned"})

\* resource_cache drops an entry.
Drop(u) ==
  /\ cache[u] # NoBody
  /\ cache' = [cache EXCEPT ![u] = NoBody]
  /\ UNCHANGED <<serverVars, announced, pc, via, url, answerVars>>

-----------------------------------------------------------------------------

\* Steps out of a label where the code waits without a timeout.
Answered(c) ==
  \/ Peek(c) \/ ConnectHead(c) \/ HttpHead(c) \/ TunnelConnect(c) \/ HttpConnect(c)
  \/ Handshake(c) \/ MirrorConnect(c) \/ OriginConnect(c) \/ Lookup(c) \/ Reply(c)
  \/ SniConnect(c) \/ Connect(c) \/ ReadHead(c, "head") \/ HeadFails(c)
  \/ SendHead(c) \/ ReadBody(c) \/ BodyEnds(c) \/ Put(c)
  \/ InjectHead(c) \/ InjectBody(c, "inject_length") \/ SendPage(c)
  \/ RelayMetricsEnds(c)

\* Steps out of a label where it waits with one, before it fires.
InTime(c) ==
  \/ Request(c) \/ RequestFails(c) \/ ReadHead(c, "head_sni")
  \/ InjectBody(c, "inject_body") \/ RelayEnds(c)

Task(c) == Acquire(c) \/ IncActive(c) \/ DecActive(c) \/ Release(c)

\* Nothing is left to do.
Finished ==
  /\ \A c \in Conns : pc[c] \in {"new", "closed"}
  /\ ~listening
  /\ UNCHANGED vars

Next ==
  \/ \E c \in Conns : Accept(c) \/ Task(c) \/ Answered(c) \/ InTime(c) \/ TimedOut(c)
  \/ \E u \in Urls : Drop(u)
  \/ StopListening \/ Finished

Spec == Init /\ [][Next]_vars

\* Tasks run and timers fire.  The peers answer or close where the code relies
\* on them, and may keep silent for ever where it has a timeout.
AnsweringSpec ==
  Spec /\ \A c \in Conns : WF_vars(Task(c)) /\ WF_vars(Answered(c)) /\ WF_vars(TimedOut(c))

-----------------------------------------------------------------------------
(* Properties *)

\* Every variable keeps its type.
TypeOK ==
  /\ config \in [mitm : BOOLEAN, sni : BOOLEAN, max : Limits]
  /\ listening \in BOOLEAN /\ permits \in Nat /\ active \in Nat
  /\ cache \in [Urls -> Lengths] /\ announced \in [Urls -> Lengths]
  /\ pc \in [Conns -> Handling \cup {"new", "queued", "admitted", "counted", "closed"}]
  /\ via \in [Conns -> Decisions \cup {"none"}]
  /\ url \in [Conns -> Urls \cup {"none"}]
  /\ want \in [Conns -> Lengths]
  /\ got \in [Conns -> 0..MaxBody + 1] /\ out \in [Conns -> 0..MaxBody + 1]

\* active_connections is the number of handlers that run, whichever way each of
\* them returns, and never more than max_connections.
ActiveWithinLimit ==
  /\ active = Cardinality({c \in Conns : pc[c] \in Handling})
  /\ config.max # 0 => active <= config.max

\* When a relay begins, the client has been sent all that was read from the
\* upstream on the way there: through the head that broke off or timed out, the
\* body read for the cache and the page that is not rewritten.
NothingLost ==
  \A c \in Conns : pc[c] \in {"relay", "relay_metrics"} => out[c] = got[c]

\* A body is cached only if it is as long as announced: an upstream that closes
\* early, or a second answer behind the first, leaves no entry.
OnlyWholeBodiesCached ==
  \A u \in Urls : cache[u] # NoBody => cache[u] = announced[u]

\* Every accepted connection is served and closed, those that wait for a permit
\* too, although clients and upstreams fall silent wherever there is a timeout.
AllServed == \A c \in Conns : (pc[c] = "queued") ~> (pc[c] = "closed")

\* The server admits its clients as Admission says: the life of a connection's
\* task, from the accept to the drop of its permit, keeps max_connections
\* whatever the handlers do and in whichever order they end, and also while and
\* after the hub stops listening.
Where == [c \in Conns |-> CASE pc[c] = "new" -> "outside"
                            [] pc[c] = "queued" -> "waiting"
                            [] pc[c] = "closed" -> "gone"
                            [] OTHER -> "inside"]

Doors == INSTANCE Admission WITH
  Clients <- Conns, AllLimits <- Limits,
  open <- listening, limit <- config.max, where <- Where

ImplementsAdmission == Doors!Spec

=============================================================================
