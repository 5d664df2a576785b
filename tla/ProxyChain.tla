------------------------------ MODULE ProxyChain ------------------------------
(***************************************************************************)
(* Servers that proxy one path to each other, and the chain header that    *)
(* ends loops.                                                             *)
(*                                                                         *)
(* Each process has an instance id, made when it starts, and may embed     *)
(* several applications, which share it.  A client request makes one hop   *)
(* at an application; a hop that proxies makes the next one and waits for  *)
(* its answer.  Meanwhile mocks are replaced and deleted, processes are    *)
(* restarted, and the proxy timeout gives up on hops that go on.           *)
(***************************************************************************)
EXTENDS Integers, SequencesExt

CONSTANTS
    Requests,      \* the client requests
    Apps,          \* the applications
    Processes,     \* the server processes
    ProcessOf,     \* the process of each application
    Mocks,         \* the configurations the path may be given
    NoMock,        \* an application has no mock at the path
    NoHost,        \* proxy_host: null
    Unreachable,   \* a host that does not resolve or refuses connections
    AllowedHosts,  \* PROXY_MOCK_ALLOWED_PROXY_HOSTS, or every host when it is unset
    MaxRestarts    \* bound: restarts of each process

Hosts == Apps \union {Unreachable}

ASSUME AppsAssumption == ProcessOf \in [Apps -> Processes]
ASSUME HostsAssumption == Unreachable \notin Apps /\ NoHost \notin Hosts
\* Recording needs an upstream (MockResource).
ASSUME MocksAssumption ==
    /\ Mocks \subseteq [proxy_host : Hosts \union {NoHost}, recording : BOOLEAN]
    /\ \A m \in Mocks : m.recording => m.proxy_host # NoHost
ASSUME NoMockAssumption == NoMock \notin Mocks
ASSUME BoundsAssumption == MaxRestarts \in [Processes -> Nat]

VARIABLES
    mocks,     \* the mock of each application
    recorded,  \* the status codes in the recordings of each application
    restarts,  \* how often each process was restarted
    hops       \* for each request: the hops it has made

vars == <<mocks, recorded, restarts, hops>>

\* uuid4 at import: no two processes and no two starts share one.
InstanceId == Processes \X Nat
InstanceOf(app) == <<ProcessOf[app], restarts[ProcessOf[app]]>>

NoStatus == "none"

Init ==
    /\ mocks = [a \in Apps |-> NoMock]
    /\ recorded = [a \in Apps |-> {}]
    /\ restarts = [p \in Processes |-> 0]
    /\ hops = [r \in Requests |-> << >>]

-------------------------------------------------------------------------------
(* A hop *)

\* `served`: the loop guard let it pass.  `attached`: its mock was not replaced since.
Hop(app, chain) ==
    [app |-> app, instance |-> InstanceOf(app), chain |-> chain, pc |-> "arrived",
     mock |-> NoMock, served |-> FALSE, attached |-> FALSE, status |-> NoStatus]

Arrive(r, app) ==
    /\ hops[r] = << >>
    /\ hops' = [hops EXCEPT ![r] = <<Hop(app, << >>)>>]
    /\ UNCHANGED <<mocks, recorded, restarts>>

Answered(hop, status) == [hop EXCEPT !.pc = "answered", !.status = status]
Answer(r, i, status) == hops' = [hops EXCEPT ![r][i] = Answered(@, status)]

\* Mutant of IsProxyLoop: the id outlives a restart of its process.
IsProxyLoopOfProcess(hop) == \E id \in ToSet(hop.chain) : id[1] = hop.instance[1]

IsProxyLoop(hop) == hop.instance \in ToSet(hop.chain)

Routed(hop) == [hop EXCEPT !.pc = "routed", !.mock = mocks[hop.app], !.served = TRUE, !.attached = TRUE]

\* The route of the path, and the loop guard, which is the first thing its handler does.
Handle(r, i) ==
    LET hop == hops[r][i]
    IN
    /\ hop.pc = "arrived"
    /\ IF mocks[hop.app] = NoMock THEN Answer(r, i, "404")
       ELSE IF IsProxyLoop(hop) THEN Answer(r, i, "508")
       ELSE hops' = [hops EXCEPT ![r][i] = Routed(@)]
    /\ UNCHANGED <<mocks, recorded, restarts>>

\* Mutant of NextChain: the chain names the sender instead of the whole route.
NextChainOfSender(hop) == <<hop.instance>>

NextChain(hop) == Append(hop.chain, hop.instance)

\* Mutant of Forward: a forbidden host is not answered.
ForwardAllowed(r, i) ==
    LET hop == hops[r][i]
        host == hop.mock.proxy_host
    IN
    /\ hop.pc = "routed"
    /\ host \in AllowedHosts \union {NoHost}
    /\ IF host = NoHost THEN Answer(r, i, "200")
       ELSE IF host = Unreachable THEN Answer(r, i, "502")
       ELSE hops' = [hops EXCEPT ![r] = Append([@ EXCEPT ![i].pc = "waiting"], Hop(host, NextChain(hop)))]
    /\ UNCHANGED <<mocks, recorded, restarts>>

\* The body has arrived: the mock answers, or the request goes on to its host.
Forward(r, i) ==
    LET hop == hops[r][i]
        host == hop.mock.proxy_host
    IN
    /\ hop.pc = "routed"
    /\ IF host = NoHost THEN Answer(r, i, "200")
       ELSE IF host \notin AllowedHosts THEN Answer(r, i, "403")
       ELSE IF host = Unreachable THEN Answer(r, i, "502")
       ELSE hops' = [hops EXCEPT ![r] = Append([@ EXCEPT ![i].pc = "waiting"], Hop(host, NextChain(hop)))]
    /\ UNCHANGED <<mocks, recorded, restarts>>

\* Mutant of Reply: the reply is passed on before it is there.
ReplyEarly(r, i) ==
    LET hop == hops[r][i]
        status == hops[r][i + 1].status
    IN
    /\ hop.pc = "waiting"
    /\ Answer(r, i, status)
    /\ recorded' = IF hop.mock.recording /\ hop.attached
                   THEN [recorded EXCEPT ![hop.app] = @ \union {status}] ELSE recorded
    /\ UNCHANGED <<mocks, restarts>>

\* The reply of the next hop is passed on, and recorded unless the mock was replaced since.
Reply(r, i) ==
    LET hop == hops[r][i]
        status == hops[r][i + 1].status
    IN
    /\ hop.pc = "waiting"
    /\ hops[r][i + 1].pc = "answered"
    /\ Answer(r, i, status)
    /\ recorded' = IF hop.mock.recording /\ hop.attached
                   THEN [recorded EXCEPT ![hop.app] = @ \union {status}] ELSE recorded
    /\ UNCHANGED <<mocks, restarts>>

\* The connection breaks when the next hop's process goes down.
Lose(r, i) ==
    /\ hops[r][i].pc = "waiting"
    /\ hops[r][i + 1].pc = "lost"
    /\ Answer(r, i, "502")
    /\ UNCHANGED <<mocks, recorded, restarts>>

\* PROXY_MOCK_PROXY_TIMEOUT: the next hop is not told.
Timeout(r, i) ==
    /\ hops[r][i].pc = "waiting"
    /\ hops[r][i + 1].pc # "answered"
    /\ Answer(r, i, "504")
    /\ UNCHANGED <<mocks, recorded, restarts>>

-------------------------------------------------------------------------------
(* Administration and restarts *)

\* PUT or DELETE /mocks: the recordings start empty, and pending ones are detached.
Configure(app, mock) ==
    /\ mocks' = [mocks EXCEPT ![app] = mock]
    /\ recorded' = [recorded EXCEPT ![app] = {}]
    /\ hops' = [r \in Requests |-> [i \in DOMAIN hops[r] |->
                   [hops[r][i] EXCEPT !.attached = @ /\ hops[r][i].app # app]]]
    /\ UNCHANGED restarts

\* A process stops and starts anew: its mocks are gone, and so is what it was serving.
Restart(p) ==
    /\ restarts[p] < MaxRestarts[p]
    /\ restarts' = [restarts EXCEPT ![p] = @ + 1]
    /\ mocks' = [a \in Apps |-> IF ProcessOf[a] = p THEN NoMock ELSE mocks[a]]
    /\ recorded' = [a \in Apps |-> IF ProcessOf[a] = p THEN {} ELSE recorded[a]]
    /\ hops' = [r \in Requests |-> [i \in DOMAIN hops[r] |->
                   IF ProcessOf[hops[r][i].app] = p /\ hops[r][i].pc # "answered"
                   THEN [hops[r][i] EXCEPT !.pc = "lost"] ELSE hops[r][i]]]

-------------------------------------------------------------------------------

Settle(r, i) == Reply(r, i) \/ Lose(r, i) \/ Timeout(r, i)

Serve(r) == \E i \in DOMAIN hops[r] : Handle(r, i) \/ Forward(r, i) \/ Settle(r, i)

Next ==
    \/ \E r \in Requests : Serve(r) \/ \E app \in Apps : Arrive(r, app)
    \/ \E app \in Apps, mock \in Mocks \union {NoMock} : Configure(app, mock)
    \/ \E p \in Processes : Restart(p)

Spec == Init /\ [][Next]_vars

\* Event loops go on, and the HTTP client's timeout is always positive.
FairSpec == Spec /\ \A r \in Requests : WF_vars(Serve(r))

-------------------------------------------------------------------------------
(* Correctness *)

Statuses == {"200", "403", "404", "502", "504", "508"}

\* The types of the state; the chain a hop receives is the route it has come, and
\* only a hop the loop guard let pass makes another.
HopOK(hop) ==
    /\ hop.app \in Apps
    /\ hop.instance \in InstanceId
    /\ hop.instance[1] = ProcessOf[hop.app]
    /\ hop.chain \in Seq(InstanceId)
    /\ hop.pc \in {"arrived", "routed", "waiting", "answered", "lost"}
    /\ hop.mock \in Mocks \union {NoMock}
    /\ hop.served \in BOOLEAN
    /\ hop.attached \in BOOLEAN
    /\ hop.status \in Statuses \union {NoStatus}

TypeOK ==
    /\ mocks \in [Apps -> Mocks \union {NoMock}]
    /\ recorded \in [Apps -> SUBSET Statuses]
    /\ restarts \in [Processes -> Nat]
    /\ \A r \in Requests : hops[r] \in Seq({hops[r][i] : i \in DOMAIN hops[r]})
    /\ \A r \in Requests : \A i \in DOMAIN hops[r] : HopOK(hops[r][i])

\* No request is served twice by one instance, however many servers a loop spans,
\* however the mocks on its way are reconfigured, and whoever gave up waiting.
ServedOncePerInstance ==
    \A r \in Requests : \A i, j \in DOMAIN hops[r] :
        hops[r][i].served /\ hops[r][j].served /\ hops[r][i].instance = hops[r][j].instance => i = j

\* A request is refused as a loop only when this very instance has forwarded it
\* before: an id left by an earlier start of the process refuses nothing.
RefusedOnlyInLoop ==
    \A r \in Requests : \A i \in DOMAIN hops[r] :
        hops[r][i].status = "508" /\ ~hops[r][i].served =>
            \E j \in 1..i - 1 : hops[r][j].served /\ hops[r][j].instance = hops[r][i].instance

\* Loops end: after any reconfiguration and restart every hop of a request, also one
\* whose caller gave up, is answered or its process is gone, and no new one is made.
EveryHopEnds ==
    \A r \in Requests : hops[r] # << >> ~> \A i \in DOMAIN hops[r] : hops[r][i].pc \in {"answered", "lost"}

\* "Allowlist and proxy-loop rejections are not recorded."
LoopRejectionsNotRecorded == \A app \in Apps : "508" \notin recorded[app]
===============================================================================
