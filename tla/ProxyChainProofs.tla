---------------------------- MODULE ProxyChainProofs ----------------------------
(***************************************************************************)
(* The loop guard of ProxyChain, for any servers, configurations, requests *)
(* and restarts.                                                           *)
(*                                                                         *)
(* That no instance serves a request twice is not inductive: it needs the  *)
(* chain a hop receives to be the route the request has come, which needs  *)
(* every hop that made another to have passed the guard.                   *)
(***************************************************************************)
EXTENDS ProxyChain, SequenceTheorems, TLAPS

HopSet ==
    [app : Apps, instance : InstanceId, chain : Seq(InstanceId),
     pc : {"arrived", "routed", "waiting", "answered", "lost"},
     mock : Mocks \union {NoMock}, served : BOOLEAN, attached : BOOLEAN,
     status : Statuses \union {NoStatus}]

\* The chain of a hop lists the instances of the hops before it.
Linked(route, i) ==
    /\ Len(route[i].chain) = i - 1
    /\ \A j \in 1..i - 1 : route[i].chain[j] = route[j].instance

\* A hop in place i of n: what it may have done by itself.
Sound(hop, i, n) ==
    /\ hop.instance[1] = ProcessOf[hop.app]
    /\ i < n => hop.served
    /\ hop.served => \A j \in DOMAIN hop.chain : hop.chain[j] # hop.instance
    /\ hop.pc \in {"routed", "waiting"} => hop.served /\ hop.mock \in Mocks
    /\ hop.pc \in {"arrived", "routed"} => i = n
    /\ hop.pc = "waiting" => i < n
    /\ hop.pc = "answered" => hop.status \in Statuses
    /\ hop.status = "508" /\ ~hop.served => \E j \in DOMAIN hop.chain : hop.chain[j] = hop.instance

RouteOK(route) ==
    \A i \in 1..Len(route) : Linked(route, i) /\ Sound(route[i], i, Len(route))

Typed ==
    /\ mocks \in [Apps -> Mocks \union {NoMock}]
    /\ recorded \in [Apps -> SUBSET Statuses]
    /\ restarts \in [Processes -> Nat]
    /\ hops \in [Requests -> Seq(HopSet)]

IInv == Typed /\ \A r \in Requests : RouteOK(hops[r])

-------------------------------------------------------------------------------
(* Routes *)

\* Hops may change in all but where they are and how the request came to them.
LEMMA SameRoute ==
    ASSUME NEW route \in Seq(HopSet), RouteOK(route), NEW next \in Seq(HopSet),
           Len(next) = Len(route),
           \A i \in 1..Len(route) : /\ next[i].instance = route[i].instance
                                    /\ next[i].chain = route[i].chain
                                    /\ Sound(next[i], i, Len(route))
    PROVE  RouteOK(next)
<1>1. ASSUME NEW i \in 1..Len(next) PROVE Linked(next, i)
  <2>1. Linked(route, i)
    BY DEF RouteOK
  <2>2. \A j \in 1..i - 1 : next[j].instance = route[j].instance
    OBVIOUS
  <2> QED
    BY <2>1, <2>2 DEF Linked
<1> QED
  BY <1>1 DEF RouteOK

\* One hop changes in its progress.
LEMMA Progressed ==
    ASSUME NEW route \in Seq(HopSet), RouteOK(route), NEW i \in 1..Len(route), NEW hop \in HopSet,
           hop.instance = route[i].instance, hop.chain = route[i].chain, Sound(hop, i, Len(route))
    PROVE  [route EXCEPT ![i] = hop] \in Seq(HopSet) /\ RouteOK([route EXCEPT ![i] = hop])
<1> DEFINE next == [route EXCEPT ![i] = hop]
<1>1. next \in Seq(HopSet) /\ Len(next) = Len(route)
  OBVIOUS
<1>2. \A j \in 1..Len(route) : next[j] = IF j = i THEN hop ELSE route[j]
  OBVIOUS
<1>3. \A j \in 1..Len(route) : Sound(route[j], j, Len(route))
  BY DEF RouteOK
<1> HIDE DEF next
<1>4. RouteOK(next)
  BY <1>1, <1>2, <1>3, SameRoute
<1> QED
  BY <1>1, <1>4 DEF next

\* The first hop of a request.
LEMMA FirstHop ==
    ASSUME Typed, NEW app \in Apps
    PROVE  Hop(app, << >>) \in HopSet /\ <<Hop(app, << >>)>> \in Seq(HopSet) /\ RouteOK(<<Hop(app, << >>)>>)
<1>1. InstanceOf(app) \in InstanceId /\ InstanceOf(app)[1] = ProcessOf[app]
  BY AppsAssumption DEF InstanceOf, InstanceId, Typed
<1>2. Hop(app, << >>) \in HopSet
  BY <1>1 DEF Hop, HopSet
<1>3. Linked(<<Hop(app, << >>)>>, 1)
  BY DEF Linked, Hop
<1>4. Sound(Hop(app, << >>), 1, 1)
  BY <1>1 DEF Sound, Hop, NoStatus
<1> QED
  BY <1>2, <1>3, <1>4 DEF RouteOK

\* The hop in the last place waits, and the request goes on with its chain.
LEMMA NextHop ==
    ASSUME Typed, NEW route \in Seq(HopSet), RouteOK(route), NEW i \in 1..Len(route),
           route[i].pc = "routed", NEW app \in Apps
    PROVE  LET next == Append([route EXCEPT ![i].pc = "waiting"], Hop(app, NextChain(route[i])))
           IN  next \in Seq(HopSet) /\ RouteOK(next)
<1> DEFINE n == Len(route)
           waiting == [route[i] EXCEPT !.pc = "waiting"]
           new == Hop(app, NextChain(route[i]))
           next == Append([route EXCEPT ![i].pc = "waiting"], new)
<1>1. Linked(route, i) /\ Sound(route[i], i, n) /\ route[i] \in HopSet
  BY DEF RouteOK
<1>2. i = n /\ route[i].served /\ route[i].mock \in Mocks
  BY <1>1 DEF Sound
<1>3. InstanceOf(app) \in InstanceId /\ InstanceOf(app)[1] = ProcessOf[app]
  BY AppsAssumption DEF InstanceOf, InstanceId, Typed
<1>4. /\ NextChain(route[i]) \in Seq(InstanceId)
      /\ Len(NextChain(route[i])) = n
      /\ \A j \in 1..n : NextChain(route[i])[j] = route[j].instance
  <2>1. route[i].chain \in Seq(InstanceId) /\ route[i].instance \in InstanceId /\ Len(route[i].chain) = n - 1
    BY <1>1, <1>2 DEF HopSet, Linked
  <2> QED
    BY <2>1, <1>1, <1>2 DEF NextChain, Linked
<1>5. new \in HopSet
  BY <1>3, <1>4 DEF Hop, HopSet
<1>6. waiting \in HopSet
  BY <1>1 DEF HopSet
<1>7. next \in Seq(HopSet) /\ Len(next) = n + 1
  BY <1>5, <1>6
<1>8. \A j \in 1..n : next[j] = IF j = i THEN waiting ELSE route[j]
  OBVIOUS
<1>9. next[n + 1] = new
  OBVIOUS
<1>10. \A j \in 1..n : next[j].instance = route[j].instance /\ next[j].chain = route[j].chain
  BY <1>1, <1>8 DEF HopSet
<1> HIDE DEF next, new, waiting
<1>11. Linked(next, n + 1) /\ Sound(new, n + 1, n + 1)
  <2>1. new.chain = NextChain(route[i]) /\ new.pc = "arrived" /\ ~new.served /\ new.status = NoStatus
    BY DEF new, Hop
  <2>2. new.instance = InstanceOf(app) /\ new.app = app
    BY DEF new, Hop
  <2>3. Linked(next, n + 1)
    BY <1>4, <1>7, <1>9, <1>10, <2>1 DEF Linked
  <2>4. Sound(new, n + 1, n + 1)
    BY <2>1, <2>2, <1>3 DEF Sound, NoStatus
  <2> QED
    BY <2>3, <2>4
<1>12. ASSUME NEW j \in 1..n PROVE Linked(next, j) /\ Sound(next[j], j, n + 1)
  <2>1. Linked(route, j) /\ Sound(route[j], j, n)
    BY DEF RouteOK
  <2>2. Linked(next, j)
    BY <2>1, <1>10 DEF Linked
  <2>3. CASE j = i
    <3>1. /\ waiting.instance = route[i].instance /\ waiting.chain = route[i].chain
          /\ waiting.app = route[i].app /\ waiting.served = route[i].served /\ waiting.mock = route[i].mock
          /\ waiting.status = route[i].status /\ waiting.pc = "waiting"
      BY <1>1 DEF waiting, HopSet
    <3>2. Sound(waiting, j, n + 1)
      BY <1>1, <1>2, <2>3, <3>1 DEF Sound
    <3> QED
      BY <1>8, <2>2, <2>3, <3>2
  <2>4. CASE j # i
    <3>1. j < n /\ next[j] = route[j]
      BY <1>2, <1>8, <2>4
    <3>2. Sound(route[j], j, n + 1)
      BY <2>1, <3>1 DEF Sound
    <3> QED
      BY <2>2, <3>1, <3>2
  <2> QED
    BY <2>3, <2>4
<1>13. RouteOK(next)
  BY <1>7, <1>9, <1>11, <1>12 DEF RouteOK
<1> QED
  BY <1>7, <1>13 DEF next, new

-------------------------------------------------------------------------------
(* Steps *)

\* Where only the route of one request changes, all routes stay right.
LEMMA OneRoute ==
    ASSUME IInv, NEW r \in Requests, NEW next \in Seq(HopSet), RouteOK(next),
           hops' = [hops EXCEPT ![r] = next]
    PROVE  hops' \in [Requests -> Seq(HopSet)] /\ \A q \in Requests : RouteOK(hops'[q])
<1>1. hops \in [Requests -> Seq(HopSet)]
  BY DEF IInv, Typed
<1>2. \A q \in Requests : hops'[q] = IF q = r THEN next ELSE hops[q]
  BY <1>1
<1>3. \A q \in Requests : RouteOK(hops[q])
  BY DEF IInv
<1>4. hops' \in [Requests -> Seq(HopSet)]
  BY <1>1
<1>5. ASSUME NEW q \in Requests PROVE RouteOK(hops'[q])
  <2>1. CASE q = r
    BY <1>2, <2>1
  <2>2. CASE q # r
    <3>1. hops'[q] = hops[q]
      BY <1>2, <2>2
    <3> QED
      BY <1>3, <3>1
  <2> QED
    BY <2>1, <2>2
<1> QED
  BY <1>4, <1>5

\* What is known of a hop before a step.
LEMMA Before ==
    ASSUME IInv, NEW r \in Requests, NEW i \in DOMAIN hops[r]
    PROVE  /\ hops[r] \in Seq(HopSet)
           /\ RouteOK(hops[r])
           /\ i \in 1..Len(hops[r])
           /\ hops[r][i] \in HopSet
           /\ Sound(hops[r][i], i, Len(hops[r]))
<1>1. hops[r] \in Seq(HopSet) /\ RouteOK(hops[r])
  BY DEF IInv, Typed
<1>2. i \in 1..Len(hops[r])
  BY <1>1
<1>3. hops[r][i] \in HopSet
  BY <1>1, <1>2
<1> QED
  BY <1>1, <1>2, <1>3 DEF RouteOK

\* An answer ends a hop; a hop that was not served is refused as a loop only when it is in one.
LEMMA AnswerStep ==
    ASSUME IInv, NEW r \in Requests, NEW i \in DOMAIN hops[r], NEW status \in Statuses,
           Answer(r, i, status),
           hops[r][i].served \/ (status = "508" => \E j \in DOMAIN hops[r][i].chain :
                                                     hops[r][i].chain[j] = hops[r][i].instance)
    PROVE  hops' \in [Requests -> Seq(HopSet)] /\ \A q \in Requests : RouteOK(hops'[q])
<1> DEFINE route == hops[r]
           hop == Answered(route[i], status)
           next == [route EXCEPT ![i] = hop]
<1>1. /\ route \in Seq(HopSet) /\ RouteOK(route) /\ i \in 1..Len(route)
      /\ route[i] \in HopSet /\ Sound(route[i], i, Len(route))
  BY Before
<1>2. /\ hop \in HopSet
      /\ hop.instance = route[i].instance /\ hop.chain = route[i].chain /\ hop.app = route[i].app
      /\ hop.served = route[i].served /\ hop.pc = "answered" /\ hop.status = status
  BY <1>1 DEF Answered, HopSet
<1>3. Sound(hop, i, Len(route))
  BY <1>1, <1>2 DEF Sound
<1>4. next \in Seq(HopSet) /\ RouteOK(next)
  <2> HIDE DEF route, hop
  <2> QED
    BY <1>1, <1>2, <1>3, Progressed
<1>5. hops' = [hops EXCEPT ![r] = next]
  BY DEF Answer
<1> HIDE DEF next
<1> QED
  BY <1>4, <1>5, OneRoute

LEMMA ArriveStep ==
    ASSUME IInv, NEW r \in Requests, NEW app \in Apps, Arrive(r, app)
    PROVE  IInv'
<1>1. <<Hop(app, << >>)>> \in Seq(HopSet) /\ RouteOK(<<Hop(app, << >>)>>)
  BY FirstHop DEF IInv
<1>2. hops' \in [Requests -> Seq(HopSet)] /\ \A q \in Requests : RouteOK(hops'[q])
  BY <1>1, OneRoute DEF Arrive
<1> QED
  BY <1>2 DEF IInv, Typed, Arrive, RouteOK, Linked, Sound

LEMMA HandleStep ==
    ASSUME IInv, NEW r \in Requests, NEW i \in DOMAIN hops[r], Handle(r, i)
    PROVE  hops' \in [Requests -> Seq(HopSet)] /\ \A q \in Requests : RouteOK(hops'[q])
<1> DEFINE route == hops[r]
<1>1. /\ route \in Seq(HopSet) /\ RouteOK(route) /\ i \in 1..Len(route)
      /\ route[i] \in HopSet /\ Sound(route[i], i, Len(route))
  BY Before
<1>2. CASE mocks[route[i].app] = NoMock
  BY <1>2, AnswerStep DEF Handle, Statuses
<1>3. CASE mocks[route[i].app] # NoMock /\ IsProxyLoop(route[i])
  <2>1. \E j \in DOMAIN route[i].chain : route[i].chain[j] = route[i].instance
    BY <1>3 DEF IsProxyLoop, ToSet
  <2> QED
    BY <1>3, <2>1, AnswerStep DEF Handle, Statuses
<1>4. CASE mocks[route[i].app] # NoMock /\ ~IsProxyLoop(route[i])
  <2> DEFINE hop == Routed(route[i])
             next == [route EXCEPT ![i] = hop]
  <2>1. mocks[route[i].app] \in Mocks
    BY <1>1, <1>4 DEF IInv, Typed, HopSet
  <2>2. /\ hop \in HopSet
        /\ hop.instance = route[i].instance /\ hop.chain = route[i].chain /\ hop.app = route[i].app
        /\ hop.served /\ hop.pc = "routed" /\ hop.mock \in Mocks
    BY <1>1, <2>1 DEF HopSet, Routed
  <2>3. i = Len(route)
    BY <1>1 DEF Handle, Sound
  <2>4. \A j \in DOMAIN hop.chain : hop.chain[j] # hop.instance
    BY <1>4, <2>2 DEF IsProxyLoop, ToSet
  <2>5. Sound(hop, i, Len(route))
    <3> HIDE DEF hop
    <3> QED
      BY <1>1, <2>2, <2>3, <2>4 DEF Sound
  <2>6. next \in Seq(HopSet) /\ RouteOK(next)
    <3> HIDE DEF hop, route
    <3> QED
      BY <1>1, <2>2, <2>5, Progressed
  <2>7. hops' = [hops EXCEPT ![r] = next]
    BY <1>4 DEF Handle
  <2> HIDE DEF next
  <2> QED
    BY <2>6, <2>7, OneRoute
<1> QED
  BY <1>2, <1>3, <1>4

LEMMA ForwardStep ==
    ASSUME IInv, NEW r \in Requests, NEW i \in DOMAIN hops[r], Forward(r, i)
    PROVE  hops' \in [Requests -> Seq(HopSet)] /\ \A q \in Requests : RouteOK(hops'[q])
<1> DEFINE route == hops[r]
           host == route[i].mock.proxy_host
<1>1. /\ route \in Seq(HopSet) /\ RouteOK(route) /\ i \in 1..Len(route)
      /\ route[i] \in HopSet /\ Sound(route[i], i, Len(route)) /\ route[i].pc = "routed"
  BY Before DEF Forward
<1>2. route[i].served /\ route[i].mock \in Mocks
  BY <1>1 DEF Sound
<1>3. host \in Hosts \union {NoHost}
  BY <1>2, MocksAssumption
<1>4. CASE host = NoHost
  BY <1>2, <1>4, AnswerStep DEF Forward, Statuses
<1>5. CASE host # NoHost /\ host \notin AllowedHosts
  BY <1>2, <1>5, AnswerStep DEF Forward, Statuses
<1>6. CASE host # NoHost /\ host \in AllowedHosts /\ host = Unreachable
  BY <1>2, <1>6, AnswerStep DEF Forward, Statuses
<1>7. CASE host # NoHost /\ host \in AllowedHosts /\ host # Unreachable
  <2> DEFINE next == Append([route EXCEPT ![i].pc = "waiting"], Hop(host, NextChain(route[i])))
  <2>1. host \in Apps
    BY <1>3, <1>7 DEF Hosts
  <2>2. next \in Seq(HopSet) /\ RouteOK(next)
    <3> HIDE DEF route, host
    <3> QED
      BY <1>1, <2>1, NextHop DEF IInv
  <2>3. hops' = [hops EXCEPT ![r] = next]
    BY <1>7 DEF Forward
  <2> HIDE DEF next
  <2> QED
    BY <2>2, <2>3, OneRoute
<1> QED
  BY <1>4, <1>5, <1>6, <1>7

\* The hop that a waiting hop waits for exists.
LEMMA SettleStep ==
    ASSUME IInv, NEW r \in Requests, NEW i \in DOMAIN hops[r], Settle(r, i)
    PROVE  hops' \in [Requests -> Seq(HopSet)] /\ \A q \in Requests : RouteOK(hops'[q])
<1>1. hops[r][i].served /\ i + 1 \in DOMAIN hops[r]
  <2>1. hops[r][i].pc = "waiting"
    BY DEF Settle, Reply, Lose, Timeout
  <2> QED
    BY <2>1, Before DEF Sound
<1>2. CASE Reply(r, i)
  <2>1. hops[r][i + 1].pc = "answered"
    BY <1>2 DEF Reply
  <2>2. Sound(hops[r][i + 1], i + 1, Len(hops[r]))
    BY <1>1, Before
  <2>3. hops[r][i + 1].status \in Statuses
    BY <2>1, <2>2 DEF Sound
  <2> QED
    BY <1>1, <1>2, <2>3, AnswerStep DEF Reply
<1>3. CASE Lose(r, i)
  BY <1>1, <1>3, AnswerStep DEF Lose, Statuses
<1>4. CASE Timeout(r, i)
  BY <1>1, <1>4, AnswerStep DEF Timeout, Statuses
<1> QED
  BY <1>2, <1>3, <1>4 DEF Settle

\* Serving a request leaves the mocks, and records statuses.
LEMMA ServeStep ==
    ASSUME IInv, NEW r \in Requests, Serve(r)
    PROVE  IInv'
<1>1. PICK i \in DOMAIN hops[r] : Handle(r, i) \/ Forward(r, i) \/ Settle(r, i)
  BY DEF Serve
<1>2. hops' \in [Requests -> Seq(HopSet)] /\ \A q \in Requests : RouteOK(hops'[q])
  BY <1>1, HandleStep, ForwardStep, SettleStep
<1>3. mocks' = mocks /\ restarts' = restarts
  BY <1>1 DEF Handle, Forward, Settle, Reply, Lose, Timeout
<1>4. recorded' \in [Apps -> SUBSET Statuses]
  <2>1. recorded \in [Apps -> SUBSET Statuses]
    BY DEF IInv, Typed
  <2>2. CASE Reply(r, i)
    <3>1. i + 1 \in DOMAIN hops[r]
      BY <2>2, Before DEF Sound, Reply
    <3>2. hops[r][i + 1].status \in Statuses
      BY <2>2, <3>1, Before DEF Sound, Reply
    <3>3. recorded' = recorded \/
          recorded' = [recorded EXCEPT ![hops[r][i].app] = @ \union {hops[r][i + 1].status}]
      BY <2>2 DEF Reply
    <3> QED
      BY <2>1, <3>2, <3>3
  <2>3. CASE ~Reply(r, i)
    BY <1>1, <2>1, <2>3 DEF Handle, Forward, Settle, Lose, Timeout
  <2> QED
    BY <2>2, <2>3
<1> QED
  BY <1>2, <1>3, <1>4 DEF IInv, Typed, RouteOK, Linked, Sound

\* An update detaches hops, and a restart loses some: no hop moves.
LEMMA RoutesStay ==
    ASSUME IInv,
           hops' = [r \in Requests |-> [i \in DOMAIN hops[r] |-> hops'[r][i]]],
           \A r \in Requests : \A i \in DOMAIN hops[r] :
               /\ hops'[r][i] \in HopSet
               /\ hops'[r][i].instance = hops[r][i].instance
               /\ hops'[r][i].chain = hops[r][i].chain
               /\ Sound(hops'[r][i], i, Len(hops[r]))
    PROVE  hops' \in [Requests -> Seq(HopSet)] /\ \A r \in Requests : RouteOK(hops'[r])
<1>1. ASSUME NEW r \in Requests PROVE hops'[r] \in Seq(HopSet) /\ RouteOK(hops'[r])
  <2> DEFINE route == hops[r]
             next == [i \in DOMAIN route |-> hops'[r][i]]
  <2>1. route \in Seq(HopSet) /\ RouteOK(route)
    BY DEF IInv, Typed
  <2>2. hops'[r] = next
    OBVIOUS
  <2>3. DOMAIN route = 1..Len(route) /\ Len(route) \in Nat
    BY <2>1
  <2>4. next \in Seq(HopSet) /\ Len(next) = Len(route)
    BY <2>3
  <2>5. \A i \in 1..Len(route) : /\ next[i].instance = route[i].instance
                                 /\ next[i].chain = route[i].chain
                                 /\ Sound(next[i], i, Len(route))
    BY <2>3
  <2> HIDE DEF next, route
  <2>6. RouteOK(next)
    BY <2>1, <2>4, <2>5, SameRoute
  <2> QED
    BY <2>2, <2>4, <2>6
<1> QED
  BY <1>1

LEMMA ConfigureStep ==
    ASSUME IInv, NEW app \in Apps, NEW mock \in Mocks \union {NoMock}, Configure(app, mock)
    PROVE  IInv'
<1>1. ASSUME NEW r \in Requests, NEW i \in DOMAIN hops[r]
      PROVE  /\ hops'[r][i] \in HopSet
             /\ hops'[r][i].instance = hops[r][i].instance
             /\ hops'[r][i].chain = hops[r][i].chain
             /\ Sound(hops'[r][i], i, Len(hops[r]))
  <2> DEFINE hop == hops[r][i]
             next == hops'[r][i]
  <2>1. hop \in HopSet /\ Sound(hop, i, Len(hops[r]))
    BY Before
  <2>2. next = [hop EXCEPT !.attached = hop.attached /\ hop.app # app]
    BY DEF Configure
  <2> HIDE DEF hop, next
  <2>3. hop.attached \in BOOLEAN /\ (hop.attached /\ hop.app # app) \in BOOLEAN
    BY <2>1 DEF HopSet
  <2>4. /\ next \in HopSet
        /\ next.instance = hop.instance /\ next.chain = hop.chain /\ next.app = hop.app
        /\ next.pc = hop.pc /\ next.mock = hop.mock /\ next.served = hop.served /\ next.status = hop.status
    BY <2>1, <2>2, <2>3 DEF HopSet
  <2>5. Sound(next, i, Len(hops[r]))
    BY <2>1, <2>4 DEF Sound
  <2> QED
    BY <2>4, <2>5 DEF hop, next
<1>2. hops' \in [Requests -> Seq(HopSet)] /\ \A r \in Requests : RouteOK(hops'[r])
  <2>1. hops' = [r \in Requests |-> [i \in DOMAIN hops[r] |-> hops'[r][i]]]
    BY DEF Configure
  <2> QED
    BY <1>1, <2>1, RoutesStay
<1>3. mocks' \in [Apps -> Mocks \union {NoMock}] /\ recorded' \in [Apps -> SUBSET Statuses]
  BY DEF IInv, Typed, Configure
<1> QED
  BY <1>2, <1>3 DEF IInv, Typed, Configure, RouteOK, Linked, Sound

LEMMA RestartStep ==
    ASSUME IInv, NEW p \in Processes, Restart(p)
    PROVE  IInv'
<1>1. ASSUME NEW r \in Requests, NEW i \in DOMAIN hops[r]
      PROVE  /\ hops'[r][i] \in HopSet
             /\ hops'[r][i].instance = hops[r][i].instance
             /\ hops'[r][i].chain = hops[r][i].chain
             /\ Sound(hops'[r][i], i, Len(hops[r]))
  <2> DEFINE hop == hops[r][i]
             next == hops'[r][i]
  <2>1. hop \in HopSet /\ Sound(hop, i, Len(hops[r]))
    BY Before
  <2>2. next = hop \/ next = [hop EXCEPT !.pc = "lost"]
    BY DEF Restart
  <2> HIDE DEF hop, next
  <2>3. CASE next = [hop EXCEPT !.pc = "lost"]
    <3>1. /\ next \in HopSet
          /\ next.instance = hop.instance /\ next.chain = hop.chain /\ next.app = hop.app
          /\ next.pc = "lost" /\ next.mock = hop.mock /\ next.served = hop.served /\ next.status = hop.status
      BY <2>1, <2>3 DEF HopSet
    <3>2. Sound(next, i, Len(hops[r]))
      BY <2>1, <3>1 DEF Sound
    <3> QED
      BY <3>1, <3>2 DEF hop, next
  <2> QED
    BY <2>1, <2>2, <2>3 DEF hop, next
<1>2. hops' \in [Requests -> Seq(HopSet)] /\ \A r \in Requests : RouteOK(hops'[r])
  <2>1. hops' = [r \in Requests |-> [i \in DOMAIN hops[r] |-> hops'[r][i]]]
    BY DEF Restart
  <2> QED
    BY <1>1, <2>1, RoutesStay
<1>3. /\ mocks' \in [Apps -> Mocks \union {NoMock}]
      /\ recorded' \in [Apps -> SUBSET Statuses]
      /\ restarts' \in [Processes -> Nat]
  BY DEF IInv, Typed, Restart
<1> QED
  BY <1>2, <1>3 DEF IInv, Typed, RouteOK, Linked, Sound

LEMMA InitEstablishes == ASSUME Init PROVE IInv
<1>1. Typed
  BY DEF Init, Typed
<1>2. \A r \in Requests : RouteOK(hops[r])
  BY DEF Init, RouteOK
<1> QED
  BY <1>1, <1>2 DEF IInv

LEMMA NextPreserves == ASSUME IInv, [Next]_vars PROVE IInv'
<1>1. ASSUME NEW r \in Requests, Serve(r) PROVE IInv'
  BY <1>1, ServeStep
<1>2. ASSUME NEW r \in Requests, NEW app \in Apps, Arrive(r, app) PROVE IInv'
  BY <1>2, ArriveStep
<1>3. ASSUME NEW app \in Apps, NEW mock \in Mocks \union {NoMock}, Configure(app, mock) PROVE IInv'
  BY <1>3, ConfigureStep
<1>4. ASSUME NEW p \in Processes, Restart(p) PROVE IInv'
  BY <1>4, RestartStep
<1>5. ASSUME UNCHANGED vars PROVE IInv'
  BY <1>5 DEF vars, IInv, Typed, RouteOK, Linked, Sound
<1> QED
  BY <1>1, <1>2, <1>3, <1>4, <1>5 DEF Next

\* Every route of every request is what the chain headers say, in every reachable state.
THEOREM Inductive == Spec => []IInv
<1>1. Init => IInv
  BY InitEstablishes
<1>2. IInv /\ [Next]_vars => IInv'
  BY NextPreserves
<1> QED
  BY <1>1, <1>2, PTL DEF Spec

-------------------------------------------------------------------------------
(* What follows *)

LEMMA Typing == ASSUME IInv PROVE TypeOK
<1>1. ASSUME NEW r \in Requests
      PROVE  /\ hops[r] \in Seq({hops[r][i] : i \in DOMAIN hops[r]})
             /\ \A i \in DOMAIN hops[r] : HopOK(hops[r][i])
  <2>1. hops[r] \in Seq(HopSet)
    BY DEF IInv, Typed
  <2>2. hops[r] \in Seq({hops[r][i] : i \in DOMAIN hops[r]})
    BY <2>1
  <2>3. ASSUME NEW i \in DOMAIN hops[r] PROVE HopOK(hops[r][i])
    BY Before DEF HopOK, HopSet, Sound
  <2> QED
    BY <2>2, <2>3
<1> QED
  BY <1>1 DEF TypeOK, IInv, Typed

LEMMA Once == ASSUME IInv PROVE ServedOncePerInstance
<1>1. ASSUME NEW r \in Requests, NEW i \in DOMAIN hops[r], NEW j \in DOMAIN hops[r], i < j,
             hops[r][j].served, hops[r][i].instance = hops[r][j].instance
      PROVE  FALSE
  <2>1. Linked(hops[r], j) /\ Sound(hops[r][j], j, Len(hops[r])) /\ hops[r][j] \in HopSet
    BY Before DEF RouteOK
  <2>2. i \in 1..j - 1 /\ hops[r][j].chain[i] = hops[r][i].instance
    BY <1>1, <2>1, Before DEF Linked
  <2>3. i \in DOMAIN hops[r][j].chain
    BY <2>1, <2>2 DEF Linked, HopSet
  <2> QED
    BY <1>1, <2>1, <2>2, <2>3 DEF Sound
<1>2. ASSUME NEW r \in Requests, NEW i \in DOMAIN hops[r], NEW j \in DOMAIN hops[r]
      PROVE  i \in Int /\ j \in Int
  BY Before
<1> QED
  BY <1>1, <1>2 DEF ServedOncePerInstance

LEMMA InLoop == ASSUME IInv PROVE RefusedOnlyInLoop
<1>1. ASSUME NEW r \in Requests, NEW i \in DOMAIN hops[r],
             hops[r][i].status = "508", ~hops[r][i].served
      PROVE  \E j \in 1..i - 1 : hops[r][j].served /\ hops[r][j].instance = hops[r][i].instance
  <2>1. /\ Linked(hops[r], i) /\ Sound(hops[r][i], i, Len(hops[r]))
        /\ hops[r][i] \in HopSet /\ i \in 1..Len(hops[r])
    BY Before DEF RouteOK
  <2>2. PICK j \in DOMAIN hops[r][i].chain : hops[r][i].chain[j] = hops[r][i].instance
    BY <1>1, <2>1 DEF Sound
  <2>3. j \in 1..i - 1
    BY <2>1 DEF Linked, HopSet
  <2>4. hops[r][j].instance = hops[r][i].instance
    BY <2>1, <2>2, <2>3 DEF Linked
  <2>5. j \in 1..Len(hops[r]) /\ j < Len(hops[r])
    BY <2>1, <2>3
  <2>6. hops[r][j].served
    BY <2>5, Before DEF RouteOK, Sound
  <2> QED
    BY <2>3, <2>4, <2>6
<1> QED
  BY <1>1 DEF RefusedOnlyInLoop

\* Type correctness, for any servers and restarts.
THEOREM TypeCorrect == Spec => []TypeOK
<1>1. IInv => TypeOK
  BY Typing
<1> QED
  BY <1>1, Inductive, PTL

\* proxy_service.py: however many servers a loop spans, whatever is reconfigured or
\* restarted on the way, no instance serves a request twice.
THEOREM ServedOnce == Spec => []ServedOncePerInstance
<1>1. IInv => ServedOncePerInstance
  BY Once
<1> QED
  BY <1>1, Inductive, PTL

\* proxy_service.py:10-11: markers left by previous instances cause no false positives.
THEOREM LoopsAreLoops == Spec => []RefusedOnlyInLoop
<1>1. IInv => RefusedOnlyInLoop
  BY InLoop
<1> QED
  BY <1>1, Inductive, PTL
===============================================================================
