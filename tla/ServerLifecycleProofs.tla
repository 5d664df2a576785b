-------------------------- MODULE ServerLifecycleProofs --------------------------
(***************************************************************************)
(* The life of the server, for any files and any number of tests: nothing  *)
(* is served before the preload is done, the fixture hands out the URL of  *)
(* a server that serves, and tests do not see each other's mocks.          *)
(*                                                                         *)
(* Three facts carry the proof.  Only the launcher makes the server exit,  *)
(* and it hands out no URL after that; a server that has started serves    *)
(* until it is told to exit; and between the two calls of a teardown there *)
(* is no mock left that could answer.                                      *)
(***************************************************************************)
EXTENDS ServerLifecycle, TLAPS

Launchers ==
    [mode : Modes,
     pc : {"idle", "reading", "running", "polling", "checking", "timing", "yielded", "failed", "joining", "ended"},
     file : Files, code : {0, 1, 2}]
Servers ==
    [pc : {"off", "launched", "preloading", "ready", "bound", "serving", "leaving", "stopped"},
     started : BOOLEAN, should_exit : BOOLEAN, http_client : {"none", "open", "closed"}]

Typed ==
    /\ launcher \in Launchers
    /\ server \in Servers
    /\ test \in [number : Nat, pc : {"over", "running", "cleaning"}]

\* Who started the server, and with what.
Launched ==
    /\ launcher.mode = "fixture" => launcher.file = "none"
    /\ launcher.mode = "cli" => launcher.pc \in {"idle", "reading", "running", "ended"} /\ test.pc = "over"
    /\ launcher.mode = "fixture" => launcher.pc \notin {"reading", "running"}
    /\ launcher.pc \in {"idle", "reading"} => server.pc = "off"
    /\ server.pc # "off" => launcher.file \notin Unreadable

\* How far the server is tells what it has done.
Progressed ==
    /\ server.pc \in {"preloading", "ready", "bound", "serving", "leaving"} => server.http_client = "open"
    /\ server.pc \in {"ready", "bound", "serving"} =>
          launcher.file \notin Refused /\ (launcher.file # "none" => storage = {Preloaded})
    /\ server.started => server.pc \in {"serving", "leaving", "stopped"}
    /\ server.started /\ server.pc # "serving" => server.should_exit
    /\ launcher.pc \in {"idle", "reading", "polling", "checking", "timing", "yielded"} => ~server.should_exit

\* What the tests leave.
Left ==
    /\ TestsStartClean
    /\ test.pc = "cleaning" => launcher.mode = "fixture" /\ storage = {}

IInv == Typed /\ Launched /\ Progressed /\ UrlOnlyWhileServing /\ Left

-------------------------------------------------------------------------------

LEMMA InitEstablishes == ASSUME Init PROVE IInv
  BY ModesAssumption, FilesAssumption
  DEF Init, IInv, Typed, Launchers, Servers, Launched, Progressed, UrlOnlyWhileServing, Left, TestsStartClean

\* The server's steps leave the launcher, the tests and the traffic alone.
LEMMA RunStep == ASSUME IInv, Run PROVE IInv'
<1> USE DEF IInv, Typed, Launchers, Servers, Launched, Progressed, UrlOnlyWhileServing, Left, TestsStartClean, Session
<1>1. CASE EnterLifespan
  BY <1>1 DEF EnterLifespan
<1>2. CASE Preload
  <2>1. CASE launcher.file \in Refused
    <3>1. /\ server' = [server EXCEPT !.pc = "stopped", !.http_client = "closed"]
          /\ UNCHANGED <<launcher, late, storage, traffic, test, requests>>
      BY <1>2, <2>1 DEF Preload
    <3>2. launcher.pc # "yielded" /\ ~server.started /\ server.pc = "preloading"
      BY <1>2 DEF Preload
    <3>3. Typed' /\ Launched'
      BY <3>1, <3>2
    <3>4. Progressed' /\ UrlOnlyWhileServing'
      BY <3>1, <3>2
    <3>5. Left'
      BY <3>1
    <3> QED
      BY <3>3, <3>4, <3>5
  <2>2. CASE launcher.file \notin Refused
    <3>1. /\ server' = [server EXCEPT !.pc = "ready"]
          /\ storage' = IF launcher.file = "none" THEN {} ELSE {Preloaded}
          /\ UNCHANGED <<launcher, late, traffic, test, requests>>
      BY <1>2, <2>2 DEF Preload
    <3>2. launcher.mode = "fixture" => storage' = {}
      BY <3>1
    <3>3. Typed' /\ Launched' /\ Progressed' /\ UrlOnlyWhileServing'
      BY <1>2, <2>2, <3>1 DEF Preload
    <3>4. Left'
      BY <3>1, <3>2
    <3> QED
      BY <3>3, <3>4
  <2> QED
    BY <2>1, <2>2
<1>3. CASE Bind
  BY <1>3 DEF Bind
<1>4. CASE BecomeStarted
  BY <1>4 DEF BecomeStarted
<1>5. CASE Leave
  BY <1>5 DEF Leave
<1>6. CASE LeaveLifespan
  BY <1>6 DEF LeaveLifespan
<1> QED
  BY <1>1, <1>2, <1>3, <1>4, <1>5, <1>6 DEF Run

LEMMA CommandLineStep ==
    ASSUME IInv, ReadOptions \/ ReadSnapshot \/ Interrupt \/ Return
    PROVE  IInv'
<1> USE DEF IInv, Typed, Launchers, Servers, Launched, Progressed, UrlOnlyWhileServing, Left, TestsStartClean,
            Session, Go, Exit
<1>1. CASE ReadOptions
  BY <1>1 DEF ReadOptions
<1>2. CASE ReadSnapshot
  <2>1. launcher.mode = "cli" /\ server.pc = "off" /\ ~server.started /\ ~server.should_exit
    BY <1>2, ModesAssumption DEF ReadSnapshot
  <2>2. CASE launcher.file \in Unreadable
    BY <1>2, <2>1, <2>2 DEF ReadSnapshot
  <2>3. CASE launcher.file \notin Unreadable
    BY <1>2, <2>1, <2>3 DEF ReadSnapshot
  <2> QED
    BY <2>2, <2>3
<1>3. CASE Interrupt
  BY <1>3 DEF Interrupt
<1>4. CASE Return
  BY <1>4 DEF Return
<1> QED
  BY <1>1, <1>2, <1>3, <1>4

\* The fixture polls: `started` is read before anything tells the server to exit.
LEMMA FixtureStep == ASSUME IInv, Launch \/ Tick \/ Fixture \/ EndSession PROVE IInv'
<1> USE DEF IInv, Typed, Launchers, Servers, Launched, Progressed, UrlOnlyWhileServing, Left, TestsStartClean,
            Session, Go
<1>1. CASE Launch
  BY <1>1, FilesAssumption DEF Launch
<1>2. CASE Tick
  BY <1>2 DEF Tick
<1>3. CASE Poll
  BY <1>3, ModesAssumption DEF Poll
<1>4. CASE CheckThread
  BY <1>4, ModesAssumption DEF CheckThread
<1>5. CASE CheckDeadline
  <2>1. launcher.mode = "fixture" /\ ~server.should_exit
    BY <1>5, ModesAssumption DEF CheckDeadline
  <2>2. CASE late
    <3>1. /\ launcher' = [launcher EXCEPT !.pc = "failed"]
          /\ server' = [server EXCEPT !.should_exit = TRUE]
          /\ UNCHANGED <<late, storage, traffic, test, requests>>
      BY <1>5, <2>2 DEF CheckDeadline
    <3>2. Typed' /\ Launched'
      BY <2>1, <3>1
    <3>3. Progressed' /\ UrlOnlyWhileServing'
      BY <2>1, <3>1
    <3>4. Left'
      BY <3>1
    <3> QED
      BY <3>2, <3>3, <3>4
  <2>3. CASE ~late
    BY <1>5, <2>1, <2>3 DEF CheckDeadline
  <2> QED
    BY <2>2, <2>3
<1>6. CASE Join
  BY <1>6 DEF Join
<1>7. CASE EndSession
  BY <1>7, ModesAssumption DEF EndSession
<1> QED
  BY <1>1, <1>2, <1>3, <1>4, <1>5, <1>6, <1>7 DEF Fixture

LEMMA TestStep ==
    ASSUME IInv, StartTest \/ ConfigureMock \/ SendRequest \/ \E n \in requests : Arrive(n)
    PROVE  IInv'
<1> USE DEF IInv, Typed, Launchers, Servers, Launched, Progressed, UrlOnlyWhileServing, Left, TestsStartClean
<1>1. CASE StartTest
  BY <1>1, ModesAssumption DEF StartTest
<1>2. CASE ConfigureMock
  <2>1. launcher.mode = "fixture" /\ launcher.file = "none"
    BY <1>2, ModesAssumption DEF ConfigureMock
  <2>2. Typed' /\ Launched' /\ Progressed' /\ UrlOnlyWhileServing'
    BY <1>2, <2>1 DEF ConfigureMock
  <2>3. Left'
    BY <1>2 DEF ConfigureMock
  <2> QED
    BY <2>2, <2>3
<1>3. CASE SendRequest
  BY <1>3 DEF SendRequest
<1>4. ASSUME NEW n \in requests, Arrive(n) PROVE IInv'
  BY <1>4 DEF Arrive
<1> QED
  BY <1>1, <1>2, <1>3, <1>4

\* The mocks go first, so that a request that comes in before the traffic goes is nobody's.
LEMMA CleanUpStep == ASSUME IInv, NEW step \in 1..2, CleanUp(step) PROVE IInv'
<1> USE DEF IInv, Typed, Launchers, Servers, Launched, Progressed, UrlOnlyWhileServing, Left, TestsStartClean
<1>1. CASE step = 1
  BY <1>1, ModesAssumption DEF CleanUp, TeardownOrder
<1>2. CASE step = 2
  BY <1>2, ModesAssumption DEF CleanUp, TeardownOrder
<1> QED
  BY <1>1, <1>2

LEMMA NextPreserves == ASSUME IInv, [Next]_vars PROVE IInv'
<1>1. CASE UNCHANGED vars
  BY <1>1 DEF vars, IInv, Typed, Launched, Progressed, UrlOnlyWhileServing, Left, TestsStartClean
<1> QED
  BY <1>1, RunStep, CommandLineStep, FixtureStep, TestStep, CleanUpStep DEF Next

-------------------------------------------------------------------------------

\* The inductive invariant of the server's life.
THEOREM Inductive == Spec => []IInv
<1>1. Init => IInv
  BY InitEstablishes
<1>2. IInv /\ [Next]_vars => IInv'
  BY NextPreserves
<1> QED
  BY <1>1, <1>2, PTL DEF Spec

\* app_lifespan: whatever file is preloaded, no request is let in before all of it is in
\* place, after the HTTP client is closed, or when a mock was refused.
THEOREM ReadyBeforeServing == Spec => []ServedOnlyWhenReady
<1>1. IInv => ServedOnlyWhenReady
  BY DEF IInv, Typed, Servers, Launched, Progressed, ServedOnlyWhenReady, Accepting
<1> QED
  BY <1>1, Inductive, PTL

\* proxy_mock_url: the URL that is handed out is that of a server that serves.
THEOREM UrlServes == Spec => []UrlOnlyWhileServing
<1>1. IInv => UrlOnlyWhileServing
  BY DEF IInv
<1> QED
  BY <1>1, Inductive, PTL

\* proxy_mock: however many tests a session has and however late their requests come in,
\* no test finds a mock of an earlier one or a request that such a mock has answered.
THEOREM CleanStarts == Spec => []TestsStartClean
<1>1. IInv => TestsStartClean
  BY DEF IInv, Left
<1> QED
  BY <1>1, Inductive, PTL
===============================================================================
