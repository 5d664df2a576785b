---------------------------- MODULE ServerLifecycle ----------------------------
(***************************************************************************)
(* The life of a server: started by the command line or, in a thread, by   *)
(* the pytest fixture proxy_mock_url; its lifespan with the preloaded      *)
(* snapshot; its end.  And, for the fixture, the tests that use it one     *)
(* after the other with the fixture proxy_mock, whose teardown cleans up   *)
(* while requests of the test's code may still come in.                    *)
(*                                                                         *)
(* The fixture runs in the thread of the tests, so its reads of            *)
(* server.started, of the thread and of the clock are steps of their own.  *)
(* uvicorn is external: it runs the lifespan, binds, sets `started`, looks *)
(* at should_exit, and runs the lifespan's end before it returns.          *)
(***************************************************************************)
EXTENDS Integers

CONSTANTS
    Modes,       \* how the server may be started: "cli", "fixture"
    Files,       \* what --mocks may name: "none", or a file
    Unreadable,  \* the files that are no snapshot
    Refused,     \* the files that are one, but whose mocks this application refuses
    MaxTests     \* bound: tests of a session

ASSUME ModesAssumption == Modes \subseteq {"cli", "fixture"}
ASSUME FilesAssumption == "none" \in Files \ (Unreadable \union Refused)
ASSUME BoundsAssumption == MaxTests \in Nat

VARIABLES
    launcher,  \* the thread that started the server: how, where it is, and the file
    late,      \* the deadline the launcher waits for has passed
    server,    \* uvicorn and the application's lifespan
    storage,   \* the tests whose mocks are configured
    traffic,   \* the recorded requests: whose they were, and whose mocks could answer
    test,      \* the current test, and how far it is
    requests   \* the tests that have a request on its way

vars == <<launcher, late, server, storage, traffic, test, requests>>

Preloaded == 0  \* stands for the snapshot among the tests whose mocks are stored

Init ==
    /\ launcher \in [mode : Modes, pc : {"idle"}, file : Files, code : {0}]
    /\ launcher.mode = "fixture" => launcher.file = "none"
    /\ late = FALSE
    /\ server = [pc |-> "off", started |-> FALSE, should_exit |-> FALSE, http_client |-> "none"]
    /\ storage = {}
    /\ traffic = {}
    /\ test = [number |-> 0, pc |-> "over"]
    /\ requests = {}

Go(pc) == launcher' = [launcher EXCEPT !.pc = pc]
Exit(code) == launcher' = [launcher EXCEPT !.pc = "ended", !.code = code]
Session == <<storage, traffic, test, requests>>

-------------------------------------------------------------------------------
(* The server *)

Accepting == server.pc \in {"bound", "serving"}

\* create_app gave the application empty stores; the HTTP client belongs to the serving loop.
EnterLifespan ==
    /\ server.pc = "launched"
    /\ server' = [server EXCEPT !.pc = "preloading", !.http_client = "open"]
    /\ UNCHANGED <<launcher, late, Session>>

\* Mutant of Preload: a snapshot that is refused is only reported.
PreloadReported ==
    /\ server.pc = "preloading"
    /\ server' = [server EXCEPT !.pc = "ready"]
    /\ storage' = IF launcher.file \in Refused \union {"none"} THEN {} ELSE {Preloaded}
    /\ UNCHANGED <<launcher, late, traffic, test, requests>>

\* import_snapshot(mode="replace"); the lifespan fails when the application refuses a mock.
Preload ==
    /\ server.pc = "preloading"
    /\ IF launcher.file \in Refused
       THEN server' = [server EXCEPT !.pc = "stopped", !.http_client = "closed"] /\ UNCHANGED storage
       ELSE /\ server' = [server EXCEPT !.pc = "ready"]
            /\ storage' = IF launcher.file = "none" THEN {} ELSE {Preloaded}
    /\ UNCHANGED <<launcher, late, traffic, test, requests>>

\* The port may be taken: by the time the fixture's server binds, the port it found
\* free may be another's.
Bind ==
    /\ server.pc = "ready"
    /\ \E pc \in {"bound", "leaving"} : server' = [server EXCEPT !.pc = pc]
    /\ UNCHANGED <<launcher, late, Session>>

BecomeStarted ==
    /\ server.pc = "bound"
    /\ server' = [server EXCEPT !.pc = "serving", !.started = TRUE]
    /\ UNCHANGED <<launcher, late, Session>>

\* The main loop looks at should_exit; open requests end first.
Leave ==
    /\ server.pc = "serving"
    /\ server.should_exit
    /\ server' = [server EXCEPT !.pc = "leaving"]
    /\ UNCHANGED <<launcher, late, Session>>

\* The lifespan's finally, whichever way it ends.
LeaveLifespan ==
    /\ server.pc = "leaving"
    /\ server' = [server EXCEPT !.pc = "stopped", !.http_client = "closed"]
    /\ UNCHANGED <<launcher, late, Session>>

Run == EnterLifespan \/ Preload \/ Bind \/ BecomeStarted \/ Leave \/ LeaveLifespan

-------------------------------------------------------------------------------
(* The command line *)

\* main: options and dependencies are refused first, then the file.
ReadOptions ==
    /\ launcher.mode = "cli"
    /\ launcher.pc = "idle"
    /\ \/ Exit(2)
       \/ Go("reading")
    /\ UNCHANGED <<late, server, Session>>

\* Only the document is validated here: there is no application yet to refuse a path.
ReadSnapshot ==
    /\ launcher.pc = "reading"
    /\ IF launcher.file \in Unreadable
       THEN Exit(2) /\ UNCHANGED server
       ELSE Go("running") /\ server' = [server EXCEPT !.pc = "launched"]
    /\ UNCHANGED <<late, Session>>

\* SIGINT or SIGTERM.
Interrupt ==
    /\ launcher.pc = "running"
    /\ server' = [server EXCEPT !.should_exit = TRUE]
    /\ UNCHANGED <<launcher, late, Session>>

\* uvicorn.run ends the process with an error (1 stands for its codes) when the server
\* never started.
Return ==
    /\ launcher.pc = "running"
    /\ server.pc = "stopped"
    /\ Exit(IF server.started THEN 0 ELSE 1)
    /\ UNCHANGED <<late, server, Session>>

-------------------------------------------------------------------------------
(* The fixture proxy_mock_url *)

Launch ==
    /\ launcher.mode = "fixture"
    /\ launcher.pc = "idle"
    /\ Go("polling")
    /\ server' = [server EXCEPT !.pc = "launched"]
    /\ UNCHANGED <<late, Session>>

\* READY_TIMEOUT or SHUTDOWN_TIMEOUT.
Tick ==
    /\ launcher.pc \in {"polling", "checking", "timing", "joining"}
    /\ late' = TRUE
    /\ UNCHANGED <<launcher, server, Session>>

\* Mutant of Poll: a thread that runs is taken for a server that serves.
PollThread ==
    /\ launcher.pc = "polling"
    /\ Go(IF server.pc # "stopped" THEN "yielded" ELSE "checking")
    /\ late' = FALSE
    /\ UNCHANGED <<server, Session>>

Poll ==
    /\ launcher.pc = "polling"
    /\ IF server.started THEN Go("yielded") /\ late' = FALSE ELSE Go("checking") /\ UNCHANGED late
    /\ UNCHANGED <<server, Session>>

\* thread.is_alive()
CheckThread ==
    /\ launcher.pc = "checking"
    /\ Go(IF server.pc = "stopped" THEN "failed" ELSE "timing")
    /\ UNCHANGED <<late, server, Session>>

\* Mutant of CheckDeadline: the fixture fails and leaves the server to itself.
CheckDeadlineOnly ==
    /\ launcher.pc = "timing"
    /\ Go(IF late THEN "failed" ELSE "polling")
    /\ UNCHANGED <<late, server, Session>>

\* The server may have started since `started` was read; it is told to exit all the same.
CheckDeadline ==
    /\ launcher.pc = "timing"
    /\ IF late
       THEN Go("failed") /\ server' = [server EXCEPT !.should_exit = TRUE]
       ELSE Go("polling") /\ UNCHANGED server
    /\ UNCHANGED <<late, Session>>

EndSession ==
    /\ launcher.pc = "yielded"
    /\ test.pc = "over"
    /\ Go("joining")
    /\ server' = [server EXCEPT !.should_exit = TRUE]
    /\ UNCHANGED <<late, Session>>

\* thread.join(timeout); a daemon thread that is still there ends with the interpreter.
Join ==
    /\ launcher.pc = "joining"
    /\ server.pc = "stopped" \/ late
    /\ Go("ended")
    /\ UNCHANGED <<late, server, Session>>

Fixture == Poll \/ CheckThread \/ CheckDeadline \/ Join

-------------------------------------------------------------------------------
(* The fixture proxy_mock and the code under test *)

StartTest ==
    /\ launcher.pc = "yielded"
    /\ test.pc = "over"
    /\ test.number < MaxTests
    /\ test' = [number |-> test.number + 1, pc |-> "running"]
    /\ UNCHANGED <<launcher, late, server, storage, traffic, requests>>

ConfigureMock ==
    /\ test.pc = "running"
    /\ storage' = storage \union {test.number}
    /\ UNCHANGED <<launcher, late, server, traffic, test, requests>>

\* The code under test sends a request and may not wait for it.
SendRequest ==
    /\ test.pc = "running"
    /\ requests' = requests \union {test.number}
    /\ UNCHANGED <<launcher, late, server, storage, traffic, test>>

\* A request is recorded when it comes in, by the mock that answers it or by the 404
\* handler; LOG_MODE "full" has read its body before.  It fails once the server is gone.
Arrive(n) ==
    /\ n \in requests
    /\ Accepting \/ server.pc \in {"leaving", "stopped"}
    /\ requests' = requests \ {n}
    /\ traffic' = IF Accepting THEN traffic \union {[test |-> n, mocks |-> storage]} ELSE traffic
    /\ UNCHANGED <<launcher, late, server, storage, test>>

\* Mutant of TeardownOrder: the traffic goes first.
TeardownTrafficFirst == <<"traffic", "storage">>

TeardownOrder == <<"storage", "traffic">>

\* The teardown calls the server once for each; the client is closed last.
CleanUp(step) ==
    /\ test.pc = <<"running", "cleaning">>[step]
    /\ test' = [test EXCEPT !.pc = <<"cleaning", "over">>[step]]
    /\ storage' = IF TeardownOrder[step] = "storage" THEN {} ELSE storage
    /\ traffic' = IF TeardownOrder[step] = "traffic" THEN {} ELSE traffic
    /\ UNCHANGED <<launcher, late, server, requests>>

-------------------------------------------------------------------------------

Next ==
    \/ Run
    \/ ReadOptions \/ ReadSnapshot \/ Interrupt \/ Return
    \/ Launch \/ Tick \/ Fixture \/ EndSession
    \/ StartTest \/ ConfigureMock \/ SendRequest \/ (\E step \in 1..2 : CleanUp(step))
    \/ \E n \in requests : Arrive(n)

Spec == Init /\ [][Next]_vars

\* The server's thread and the polling fixture go on; nothing makes a test or a user act.
FairSpec == Spec /\ WF_vars(Run) /\ WF_vars(Fixture) /\ WF_vars(Return)

-------------------------------------------------------------------------------
(* Correctness *)

\* No request is let in before the whole snapshot is in place, none after the HTTP
\* client is closed, and none at all by a server that was refused a mock.
ServedOnlyWhenReady ==
    Accepting =>
        /\ server.http_client = "open"
        /\ launcher.file \notin Unreadable \union Refused
        /\ launcher.file # "none" => storage = {Preloaded}

\* The session gets the URL of a server that has bound its port and will not be told
\* to exit before the session ends, however the polling and the server's start race.
UrlOnlyWhileServing == launcher.pc = "yielded" => server.pc = "serving" /\ ~server.should_exit

\* A test finds no mock of an earlier test and no record of a request that an earlier
\* test's mock has answered, though requests come in all through the teardown: one that
\* slips in is a 404 of nobody's mock.
TestsStartClean ==
    launcher.mode = "fixture" =>
        LET own == IF test.pc = "over" THEN {} ELSE {test.number}
        IN  storage \subseteq own /\ \A record \in traffic : record.mocks \subseteq own

\* Whatever becomes of the launcher, also when it gave up on a server that started a
\* moment later, the server ends and closes the HTTP client it opened.
ServerEnds ==
    launcher.pc \in {"failed", "joining", "ended"} ~>
        server.pc \in {"off", "stopped"} /\ server.http_client # "open"
===============================================================================
