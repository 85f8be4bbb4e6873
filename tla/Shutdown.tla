------------------------------ MODULE Shutdown ------------------------------
(***************************************************************************)
(* The threads of HttpServer and MockDriverServer and the life of the      *)
(* objects on main's stack: start-up, the loop of each mode, stop, and the *)
(* destructors.  The two servers are the same program.  A session runs on  *)
(* a detached thread that nobody waits for.                                *)
(*                                                                         *)
(* What sessions and commands do to collections is one bit here; DataTask  *)
(* is the model of it.  stopAll is taken to return (see its StopAllReturns *)
(* and the finding stop_all_hangs).                                        *)
(***************************************************************************)
EXTENDS Naturals, Sequences

CONSTANTS
    Modes,      \* the modes main may be started in
    Sessions    \* threads of handleSession

Servers == {"mock", "http"}

(* In the order of their construction                                      *)
Objects == <<"database", "task", "commands", "mock", "http">>

ASSUME ModesAssumption == Modes \subseteq {"console", "http", "command", "oneshot"}

VARIABLES
    mode,
    todo,       \* what main has still to do, as <<operation, object>>
    joining,    \* the server whose thread main joins in stop, or "none"
    alive,      \* objects that are not destroyed
    running,    \* running_ of each server
    joinable,   \* servers whose serverThread_ has a thread
    run,        \* run[s]: "none", "open", "test", "accept", "returned"
    session,    \* session[x]: "none", "test", "read", "answer", "over"
    server,     \* server[x]: whose session it is
    collecting, \* DataTask holds a worker's thread that is not joined
    outcome,    \* of the process: "running", "exited", "terminated", "crashed"
    failed,     \* history: servers whose run has failed
    stopped,    \* history: servers whose stop has returned
    late        \* history: sessions that used a destroyed object

threadVars == <<running, joinable, run, failed>>
sessionVars == <<session, server, late>>
vars == <<mode, todo, joining, alive, threadVars, sessionVars, collecting, outcome, stopped>>

Operation == {"start", "wait", "stopAll", "stop", "release"}

----------------------------------------------------------------------------
(* main *)

(* Unwind with a bug, for a mutation run: ~DataTask stops nothing.         *)
UnwindOnly(hasHttp) ==
    (IF hasHttp THEN << <<"stop", "http">>, <<"release", "http">> >> ELSE << >>)
    \o << <<"stop", "mock">>, <<"release", "mock">>, <<"release", "commands">>,
          <<"release", "task">>, <<"release", "database">> >>

(* The destructors at the end of main's scope: a server's calls stop,      *)
(* DataTask's calls stopAll.                                               *)
Unwind(hasHttp) ==
    (IF hasHttp THEN << <<"stop", "http">>, <<"release", "http">> >> ELSE << >>)
    \o << <<"stop", "mock">>, <<"release", "mock">>, <<"release", "commands">>,
          <<"stopAll", "task">>, <<"release", "task">>, <<"release", "database">> >>

(* "command" is --cmd with a command that starts a collection, "oneshot"   *)
(* with any other.                                                         *)
Script(m) ==
    CASE m = "console" -> << <<"start", "mock">>, <<"wait", "task">>,
                             <<"stopAll", "task">>, <<"stop", "mock">> >> \o Unwind(FALSE)
      [] m = "http"    -> << <<"start", "mock">>, <<"start", "http">>, <<"wait", "task">>,
                             <<"stopAll", "task">>, <<"stop", "http">>, <<"stop", "mock">> >>
                          \o Unwind(TRUE)
      [] m = "command" -> << <<"start", "mock">>, <<"wait", "task">>,
                             <<"stopAll", "task">>, <<"stop", "mock">> >> \o Unwind(FALSE)
      [] m = "oneshot" -> << <<"stop", "mock">> >> \o Unwind(FALSE)

Init ==
    /\ mode \in Modes
    /\ todo = Script(mode)
    /\ joining = "none"
    /\ alive = {Objects[i] : i \in DOMAIN Objects}
    /\ running = [s \in Servers |-> FALSE]
    /\ joinable = {}
    /\ run = [s \in Servers |-> "none"]
    /\ session = [x \in Sessions |-> "none"]
    /\ server \in [Sessions -> Servers]
    /\ collecting = FALSE
    /\ outcome = "running"
    /\ failed = {}
    /\ stopped = {}
    /\ late = {}

(* Main's next operation is op on object o, and it is not inside a join.   *)
At(op, o) ==
    /\ outcome = "running"
    /\ joining = "none"
    /\ todo # << >>
    /\ Head(todo) = <<op, o>>

Start(s) ==
    /\ At("start", s)
    /\ ~running[s]
    /\ running' = [running EXCEPT ![s] = TRUE]
    /\ joinable' = joinable \cup {s}
    /\ run' = [run EXCEPT ![s] = "open"]
    /\ todo' = Tail(todo)
    /\ UNCHANGED <<mode, joining, alive, sessionVars, collecting, outcome, failed, stopped>>

(* StartFails with a bug, for a mutation run: it is taken for started.     *)
StartFailsSilently(s) ==
    /\ At("start", s)
    /\ running' = [running EXCEPT ![s] = TRUE]
    /\ joinable' = joinable \cup {s}
    /\ todo' = Tail(todo)
    /\ UNCHANGED <<mode, joining, alive, run, sessionVars, collecting, outcome, failed, stopped>>

(* No thread can be created: the exception leaves main's scope and what    *)
(* is constructed is destroyed.                                            *)
StartFails(s) ==
    /\ At("start", s)
    /\ running' = [running EXCEPT ![s] = TRUE]
    /\ todo' = Unwind(s = "http")
    /\ UNCHANGED <<mode, joining, alive, joinable, run, sessionVars, collecting, outcome, failed,
                   stopped>>

(* The console and --cmd execute commands on main's thread.                *)
Command ==
    /\ At("wait", "task")
    /\ mode # "http"
    /\ collecting' \in BOOLEAN
    /\ UNCHANGED <<mode, todo, joining, alive, threadVars, sessionVars, outcome, stopped>>

(* "exit", Enter or the end of the input                                   *)
Enter ==
    /\ At("wait", "task")
    /\ todo' = Tail(todo)
    /\ UNCHANGED <<mode, joining, alive, threadVars, sessionVars, collecting, outcome, stopped>>

StopAll ==
    /\ At("stopAll", "task")
    /\ collecting' = FALSE
    /\ todo' = Tail(todo)
    /\ UNCHANGED <<mode, joining, alive, threadVars, sessionVars, outcome, stopped>>

(* stop of a server that does not run, or whose run has cleared running_:  *)
(* it returns at once and joins nothing.                                   *)
StopEarly(s) ==
    /\ At("stop", s)
    /\ ~running[s]
    /\ todo' = Tail(todo)
    /\ stopped' = stopped \cup {s}
    /\ UNCHANGED <<mode, joining, alive, threadVars, sessionVars, collecting, outcome>>

(* A variant with a bug, for mutation runs: the thread is not joined.      *)
StopDetaches(s) ==
    /\ At("stop", s)
    /\ running[s]
    /\ running' = [running EXCEPT ![s] = FALSE]
    /\ todo' = Tail(todo)
    /\ stopped' = stopped \cup {s}
    /\ UNCHANGED <<mode, joining, alive, joinable, run, failed, sessionVars, collecting, outcome>>

Stop(s) ==
    /\ At("stop", s)
    /\ running[s]
    /\ running' = [running EXCEPT ![s] = FALSE]
    /\ joining' = s
    /\ UNCHANGED <<mode, todo, alive, joinable, run, failed, sessionVars, collecting, outcome,
                   stopped>>

(* stop reads ioContext_ while run, on its own thread, may be assigning to *)
(* it: the context may be gone when it is told to stop.                    *)
StopMeetsOpen(s) ==
    /\ At("stop", s)
    /\ running[s]
    /\ run[s] = "open"
    /\ outcome' = "crashed"
    /\ UNCHANGED <<mode, todo, joining, alive, threadVars, sessionVars, collecting, stopped>>

(* The join in stop, or none when start could not create the thread        *)
Join(s) ==
    /\ outcome = "running"
    /\ joining = s
    /\ s \in joinable => run[s] = "returned"
    /\ joinable' = joinable \ {s}
    /\ joining' = "none"
    /\ todo' = Tail(todo)
    /\ stopped' = stopped \cup {s}
    /\ UNCHANGED <<mode, alive, running, run, failed, sessionVars, collecting, outcome>>

(* The object has a std::thread that is still joinable.                    *)
HoldsThread(o) == o \in joinable \/ (o = "task" /\ collecting)

Release(o) ==
    /\ At("release", o)
    /\ ~HoldsThread(o)
    /\ alive' = alive \ {o}
    /\ todo' = Tail(todo)
    /\ UNCHANGED <<mode, joining, threadVars, sessionVars, collecting, outcome, stopped>>

(* The destructor of a joinable std::thread calls std::terminate.          *)
ReleaseTerminates(o) ==
    /\ At("release", o)
    /\ HoldsThread(o)
    /\ outcome' = "terminated"
    /\ UNCHANGED <<mode, todo, joining, alive, threadVars, sessionVars, collecting, stopped>>

Exit ==
    /\ outcome = "running"
    /\ todo = << >>
    /\ outcome' = "exited"
    /\ UNCHANGED <<mode, todo, joining, alive, threadVars, sessionVars, collecting, stopped>>

----------------------------------------------------------------------------
(* run, on the server's thread *)

RunOpens(s) ==
    /\ outcome = "running"
    /\ run[s] = "open"
    /\ run' = [run EXCEPT ![s] = "test"]
    /\ UNCHANGED <<mode, todo, joining, alive, running, joinable, failed, sessionVars,
                   collecting, outcome, stopped>>

(* The address is in use, or later no thread can be created for a session. *)
RunFails(s) ==
    /\ outcome = "running"
    /\ run[s] \in {"open", "accept"}
    /\ running' = [running EXCEPT ![s] = FALSE]
    /\ run' = [run EXCEPT ![s] = "returned"]
    /\ failed' = failed \cup {s}
    /\ UNCHANGED <<mode, todo, joining, alive, joinable, sessionVars, collecting, outcome, stopped>>

(* A variant with a bug, for a mutation run: for (;;)                      *)
RunTestForever(s) ==
    /\ outcome = "running"
    /\ run[s] = "test"
    /\ run' = [run EXCEPT ![s] = "accept"]
    /\ UNCHANGED <<mode, todo, joining, alive, running, joinable, failed, sessionVars,
                   collecting, outcome, stopped>>

RunTest(s) ==
    /\ outcome = "running"
    /\ run[s] = "test"
    /\ run' = [run EXCEPT ![s] = IF running[s] THEN "accept" ELSE "returned"]
    /\ UNCHANGED <<mode, todo, joining, alive, running, joinable, failed, sessionVars,
                   collecting, outcome, stopped>>

(* Nobody connects for 50 ms, or accept reports an error.                  *)
RunAcceptsNone(s) ==
    /\ outcome = "running"
    /\ run[s] = "accept"
    /\ run' = [run EXCEPT ![s] = "test"]
    /\ UNCHANGED <<mode, todo, joining, alive, running, joinable, failed, sessionVars,
                   collecting, outcome, stopped>>

RunAccepts(s) ==
    /\ outcome = "running"
    /\ run[s] = "accept"
    /\ run' = [run EXCEPT ![s] = "test"]
    /\ \E x \in Sessions :
           /\ session[x] = "none" /\ server[x] = s
           /\ session' = [session EXCEPT ![x] = "test"]
    /\ UNCHANGED <<mode, todo, joining, alive, running, joinable, failed, server, late,
                   collecting, outcome, stopped>>

----------------------------------------------------------------------------
(* handleSession, on a detached thread *)

(* What the session's next step refers to: its socket and the loop to the  *)
(* server and its io_context, a request of HttpServer to the rest.         *)
Needs(x) ==
    CASE session[x] \in {"test", "read"} -> {server[x]}
      [] session[x] = "answer" ->
             {server[x]} \cup (IF server[x] = "http" THEN {"commands", "task", "database"} ELSE {})
      [] OTHER -> {}

SessionMoves(x, from, to) ==
    /\ outcome = "running"
    /\ session[x] = from
    /\ session' = [session EXCEPT ![x] = to]
    /\ late' = IF Needs(x) \subseteq alive THEN late ELSE late \cup {x}
    /\ UNCHANGED <<mode, todo, joining, alive, threadVars, server, outcome, stopped>>

(* while (running_): what a destroyed server's flag reads is anything.     *)
SessionTest(x) ==
    \E to \in {"read", "over"} :
        /\ server[x] \in alive => (to = "read" <=> running[server[x]])
        /\ SessionMoves(x, "test", to)
        /\ UNCHANGED collecting

(* A request arrives, or the peer closes and the connection breaks.        *)
SessionRead(x) ==
    /\ \E to \in {"answer", "over"} : SessionMoves(x, "read", to)
    /\ UNCHANGED collecting

(* A request of HttpServer may be a command that starts or stops           *)
(* collections; one of MockDriverServer changes nothing.                   *)
SessionAnswer(x) ==
    /\ \E to \in {"test", "over"} : SessionMoves(x, "answer", to)
    /\ IF server[x] = "http" THEN collecting' \in BOOLEAN ELSE UNCHANGED collecting

(* Use of a destroyed object                                               *)
SessionCrashes(x) ==
    /\ outcome = "running"
    /\ ~(Needs(x) \subseteq alive)
    /\ outcome' = "crashed"
    /\ UNCHANGED <<mode, todo, joining, alive, threadVars, sessionVars, collecting, stopped>>

----------------------------------------------------------------------------
StopStep(s) ==
    \/ Stop(s) \/ StopEarly(s) \/ StopMeetsOpen(s) \/ Join(s)

Main ==
    \/ \E s \in Servers : Start(s) \/ StartFails(s) \/ StopStep(s)
    \/ \E i \in DOMAIN Objects : Release(Objects[i]) \/ ReleaseTerminates(Objects[i])
    \/ StopAll \/ Exit

ServerThread(s) ==
    RunOpens(s) \/ RunFails(s) \/ RunTest(s) \/ RunAcceptsNone(s) \/ RunAccepts(s)

Session(x) == SessionTest(x) \/ SessionRead(x) \/ SessionAnswer(x) \/ SessionCrashes(x)

(* The process has ended.                                                  *)
Ended == outcome # "running" /\ UNCHANGED vars

Next ==
    \/ Main \/ Command \/ Enter
    \/ \E s \in Servers : ServerThread(s)
    \/ \E x \in Sessions : Session(x)
    \/ Ended

Spec == Init /\ [][Next]_vars

(* The threads that run are scheduled; nobody has to press Enter, connect  *)
(* or send a request.                                                      *)
Fairness == WF_vars(Main) /\ \A s \in Servers : WF_vars(ServerThread(s))

FairSpec == Spec /\ Fairness

----------------------------------------------------------------------------
(* Properties *)

TypeOK ==
    /\ mode \in Modes
    /\ todo \in Seq(Operation \X {Objects[i] : i \in DOMAIN Objects})
    /\ joining \in Servers \cup {"none"}
    /\ alive \subseteq {Objects[i] : i \in DOMAIN Objects}
    /\ running \in [Servers -> BOOLEAN]
    /\ run \in [Servers -> {"none", "open", "test", "accept", "returned"}]
    /\ joinable \subseteq {s \in Servers : run[s] # "none"}
    /\ session \in [Sessions -> {"none", "test", "read", "answer", "over"}]
    /\ server \in [Sessions -> Servers]
    /\ collecting \in BOOLEAN
    /\ outcome \in {"running", "exited", "terminated", "crashed"}
    /\ failed \subseteq Servers /\ stopped \subseteq Servers
    /\ late \subseteq Sessions

(* Once stop has returned the server's thread is over, also when stop came *)
(* before the thread had begun or after it had failed: no session is       *)
(* accepted any more and the thread never uses a destroyed server.         *)
StoppedServerIsOver == \A s \in stopped : run[s] \in {"none", "returned"}

(* Main stops the collections before it stops the servers, so a session    *)
(* may start one in between; ~DataTask stops and joins it.  No thread is   *)
(* left joinable, which would end the process by std::terminate, unless a  *)
(* server's run failed or a session still answered a request while the     *)
(* objects were destroyed.                                                 *)
TerminatesForAReason == outcome = "terminated" => failed # {} \/ late # {}

(* After Enter the process ends: no server thread keeps stop waiting.      *)
ShutdownEnds == (\A i \in DOMAIN todo : todo[i][1] # "wait") ~> outcome # "running"

(* README.md:164: after Enter the tasks and the mock server stop.          *)
NeverTerminates == outcome # "terminated"
=============================================================================
