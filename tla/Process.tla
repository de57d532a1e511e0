------------------------------- MODULE Process -------------------------------
(***************************************************************************)
(* The life of the server process: main.go and the dependencies it         *)
(* resolves, NewStore with the migration of the database, the handler of   *)
(* signals, the web server and its shutdown; and the crashes and restarts  *)
(* around it.                                                              *)
(*                                                                         *)
(* The database, its version of the schema and the tables outlive the      *)
(* process.  golang-migrate, net/http and the Go runtime are external:     *)
(* what they do is taken from their calls here.  What a request does is in *)
(* Service; here it runs, and is answered or cut.                          *)
(***************************************************************************)
EXTENDS MigrationPath, FiniteSets

CONSTANTS Directory,   \* working directories: [root, below], where root is the
                       \* directory that has the repository
          Client       \* who sends requests, one in the life of a process

\* os.Getwd returns an absolute path without empty parts and dots.
ASSUME DirectoryAssumption ==
    \A dir \in Directory : {dir.root, dir.below} \subseteq Seq(STRING \ {Slash, "."})

VARIABLES
    version,    \* the row of schema_migrations
    tables,     \* the tables of the schema are there
    database,   \* the database accepts connections
    cwd,        \* the working directory
    pc,         \* what main does
    exit,       \* how the last process ended
    ticked,     \* retryTimer has ticked
    notified,   \* signal.Notify was called
    pending,    \* how many signals the channel of the handler holds
    canceled,   \* the context of the application is cancelled
    listener,   \* what the goroutine of WebServer.Run does
    done,       \* httpServerDone is closed
    expired,    \* the two seconds that Shutdown is given are over
    request     \* request[c]: the request of client c

schema == <<version, tables>>
signal == <<notified, pending, canceled>>
web    == <<listener, done, expired>>
vars   == <<schema, database, cwd, pc, exit, ticked, signal, web, request>>

Starting == {"connect", "poll", "locate", "migrate", "apply", "finish"}
Serving  == {"dial", "notify", "run", "listen", "serve", "return"}

TypeOK ==
    /\ version  \in {"none", "dirty", "done"}
    /\ tables   \in BOOLEAN
    /\ database \in BOOLEAN
    /\ cwd      \in Directory
    /\ pc       \in {"stopped"} \cup Starting \cup Serving
    /\ exit     \in {"none", "ok", "fatal", "no migrations", "killed"}
    /\ ticked   \in BOOLEAN
    /\ notified \in BOOLEAN /\ pending \in {0, 1} /\ canceled \in BOOLEAN
    /\ listener \in {"none", "wait", "shutdown", "closed", "gone"}
    /\ done \in BOOLEAN /\ expired \in BOOLEAN
    /\ request  \in [Client -> {"none", "running", "answered", "cut"}]

Init == /\ version = "none" /\ tables = FALSE /\ database \in BOOLEAN
        /\ cwd \in Directory
        /\ pc = "stopped" /\ exit = "none"
        /\ ticked = FALSE
        /\ notified = FALSE /\ pending = 0 /\ canceled = FALSE
        /\ listener = "none" /\ done = FALSE /\ expired = FALSE
        /\ request = [c \in Client |-> "none"]

Goto(where) == pc' = where

\* The process ends, with all its goroutines and connections.
Exit(how) ==
    /\ Goto("stopped")
    /\ exit' = how
    /\ request' = [c \in Client |-> IF request[c] = "running" THEN "cut" ELSE request[c]]
    /\ UNCHANGED <<schema, database, cwd, ticked, signal, web>>

-----------------------------------------------------------------------------
(* The surroundings.                                                       *)

\* The operator starts the server in some directory; nothing else does.
Start == /\ pc = "stopped"
         /\ cwd' \in Directory
         /\ Goto("connect") /\ exit' = "none"
         /\ ticked' = FALSE
         /\ notified' = FALSE /\ pending' = 0 /\ canceled' = FALSE
         /\ listener' = "none" /\ done' = FALSE /\ expired' = FALSE
         /\ request' = [c \in Client |-> "none"]
         /\ UNCHANGED <<schema, database>>

DatabaseUp   == ~database /\ database' = TRUE
                /\ UNCHANGED <<schema, cwd, pc, exit, ticked, signal, web, request>>
DatabaseDown == database /\ database' = FALSE
                /\ UNCHANGED <<schema, cwd, pc, exit, ticked, signal, web, request>>

\* SIGKILL, a panic, loss of power.
Crash == pc # "stopped" /\ Exit("killed")

\* Mutant: signals queue up.
SignalQueued ==
    /\ pc # "stopped"
    /\ \/ ~notified /\ Exit("killed")
       \/ /\ notified /\ pending' = pending + 1
          /\ UNCHANGED <<schema, database, cwd, pc, exit, ticked, notified, canceled, web, request>>

\* Ctrl+C or SIGTERM ends a process that has not called signal.Notify.  The
\* channel keeps one signal, more are dropped.
Signal ==
    /\ pc # "stopped"
    /\ \/ ~notified /\ Exit("killed")
       \/ /\ notified /\ pending' = 1
          /\ UNCHANGED <<schema, database, cwd, pc, exit, ticked, notified, canceled, web, request>>

-----------------------------------------------------------------------------
(* NewStore                                                                *)

Continue(from, to) ==
    /\ pc = from /\ Goto(to)
    /\ UNCHANGED <<database, cwd, exit, ticked, signal, web, request>>

\* sql.Open and Ping
Ping == /\ Continue("connect", IF database THEN "locate" ELSE "poll")
        /\ UNCHANGED schema

Tick == /\ pc \in {"connect", "poll"} /\ ~ticked
        /\ ticked' = TRUE
        /\ UNCHANGED <<schema, database, cwd, pc, exit, signal, web, request>>

\* Mutant: the retries do not end.
PollForever == Continue("poll", "connect") /\ UNCHANGED schema

\* After a tick the error of Ping ends the process.  The branch of ctx.Done is
\* left out: nothing cancels the context before main has all dependencies.
Poll == \/ pc = "poll" /\ ticked /\ Exit("fatal")
        \/ ~ticked /\ Continue("poll", "connect") /\ UNCHANGED schema

\* The database fails what NewStore does with it.
QueryFails == pc \in {"locate", "migrate", "apply", "finish"} /\ ~database /\ Exit("fatal")

Path(dir)       == <<Slash>> \o dir.root \o dir.below
Migrations(dir) == <<Slash>> \o dir.root \o StoreMigrationRelativePath

\* The working directories that lead to the migrations.
Located == {dir \in Directory : removeOverlap(Path(dir), StoreMigrationRelativePath) = Migrations(dir)}

\* The directory that the working directory leads to must be there.
NewWithDatabaseInstance ==
    /\ database /\ pc = "locate"
    /\ \/ cwd \notin Located /\ Exit("no migrations")
       \/ cwd \in Located /\ Continue("locate", "migrate") /\ UNCHANGED schema

\* Mutant: a dirty version counts as no change.
UpIgnoresDirty ==
    /\ database
    /\ \/ version \in {"dirty", "done"} /\ Continue("migrate", "dial") /\ UNCHANGED schema
       \/ /\ version = "none" /\ Continue("migrate", "apply")
          /\ version' = "dirty" /\ UNCHANGED tables

\* m.Up refuses a dirty version, has nothing to do when there is a version,
\* and otherwise marks the version dirty while it applies the migration.
Up ==
    /\ database
    /\ \/ version = "dirty" /\ pc = "migrate" /\ Exit("fatal")
       \/ version = "done" /\ Continue("migrate", "dial") /\ UNCHANGED schema
       \/ /\ version = "none" /\ Continue("migrate", "apply")
          /\ version' = "dirty" /\ UNCHANGED tables

\* The statements of the file are one query, hence one transaction.
Apply == /\ database /\ Continue("apply", "finish")
         /\ tables' = TRUE /\ UNCHANGED version

Finish == /\ database /\ Continue("finish", "dial")
          /\ version' = "done" /\ UNCHANGED tables

-----------------------------------------------------------------------------
(* The other dependencies and main.                                        *)

\* ethclient.Dial in NewEthNode; what else is resolved cannot fail.
NewEthNode == \/ pc = "dial" /\ Exit("fatal")
              \/ Continue("dial", "notify") /\ UNCHANGED schema

InitShutdownHandler ==
    /\ pc = "notify" /\ Goto("run")
    /\ notified' = TRUE
    /\ UNCHANGED <<schema, database, cwd, exit, ticked, pending, canceled, web, request>>

\* The goroutine of InitShutdownHandler reads one signal.
HandleSignal ==
    /\ pending = 1 /\ ~canceled /\ pc # "stopped"
    /\ pending' = 0 /\ canceled' = TRUE
    /\ UNCHANGED <<schema, database, cwd, pc, exit, ticked, notified, web, request>>

\* WebServer.Run registers the routes and starts its goroutine.
Run == /\ pc = "run" /\ Goto("listen")
       /\ listener' = "wait"
       /\ UNCHANGED <<schema, database, cwd, exit, ticked, signal, done, expired, request>>

Closed == listener \in {"shutdown", "closed"}

ListenAndServe ==
    \/ Closed /\ \E from \in {"listen", "serve"} : Continue(from, "return") /\ UNCHANGED schema
    \/ ~Closed /\ Continue("listen", "serve") /\ UNCHANGED schema

\* The port is taken, or accepting connections fails.
ListenFails ==
    /\ pc \in {"listen", "serve"} /\ ~Closed
    /\ Goto("return") /\ done' = TRUE
    /\ UNCHANGED <<schema, database, cwd, exit, ticked, signal, listener, expired, request>>

Listen(to) == /\ pc # "stopped"
              /\ listener' = to
              /\ UNCHANGED <<schema, database, cwd, pc, exit, ticked, signal, done, expired, request>>

\* Mutant: the goroutine of Run waits for the end of the server alone.
AwaitDoneOnly == listener = "wait" /\ done /\ Listen("gone")

\* Mutant: the select has a default case.
AwaitDefault == /\ listener = "wait"
                /\ \/ done /\ Listen("gone")
                   \/ Listen("shutdown")

\* The select of that goroutine; Shutdown closes the listener at once.
Await == /\ listener = "wait"
         /\ \/ canceled /\ Listen("shutdown")
            \/ done /\ Listen("gone")

\* Shutdown returns when no request runs or its context has expired.
Shutdown == /\ listener = "shutdown"
            /\ expired \/ \A c \in Client : request[c] # "running"
            /\ Listen("closed")

Deadline == /\ listener = "shutdown" /\ pc # "stopped" /\ ~expired
            /\ expired' = TRUE
            /\ UNCHANGED <<schema, database, cwd, pc, exit, ticked, signal, listener, done, request>>

\* Run returns, Invoke returns, main returns.
Return == pc = "return" /\ Exit("ok")

Serve(c) ==
    /\ pc # "stopped"
    /\ \/ /\ pc = "serve" /\ ~Closed /\ request[c] = "none"
          /\ request' = [request EXCEPT ![c] = "running"]
       \/ /\ request[c] = "running"
          /\ request' = [request EXCEPT ![c] = "answered"]
    /\ UNCHANGED <<schema, database, cwd, pc, exit, ticked, signal, web>>

-----------------------------------------------------------------------------
Main == Ping \/ Poll \/ QueryFails \/ NewWithDatabaseInstance \/ Up \/ Apply \/ Finish
        \/ NewEthNode \/ InitShutdownHandler \/ Run \/ ListenAndServe \/ Return

Next == \/ Start \/ DatabaseUp \/ DatabaseDown \/ Crash \/ Signal
        \/ Main \/ Tick \/ ListenFails \/ HandleSignal \/ Await \/ Shutdown \/ Deadline
        \/ \E c \in Client : Serve(c)

Spec == Init /\ [][Next]_vars

\* Goroutines are scheduled, timers tick, and calls of the database return;
\* nothing is assumed of operators, of the database or of the handlers.
Fairness == WF_vars(Main) /\ WF_vars(Tick) /\ WF_vars(HandleSignal) /\ WF_vars(Await)

FairSpec == Spec /\ Fairness

-----------------------------------------------------------------------------
(* Properties.                                                             *)

\* "the advantage and guarantee that it runs with correct schema" (README):
\* past NewStore the schema is there whole, whatever crashed during earlier
\* migrations.
ServesMigrated == pc \in Serving => version = "done" /\ tables

\* The working directories from which the migrations can be found.
Findable ==
    {dir \in Directory : /\ OnTheWay(dir.below, StoreMigrationRelativePath)
                         /\ ~Shadowed(dir.root, dir.below, StoreMigrationRelativePath)}

\* The process never ends for want of migrations in one of them, and it serves
\* in no other, but for the accident.
PathFound == /\ exit = "no migrations" => cwd \notin Findable
             /\ pc \in Serving => cwd \in Findable \/ Echoed(cwd.root, cwd.below)

\* Main returns of its own accord only after a signal, or because the server
\* could not listen: no other end of the process looks like an orderly one.
EndsForReason == exit = "ok" => canceled \/ done

\* "The server should be stopped by ... Ctrl+C" (docs/ASSIGNMENT.md): a signal
\* that the process has received ends it, wherever it was.
StopsOnSignal == (pending = 1 /\ pc # "stopped") ~> (pc = "stopped")

\* A process that is started serves or ends, even if the database never comes:
\* it does not retry for ever.
StartsOrStops == pc = "connect" ~> pc \in {"serve", "stopped"}

\* "in case of Ctrl+C, shutdown server gracefully" (WebServer.Run): a request
\* that Shutdown waits for has its two seconds; main does not end before.
GracefulShutdown ==
    [][Return /\ listener = "shutdown" /\ ~done /\ ~expired =>
          \A c \in Client : request'[c] # "cut"]_vars

-----------------------------------------------------------------------------
(* The inductive invariant of ProcessProofs.                               *)

\* The version is marked dirty before the tables are made and done after.
MigratedInOrder ==
    /\ pc \in {"apply", "finish"} => version = "dirty"
    /\ pc = "finish" \/ version = "done" => tables
    /\ pc \in Serving => version = "done"

\* What removeOverlap makes of the working directory decides how main goes on.
LocatedByPath ==
    /\ exit = "no migrations" => cwd \notin Located
    /\ pc \in {"migrate", "apply", "finish"} \cup Serving => cwd \in Located

\* The way from the handled signal, or the failed listener, to the end of main.
StoppedForReason ==
    /\ Closed => canceled
    /\ pc = "return" => canceled \/ done
    /\ EndsForReason

IInv == TypeOK /\ MigratedInOrder /\ LocatedByPath /\ StoppedForReason
=============================================================================
