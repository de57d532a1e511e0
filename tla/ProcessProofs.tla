---------------------------- MODULE ProcessProofs ----------------------------
(***************************************************************************)
(* Proofs about Process for every set of working directories and clients.  *)
(***************************************************************************)
EXTENDS Process, MigrationPathProofs, TLAPS

\* The machine before the first start satisfies the invariant.
LEMMA InitIInv == Init => IInv
BY DEF Init, IInv, TypeOK, MigratedInOrder, LocatedByPath, StoppedForReason, EndsForReason,
       Closed, Starting, Serving

\* TypeOK in three parts: the server, its channels and its requests.
ServerTyped ==
    /\ version  \in {"none", "dirty", "done"}
    /\ tables   \in BOOLEAN
    /\ database \in BOOLEAN
    /\ cwd      \in Directory
    /\ pc       \in {"stopped"} \cup Starting \cup Serving
    /\ exit     \in {"none", "ok", "fatal", "no migrations", "killed"}

ChannelsTyped ==
    /\ ticked   \in BOOLEAN
    /\ notified \in BOOLEAN /\ pending \in {0, 1} /\ canceled \in BOOLEAN
    /\ listener \in {"none", "wait", "shutdown", "closed", "gone"}
    /\ done \in BOOLEAN /\ expired \in BOOLEAN

RequestTyped == request \in [Client -> {"none", "running", "answered", "cut"}]

\* A process that ends leaves the schema and the machine as they are.
LEMMA ServerExit ==
    ASSUME ServerTyped, NEW how \in {"ok", "fatal", "no migrations", "killed"}, Exit(how)
    PROVE  ServerTyped'
BY DEF ServerTyped, Exit, Goto, Starting, Serving, schema

\* Every step keeps the types of the schema, the machine and main.
LEMMA ServerStep == ServerTyped /\ [Next]_vars => ServerTyped'
<1> SUFFICES ASSUME ServerTyped, [Next]_vars PROVE ServerTyped'
  OBVIOUS
<1> USE DEF ServerTyped, Goto, Continue, Starting, Serving, schema
<1>1. CASE Start
  BY <1>1 DEF Start
<1>2. CASE DatabaseUp \/ DatabaseDown
  BY <1>2 DEF DatabaseUp, DatabaseDown
<1>3. CASE Crash
  BY <1>3, ServerExit DEF Crash
<1>4. CASE Signal
  BY <1>4, ServerExit DEF Signal
<1>5. CASE Main
  <2>1. CASE Ping
    BY <2>1 DEF Ping
  <2>2. CASE Poll
    BY <2>2, ServerExit DEF Poll
  <2>3. CASE QueryFails
    BY <2>3, ServerExit DEF QueryFails
  <2>4. CASE NewWithDatabaseInstance
    BY <2>4, ServerExit DEF NewWithDatabaseInstance
  <2>5. CASE Up
    BY <2>5, ServerExit DEF Up
  <2>6. CASE Apply \/ Finish
    BY <2>6 DEF Apply, Finish
  <2>7. CASE NewEthNode
    BY <2>7, ServerExit DEF NewEthNode
  <2>8. CASE InitShutdownHandler \/ Run
    BY <2>8 DEF InitShutdownHandler, Run
  <2>9. CASE ListenAndServe
    BY <2>9 DEF ListenAndServe
  <2>10. CASE Return
    BY <2>10, ServerExit DEF Return
  <2> QED
    BY <1>5, <2>1, <2>2, <2>3, <2>4, <2>5, <2>6, <2>7, <2>8, <2>9, <2>10 DEF Main
<1>6. CASE Tick
  BY <1>6 DEF Tick
<1>7. CASE ListenFails
  BY <1>7 DEF ListenFails
<1>8. CASE HandleSignal
  BY <1>8 DEF HandleSignal
<1>9. CASE Await \/ Shutdown \/ Deadline
  BY <1>9 DEF Await, Shutdown, Deadline, Listen
<1>10. ASSUME NEW c \in Client, Serve(c) PROVE ServerTyped'
  BY <1>10 DEF Serve
<1>11. CASE UNCHANGED vars
  BY <1>11 DEF vars
<1> QED
  BY <1>1, <1>2, <1>3, <1>4, <1>5, <1>6, <1>7, <1>8, <1>9, <1>10, <1>11 DEF Next

\* The end of the process touches no channel and no context.
LEMMA ChannelsExit ==
    ASSUME ChannelsTyped, NEW how, Exit(how)
    PROVE  ChannelsTyped'
BY DEF ChannelsTyped, Exit, Goto, signal, web

\* Every step keeps the types of the channels; at most one signal is pending.
LEMMA ChannelsStep == ChannelsTyped /\ [Next]_vars => ChannelsTyped'
<1> SUFFICES ASSUME ChannelsTyped, [Next]_vars PROVE ChannelsTyped'
  OBVIOUS
<1> USE DEF ChannelsTyped, Goto, Continue, signal, web
<1>1. CASE Start
  BY <1>1 DEF Start
<1>2. CASE DatabaseUp \/ DatabaseDown
  BY <1>2 DEF DatabaseUp, DatabaseDown
<1>3. CASE Crash
  BY <1>3, ChannelsExit DEF Crash
<1>4. CASE Signal
  BY <1>4, ChannelsExit DEF Signal
<1>5. CASE Main
  <2>1. CASE Ping
    BY <2>1 DEF Ping
  <2>2. CASE Poll
    BY <2>2, ChannelsExit DEF Poll
  <2>3. CASE QueryFails
    BY <2>3, ChannelsExit DEF QueryFails
  <2>4. CASE NewWithDatabaseInstance
    BY <2>4, ChannelsExit DEF NewWithDatabaseInstance
  <2>5. CASE Up
    BY <2>5, ChannelsExit DEF Up
  <2>6. CASE Apply \/ Finish
    BY <2>6 DEF Apply, Finish
  <2>7. CASE NewEthNode
    BY <2>7, ChannelsExit DEF NewEthNode
  <2>8. CASE InitShutdownHandler \/ Run
    BY <2>8 DEF InitShutdownHandler, Run
  <2>9. CASE ListenAndServe
    BY <2>9 DEF ListenAndServe
  <2>10. CASE Return
    BY <2>10, ChannelsExit DEF Return
  <2> QED
    BY <1>5, <2>1, <2>2, <2>3, <2>4, <2>5, <2>6, <2>7, <2>8, <2>9, <2>10 DEF Main
<1>6. CASE Tick
  BY <1>6 DEF Tick
<1>7. CASE ListenFails
  BY <1>7 DEF ListenFails
<1>8. CASE HandleSignal
  BY <1>8 DEF HandleSignal
<1>9. CASE Await \/ Shutdown \/ Deadline
  BY <1>9 DEF Await, Shutdown, Deadline, Listen
<1>10. ASSUME NEW c \in Client, Serve(c) PROVE ChannelsTyped'
  BY <1>10 DEF Serve
<1>11. CASE UNCHANGED vars
  BY <1>11 DEF vars
<1> QED
  BY <1>1, <1>2, <1>3, <1>4, <1>5, <1>6, <1>7, <1>8, <1>9, <1>10, <1>11 DEF Next

\* The end of the process only cuts requests.
LEMMA RequestExit ==
    ASSUME RequestTyped, NEW how, Exit(how)
    PROVE  RequestTyped'
BY DEF RequestTyped, Exit, Goto

\* Every step keeps the types of the requests.
LEMMA RequestStep == RequestTyped /\ [Next]_vars => RequestTyped'
<1> SUFFICES ASSUME RequestTyped, [Next]_vars PROVE RequestTyped'
  OBVIOUS
<1> USE DEF RequestTyped, Goto, Continue
<1>1. CASE Start
  BY <1>1 DEF Start
<1>2. CASE DatabaseUp \/ DatabaseDown
  BY <1>2 DEF DatabaseUp, DatabaseDown
<1>3. CASE Crash
  BY <1>3, RequestExit DEF Crash
<1>4. CASE Signal
  BY <1>4, RequestExit DEF Signal
<1>5. CASE Main
  <2>1. CASE Ping
    BY <2>1 DEF Ping
  <2>2. CASE Poll
    BY <2>2, RequestExit DEF Poll
  <2>3. CASE QueryFails
    BY <2>3, RequestExit DEF QueryFails
  <2>4. CASE NewWithDatabaseInstance
    BY <2>4, RequestExit DEF NewWithDatabaseInstance
  <2>5. CASE Up
    BY <2>5, RequestExit DEF Up
  <2>6. CASE Apply \/ Finish
    BY <2>6 DEF Apply, Finish
  <2>7. CASE NewEthNode
    BY <2>7, RequestExit DEF NewEthNode
  <2>8. CASE InitShutdownHandler \/ Run
    BY <2>8 DEF InitShutdownHandler, Run
  <2>9. CASE ListenAndServe
    BY <2>9 DEF ListenAndServe
  <2>10. CASE Return
    BY <2>10, RequestExit DEF Return
  <2> QED
    BY <1>5, <2>1, <2>2, <2>3, <2>4, <2>5, <2>6, <2>7, <2>8, <2>9, <2>10 DEF Main
<1>6. CASE Tick
  BY <1>6 DEF Tick
<1>7. CASE ListenFails
  BY <1>7 DEF ListenFails
<1>8. CASE HandleSignal
  BY <1>8 DEF HandleSignal
<1>9. CASE Await \/ Shutdown \/ Deadline
  BY <1>9 DEF Await, Shutdown, Deadline, Listen
<1>10. ASSUME NEW c \in Client, Serve(c) PROVE RequestTyped'
  BY <1>10 DEF Serve
<1>11. CASE UNCHANGED vars
  BY <1>11 DEF vars
<1> QED
  BY <1>1, <1>2, <1>3, <1>4, <1>5, <1>6, <1>7, <1>8, <1>9, <1>10, <1>11 DEF Next

\* The end of the process leaves the schema at whatever point it is.
LEMMA ExitInOrder ==
    ASSUME MigratedInOrder, NEW how, Exit(how)
    PROVE  MigratedInOrder'
BY DEF MigratedInOrder, Exit, Goto, Serving, schema

\* The version is marked dirty before the tables are made and done after, and
\* only a schema that is done leads past NewStore.
LEMMA MigratedStep == MigratedInOrder /\ [Next]_vars => MigratedInOrder'
<1> SUFFICES ASSUME MigratedInOrder, [Next]_vars PROVE MigratedInOrder'
  OBVIOUS
<1> USE DEF MigratedInOrder, Goto, Continue, Serving, schema
<1>1. CASE Start
  BY <1>1 DEF Start
<1>2. CASE DatabaseUp \/ DatabaseDown
  BY <1>2 DEF DatabaseUp, DatabaseDown
<1>3. CASE Crash
  BY <1>3, ExitInOrder DEF Crash
<1>4. CASE Signal
  BY <1>4, ExitInOrder DEF Signal
<1>5. CASE Main
  <2>1. CASE Ping
    BY <2>1 DEF Ping
  <2>2. CASE Poll
    BY <2>2, ExitInOrder DEF Poll
  <2>3. CASE QueryFails
    BY <2>3, ExitInOrder DEF QueryFails
  <2>4. CASE NewWithDatabaseInstance
    <3>1. (\E how : Exit(how)) \/ (Continue("locate", "migrate") /\ UNCHANGED schema)
      BY <2>4 DEF NewWithDatabaseInstance
    <3>2. CASE Continue("locate", "migrate") /\ UNCHANGED schema
      BY <3>2
    <3> QED
      BY <3>1, <3>2, ExitInOrder
  <2>5. CASE Up
    <3>1. CASE Exit("fatal")
      BY <3>1, ExitInOrder
    <3>2. CASE version = "done" /\ Continue("migrate", "dial") /\ UNCHANGED schema
      BY <3>2
    <3>3. CASE version = "none" /\ Continue("migrate", "apply") /\ version' = "dirty" /\ UNCHANGED tables
      BY <3>3
    <3> QED
      BY <2>5, <3>1, <3>2, <3>3 DEF Up
  <2>6. CASE Apply \/ Finish
    BY <2>6 DEF Apply, Finish
  <2>7. CASE NewEthNode
    BY <2>7, ExitInOrder DEF NewEthNode
  <2>8. CASE InitShutdownHandler \/ Run
    BY <2>8 DEF InitShutdownHandler, Run
  <2>9. CASE ListenAndServe
    BY <2>9 DEF ListenAndServe
  <2>10. CASE Return
    BY <2>10, ExitInOrder DEF Return
  <2> QED
    BY <1>5, <2>1, <2>2, <2>3, <2>4, <2>5, <2>6, <2>7, <2>8, <2>9, <2>10 DEF Main
<1>6. CASE Tick
  BY <1>6 DEF Tick
<1>7. CASE ListenFails
  BY <1>7 DEF ListenFails
<1>8. CASE HandleSignal
  BY <1>8 DEF HandleSignal
<1>9. CASE Await \/ Shutdown \/ Deadline
  BY <1>9 DEF Await, Shutdown, Deadline, Listen
<1>10. ASSUME NEW c \in Client, Serve(c) PROVE MigratedInOrder'
  BY <1>10 DEF Serve
<1>11. CASE UNCHANGED vars
  BY <1>11 DEF vars
<1> QED
  BY <1>1, <1>2, <1>3, <1>4, <1>5, <1>6, <1>7, <1>8, <1>9, <1>10, <1>11 DEF Next

\* The end of the process leaves it in its directory.
LEMMA ExitLocated ==
    ASSUME LocatedByPath, NEW how, Exit(how), how # "no migrations" \/ cwd \notin Located
    PROVE  LocatedByPath'
BY DEF LocatedByPath, Exit, Goto, Serving

\* Only the search for the migrations ends the process for want of them, and
\* only the search leads past it; the process does not change its directory.
LEMMA LocatedStep == LocatedByPath /\ [Next]_vars => LocatedByPath'
<1> SUFFICES ASSUME LocatedByPath, [Next]_vars PROVE LocatedByPath'
  OBVIOUS
<1> USE DEF LocatedByPath, Goto, Continue, Serving
<1>1. CASE Start
  BY <1>1 DEF Start
<1>2. CASE DatabaseUp \/ DatabaseDown
  BY <1>2 DEF DatabaseUp, DatabaseDown
<1>3. CASE Crash
  BY <1>3, ExitLocated DEF Crash
<1>4. CASE Signal
  BY <1>4, ExitLocated DEF Signal
<1>5. CASE Main
  <2>1. CASE Ping
    BY <2>1 DEF Ping
  <2>2. CASE Poll
    BY <2>2, ExitLocated DEF Poll
  <2>3. CASE QueryFails
    BY <2>3, ExitLocated DEF QueryFails
  <2>4. CASE NewWithDatabaseInstance
    <3>1. CASE cwd \notin Located /\ Exit("no migrations")
      BY <3>1, ExitLocated
    <3>2. CASE cwd \in Located /\ Continue("locate", "migrate")
      BY <3>2
    <3> QED
      BY <2>4, <3>1, <3>2 DEF NewWithDatabaseInstance
  <2>5. CASE Up
    BY <2>5, ExitLocated DEF Up
  <2>6. CASE Apply \/ Finish
    BY <2>6 DEF Apply, Finish
  <2>7. CASE NewEthNode
    BY <2>7, ExitLocated DEF NewEthNode
  <2>8. CASE InitShutdownHandler \/ Run
    BY <2>8 DEF InitShutdownHandler, Run
  <2>9. CASE ListenAndServe
    BY <2>9 DEF ListenAndServe
  <2>10. CASE Return
    BY <2>10, ExitLocated DEF Return
  <2> QED
    BY <1>5, <2>1, <2>2, <2>3, <2>4, <2>5, <2>6, <2>7, <2>8, <2>9, <2>10 DEF Main
<1>6. CASE Tick
  BY <1>6 DEF Tick
<1>7. CASE ListenFails
  BY <1>7 DEF ListenFails
<1>8. CASE HandleSignal
  BY <1>8 DEF HandleSignal
<1>9. CASE Await \/ Shutdown \/ Deadline
  BY <1>9 DEF Await, Shutdown, Deadline, Listen
<1>10. ASSUME NEW c \in Client, Serve(c) PROVE LocatedByPath'
  BY <1>10 DEF Serve
<1>11. CASE UNCHANGED vars
  BY <1>11 DEF vars
<1> QED
  BY <1>1, <1>2, <1>3, <1>4, <1>5, <1>6, <1>7, <1>8, <1>9, <1>10, <1>11 DEF Next

\* The end of the process leaves its signals and its listener as they are.
LEMMA ExitForReason ==
    ASSUME StoppedForReason, NEW how, Exit(how), how # "ok" \/ canceled \/ done
    PROVE  StoppedForReason'
BY DEF StoppedForReason, EndsForReason, Closed, Exit, Goto, signal, web

\* The listener is closed after a signal only, and main returns only once it is
\* closed or has failed.
LEMMA StoppedStep == StoppedForReason /\ [Next]_vars => StoppedForReason'
<1> SUFFICES ASSUME StoppedForReason, [Next]_vars PROVE StoppedForReason'
  OBVIOUS
<1> USE DEF StoppedForReason, EndsForReason, Closed, Goto, Continue, signal, web
<1>1. CASE Start
  BY <1>1 DEF Start
<1>2. CASE DatabaseUp \/ DatabaseDown
  BY <1>2 DEF DatabaseUp, DatabaseDown
<1>3. CASE Crash
  BY <1>3, ExitForReason DEF Crash
<1>4. CASE Signal
  BY <1>4, ExitForReason DEF Signal
<1>5. CASE Main
  <2>1. CASE Ping
    BY <2>1 DEF Ping
  <2>2. CASE Poll
    BY <2>2, ExitForReason DEF Poll
  <2>3. CASE QueryFails
    <3>1. Exit("fatal")
      BY <2>3 DEF QueryFails
    <3> QED
      BY <3>1, ExitForReason
  <2>4. CASE NewWithDatabaseInstance
    <3>1. CASE Exit("no migrations")
      BY <3>1, ExitForReason
    <3>2. CASE Continue("locate", "migrate")
      BY <3>2
    <3> QED
      BY <2>4, <3>1, <3>2 DEF NewWithDatabaseInstance
  <2>5. CASE Up
    <3>1. CASE Exit("fatal")
      BY <3>1, ExitForReason
    <3>2. CASE Continue("migrate", "dial") \/ Continue("migrate", "apply")
      BY <3>2
    <3> QED
      BY <2>5, <3>1, <3>2 DEF Up
  <2>6. CASE Apply \/ Finish
    BY <2>6 DEF Apply, Finish
  <2>7. CASE NewEthNode
    BY <2>7, ExitForReason DEF NewEthNode
  <2>8. CASE InitShutdownHandler \/ Run
    BY <2>8 DEF InitShutdownHandler, Run
  <2>9. CASE ListenAndServe
    BY <2>9 DEF ListenAndServe
  <2>10. CASE Return
    BY <2>10, ExitForReason DEF Return
  <2> QED
    BY <1>5, <2>1, <2>2, <2>3, <2>4, <2>5, <2>6, <2>7, <2>8, <2>9, <2>10 DEF Main
<1>6. CASE Tick
  BY <1>6 DEF Tick
<1>7. CASE ListenFails
  BY <1>7 DEF ListenFails
<1>8. CASE HandleSignal
  BY <1>8 DEF HandleSignal
<1>9. CASE Await \/ Shutdown \/ Deadline
  BY <1>9 DEF Await, Shutdown, Deadline, Listen
<1>10. ASSUME NEW c \in Client, Serve(c) PROVE StoppedForReason'
  BY <1>10 DEF Serve
<1>11. CASE UNCHANGED vars
  BY <1>11 DEF vars
<1> QED
  BY <1>1, <1>2, <1>3, <1>4, <1>5, <1>6, <1>7, <1>8, <1>9, <1>10, <1>11 DEF Next

\* The parts make TypeOK.
LEMMA TypeParts == TypeOK <=> ServerTyped /\ ChannelsTyped /\ RequestTyped
BY DEF TypeOK, ServerTyped, ChannelsTyped, RequestTyped

\* Every step of the process and of its surroundings keeps the invariant.
LEMMA StepIInv == IInv /\ [Next]_vars => IInv'
<1> SUFFICES ASSUME IInv, [Next]_vars PROVE IInv'
  OBVIOUS
<1>1. ServerTyped' /\ ChannelsTyped' /\ RequestTyped'
  BY TypeParts, ServerStep, ChannelsStep, RequestStep DEF IInv
<1>2. TypeOK'
  BY <1>1 DEF TypeOK, ServerTyped, ChannelsTyped, RequestTyped
<1> QED
  BY <1>2, MigratedStep, LocatedStep, StoppedStep DEF IInv

\* The invariant holds in every reachable state.
THEOREM Invariance == Spec => []IInv
<1> QED
  BY InitIInv, StepIInv, PTL DEF Spec

\* Every variable keeps its type; the channel of the handler holds one signal.
THEOREM TypeCorrect == Spec => []TypeOK
<1>1. IInv => TypeOK
  BY DEF IInv
<1> QED
  BY <1>1, Invariance, PTL

\* Whatever crashes, restarts, signals and failures of the database come
\* before, a process that is past NewStore has the whole schema.
THEOREM SchemaIsMigrated == Spec => []ServesMigrated
<1>1. IInv => ServesMigrated
  BY DEF IInv, MigratedInOrder, ServesMigrated
<1> QED
  BY <1>1, Invariance, PTL

\* A working directory leads to the migrations if it is findable, and only then
\* but for the accident.
LEMMA LocatedExactly ==
    ASSUME NEW dir \in Directory
    PROVE  /\ dir \in Findable => dir \in Located
           /\ dir \in Located => dir \in Findable \/ Echoed(dir.root, dir.below)
<1> DEFINE Clear == STRING \ {Slash, "."}
           rel   == StoreMigrationRelativePath
           S     == Clear \cup {Slash, ".", "internal", "store", "pg", "migrations"}
<1>1. dir.root \in Seq(Clear) /\ dir.below \in Seq(Clear)
  BY DirectoryAssumption
<1>2. NoDots(dir.root, dir.below)
  BY <1>1 DEF NoDots
<1>3. rel \in Seq(S) /\ Len(rel) = 4 /\ rel # <<>>
  BY DEF StoreMigrationRelativePath
<1>4. \A i \in 1 .. Len(rel) : rel[i] # Slash /\ rel[i] # "."
  <2>1. \A i \in 1 .. 4 : rel[i] \in {"internal", "store", "pg", "migrations"}
    BY DEF StoreMigrationRelativePath
  <2>2. Slash \notin {"internal", "store", "pg", "migrations"}
    BY DEF Slash
  <2> QED
    BY <1>3, <2>1, <2>2
<1>5. Clean(S, dir.root, dir.below, rel)
  <2>1. dir.root \in Seq(S) /\ dir.below \in Seq(S)
    BY <1>1, SeqSubset, Clear \subseteq S
  <2> QED
    BY <1>3, <1>4, <2>1 DEF Clean
<1>6. Path(dir) = Absolute(dir.root, dir.below) /\ Migrations(dir) = Absolute(dir.root, rel)
  BY DEF Path, Migrations, Absolute
<1> QED
  BY <1>2, <1>3, <1>5, <1>6, UnshadowedFound, FoundOnTheWay DEF Located, Findable

\* In whatever directory the server is started, it does not end for want of
\* migrations that can be found, and serves where they can.
THEOREM PathIsFound == Spec => []PathFound
<1>1. IInv => PathFound
  <2> SUFFICES ASSUME IInv PROVE PathFound
    OBVIOUS
  <2>1. cwd \in Directory
    BY DEF IInv, TypeOK
  <2>2. exit = "no migrations" => cwd \notin Located
    BY DEF IInv, LocatedByPath
  <2>3. pc \in Serving => cwd \in Located
    BY DEF IInv, LocatedByPath
  <2> QED
    BY <2>1, <2>2, <2>3, LocatedExactly DEF PathFound
<1> QED
  BY <1>1, Invariance, PTL

\* Main returns of its own accord only after a signal that the handler read, or
\* because the server could not listen, however the two race.
THEOREM EndHasReason == Spec => []EndsForReason
<1>1. IInv => EndsForReason
  BY DEF IInv, StoppedForReason
<1> QED
  BY <1>1, Invariance, PTL
=============================================================================
