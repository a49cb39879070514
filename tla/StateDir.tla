------------------------------ MODULE StateDir ------------------------------
(***************************************************************************)
(* One state directory and the processes that open it: the advisory lock   *)
(* on paceq.lock (statelock.go), the order in which OpenState and Close    *)
(* take and give things back (openstate.go, open.go), and the session rows *)
(* and boot evidence of whoever starts a session (session.go).  The kernel *)
(* releases the lock of a process that dies; the rows stay as they are.    *)
(***************************************************************************)
EXTENDS Naturals, Sequences

CONSTANTS
    Proc,           \* processes that may open the directory
    Inode,          \* files that may bear the name of the lock file
    CreateMode,     \* modes the umask may give a new database file
    MaxSession,     \* sessions recorded (bound)
    MaxTime,        \* readings of the clock (bound)
    MaxBoot,        \* how often the machine restarts (bound)
    NULL

ASSUME StateDirAssumption ==
    /\ NULL \notin Proc /\ NULL \notin Inode /\ NULL \notin Nat
    /\ NULL \notin {"clean", "crash"}
    /\ CreateMode \subseteq {"private", "wide"}
    /\ MaxSession \in Nat /\ MaxTime \in Nat /\ MaxBoot \in Nat

VARIABLES
    file,       \* the inode named paceq.lock, NULL before the first start
    flock,      \* who holds the exclusive flock on each inode
    db,         \* mode of state.db, or "absent"
    sessions,   \* rows of daemon_sessions, in the order they were inserted
    metaBoot,   \* meta.current_boot_id, NULL before it is first recorded
    boot,       \* the boot the machine is on
    now,        \* the clock of the host
    pc,         \* where each process is between OpenState and Close
    fd,         \* the inode its lock file descriptor refers to
    fresh,      \* whether it found no database before opening it
    mine,       \* the session it has started, an index of sessions
    named       \* the session row a refusal named as the owner

disk == <<file, db, sessions, metaBoot>>
host == <<boot, now>>
proc == <<pc, fd, fresh, mine, named>>
vars == <<disk, flock, host, proc>>

Connected == {"opened", "open", "closing"}
Holding   == Connected \union {"locked", "closed"}
Places    == Holding \union {"off", "lockfile", "busy", "refused"}

Boot == 0..MaxBoot
Time == 0..MaxTime
Session == [boot : Boot \union {NULL}, started : Time, seen : Time,
            stopped : Time \union {NULL}, reason : {NULL, "clean", "crash"},
            told : BOOLEAN]     \* told: what BootChanged answers in it

Init ==
    /\ file = NULL
    /\ flock = [i \in Inode |-> NULL]
    /\ db = "absent"
    /\ sessions = << >>
    /\ metaBoot = NULL
    /\ boot = 0 /\ now = 0
    /\ pc = [p \in Proc |-> "off"]
    /\ fd = [p \in Proc |-> NULL]
    /\ fresh = [p \in Proc |-> FALSE]
    /\ mine = [p \in Proc |-> NULL]
    /\ named = [p \in Proc |-> NULL]

Goto(p, l) == pc' = [pc EXCEPT ![p] = l]

\* What the kernel does when a descriptor goes: its flock goes with it.
Unlocked(S) == [i \in Inode |-> IF flock[i] \in S THEN NULL ELSE flock[i]]

-----------------------------------------------------------------------------
(* AcquireStateLock. *)

\* The file is created when it is missing, and opened under the name it has now.
OpenLockFile(p) ==
    /\ pc[p] = "off"
    /\ \E i \in Inode :
          /\ i = file \/ (file = NULL /\ \A q \in Proc : fd[q] # i)
          /\ file' = i
          /\ fd' = [fd EXCEPT ![p] = i]
    /\ Goto(p, "lockfile")
    /\ UNCHANGED <<flock, db, sessions, metaBoot, host, fresh, mine, named>>

LockExclusive(p) ==
    /\ pc[p] = "lockfile"
    /\ flock[fd[p]] = NULL
    /\ flock' = [flock EXCEPT ![fd[p]] = p]
    /\ Goto(p, "locked")
    /\ UNCHANGED <<disk, host, fd, fresh, mine, named>>

\* The lock is held: the descriptor is closed, and nothing is waited for.
LockRefused(p) ==
    /\ pc[p] = "lockfile"
    /\ flock[fd[p]] # NULL
    /\ fd' = [fd EXCEPT ![p] = NULL]
    /\ Goto(p, "busy")
    /\ UNCHANGED <<disk, flock, host, fresh, mine, named>>

\* The open rows, the newest of which OpenSession returns.
OpenRows == {i \in DOMAIN sessions : sessions[i].stopped = NULL}
IsOpenSession(i) ==
    /\ i \in OpenRows
    /\ \A j \in OpenRows : sessions[j].started <= sessions[i].started

\* lockOwner reads the row later, when the holder may have gone.
NameOwner(p) ==
    /\ pc[p] = "busy"
    /\ \/ \E i \in OpenRows : IsOpenSession(i) /\ named' = [named EXCEPT ![p] = i]
       \/ OpenRows = {} /\ UNCHANGED named
    /\ Goto(p, "refused")
    /\ UNCHANGED <<disk, flock, host, fd, fresh, mine>>

-----------------------------------------------------------------------------
(* OpenState and Close. *)

OpenDatabase(p) ==
    /\ pc[p] = "locked"
    /\ fresh' = [fresh EXCEPT ![p] = (db = "absent")]
    /\ IF db = "absent" THEN db' \in CreateMode ELSE UNCHANGED db
    /\ Goto(p, "opened")
    /\ UNCHANGED <<file, flock, sessions, metaBoot, host, fd, mine, named>>

\* Open fails, at a file system, a pragma or a connection: Open closes what it
\* opened, and the lock is given back.  The file may have been created.
OpenFails(p) ==
    /\ pc[p] = "locked"
    /\ IF db = "absent" THEN db' \in CreateMode \union {db} ELSE UNCHANGED db
    /\ flock' = Unlocked({p})
    /\ fd' = [fd EXCEPT ![p] = NULL]
    /\ Goto(p, "off")
    /\ UNCHANGED <<file, sessions, metaBoot, host, fresh, mine, named>>

\* Mutant: an existing file is taken as it is.
PrivateDatabaseUnchecked(p) ==
    /\ pc[p] = "opened"
    /\ db' = IF fresh[p] THEN "private" ELSE db
    /\ Goto(p, "open")
    /\ UNCHANGED <<file, flock, sessions, metaBoot, host, fd, fresh, mine, named>>

\* privateDatabase: a file this process created is narrowed, any other one that
\* is too wide is refused and closed again.
PrivateDatabase(p) ==
    /\ pc[p] = "opened"
    /\ db' = IF fresh[p] THEN "private" ELSE db
    /\ Goto(p, IF db' = "private" THEN "open" ELSE "closing")
    /\ UNCHANGED <<file, flock, sessions, metaBoot, host, fd, fresh, mine, named>>

\* The store is handed back; a session nobody stopped keeps its open row.
Close(p) ==
    /\ pc[p] = "open"
    /\ Goto(p, "closing")
    /\ mine' = [mine EXCEPT ![p] = NULL]
    /\ UNCHANGED <<disk, flock, host, fd, fresh, named>>

\* The reader pool, the writer pool, and the lock last.
CloseConnections(p) ==
    /\ pc[p] = "closing"
    /\ Goto(p, "closed")
    /\ UNCHANGED <<disk, flock, host, fd, fresh, mine, named>>

\* Mutant: a tidy release that removes the file.
ReleaseAndUnlink(p) ==
    /\ pc[p] = "closed"
    /\ flock' = Unlocked({p})
    /\ fd' = [fd EXCEPT ![p] = NULL]
    /\ fresh' = [fresh EXCEPT ![p] = FALSE]
    /\ file' = NULL
    /\ Goto(p, "off")
    /\ UNCHANGED <<db, sessions, metaBoot, host, mine, named>>
Release(p) ==
    /\ pc[p] = "closed"
    /\ flock' = Unlocked({p})
    /\ fd' = [fd EXCEPT ![p] = NULL]
    /\ fresh' = [fresh EXCEPT ![p] = FALSE]
    /\ Goto(p, "off")
    /\ UNCHANGED <<disk, host, mine, named>>

-----------------------------------------------------------------------------
(* Sessions.  The boot id may be unreadable, and then nothing is known. *)

CrashRow(s) == [s EXCEPT !.stopped = now, !.reason = "crash"]
NewRow(b) ==
    [boot |-> b, started |-> now, seen |-> now, stopped |-> NULL,
     reason |-> NULL, told |-> b # NULL /\ metaBoot # NULL /\ b # metaBoot]

\* Mutants: every row is closed again, and an unknown boot id is recorded like a
\* known one.
StartSessionClosesAll(p) ==
    /\ pc[p] = "open" /\ mine[p] = NULL /\ Len(sessions) < MaxSession
    /\ \E b \in {boot, NULL} :
          /\ sessions' = Append([i \in DOMAIN sessions |-> CrashRow(sessions[i])],
                                NewRow(b))
          /\ metaBoot' = IF b = NULL THEN metaBoot ELSE b
    /\ mine' = [mine EXCEPT ![p] = Len(sessions) + 1]
    /\ UNCHANGED <<file, db, flock, host, pc, fd, fresh, named>>
StartSessionRecordsUnknown(p) ==
    /\ pc[p] = "open" /\ mine[p] = NULL /\ Len(sessions) < MaxSession
    /\ \E b \in {boot, NULL} :
          /\ sessions' = Append([i \in DOMAIN sessions |->
                                    IF i \in OpenRows THEN CrashRow(sessions[i])
                                    ELSE sessions[i]], NewRow(b))
          /\ metaBoot' = b
    /\ mine' = [mine EXCEPT ![p] = Len(sessions) + 1]
    /\ UNCHANGED <<file, db, flock, host, pc, fd, fresh, named>>

StartSession(p) ==
    /\ pc[p] = "open" /\ mine[p] = NULL /\ Len(sessions) < MaxSession
    /\ \E b \in {boot, NULL} :
          /\ sessions' = Append([i \in DOMAIN sessions |->
                                    IF i \in OpenRows THEN CrashRow(sessions[i])
                                    ELSE sessions[i]], NewRow(b))
          /\ metaBoot' = IF b = NULL THEN metaBoot ELSE b
    /\ mine' = [mine EXCEPT ![p] = Len(sessions) + 1]
    /\ UNCHANGED <<file, db, flock, host, pc, fd, fresh, named>>

TouchSession(p) ==
    /\ pc[p] = "open" /\ mine[p] # NULL
    /\ mine[p] \in OpenRows
    /\ sessions' = [sessions EXCEPT ![mine[p]].seen = now]
    /\ UNCHANGED <<file, db, metaBoot, flock, host, proc>>

StopSession(p) ==
    /\ pc[p] = "open" /\ mine[p] # NULL
    /\ mine[p] \in OpenRows
    /\ sessions' = [sessions EXCEPT ![mine[p]].stopped = now,
                                    ![mine[p]].seen = now,
                                    ![mine[p]].reason = "clean"]
    /\ mine' = [mine EXCEPT ![p] = NULL]
    /\ UNCHANGED <<file, db, metaBoot, flock, host, pc, fd, fresh, named>>

-----------------------------------------------------------------------------
(* Deaths, restarts and time. *)

Gone(S) ==
    /\ pc' = [p \in Proc |-> IF p \in S THEN "off" ELSE pc[p]]
    /\ fd' = [p \in Proc |-> IF p \in S THEN NULL ELSE fd[p]]
    /\ fresh' = [p \in Proc |-> IF p \in S THEN FALSE ELSE fresh[p]]
    /\ mine' = [p \in Proc |-> IF p \in S THEN NULL ELSE mine[p]]
    /\ named' = [p \in Proc |-> IF p \in S THEN NULL ELSE named[p]]
    /\ flock' = Unlocked(S)

\* A refused process reports and exits; any other one may be killed.
Exit(p) == pc[p] # "off" /\ Gone({p}) /\ UNCHANGED <<disk, host>>

Reboot ==
    /\ boot < MaxBoot
    /\ boot' = boot + 1
    /\ Gone(Proc)
    /\ UNCHANGED <<disk, now>>

Tick ==
    /\ now < MaxTime
    /\ now' = now + 1
    /\ UNCHANGED <<disk, flock, boot, proc>>

Next ==
    \/ \E p \in Proc :
          \/ OpenLockFile(p) \/ LockExclusive(p) \/ LockRefused(p)
          \/ NameOwner(p) \/ OpenDatabase(p) \/ OpenFails(p)
          \/ PrivateDatabase(p) \/ StartSession(p) \/ TouchSession(p)
          \/ StopSession(p) \/ Close(p) \/ CloseConnections(p) \/ Release(p)
          \/ Exit(p)
    \/ Reboot
    \/ Tick

Spec == Init /\ [][Next]_vars

-----------------------------------------------------------------------------
(* Properties. *)

SDTypeOK ==
    /\ file \in Inode \union {NULL}
    /\ flock \in [Inode -> Proc \union {NULL}]
    /\ db \in {"absent", "private", "wide"}
    /\ sessions \in Seq(Session)
    /\ metaBoot \in Boot \union {NULL}
    /\ boot \in Boot /\ now \in Time
    /\ pc \in [Proc -> Places]
    /\ fd \in [Proc -> Inode \union {NULL}]
    /\ \A p \in Proc : (fd[p] # NULL) = (pc[p] \in Holding \union {"lockfile"})
    /\ fresh \in [Proc -> BOOLEAN]
    /\ mine \in [Proc -> Nat \union {NULL}]
    /\ named \in [Proc -> Nat \union {NULL}]

\* No two processes have connections to the database, whoever is killed or
\* refused in between, and although the file the lock is on was opened before
\* the lock was asked for (statelock.go).
OneWriter ==
    \A p \in Proc : \A q \in Proc :
        pc[p] \in Connected /\ pc[q] \in Connected => p = q

\* Every flock belongs to a process that is on its way from OpenState to Close:
\* neither a failed open nor a refusal leaves the directory claimed.
EveryLockIsInUse ==
    \A i \in Inode : flock[i] # NULL =>
        pc[flock[i]] \in Holding /\ fd[flock[i]] = i

\* The session of a living process is open, so that neither its heartbeat nor
\* its stop is refused, and nobody has declared it crashed.
LiveSessionIsOpen ==
    \A p \in Proc : mine[p] # NULL => /\ mine[p] \in OpenRows
                                      /\ sessions[mine[p]].reason = NULL

\* The table reads as a history of one process after the other: only the last
\* session may be open, heartbeats lie inside their session, and a session that
\* was found crashed reaches up to the start that found it.
SessionsInOrder ==
    \A i \in DOMAIN sessions : LET s == sessions[i] IN
        /\ s.stopped = NULL => i = Len(sessions) /\ s.started <= s.seen
        /\ s.stopped # NULL => s.started <= s.seen /\ s.seen <= s.stopped
        /\ i < Len(sessions) =>
              /\ s.stopped <= sessions[i + 1].started
              /\ s.reason = "crash" => s.stopped = sessions[i + 1].started
        /\ (s.stopped = NULL) = (s.reason = NULL)

\* BootChanged is told to a session exactly if the last session whose boot is
\* known ran on another boot, although only one value is kept; sessions that
\* could not read theirs in between neither use nor lose the evidence.
BootEvidence ==
    \A i \in DOMAIN sessions : sessions[i].told =
        \E j \in 1..(i - 1) :
            /\ sessions[i].boot # NULL /\ sessions[j].boot # NULL
            /\ sessions[i].boot # sessions[j].boot
            /\ \A k \in (j + 1)..(i - 1) : sessions[k].boot = NULL

\* Nothing is recorded in a database that other users can read, also when the
\* start that created it died before it could narrow the mode.
PrivateBeforeData == sessions # << >> => db = "private"

\* A refused start that names an owner while some process has a session names
\* that very session and never the row of an earlier crash (LockedError.Owner).
OwnerIsTheLiveSession ==
    [][\A p \in Proc : \A q \in Proc :
          named'[p] # named[p] /\ named'[p] # NULL /\ mine[q] # NULL
              => named'[p] = mine[q]]_vars

\* A session that has ended is never touched, closed or renamed again.
EndedSessionsStay ==
    [][\A i \in DOMAIN sessions : sessions[i].stopped # NULL =>
            /\ i \in DOMAIN sessions'
            /\ sessions'[i] = sessions[i]]_vars

\* One process at a time can write, and only while it is on its way from
\* OpenState to Close: neither a crash nor a refusal nor a failed open leaves
\* two holders or a directory claimed by nobody.
OneWriterPerLock == SDTypeOK /\ OneWriter /\ EveryLockIsInUse

\* The session rows say which daemon lives, which one crashed and when the
\* machine restarted, whatever happened between two starts.
SessionsTellTheTruth == LiveSessionIsOpen /\ SessionsInOrder /\ BootEvidence

\* No step names the wrong process as the holder of the lock, and none rewrites
\* what a session that ended has left.
HistoryOfSessions == OwnerIsTheLiveSession /\ EndedSessionsStay
=============================================================================
