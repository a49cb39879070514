--------------------------- MODULE StateDir_proofs ---------------------------
(***************************************************************************)
(* Proofs about StateDir, for any number of processes, sessions and boots. *)
(***************************************************************************)
EXTENDS StateDir, SequenceTheorems, TLAPS

-----------------------------------------------------------------------------
(* The inductive invariant.                                                *)

\* The file bears its name for good, so that every descriptor refers to it, and
\* whoever is past the lock has it.
LockInv ==
    /\ EveryLockIsInUse
    /\ \A p \in Proc : fd[p] # NULL => fd[p] = file
    /\ \A p \in Proc : pc[p] \in Holding => flock[fd[p]] = p

\* A store is handed out over a private database, and it stays private.
ModeInv ==
    /\ PrivateBeforeData
    /\ \A p \in Proc : pc[p] = "open" => db = "private"

\* The clock is past everything the rows say.
PastRows ==
    \A i \in DOMAIN sessions :
        /\ sessions[i].started <= now /\ sessions[i].seen <= now
        /\ sessions[i].stopped # NULL => sessions[i].stopped <= now

\* A crash is written by the start that follows it, so it is never the last row.
CrashIsFollowed ==
    \A i \in DOMAIN sessions : sessions[i].reason = "crash" => i < Len(sessions)

RowInv ==
    /\ SessionsInOrder
    /\ PastRows
    /\ CrashIsFollowed
    /\ \A p \in Proc : mine[p] # NULL => pc[p] = "open" /\ mine[p] \in OpenRows

\* The one value kept in meta is the boot of the last session that knew its own.
MetaIsLastKnown ==
    \/ metaBoot = NULL /\ \A i \in DOMAIN sessions : sessions[i].boot = NULL
    \/ \E i \in DOMAIN sessions :
          /\ sessions[i].boot = metaBoot /\ metaBoot # NULL
          /\ \A k \in DOMAIN sessions : k > i => sessions[k].boot = NULL

SDInv == SDTypeOK /\ LockInv /\ ModeInv /\ RowInv /\ BootEvidence /\ MetaIsLastKnown

LEMMA OneHolder ==
    ASSUME SDTypeOK, LockInv, NEW p \in Proc, NEW q \in Proc,
           pc[p] \in Holding, pc[q] \in Holding
    PROVE  p = q
BY DEF SDTypeOK, LockInv

LEMMA Rows ==
    ASSUME SDTypeOK
    PROVE  /\ Len(sessions) \in Nat /\ DOMAIN sessions = 1..Len(sessions)
           /\ \A i \in DOMAIN sessions : sessions[i] \in Session
BY LenProperties, ElementOfSeq DEF SDTypeOK

-----------------------------------------------------------------------------
(* What a start leaves in the table.                                       *)

LEMMA StartedRows ==
    ASSUME SDTypeOK, NEW p \in Proc, StartSession(p)
    PROVE  \E b \in {boot, NULL} :
             /\ sessions' \in Seq(Session)
             /\ Len(sessions') = Len(sessions) + 1
             /\ DOMAIN sessions' = 1..(Len(sessions) + 1)
             /\ \A i \in DOMAIN sessions :
                   sessions'[i] = IF i \in OpenRows THEN CrashRow(sessions[i])
                                  ELSE sessions[i]
             /\ sessions'[Len(sessions) + 1] = NewRow(b)
             /\ metaBoot' = IF b = NULL THEN metaBoot ELSE b
<1>1. PICK b \in {boot, NULL} :
        /\ sessions' = Append([i \in DOMAIN sessions |->
                                  IF i \in OpenRows THEN CrashRow(sessions[i])
                                  ELSE sessions[i]], NewRow(b))
        /\ metaBoot' = IF b = NULL THEN metaBoot ELSE b
  BY DEF StartSession
<1> DEFINE closed == [i \in DOMAIN sessions |->
                         IF i \in OpenRows THEN CrashRow(sessions[i]) ELSE sessions[i]]
<1>2. NewRow(b) \in Session
  BY DEF NewRow, Session, SDTypeOK
<1>3. \A i \in DOMAIN sessions : sessions[i] \in Session /\ CrashRow(sessions[i]) \in Session
  BY Rows DEF CrashRow, Session, SDTypeOK
<1>4. closed \in [1..Len(sessions) -> Session] /\ Len(sessions) \in Nat
      /\ DOMAIN sessions = 1..Len(sessions)
  BY <1>3, Rows
<1>5. closed \in Seq(Session) /\ Len(closed) = Len(sessions)
  BY <1>4, SeqDef
<1>6. \A i \in DOMAIN sessions :
        closed[i] = IF i \in OpenRows THEN CrashRow(sessions[i]) ELSE sessions[i]
  OBVIOUS
<1>7. sessions' = Append(closed, NewRow(b))
  BY <1>1
<1> HIDE DEF closed
<1>8. /\ sessions' \in Seq(Session)
      /\ Len(sessions') = Len(sessions) + 1
      /\ \A i \in 1..Len(sessions) : sessions'[i] = closed[i]
      /\ sessions'[Len(sessions) + 1] = NewRow(b)
  BY <1>2, <1>5, <1>7, AppendProperties
<1>9. DOMAIN sessions' = 1..(Len(sessions) + 1)
  BY <1>8, LenProperties
<1> QED BY <1>1, <1>4, <1>6, <1>8, <1>9

\* The heartbeat and the stop of the caller's own row.
LEMMA OwnRow ==
    ASSUME SDTypeOK, NEW i \in OpenRows, NEW r \in Session,
           sessions' = [sessions EXCEPT ![i] = r]
    PROVE  /\ sessions' \in Seq(Session)
           /\ DOMAIN sessions' = DOMAIN sessions
           /\ Len(sessions') = Len(sessions)
           /\ \A j \in DOMAIN sessions : sessions'[j] = IF j = i THEN r ELSE sessions[j]
<1>1. i \in 1..Len(sessions) /\ sessions \in Seq(Session) /\ DOMAIN sessions = 1..Len(sessions)
  BY Rows DEF OpenRows, SDTypeOK
<1>2. sessions' \in Seq(Session) /\ Len(sessions') = Len(sessions)
      /\ \A j \in 1..Len(sessions) : sessions'[j] = IF j = i THEN r ELSE sessions[j]
  BY <1>1, ExceptSeq
<1> QED BY <1>1, <1>2, LenProperties

LEMMA TouchedRow ==
    ASSUME SDTypeOK, NEW p \in Proc, TouchSession(p)
    PROVE  LET r == [sessions[mine[p]] EXCEPT !.seen = now]
           IN  r \in Session /\ sessions' = [sessions EXCEPT ![mine[p]] = r]
<1>1. mine[p] \in DOMAIN sessions /\ sessions[mine[p]] \in Session /\ now \in Time
  BY Rows DEF TouchSession, OpenRows, SDTypeOK
<1> QED BY <1>1 DEF TouchSession, Session

LEMMA StoppedRow ==
    ASSUME SDTypeOK, NEW p \in Proc, StopSession(p)
    PROVE  LET r == [sessions[mine[p]] EXCEPT !.stopped = now, !.seen = now,
                                              !.reason = "clean"]
           IN  r \in Session /\ sessions' = [sessions EXCEPT ![mine[p]] = r]
<1>1. mine[p] \in DOMAIN sessions /\ sessions[mine[p]] \in Session /\ now \in Time
  BY Rows DEF StopSession, OpenRows, SDTypeOK
<1>2. [sessions[mine[p]] EXCEPT !.stopped = now, !.seen = now, !.reason = "clean"] \in Session
  BY <1>1 DEF Session
<1>3. sessions' = [sessions EXCEPT ![mine[p]] =
                     [sessions[mine[p]] EXCEPT !.stopped = now, !.seen = now,
                                               !.reason = "clean"]]
  BY <1>1 DEF StopSession, Session
<1> QED BY <1>2, <1>3

-----------------------------------------------------------------------------
(* Types. *)

LEMMA SDTypeInit == Init => SDTypeOK
<1> SUFFICES ASSUME Init PROVE SDTypeOK
  OBVIOUS
<1>1. sessions \in Seq(Session)
  BY EmptySeq DEF Init
<1>2. 0 \in Boot /\ 0 \in Time
  BY StateDirAssumption DEF Boot, Time
<1> QED BY <1>1, <1>2 DEF Init, SDTypeOK, Places, Holding, Connected

LEMMA UnlockedType ==
    ASSUME SDTypeOK, NEW S
    PROVE  Unlocked(S) \in [Inode -> Proc \union {NULL}]
BY DEF SDTypeOK, Unlocked

LEMMA GoneType ==
    ASSUME SDTypeOK, NEW S, Gone(S), UNCHANGED disk,
           boot' \in Boot, now' \in Time
    PROVE  SDTypeOK'
<1>1. flock' \in [Inode -> Proc \union {NULL}]
  BY UnlockedType DEF Gone
<1>2. pc' \in [Proc -> Places] /\ fd' \in [Proc -> Inode \union {NULL}]
  BY DEF SDTypeOK, Gone, Places
<1>3. \A p \in Proc : (fd'[p] # NULL) = (pc'[p] \in Holding \union {"lockfile"})
  BY <1>2 DEF SDTypeOK, Gone, Places, Holding, Connected
<1>4. fresh' \in [Proc -> BOOLEAN] /\ mine' \in [Proc -> Nat \union {NULL}]
      /\ named' \in [Proc -> Nat \union {NULL}]
  BY DEF SDTypeOK, Gone
<1> QED BY <1>1, <1>2, <1>3, <1>4 DEF SDTypeOK, disk

LEMMA SDTypeStep == SDTypeOK /\ [Next]_vars => SDTypeOK'
<1> SUFFICES ASSUME SDTypeOK, [Next]_vars PROVE SDTypeOK'
  OBVIOUS
<1> USE StateDirAssumption
<1> USE DEF Goto, Places, Holding, Connected, disk, host, proc
<1>1. CASE UNCHANGED vars
  BY <1>1 DEF SDTypeOK, vars
<1>2. CASE Reboot
  <2>1. boot' \in Boot
    BY <1>2 DEF SDTypeOK, Reboot, Boot
  <2> QED BY <1>2, <2>1, GoneType DEF SDTypeOK, Reboot
<1>3. CASE Tick
  <2>1. now' \in Time
    BY <1>3 DEF SDTypeOK, Tick, Time
  <2> QED BY <1>3, <2>1 DEF SDTypeOK, Tick
<1>4. ASSUME NEW p \in Proc, Exit(p) PROVE SDTypeOK'
  BY <1>4, GoneType DEF SDTypeOK, Exit
<1>5. ASSUME NEW p \in Proc, OpenLockFile(p) PROVE SDTypeOK'
  BY <1>5 DEF SDTypeOK, OpenLockFile
<1>6. ASSUME NEW p \in Proc, LockExclusive(p) PROVE SDTypeOK'
  BY <1>6 DEF SDTypeOK, LockExclusive
<1>7. ASSUME NEW p \in Proc, LockRefused(p) PROVE SDTypeOK'
  BY <1>7 DEF SDTypeOK, LockRefused
<1>8. ASSUME NEW p \in Proc, NameOwner(p) PROVE SDTypeOK'
  <2>1. OpenRows \subseteq Nat
    BY Rows DEF OpenRows
  <2>2. named' \in [Proc -> Nat \union {NULL}]
    BY <1>8, <2>1 DEF SDTypeOK, NameOwner
  <2>3. /\ pc' \in [Proc -> Places] /\ fd' = fd
        /\ \A q \in Proc : (fd'[q] # NULL) = (pc'[q] \in Holding \union {"lockfile"})
    BY <1>8 DEF SDTypeOK, NameOwner
  <2>4. UNCHANGED <<file, flock, db, sessions, metaBoot, boot, now, fresh, mine>>
    BY <1>8 DEF NameOwner
  <2> QED BY <2>2, <2>3, <2>4 DEF SDTypeOK
<1>9. ASSUME NEW p \in Proc, OpenDatabase(p) PROVE SDTypeOK'
  <2>1. db' \in {"absent", "private", "wide"}
    BY <1>9 DEF SDTypeOK, OpenDatabase
  <2> QED BY <1>9, <2>1 DEF SDTypeOK, OpenDatabase
<1>10. ASSUME NEW p \in Proc, OpenFails(p) PROVE SDTypeOK'
  <2>1. db' \in {"absent", "private", "wide"}
    BY <1>10 DEF SDTypeOK, OpenFails
  <2>2. flock' \in [Inode -> Proc \union {NULL}]
    BY <1>10, UnlockedType DEF OpenFails
  <2>3. /\ pc' \in [Proc -> Places] /\ fd' \in [Proc -> Inode \union {NULL}]
        /\ \A q \in Proc : (fd'[q] # NULL) = (pc'[q] \in Holding \union {"lockfile"})
    BY <1>10 DEF SDTypeOK, OpenFails
  <2>4. UNCHANGED <<file, sessions, metaBoot, boot, now, fresh, mine, named>>
    BY <1>10 DEF OpenFails
  <2> QED BY <2>1, <2>2, <2>3, <2>4 DEF SDTypeOK
<1>11. ASSUME NEW p \in Proc, PrivateDatabase(p) PROVE SDTypeOK'
  BY <1>11 DEF SDTypeOK, PrivateDatabase
<1>12. ASSUME NEW p \in Proc, StartSession(p) PROVE SDTypeOK'
  <2>1. sessions' \in Seq(Session) /\ metaBoot' \in Boot \union {NULL}
    BY <1>12, StartedRows DEF SDTypeOK
  <2>2. mine' \in [Proc -> Nat \union {NULL}]
    BY <1>12, Rows DEF SDTypeOK, StartSession
  <2> QED BY <1>12, <2>1, <2>2 DEF SDTypeOK, StartSession
<1>13. ASSUME NEW p \in Proc, TouchSession(p) PROVE SDTypeOK'
  <2>1. sessions' \in Seq(Session)
    BY <1>13, TouchedRow, OwnRow DEF TouchSession
  <2> QED BY <1>13, <2>1 DEF SDTypeOK, TouchSession
<1>14. ASSUME NEW p \in Proc, StopSession(p) PROVE SDTypeOK'
  <2>1. sessions' \in Seq(Session)
    BY <1>14, StoppedRow, OwnRow DEF StopSession
  <2> QED BY <1>14, <2>1 DEF SDTypeOK, StopSession
<1>15. ASSUME NEW p \in Proc, Close(p) PROVE SDTypeOK'
  BY <1>15 DEF SDTypeOK, Close
<1>16. ASSUME NEW p \in Proc, CloseConnections(p) PROVE SDTypeOK'
  BY <1>16 DEF SDTypeOK, CloseConnections
<1>17. ASSUME NEW p \in Proc, Release(p) PROVE SDTypeOK'
  <2>1. flock' \in [Inode -> Proc \union {NULL}]
    BY <1>17, UnlockedType DEF Release
  <2>2. /\ pc' \in [Proc -> Places] /\ fd' \in [Proc -> Inode \union {NULL}]
        /\ fresh' \in [Proc -> BOOLEAN]
        /\ \A q \in Proc : (fd'[q] # NULL) = (pc'[q] \in Holding \union {"lockfile"})
    BY <1>17 DEF SDTypeOK, Release
  <2>3. UNCHANGED <<file, db, sessions, metaBoot, boot, now, mine, named>>
    BY <1>17 DEF Release
  <2> QED BY <2>1, <2>2, <2>3 DEF SDTypeOK
<1> QED
  BY <1>1, <1>2, <1>3, <1>4, <1>5, <1>6, <1>7, <1>8, <1>9, <1>10, <1>11, <1>12,
     <1>13, <1>14, <1>15, <1>16, <1>17 DEF Next

-----------------------------------------------------------------------------
(* The lock. *)

\* Leaving with the descriptor gives up exactly one's own lock.
LEMMA LeavingUnlocks ==
    ASSUME SDTypeOK, LockInv, NEW S, S \subseteq Proc,
           flock' = Unlocked(S), file' = file,
           SDTypeOK',
           \A q \in Proc \ S : pc'[q] = pc[q] /\ fd'[q] = fd[q],
           \A q \in S : pc'[q] \notin Holding /\ fd'[q] = NULL
    PROVE  LockInv'
<1>1. \A i \in Inode : flock'[i] = IF flock[i] \in S THEN NULL ELSE flock[i]
  BY DEF Unlocked
<1>2. EveryLockIsInUse'
  <2> SUFFICES ASSUME NEW i \in Inode, flock'[i] # NULL
               PROVE  pc'[flock'[i]] \in Holding /\ fd'[flock'[i]] = i
    BY DEF EveryLockIsInUse
  <2>1. flock'[i] = flock[i] /\ flock[i] \in Proc \ S
    BY <1>1 DEF SDTypeOK
  <2> QED BY <2>1 DEF LockInv, EveryLockIsInUse
<1>3. \A q \in Proc : fd'[q] # NULL => fd'[q] = file'
  BY DEF LockInv
<1>4. ASSUME NEW q \in Proc, pc'[q] \in Holding PROVE flock'[fd'[q]] = q
  <2>1. q \notin S /\ pc[q] \in Holding /\ fd'[q] = fd[q]
    BY <1>4
  <2>2. fd[q] \in Inode /\ flock[fd[q]] = q
    BY <2>1, StateDirAssumption DEF SDTypeOK, LockInv
  <2> QED BY <1>1, <2>1, <2>2
<1> QED BY <1>2, <1>3, <1>4 DEF LockInv

LEMMA LockStep ==
    ASSUME SDTypeOK, SDTypeOK', LockInv, [Next]_vars
    PROVE  LockInv'
<1> USE StateDirAssumption
<1> USE DEF Goto, disk, host, proc
<1>0. ASSUME UNCHANGED <<file, flock, fd>>,
             \A q \in Proc : (pc'[q] \in Holding) = (pc[q] \in Holding)
      PROVE  LockInv'
  <2>1. \A i \in Inode : flock[i] # NULL => flock[i] \in Proc
    BY DEF SDTypeOK
  <2> QED BY <1>0, <2>1 DEF LockInv, EveryLockIsInUse
<1>1. CASE UNCHANGED vars
  BY <1>1, <1>0 DEF vars
<1>2. CASE Reboot
  BY <1>2, LeavingUnlocks DEF Reboot, Gone, Holding, Connected
<1>3. CASE Tick
  BY <1>3, <1>0 DEF Tick
<1>4. ASSUME NEW p \in Proc, Exit(p) PROVE LockInv'
  <2>1. /\ \A q \in Proc \ {p} : pc'[q] = pc[q] /\ fd'[q] = fd[q]
        /\ pc'[p] = "off" /\ fd'[p] = NULL /\ flock' = Unlocked({p}) /\ file' = file
    BY <1>4 DEF Exit, Gone
  <2> QED BY <2>1, LeavingUnlocks DEF Holding, Connected
<1>5. ASSUME NEW p \in Proc, OpenLockFile(p) PROVE LockInv'
  <2>1. PICK i \in Inode : /\ i = file \/ (file = NULL /\ \A q \in Proc : fd[q] # i)
                           /\ file' = i
                           /\ fd' = [fd EXCEPT ![p] = i]
    BY <1>5 DEF OpenLockFile
  <2>2. pc[p] = "off" /\ pc'[p] = "lockfile" /\ fd[p] = NULL /\ fd'[p] = i /\ flock' = flock
        /\ \A q \in Proc \ {p} : pc'[q] = pc[q] /\ fd'[q] = fd[q]
    BY <1>5, <2>1 DEF OpenLockFile, SDTypeOK, Holding, Connected
  <2>3. \A q \in Proc : fd[q] # NULL => fd[q] = i
    BY <2>1 DEF LockInv, SDTypeOK
  <2>4. EveryLockIsInUse'
    <3> SUFFICES ASSUME NEW j \in Inode, flock[j] # NULL
                 PROVE  pc'[flock[j]] \in Holding /\ fd'[flock[j]] = j
      BY <2>2 DEF EveryLockIsInUse
    <3>1. flock[j] \in Proc \ {p}
      BY <2>2 DEF LockInv, EveryLockIsInUse, SDTypeOK, Holding, Connected
    <3> QED BY <2>2, <3>1 DEF LockInv, EveryLockIsInUse
  <2>5. \A q \in Proc : fd'[q] # NULL => fd'[q] = file'
    BY <2>1, <2>2, <2>3
  <2>6. \A q \in Proc : pc'[q] \in Holding => flock'[fd'[q]] = q
    BY <2>2 DEF LockInv, Holding, Connected
  <2> QED BY <2>4, <2>5, <2>6 DEF LockInv
<1>6. ASSUME NEW p \in Proc, LockExclusive(p) PROVE LockInv'
  <2>1. /\ pc[p] = "lockfile" /\ pc'[p] = "locked" /\ flock[fd[p]] = NULL
        /\ fd[p] \in Inode /\ fd' = fd /\ file' = file /\ flock'[fd[p]] = p
        /\ \A q \in Proc \ {p} : pc'[q] = pc[q]
        /\ \A j \in Inode \ {fd[p]} : flock'[j] = flock[j]
    BY <1>6 DEF LockExclusive, SDTypeOK, Holding, Connected
  <2>2. EveryLockIsInUse'
    <3> SUFFICES ASSUME NEW j \in Inode, flock'[j] # NULL
                 PROVE  pc'[flock'[j]] \in Holding /\ fd'[flock'[j]] = j
      BY DEF EveryLockIsInUse
    <3>1. CASE j = fd[p]
      BY <2>1, <3>1 DEF Holding, Connected
    <3>2. CASE j # fd[p]
      <4>1. flock'[j] = flock[j] /\ flock[j] \in Proc \ {p}
        BY <2>1, <3>2 DEF LockInv, EveryLockIsInUse, SDTypeOK, Holding, Connected
      <4> QED BY <2>1, <4>1 DEF LockInv, EveryLockIsInUse
    <3> QED BY <3>1, <3>2
  <2>3. ASSUME NEW q \in Proc, pc'[q] \in Holding PROVE flock'[fd'[q]] = q
    <3>1. CASE q = p
      BY <2>1, <3>1
    <3>2. CASE q # p
      <4>1. pc[q] \in Holding /\ fd[q] \in Inode /\ flock[fd[q]] = q
        BY <2>1, <2>3, <3>2 DEF LockInv, SDTypeOK
      <4> QED BY <2>1, <4>1
    <3> QED BY <3>1, <3>2
  <2> QED BY <2>1, <2>2, <2>3 DEF LockInv
<1>7. ASSUME NEW p \in Proc, LockRefused(p) PROVE LockInv'
  <2>1. /\ pc[p] = "lockfile" /\ pc'[p] = "busy" /\ fd'[p] = NULL
        /\ flock' = flock /\ file' = file
        /\ \A q \in Proc \ {p} : pc'[q] = pc[q] /\ fd'[q] = fd[q]
    BY <1>7 DEF LockRefused, SDTypeOK
  <2>2. ASSUME NEW i \in Inode, flock[i] # NULL PROVE flock[i] \in Proc \ {p}
    <3>1. flock[i] \in Proc /\ pc[flock[i]] \in Holding
      BY <2>2 DEF LockInv, EveryLockIsInUse, SDTypeOK
    <3>2. pc[p] \notin Holding
      BY <2>1 DEF Holding, Connected
    <3> QED BY <3>1, <3>2
  <2>3. EveryLockIsInUse'
    BY <2>1, <2>2 DEF LockInv, EveryLockIsInUse
  <2> QED BY <2>1, <2>3 DEF LockInv, Holding, Connected
<1>8. ASSUME NEW p \in Proc, NameOwner(p) PROVE LockInv'
  BY <1>8, <1>0 DEF NameOwner, SDTypeOK, Holding, Connected
<1>9. ASSUME NEW p \in Proc, OpenDatabase(p) PROVE LockInv'
  BY <1>9, <1>0 DEF OpenDatabase, SDTypeOK, Holding, Connected
<1>10. ASSUME NEW p \in Proc, OpenFails(p) PROVE LockInv'
  <2>1. /\ \A q \in Proc \ {p} : pc'[q] = pc[q] /\ fd'[q] = fd[q]
        /\ pc'[p] = "off" /\ fd'[p] = NULL /\ flock' = Unlocked({p}) /\ file' = file
    BY <1>10 DEF OpenFails, SDTypeOK
  <2> QED BY <2>1, LeavingUnlocks DEF Holding, Connected
<1>11. ASSUME NEW p \in Proc, PrivateDatabase(p) PROVE LockInv'
  BY <1>11, <1>0 DEF PrivateDatabase, SDTypeOK, Holding, Connected
<1>12. ASSUME NEW p \in Proc, StartSession(p) \/ TouchSession(p) \/ StopSession(p)
       PROVE LockInv'
  BY <1>12, <1>0 DEF StartSession, TouchSession, StopSession
<1>13. ASSUME NEW p \in Proc, Close(p) PROVE LockInv'
  BY <1>13, <1>0 DEF Close, SDTypeOK, Holding, Connected
<1>14. ASSUME NEW p \in Proc, CloseConnections(p) PROVE LockInv'
  BY <1>14, <1>0 DEF CloseConnections, SDTypeOK, Holding, Connected
<1>15. ASSUME NEW p \in Proc, Release(p) PROVE LockInv'
  <2>1. /\ \A q \in Proc \ {p} : pc'[q] = pc[q] /\ fd'[q] = fd[q]
        /\ pc'[p] = "off" /\ fd'[p] = NULL /\ flock' = Unlocked({p}) /\ file' = file
    BY <1>15 DEF Release, SDTypeOK
  <2> QED BY <2>1, LeavingUnlocks DEF Holding, Connected
<1> QED
  BY <1>1, <1>2, <1>3, <1>4, <1>5, <1>6, <1>7, <1>8, <1>9, <1>10, <1>11, <1>12,
     <1>13, <1>14, <1>15 DEF Next

-----------------------------------------------------------------------------
(* The mode of the database. *)

LEMMA ModeStep ==
    ASSUME SDTypeOK, ModeInv, [Next]_vars
    PROVE  ModeInv'
<1> USE StateDirAssumption
<1> USE DEF Goto, disk, host, proc
<1>0. ASSUME UNCHANGED <<db, sessions>>,
             \A q \in Proc : pc'[q] = "open" => pc[q] = "open"
      PROVE  ModeInv'
  BY <1>0 DEF ModeInv, PrivateBeforeData
<1>1. CASE UNCHANGED vars
  BY <1>1, <1>0 DEF vars
<1>2. CASE Reboot
  BY <1>2, <1>0 DEF Reboot, Gone
<1>3. CASE Tick
  BY <1>3, <1>0 DEF Tick
<1>4. ASSUME NEW p \in Proc, Exit(p) PROVE ModeInv'
  BY <1>4, <1>0 DEF Exit, Gone
<1>5. ASSUME NEW p \in Proc,
             OpenLockFile(p) \/ LockExclusive(p) \/ LockRefused(p) \/ NameOwner(p)
      PROVE  ModeInv'
  BY <1>5, <1>0 DEF OpenLockFile, LockExclusive, LockRefused, NameOwner, SDTypeOK
<1>6. ASSUME NEW p \in Proc, OpenDatabase(p) \/ OpenFails(p) PROVE ModeInv'
  <2>1. sessions' = sessions /\ \A q \in Proc : pc'[q] = "open" => pc[q] = "open"
    BY <1>6 DEF OpenDatabase, OpenFails, SDTypeOK
  <2>2. db = "private" => db' = "private"
    BY <1>6 DEF OpenDatabase, OpenFails
  <2> QED BY <2>1, <2>2 DEF ModeInv, PrivateBeforeData
<1>7. ASSUME NEW p \in Proc, PrivateDatabase(p) PROVE ModeInv'
  <2>1. /\ sessions' = sessions
        /\ \A q \in Proc \ {p} : pc'[q] = pc[q]
        /\ pc'[p] = "open" => db' = "private"
        /\ db = "private" => db' = "private"
    BY <1>7 DEF PrivateDatabase, SDTypeOK
  <2> QED BY <2>1 DEF ModeInv, PrivateBeforeData
<1>8. ASSUME NEW p \in Proc, StartSession(p) \/ TouchSession(p) \/ StopSession(p)
      PROVE  ModeInv'
  <2>1. db' = db /\ pc' = pc /\ pc[p] = "open"
    BY <1>8 DEF StartSession, TouchSession, StopSession
  <2> QED BY <2>1 DEF ModeInv, PrivateBeforeData
<1>9. ASSUME NEW p \in Proc, Close(p) \/ CloseConnections(p) \/ Release(p)
      PROVE  ModeInv'
  BY <1>9, <1>0 DEF Close, CloseConnections, Release, SDTypeOK
<1> QED BY <1>1, <1>2, <1>3, <1>4, <1>5, <1>6, <1>7, <1>8, <1>9 DEF Next

-----------------------------------------------------------------------------
(* The rows. *)

\* One process at a time has a session, as one at a time has the lock.
LEMMA NobodyElsesSession ==
    ASSUME SDTypeOK, LockInv, RowInv, NEW p \in Proc, pc[p] = "open",
           NEW q \in Proc, q # p
    PROVE  mine[q] = NULL
<1>1. CASE mine[q] # NULL
  <2>1. pc[q] = "open"
    BY <1>1 DEF RowInv
  <2> QED BY <2>1, OneHolder DEF Holding, Connected
<1> QED BY <1>1

LEMMA OpenRowIsLast ==
    ASSUME RowInv, NEW i \in OpenRows
    PROVE  i = Len(sessions)
BY DEF RowInv, SessionsInOrder, OpenRows

LEMMA RowStart ==
    ASSUME SDTypeOK, LockInv, RowInv, NEW p \in Proc, StartSession(p)
    PROVE  RowInv'
<1> DEFINE n == Len(sessions)
<1>1. PICK b \in {boot, NULL} :
        /\ Len(sessions') = n + 1
        /\ DOMAIN sessions' = 1..(n + 1)
        /\ \A i \in DOMAIN sessions :
              sessions'[i] = IF i \in OpenRows THEN CrashRow(sessions[i])
                             ELSE sessions[i]
        /\ sessions'[n + 1] = NewRow(b)
  BY StartedRows
<1>2. n \in Nat /\ DOMAIN sessions = 1..n /\ \A i \in 1..n : sessions[i] \in Session
  BY Rows
<1>3. now' = now /\ now \in Nat /\ now # NULL /\ pc' = pc /\ pc[p] = "open" /\ mine[p] = NULL
      /\ mine' = [mine EXCEPT ![p] = n + 1]
  BY StateDirAssumption DEF StartSession, host, SDTypeOK, Time
<1>4. ASSUME NEW i \in 1..n
      PROVE  /\ sessions'[i].started = sessions[i].started
             /\ sessions'[i].seen = sessions[i].seen
             /\ sessions'[i].stopped # NULL /\ sessions'[i].reason # NULL
             /\ sessions[i].stopped = NULL => /\ sessions'[i].stopped = now
                                              /\ sessions'[i].reason = "crash"
                                              /\ i = n
             /\ sessions[i].stopped # NULL => sessions'[i] = sessions[i]
  <2>1. sessions[i] \in Session /\ i \in DOMAIN sessions
    BY <1>2, <1>4
  <2>2. CASE i \in OpenRows
    <3>1. sessions'[i] = CrashRow(sessions[i]) /\ sessions[i].stopped = NULL /\ i = n
      BY <1>1, <2>1, <2>2, OpenRowIsLast DEF OpenRows
    <3>2. /\ CrashRow(sessions[i]).started = sessions[i].started
          /\ CrashRow(sessions[i]).seen = sessions[i].seen
          /\ CrashRow(sessions[i]).stopped = now
          /\ CrashRow(sessions[i]).reason = "crash"
      BY <2>1 DEF CrashRow, Session
    <3> QED BY <1>3, <3>1, <3>2, StateDirAssumption
  <2>3. CASE i \notin OpenRows
    <3>1. sessions'[i] = sessions[i] /\ sessions[i].stopped # NULL
      BY <1>1, <2>1, <2>3 DEF OpenRows
    <3>2. sessions[i].reason # NULL
      BY <2>1, <3>1 DEF RowInv, SessionsInOrder
    <3> QED BY <3>1, <3>2
  <2> QED BY <2>2, <2>3
<1>5. /\ sessions'[n + 1].started = now /\ sessions'[n + 1].seen = now
      /\ sessions'[n + 1].stopped = NULL /\ sessions'[n + 1].reason = NULL
  BY <1>1 DEF NewRow
<1>6. \A i \in 1..n : sessions[i].started \in Nat /\ sessions[i].seen \in Nat
                      /\ sessions[i].stopped \in Nat \union {NULL}
  BY <1>2 DEF Session, Time
<1>7. ASSUME NEW i \in 1..n
      PROVE  /\ sessions[i].started <= now /\ sessions[i].seen <= now
             /\ sessions[i].stopped # NULL => sessions[i].stopped <= now
             /\ sessions[i].started <= sessions[i].seen
             /\ sessions[i].stopped # NULL => sessions[i].seen <= sessions[i].stopped
             /\ sessions[i].stopped # NULL /\ i < n =>
                  /\ sessions[i].stopped <= sessions[i + 1].started
                  /\ sessions[i].reason = "crash" =>
                        sessions[i].stopped = sessions[i + 1].started
             /\ sessions[i].stopped # NULL /\ sessions[i].reason = "crash" /\ i = n =>
                  sessions[i].stopped <= now
  BY <1>2, <1>7 DEF RowInv, SessionsInOrder, PastRows
<1>8. PastRows'
  <2> SUFFICES ASSUME NEW i \in 1..(n + 1)
               PROVE  /\ sessions'[i].started <= now /\ sessions'[i].seen <= now
                      /\ sessions'[i].stopped # NULL => sessions'[i].stopped <= now
    BY <1>1, <1>3 DEF PastRows
  <2>1. CASE i = n + 1
    BY <1>3, <1>5, <2>1
  <2>2. CASE i \in 1..n
    BY <1>3, <1>4, <1>7, <2>2
  <2> QED BY <1>2, <2>1, <2>2
<1>9. SessionsInOrder'
  <2> SUFFICES ASSUME NEW i \in 1..(n + 1)
               PROVE  /\ sessions'[i].stopped = NULL =>
                            i = n + 1 /\ sessions'[i].started <= sessions'[i].seen
                      /\ sessions'[i].stopped # NULL =>
                            /\ sessions'[i].started <= sessions'[i].seen
                            /\ sessions'[i].seen <= sessions'[i].stopped
                      /\ i < n + 1 =>
                            /\ sessions'[i].stopped <= sessions'[i + 1].started
                            /\ sessions'[i].reason = "crash" =>
                                  sessions'[i].stopped = sessions'[i + 1].started
                      /\ (sessions'[i].stopped = NULL) = (sessions'[i].reason = NULL)
    BY <1>1 DEF SessionsInOrder
  <2>1. CASE i = n + 1
    BY <1>2, <1>3, <1>5, <2>1
  <2>2. CASE i \in 1..n
    <3>1. /\ sessions'[i].stopped # NULL /\ sessions'[i].reason # NULL
          /\ sessions'[i].started <= sessions'[i].seen
          /\ sessions'[i].seen <= sessions'[i].stopped
      BY <1>3, <1>4, <1>7, <2>2
    <3>2. CASE i = n
      <4>1. sessions'[i + 1].started = now
        BY <1>5, <3>2
      <4>2. sessions'[i].stopped <= now
        BY <1>3, <1>4, <1>6, <1>7, <2>2
      <4>3. sessions'[i].reason = "crash" => sessions'[i].stopped = now
        <5>1. sessions[i].reason # "crash"
          BY <1>2, <3>2, <2>2 DEF RowInv, CrashIsFollowed
        <5> QED BY <1>4, <2>2, <5>1
      <4> QED BY <1>2, <2>2, <3>1, <4>1, <4>2, <4>3
    <3>3. CASE i < n
      <4>1. i + 1 \in 1..n /\ sessions'[i + 1].started = sessions[i + 1].started
        BY <1>2, <1>4, <2>2, <3>3
      <4>2. sessions'[i] = sessions[i] /\ sessions[i].stopped # NULL
        <5>1. i # n
          <6>1. \A k \in Nat : i \in 1..k /\ i < k => i # k
            OBVIOUS
          <6>2. n \in Nat
            BY <1>2
          <6> QED BY <2>2, <3>3, <6>1, <6>2
        <5>2. sessions[i].stopped # NULL
          BY <1>4, <2>2, <5>1
        <5> QED BY <1>4, <2>2, <5>2
      <4> QED BY <1>2, <1>7, <2>2, <3>1, <3>3, <4>1, <4>2
    <3> QED BY <1>2, <2>2, <3>2, <3>3
  <2> QED BY <1>2, <2>1, <2>2
<1>10. \A q \in Proc : mine'[q] # NULL => pc'[q] = "open" /\ mine'[q] \in OpenRows'
  <2>1. \A q \in Proc \ {p} : mine'[q] = NULL
    BY <1>3, NobodyElsesSession DEF SDTypeOK
  <2>2. mine'[p] = n + 1 /\ n + 1 \in OpenRows'
    BY <1>1, <1>2, <1>3, <1>5 DEF OpenRows, SDTypeOK
  <2> QED BY <1>3, <2>1, <2>2
<1>11. CrashIsFollowed'
  <2>1. sessions'[n + 1].reason # "crash"
    BY <1>5, StateDirAssumption
  <2> QED BY <1>1, <1>2, <2>1 DEF CrashIsFollowed
<1> QED BY <1>8, <1>9, <1>10, <1>11 DEF RowInv

\* A heartbeat and a stop move the times of the last row only.
LEMMA RowOwn ==
    ASSUME SDTypeOK, SDTypeOK', LockInv, RowInv, NEW p \in Proc, pc[p] = "open",
           NEW r \in Session, mine[p] \in OpenRows,
           sessions' = [sessions EXCEPT ![mine[p]] = r],
           r.started = sessions[mine[p]].started, r.seen = now,
           \/ r.stopped = NULL /\ r.reason = NULL /\ mine' = mine
           \/ r.stopped = now /\ r.reason = "clean" /\ mine' = [mine EXCEPT ![p] = NULL],
           UNCHANGED <<pc, now>>
    PROVE  RowInv'
<1> DEFINE n == Len(sessions)
<1>1. /\ DOMAIN sessions' = 1..n /\ DOMAIN sessions = 1..n /\ n \in Nat
      /\ Len(sessions') = n
      /\ \A j \in 1..n : sessions'[j] = IF j = n THEN r ELSE sessions[j]
      /\ mine[p] = n /\ n \in 1..n
  BY Rows, OwnRow, OpenRowIsLast DEF OpenRows
<1>2. sessions[n].started <= now /\ sessions[n].stopped = NULL /\ now \in Nat /\ now # NULL
  BY <1>1, StateDirAssumption DEF RowInv, PastRows, OpenRows, SDTypeOK, Time
<1>3. /\ r.started <= r.seen /\ r.seen <= now /\ r.started <= now
      /\ (r.stopped = NULL) = (r.reason = NULL) /\ r.reason # "crash"
      /\ r.stopped # NULL => r.stopped = now
      /\ r.started = sessions[n].started
  BY <1>1, <1>2, StateDirAssumption
<1>4. \A j \in 1..n : j # n => sessions'[j] = sessions[j]
  BY <1>1
<1>5. sessions'[n] = r
  BY <1>1
<1>6. \A j \in 1..n : sessions'[j].started = sessions[j].started
  BY <1>1, <1>3, <1>4, <1>5
<1>7. PastRows'
  <2> SUFFICES ASSUME NEW i \in 1..n
               PROVE  /\ sessions'[i].started <= now /\ sessions'[i].seen <= now
                      /\ sessions'[i].stopped # NULL => sessions'[i].stopped <= now
    BY <1>1 DEF PastRows
  <2>1. CASE i = n
    BY <1>2, <1>3, <1>5, <2>1
  <2>2. CASE i # n
    BY <1>1, <1>4, <2>2 DEF RowInv, PastRows
  <2> QED BY <2>1, <2>2
<1>8. CrashIsFollowed'
  BY <1>1, <1>3, <1>4, <1>5 DEF RowInv, CrashIsFollowed
<1>9. SessionsInOrder'
  <2> SUFFICES ASSUME NEW i \in 1..n
               PROVE  /\ sessions'[i].stopped = NULL =>
                            i = n /\ sessions'[i].started <= sessions'[i].seen
                      /\ sessions'[i].stopped # NULL =>
                            /\ sessions'[i].started <= sessions'[i].seen
                            /\ sessions'[i].seen <= sessions'[i].stopped
                      /\ i < n =>
                            /\ sessions'[i].stopped <= sessions'[i + 1].started
                            /\ sessions'[i].reason = "crash" =>
                                  sessions'[i].stopped = sessions'[i + 1].started
                      /\ (sessions'[i].stopped = NULL) = (sessions'[i].reason = NULL)
    BY <1>1 DEF SessionsInOrder
  <2>1. CASE i = n
    <3>1. sessions'[i] = r /\ ~(i < n)
      BY <1>1, <1>5, <2>1
    <3>2. r.stopped # NULL => r.seen <= r.stopped
      BY <1>2, <1>3
    <3> QED BY <1>3, <2>1, <3>1, <3>2
  <2>2. CASE i # n
    <3>1. i < n /\ i + 1 \in 1..n
      BY <1>1, <2>2
    <3>2. sessions'[i] = sessions[i] /\ sessions'[i + 1].started = sessions[i + 1].started
      BY <1>4, <1>6, <2>2, <3>1
    <3>3. /\ sessions[i].stopped = NULL =>
                i = n /\ sessions[i].started <= sessions[i].seen
          /\ sessions[i].stopped # NULL =>
                /\ sessions[i].started <= sessions[i].seen
                /\ sessions[i].seen <= sessions[i].stopped
          /\ sessions[i].stopped <= sessions[i + 1].started
          /\ sessions[i].reason = "crash" => sessions[i].stopped = sessions[i + 1].started
          /\ (sessions[i].stopped = NULL) = (sessions[i].reason = NULL)
      BY <1>1, <3>1 DEF RowInv, SessionsInOrder
    <3> QED BY <2>2, <3>2, <3>3
  <2> QED BY <2>1, <2>2
<1>10. \A q \in Proc : mine'[q] # NULL => pc'[q] = "open" /\ mine'[q] \in OpenRows'
  <2>1. \A q \in Proc \ {p} : mine'[q] = NULL
    BY NobodyElsesSession DEF SDTypeOK
  <2>2. mine'[p] # NULL => mine'[p] = n /\ r.stopped = NULL
    BY <1>1, <1>2 DEF SDTypeOK
  <2>3. mine'[p] # NULL => mine'[p] \in OpenRows'
    BY <1>1, <1>5, <2>2 DEF OpenRows
  <2> QED BY <2>1, <2>3
<1> QED BY <1>7, <1>8, <1>9, <1>10 DEF RowInv

LEMMA RowStep ==
    ASSUME SDTypeOK, SDTypeOK', LockInv, RowInv, [Next]_vars
    PROVE  RowInv'
<1> USE StateDirAssumption
<1> USE DEF Goto, disk, host, proc
<1>0. ASSUME UNCHANGED <<sessions, now>>,
             \A q \in Proc : \/ mine'[q] = NULL
                             \/ mine'[q] = mine[q] /\ pc'[q] = pc[q]
      PROVE  RowInv'
  <2>1. SessionsInOrder' /\ PastRows' /\ CrashIsFollowed' /\ OpenRows' = OpenRows
    BY <1>0 DEF RowInv, SessionsInOrder, PastRows, CrashIsFollowed, OpenRows
  <2> QED BY <1>0, <2>1 DEF RowInv
<1>1. CASE UNCHANGED vars
  BY <1>1, <1>0 DEF vars
<1>2. CASE Reboot
  BY <1>2, <1>0 DEF Reboot, Gone
<1>3. CASE Tick
  <2>1. now \in Nat /\ now' = now + 1 /\ UNCHANGED <<sessions, mine, pc>>
    BY <1>3 DEF Tick, SDTypeOK, Time
  <2>2. SessionsInOrder' /\ CrashIsFollowed' /\ OpenRows' = OpenRows
    BY <2>1 DEF RowInv, SessionsInOrder, CrashIsFollowed, OpenRows
  <2>3. \A i \in DOMAIN sessions : sessions[i].started \in Nat /\ sessions[i].seen \in Nat
                                   /\ sessions[i].stopped \in Nat \union {NULL}
    BY Rows DEF Session, Time
  <2>4. PastRows'
    BY <2>1, <2>3 DEF RowInv, PastRows
  <2> QED BY <2>1, <2>2, <2>4 DEF RowInv
<1>4. ASSUME NEW p \in Proc, Exit(p) PROVE RowInv'
  BY <1>4, <1>0 DEF Exit, Gone
<1>5. ASSUME NEW p \in Proc,
             \/ OpenLockFile(p) \/ LockExclusive(p) \/ LockRefused(p) \/ NameOwner(p)
             \/ OpenDatabase(p) \/ OpenFails(p) \/ PrivateDatabase(p)
             \/ CloseConnections(p) \/ Release(p)
      PROVE  RowInv'
  <2>1. UNCHANGED <<sessions, now, mine>> /\ \A q \in Proc \ {p} : pc'[q] = pc[q]
    BY <1>5 DEF OpenLockFile, LockExclusive, LockRefused, NameOwner, OpenDatabase,
                OpenFails, PrivateDatabase, CloseConnections, Release, SDTypeOK
  <2>2. pc[p] # "open"
    BY <1>5 DEF OpenLockFile, LockExclusive, LockRefused, NameOwner, OpenDatabase,
                OpenFails, PrivateDatabase, CloseConnections, Release
  <2>3. mine[p] = NULL
    BY <2>2 DEF RowInv
  <2> QED BY <2>1, <2>3, <1>0
<1>6. ASSUME NEW p \in Proc, Close(p) PROVE RowInv'
  BY <1>6, <1>0 DEF Close, SDTypeOK
<1>7. ASSUME NEW p \in Proc, StartSession(p) PROVE RowInv'
  BY <1>7, RowStart
<1>8. ASSUME NEW p \in Proc, TouchSession(p) PROVE RowInv'
  <2> DEFINE r == [sessions[mine[p]] EXCEPT !.seen = now]
  <2>1. r \in Session /\ sessions' = [sessions EXCEPT ![mine[p]] = r]
    BY <1>8, TouchedRow
  <2>2. /\ pc[p] = "open" /\ mine[p] \in OpenRows /\ UNCHANGED <<pc, now, mine>>
        /\ sessions[mine[p]] \in Session /\ sessions[mine[p]].stopped = NULL
        /\ mine[p] \in DOMAIN sessions
    BY <1>8, Rows DEF TouchSession, OpenRows
  <2>3. sessions[mine[p]].reason = NULL
    BY <2>2 DEF RowInv, SessionsInOrder
  <2>4. /\ r.started = sessions[mine[p]].started /\ r.seen = now
        /\ r.stopped = NULL /\ r.reason = NULL
    BY <2>2, <2>3 DEF Session
  <2> HIDE DEF r
  <2> QED BY <2>1, <2>2, <2>4, RowOwn
<1>9. ASSUME NEW p \in Proc, StopSession(p) PROVE RowInv'
  <2> DEFINE r == [sessions[mine[p]] EXCEPT !.stopped = now, !.seen = now,
                                            !.reason = "clean"]
  <2>1. r \in Session /\ sessions' = [sessions EXCEPT ![mine[p]] = r]
    BY <1>9, StoppedRow
  <2>2. /\ pc[p] = "open" /\ mine[p] \in OpenRows /\ UNCHANGED <<pc, now>>
        /\ mine' = [mine EXCEPT ![p] = NULL]
        /\ sessions[mine[p]] \in Session
    BY <1>9, Rows DEF StopSession, OpenRows
  <2>3. /\ r.started = sessions[mine[p]].started /\ r.seen = now
        /\ r.stopped = now /\ r.reason = "clean"
    BY <2>2 DEF Session
  <2> HIDE DEF r
  <2> QED BY <2>1, <2>2, <2>3, RowOwn
<1> QED BY <1>1, <1>2, <1>3, <1>4, <1>5, <1>6, <1>7, <1>8, <1>9 DEF Next

-----------------------------------------------------------------------------
(* The boot evidence. *)

LEMMA BootStart ==
    ASSUME SDTypeOK, BootEvidence, MetaIsLastKnown, NEW p \in Proc, StartSession(p)
    PROVE  BootEvidence' /\ MetaIsLastKnown'
<1> DEFINE n == Len(sessions)
<1>1. PICK b \in {boot, NULL} :
        /\ DOMAIN sessions' = 1..(n + 1)
        /\ \A i \in DOMAIN sessions :
              sessions'[i] = IF i \in OpenRows THEN CrashRow(sessions[i])
                             ELSE sessions[i]
        /\ sessions'[n + 1] = NewRow(b)
        /\ metaBoot' = IF b = NULL THEN metaBoot ELSE b
  BY StartedRows
<1>2. n \in Nat /\ DOMAIN sessions = 1..n /\ \A i \in 1..n : sessions[i] \in Session
  BY Rows
<1>3. ASSUME NEW i \in 1..n
      PROVE  sessions'[i].boot = sessions[i].boot /\ sessions'[i].told = sessions[i].told
  <2>1. /\ CrashRow(sessions[i]).boot = sessions[i].boot
        /\ CrashRow(sessions[i]).told = sessions[i].told
    BY <1>2 DEF CrashRow, Session
  <2> QED BY <1>1, <1>2, <2>1
<1>4. /\ sessions'[n + 1].boot = b
      /\ sessions'[n + 1].told = (b # NULL /\ metaBoot # NULL /\ b # metaBoot)
  BY <1>1 DEF NewRow
<1> HIDE DEF n
<1>5. ASSUME NEW i \in 1..n
      PROVE  sessions'[i].told =
                \E j \in 1..(i - 1) :
                    /\ sessions'[i].boot # NULL /\ sessions'[j].boot # NULL
                    /\ sessions'[i].boot # sessions'[j].boot
                    /\ \A k \in (j + 1)..(i - 1) : sessions'[k].boot = NULL
  <2>1. \A j \in 1..(i - 1) : j \in 1..n /\ sessions'[j].boot = sessions[j].boot
    BY <1>2, <1>3
  <2>2. \A j \in 1..(i - 1) : \A k \in (j + 1)..(i - 1) : k \in 1..(i - 1)
    BY <1>2
  <2>3. sessions[i].told =
            \E j \in 1..(i - 1) :
                /\ sessions[i].boot # NULL /\ sessions[j].boot # NULL
                /\ sessions[i].boot # sessions[j].boot
                /\ \A k \in (j + 1)..(i - 1) : sessions[k].boot = NULL
    BY <1>2 DEF BootEvidence
  <2>4. sessions'[i].told = sessions[i].told /\ sessions'[i].boot = sessions[i].boot
    BY <1>3
  <2> QED BY <2>1, <2>2, <2>3, <2>4, Zenon
<1>6. (b # NULL /\ metaBoot # NULL /\ b # metaBoot) <=>
         \E j \in 1..n : /\ b # NULL /\ sessions[j].boot # NULL
                         /\ b # sessions[j].boot
                         /\ \A k \in (j + 1)..n : sessions[k].boot = NULL
  <2>1. CASE metaBoot = NULL /\ \A i \in 1..n : sessions[i].boot = NULL
    BY <2>1
  <2>2. CASE \E i \in 1..n : /\ sessions[i].boot = metaBoot /\ metaBoot # NULL
                             /\ \A k \in 1..n : k > i => sessions[k].boot = NULL
    <3>1. PICK m \in 1..n : /\ sessions[m].boot = metaBoot /\ metaBoot # NULL
                            /\ \A k \in 1..n : k > m => sessions[k].boot = NULL
      BY <2>2
    <3>2. \A k \in (m + 1)..n : sessions[k].boot = NULL
      BY <1>2, <3>1
    <3>3. ASSUME NEW j \in 1..n, sessions[j].boot # NULL,
                 \A k \in (j + 1)..n : sessions[k].boot = NULL
          PROVE  j = m
      <4>1. ~(j > m)
        BY <3>1, <3>3
      <4>2. ~(m > j)
        <5>1. m > j => m \in (j + 1)..n
          BY <1>2
        <5> QED BY <3>1, <3>3, <5>1
      <4> QED BY <1>2, <4>1, <4>2
    <3> QED BY <3>1, <3>2, <3>3
  <2> QED BY <1>2, <2>1, <2>2 DEF MetaIsLastKnown
<1>7. sessions'[n + 1].told =
         \E j \in 1..((n + 1) - 1) :
             /\ sessions'[n + 1].boot # NULL /\ sessions'[j].boot # NULL
             /\ sessions'[n + 1].boot # sessions'[j].boot
             /\ \A k \in (j + 1)..((n + 1) - 1) : sessions'[k].boot = NULL
  <2>1. (n + 1) - 1 = n
    BY <1>2
  <2>2. \A j \in 1..n : \A k \in (j + 1)..n : k \in 1..n
    BY <1>2
  <2>3. \A k \in 1..n : sessions'[k].boot = sessions[k].boot
    BY <1>3
  <2>4. (\E j \in 1..n : /\ b # NULL /\ sessions[j].boot # NULL
                         /\ b # sessions[j].boot
                         /\ \A k \in (j + 1)..n : sessions[k].boot = NULL)
        <=> (\E j \in 1..n : /\ b # NULL /\ sessions'[j].boot # NULL
                             /\ b # sessions'[j].boot
                             /\ \A k \in (j + 1)..n : sessions'[k].boot = NULL)
    BY <2>2, <2>3, Zenon
  <2> QED BY <1>4, <1>6, <2>1, <2>4, Zenon
<1>8. BootEvidence'
  <2>1. \A i \in 1..(n + 1) : i \in 1..n \/ i = n + 1
    BY <1>2
  <2>2. DOMAIN sessions' = 1..(n + 1)
    BY <1>1 DEF n
  <2> QED BY <1>5, <1>7, <2>1, <2>2, Zenon DEF BootEvidence
<1>9. MetaIsLastKnown'
  <2>0. DOMAIN sessions' = 1..(n + 1) /\ DOMAIN sessions = 1..n /\ n \in Nat
    BY <1>1, <1>2 DEF n
  <2>1. CASE b # NULL
    <3>1. n + 1 \in 1..(n + 1) /\ \A k \in 1..(n + 1) : ~(k > n + 1)
      BY <2>0
    <3>2. metaBoot' = b /\ sessions'[n + 1].boot = b
      BY <1>1, <1>4, <2>1
    <3> QED BY <2>0, <2>1, <3>1, <3>2 DEF MetaIsLastKnown
  <2>2. CASE b = NULL
    <3>1. metaBoot' = metaBoot /\ sessions'[n + 1].boot = NULL
      BY <1>1, <1>4, <2>2
    <3>2. CASE metaBoot = NULL /\ \A i \in 1..n : sessions[i].boot = NULL
      <4>1. \A i \in 1..(n + 1) : sessions'[i].boot = NULL
        BY <1>3, <2>0, <3>1, <3>2
      <4> QED BY <2>0, <3>1, <3>2, <4>1 DEF MetaIsLastKnown
    <3>3. CASE \E i \in 1..n : /\ sessions[i].boot = metaBoot /\ metaBoot # NULL
                               /\ \A k \in 1..n : k > i => sessions[k].boot = NULL
      <4>1. PICK m \in 1..n : /\ sessions[m].boot = metaBoot /\ metaBoot # NULL
                              /\ \A k \in 1..n : k > m => sessions[k].boot = NULL
        BY <3>3
      <4>2. \A k \in 1..(n + 1) : k > m => sessions'[k].boot = NULL
        BY <1>3, <2>0, <3>1, <4>1
      <4>3. m \in 1..(n + 1) /\ sessions'[m].boot = metaBoot'
        BY <1>3, <2>0, <3>1, <4>1
      <4> QED BY <2>0, <3>1, <4>1, <4>2, <4>3 DEF MetaIsLastKnown
    <3> QED BY <2>0, <3>2, <3>3 DEF MetaIsLastKnown
  <2> QED BY <2>1, <2>2
<1> QED BY <1>8, <1>9

LEMMA BootKept ==
    ASSUME SDTypeOK, BootEvidence, MetaIsLastKnown,
           DOMAIN sessions' = DOMAIN sessions, metaBoot' = metaBoot,
           \A i \in DOMAIN sessions : /\ sessions'[i].boot = sessions[i].boot
                                      /\ sessions'[i].told = sessions[i].told
    PROVE  BootEvidence' /\ MetaIsLastKnown'
<1>1. \A i \in DOMAIN sessions : \A j \in 1..(i - 1) : j \in DOMAIN sessions
  BY Rows
<1>2. \A i \in DOMAIN sessions : \A j \in 1..(i - 1) : \A k \in (j + 1)..(i - 1) :
         k \in 1..(i - 1)
  BY Rows
<1>3. BootEvidence'
  <2> SUFFICES ASSUME NEW i \in DOMAIN sessions
               PROVE  sessions'[i].told =
                        \E j \in 1..(i - 1) :
                            /\ sessions'[i].boot # NULL /\ sessions'[j].boot # NULL
                            /\ sessions'[i].boot # sessions'[j].boot
                            /\ \A k \in (j + 1)..(i - 1) : sessions'[k].boot = NULL
    BY DEF BootEvidence
  <2>1. sessions[i].told =
            \E j \in 1..(i - 1) :
                /\ sessions[i].boot # NULL /\ sessions[j].boot # NULL
                /\ sessions[i].boot # sessions[j].boot
                /\ \A k \in (j + 1)..(i - 1) : sessions[k].boot = NULL
    BY DEF BootEvidence
  <2>2. \A j \in 1..(i - 1) : sessions'[j].boot = sessions[j].boot
    BY <1>1
  <2>3. sessions'[i].told = sessions[i].told /\ sessions'[i].boot = sessions[i].boot
    OBVIOUS
  <2>4. \A j \in 1..(i - 1) : \A k \in (j + 1)..(i - 1) : k \in 1..(i - 1)
    BY <1>2
  <2> QED BY <2>1, <2>2, <2>3, <2>4, ZenonT(30)
<1>4. MetaIsLastKnown'
  BY DEF MetaIsLastKnown
<1> QED BY <1>3, <1>4

LEMMA BootStep ==
    ASSUME SDTypeOK, BootEvidence, MetaIsLastKnown, [Next]_vars
    PROVE  BootEvidence' /\ MetaIsLastKnown'
<1> USE DEF disk, host, proc
<1>1. ASSUME UNCHANGED <<sessions, metaBoot>> PROVE BootEvidence' /\ MetaIsLastKnown'
  BY <1>1, BootKept
<1>2. CASE UNCHANGED vars \/ Reboot \/ Tick
  BY <1>1, <1>2 DEF vars, Reboot, Tick
<1>3. ASSUME NEW p \in Proc,
             \/ OpenLockFile(p) \/ LockExclusive(p) \/ LockRefused(p) \/ NameOwner(p)
             \/ OpenDatabase(p) \/ OpenFails(p) \/ PrivateDatabase(p) \/ Close(p)
             \/ CloseConnections(p) \/ Release(p) \/ Exit(p)
      PROVE  BootEvidence' /\ MetaIsLastKnown'
  BY <1>1, <1>3 DEF OpenLockFile, LockExclusive, LockRefused, NameOwner, OpenDatabase,
                    OpenFails, PrivateDatabase, Close, CloseConnections, Release, Exit
<1>4. ASSUME NEW p \in Proc, StartSession(p) PROVE BootEvidence' /\ MetaIsLastKnown'
  BY <1>4, BootStart
<1>5. ASSUME NEW p \in Proc, TouchSession(p) \/ StopSession(p)
      PROVE  BootEvidence' /\ MetaIsLastKnown'
  <2>1. mine[p] \in OpenRows /\ sessions[mine[p]] \in Session /\ metaBoot' = metaBoot
    BY <1>5, Rows DEF TouchSession, StopSession, OpenRows
  <2>2. PICK r \in Session : /\ sessions' = [sessions EXCEPT ![mine[p]] = r]
                             /\ r.boot = sessions[mine[p]].boot
                             /\ r.told = sessions[mine[p]].told
    <3>1. CASE TouchSession(p)
      <4> DEFINE r == [sessions[mine[p]] EXCEPT !.seen = now]
      <4>1. r \in Session /\ sessions' = [sessions EXCEPT ![mine[p]] = r]
        BY <3>1, TouchedRow
      <4>2. r.boot = sessions[mine[p]].boot /\ r.told = sessions[mine[p]].told
        BY <2>1 DEF Session
      <4> HIDE DEF r
      <4> QED BY <4>1, <4>2
    <3>2. CASE StopSession(p)
      <4> DEFINE r == [sessions[mine[p]] EXCEPT !.stopped = now, !.seen = now,
                                                !.reason = "clean"]
      <4>1. r \in Session /\ sessions' = [sessions EXCEPT ![mine[p]] = r]
        BY <3>2, StoppedRow
      <4>2. r.boot = sessions[mine[p]].boot /\ r.told = sessions[mine[p]].told
        BY <2>1 DEF Session
      <4> HIDE DEF r
      <4> QED BY <4>1, <4>2
    <3> QED BY <1>5, <3>1, <3>2
  <2>3. /\ DOMAIN sessions' = DOMAIN sessions
        /\ \A j \in DOMAIN sessions :
              sessions'[j] = IF j = mine[p] THEN r ELSE sessions[j]
    BY <2>1, <2>2, OwnRow
  <2> QED BY <2>1, <2>2, <2>3, BootKept
<1> QED BY <1>2, <1>3, <1>4, <1>5 DEF Next

-----------------------------------------------------------------------------
(* The theorems. *)

LEMMA SDInvInit == Init => SDInv
<1> SUFFICES ASSUME Init PROVE SDInv
  OBVIOUS
<1>1. DOMAIN sessions = {} /\ sessions = << >>
  BY DEF Init
<1>2. LockInv
  BY StateDirAssumption DEF Init, LockInv, EveryLockIsInUse, Holding, Connected
<1>3. ModeInv
  BY <1>1 DEF Init, ModeInv, PrivateBeforeData
<1>4. RowInv
  BY <1>1 DEF Init, RowInv, SessionsInOrder, PastRows, CrashIsFollowed
<1>5. BootEvidence /\ MetaIsLastKnown
  BY <1>1 DEF Init, BootEvidence, MetaIsLastKnown
<1> QED BY <1>2, <1>3, <1>4, <1>5, SDTypeInit DEF SDInv

LEMMA SDInvStep == SDInv /\ [Next]_vars => SDInv'
<1> SUFFICES ASSUME SDInv, [Next]_vars PROVE SDInv'
  OBVIOUS
<1>1. SDTypeOK'
  BY SDTypeStep DEF SDInv
<1> QED BY <1>1, LockStep, ModeStep, RowStep, BootStep DEF SDInv

\* Every reachable state satisfies the inductive invariant.
THEOREM StateDirInvariant == Spec => []SDInv
<1> QED BY SDInvInit, SDInvStep, PTL DEF Spec

\* One process at a time is between OpenState and Close, and no flock is left
\* behind, whoever is killed, refused or fails to open (statelock.go).
THEOREM OneWriterAtATime == Spec => []OneWriterPerLock
<1>1. SDInv => OneWriterPerLock
  <2> SUFFICES ASSUME SDInv PROVE OneWriterPerLock
    OBVIOUS
  <2>1. OneWriter
    BY OneHolder DEF SDInv, OneWriter, Holding
  <2> QED BY <2>1 DEF SDInv, LockInv, OneWriterPerLock
<1> QED BY <1>1, StateDirInvariant, PTL

\* No session is recorded in a database that others can read (openstate.go).
THEOREM DataIsPrivate == Spec => []PrivateBeforeData
<1>1. SDInv => PrivateBeforeData
  BY DEF SDInv, ModeInv
<1> QED BY <1>1, StateDirInvariant, PTL

\* The rows of daemon_sessions name the living daemon, every crash and every
\* restart of the machine, for any number of sessions (session.go).
THEOREM SessionsAreTrue == Spec => []SessionsTellTheTruth
<1>1. SDInv => SessionsTellTheTruth
  <2> SUFFICES ASSUME SDInv PROVE SessionsTellTheTruth
    OBVIOUS
  <2>1. LiveSessionIsOpen
    BY DEF SDInv, RowInv, SessionsInOrder, LiveSessionIsOpen, OpenRows
  <2> QED BY <2>1 DEF SDInv, RowInv, SessionsTellTheTruth
<1> QED BY <1>1, StateDirInvariant, PTL

\* Who is refused learns of the session that lives, and no step rewrites a row
\* that was closed (lockOwner, StartSession).
THEOREM HistoryIsKept == Spec => HistoryOfSessions
<1> DEFINE Owner == \A p \in Proc : \A q \in Proc :
                        named'[p] # named[p] /\ named'[p] # NULL /\ mine[q] # NULL
                            => named'[p] = mine[q]
           Stay == \A i \in DOMAIN sessions : sessions[i].stopped # NULL =>
                        /\ i \in DOMAIN sessions'
                        /\ sessions'[i] = sessions[i]
<1>1. SDInv /\ [Next]_vars => Owner
  <2> SUFFICES ASSUME SDInv, [Next]_vars, NEW p \in Proc, NEW q \in Proc,
                      named'[p] # named[p], named'[p] # NULL, mine[q] # NULL
               PROVE  named'[p] = mine[q]
    BY DEF Owner
  <2> USE DEF disk, host, proc, Goto
  <2>1. named' # named
    OBVIOUS
  <2>2. PICK o \in Proc : NameOwner(o)
    BY <2>1 DEF Next, vars, Reboot, Tick, Gone, Exit, OpenLockFile, LockExclusive,
         LockRefused, OpenDatabase, OpenFails, PrivateDatabase, StartSession,
         TouchSession, StopSession, Close, CloseConnections, Release
  <2>3. named'[p] \in OpenRows
    BY <2>1, <2>2 DEF NameOwner, SDInv, SDTypeOK
  <2>4. mine[q] \in OpenRows
    BY DEF SDInv, RowInv
  <2> QED BY <2>3, <2>4, OpenRowIsLast DEF SDInv
<1>2. SDInv /\ [Next]_vars => Stay
  <2> SUFFICES ASSUME SDInv, [Next]_vars, NEW i \in DOMAIN sessions,
                      sessions[i].stopped # NULL
               PROVE  i \in DOMAIN sessions' /\ sessions'[i] = sessions[i]
    BY DEF Stay
  <2>0. SDTypeOK /\ i \notin OpenRows
    BY DEF SDInv, OpenRows
  <2> USE DEF disk, host, proc
  <2>1. CASE sessions' = sessions
    BY <2>1
  <2>2. ASSUME NEW p \in Proc, StartSession(p)
        PROVE  i \in DOMAIN sessions' /\ sessions'[i] = sessions[i]
    BY <2>0, <2>2, StartedRows, Rows
  <2>3. ASSUME NEW p \in Proc, TouchSession(p) \/ StopSession(p)
        PROVE  i \in DOMAIN sessions' /\ sessions'[i] = sessions[i]
    <3>1. mine[p] \in OpenRows
      BY <2>3 DEF TouchSession, StopSession
    <3>2. PICK r \in Session : sessions' = [sessions EXCEPT ![mine[p]] = r]
      BY <2>0, <2>3, TouchedRow, StoppedRow
    <3> QED BY <2>0, <3>1, <3>2, OwnRow
  <2> QED
    BY <2>1, <2>2, <2>3 DEF Next, vars, Reboot, Tick, Exit, OpenLockFile,
       LockExclusive, LockRefused, NameOwner, OpenDatabase, OpenFails,
       PrivateDatabase, Close, CloseConnections, Release
<1>3. SDInv /\ [Next]_vars => [Owner]_vars /\ [Stay]_vars
  BY <1>1, <1>2
<1> QED
  BY <1>3, StateDirInvariant, PTL
  DEF Spec, HistoryOfSessions, OwnerIsTheLiveSession, EndedSessionsStay
=============================================================================
