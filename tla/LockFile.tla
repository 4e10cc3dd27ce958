------------------------------ MODULE LockFile ------------------------------
(***************************************************************************)
(* One lock file of LOCKDIR, areas.bbs.lock or a .bsy file, and the        *)
(* processes that create, inspect, break and remove it: common/lock.c as   *)
(* built by default (NFS_SAFE_LOCK_FILES undefined).  Every system call    *)
(* that reads or changes the directory entry or the file is a step of its  *)
(* own, and a process may be killed between any two of them.               *)
(***************************************************************************)
EXTENDS Naturals

CONSTANTS
  Proc,       \* processes, identified by their pid
  Inode,      \* inodes the name may refer to
  NIL,        \* no inode / no process
  EMPTY,      \* contents of a file nothing has been written to
  Waits,      \* values of the argument wait: NOWAIT, WAIT or seconds > 1
  CrashAt,    \* program counters at which a process may be killed
  PidReuse    \* whether the pid of a dead process is given out again

NOWAIT == 0
WAIT   == 1

\* Inside check_stale_lock(), after its fopen() has found a file.
Looking == {"read", "probe", "unlink"}
Control == {"idle", "open", "create", "write", "sleep", "held", "dead"} \cup Looking

ASSUME LockConstants ==
  /\ NIL \notin Proc \cup Inode
  /\ EMPTY \notin Proc
  /\ Waits \subseteq Nat
  /\ CrashAt \subseteq Control \ {"dead"}
  /\ PidReuse \in BOOLEAN

VARIABLES
  dir,    \* the inode the lock file's name refers to, or NIL
  data,   \* contents of each inode: the pid in its first line, or EMPTY
  fd,     \* the inode each process has open
  pid,    \* the pid check_stale_lock() has read
  wait,   \* the argument wait, counted down when it is a number of seconds
  timed,  \* wait_time: wait is a number of seconds
  at,
  outdated, \* history: who looks at a file the name no longer refers to
  raced     \* history: a create met a file, or an unlink met another file
            \* than the one that was looked at

history  == <<outdated, raced>>
lockvars == <<dir, data, fd, pid, wait, timed, at, history>>

LockInit ==
  /\ dir = NIL
  /\ data = [i \in Inode |-> EMPTY]
  /\ fd = [p \in Proc |-> NIL]
  /\ pid = [p \in Proc |-> NIL]
  /\ wait = [p \in Proc |-> NOWAIT]
  /\ timed = [p \in Proc |-> FALSE]
  /\ at = [p \in Proc |-> "idle"]
  /\ outdated = {}
  /\ raced = FALSE

Jump(p, l) == at' = [at EXCEPT ![p] = l]

Alive(p) == p \in Proc /\ at[p] # "dead"

\* Process p is no longer looking at a file.
Looked(p) == outdated' = outdated \ {p} /\ UNCHANGED raced

\* Process p makes the name refer to another file, or to none: what the others
\* are looking at is not the lock file any more.
Renewed(p) ==
  outdated' = IF dir' = dir THEN outdated \ {p}
              ELSE (outdated \cup {q \in Proc : at[q] \in Looking}) \ {p}

FreeInode == {i \in Inode : i # dir /\ \A p \in Proc : fd[p] # i}

\* lock_lockfile(name, w) is called.
Start(p) ==
  /\ at[p] = "idle"
  /\ \E w \in Waits : /\ wait' = [wait EXCEPT ![p] = w]
                      /\ timed' = [timed EXCEPT ![p] = w > WAIT]
  /\ Jump(p, "open")
  /\ UNCHANGED <<dir, data, fd, pid, history>>

\* Mutant: the lock is taken without looking at the file that is there.
OpenNoCheck(p) ==
  /\ at[p] = "open"
  /\ Jump(p, "create")
  /\ UNCHANGED <<dir, data, fd, pid, wait, timed, history>>

\* check_stale_lock(): fopen(name, "r"); ENOENT means unlocked.
Open(p) ==
  /\ at[p] = "open"
  /\ IF dir = NIL THEN Jump(p, "create") /\ UNCHANGED fd
                   ELSE Jump(p, "read") /\ fd' = [fd EXCEPT ![p] = dir]
  /\ UNCHANGED <<dir, data, pid, wait, timed, history>>

\* fgets() and fclose(): an empty file is LOCKFILE_ERROR, which
\* lock_lockfile() returns as ERROR whatever wait is.
Read(p) ==
  /\ at[p] = "read"
  /\ IF data[fd[p]] = EMPTY
       THEN Jump(p, "idle") /\ UNCHANGED pid
       ELSE Jump(p, "probe") /\ pid' = [pid EXCEPT ![p] = data[fd[p]]]
  /\ fd' = [fd EXCEPT ![p] = NIL]
  /\ UNCHANGED <<dir, data, wait, timed>>
  /\ IF at'[p] = "idle" THEN Looked(p) ELSE UNCHANGED history

\* Mutant: every lock file that names a process is taken for a stale one.
ProbeNoKill(p) ==
  /\ at[p] = "probe"
  /\ pid' = [pid EXCEPT ![p] = NIL]
  /\ Jump(p, "unlink")
  /\ UNCHANGED <<dir, data, fd, wait, timed, history>>

\* kill(pid, 0): a living process means LOCKFILE_LOCKED; NOWAIT gives up.
Probe(p) ==
  /\ at[p] = "probe"
  /\ pid' = [pid EXCEPT ![p] = NIL]
  /\ Jump(p, IF ~Alive(pid[p]) THEN "unlink"
             ELSE IF wait[p] = NOWAIT THEN "idle" ELSE "sleep")
  /\ UNCHANGED <<dir, data, fd, wait, timed>>
  /\ IF at'[p] = "unlink" THEN UNCHANGED history ELSE Looked(p)

\* unlink() of a lock found stale: whatever the name refers to by now.
Unlink(p) ==
  /\ at[p] = "unlink"
  /\ dir' = NIL
  /\ Jump(p, IF dir = NIL THEN "idle" ELSE "create")
  /\ UNCHANGED <<data, fd, pid, wait, timed>>
  /\ Renewed(p)
  /\ raced' = (raced \/ (dir # NIL /\ p \in outdated))

\* sleep(); a number of seconds is counted down to the end of the loop.
Sleep(p) ==
  /\ at[p] = "sleep"
  /\ wait' = IF timed[p] THEN [wait EXCEPT ![p] = @ - 1] ELSE wait
  /\ IF wait'[p] > 0 THEN Jump(p, "open") ELSE Jump(p, "idle")
  /\ UNCHANGED <<dir, data, fd, pid, timed, history>>

\* fopen(name, "w"): creates the file, or truncates the one that is there.
Create(p) ==
  /\ at[p] = "create"
  /\ \E i \in IF dir = NIL THEN FreeInode ELSE {dir} :
        /\ dir' = i
        /\ data' = [data EXCEPT ![i] = EMPTY]
        /\ fd' = [fd EXCEPT ![p] = i]
  /\ Jump(p, "write")
  /\ UNCHANGED <<pid, wait, timed>>
  /\ Renewed(p)
  /\ raced' = (raced \/ dir # NIL)

\* fprintf() of the pid reaches the file with fclose(); return OK.
Write(p) ==
  /\ at[p] = "write"
  /\ data' = [data EXCEPT ![fd[p]] = p]
  /\ fd' = [fd EXCEPT ![p] = NIL]
  /\ Jump(p, "held")
  /\ UNCHANGED <<dir, pid, wait, timed, history>>

\* unlock_lockfile(): unlink(name), whoever created the file.
UnlockLockfile(p) ==
  /\ at[p] = "held"
  /\ dir' = NIL
  /\ Jump(p, "idle")
  /\ UNCHANGED <<data, fd, pid, wait, timed>>
  /\ Renewed(p)
  /\ UNCHANGED raced

\* The process is killed, or exits without unlocking.
Crash(p) ==
  /\ at[p] \in CrashAt
  /\ fd' = [fd EXCEPT ![p] = NIL]
  /\ pid' = [pid EXCEPT ![p] = NIL]
  /\ Jump(p, "dead")
  /\ UNCHANGED <<dir, data, wait, timed>>
  /\ Looked(p)

\* A new process is given the pid of a dead one.
Respawn(p) ==
  /\ PidReuse
  /\ at[p] = "dead"
  /\ Jump(p, "idle")
  /\ UNCHANGED <<dir, data, fd, pid, wait, timed, history>>

LockLockfile(p) == \/ Open(p) \/ Read(p) \/ Probe(p) \/ Unlink(p)
                   \/ Sleep(p) \/ Create(p) \/ Write(p)

LockNext == \E p \in Proc : \/ Start(p) \/ LockLockfile(p) \/ UnlockLockfile(p)
                            \/ Crash(p) \/ Respawn(p)

LockSpec == LockInit /\ [][LockNext]_lockvars

-----------------------------------------------------------------------------
LockTypeOK ==
  /\ dir \in Inode \cup {NIL}
  /\ data \in [Inode -> Proc \cup {EMPTY}]
  /\ fd \in [Proc -> Inode \cup {NIL}]
  /\ pid \in [Proc -> Proc \cup {NIL}]
  /\ wait \in [Proc -> Nat]
  /\ timed \in [Proc -> BOOLEAN]
  /\ at \in [Proc -> Control]
  /\ outdated \subseteq Proc
  /\ raced \in BOOLEAN

Holders == {p \in Proc : at[p] = "held"}

\* lock_lockfile() has returned OK to at most one process that has not yet
\* unlocked: what every caller of lock_program() and lock_path() assumes.  The
\* code does not keep it.
MutualExclusion == \A p, q \in Holders : p = q

\* What the exclusion of lock_lockfile() is worth: it fails only after its
\* fopen(name, "w") has met a file that was not there when it looked, or its
\* unlink() another file than the one whose pid it has read.  Kills at any
\* point, a pid that is given out again and an unlock at the wrong time are not
\* enough.
ExclusiveUnlessRaced == raced \/ MutualExclusion

\* Process p holds the lock, its file is there and names it, and no other
\* process has yet decided, on an earlier look, to remove or to create a file.
Settled(p) ==
  /\ at[p] = "held"
  /\ dir # NIL /\ data[dir] = p
  /\ \A q \in Proc \ {p} :
       /\ at[q] \notin {"unlink", "create", "write", "held"}
       /\ at[q] = "read" => fd[q] = dir
       /\ at[q] = "probe" => pid[q] = p

\* A settled lock stays settled until its holder unlocks it or dies: no number
\* of later calls of lock_lockfile(), however they interleave, takes it away.
\* The races are between calls that look before the file is there.
SettledLockKept ==
  [][\A p \in Proc : Settled(p) /\ at'[p] = "held" => Settled(p)']_lockvars

\* "If a lock file already exists and contains pid of an existing process,
\* ftntoss and ftnafutil stop" (doc/old/README.snp.en): what is removed as a
\* stale lock is not the lock of a process that holds it, not even before any
\* other race.  The code does not keep it.
OnlyStaleRemoved ==
  [][\A p \in Proc : Unlink(p) /\ ~raced =>
       dir = NIL \/ data[dir] \notin Holders]_lockvars
=============================================================================
