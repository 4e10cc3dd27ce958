------------------------------- MODULE Mutex --------------------------------
(***************************************************************************)
(* What the callers of lock_program(), lock_path() and bink_bsy_create()   *)
(* rely on: a lock has at most one owner, only a free lock is taken, and   *)
(* only its owner gives it back.  The death of the owner frees the lock.   *)
(* It is what AreasBbs and HistoryDb take a lock for.  LockFile says when  *)
(* the code's lock file is one.                                            *)
(***************************************************************************)
CONSTANTS Proc,     \* the processes of the gateway (one per pid)
          NoOwner   \* the owner of a free lock

VARIABLE owner

\* lock_lockfile() or lock_lockfile_nfs() returned OK to p.
Acquire(p) == owner = NoOwner /\ owner' = p

\* p called unlock_lockfile(), or died while it held the lock.
Release(p) == owner = p /\ owner' = NoOwner
=============================================================================
