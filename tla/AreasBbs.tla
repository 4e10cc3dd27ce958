------------------------------ MODULE AreasBbs ------------------------------
(***************************************************************************)
(* The file areas.bbs, and the programs that read it when they start and   *)
(* rewrite it when they end: ftntoss, ftnaf -m, ftnafpkt and ftnafutil,    *)
(* with areas.bbs.lock in between.  The new file is written as areas.new;  *)
(* then the saved files areas.o01 to areas.oNN are renumbered, and the old *)
(* and the new one renamed, without a look at what rename() returns.       *)
(*                                                                         *)
(* A file is the set of the changes it contains.  The writes of a program   *)
(* to areas.new are one step.                                              *)
(***************************************************************************)
EXTENDS Naturals

CONSTANTS
  Prog,       \* processes
  NONE,       \* no process, no file
  N_HISTORY,  \* saved files; 5 in the source
  MaxChange,  \* bound: changes of the list
  MaxFault    \* bound: kills, failing calls, short writes

ASSUME ConstantsAssumption ==
  /\ NONE \notin Prog
  /\ \A f \in SUBSET (1..MaxChange) : f # NONE
  /\ N_HISTORY \in Nat \ {0} /\ MaxChange \in Nat /\ MaxFault \in Nat

Change == 1..MaxChange
Saved  == 1..N_HISTORY

VARIABLES
  bbs, new, \* areas.bbs and areas.new
  old,      \* areas.o01, ...
  lock,     \* owner of areas.bbs.lock
  pc,
  list,     \* areasbbs_list, with the change of the program in it
  from,     \* the saved file that areasbbs_rewrite() renames next
  made,     \* the last change
  done,     \* changes that have been in areas.bbs
  faults,
  torn,     \* a fault has left no areas.bbs, or one cut short
  since,    \* how often the saved files were renumbered after that
  bypassed  \* a program has gone to work without the lock

files == <<bbs, new, old>>
vars  == <<files, lock, pc, list, from, made, done, faults, torn, since,
          bypassed>>

File == {NONE} \cup SUBSET Change

BbsLock == INSTANCE Mutex WITH Proc <- Prog, owner <- lock, NoOwner <- NONE

Init ==
  /\ bbs = {}
  /\ new = NONE
  /\ old = [i \in Saved |-> NONE]
  /\ lock = NONE
  /\ pc = [p \in Prog |-> "idle"]
  /\ list = [p \in Prog |-> {}]
  /\ from = [p \in Prog |-> 0]
  /\ made = 0
  /\ done = {}
  /\ faults = 0
  /\ torn = FALSE
  /\ since = 0
  /\ bypassed = FALSE

Goto(p, l) == pc' = [pc EXCEPT ![p] = l]

\* Bounds: MaxFault, and no fault together with a program that has no lock.
Fault == ~bypassed /\ faults < MaxFault /\ faults' = faults + 1

-----------------------------------------------------------------------------
\* lock_path() of areas.bbs.lock
Begin(p) ==
  /\ pc[p] = "idle"
  /\ BbsLock!Acquire(p)
  /\ Goto(p, "read")
  /\ UNCHANGED <<files, list, from, made, done, faults, torn, since, bypassed>>

\* ftnaf with a command, and ftnafpkt with packets, on its command line: no lock
\* is created.  Bound: one such run, without faults.
BeginCommand(p) ==
  /\ pc[p] = "idle"
  /\ ~bypassed /\ faults = 0
  /\ bypassed' = TRUE
  /\ Goto(p, "read")
  /\ UNCHANGED <<files, lock, list, from, made, done, faults, torn, since>>

\* areasbbs_init(): a list that is not there is taken for an empty one.
ReadList(p) ==
  /\ pc[p] = "read"
  /\ list' = [list EXCEPT ![p] = IF bbs = NONE THEN {} ELSE bbs]
  /\ Goto(p, "work")
  /\ UNCHANGED <<files, lock, from, made, done, faults, torn, since, bypassed>>

\* The program changes its list, and calls areasbbs_changed().
ChangeList(p) ==
  /\ pc[p] = "work" /\ made < MaxChange
  /\ made' = made + 1
  /\ list' = [list EXCEPT ![p] = @ \cup {made + 1}]
  /\ Goto(p, "write")
  /\ UNCHANGED <<files, lock, from, done, faults, torn, since, bypassed>>

\* Nothing has changed: areasbbs_rewrite() does nothing.
NoChange(p) ==
  /\ pc[p] = "work"
  /\ Goto(p, "unlock")
  /\ UNCHANGED <<files, lock, list, from, made, done, faults, torn, since,
                 bypassed>>

\* areasbbs_rewrite(): areas.new is written and closed.
WriteNew(p) ==
  /\ pc[p] = "write"
  /\ new' = list[p]
  /\ Goto(p, "drop")
  /\ UNCHANGED <<bbs, old, lock, list, from, made, done, faults, torn, since,
                 bypassed>>

\* fopen() or fclose() fails: areas.bbs stays as it is, the change is lost.
WriteFails(p) ==
  /\ pc[p] = "write"
  /\ Fault
  /\ new' \in {new, NONE}
  /\ Goto(p, "unlock")
  /\ UNCHANGED <<bbs, old, lock, list, from, made, done, torn, since, bypassed>>

\* A write fails before the last: areasbbs_print() returns what ferror() does,
\* which is not ERROR, and a list cut short is used as the new one.
WriteShort(p) ==
  /\ pc[p] = "write"
  /\ Fault
  /\ \E part \in SUBSET list[p] \ {list[p]} : new' = part
  /\ torn' = TRUE
  /\ Goto(p, "drop")
  /\ UNCHANGED <<bbs, old, lock, list, from, made, done, since, bypassed>>

\* unlink() of the last saved file
DropOldest(p) ==
  /\ pc[p] = "drop"
  /\ old' = [old EXCEPT ![N_HISTORY] = NONE]
  /\ from' = [from EXCEPT ![p] = N_HISTORY - 1]
  /\ since' = IF torn /\ since < N_HISTORY THEN since + 1 ELSE since
  /\ Goto(p, "shift")
  /\ UNCHANGED <<bbs, new, lock, list, made, done, faults, torn, bypassed>>

\* rename() of a saved file that is there, from a number to another.
Move(f, i, j) == IF f[i] = NONE THEN f ELSE [f EXCEPT ![j] = f[i], ![i] = NONE]

\* Mutant: each saved file replaces the next, from the first on.
ShiftUp(p) ==
  /\ pc[p] = "shift" /\ from[p] > 0
  /\ old' = Move(old, N_HISTORY - from[p], N_HISTORY - from[p] + 1)
  /\ from' = [from EXCEPT ![p] = @ - 1]
  /\ UNCHANGED <<bbs, new, lock, pc, list, made, done, faults, torn, since,
                 bypassed>>

\* rename() of areas.oNN to the number after it
Shift(p) ==
  /\ pc[p] = "shift" /\ from[p] > 0
  /\ old' = Move(old, from[p], from[p] + 1)
  /\ from' = [from EXCEPT ![p] = @ - 1]
  /\ UNCHANGED <<bbs, new, lock, pc, list, made, done, faults, torn, since,
                 bypassed>>

\* rename() of areas.bbs to areas.o01
SaveOld(p) ==
  /\ pc[p] = "shift" /\ from[p] = 0
  /\ IF bbs = NONE THEN UNCHANGED <<bbs, old>>
     ELSE bbs' = NONE /\ old' = [old EXCEPT ![1] = bbs]
  /\ Goto(p, "install")
  /\ UNCHANGED <<new, lock, list, from, made, done, faults, torn, since,
                 bypassed>>

\* rename() of areas.new to areas.bbs
Install(p) ==
  /\ pc[p] = "install"
  /\ IF new = NONE THEN UNCHANGED <<bbs, new, done>>
     ELSE bbs' = new /\ new' = NONE /\ done' = done \cup new
  /\ Goto(p, "unlock")
  /\ UNCHANGED <<old, lock, list, from, made, faults, torn, since, bypassed>>

Forget(p) ==
  /\ list' = [list EXCEPT ![p] = {}]
  /\ from' = [from EXCEPT ![p] = 0]
  /\ Goto(p, "idle")

\* unlock_path()
Unlock(p) ==
  /\ pc[p] = "unlock"
  /\ lock' = IF lock = p THEN NONE ELSE lock
  /\ Forget(p)
  /\ UNCHANGED <<files, made, done, faults, torn, since, bypassed>>

\* The process is killed; its lock file names a dead process, and is as good as
\* none (LockFile).
Kill(p) ==
  /\ pc[p] # "idle"
  /\ Fault
  /\ lock' = IF lock = p THEN NONE ELSE lock
  /\ torn' = (torn \/ pc[p] = "install")
  /\ Forget(p)
  /\ UNCHANGED <<files, made, done, since, bypassed>>

Next == \E p \in Prog :
  \/ Begin(p) \/ BeginCommand(p)
  \/ ReadList(p) \/ ChangeList(p) \/ NoChange(p)
  \/ WriteNew(p) \/ WriteFails(p) \/ WriteShort(p)
  \/ DropOldest(p) \/ Shift(p) \/ SaveOld(p) \/ Install(p)
  \/ Unlock(p) \/ Kill(p)

Spec == Init /\ [][Next]_vars

-----------------------------------------------------------------------------
TypeOK ==
  /\ {bbs, new} \subseteq File
  /\ old \in [Saved -> File]
  /\ lock \in Prog \cup {NONE}
  /\ pc \in [Prog -> {"idle", "read", "work", "write", "drop", "shift",
                      "install", "unlock"}]
  /\ list \in [Prog -> SUBSET Change]
  /\ from \in [Prog -> 0..(N_HISTORY - 1)]
  /\ made \in 0..MaxChange /\ done \subseteq Change
  /\ faults \in 0..MaxFault /\ since \in 0..N_HISTORY
  /\ {torn, bypassed} \subseteq BOOLEAN

\* The list a program finds, or that was last in the way of the next.
Current == IF bbs = NONE THEN old[1] ELSE bbs

\* What may be gone from areas.bbs is in a saved file, until programs have
\* renumbered these N_HISTORY times.
InSavedFiles ==
  since < N_HISTORY =>
    \A c \in done : \/ bbs # NONE /\ c \in bbs
                    \/ \E i \in Saved : old[i] # NONE /\ c \in old[i]

AlwaysKept == IF torn THEN InSavedFiles ELSE done \subseteq Current

\* As long as every program takes the lock, no change is lost between two of
\* them, nor by one that is killed between the renames it makes before and
\* after.  If it is killed between the last two, or the list was cut short, the
\* saved files have what is gone.
ChangesKept == bypassed \/ AlwaysKept
=============================================================================
