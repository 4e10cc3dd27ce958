----------------------------- MODULE HistoryDb ------------------------------
(***************************************************************************)
(* A message history: the text file, one line per message let through, its *)
(* index (.dir and .pag, kept by common/dbz.c) and the programs that use   *)
(* it under the lock LOCK_HISTORY: ftntoss on the MSGID history, ftntick   *)
(* on the TIC history, ftnexpire on either.                                *)
(*                                                                         *)
(* A line of the text is durable as soon as it is written; the index is    *)
(* loaded into core by hi_init(), changed there, and written back by       *)
(* hi_close().  Where a key hashes to is left out: the index is the set of *)
(* the offsets (line numbers) it holds, and a key is found when one of     *)
(* them is a line of that key.  A file that ftnexpire has replaced by      *)
(* rename() lives on for whoever has it open, so a file is named by its    *)
(* generation.                                                             *)
(***************************************************************************)
EXTENDS Naturals, Sequences

CONSTANTS
  Toss, Tick, Expire,   \* processes running ftntoss, ftntick, ftnexpire
  Id,                   \* the keys: AREA MSGID, or area, origin, file and crc
  NoOne,                \* no process, no key
  Serial,               \* whether all ftntoss lock the same areas.bbs
  MaxLen, MaxExpire     \* bounds: lines of one text file, runs of ftnexpire

Proc == Toss \cup Tick \cup Expire
Gen  == 0..MaxExpire
Line == 1..MaxLen

ASSUME ConstantsAssumption ==
  /\ Toss \cap Tick = {} /\ Toss \cap Expire = {} /\ Tick \cap Expire = {}
  /\ NoOne \notin Proc \cup Id
  /\ Serial \in BOOLEAN
  /\ MaxLen \in Nat /\ MaxExpire \in Nat

VARIABLES
  users,  \* the program that uses this history besides ftnexpire
  lock,   \* owner of the lock LOCK_HISTORY
  prog,   \* owner of areas.bbs.lock (ftntoss) or of the lock ftntick
  text,   \* the lines of each generation of the text file
  pag,    \* the offsets in each generation of the index file
  tname,  \* the generation the name of the text file refers to
  pname,  \* the generation the name of the index file refers to
  made,   \* the last generation made
  step,
  file,   \* hi_file and basef: the generation of the text a process has open
  index,  \* pagf: the generation of the index a process has open
  core,   \* corepag: the index in core
  stored, \* written: dbzstore() has changed the index in core
  key,    \* the TIC file ftntick is at
  gap,    \* a failure has left the index short of the text
  blind   \* a process tests its keys with such an index, or passes one untested

files       == <<text, pag, tname, pname, made>>
open        == <<file, index, core, stored>>
historyvars == <<users, lock, prog, files, step, open, key, gap, blind>>

HistoryLock == INSTANCE Mutex WITH owner <- lock, NoOwner <- NoOne
ProgramLock == INSTANCE Mutex WITH owner <- prog, NoOwner <- NoOne

HistoryInit ==
  /\ users \in {Toss, Tick} \ {{}}
  /\ lock = NoOne
  /\ prog = NoOne
  /\ text = [g \in Gen |-> <<>>]
  /\ pag = [g \in Gen |-> {}]
  /\ tname = 0
  /\ pname = 0
  /\ made = 0
  /\ step = [p \in Proc |-> "idle"]
  /\ file = [p \in Proc |-> 0]
  /\ index = [p \in Proc |-> 0]
  /\ core = [p \in Proc |-> {}]
  /\ stored = [p \in Proc |-> FALSE]
  /\ key = [p \in Proc |-> NoOne]
  /\ gap = FALSE
  /\ blind = [p \in Proc |-> FALSE]

Goto(p, l) == step' = [step EXCEPT ![p] = l]

\* hi_test(): dbzfetch() reads the line at each offset the index gives.
Found(p, i) == \E o \in core[p] \cap DOMAIN text[file[p]] : text[file[p]][o] = i

\* dbzstore(): the offset o goes into the index in core.
StoreOffset(p, o) ==
  /\ core' = [core EXCEPT ![p] = @ \cup {o}]
  /\ stored' = [stored EXCEPT ![p] = TRUE]

\* hi_write_t(): the line is appended and flushed, the index changed in core.
WriteLine(p, i) ==
  /\ Len(text[file[p]]) < MaxLen
  /\ text' = [text EXCEPT ![file[p]] = Append(@, i)]
  /\ StoreOffset(p, Len(text[file[p]]) + 1)

\* Mutant: the index is not written back.
SyncNothing(p) == UNCHANGED pag

\* hi_close(): dbzsync() rewrites the whole index, if it has been changed.
SyncIndex(p) == IF stored[p] THEN pag' = [pag EXCEPT ![index[p]] = core[p]]
                             ELSE UNCHANGED pag

\* dbminit(): the index that has the name is opened and read into core.
LoadIndex(p) ==
  /\ index' = [index EXCEPT ![p] = pname]
  /\ core' = [core EXCEPT ![p] = pag[pname]]

\* hi_init()
OpenHistory(p) ==
  /\ file' = [file EXCEPT ![p] = tname]
  /\ LoadIndex(p)
  /\ UNCHANGED stored

\* dbmclose(), or the end of the process: nothing is open any more.
Closed(p) ==
  /\ file' = [file EXCEPT ![p] = 0]
  /\ index' = [index EXCEPT ![p] = 0]
  /\ core' = [core EXCEPT ![p] = {}]
  /\ stored' = [stored EXCEPT ![p] = FALSE]

\* p is done, or dead: the lock of its program is free.
Done(p) ==
  /\ prog' = IF prog = p THEN NoOne ELSE prog
  /\ key' = [key EXCEPT ![p] = NoOne]
  /\ blind' = [blind EXCEPT ![p] = FALSE]
  /\ Goto(p, "idle")

-----------------------------------------------------------------------------
\* Mutant: nothing keeps two runs of the program apart.
BeginAnyway(p) ==
  /\ p \in users
  /\ step[p] = "idle"
  /\ UNCHANGED prog
  /\ IF p \in Tick THEN \E i \in Id : key' = [key EXCEPT ![p] = i]
                   ELSE UNCHANGED key
  /\ Goto(p, "lock")
  /\ UNCHANGED <<users, lock, files, open, gap, blind>>

\* ftntoss takes areas.bbs.lock, ftntick the lock of its name; ftntick reads
\* a TIC file.
Begin(p) ==
  /\ p \in users
  /\ step[p] = "idle"
  /\ IF Serial THEN ProgramLock!Acquire(p) ELSE UNCHANGED prog
  /\ IF p \in Tick THEN \E i \in Id : key' = [key EXCEPT ![p] = i]
                   ELSE UNCHANGED key
  /\ Goto(p, "lock")
  /\ UNCHANGED <<users, lock, files, open, gap, blind>>

\* ftnexpire starts.
BeginExpire(p) ==
  /\ p \in Expire
  /\ step[p] = "idle"
  /\ made < MaxExpire
  /\ Goto(p, "lock")
  /\ UNCHANGED <<users, lock, prog, files, open, key, gap, blind>>

\* lock_program(cf_p_lock_history(), ...) returns OK, and the history is opened:
\* to test and, ftntoss, to write.
TakeLock(p) ==
  /\ p \notin Expire /\ step[p] = "lock"
  /\ HistoryLock!Acquire(p)
  /\ OpenHistory(p)
  /\ blind' = [blind EXCEPT ![p] = gap]
  /\ Goto(p, "test")
  /\ UNCHANGED <<users, prog, files, key, gap>>

\* The second time ftntick opens it, to write.
RetakeLock(p) ==
  /\ step[p] = "relock"
  /\ HistoryLock!Acquire(p)
  /\ OpenHistory(p)
  /\ Goto(p, "write")
  /\ UNCHANGED <<users, prog, files, key, gap, blind>>

\* Mutant: ftnexpire does without the history lock.
ExpireLockNot(p) ==
  /\ p \in Expire /\ step[p] = "lock"
  /\ Goto(p, "copy")
  /\ UNCHANGED <<users, lock, prog, files, open, key, gap, blind>>

ExpireLock(p) ==
  /\ p \in Expire /\ step[p] = "lock"
  /\ HistoryLock!Acquire(p)
  /\ Goto(p, "copy")
  /\ UNCHANGED <<users, prog, files, open, key, gap, blind>>

\* The history lock is taken and not waited for (NOWAIT; ftntick waits before
\* it writes, ftnexpire always): EXIT_BUSY.
Busy(p) ==
  /\ step[p] = "lock"
  /\ lock # NoOne
  /\ p \notin Expire
  /\ Done(p)
  /\ UNCHANGED <<users, lock, files, open, gap>>

\* do_echomail() tests the MSGID of one message and, when it is new, writes it.
TossMessage(p) ==
  /\ p \in Toss /\ step[p] = "test"
  /\ \E i \in Id : ~Found(p, i) /\ WriteLine(p, i)
  /\ UNCHANGED <<users, lock, prog, pag, tname, pname, made, step, file, index,
                 key, gap, blind>>

\* dbzstore() fails: the line stays and the index does not know it; hi_write()
\* returns ERROR, the packet becomes .bad and ftntoss goes on with the next.
StoreFails(p) ==
  /\ p \in Toss /\ step[p] = "test"
  /\ Len(text[file[p]]) < MaxLen
  /\ \E i \in Id : /\ ~Found(p, i)
                   /\ text' = [text EXCEPT ![file[p]] = Append(@, i)]
  /\ gap' = TRUE
  /\ UNCHANGED <<users, lock, prog, pag, tname, pname, made, step, open, key,
                 blind>>

\* ftntoss unlocks the history first and closes it afterwards.
TossUnlock(p) ==
  /\ p \in Toss /\ step[p] = "test"
  /\ HistoryLock!Release(p)
  /\ Goto(p, "close")
  /\ UNCHANGED <<users, prog, files, open, key, gap, blind>>

\* hi_close() and the end of ftntoss.
TossClose(p) ==
  /\ step[p] = "close"
  /\ SyncIndex(p)
  /\ Closed(p)
  /\ Done(p)
  /\ UNCHANGED <<users, lock, text, tname, pname, made, gap>>

\* ftntick_is_dupe(): test, close, unlock.  A dupe is done with.
TickDupe(p) ==
  /\ p \in Tick /\ step[p] = "test"
  /\ Found(p, key[p])
  /\ HistoryLock!Release(p)
  /\ Closed(p)
  /\ Done(p)
  /\ UNCHANGED <<users, files, gap>>

TickNew(p) ==
  /\ p \in Tick /\ step[p] = "test"
  /\ ~Found(p, key[p])
  /\ HistoryLock!Release(p)
  /\ Closed(p)
  /\ Goto(p, "relock")
  /\ UNCHANGED <<users, prog, files, key, gap, blind>>

\* A dupe that is to replace the file of its own name passes all the same.
TickReplaces(p) ==
  /\ p \in Tick /\ step[p] = "test"
  /\ Found(p, key[p])
  /\ HistoryLock!Release(p)
  /\ Closed(p)
  /\ blind' = [blind EXCEPT ![p] = TRUE]
  /\ Goto(p, "relock")
  /\ UNCHANGED <<users, prog, files, key, gap>>

\* ftntick_write_history(), after process_tic(): write, close, unlock.
TickWrite(p) ==
  /\ step[p] = "write"
  /\ WriteLine(p, key[p])
  /\ Goto(p, "written")
  /\ UNCHANGED <<users, lock, prog, pag, tname, pname, made, file, index, key,
                 gap, blind>>

TickClose(p) ==
  /\ step[p] = "written"
  /\ SyncIndex(p)
  /\ Closed(p)
  /\ HistoryLock!Release(p)
  /\ Done(p)
  /\ UNCHANGED <<users, text, tname, pname, made, gap>>

-----------------------------------------------------------------------------
\* Mutant: the new index has the offsets the lines had in the old text.
CopyOldOffsets(p) ==
  /\ step[p] = "copy" /\ made < MaxExpire
  /\ made' = made + 1
  /\ \E n \in 0..Len(text[tname]) :
       LET kept == SubSeq(text[tname], n + 1, Len(text[tname]))
       IN /\ text' = [text EXCEPT ![made + 1] = kept]
          /\ pag' = [pag EXCEPT ![made + 1] = n + 1..Len(text[tname])]
  /\ file' = [file EXCEPT ![p] = made + 1]
  /\ Goto(p, "rename")
  /\ UNCHANGED <<users, lock, prog, tname, pname, index, core, stored, key, gap,
                 blind>>

\* do_expire(): the lines that are not too old, which are the last ones, are
\* copied to a new text and stored in a new index, which dbzsync() writes.
CopyLines(p) ==
  /\ step[p] = "copy" /\ made < MaxExpire
  /\ made' = made + 1
  /\ \E n \in 0..Len(text[tname]) :
       LET kept == SubSeq(text[tname], n + 1, Len(text[tname]))
       IN /\ text' = [text EXCEPT ![made + 1] = kept]
          /\ pag' = [pag EXCEPT ![made + 1] = DOMAIN kept]
  /\ file' = [file EXCEPT ![p] = made + 1]
  /\ Goto(p, "rename")
  /\ UNCHANGED <<users, lock, prog, tname, pname, index, core, stored, key, gap,
                 blind>>

\* rename(history_n, history)
RenameText(p) ==
  /\ step[p] = "rename"
  /\ tname' = file[p]
  /\ Goto(p, "rename_pag")
  /\ UNCHANGED <<users, lock, prog, text, pag, pname, made, open, key, gap,
                 blind>>

\* rename() of the .dir and of the .pag file; the index is whole again.
RenameIndex(p) ==
  /\ step[p] = "rename_pag"
  /\ pname' = file[p]
  /\ gap' = FALSE
  /\ Goto(p, "unlock")
  /\ UNCHANGED <<users, lock, prog, text, pag, tname, made, open, key, blind>>

\* A rename() fails: the rest is not done.
RenameFails(p) ==
  /\ step[p] \in {"rename", "rename_pag"}
  /\ gap' = (gap \/ step[p] = "rename_pag")
  /\ Goto(p, "unlock")
  /\ UNCHANGED <<users, lock, prog, files, open, key, blind>>

ExpireUnlock(p) ==
  /\ step[p] = "unlock"
  /\ HistoryLock!Release(p)
  /\ Closed(p)
  /\ Done(p)
  /\ UNCHANGED <<users, files, gap>>

\* The death of p leaves the named index short of the named text: p has
\* stored lines it has not written back, or is between two renames.
LeavesGap(p) == \/ stored[p] /\ index[p] = pname
                \/ step[p] = "rename_pag"

\* A process is killed; the locks that name it are stale and so free.
KillProgram(p) ==
  /\ step[p] # "idle"
  /\ gap' = (gap \/ LeavesGap(p))
  /\ lock' = IF lock = p THEN NoOne ELSE lock
  /\ Closed(p)
  /\ Done(p)
  /\ UNCHANGED <<users, files>>

\* A process is killed while putcore() rewrites the index: a part is new.  A
\* slot of the table is never moved, so what both have stays.
KillInSync(p) ==
  /\ step[p] \in {"close", "written"}
  /\ stored[p]
  /\ \E new \in SUBSET (pag[index[p]] \cup core[p]) :
       /\ pag[index[p]] \cap core[p] \subseteq new
       /\ pag' = [pag EXCEPT ![index[p]] = new]
  /\ gap' = (gap \/ index[p] = pname)
  /\ lock' = IF lock = p THEN NoOne ELSE lock
  /\ Closed(p)
  /\ Done(p)
  /\ UNCHANGED <<users, text, tname, pname, made>>

HistoryNext ==
  \E p \in Proc :
    \/ Begin(p) \/ BeginExpire(p)
    \/ TakeLock(p) \/ RetakeLock(p) \/ ExpireLock(p) \/ Busy(p)
    \/ TossMessage(p) \/ StoreFails(p) \/ TossUnlock(p) \/ TossClose(p)
    \/ TickDupe(p) \/ TickNew(p) \/ TickReplaces(p)
    \/ TickWrite(p) \/ TickClose(p)
    \/ CopyLines(p) \/ RenameText(p) \/ RenameIndex(p) \/ RenameFails(p)
    \/ ExpireUnlock(p) \/ KillProgram(p) \/ KillInSync(p)

HistorySpec == HistoryInit /\ [][HistoryNext]_historyvars

-----------------------------------------------------------------------------
Control == {"idle", "lock", "relock", "test", "close", "write", "written",
            "copy", "rename", "rename_pag", "unlock"}

\* Every variable stays in its set; the lines of a text never pass MaxLen.
HistoryTypeOK ==
  /\ users \in {Toss, Tick}
  /\ lock \in Proc \cup {NoOne} /\ prog \in Proc \cup {NoOne}
  /\ text \in [Gen -> Seq(Id)] /\ \A g \in Gen : Len(text[g]) <= MaxLen
  /\ pag \in [Gen -> SUBSET Line]
  /\ tname \in Gen /\ pname \in Gen /\ made \in Gen
  /\ step \in [Proc -> Control]
  /\ file \in [Proc -> Gen] /\ index \in [Proc -> Gen]
  /\ core \in [Proc -> SUBSET Line] /\ stored \in [Proc -> BOOLEAN]
  /\ key \in [Proc -> Id \cup {NoOne}]
  /\ gap \in BOOLEAN /\ blind \in [Proc -> BOOLEAN]

Lines(g) == {text[g][o] : o \in DOMAIN text[g]}

\* No duplicate gets through (do_echomail(), ftntick_is_dupe()): a program that
\* has tested its keys, with a whole index, does not write a key that has a line
\* in the history, whoever wrote that line.
NoSecondLine ==
  [][\A p \in Toss \cup Tick :
       stored'[p] /\ core'[p] # core[p] /\ ~gap /\ ~blind[p]
       => text'[tname][Len(text'[tname])] \notin Lines(tname)]_historyvars

\* No entry is lost from the index although ftntoss closes the history after
\* it has unlocked it: short of a failure, every line of the text is in the
\* index on the disk, or in the one in core that a running program is going to
\* write over it.  (Between the two renames of ftnexpire the index is the old
\* one, and nobody looks at it.)
IndexCovers ==
  gap \/ (\E e \in Expire : step[e] = "rename_pag")
  \/ \A o \in DOMAIN text[tname] :
       \/ o \in pag[pname]
       \/ \E p \in Proc : stored[p] /\ index[p] = pname /\ o \in core[p]

\* ftnexpire drops only lines that are too old, also when it runs while a
\* program still has the history open: the text that takes the name is the end
\* of the one that had it.
ExpireKeeps ==
  [][tname' # tname =>
       \E n \in 0..Len(text[tname]) :
          text[tname'] = SubSeq(text[tname], n + 1, Len(text[tname]))]_historyvars

\* ftnexpire repairs what a failure has left: when it is done with the renames,
\* the index holds exactly the lines of the text.
ExpireRepairs ==
  [][\A p \in Expire : step[p] = "rename_pag" /\ pname' # pname
                        => pag[pname'] = DOMAIN text[tname]]_historyvars
=============================================================================
