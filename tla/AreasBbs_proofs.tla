-------------------------- MODULE AreasBbs_proofs ---------------------------
(***************************************************************************)
(* For any number of programs that all take the lock, saved files, changes *)
(* and faults: no change of areas.bbs is forgotten.  And the lock file:    *)
(* for any processes, any inodes, any arguments wait and a process killed  *)
(* anywhere, which two races it takes to break it, and which locks cannot  *)
(* be broken.  And what the programs write: for any number of links,       *)
(* requests and messages under way the state of an area says what the      *)
(* uplink was asked last, and no link loses the area without being told.   *)
(***************************************************************************)
EXTENDS AreasBbs, LockFile, Areafix, TLAPS

\* Who is at work has the lock.
HasLock == \A p \in Prog : pc[p] # "idle" => lock = p

Rewriting == {"drop", "shift", "install"}

\* The files as areasbbs_rewrite() leaves them step by step: the new list is
\* there, the number after the next saved file is free, and in the end there is
\* no areas.bbs.
Steps ==
  \A p \in Prog :
    /\ pc[p] \in Rewriting => new # NONE
    /\ pc[p] = "shift" => old[from[p] + 1] = NONE
    /\ pc[p] = "install" => bbs = NONE

\* Without a fault at the wrong time, what is read, changed and written has all
\* changes in it.
Complete ==
  ~torn => \A p \in Prog :
    /\ pc[p] \in {"work", "write"} \cup Rewriting => done \subseteq list[p]
    /\ pc[p] \in Rewriting => new = list[p]

Installing == \E p \in Prog : pc[p] = "install"

Intact ==
  ~torn => IF Installing THEN old[1] # NONE /\ done \subseteq old[1]
                         ELSE bbs # NONE /\ done \subseteq bbs

\* A saved file with number i is not older than the fault, and a program that
\* is renumbering the saved files and has not come to it has counted itself.
Recent(i) ==
  /\ i <= since + 1
  /\ \A p \in Prog : pc[p] = "shift" /\ i <= from[p] => i <= since

Kept(c) ==
  \/ bbs # NONE /\ c \in bbs
  \/ \E i \in Saved : old[i] # NONE /\ c \in old[i] /\ Recent(i)

AllKept == torn /\ since < N_HISTORY => \A c \in done : Kept(c)

Guarded == HasLock /\ Steps /\ Complete /\ Intact /\ AllKept

IInv == TypeOK /\ (~bypassed => Guarded)

-----------------------------------------------------------------------------
\* While one program is at work, every other one waits.
LEMMA Alone ==
  ASSUME HasLock, NEW p \in Prog, pc[p] # "idle"
  PROVE  \A q \in Prog : q # p => pc[q] = "idle"
BY DEF HasLock

LEMMA InitIInv == Init => IInv
<1> SUFFICES ASSUME Init PROVE IInv  OBVIOUS
<1> USE DEF Init
<1>1. TypeOK
  <2>1. 0 \in 0..(N_HISTORY - 1) /\ 0 \in 0..MaxChange /\ 0 \in 0..MaxFault
        /\ 0 \in 0..N_HISTORY
    BY ConstantsAssumption
  <2>2. {bbs, new} \subseteq File /\ old \in [Saved -> File]
    BY DEF File
  <2> QED  BY <2>1, <2>2 DEF TypeOK
<1>2. HasLock /\ Steps /\ Complete /\ AllKept
  BY DEF HasLock, Steps, Complete, AllKept, Rewriting
<1>3. {} # NONE
  BY ConstantsAssumption
<1>4. Intact
  BY <1>3 DEF Intact, Installing
<1> QED  BY <1>1, <1>2, <1>4 DEF IInv, Guarded

\* The lock goes to nobody else while its owner is at work.
LEMMA StepOwner ==
  ASSUME TypeOK, Guarded, Next, ~bypassed' PROVE HasLock'
<1> USE DEF Guarded, TypeOK, HasLock, Goto
<1>1. PICK p \in Prog :
        \/ Begin(p) \/ ReadList(p) \/ ChangeList(p) \/ NoChange(p)
        \/ WriteNew(p) \/ WriteFails(p) \/ WriteShort(p)
        \/ DropOldest(p) \/ Shift(p) \/ SaveOld(p) \/ Install(p)
        \/ Unlock(p) \/ Kill(p)
  BY DEF Next, BeginCommand
<1>2. CASE Begin(p)
  BY <1>2, ConstantsAssumption DEF Begin, BbsLock!Acquire
<1>3. CASE ReadList(p) \/ ChangeList(p) \/ NoChange(p)
  BY <1>3 DEF ReadList, ChangeList, NoChange
<1>4. CASE WriteNew(p) \/ WriteFails(p) \/ WriteShort(p)
  BY <1>4 DEF WriteNew, WriteFails, WriteShort
<1>5. CASE DropOldest(p) \/ Shift(p) \/ SaveOld(p) \/ Install(p)
  BY <1>5 DEF DropOldest, Shift, SaveOld, Install
<1>6. CASE Unlock(p) \/ Kill(p)
  BY <1>6 DEF Unlock, Kill, Forget
<1> QED  BY <1>1, <1>2, <1>3, <1>4, <1>5, <1>6

LEMMA StepTypeOK ==
  ASSUME TypeOK, Next PROVE TypeOK'
<1> USE DEF TypeOK, Goto, files
<1>1. PICK p \in Prog :
        \/ Begin(p) \/ BeginCommand(p)
        \/ ReadList(p) \/ ChangeList(p) \/ NoChange(p)
        \/ WriteNew(p) \/ WriteFails(p) \/ WriteShort(p)
        \/ DropOldest(p) \/ Shift(p) \/ SaveOld(p) \/ Install(p)
        \/ Unlock(p) \/ Kill(p)
  BY DEF Next
<1>2. CASE Begin(p) \/ BeginCommand(p)
  BY <1>2 DEF Begin, BeginCommand, BbsLock!Acquire
<1>3. CASE ReadList(p)
  <2>1. (IF bbs = NONE THEN {} ELSE bbs) \in SUBSET Change
    BY DEF File
  <2> QED  BY <1>3, <2>1 DEF ReadList
<1>4. CASE ChangeList(p)
  <2>1. made + 1 \in Change
    BY <1>4, ConstantsAssumption DEF ChangeList, Change
  <2>2. made' \in 0..MaxChange
    BY <1>4, ConstantsAssumption DEF ChangeList
  <2>3. list' \in [Prog -> SUBSET Change]
    BY <1>4, <2>1 DEF ChangeList
  <2> QED  BY <1>4, <2>2, <2>3 DEF ChangeList
<1>5. CASE NoChange(p)
  BY <1>5 DEF NoChange
<1>6. CASE WriteNew(p)
  BY <1>6 DEF WriteNew, File
<1>7. CASE WriteFails(p)
  <2>1. faults' \in 0..MaxFault
    BY <1>7, ConstantsAssumption DEF WriteFails, Fault
  <2> QED  BY <1>7, <2>1 DEF WriteFails, File
<1>8. CASE WriteShort(p)
  <2>1. faults' \in 0..MaxFault
    BY <1>8, ConstantsAssumption DEF WriteShort, Fault
  <2>2. new' \in File
    BY <1>8 DEF WriteShort, File
  <2> QED  BY <1>8, <2>1, <2>2 DEF WriteShort
<1>9. CASE DropOldest(p)
  <2>1. N_HISTORY - 1 \in 0..(N_HISTORY - 1) /\ since' \in 0..N_HISTORY
    BY <1>9, ConstantsAssumption DEF DropOldest
  <2>2. old' \in [Saved -> File]
    BY <1>9 DEF DropOldest, File
  <2> QED  BY <1>9, <2>1, <2>2 DEF DropOldest
<1>10. CASE Shift(p)
  <2>1. from[p] \in Saved /\ from[p] + 1 \in Saved
        /\ from[p] - 1 \in 0..(N_HISTORY - 1)
    BY <1>10, ConstantsAssumption DEF Shift, Saved
  <2>2. old' \in [Saved -> File]
    BY <1>10, <2>1 DEF Shift, Move, File
  <2> QED  BY <1>10, <2>1, <2>2 DEF Shift
<1>11. CASE SaveOld(p)
  <2>1. {bbs', new'} \subseteq File /\ old' \in [Saved -> File]
    BY <1>11 DEF SaveOld, File
  <2> QED  BY <1>11, <2>1 DEF SaveOld
<1>12. CASE Install(p)
  <2>1. new # NONE => new \in SUBSET Change
    BY DEF File
  <2> QED  BY <1>12, <2>1 DEF Install, File
<1>13. CASE Unlock(p)
  <2>1. 0 \in 0..(N_HISTORY - 1)
    BY ConstantsAssumption
  <2> QED  BY <1>13, <2>1 DEF Unlock, Forget
<1>14. CASE Kill(p)
  <2>1. 0 \in 0..(N_HISTORY - 1) /\ faults' \in 0..MaxFault
    BY <1>14, ConstantsAssumption DEF Kill, Fault
  <2> QED  BY <1>14, <2>1 DEF Kill, Forget
<1> QED  BY <1>1, <1>2, <1>3, <1>4, <1>5, <1>6, <1>7, <1>8, <1>9, <1>10,
            <1>11, <1>12, <1>13, <1>14

\* In a step of a program, all others are idle and stay so.
LEMMA OneAtWork ==
  ASSUME TypeOK, Guarded, Next, ~bypassed'
  PROVE  \E p \in Prog :
           /\ \/ Begin(p) \/ ReadList(p) \/ ChangeList(p) \/ NoChange(p)
              \/ WriteNew(p) \/ WriteFails(p) \/ WriteShort(p)
              \/ DropOldest(p) \/ Shift(p) \/ SaveOld(p) \/ Install(p)
              \/ Unlock(p) \/ Kill(p)
           /\ \A q \in Prog : q # p => pc[q] = "idle" /\ pc'[q] = "idle"
<1> USE DEF Guarded, TypeOK, Goto
<1>1. PICK p \in Prog :
        \/ Begin(p) \/ ReadList(p) \/ ChangeList(p) \/ NoChange(p)
        \/ WriteNew(p) \/ WriteFails(p) \/ WriteShort(p)
        \/ DropOldest(p) \/ Shift(p) \/ SaveOld(p) \/ Install(p)
        \/ Unlock(p) \/ Kill(p)
  BY DEF Next, BeginCommand
<1>2. \A q \in Prog : q # p => pc[q] = "idle"
  <2>1. CASE Begin(p)
    BY <2>1, ConstantsAssumption DEF Begin, BbsLock!Acquire, HasLock
  <2>2. CASE pc[p] # "idle"
    BY <2>2, Alone
  <2> QED  BY <1>1, <2>1, <2>2
         DEF ReadList, ChangeList, NoChange, WriteNew, WriteFails, WriteShort,
             DropOldest, Shift, SaveOld, Install, Unlock, Kill
<1>3. \A q \in Prog : q # p => pc'[q] = pc[q]
  BY <1>1 DEF Begin, ReadList, ChangeList, NoChange, WriteNew, WriteFails,
              WriteShort, DropOldest, Shift, SaveOld, Install, Unlock, Kill,
              Forget
<1> QED  BY <1>1, <1>2, <1>3

\* The renumbering goes down from the free number, and so never replaces a file.
LEMMA StepSteps ==
  ASSUME TypeOK, Guarded, Next, ~bypassed' PROVE Steps'
<1> USE DEF Guarded, TypeOK, Steps, Rewriting, Goto, files
<1>1. PICK p \in Prog :
        /\ \/ Begin(p) \/ ReadList(p) \/ ChangeList(p) \/ NoChange(p)
           \/ WriteNew(p) \/ WriteFails(p) \/ WriteShort(p)
           \/ DropOldest(p) \/ Shift(p) \/ SaveOld(p) \/ Install(p)
           \/ Unlock(p) \/ Kill(p)
        /\ \A q \in Prog : q # p => pc[q] = "idle" /\ pc'[q] = "idle"
  BY OneAtWork
<1>2. CASE Begin(p) \/ ReadList(p) \/ ChangeList(p) \/ NoChange(p)
           \/ WriteFails(p) \/ Unlock(p) \/ Kill(p)
  BY <1>1, <1>2 DEF Begin, ReadList, ChangeList, NoChange, WriteFails, Unlock,
                    Kill, Forget
<1>3. CASE WriteNew(p) \/ WriteShort(p)
  <2>1. \A f \in SUBSET Change : f # NONE
    BY ConstantsAssumption DEF Change
  <2>2. list[p] \in SUBSET Change
    OBVIOUS
  <2>3. new' # NONE /\ pc'[p] = "drop"
    BY <1>3, <2>1, <2>2 DEF WriteNew, WriteShort
  <2> QED  BY <1>1, <2>3
<1>4. CASE DropOldest(p)
  <2>1. N_HISTORY \in Saved /\ N_HISTORY - 1 + 1 = N_HISTORY
    BY ConstantsAssumption DEF Saved
  <2>2. pc'[p] = "shift" /\ from'[p] = N_HISTORY - 1
        /\ old'[N_HISTORY] = NONE /\ new' # NONE
    BY <1>4, <2>1 DEF DropOldest
  <2> QED  BY <1>1, <2>1, <2>2
<1>5. CASE Shift(p)
  <2>1. from[p] \in Saved /\ from[p] + 1 \in Saved /\ from[p] # from[p] + 1
        /\ from[p] - 1 + 1 = from[p]
    BY <1>5, ConstantsAssumption DEF Shift, Saved
  <2>2. old'[from[p]] = NONE
    BY <1>5, <2>1 DEF Shift, Move
  <2>3. pc'[p] = "shift" /\ from'[p] = from[p] - 1 /\ new' # NONE
    BY <1>5 DEF Shift
  <2> QED  BY <1>1, <2>1, <2>2, <2>3
<1>6. CASE SaveOld(p)
  BY <1>1, <1>6 DEF SaveOld
<1>7. CASE Install(p)
  BY <1>1, <1>7 DEF Install
<1> QED  BY <1>1, <1>2, <1>3, <1>4, <1>5, <1>6, <1>7

\* What is read has every change in it, and what is written is what was read.
LEMMA StepComplete ==
  ASSUME TypeOK, Guarded, Next, ~bypassed' PROVE Complete'
<1> USE DEF Guarded, TypeOK, Complete, Rewriting, Goto, files
<1>1. PICK p \in Prog :
        /\ \/ Begin(p) \/ ReadList(p) \/ ChangeList(p) \/ NoChange(p)
           \/ WriteNew(p) \/ WriteFails(p) \/ WriteShort(p)
           \/ DropOldest(p) \/ Shift(p) \/ SaveOld(p) \/ Install(p)
           \/ Unlock(p) \/ Kill(p)
        /\ \A q \in Prog : q # p => pc[q] = "idle" /\ pc'[q] = "idle"
  BY OneAtWork
<1>2. CASE Begin(p) \/ NoChange(p) \/ WriteFails(p) \/ Unlock(p) \/ Kill(p)
  BY <1>1, <1>2 DEF Begin, NoChange, WriteFails, Unlock, Kill, Forget
<1>3. CASE ReadList(p)
  <2>1. ~torn => bbs # NONE /\ done \subseteq bbs
    BY <1>1, <1>3 DEF ReadList, Intact, Installing
  <2> QED  BY <1>1, <1>3, <2>1 DEF ReadList
<1>4. CASE ChangeList(p)
  BY <1>1, <1>4 DEF ChangeList
<1>5. CASE WriteNew(p)
  BY <1>1, <1>5 DEF WriteNew
<1>6. CASE WriteShort(p)
  BY <1>6 DEF WriteShort
<1>7. CASE DropOldest(p) \/ Shift(p) \/ SaveOld(p)
  BY <1>1, <1>7 DEF DropOldest, Shift, SaveOld
<1>8. CASE Install(p)
  BY <1>1, <1>8 DEF Install
<1> QED  BY <1>1, <1>2, <1>3, <1>4, <1>5, <1>6, <1>7, <1>8

\* Without such a fault every change is in areas.bbs, or in areas.o01 while the
\* new list is being renamed.
LEMMA StepIntact ==
  ASSUME TypeOK, Guarded, Next, ~bypassed' PROVE Intact'
<1> USE DEF Guarded, TypeOK, Intact, Installing, Goto, files
<1>1. PICK p \in Prog :
        /\ \/ Begin(p) \/ ReadList(p) \/ ChangeList(p) \/ NoChange(p)
           \/ WriteNew(p) \/ WriteFails(p) \/ WriteShort(p)
           \/ DropOldest(p) \/ Shift(p) \/ SaveOld(p) \/ Install(p)
           \/ Unlock(p) \/ Kill(p)
        /\ \A q \in Prog : q # p => pc[q] = "idle" /\ pc'[q] = "idle"
  BY OneAtWork
<1>2. CASE pc[p] # "install" /\ pc'[p] # "install" /\ UNCHANGED <<bbs, done>>
           /\ torn' = torn
  BY <1>1, <1>2
<1>3. CASE Begin(p) \/ ReadList(p) \/ ChangeList(p) \/ NoChange(p)
           \/ WriteNew(p) \/ WriteFails(p) \/ DropOldest(p) \/ Shift(p)
           \/ Unlock(p)
  BY <1>2, <1>3 DEF Begin, ReadList, ChangeList, NoChange, WriteNew,
                    WriteFails, DropOldest, Shift, Unlock, Forget
<1>4. CASE WriteShort(p)
  BY <1>4 DEF WriteShort
<1>5. CASE SaveOld(p)
  <2>1. 1 \in Saved
    BY ConstantsAssumption DEF Saved
  <2>2. ~torn => bbs # NONE /\ done \subseteq bbs
    BY <1>1, <1>5 DEF SaveOld
  <2> QED  BY <1>1, <1>5, <2>1, <2>2 DEF SaveOld
<1>6. CASE Install(p)
  <2>1. new # NONE /\ (~torn => done \subseteq new)
    BY <1>6 DEF Install, Steps, Complete, Rewriting
  <2> QED  BY <1>1, <1>6, <2>1 DEF Install
<1>7. CASE Kill(p)
  BY <1>1, <1>7 DEF Kill, Forget
<1> QED  BY <1>1, <1>3, <1>4, <1>5, <1>6, <1>7

\* After such a fault the file that has a change moves up by one number each
\* time the saved files are renumbered.
LEMMA StepAllKept ==
  ASSUME TypeOK, Guarded, Next, ~bypassed' PROVE AllKept'
<1> USE DEF Guarded, TypeOK, Goto, files
<1>1. PICK p \in Prog :
        /\ \/ Begin(p) \/ ReadList(p) \/ ChangeList(p) \/ NoChange(p)
           \/ WriteNew(p) \/ WriteFails(p) \/ WriteShort(p)
           \/ DropOldest(p) \/ Shift(p) \/ SaveOld(p) \/ Install(p)
           \/ Unlock(p) \/ Kill(p)
        /\ \A q \in Prog : q # p => pc[q] = "idle" /\ pc'[q] = "idle"
  BY OneAtWork
<1>2. SUFFICES ASSUME torn', since' < N_HISTORY, NEW c \in done'
             PROVE  Kept(c)'
  BY DEF AllKept
<1>3. 1 \in Saved /\ since \in Nat /\ N_HISTORY \in Nat
  BY ConstantsAssumption DEF Saved
<1>4. CASE torn /\ pc'[p] # "shift" /\ UNCHANGED <<bbs, old, done, since>>
  <2>1. Kept(c)
    BY <1>2, <1>4 DEF AllKept
  <2>2. \A i \in Saved : Recent(i) => Recent(i)'
    BY <1>1, <1>4 DEF Recent
  <2> QED  BY <1>4, <2>1, <2>2 DEF Kept
<1>5. CASE Begin(p) \/ ReadList(p) \/ ChangeList(p) \/ NoChange(p)
           \/ WriteNew(p) \/ WriteFails(p) \/ Unlock(p)
  BY <1>2, <1>4, <1>5 DEF Begin, ReadList, ChangeList, NoChange, WriteNew,
                          WriteFails, Unlock, Forget
<1>6. CASE WriteShort(p)
  <2>1. CASE torn
    BY <1>4, <1>6, <2>1 DEF WriteShort
  <2>2. CASE ~torn
    <3>1. bbs # NONE /\ done \subseteq bbs
      BY <1>1, <1>6, <2>2 DEF WriteShort, Intact, Installing
    <3> QED  BY <1>6, <3>1 DEF WriteShort, Kept
  <2> QED  BY <2>1, <2>2
<1>7. CASE DropOldest(p)
  <2>1. torn /\ since' = since + 1 /\ since + 1 < N_HISTORY /\ Kept(c)
    BY <1>2, <1>3, <1>7 DEF DropOldest, AllKept
  <2>2. CASE bbs # NONE /\ c \in bbs
    BY <1>7, <2>2 DEF DropOldest, Kept
  <2>3. CASE \E i \in Saved : old[i] # NONE /\ c \in old[i] /\ Recent(i)
    <3>1. PICK i \in Saved : old[i] # NONE /\ c \in old[i] /\ Recent(i)
      BY <2>3
    <3>2. i <= since + 1 /\ i \in Nat
      BY <3>1 DEF Recent, Saved
    <3>3. old'[i] = old[i]
      BY <1>3, <1>7, <2>1, <3>2 DEF DropOldest
    <3>4. Recent(i)'
      BY <1>1, <1>3, <2>1, <3>2 DEF Recent
    <3> QED  BY <3>1, <3>3, <3>4 DEF Kept
  <2> QED  BY <2>1, <2>2, <2>3 DEF Kept
<1>8. CASE Shift(p)
  <2>1. torn /\ since' = since /\ Kept(c) /\ UNCHANGED <<bbs, pc>>
    BY <1>2, <1>8 DEF Shift, AllKept
  <2>2. /\ pc[p] = "shift" /\ from[p] \in Saved /\ from[p] + 1 \in Saved
        /\ old[from[p] + 1] = NONE /\ from'[p] = from[p] - 1
    BY <1>8, ConstantsAssumption DEF Shift, Saved, Steps
  <2>3. CASE bbs # NONE /\ c \in bbs
    BY <2>1, <2>3 DEF Kept
  <2>4. CASE \E i \in Saved : old[i] # NONE /\ c \in old[i] /\ Recent(i)
    <3>1. PICK i \in Saved : old[i] # NONE /\ c \in old[i] /\ Recent(i)
      BY <2>4
    <3>2. CASE i = from[p]
      <4>1. old'[i + 1] = old[i]
        BY <1>8, <2>2, <3>1, <3>2 DEF Shift, Move
      <4>2. i <= since
        BY <2>2, <3>1, <3>2 DEF Recent, Saved
      <4>3. Recent(i + 1)'
        BY <1>1, <1>3, <2>1, <2>2, <3>2, <4>2 DEF Recent, Saved
      <4> QED  BY <2>2, <3>1, <3>2, <4>1, <4>3 DEF Kept
    <3>3. CASE i # from[p]
      <4>1. old'[i] = old[i]
        BY <1>8, <2>2, <3>1, <3>3 DEF Shift, Move
      <4>2. i \in Nat /\ i <= since' + 1
        BY <2>1, <3>1 DEF Recent, Saved
      <4>3. ASSUME NEW q \in Prog, pc'[q] = "shift", i <= from'[q]
            PROVE  i <= since'
        <5>1. q = p
          BY <1>1, <4>3
        <5>2. i <= from[p]
          BY <1>3, <2>2, <4>2, <4>3, <5>1 DEF Saved
        <5> QED  BY <2>1, <2>2, <3>1, <5>2 DEF Recent
      <4>4. Recent(i)'
        BY <4>2, <4>3 DEF Recent
      <4> QED  BY <3>1, <4>1, <4>4 DEF Kept
    <3> QED  BY <3>2, <3>3
  <2> QED  BY <2>1, <2>3, <2>4 DEF Kept
<1>9. CASE SaveOld(p)
  <2>1. torn /\ since' = since /\ Kept(c) /\ pc'[p] = "install"
    BY <1>2, <1>9 DEF SaveOld, AllKept
  <2>2. old[1] = NONE
    BY <1>3, <1>9 DEF SaveOld, Steps
  <2>3. CASE bbs # NONE /\ c \in bbs
    <3>1. old'[1] # NONE /\ c \in old'[1]
      BY <1>3, <1>9, <2>3 DEF SaveOld
    <3>2. Recent(1)'
      BY <1>1, <1>3, <2>1 DEF Recent
    <3> QED  BY <1>3, <3>1, <3>2 DEF Kept
  <2>4. CASE \E i \in Saved : old[i] # NONE /\ c \in old[i] /\ Recent(i)
    <3>1. PICK i \in Saved : old[i] # NONE /\ c \in old[i] /\ Recent(i)
      BY <2>4
    <3>2. old'[i] = old[i]
      BY <1>9, <2>2, <3>1 DEF SaveOld
    <3>3. Recent(i)'
      BY <1>1, <2>1, <3>1 DEF Recent
    <3> QED  BY <3>1, <3>2, <3>3 DEF Kept
  <2> QED  BY <2>1, <2>3, <2>4 DEF Kept
<1>10. CASE Install(p)
  <2>1. bbs = NONE /\ new # NONE /\ bbs' = new
    BY <1>10 DEF Install, Steps, Rewriting
  <2>2. CASE c \in new
    BY <2>1, <2>2 DEF Kept
  <2>3. CASE c \in done
    <3>1. torn /\ Kept(c) /\ UNCHANGED <<old, since>> /\ pc'[p] = "unlock"
      BY <1>2, <1>10, <2>3 DEF Install, AllKept
    <3>2. \A i \in Saved : Recent(i) => Recent(i)'
      BY <1>1, <3>1 DEF Recent
    <3> QED  BY <2>1, <3>1, <3>2 DEF Kept
  <2> QED  BY <1>2, <1>10, <2>2, <2>3 DEF Install
<1>11. CASE Kill(p)
  <2>1. UNCHANGED <<bbs, old, done, since>> /\ pc'[p] = "idle"
    BY <1>11 DEF Kill, Forget
  <2>2. CASE torn
    BY <1>4, <2>1, <2>2
  <2>3. CASE ~torn
    <3>1. old[1] # NONE /\ done \subseteq old[1]
      BY <1>2, <1>11, <2>3 DEF Kill, Intact, Installing
    <3>2. Recent(1)'
      BY <1>1, <1>3, <2>1 DEF Recent
    <3> QED  BY <1>3, <2>1, <3>1, <3>2 DEF Kept
  <2> QED  BY <2>2, <2>3
<1> QED  BY <1>1, <1>5, <1>6, <1>7, <1>8, <1>9, <1>10, <1>11

-----------------------------------------------------------------------------
LEMMA StepIInv == IInv /\ [Next]_vars => IInv'
<1>1. ASSUME IInv, Next PROVE IInv'
  <2>1. TypeOK'
    BY <1>1, StepTypeOK DEF IInv
  <2>2. ASSUME ~bypassed' PROVE ~bypassed
    BY <1>1, <2>2 DEF Next, Begin, BeginCommand, ReadList, ChangeList, NoChange,
         WriteNew, WriteFails, WriteShort, DropOldest, Shift, SaveOld, Install,
         Unlock, Kill
  <2>3. ASSUME ~bypassed' PROVE Guarded'
    <3>1. TypeOK /\ Guarded
      BY <1>1, <2>2, <2>3 DEF IInv
    <3> QED  BY <1>1, <2>3, <3>1, StepOwner, StepSteps, StepComplete,
                StepIntact, StepAllKept DEF Guarded
  <2> QED  BY <2>1, <2>3 DEF IInv
<1>2. ASSUME IInv, UNCHANGED vars PROVE IInv'
  <2> USE <1>2 DEF vars, files, IInv
  <2>1. TypeOK'
    BY DEF TypeOK
  <2>2. ~bypassed => HasLock' /\ Steps' /\ Complete' /\ Intact'
    BY DEF Guarded, HasLock, Steps, Complete, Intact, Installing
  <2>3. \A c : Kept(c)' = Kept(c)
    BY DEF Kept, Recent
  <2>4. ~bypassed => AllKept'
    BY <2>3 DEF Guarded, AllKept
  <2> QED  BY <2>1, <2>2, <2>4 DEF Guarded
<1> QED  BY <1>1, <1>2

LEMMA IInvKept == IInv => ChangesKept
<1> SUFFICES ASSUME Guarded PROVE AlwaysKept  BY DEF IInv, ChangesKept
<1>1. CASE torn
  BY <1>1 DEF Guarded, AllKept, Kept, AlwaysKept, InSavedFiles
<1>2. CASE ~torn
  <2>1. Installing => bbs = NONE
    BY DEF Guarded, Installing, Steps
  <2> QED  BY <1>2, <2>1 DEF Guarded, Intact, AlwaysKept, Current
<1> QED  BY <1>1, <1>2

\* The variables of areas.bbs and of the programs keep their types.
THEOREM AreasTypeOK == Spec => []TypeOK
<1>1. IInv => TypeOK  BY DEF IInv
<1> QED  BY InitIInv, StepIInv, <1>1, PTL DEF Spec

\* areasbbs_rewrite() (areasbbs.c), whatever is killed or fails, as long as all
\* programs take the lock: a change that has been in areas.bbs is in it, or
\* else in a saved file until these have been renumbered N_HISTORY times.
THEOREM AreasSafe == Spec => []ChangesKept
<1> QED  BY InitIInv, StepIInv, IInvKept, PTL DEF Spec

-----------------------------------------------------------------------------
(* The lock file. *)

\* A file is open where one is read or written, and a process sleeps only while
\* it has to wait.
LocalSound == \A p \in Proc : /\ at[p] \in {"read", "write"} => fd[p] \in Inode
                              /\ at[p] = "probe" => pid[p] \in Proc
                              /\ at[p] = "sleep" => wait[p] > 0

\* The file of a holder is there and names it.
HolderOnRecord == \A p \in Holders : dir # NIL /\ data[dir] = p

\* The file a process has created is there and empty, until it has written its
\* pid to it; nobody else writes to it.
CreatorOnRecord ==
  \A p \in Proc : at[p] = "write" =>
    /\ dir # NIL /\ fd[p] = dir /\ data[dir] = EMPTY
    /\ \A q \in Proc : at[q] = "write" => q = p

\* What a process has read is still true when the name has not been given to
\* another file since: once it has found the lock stale, the process that the
\* file names does not hold it.
LookSound ==
  \A p \in Proc : at[p] \in Looking /\ p \notin outdated =>
    /\ dir # NIL
    /\ at[p] = "read" => fd[p] = dir
    /\ at[p] = "probe" => data[dir] = pid[p]
    /\ at[p] = "unlink" => data[dir] # EMPTY /\ data[dir] \notin Holders

\* The inductive invariant.
Unraced == HolderOnRecord /\ CreatorOnRecord /\ LookSound
LockInv == LockTypeOK /\ LocalSound /\ (raced \/ Unraced)

\* The inductive invariant holds initially: no process has called anything.
LEMMA InitLock == LockInit => LockInv
<1> SUFFICES ASSUME LockInit PROVE LockInv
  OBVIOUS
<1>1. LockTypeOK
  BY DEF LockInit, LockTypeOK, Control, NOWAIT
<1>2. LocalSound /\ Unraced
  BY DEF LockInit, LocalSound, Unraced, HolderOnRecord, Holders,
     CreatorOnRecord, LookSound, Looking
<1> QED  BY <1>1, <1>2 DEF LockInv

\* Whatever the races, the variables keep their types.
LEMMA LockTypes ==
  ASSUME LockTypeOK, LocalSound, NEW p \in Proc,
         \/ Start(p) \/ LockLockfile(p) \/ UnlockLockfile(p)
         \/ Crash(p) \/ Respawn(p)
  PROVE  LockTypeOK' /\ LocalSound'
<1> USE DEF LockTypeOK, LocalSound, Jump, Control, Looking
<1>1. CASE Start(p)
  BY <1>1, LockConstants DEF Start, WAIT, history
<1>2. CASE Open(p) \/ Sleep(p) \/ Respawn(p)
  BY <1>2 DEF Open, Sleep, Respawn, history
<1>3. CASE Read(p)
  <2>1. data[fd[p]] \in Proc \cup {EMPTY}
    BY <1>3 DEF Read
  <2> QED  BY <1>3, <2>1 DEF Read, Looked, history
<1>4. CASE Probe(p)
  BY <1>4 DEF Probe, Looked, history, NOWAIT
<1>5. CASE Unlink(p) \/ UnlockLockfile(p)
  BY <1>5 DEF Unlink, UnlockLockfile, Renewed
<1>6. CASE Create(p)
  <2>1. PICK i \in IF dir = NIL THEN FreeInode ELSE {dir} :
          /\ dir' = i
          /\ data' = [data EXCEPT ![i] = EMPTY]
          /\ fd' = [fd EXCEPT ![p] = i]
    BY <1>6 DEF Create
  <2>2. i \in Inode
    BY <2>1 DEF FreeInode
  <2> QED  BY <1>6, <2>1, <2>2 DEF Create, Renewed
<1>7. CASE Write(p)
  BY <1>7 DEF Write, history
<1>8. CASE Crash(p)
  BY <1>8 DEF Crash, Looked
<1> QED  BY <1>1, <1>2, <1>3, <1>4, <1>5, <1>6, <1>7, <1>8 DEF LockLockfile

\* Steps that touch no file: fopen(name, "r"), sleep(), a new call, the death
\* of a process and the reuse of its pid.
LEMMA QuietLock ==
  ASSUME LockTypeOK, LocalSound, Unraced, NEW p \in Proc,
         Start(p) \/ Open(p) \/ Sleep(p) \/ Crash(p) \/ Respawn(p)
  PROVE  Unraced'
<1> USE DEF LockTypeOK, Jump, Unraced, HolderOnRecord, Holders, CreatorOnRecord,
            LookSound, Looking, history
<1>1. CASE Start(p) \/ Sleep(p) \/ Respawn(p)
  BY <1>1 DEF Start, Sleep, Respawn
<1>2. CASE Open(p)
  BY <1>2 DEF Open
<1>3. CASE Crash(p)
  BY <1>3 DEF Crash, Looked
<1> QED  BY <1>1, <1>2, <1>3

\* fgets() reads the pid that is in the file, and kill(pid, 0) finds the lock
\* stale only when that process does not hold it.
LEMMA LookLock ==
  ASSUME LockTypeOK, LocalSound, Unraced, NEW p \in Proc, Read(p) \/ Probe(p)
  PROVE  Unraced'
<1> USE DEF LockTypeOK, Jump, Unraced, HolderOnRecord, Holders, CreatorOnRecord,
            LookSound, Looking, Looked, history
<1>1. CASE Read(p)
  BY <1>1 DEF Read
<1>2. CASE Probe(p)
  BY <1>2, LockConstants DEF Probe, Alive, LocalSound
<1> QED  BY <1>1, <1>2

\* Who looked at the file that goes is now outdated.
LEMMA OthersOutdated ==
  ASSUME LockTypeOK, NEW p \in Proc, Renewed(p), dir' # dir, NEW q \in Proc,
         q # p, at'[q] = at[q], at[q] \in Looking
  PROVE  q \in outdated'
BY DEF Renewed, LockTypeOK

\* A file whose name goes, or that comes, takes nothing from anybody: the
\* removed one belongs to no holder, and where one is created there was none.
LEMMA RenewLock ==
  ASSUME LockTypeOK, LocalSound, Unraced, ~raced', NEW p \in Proc,
         Unlink(p) \/ Create(p) \/ UnlockLockfile(p)
  PROVE  Unraced'
<1> USE LockConstants DEF LockTypeOK, Jump
<1>1. CASE dir = NIL /\ Unlink(p)
  BY <1>1 DEF Unlink, Renewed, Unraced, HolderOnRecord, Holders,
     CreatorOnRecord, LookSound, Looking
<1>2. CASE (dir # NIL /\ Unlink(p)) \/ UnlockLockfile(p)
  <2>1. \A q \in Proc \ {p} : at[q] \notin {"held", "write"}
    <3>1. CASE Unlink(p)
      BY <1>2, <3>1 DEF Unlink, UnlockLockfile, Unraced, HolderOnRecord,
         Holders, CreatorOnRecord, LookSound, Looking
    <3>2. CASE UnlockLockfile(p)
      BY <3>2 DEF UnlockLockfile, Unraced, HolderOnRecord, Holders,
         CreatorOnRecord
    <3> QED  BY <1>2, <3>1, <3>2
  <2>2. /\ at'[p] \in {"create", "idle"}
        /\ \A q \in Proc \ {p} : at'[q] = at[q]
        /\ dir # NIL /\ dir' = NIL /\ Renewed(p)
    BY <1>2 DEF Unlink, UnlockLockfile, Unraced, HolderOnRecord, Holders
  <2>3. LookSound'
    BY <2>2, OthersOutdated DEF LookSound, Looking
  <2> QED  BY <2>1, <2>2, <2>3 DEF Unraced, HolderOnRecord, Holders,
              CreatorOnRecord
<1>3. CASE Create(p)
  <2>1. dir = NIL
    BY <1>3 DEF Create
  <2>2. \A q \in Proc : at[q] \notin {"held", "write"}
    BY <2>1 DEF Unraced, HolderOnRecord, Holders, CreatorOnRecord
  <2>3. PICK i \in FreeInode :
          /\ dir' = i
          /\ data' = [data EXCEPT ![i] = EMPTY]
          /\ fd' = [fd EXCEPT ![p] = i]
    BY <1>3, <2>1 DEF Create
  <2>4. i \in Inode /\ i # NIL
    BY <2>3 DEF FreeInode
  <2>5. at' = [at EXCEPT ![p] = "write"] /\ Renewed(p)
    BY <1>3 DEF Create
  <2>6. LookSound'
    BY <2>1, <2>3, <2>4, <2>5, OthersOutdated DEF LookSound, Looking
  <2> QED  BY <2>2, <2>3, <2>4, <2>5, <2>6 DEF Unraced, HolderOnRecord, Holders,
              CreatorOnRecord
<1> QED  BY <1>1, <1>2, <1>3

\* The pid is in the file before the lock is held; the file was empty, so that
\* nobody who looks at it has read a pid from it.
LEMMA WriteLock ==
  ASSUME LockTypeOK, LocalSound, Unraced, NEW p \in Proc, Write(p)
  PROVE  Unraced'
<1> USE LockConstants DEF LockTypeOK, Jump, Write, Unraced, CreatorOnRecord
<1>1. fd[p] = dir /\ dir \in Inode /\ data[dir] = EMPTY
  OBVIOUS
<1>2. HolderOnRecord' /\ CreatorOnRecord'
  BY <1>1 DEF HolderOnRecord, Holders
<1>3. LookSound'
  BY <1>1 DEF LookSound, Looking, LocalSound, history
<1> QED  BY <1>2, <1>3

\* Every step of every process preserves the inductive invariant.
LEMMA NextLock == ASSUME LockInv, [LockNext]_lockvars PROVE LockInv'
<1>1. CASE UNCHANGED lockvars
  BY <1>1 DEF lockvars, history, LockInv, LockTypeOK, LocalSound, Unraced,
     HolderOnRecord, Holders, CreatorOnRecord, LookSound
<1>2. ASSUME NEW p \in Proc,
             \/ Start(p) \/ LockLockfile(p) \/ UnlockLockfile(p)
             \/ Crash(p) \/ Respawn(p)
      PROVE  LockInv'
  <2>1. LockTypeOK' /\ LocalSound'
    BY <1>2, LockTypes DEF LockInv
  <2>2. raced => raced'
    BY <1>2 DEF LockLockfile, Start, Open, Read, Probe, Unlink, Sleep, Create,
       Write, UnlockLockfile, Crash, Respawn, Looked, history
  <2>3. ~raced' => Unraced'
    BY <1>2, <2>2, QuietLock, LookLock, RenewLock, WriteLock
       DEF LockInv, LockLockfile
  <2> QED  BY <2>1, <2>3 DEF LockInv
<1>. QED BY <1>1, <1>2 DEF LockNext

\* lock_lockfile() excludes until its fopen(name, "w") meets a file, or its
\* unlink() another file than the one it has read the pid from: for any
\* processes, inodes, waits, kills and reuse of pids, and rounds that overlap
\* in any way.
THEOREM LockExclusion == LockSpec => [](LockTypeOK /\ ExclusiveUnlessRaced)
<1>1. LockInv => ExclusiveUnlessRaced
  BY DEF LockInv, Unraced, HolderOnRecord, MutualExclusion, ExclusiveUnlessRaced
<1>2. LockInv => LockTypeOK
  BY DEF LockInv
<1>. QED BY InitLock, NextLock, <1>1, <1>2, PTL DEF LockSpec

\* What another process does to a settled lock: it opens and reads the file,
\* finds its holder alive, and sleeps or gives up.
LEMMA SettledStep ==
  ASSUME LockTypeOK, NEW p \in Proc, Settled(p), at'[p] = "held",
         [LockNext]_lockvars
  PROVE  Settled(p)'
<1> USE DEF LockTypeOK, Settled, Jump
<1>1. CASE UNCHANGED lockvars
  BY <1>1 DEF lockvars
<1>2. ASSUME NEW q \in Proc,
             \/ Start(q) \/ LockLockfile(q) \/ UnlockLockfile(q)
             \/ Crash(q) \/ Respawn(q)
      PROVE  Settled(p)'
  <2>1. q # p
    BY <1>2 DEF LockLockfile, Start, Open, Read, Probe, Unlink, Sleep, Create,
       Write, UnlockLockfile, Crash, Respawn
  <2>2. ~Unlink(q) /\ ~Create(q) /\ ~Write(q) /\ ~UnlockLockfile(q)
    BY <2>1 DEF Unlink, Create, Write, UnlockLockfile
  <2>3. CASE Start(q) \/ Open(q) \/ Sleep(q) \/ Crash(q) \/ Respawn(q)
    BY <2>1, <2>3 DEF Start, Open, Sleep, Crash, Respawn
  <2>4. CASE Read(q)
    BY <2>1, <2>4 DEF Read
  <2>5. CASE Probe(q)
    BY <2>1, <2>5 DEF Probe, Alive
  <2> QED  BY <1>2, <2>2, <2>3, <2>4, <2>5 DEF LockLockfile
<1> QED  BY <1>1, <1>2 DEF LockNext

\* A lock whose file names its holder, when nobody acts on an earlier look any
\* more, is kept until its holder unlocks it or dies, whatever calls of
\* lock_lockfile() come.
THEOREM SettledKept == LockSpec => SettledLockKept
<1>1. LockInv /\ [LockNext]_lockvars =>
        [\A p \in Proc : Settled(p) /\ at'[p] = "held" => Settled(p)']_lockvars
  BY SettledStep DEF LockInv
<1>2. LockSpec => []LockInv
  BY InitLock, NextLock, PTL DEF LockSpec
<1> QED  BY <1>1, <1>2, PTL DEF LockSpec, SettledLockKept

-----------------------------------------------------------------------------
\* What a state says the uplink was asked last.
Says(st, k) ==
  /\ st \cap {"W", "F"} # {} /\ "U" \notin st => k = "+"
  /\ st \subseteq {"U", "P"} => k = "-"

\* A paused area waits for nothing.
Sane(st) == st # {} /\ ("P" \in st => st \cap {"W", "F"} = {})

Typed ==
  /\ area \in Area \cup {NoArea}
  /\ area # NoArea => Sane(area.state)
  /\ kills \in Nat

AskedInv == Typed /\ (kills = 0 /\ area # NoArea => Says(area.state, asked))

\* An area that no link ever makes active again has one state, and nodes only
\* where the uplink sends it or was asked to.
Whole(a) ==
  /\ \E st \in State : a.state = {st}
  /\ a.state \subseteq {"U", "P"} => a.nodes = {}
Simple(a) == "active" \notin setup.cmds /\ a # NoArea => Whole(a)

JInv == setup \in Setups /\ area \in Area \cup {NoArea} /\ Simple(area)

\* No cron job deletes areas where links pause and come back.
Apart == \A s \in Setups : s.delete => "active" \notin s.cmds

Last(rs) == IF rs = <<>> THEN asked ELSE rs[Len(rs)]

-----------------------------------------------------------------------------
\* What a run of areafix or ftnafutil has to do to keep the invariant.
LEMMA RunKeeps ==
  ASSUME AskedInv, NEW a \in Area \cup {NoArea}, NEW rs, NEW whom, Run(a, rs, whom),
         a # NoArea => Sane(a.state) /\ (kills = 0 => Says(a.state, Last(rs)))
  PROVE  AskedInv'
<1>1. asked' = Last(rs)
  BY DEF Run, SendRequests, Last
<1>2. CASE area' = a /\ UNCHANGED kills
  BY <1>1, <1>2 DEF AskedInv, Typed
<1>3. CASE kills' = kills + 1 /\ UNCHANGED area
  BY <1>3 DEF AskedInv, Typed
<1> QED  BY <1>2, <1>3 DEF Run, Rewrite

LEMMA NoRequest == Last(<<>>) = asked
BY DEF Last

LEMMA OneRequest == ASSUME NEW k PROVE Last(<<k>>) = k
BY DEF Last

LEMMA TwoRequests == ASSUME NEW j, NEW k PROVE Last(<<j, k>>) = k
BY DEF Last

LEMMA NewAreaIsOne == ASSUME NEW st \in State PROVE NewArea(st) \in Area
BY DEF NewArea, Area

\* A message that is let through leaves the area as it is, or subscribed.
LEMMA FeedKeeps ==
  ASSUME AskedInv, area # NoArea, NEW author, Feed(author), UNCHANGED asked
  PROVE  AskedInv'
<1> DEFINE a == [area EXCEPT !.old = FALSE,
                   !.state = IF Is({"U", "W", "F"})
                             THEN ChState(@, {"U", "W", "F"}, "S") ELSE @]
<1>1. area \in Area /\ Sane(area.state) /\ kills \in Nat
  BY DEF AskedInv, Typed
<1>2. CASE Is({"U", "W", "F"}) \/ ~Is({"P"})
  <2>1. a \in Area /\ "S" \in a.state /\ Sane(a.state)
    BY <1>1, <1>2 DEF Area, State, ChState, Is, Sane
  <2>2. CASE area' = a /\ UNCHANGED kills
    <3>1. a.state = area.state \/ a.state \cap {"W", "F"} = {}
      BY <1>1, <1>2 DEF Area, State, ChState, Is, Sane
    <3> HIDE DEF a
    <3>2. kills = 0 => Says(a.state, asked)
      BY <1>1, <2>1, <3>1 DEF AskedInv, Says
    <3> QED  BY <1>1, <2>1, <2>2, <3>2 DEF AskedInv, Typed
  <2>3. CASE kills' = kills + 1 /\ UNCHANGED area
    BY <1>1, <2>3 DEF AskedInv, Typed
  <2> QED  BY <1>2, <2>2, <2>3 DEF Feed, Rewrite
<1>3. CASE ~(Is({"U", "W", "F"}) \/ ~Is({"P"}))
  BY <1>3 DEF Feed, AskedInv, Typed
<1> QED  BY <1>2, <1>3

-----------------------------------------------------------------------------
LEMMA InitAskedInv == AreaInit => AskedInv
<1> SUFFICES ASSUME AreaInit PROVE AskedInv  OBVIOUS
<1>1. NewArea("S") \in Area /\ NewArea("S").state = {"S"}
  BY NewAreaIsOne DEF NewArea, State
<1>2. Says({"S"}, asked)
  BY DEF Says
<1> QED  BY <1>1, <1>2 DEF AreaInit, AskedInv, Typed, Sane

LEMMA CommandKeeps ==
  ASSUME AskedInv, NEW l \in Link,
         SubKnown(l) \/ SubPassive(l) \/ SubForward(l) \/ Unsub(l)
         \/ SetPassive(l) \/ SetActive(l) \/ Delete(l)
  PROVE  AskedInv'
<1>1. area # NoArea => area \in Area /\ Sane(area.state)
  BY DEF AskedInv, Typed
<1>2. area # NoArea /\ kills = 0 => Says(area.state, asked)
  BY DEF AskedInv
<1>3. CASE SubKnown(l)
  <2> DEFINE joined == [area EXCEPT !.nodes = @ \cup {l}]
             again  == [joined EXCEPT !.state = ChState(@, {"U", "P"}, "W"),
                                      !.passive = @ \ {l}, !.old = FALSE]
  <2>1. area \in Area /\ area # NoArea
    BY <1>1, <1>3 DEF SubKnown
  <2>2. CASE Is({"U", "P"})
    <3>1. again \in Area /\ Sane(again.state) /\ Says(again.state, "+")
      BY <1>1, <2>1, <2>2 DEF Area, State, ChState, Is, Says, Sane
    <3>2. Run(again, <<"+">>, {})
      BY <1>3, <2>2 DEF SubKnown
    <3> HIDE DEF again
    <3> QED  BY <3>1, <3>2, OneRequest, RunKeeps
  <2>3. CASE ~Is({"U", "P"})
    <3>1. joined \in Area /\ joined.state = area.state
      BY <2>1 DEF Area
    <3>2. Run(joined, <<>>, {})
      BY <1>3, <2>3 DEF SubKnown
    <3> HIDE DEF joined
    <3> QED  BY <1>1, <1>2, <2>1, <3>1, <3>2, NoRequest, RunKeeps
  <2> QED  BY <2>2, <2>3
<1>4. CASE SubPassive(l)
  <2> DEFINE a == [area EXCEPT !.passive = @ \ {l}]
  <2>1. area \in Area /\ area # NoArea
    BY <1>1, <1>4 DEF SubPassive, Nodes
  <2>2. a \in Area /\ a.state = area.state
    BY <2>1 DEF Area
  <2>3. Run(a, <<>>, {})
    BY <1>4 DEF SubPassive
  <2> HIDE DEF a
  <2> QED  BY <1>1, <1>2, <2>1, <2>2, <2>3, NoRequest, RunKeeps
<1>5. CASE SubForward(l)
  <2> DEFINE a == [NewArea("F") EXCEPT !.nodes = {l}]
  <2>1. a \in Area /\ a.state = {"F"}
    BY DEF NewArea, Area, State
  <2>2. Run(a, <<"+">>, {})
    BY <1>5 DEF SubForward
  <2> HIDE DEF a
  <2>3. Says({"F"}, "+") /\ Sane({"F"})
    BY DEF Says, Sane
  <2> QED  BY <2>1, <2>2, <2>3, OneRequest, RunKeeps
<1>6. CASE Unsub(l)
  <2> DEFINE left  == [area EXCEPT !.nodes = @ \ {l}, !.passive = @ \ {l}]
             ended == [left EXCEPT !.state = ChState(@, {"S", "W", "F"}, "U")]
  <2>1. area \in Area /\ area # NoArea
    BY <1>1, <1>6 DEF Unsub, Nodes
  <2>2. CASE left.nodes = {} /\ setup.passthru
    <3>1. ended \in Area /\ Sane(ended.state) /\ Says(ended.state, "-")
      BY <1>1, <2>1 DEF Area, State, ChState, Says, Sane
    <3>2. Run(ended, <<"-">>, {l})
      BY <1>6, <2>2 DEF Unsub
    <3> HIDE DEF ended
    <3> QED  BY <3>1, <3>2, OneRequest, RunKeeps
  <2>3. CASE ~(left.nodes = {} /\ setup.passthru)
    <3>1. left \in Area /\ left.state = area.state
      BY <2>1 DEF Area
    <3>2. Run(left, <<>>, {l})
      BY <1>6, <2>3 DEF Unsub
    <3> HIDE DEF left
    <3> QED  BY <1>1, <1>2, <2>1, <3>1, <3>2, NoRequest, RunKeeps
  <2> QED  BY <2>2, <2>3
<1>7. CASE SetPassive(l)
  <2> DEFINE moved  == [area EXCEPT !.nodes = @ \ {l}, !.passive = @ \cup {l}]
             paused == [moved EXCEPT !.state = IF Is({"W", "F", "S"})
                                               THEN ChState(@, {"W", "F", "S"}, "P")
                                               ELSE @,
                                     !.old = FALSE]
  <2>1. area \in Area /\ area # NoArea /\ Sane(area.state)
    BY <1>1, <1>7 DEF SetPassive, Active, Nodes
  <2>2. CASE moved.nodes = {}
    <3>1. paused \in Area /\ Sane(paused.state) /\ Says(paused.state, "-")
      BY <2>1 DEF Area, State, ChState, Is, Says, Sane
    <3>2. Run(paused, <<"-">>, {l})
      BY <1>7, <2>2 DEF SetPassive
    <3> HIDE DEF paused
    <3> QED  BY <3>1, <3>2, OneRequest, RunKeeps
  <2>3. CASE moved.nodes # {}
    <3>1. moved \in Area /\ moved.state = area.state
      BY <2>1 DEF Area
    <3>2. Run(moved, <<>>, {l})
      BY <1>7, <2>3 DEF SetPassive
    <3> HIDE DEF moved
    <3> QED  BY <1>1, <1>2, <2>1, <3>1, <3>2, NoRequest, RunKeeps
  <2> QED  BY <2>2, <2>3
<1>8. CASE SetActive(l)
  <2> DEFINE moved == [area EXCEPT !.nodes = @ \cup {l}, !.passive = @ \ {l}]
             back  == [moved EXCEPT !.state = IF Is({"P", "U"})
                                              THEN ChState(@, {"P"}, "W") ELSE @]
  <2>1. area \in Area /\ area # NoArea /\ Sane(area.state)
    BY <1>1, <1>8 DEF SetActive, Passive
  <2>2. CASE area.nodes = {}
    <3>1. back \in Area /\ Sane(back.state) /\ Says(back.state, "+")
      BY <2>1 DEF Area, State, ChState, Is, Says, Sane
    <3>2. Run(back, <<"+">>, {})
      BY <1>8, <2>2 DEF SetActive
    <3> HIDE DEF back
    <3> QED  BY <3>1, <3>2, OneRequest, RunKeeps
  <2>3. CASE area.nodes # {}
    <3>1. moved \in Area /\ moved.state = area.state
      BY <2>1 DEF Area
    <3>2. Run(moved, <<>>, {})
      BY <1>8, <2>3 DEF SetActive
    <3> HIDE DEF moved
    <3> QED  BY <1>1, <1>2, <2>1, <3>1, <3>2, NoRequest, RunKeeps
  <2> QED  BY <2>2, <2>3
<1>9. CASE Delete(l)
  BY <1>9, NoRequest, RunKeeps DEF Delete
<1> QED  BY <1>3, <1>4, <1>5, <1>6, <1>7, <1>8, <1>9

LEMMA UtilKeeps ==
  ASSUME AskedInv, Expire \/ DeleteDead \/ Resubscribe \/ Unresubscribe
  PROVE  AskedInv'
<1>1. area # NoArea /\ area \in Area /\ Sane(area.state)
  BY DEF AskedInv, Typed, Expire, DeleteDead, Resubscribe, Unresubscribe
<1> DEFINE now == [area EXCEPT !.old = FALSE]
<1>2. now \in Area /\ now.state = area.state
  BY <1>1 DEF Area
<1>3. CASE Expire
  <2> DEFINE left(st) == [area EXCEPT !.nodes = {}, !.old = FALSE,
                                      !.state = ChState(@, {st}, "U")]
  <2>1. CASE Run(NoArea, <<"-">>, Notified)
    BY <2>1, RunKeeps
  <2>2. ASSUME NEW st \in {"W", "S"}, Run(left(st), <<"-">>, Notified)
        PROVE  AskedInv'
    <3>1. left(st) \in Area /\ Sane(left(st).state) /\ Says(left(st).state, "-")
      BY <1>1 DEF Area, State, ChState, Says, Sane
    <3> HIDE DEF left
    <3> QED  BY <2>2, <3>1, OneRequest, RunKeeps
  <2> QED  BY <1>3, <2>1, <2>2 DEF Expire
<1>4. CASE DeleteDead
  BY <1>4, RunKeeps DEF DeleteDead
<1>5. CASE Resubscribe
  <2>1. Run(now, <<"+">>, {}) /\ Is({"S", "F", "W"})
    BY <1>5 DEF Resubscribe
  <2>2. Says(area.state, "+")
    BY <1>1, <2>1 DEF Says, Is, Sane
  <2> HIDE DEF now
  <2> QED  BY <1>1, <1>2, <2>1, <2>2, OneRequest, RunKeeps
<1>6. CASE Unresubscribe
  <2>1. CASE Is({"S", "F", "W"})
    <3>1. Run(now, <<"-", "+">>, {})
      BY <1>6, <2>1 DEF Unresubscribe
    <3>2. Says(area.state, "+")
      BY <1>1, <2>1 DEF Says, Is, Sane
    <3> HIDE DEF now
    <3> QED  BY <1>1, <1>2, <3>1, <3>2, TwoRequests, RunKeeps
  <2>2. CASE ~Is({"S", "F", "W"})
    <3>1. Run(area, <<"-">>, {})
      BY <1>6, <2>2 DEF Unresubscribe
    <3>2. Says(area.state, "-")
      BY <1>1, <2>2 DEF Says, Is, Sane
    <3> QED  BY <1>1, <3>1, <3>2, OneRequest, RunKeeps
  <2> QED  BY <2>1, <2>2
<1> QED  BY <1>3, <1>4, <1>5, <1>6

LEMMA MailKeeps ==
  ASSUME AskedInv, TossMail \/ TossPost \/ TakeRequest \/ UplinkSends \/ DaysPass
  PROVE  AskedInv'
<1>1. CASE TossMail
  <2>1. CASE area # NoArea
    BY <1>1, <2>1, FeedKeeps DEF TossMail
  <2>2. CASE area = NoArea /\ setup.create
    <3>1. NewArea("S") \in Area /\ NewArea("S").state = {"S"}
      BY NewAreaIsOne DEF NewArea, State
    <3>2. Says({"S"}, asked) /\ Sane({"S"})
      BY DEF Says, Sane
    <3>3. CASE area' = NewArea("S") /\ UNCHANGED <<kills, asked>>
      BY <3>1, <3>2, <3>3 DEF AskedInv, Typed
    <3>4. CASE kills' = kills + 1 /\ UNCHANGED area
      BY <2>2, <3>4 DEF AskedInv, Typed
    <3> QED  BY <1>1, <2>2, <3>3, <3>4 DEF TossMail, Rewrite
  <2>3. CASE area = NoArea /\ ~setup.create
    BY <1>1, <2>3 DEF TossMail, AskedInv, Typed
  <2> QED  BY <2>1, <2>2, <2>3
<1>2. CASE TossPost
  BY <1>2, FeedKeeps DEF TossPost
<1>3. CASE TakeRequest \/ UplinkSends
  BY <1>3 DEF TakeRequest, UplinkSends, AskedInv, Typed
<1>4. CASE DaysPass
  BY <1>4 DEF DaysPass, AskedInv, Typed, Area
<1> QED  BY <1>1, <1>2, <1>3, <1>4

LEMMA StepAskedInv == AskedInv /\ [AreaNext]_areavars => AskedInv'
<1>1. ASSUME AskedInv, AreaNext PROVE AskedInv'
  BY <1>1, CommandKeeps, UtilKeeps, MailKeeps DEF AreaNext
<1>2. ASSUME AskedInv, UNCHANGED areavars PROVE AskedInv'
  BY <1>2 DEF areavars, AskedInv, Typed
<1> QED  BY <1>1, <1>2

LEMMA IInvAsked == AskedInv => AskedUplink
BY DEF AskedInv, AskedUplink, Is, Says

\* However links come, pause and go, ftnafutil runs and the uplink answers: an
\* area that waits for its first message was requested last, and one that is
\* given up was cancelled last (areafix.c, ftnafutil.c, ftntoss.c), unless a
\* program was killed between its requests and areasbbs_rewrite().
THEOREM AreafixAsked == AreaSpec => []AskedUplink
<1> QED  BY InitAskedInv, StepAskedInv, IInvAsked, PTL DEF AreaSpec

-----------------------------------------------------------------------------
\* What the steps do to the links that are sent the messages of the area.
Told == Active \ Active' \subseteq told'

LEMMA ActiveReads == Active = Readers(area) /\ Active' = Readers(area)'
BY DEF Active, Nodes, Passive, Readers

\* A run of areafix or ftnafutil tells those it takes the area from.
LEMMA RunTells ==
  ASSUME JInv, NEW a \in Area \cup {NoArea}, NEW rs, NEW whom, Run(a, rs, whom),
         Simple(a), Readers(area) \ Readers(a) \subseteq whom
  PROVE  JInv' /\ Told
<1>1. UNCHANGED setup /\ told' = whom
  BY DEF Run
<1>2. area' = a \/ area' = area
  BY DEF Run, Rewrite
<1>3. Told
  BY <1>1, <1>2, ActiveReads DEF Told, Readers
<1>4. Simple(area')
  BY <1>2 DEF JInv
<1> QED  BY <1>1, <1>2, <1>3, <1>4 DEF JInv, Simple

LEMMA FeedTells ==
  ASSUME JInv, area # NoArea, NEW author, Feed(author), UNCHANGED setup
  PROVE  JInv' /\ Told
<1> DEFINE a == [area EXCEPT !.old = FALSE,
                   !.state = IF Is({"U", "W", "F"})
                             THEN ChState(@, {"U", "W", "F"}, "S") ELSE @]
<1>1. area \in Area
  BY DEF JInv
<1>2. CASE area' = area
  BY <1>2, ActiveReads DEF JInv, Simple, Told
<1>3. CASE area' = a /\ (Is({"U", "W", "F"}) \/ ~Is({"P"}))
  <2>1. a \in Area /\ a.nodes = area.nodes /\ a.passive = area.passive
    BY <1>1 DEF Area, State, ChState
  <2>2. ASSUME Whole(area) PROVE Whole(a)
    <3>1. PICK st \in State : area.state = {st}
      BY <2>2 DEF Whole
    <3>2. a.state = {"S"}
      BY <1>1, <1>3, <3>1 DEF Area, State, ChState, Is
    <3> QED  BY <3>2 DEF Whole, State
  <2> HIDE DEF a
  <2>3. Readers(a) = Readers(area)
    BY <1>1, <2>1, NoneAssumption DEF Readers
  <2>4. Simple(a)
    BY <2>2 DEF JInv, Simple
  <2> QED  BY <1>3, <2>1, <2>3, <2>4, ActiveReads DEF JInv, Simple, Told
<1> QED  BY <1>2, <1>3 DEF Feed, Rewrite

LEMMA CommandTells ==
  ASSUME JInv, NEW l \in Link,
         SubKnown(l) \/ SubPassive(l) \/ SubForward(l) \/ Unsub(l)
         \/ SetPassive(l) \/ SetActive(l)
  PROVE  JInv' /\ Told
<1>1. area # NoArea => area \in Area
  BY DEF JInv
<1>2. area # NoArea /\ "active" \notin setup.cmds => Whole(area)
  BY DEF JInv, Simple
<1>3. CASE SubKnown(l)
  <2> DEFINE joined == [area EXCEPT !.nodes = @ \cup {l}]
             again  == [joined EXCEPT !.state = ChState(@, {"U", "P"}, "W"),
                                      !.passive = @ \ {l}, !.old = FALSE]
  <2>1. area \in Area /\ area # NoArea
    BY <1>1, <1>3 DEF SubKnown
  <2>2. CASE Is({"U", "P"})
    <3>1. again \in Area
      BY <2>1 DEF Area, State, ChState
    <3>2. ASSUME Whole(area) PROVE Whole(again)
      <4>1. again.state = {"W"}
        BY <2>1, <2>2, <3>2 DEF Area, ChState, Whole, Is
      <4> QED  BY <4>1 DEF Whole, State
    <3>3. Readers(area) \subseteq Readers(again)
      BY <2>1, <3>1, NoneAssumption DEF Area, Readers
    <3>4. Run(again, <<"+">>, {})
      BY <1>3, <2>2 DEF SubKnown
    <3> HIDE DEF again
    <3> QED  BY <1>2, <2>1, <3>1, <3>2, <3>3, <3>4, RunTells DEF Simple
  <2>3. CASE ~Is({"U", "P"})
    <3>1. joined \in Area
      BY <2>1 DEF Area
    <3>2. ASSUME Whole(area) PROVE Whole(joined)
      BY <2>1, <2>3, <3>2 DEF Area, Whole, Is
    <3>3. Readers(area) \subseteq Readers(joined)
      BY <2>1, <3>1, NoneAssumption DEF Area, Readers
    <3>4. Run(joined, <<>>, {})
      BY <1>3, <2>3 DEF SubKnown
    <3> HIDE DEF joined
    <3> QED  BY <1>2, <2>1, <3>1, <3>2, <3>3, <3>4, RunTells DEF Simple
  <2> QED  BY <2>2, <2>3
<1>4. CASE SubPassive(l)
  <2> DEFINE a == [area EXCEPT !.passive = @ \ {l}]
  <2>1. area \in Area /\ area # NoArea
    BY <1>1, <1>4 DEF SubPassive, Nodes
  <2>2. a \in Area
    BY <2>1 DEF Area
  <2>3. Whole(area) => Whole(a)
    BY <2>1 DEF Area, Whole
  <2>4. Readers(area) \subseteq Readers(a)
    BY <2>1, <2>2, NoneAssumption DEF Area, Readers
  <2>5. Run(a, <<>>, {})
    BY <1>4 DEF SubPassive
  <2> HIDE DEF a
  <2> QED  BY <1>2, <2>1, <2>2, <2>3, <2>4, <2>5, RunTells DEF Simple
<1>5. CASE SubForward(l)
  <2> DEFINE a == [NewArea("F") EXCEPT !.nodes = {l}]
  <2>1. a \in Area /\ a.state = {"F"}
    BY DEF NewArea, Area, State
  <2>2. Run(a, <<"+">>, {}) /\ area = NoArea
    BY <1>5 DEF SubForward
  <2> HIDE DEF a
  <2>3. Whole(a)
    BY <2>1 DEF Whole, State
  <2> QED  BY <2>1, <2>2, <2>3, RunTells DEF Simple, Readers
<1>6. CASE Unsub(l)
  <2> DEFINE left  == [area EXCEPT !.nodes = @ \ {l}, !.passive = @ \ {l}]
             ended == [left EXCEPT !.state = ChState(@, {"S", "W", "F"}, "U")]
  <2>1. area \in Area /\ area # NoArea /\ l \in area.nodes
    BY <1>1, <1>6 DEF Unsub, Nodes
  <2>2. CASE left.nodes = {} /\ setup.passthru
    <3>1. ended \in Area
      BY <2>1 DEF Area, State, ChState
    <3>2. ASSUME Whole(area) PROVE Whole(ended)
      <4>1. ended.state = {"U"} /\ ended.nodes = {}
        BY <2>1, <2>2, <3>2 DEF Area, State, ChState, Whole
      <4> QED  BY <4>1 DEF Whole, State
    <3>3. Readers(area) \ Readers(ended) \subseteq {l}
      BY <2>1, <3>1, NoneAssumption DEF Area, Readers
    <3>4. Run(ended, <<"-">>, {l})
      BY <1>6, <2>2 DEF Unsub
    <3> HIDE DEF ended
    <3> QED  BY <1>2, <2>1, <3>1, <3>2, <3>3, <3>4, RunTells DEF Simple
  <2>3. CASE ~(left.nodes = {} /\ setup.passthru)
    <3>1. left \in Area
      BY <2>1 DEF Area
    <3>2. Whole(area) => Whole(left)
      BY <2>1 DEF Area, Whole
    <3>3. Readers(area) \ Readers(left) \subseteq {l}
      BY <2>1, <3>1, NoneAssumption DEF Area, Readers
    <3>4. Run(left, <<>>, {l})
      BY <1>6, <2>3 DEF Unsub
    <3> HIDE DEF left
    <3> QED  BY <1>2, <2>1, <3>1, <3>2, <3>3, <3>4, RunTells DEF Simple
  <2> QED  BY <2>2, <2>3
<1>7. CASE SetPassive(l)
  <2> DEFINE moved  == [area EXCEPT !.nodes = @ \ {l}, !.passive = @ \cup {l}]
             paused == [moved EXCEPT !.state = IF Is({"W", "F", "S"})
                                               THEN ChState(@, {"W", "F", "S"}, "P")
                                               ELSE @,
                                     !.old = FALSE]
  <2>1. area \in Area /\ area # NoArea /\ l \in area.nodes
    BY <1>1, <1>7 DEF SetPassive, Active, Nodes
  <2>2. CASE moved.nodes = {}
    <3>1. paused \in Area
      BY <2>1 DEF Area, State, ChState
    <3>2. ASSUME Whole(area) PROVE Whole(paused)
      <4>1. paused.state = {"P"} /\ paused.nodes = {}
        BY <2>1, <2>2, <3>2 DEF Area, State, ChState, Whole, Is
      <4> QED  BY <4>1 DEF Whole, State
    <3>3. Readers(area) \ Readers(paused) \subseteq {l}
      BY <2>1, <3>1, NoneAssumption DEF Area, Readers
    <3>4. Run(paused, <<"-">>, {l})
      BY <1>7, <2>2 DEF SetPassive
    <3> HIDE DEF paused
    <3> QED  BY <1>2, <2>1, <3>1, <3>2, <3>3, <3>4, RunTells DEF Simple
  <2>3. CASE moved.nodes # {}
    <3>1. moved \in Area
      BY <2>1 DEF Area
    <3>2. Whole(area) => Whole(moved)
      BY <2>1 DEF Area, Whole
    <3>3. Readers(area) \ Readers(moved) \subseteq {l}
      BY <2>1, <3>1, NoneAssumption DEF Area, Readers
    <3>4. Run(moved, <<>>, {l})
      BY <1>7, <2>3 DEF SetPassive
    <3> HIDE DEF moved
    <3> QED  BY <1>2, <2>1, <3>1, <3>2, <3>3, <3>4, RunTells DEF Simple
  <2> QED  BY <2>2, <2>3
<1>8. CASE SetActive(l)
  <2> DEFINE moved == [area EXCEPT !.nodes = @ \cup {l}, !.passive = @ \ {l}]
             back  == [moved EXCEPT !.state = IF Is({"P", "U"})
                                              THEN ChState(@, {"P"}, "W") ELSE @]
  <2>1. area \in Area /\ area # NoArea
    BY <1>1, <1>8 DEF SetActive, Passive
  <2>2. "active" \in setup.cmds
    BY <1>8 DEF SetActive, Command
  <2>3. moved \in Area /\ back \in Area
    BY <2>1 DEF Area, State, ChState
  <2>4. Readers(area) \subseteq Readers(moved) /\ Readers(area) \subseteq Readers(back)
    BY <2>1, <2>3, NoneAssumption DEF Area, Readers
  <2>5. Run(back, <<"+">>, {}) \/ Run(moved, <<>>, {})
    BY <1>8 DEF SetActive
  <2> HIDE DEF moved, back
  <2> QED  BY <2>2, <2>3, <2>4, <2>5, RunTells DEF Simple
<1> QED  BY <1>3, <1>4, <1>5, <1>6, <1>7, <1>8

LEMMA UtilTells ==
  ASSUME Apart, JInv, Expire \/ DeleteDead \/ Resubscribe \/ Unresubscribe
  PROVE  JInv' /\ Told
<1>1. area # NoArea /\ area \in Area
  BY DEF JInv, Expire, DeleteDead, Resubscribe, Unresubscribe
<1>2. "active" \notin setup.cmds => Whole(area)
  BY <1>1 DEF JInv, Simple
<1>3. Readers(area) \subseteq Notified
  BY <1>1 DEF Readers, Notified
<1>4. Simple(NoArea) /\ Readers(NoArea) = {}
  BY DEF Simple, Readers
<1>5. CASE Expire
  <2> DEFINE left(st) == [area EXCEPT !.nodes = {}, !.old = FALSE,
                                      !.state = ChState(@, {st}, "U")]
  <2>1. CASE Run(NoArea, <<"-">>, Notified)
    BY <1>3, <1>4, <2>1, RunTells
  <2>2. ASSUME NEW st \in {"W", "S"}, Is({st}), Run(left(st), <<"-">>, Notified)
        PROVE  JInv' /\ Told
    <3>1. left(st) \in Area
      BY <1>1 DEF Area, State, ChState
    <3>2. ASSUME Whole(area) PROVE Whole(left(st))
      <4>1. left(st).state = {"U"} /\ left(st).nodes = {}
        BY <1>1, <2>2, <3>2 DEF Area, State, ChState, Whole, Is
      <4> QED  BY <4>1 DEF Whole, State
    <3> HIDE DEF left
    <3> QED  BY <1>2, <1>3, <2>2, <3>1, <3>2, RunTells DEF Simple
  <2>3. \/ Run(NoArea, <<"-">>, Notified)
        \/ Is({"W"}) /\ Run(left("W"), <<"-">>, Notified)
        \/ Is({"S"}) /\ Run(left("S"), <<"-">>, Notified)
    BY <1>5 DEF Expire, TimedOut, NoTraffic, Unused, Is
  <2> HIDE DEF left
  <2> QED  BY <2>1, <2>2, <2>3
<1>6. CASE DeleteDead
  <2>1. Whole(area)
    BY <1>2, <1>6 DEF DeleteDead, Apart, JInv
  <2>2. Readers(area) = {}
    BY <1>1, <1>6, <2>1 DEF DeleteDead, Whole, Is, Readers
  <2> QED  BY <1>4, <1>6, <2>2, RunTells DEF DeleteDead
<1>7. CASE Resubscribe \/ Unresubscribe
  <2> DEFINE now == [area EXCEPT !.old = FALSE]
  <2>1. now \in Area /\ (Whole(area) => Whole(now))
    BY <1>1 DEF Area, Whole
  <2>2. Readers(area) \subseteq Readers(now)
    BY <1>1, <2>1, NoneAssumption DEF Area, Readers
  <2>3. PICK a, rs : a \in {now, area} /\ Run(a, rs, {})
    BY <1>7 DEF Resubscribe, Unresubscribe
  <2> HIDE DEF now
  <2> QED  BY <1>1, <1>2, <2>1, <2>2, <2>3, RunTells DEF Simple
<1> QED  BY <1>5, <1>6, <1>7

LEMMA MailTells ==
  ASSUME JInv, TossMail \/ TossPost \/ TakeRequest \/ UplinkSends \/ DaysPass
  PROVE  JInv' /\ Told
<1>1. CASE TossMail
  <2>1. CASE area # NoArea
    BY <1>1, <2>1, FeedTells DEF TossMail
  <2>2. CASE area = NoArea
    <3>1. NewArea("S") \in Area /\ Whole(NewArea("S"))
      BY NewAreaIsOne DEF NewArea, State, Whole
    <3>2. UNCHANGED setup /\ area' \in {NoArea, NewArea("S")}
      BY <1>1, <2>2 DEF TossMail, Rewrite
    <3>3. Active = {}
      BY <2>2 DEF Active, Nodes
    <3> QED  BY <2>2, <3>1, <3>2, <3>3 DEF JInv, Simple, Told
  <2> QED  BY <2>1, <2>2
<1>2. CASE TossPost
  BY <1>2, FeedTells DEF TossPost
<1>3. CASE TakeRequest \/ UplinkSends
  BY <1>3, ActiveReads DEF TakeRequest, UplinkSends, JInv, Simple, Told
<1>4. CASE DaysPass
  <2> DEFINE a == [area EXCEPT !.old = TRUE]
  <2>1. area # NoArea /\ area \in Area /\ area' = a /\ UNCHANGED setup
    BY <1>4 DEF DaysPass, JInv
  <2>2. a \in Area /\ (Whole(area) => Whole(a))
    BY <2>1 DEF Area, Whole
  <2>3. Readers(a) = Readers(area)
    BY <2>1, <2>2, NoneAssumption DEF Area, Readers
  <2> HIDE DEF a
  <2> QED  BY <2>1, <2>2, <2>3, ActiveReads DEF JInv, Simple, Told
<1> QED  BY <1>1, <1>2, <1>3, <1>4

LEMMA StepTells ==
  ASSUME Apart, JInv, [AreaNext]_areavars
  PROVE  JInv' /\ [(\E l \in Link : Delete(l)) \/ Told]_areavars
<1>1. CASE \E l \in Link : Delete(l)
  <2>1. PICK l \in Link : Delete(l)
    BY <1>1
  <2>2. UNCHANGED setup /\ area' \in {area, NoArea}
    BY <2>1 DEF Delete, Run, Rewrite
  <2> QED  BY <1>1, <2>2 DEF JInv, Simple
<1>2. CASE AreaNext /\ ~\E l \in Link : Delete(l)
  BY <1>2, CommandTells, UtilTells, MailTells DEF AreaNext
<1>3. CASE UNCHANGED areavars
  BY <1>3 DEF areavars, JInv, Simple
<1> QED  BY <1>1, <1>2, <1>3

LEMMA InitJInv == AreaInit => JInv
<1> SUFFICES ASSUME AreaInit PROVE JInv  OBVIOUS
<1>1. NewArea("S") \in Area /\ Whole(NewArea("S"))
  BY NewAreaIsOne DEF NewArea, State, Whole
<1> QED  BY <1>1 DEF AreaInit, JInv, Simple

\* The commands of areafix, ftnafutil and ftntoss take a link off an area only
\* when it is told, or when it or the holder of a DELETE right says so, where
\* ftnafutil delete is not run for areas that links pause and take up again
\* (ftnafutil.c:215, areafix.c:2110).
THEOREM AreafixTells == ASSUME Apart PROVE AreaSpec => NoSilentLoss
<1>1. JInv /\ [AreaNext]_areavars => [(\E l \in Link : Delete(l)) \/ (Active \ Active') \subseteq told']_areavars
  BY StepTells DEF Told
<1>2. JInv /\ [AreaNext]_areavars => JInv'
  BY StepTells
<1> QED  BY InitJInv, <1>1, <1>2, PTL DEF AreaSpec, NoSilentLoss

=============================================================================
