-------------------------- MODULE CharDeviceProofs --------------------------
(***************************************************************************)
(* Theorems about CharDevice, for every set of tasks and of values.        *)
(***************************************************************************)
EXTENDS CharDevice, TLAPS

-----------------------------------------------------------------------------
(* The module and the calls in it. *)

(* What is still registered at each step of cleanup_module, and what a call
   keeps from being removed: the device's calls the module, the others their
   entry. *)
InUse ==
  /\ mod \in {"unregister_chrdev", "proc_remove", "kobject_put", "out"}
       => opened = {}
  /\ mod = "proc_remove" => registered \subseteq {"proc", "sysfs"}
  /\ mod = "kobject_put" => registered \subseteq {"sysfs"}
  /\ mod = "out" => registered = {}
  /\ program = "rw" => /\ registered \subseteq {"dev"}
                       /\ mod \in {"out", "loaded", "unregister_chrdev"}
  /\ \A t \in Tasks : at[t] # "idle" =>
       /\ op[t] \in DevOps => t \in opened
       /\ op[t] \in ProcOps => "proc" \in registered
       /\ op[t] \in SysOps => "sysfs" \in registered

ModuleInv == TypeOK /\ InUse

LEMMA ModuleInit == Init => ModuleInv
  <1> SUFFICES ASSUME Init PROVE ModuleInv
    OBVIOUS
  <1> USE CharDeviceAssumption DEF CharDeviceAssumption
  <1>0. [h \in Halves |-> Start] \in String
    BY DEF String
  <1>1. TypeOK
    <2>0. from \in [Tasks -> 0 .. 2]
      BY DEF Init
    <2>1. string \in String /\ copy \in [Tasks -> String]
      BY <1>0, Zenon DEF Init
    <2>2. val \in [Tasks -> Values] /\ size \in [Tasks -> Sizes]
      BY DEF Init, Sizes
    <2> QED
      BY <2>0, <2>1, <2>2 DEF Init, TypeOK, NoTask, DevOps
  <1>2. InUse
    BY DEF Init, InUse
  <1> QED
    BY <1>1, <1>2 DEF ModuleInv

LEMMA ModuleNext == ModuleInv /\ [Next]_vars => ModuleInv'
  <1> SUFFICES ASSUME ModuleInv, [Next]_vars PROVE ModuleInv'
    OBVIOUS
  <1> USE CharDeviceAssumption
      DEF CharDeviceAssumption, ModuleInv, TypeOK, modVars, memVars, lockVars,
          callVars, taskVars
  <1>1. CASE RegisterChrdev
    BY <1>1 DEF RegisterChrdev, InUse, String
  <1>2. CASE ProcCreate
    BY <1>2 DEF ProcCreate, InUse
  <1>3. CASE KobjectCreate
    BY <1>3 DEF KobjectCreate, InUse
  <1>4. CASE SysfsCreateGroup
    BY <1>4 DEF SysfsCreateGroup, InUse
  <1>5. CASE Rmmod
    BY <1>5 DEF Rmmod, InUse
  <1>6. CASE UnregisterChrdev
    BY <1>6 DEF UnregisterChrdev, InUse
  <1>7. CASE ProcRemove
    BY <1>7 DEF ProcRemove, Drained, InUse
  <1>8. CASE KobjectPut
    BY <1>8 DEF KobjectPut, Drained, InUse
  <1>9. ASSUME NEW t \in Tasks, Open(t) \/ Release(t) PROVE ModuleInv'
    BY <1>9 DEF Open, Release, InUse
  <1>10. ASSUME NEW t \in Tasks,
                NEW o \in DevOps \cup ProcOps \cup SysOps,
                NEW n \in Sizes, NEW v \in Values, NEW f \in 0 .. 2,
                Call(t, o, n, v, f)
         PROVE ModuleInv'
    <2>0. Begin(f, LastHalf(o, n, f)) \in {"first", "second", "unlock"}
      BY DEF Begin
    <2>1. TypeOK'
      <3>1. LastHalf(o, n, f) \in Sizes
        <4>1. o \in SysOps => f = 0
          BY <1>10 DEF Call
        <4> QED
          BY <4>1 DEF LastHalf, Sizes
      <3> QED
        BY <1>10, <2>0, <3>1 DEF Call
    <2>2. InUse'
      BY <1>10, <2>0 DEF Call, InUse, Entry, DevOps, ProcOps, SysOps
    <2> QED
      BY <2>1, <2>2
  <1>11. ASSUME NEW t \in Tasks, WriteLock(t) \/ ReadLock(t) PROVE ModuleInv'
    <2>1. Begin(from[t], size[t]) \in {"first", "second", "unlock"}
      BY DEF Begin
    <2> QED
      BY <1>11, <2>1 DEF WriteLock, ReadLock, InUse
  <1>12. ASSUME NEW t \in Tasks, NEW h \in Halves,
                ReadHalf(t, h) \/ WriteHalf(t, h)
         PROVE ModuleInv'
    <2>1. h \in {1, 2}
      BY DEF Halves
    <2>2. at[t] \in {"first", "second"}
      BY <1>12, <2>1 DEF ReadHalf, WriteHalf, HalfAt
    <2>3. at' = [at EXCEPT ![t] = AfterHalf(t, h)]
      BY <1>12 DEF ReadHalf, WriteHalf
    <2>4. AfterHalf(t, h) \in {"second", "behind", "unlock"}
      BY DEF AfterHalf
    <2>5. InUse'
      BY <1>12, <2>2, <2>3, <2>4 DEF ReadHalf, WriteHalf, InUse
    <2>6. TypeOK'
      <3>1. string' \in String
        BY <1>12 DEF ReadHalf, WriteHalf, String
      <3>2. copy' \in [Tasks -> String]
        <4>1. CASE WriteHalf(t, h)
          BY <4>1 DEF WriteHalf
        <4>2. CASE ReadHalf(t, h)
          <5>1. [copy[t] EXCEPT ![h] = string[h]] \in String
            BY DEF String
          <5>2. copy' = [copy EXCEPT ![t] = [copy[t] EXCEPT ![h] = string[h]]]
            BY <4>2 DEF ReadHalf
          <5> QED
            BY <5>1, <5>2
        <4> QED
          BY <1>12, <4>1, <4>2
      <3>3. disturbed' \subseteq Tasks
        BY <1>12 DEF ReadHalf, WriteHalf
      <3> QED
        BY <1>12, <2>3, <2>4, <3>1, <3>2, <3>3 DEF ReadHalf, WriteHalf
    <2> QED
      BY <2>5, <2>6
  <1>13. ASSUME NEW t \in Tasks, WriteBehind(t) PROVE ModuleInv'
    BY <1>13 DEF WriteBehind, InUse
  <1>14. ASSUME NEW t \in Tasks, Return(t) PROVE ModuleInv'
    <2>1. TypeOK'
      BY <1>14 DEF Return, DevOps, Sizes, String
    <2>2. InUse'
      BY <1>14 DEF Return, InUse
    <2> QED
      BY <2>1, <2>2
  <1>15. CASE UNCHANGED vars
    BY <1>15 DEF vars, InUse
  <1> QED
    BY <1>1, <1>2, <1>3, <1>4, <1>5, <1>6, <1>7, <1>8, <1>9, <1>10, <1>11,
       <1>12, <1>13, <1>14, <1>15 DEF Next, Module, Handler

LEMMA ModuleInvariant == Spec => []ModuleInv
  BY ModuleInit, ModuleNext, PTL DEF Spec

(* The variables keep their types. *)
THEOREM TypeCorrect == Spec => []TypeOK
  <1>1. ModuleInv => TypeOK
    BY DEF ModuleInv
  <1> QED
    BY <1>1, ModuleInvariant, PTL

(* However calls, rmmod and insmod race, a module that was removed has no
   entry left and no call in it. *)
THEOREM NothingLeftBehind == Spec => []NoCallAfterUnload
  <1>1. ModuleInv => NoCallAfterUnload
    BY DEF ModuleInv, TypeOK, InUse, NoCallAfterUnload
  <1> QED
    BY <1>1, ModuleInvariant, PTL

-----------------------------------------------------------------------------
(* The lock. *)

Inside == {"first", "second", "behind", "unlock"}

(* The device's calls hold the lock while they are inside, and no other call
   does. *)
Locked ==
  \A t \in Tasks :
    /\ t \in readers <=> op[t] = "test_read" /\ at[t] \in Inside
    /\ t \in writer <=> op[t] = "test_write" /\ at[t] \in Inside
    /\ at[t] = "lock" => op[t] \in DevOps

(* A writer is alone in the lock. *)
Exclusive == \A t \in writer : readers = {} /\ writer = {t}

(* The device's calls copy the halves there are, and no others. *)
Bounded ==
  \A t \in Tasks :
    /\ op[t] \in DevOps => size[t] <= 2 /\ at[t] # "behind"
    /\ at[t] = "second" => 2 <= size[t]

(* The inductive invariant: a half that was copied is the string's as long as
   whoever writes to the string is alone in the lock, or leaves a trace in
   disturbed. *)
LockInv == Locked /\ Exclusive /\ Bounded /\ LockedCopyIsWhole

LEMMA LockInit == Init => LockInv
  BY DEF Init, LockInv, Locked, Exclusive, Bounded, LockedCopyIsWhole, Copied,
         Inside, NoTask, DevOps

LEMMA LockNext == ModuleInv /\ LockInv /\ [Next]_vars => LockInv'
  <1> SUFFICES ASSUME ModuleInv, LockInv, [Next]_vars PROVE LockInv'
    OBVIOUS
  <1> USE DEF ModuleInv, TypeOK, LockInv, modVars, memVars, lockVars,
              callVars, taskVars
  <1>1. CASE RegisterChrdev
    <2>1. \A t \in Tasks : at[t] = "idle"
      BY <1>1 DEF RegisterChrdev, InUse
    <2> QED
      BY <1>1, <2>1 DEF RegisterChrdev, Locked, Exclusive, Bounded,
                        LockedCopyIsWhole, Copied
  <1>2. ASSUME UNCHANGED <<memVars, taskVars>> PROVE LockInv'
    BY <1>2 DEF Locked, Exclusive, Bounded, LockedCopyIsWhole, Copied
  <1>3. CASE Module
    BY <1>1, <1>2, <1>3
       DEF Module, ProcCreate, KobjectCreate, SysfsCreateGroup, Rmmod,
           UnregisterChrdev, ProcRemove, KobjectPut
  <1>4. ASSUME NEW t \in Tasks, Open(t) \/ Release(t) PROVE LockInv'
    BY <1>4 DEF Open, Release, Locked, Exclusive, Bounded,
                LockedCopyIsWhole, Copied
  <1>5. ASSUME NEW t \in Tasks,
               NEW o \in DevOps \cup ProcOps \cup SysOps,
               NEW n \in Sizes, NEW v \in Values, NEW f \in 0 .. 2,
               Call(t, o, n, v, f)
        PROVE LockInv'
    <2> DEFINE last == LastHalf(o, n, f)
               next == IF o \in DevOps THEN "lock" ELSE Begin(f, last)
    <2>0. /\ at' = [at EXCEPT ![t] = next] /\ size' = [size EXCEPT ![t] = last]
          /\ next = "lock" <=> o \in DevOps
          /\ next = "second" => 2 <= last
          /\ next \in {"lock", "first", "second", "unlock"}
          /\ last \in 1 .. 3 /\ (o \in DevOps => last <= 2)
      <3>1. last \in 1 .. 3 /\ (o \in DevOps => last <= 2)
        <4>1. o \in SysOps => f = 0
          BY <1>5 DEF Call
        <4> QED
          BY <4>1 DEF LastHalf, Sizes, DevOps, SysOps
      <3> HIDE DEF last
      <3>2. Begin(f, last) = "second" => 2 <= last
        BY <3>1 DEF Begin
      <3>3. Begin(f, last) \in {"first", "second", "unlock"}
        BY DEF Begin
      <3> QED
        BY <1>5, <3>1, <3>2, <3>3 DEF Call, last
    <2> HIDE DEF next, last
    <2>1. Locked' /\ Exclusive'
      BY <1>5, <2>0
         DEF Call, Locked, Exclusive, Inside, DevOps, ProcOps, SysOps
    <2>2. Bounded'
      BY <1>5, <2>0 DEF Call, Bounded, DevOps
    <2>3. LockedCopyIsWhole'
      BY <1>5, <2>0 DEF Call, LockedCopyIsWhole, Copied
    <2> QED
      BY <2>1, <2>2, <2>3
  <1>6. ASSUME NEW t \in Tasks, WriteLock(t) \/ ReadLock(t) PROVE LockInv'
    <2> DEFINE next == Begin(from[t], size[t])
    <2>1. /\ next \in {"first", "second", "unlock"}
          /\ next = "second" => 2 <= size[t] /\ 0 < from[t]
          /\ next = "unlock" => size[t] <= from[t]
      BY DEF Begin, Sizes
    <2> HIDE DEF next
    <2>2. (WriteLock(t) \/ ReadLock(t)) => at' = [at EXCEPT ![t] = next]
      BY DEF WriteLock, ReadLock, next
    <2>3. Locked' /\ Exclusive'
      BY <1>6, <2>1, <2>2
         DEF WriteLock, ReadLock, Locked, Exclusive, Inside, NoTask
    <2>4. Bounded'
      BY <1>6, <2>1, <2>2 DEF WriteLock, ReadLock, Bounded
    <2>5. LockedCopyIsWhole'
      <3>1. UNCHANGED <<op, val, from, size, string, copy, disturbed>>
        BY <1>6 DEF WriteLock, ReadLock
      <3>2. ASSUME NEW h \in Halves PROVE ~Copied(t, h)'
        <4>1. at'[t] = next
          BY <1>6, <2>2
        <4> QED
          BY <2>1, <3>1, <4>1 DEF Copied, Halves, Sizes
      <3>3. ASSUME NEW u \in Tasks, NEW h \in Halves, Copied(u, h)'
            PROVE  Copied(u, h)
        <4>1. at'[u] = at[u]
          BY <1>6, <2>2, <3>2, <3>3
        <4> QED
          BY <3>1, <3>3, <4>1 DEF Copied
      <3> QED
        BY <3>1, <3>3 DEF LockedCopyIsWhole
    <2> QED
      BY <2>3, <2>4, <2>5
  <1>7. ASSUME NEW t \in Tasks, NEW h \in Halves,
               ReadHalf(t, h) \/ WriteHalf(t, h)
        PROVE LockInv'
    <2> DEFINE next == AfterHalf(t, h)
    <2>1. h \in {1, 2} /\ at[t] = IF h = 1 THEN "first" ELSE "second"
      BY <1>7 DEF Halves, ReadHalf, WriteHalf, HalfAt
    <2>2. /\ at' = [at EXCEPT ![t] = next]
          /\ UNCHANGED <<readers, writer, op, size, from, val>>
      BY <1>7 DEF ReadHalf, WriteHalf
    <2>3. /\ next \in {"second", "behind", "unlock"}
          /\ next = "second" => h = 1 /\ 2 <= size[t]
          /\ next = "behind" => h = 2 /\ 2 < size[t]
          /\ next = "unlock" => size[t] <= h
      BY <2>1 DEF AfterHalf, Sizes
    <2> HIDE DEF next
    <2>4. Locked' /\ Exclusive'
      BY <2>1, <2>2, <2>3 DEF Locked, Exclusive, Inside
    <2>5. Bounded'
      BY <2>1, <2>2, <2>3 DEF Bounded, Sizes
    <2>6. CASE ReadHalf(t, h)
      <3>1. /\ copy' = [copy EXCEPT ![t][h] = string[h]]
            /\ UNCHANGED <<string, disturbed>>
            /\ op[t] \in Readers
        BY <2>6 DEF ReadHalf
      <3>2. ASSUME NEW u \in Tasks \ disturbed, NEW k \in Halves,
                   Copied(u, k)'
            PROVE string[k] = IF op[u] = "test_read"
                              THEN copy'[u][k] ELSE val[u]
        <4>1. CASE u = t /\ k = h
          <5>1. op[t] = "test_read"
            BY <2>2, <3>1, <3>2, <4>1 DEF Copied, Readers, DevOps, ProcOps,
                                          SysOps
          <5> QED
            BY <3>1, <4>1, <5>1 DEF String
        <4>2. CASE u # t \/ k # h
          <5>1. Copied(u, k)
            BY <2>1, <2>2, <2>3, <3>2, <4>2 DEF Copied, Halves, Sizes
          <5>2. copy'[u][k] = copy[u][k]
            BY <3>1, <4>2 DEF String
          <5> QED
            BY <5>1, <5>2 DEF LockedCopyIsWhole
        <4> QED
          BY <4>1, <4>2
      <3>3. LockedCopyIsWhole'
        BY <2>2, <3>1, <3>2 DEF LockedCopyIsWhole
      <3> QED
        BY <2>4, <2>5, <3>3
    <2>7. CASE WriteHalf(t, h)
      <3>1. /\ string' = [string EXCEPT ![h] = val[t]]
            /\ disturbed' = IF op[t] = "test_write" THEN disturbed
                            ELSE disturbed \cup readers \cup writer
            /\ op[t] \notin Readers
            /\ UNCHANGED copy
        BY <2>7 DEF WriteHalf
      <3>2. ASSUME NEW u \in Tasks \ disturbed', NEW k \in Halves,
                   Copied(u, k)'
            PROVE string'[k] = IF op[u] = "test_read"
                               THEN copy[u][k] ELSE val[u]
        <4>1. op[u] \in DevOps /\ u \notin disturbed
          BY <2>2, <3>1, <3>2 DEF Copied
        <4>2. CASE u = t /\ k = h
          BY <3>1, <4>1, <4>2 DEF Readers, DevOps, String
        <4>3. CASE u # t \/ k # h
          <5>1. Copied(u, k)
            BY <2>1, <2>2, <2>3, <3>2, <4>3 DEF Copied, Halves, Sizes
          <5>2. u = t \/ k # h
            <6>1. u \in readers \/ u \in writer
              BY <4>1, <5>1 DEF Copied, Locked, Inside, DevOps
            <6>2. op[t] = "test_write"
              BY <3>1, <3>2, <6>1
            <6>3. t \in writer
              BY <2>1, <6>2 DEF Locked, Inside
            <6> QED
              BY <6>1, <6>3 DEF Exclusive
          <5>3. string'[k] = string[k]
            BY <3>1, <4>3, <5>2 DEF String
          <5> QED
            BY <4>1, <5>1, <5>3 DEF LockedCopyIsWhole
        <4> QED
          BY <4>2, <4>3
      <3>3. LockedCopyIsWhole'
        BY <2>2, <3>1, <3>2 DEF LockedCopyIsWhole
      <3> QED
        BY <2>4, <2>5, <3>3
    <2> QED
      BY <1>7, <2>6, <2>7
  <1>8. ASSUME NEW t \in Tasks, WriteBehind(t) PROVE LockInv'
    BY <1>8 DEF WriteBehind, Locked, Exclusive, Bounded, LockedCopyIsWhole,
                Copied, Inside
  <1>9. ASSUME NEW t \in Tasks, Return(t) PROVE LockInv'
    BY <1>9 DEF Return, Locked, Exclusive, Bounded, LockedCopyIsWhole,
                Copied, Inside, DevOps
  <1>10. CASE UNCHANGED vars
    BY <1>2, <1>10 DEF vars
  <1> QED
    BY <1>3, <1>4, <1>5, <1>6, <1>7, <1>8, <1>9, <1>10 DEF Next, Handler

(* For any number of processes and any values: what the device's handlers
   read or write in the lock is whole, unless the proc file or the attribute
   was written meanwhile. *)
THEOREM DeviceCopiesAreWhole == Spec => []LockedCopyIsWhole
  <1>1. LockInv => LockedCopyIsWhole
    BY DEF LockInv
  <1> QED
    BY <1>1, ModuleInvariant, LockInit, LockNext, PTL DEF Spec
=============================================================================
