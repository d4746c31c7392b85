----------------------------- MODULE CharDevice -----------------------------
(***************************************************************************)
(* modules/sys-proc_module/test2.c ("sys") and its smaller relative        *)
(* modules/read-write_module/test.c ("rw"): a kernel module with a string  *)
(* of 15 bytes.  The handlers of the character device take a               *)
(* reader-writer lock; those of the proc file and of the sysfs attribute,  *)
(* which only "sys" has, reach the string past it.  A copy is made in two  *)
(* halves.                                                                 *)
(*                                                                         *)
(* The module is loaded in steps, and its entries are in use from the step *)
(* that registers them.  What init_module has registered stays when it     *)
(* returns an error, although the kernel then frees the module's memory.   *)
(***************************************************************************)
EXTENDS Integers, FiniteSets

CONSTANTS
  Tasks,    \* processes that call the handlers
  Values,   \* what is written, with the string's first content among them
  Start     \* "Hello\n"

ASSUME CharDeviceAssumption == Start \in Values

Halves  == {1, 2}
String  == [Halves -> Values]
Sizes   == 1 .. 3            \* one half, the whole string, more than that
DevOps  == {"test_read", "test_write"}
ProcOps == {"test_proc_read", "test_proc_write"}
SysOps  == {"string_show", "string_store"}
Readers == {"test_read", "test_proc_read", "string_show"}
Entry(o) == IF o \in DevOps THEN "dev"
            ELSE IF o \in ProcOps THEN "proc" ELSE "sysfs"

VARIABLES
  program,     \* fixed: "rw" or "sys"
  mod,         \* the module: "out", the last step of init_module, "loaded",
               \* the next step of cleanup_module, or "failed"
  registered,  \* the entries the kernel knows
  string,      \* test_string
  beyond,      \* was the memory behind it written
  readers, writer,   \* the lock
  opened,      \* tasks that have the device open: each holds the module
  at,          \* per task: "idle", "lock", "first", "second", "behind" or
               \* "unlock"
  op, val,           \* the call it makes, and what it writes
  from, size,        \* the halves before its first one, and its last one
  copy,        \* what it has read
  disturbed    \* history: tasks in the lock past which a half was written

modVars  == <<mod, registered>>
memVars  == <<string, beyond>>
lockVars == <<readers, writer>>
callVars == <<op, val, from, size>>
vars == <<program, modVars, memVars, lockVars, opened, at, callVars, copy,
          disturbed>>

NoTask == {}

TypeOK ==
  /\ program \in {"rw", "sys"}
  /\ mod \in {"out", "dev", "proc", "kobj", "loaded", "unregister_chrdev",
              "proc_remove", "kobject_put", "failed"}
  /\ registered \subseteq {"dev", "proc", "sysfs"}
  /\ string \in String
  /\ beyond \in BOOLEAN
  /\ readers \subseteq Tasks
  /\ writer \subseteq Tasks
  /\ opened \subseteq Tasks
  /\ at \in [Tasks -> {"idle", "lock", "first", "second", "behind", "unlock"}]
  /\ op \in [Tasks -> DevOps \cup ProcOps \cup SysOps]
  /\ size \in [Tasks -> Sizes]
  /\ from \in [Tasks -> 0 .. 2]
  /\ val \in [Tasks -> Values]
  /\ copy \in [Tasks -> String]
  /\ disturbed \subseteq Tasks

Init ==
  /\ program \in {"rw", "sys"}
  /\ mod = "out"
  /\ registered = {}
  /\ string = [h \in Halves |-> Start]
  /\ beyond = FALSE
  /\ readers = {}
  /\ writer = NoTask
  /\ opened = {}
  /\ at = [t \in Tasks |-> "idle"]
  /\ op = [t \in Tasks |-> "test_read"]
  /\ size = [t \in Tasks |-> 2]
  /\ from = [t \in Tasks |-> 0]
  /\ val = [t \in Tasks |-> Start]
  /\ copy = [t \in Tasks |-> [h \in Halves |-> Start]]
  /\ disturbed = {}

-----------------------------------------------------------------------------
(* init_module and cleanup_module. *)

taskVars == <<lockVars, opened, at, callVars, copy, disturbed>>

(* insmod: the data is that of the file again.  register_chrdev may fail. *)
RegisterChrdev ==
  /\ mod = "out"
  /\ mod' = IF program = "rw" THEN "loaded" ELSE "dev"
  /\ registered' = {"dev"}
  /\ string' = [h \in Halves |-> Start]
  /\ beyond' = FALSE
  /\ UNCHANGED <<program, taskVars>>

(* A NULL of proc_create is not looked at: there is no proc file then.  pops,
   a file_operations, is cast to a proc_ops: read and write are at the same
   places in the two up to Linux 5.9, which the model takes; from 5.10 on,
   test_proc_write is where proc_read_iter is expected. *)
ProcCreate ==
  /\ mod = "dev"
  /\ mod' = "proc"
  /\ \E made \in {{"proc"}, {}} : registered' = registered \cup made
  /\ UNCHANGED <<program, memVars, taskVars>>

KobjectCreate ==
  /\ mod = "proc"
  /\ mod' \in {"kobj", "failed"}
  /\ UNCHANGED <<program, registered, memVars, taskVars>>

SysfsCreateGroup ==
  /\ mod = "kobj"
  /\ \/ mod' = "loaded" /\ registered' = registered \cup {"sysfs"}
     \/ mod' = "failed" /\ UNCHANGED registered
  /\ UNCHANGED <<program, memVars, taskVars>>

(* rmmod without .owner = THIS_MODULE in fops: nobody holds the module. *)
RmmodUnowned ==
  /\ mod = "loaded"
  /\ mod' = "unregister_chrdev"
  /\ UNCHANGED <<program, registered, memVars, taskVars>>

(* rmmod is refused while the device is open. *)
Rmmod ==
  /\ mod = "loaded"
  /\ opened = {}
  /\ mod' = "unregister_chrdev"
  /\ UNCHANGED <<program, registered, memVars, taskVars>>

UnregisterChrdev ==
  /\ mod = "unregister_chrdev"
  /\ registered' = registered \ {"dev"}
  /\ mod' = IF program = "rw" THEN "out" ELSE "proc_remove"
  /\ UNCHANGED <<program, memVars, taskVars>>

(* Removing an entry waits for the calls that are in it. *)
Drained(ops) == \A t \in Tasks : at[t] # "idle" => op[t] \notin ops

ProcRemove ==
  /\ mod = "proc_remove"
  /\ registered' = registered \ {"proc"}
  /\ Drained(ProcOps)
  /\ mod' = "kobject_put"
  /\ UNCHANGED <<program, memVars, taskVars>>

KobjectPut ==
  /\ mod = "kobject_put"
  /\ registered' = registered \ {"sysfs"}
  /\ Drained(SysOps)
  /\ mod' = "out"
  /\ UNCHANGED <<program, memVars, taskVars>>

-----------------------------------------------------------------------------
(* The handlers. *)

(* A file of a module that is being removed cannot be opened. *)
Open(t) ==
  /\ "dev" \in registered
  /\ mod # "unregister_chrdev"
  /\ t \notin opened
  /\ opened' = opened \cup {t}
  /\ UNCHANGED <<program, modVars, memVars, lockVars, at, callVars, copy,
                 disturbed>>

Release(t) ==
  /\ t \in opened
  /\ at[t] = "idle"
  /\ opened' = opened \ {t}
  /\ UNCHANGED <<program, modVars, memVars, lockVars, at, callVars, copy,
                 disturbed>>

(* What a call does first when it is to copy halves f + 1 to n. *)
Begin(f, n) ==
  IF n <= f THEN "unlock" ELSE IF f = 0 THEN "first" ELSE "second"

(* Its last half, for n halves from half f + 1 on: simple_read_from_buffer
   and simple_write_to_buffer stop at the end of the string. *)
LastHalf(o, n, f) == IF o \notin SysOps /\ f + n > 2 THEN 2 ELSE f + n

(* A call of handler o for n halves of v, from *off on: anywhere, behind
   earlier calls of the file or after lseek.  test_write returns -EINVAL at
   once for more than the string holds.  The attribute has no *off, and
   string_show copies all of the string. *)
Call(t, o, n, v, f) ==
  /\ at[t] = "idle"
  /\ Entry(o) \in registered
  /\ o \in DevOps => t \in opened
  /\ o \in Readers => n <= 2 /\ v = Start
  /\ o \in SysOps => f = 0
  /\ o = "string_show" => n = 2
  /\ o = "test_write" => n <= 2
  /\ op' = [op EXCEPT ![t] = o]
  /\ val' = [val EXCEPT ![t] = v]
  /\ from' = [from EXCEPT ![t] = f]
  /\ size' = [size EXCEPT ![t] = LastHalf(o, n, f)]
  /\ at' = [at EXCEPT ![t] = IF o \in DevOps THEN "lock"
                             ELSE Begin(f, LastHalf(o, n, f))]
  /\ UNCHANGED <<program, modVars, memVars, lockVars, opened, copy, disturbed>>

(* A defective write_lock that does not wait for the readers. *)
WriteLockEarly(t) ==
  /\ at[t] = "lock" /\ op[t] = "test_write"
  /\ writer = NoTask
  /\ writer' = {t}
  /\ at' = [at EXCEPT ![t] = Begin(from[t], size[t])]
  /\ UNCHANGED <<program, modVars, memVars, readers, opened, callVars, copy,
                 disturbed>>

WriteLock(t) ==
  /\ at[t] = "lock" /\ op[t] = "test_write"
  /\ writer = NoTask /\ readers = {}
  /\ writer' = {t}
  /\ at' = [at EXCEPT ![t] = Begin(from[t], size[t])]
  /\ UNCHANGED <<program, modVars, memVars, readers, opened, callVars, copy,
                 disturbed>>

ReadLock(t) ==
  /\ at[t] = "lock" /\ op[t] = "test_read"
  /\ writer = NoTask
  /\ readers' = readers \cup {t}
  /\ at' = [at EXCEPT ![t] = Begin(from[t], size[t])]
  /\ UNCHANGED <<program, modVars, memVars, writer, opened, callVars, copy,
                 disturbed>>

(* Where a task is when it has copied half h. *)
AfterHalf(t, h) ==
  IF h < size[t] THEN (IF h = 1 THEN "second" ELSE "behind") ELSE "unlock"

HalfAt == <<"first", "second">>

(* simple_read_from_buffer, or the memcpy of string_show. *)
ReadHalf(t, h) ==
  /\ at[t] = HalfAt[h] /\ op[t] \in Readers
  /\ copy' = [copy EXCEPT ![t][h] = string[h]]
  /\ at' = [at EXCEPT ![t] = AfterHalf(t, h)]
  /\ UNCHANGED <<program, modVars, memVars, lockVars, opened, callVars,
                 disturbed>>

(* simple_write_to_buffer, or the memcpy of string_store. *)
WriteHalf(t, h) ==
  /\ at[t] = HalfAt[h] /\ op[t] \notin Readers
  /\ string' = [string EXCEPT ![h] = val[t]]
  /\ at' = [at EXCEPT ![t] = AfterHalf(t, h)]
  /\ disturbed' = IF op[t] = "test_write" THEN disturbed
                  ELSE disturbed \cup readers \cup writer
  /\ UNCHANGED <<program, modVars, beyond, lockVars, opened, callVars, copy>>

(* string_store copies count bytes, however many the string holds. *)
WriteBehind(t) ==
  /\ at[t] = "behind"
  /\ beyond' = TRUE
  /\ at' = [at EXCEPT ![t] = "unlock"]
  /\ UNCHANGED <<program, modVars, string, lockVars, opened, callVars, copy,
                 disturbed>>

(* The unlock of the device's handlers, and every handler's return: what the
   call was is forgotten. *)
Return(t) ==
  /\ at[t] = "unlock"
  /\ readers' = readers \ {t}
  /\ writer' = writer \ {t}
  /\ at' = [at EXCEPT ![t] = "idle"]
  /\ op' = [op EXCEPT ![t] = "test_read"]
  /\ size' = [size EXCEPT ![t] = 2]
  /\ from' = [from EXCEPT ![t] = 0]
  /\ val' = [val EXCEPT ![t] = Start]
  /\ copy' = [copy EXCEPT ![t] = [h \in Halves |-> Start]]
  /\ disturbed' = disturbed \ {t}
  /\ UNCHANGED <<program, modVars, memVars, opened>>

-----------------------------------------------------------------------------
Module ==
  \/ RegisterChrdev \/ ProcCreate \/ KobjectCreate \/ SysfsCreateGroup
  \/ Rmmod \/ UnregisterChrdev \/ ProcRemove \/ KobjectPut

Handler(t) ==
  \/ Open(t) \/ Release(t)
  \/ \E o \in DevOps \cup ProcOps \cup SysOps, n \in Sizes, v \in Values,
        f \in 0 .. 2 : Call(t, o, n, v, f)
  \/ WriteLock(t) \/ ReadLock(t)
  \/ \E h \in Halves : ReadHalf(t, h) \/ WriteHalf(t, h)
  \/ WriteBehind(t) \/ Return(t)

Next == Module \/ \E t \in Tasks : Handler(t)

Spec == Init /\ [][Next]_vars

-----------------------------------------------------------------------------
(* Properties. *)

(* Has t, in a handler of the device, copied half h? *)
Copied(t, h) ==
  op[t] \in DevOps /\ at[t] \in {"second", "unlock"}
    /\ from[t] < h /\ h <= size[t] /\ (h = 2 => at[t] = "unlock")

(* What a task reads or writes in the lock is the string as it stands, up to
   the unlock: a read of the device is no mixture of two writes, and a write
   is not overwritten half way, unless a proc or sysfs call wrote to the
   string meanwhile. *)
LockedCopyIsWhole ==
  \A t \in Tasks \ disturbed, h \in Halves :
    Copied(t, h) =>
      string[h] = IF op[t] = "test_read" THEN copy[t][h] ELSE val[t]

(* No call is in a module whose memory is gone, and no entry leads there,
   unless init_module returned an error. *)
NoCallAfterUnload ==
  mod = "out" =>
    registered = {} /\ \A t \in Tasks : at[t] = "idle" /\ t \notin opened
=============================================================================
