----------------------------- MODULE ChrdevFile -----------------------------
(***************************************************************************)
(* The file operations of the memory device: read, write, llseek, ioctl,   *)
(* mmap and the sysfs attributes of one device, called by processes that   *)
(* may share a file description and so its position.                       *)
(*                                                                         *)
(* The kernel copies the file position before it calls read or write and   *)
(* writes it back after a call that did not fail; for a character device   *)
(* it takes no lock over the two.  llseek works on the position itself.    *)
(* Copying between user and kernel goes byte by byte.  pread and pwrite    *)
(* are not modelled, and neither are the results of the calls.             *)
(*                                                                         *)
(* The device comes in three versions: Chapter04's chrdev.c with           *)
(* add_sysfs_attrs_chrdev.patch ("attrs": read, write and attributes);     *)
(* Chapter07's chrdev.c ("plain": no attributes, but the rest); and that   *)
(* with add_mutex_to_chrdev.patch ("mutex"), which takes the device's      *)
(* mutex after the test of read_only and up to the update of *ppos.        *)
(***************************************************************************)
EXTENDS Integers, Sequences

CONSTANTS
  BUF_LEN,
  Values,        \* of a byte; 0 is what kzalloc leaves
  Procs,
  Files,         \* open file descriptions of the device
  FileOf,        \* FileOf[p]: the one p uses
  Counts,        \* sizes of read and write
  Offsets,       \* of llseek
  Clients,       \* processes that run chrdev_ioctl.c instead
  Versions,      \* the versions to choose from, among them those where
  Mapped,        \* - some process has the buffer mapped and stores to it
  Faulty,        \* - user pointers may be bad
  Free

ASSUME FileAssumption ==
  /\ BUF_LEN \in Nat \ {0}
  /\ 0 \in Values
  /\ \A p \in Procs : FileOf[p] \in Files
  /\ Counts \subseteq Nat /\ Offsets \subseteq Int
  /\ Versions \subseteq {"attrs", "plain", "mutex"}
  /\ Mapped \cup Faulty \subseteq {"plain", "mutex"}
  /\ Free \notin Procs /\ Procs \cap Clients = {}

Index == 0 .. BUF_LEN - 1

VARIABLES
  version,
  buf, read_only, mux,
  f_pos,         \* of the file descriptions
  pc, op,        \* next step of a process; "read", "write" or "reset"
  ppos, count,   \* *ppos and count of its call
  done,          \* bytes copied so far
  data,          \* read: the bytes received; write: the byte it writes
  new,           \* llseek: newppos
  info,          \* read_only as GETINFO returned it to a client
  barred         \* history: writes begun while read_only was set, which has
                 \* been set ever since

callVars == <<op, ppos, count, done, data, barred>>
vars == <<version, buf, read_only, mux, f_pos, pc, callVars, new, info>>

Locked == version = "mutex"
Chapter07 == version \in {"plain", "mutex"}

Init ==
  /\ version \in Versions
  /\ buf = [i \in Index |-> 0]
  /\ read_only \in BOOLEAN
  /\ mux = Free
  /\ f_pos = [f \in Files |-> 0]
  /\ pc = [p \in Procs \cup Clients |-> "idle"]
  /\ op = [p \in Procs |-> "read"]
  /\ ppos = [p \in Procs |-> 0] /\ count = [p \in Procs |-> 0]
  /\ done = [p \in Procs |-> 0] /\ data = [p \in Procs |-> << >>]
  /\ new = [p \in Procs |-> 0]
  /\ info = [c \in Clients |-> FALSE]
  /\ barred = {}

Go(p, from, to) == pc[p] = from /\ pc' = [pc EXCEPT ![p] = to]

\* The mutex, where there is one.
Lock(p)   == mux = Free /\ mux' = IF Locked THEN p ELSE Free
Unlock(p) == mux' = Free

\* Whatever sets read_only to FALSE lets the writes go on.
SetRdonly(ro) ==
  /\ read_only' = ro
  /\ barred' = IF ro THEN barred ELSE {}

-----------------------------------------------------------------------------
(* read and write *)

\* The test for the end of the buffer.
Clamp(pos, n) == IF pos + n >= BUF_LEN THEN BUF_LEN - pos ELSE n

\* The system call up to the handler's first look at shared data: the
\* position is copied, and what is to be copied follows from it.
Call(p, what, n, bytes) ==
  /\ op' = [op EXCEPT ![p] = what]
  /\ ppos' = [ppos EXCEPT ![p] = f_pos[FileOf[p]]]
  /\ count' = [count EXCEPT ![p] = Clamp(f_pos[FileOf[p]], n)]
  /\ done' = [done EXCEPT ![p] = 0]
  /\ data' = [data EXCEPT ![p] = bytes]
  /\ barred' = IF what = "write" /\ read_only THEN barred \cup {p} ELSE barred

\* Its locals are gone when it returns; what it read stays with the caller.
EndCall(p) ==
  /\ ppos' = [ppos EXCEPT ![p] = 0]
  /\ count' = [count EXCEPT ![p] = 0]
  /\ done' = [done EXCEPT ![p] = 0]
  /\ barred' = barred \ {p}

ReadCall(p) ==
  /\ Go(p, "idle", "lock")
  /\ \E n \in Counts : Call(p, "read", n, << >>)
  /\ UNCHANGED <<version, buf, read_only, mux, f_pos, new, info>>

WriteCall(p) ==
  /\ Go(p, "idle", "check")
  /\ \E n \in Counts, v \in Values : Call(p, "write", n, <<v>>)
  /\ UNCHANGED <<version, buf, read_only, mux, f_pos, new, info>>

WriteCheck_NoTest(p) ==
  /\ Go(p, "check", "lock")
  /\ UNCHANGED <<version, buf, read_only, mux, f_pos, callVars, new, info>>

\* chrdev_write's test of read_only, outside the mutex.
WriteCheck(p) ==
  /\ \/ ~read_only /\ Go(p, "check", "lock") /\ UNCHANGED <<ppos, count, done, barred>>
     \/ read_only /\ Go(p, "check", "idle") /\ EndCall(p)
  /\ UNCHANGED <<version, buf, read_only, mux, f_pos, op, data, new, info>>

MutexLock_NoGuard(p) ==
  /\ Go(p, "lock", "copy")
  /\ mux' = IF Locked THEN p ELSE Free
  /\ UNCHANGED <<version, buf, read_only, f_pos, callVars, new, info>>

MutexLock(p) ==
  /\ Go(p, "lock", "copy")
  /\ Lock(p)
  /\ UNCHANGED <<version, buf, read_only, f_pos, callVars, new, info>>

\* One byte of copy_to_user or copy_from_user.
CopyByte(p) ==
  /\ Go(p, "copy", "copy")
  /\ done[p] < count[p]
  /\ done' = [done EXCEPT ![p] = @ + 1]
  /\ \/ /\ op[p] = "read"
        /\ data' = [data EXCEPT ![p] = Append(@, buf[ppos[p] + done[p]])]
        /\ UNCHANGED buf
     \/ /\ op[p] \in {"write", "reset"}
        /\ buf' = [buf EXCEPT ![ppos[p] + done[p]] = data[p][1]]
        /\ UNCHANGED data
  /\ UNCHANGED <<version, read_only, mux, f_pos, op, ppos, count, barred, new, info>>

\* The copy is complete, or a fault ends it: the number of bytes left is never
\* negative, so the fault goes unnoticed.  *ppos advances, the mutex is free.
EndCopy(p) ==
  /\ Go(p, "copy", "return") /\ op[p] # "reset"
  /\ done[p] = count[p] \/ version \in Faulty
  /\ ppos' = [ppos EXCEPT ![p] = @ + count[p]]
  /\ Unlock(p)
  /\ UNCHANGED <<version, buf, read_only, f_pos, op, count, done, data, barred, new, info>>

WriteBack_Add(p) ==
  /\ Go(p, "return", "idle")
  /\ f_pos' = [f_pos EXCEPT ![FileOf[p]] = @ + count[p]]
  /\ EndCall(p)
  /\ UNCHANGED <<version, buf, read_only, mux, op, data, new, info>>

\* The handler returns count and the kernel writes the position back.
WriteBack(p) ==
  /\ Go(p, "return", "idle")
  /\ f_pos' = [f_pos EXCEPT ![FileOf[p]] = ppos[p]]
  /\ EndCall(p)
  /\ UNCHANGED <<version, buf, read_only, mux, op, data, new, info>>

-----------------------------------------------------------------------------
(* llseek: chrdev_llseek works on filp->f_pos, under the mutex if there is   *)
(* one, but the write-back above is outside it.                             *)

SeekRead_NoMutex(p) ==
  /\ Go(p, "idle", "seek") /\ Chapter07
  /\ \E offset \in Offsets, base \in {0, f_pos[FileOf[p]], BUF_LEN} :
       new' = [new EXCEPT ![p] = base + offset]
  /\ UNCHANGED <<version, buf, read_only, mux, f_pos, callVars, info>>

SeekRead(p) ==
  /\ Go(p, "idle", "seek") /\ Chapter07
  /\ Lock(p)
  /\ \E offset \in Offsets, base \in {0, f_pos[FileOf[p]], BUF_LEN} :
       new' = [new EXCEPT ![p] = base + offset]
  /\ UNCHANGED <<version, buf, read_only, f_pos, callVars, info>>

SeekWrite_NoTest(p) ==
  /\ Go(p, "seek", "idle")
  /\ Unlock(p)
  /\ f_pos' = [f_pos EXCEPT ![FileOf[p]] = new[p]]
  /\ new' = [new EXCEPT ![p] = 0]
  /\ UNCHANGED <<version, buf, read_only, callVars, info>>

\* The position must fall inside the buffer.
SeekWrite(p) ==
  /\ Go(p, "seek", "idle")
  /\ Unlock(p)
  /\ \/ new[p] \in Index /\ f_pos' = [f_pos EXCEPT ![FileOf[p]] = new[p]]
     \/ new[p] \notin Index /\ UNCHANGED f_pos
  /\ new' = [new EXCEPT ![p] = 0]
  /\ UNCHANGED <<version, buf, read_only, callVars, info>>

-----------------------------------------------------------------------------
(* ioctl: chrdev_ioctl *)

\* WDIOC_SET_RDONLY by any process; a fault of get_user leaves 0 behind.
SetReadOnly(p) ==
  /\ pc[p] = "idle" /\ Chapter07 /\ mux = Free
  /\ \/ \E ro \in BOOLEAN : SetRdonly(ro)
     \/ version \in Faulty /\ SetRdonly(FALSE)
  /\ UNCHANGED <<version, buf, mux, f_pos, pc, op, ppos, count, done, data, new, info>>

\* chrdev_ioctl.c: CHRDEV_IOC_GETINFO, then WDIOC_SET_RDONLY of the opposite,
\* and it exits; it may be run again.
ClientGet(c) ==
  /\ Go(c, "idle", "got") /\ Chapter07 /\ mux = Free
  /\ info' = [info EXCEPT ![c] = read_only]
  /\ UNCHANGED <<version, buf, read_only, mux, f_pos, callVars, new>>

ClientSet(c) ==
  /\ Go(c, "got", "idle") /\ mux = Free
  /\ SetRdonly(~info[c])
  /\ info' = [info EXCEPT ![c] = FALSE]
  /\ UNCHANGED <<version, buf, mux, f_pos, op, ppos, count, done, data, new>>

-----------------------------------------------------------------------------
(* The sysfs attributes; id_show and read_only_show change nothing. *)

\* reset_to_store: as much as fits, to the start of the buffer, whether or not
\* the device is read-only.
ResetCall(p) ==
  /\ Go(p, "idle", "copy") /\ version = "attrs"
  /\ op' = [op EXCEPT ![p] = "reset"]
  /\ \E n \in Counts : count' = [count EXCEPT ![p] = Clamp(0, n)]
  /\ \E v \in Values : data' = [data EXCEPT ![p] = <<v>>]
  /\ UNCHANGED <<version, buf, read_only, mux, f_pos, ppos, done, barred, new, info>>

\* There is no position to advance.
ResetReturn(p) ==
  /\ Go(p, "copy", "idle") /\ op[p] = "reset"
  /\ done[p] = count[p]
  /\ EndCall(p)
  /\ UNCHANGED <<version, buf, read_only, mux, f_pos, op, data, new, info>>

\* read_only_store; what is not a number changes nothing.
StoreReadOnly(p) ==
  /\ pc[p] = "idle" /\ version = "attrs"
  /\ \E ro \in BOOLEAN : SetRdonly(ro)
  /\ UNCHANGED <<version, buf, mux, f_pos, pc, op, ppos, count, done, data, new, info>>

-----------------------------------------------------------------------------
\* mmap: a store through a mapping of the buffer.
MmapStore ==
  /\ version \in Mapped
  /\ \E i \in Index, v \in Values : buf' = [buf EXCEPT ![i] = v]
  /\ UNCHANGED <<version, read_only, mux, f_pos, pc, callVars, new, info>>

Step(p) ==
  \/ WriteCheck(p) \/ MutexLock(p) \/ CopyByte(p) \/ EndCopy(p) \/ WriteBack(p)
  \/ SeekWrite(p) \/ ResetReturn(p)

Next ==
  \/ \E p \in Procs :
       \/ ReadCall(p) \/ WriteCall(p) \/ SeekRead(p) \/ SetReadOnly(p)
       \/ ResetCall(p) \/ StoreReadOnly(p) \/ Step(p)
  \/ \E c \in Clients : ClientGet(c) \/ ClientSet(c)
  \/ MmapStore

Spec == Init /\ [][Next]_vars

-----------------------------------------------------------------------------
(* Properties *)

\* The variables have their types.
TypeOK ==
  /\ version \in Versions
  /\ buf \in [Index -> Values] /\ read_only \in BOOLEAN
  /\ mux \in Procs \cup {Free}
  /\ pc \in [Procs \cup Clients -> {"idle", "check", "lock", "copy", "return",
                                    "seek", "got"}]
  /\ op \in [Procs -> {"read", "write", "reset"}]
  /\ data \in [Procs -> Seq(Values)]
  /\ ppos \in [Procs -> Nat] /\ count \in [Procs -> Nat] /\ done \in [Procs -> Nat]
  /\ f_pos \in [Files -> Nat]
  /\ new \in [Procs -> Int]
  /\ info \in [Clients -> BOOLEAN]
  /\ barred \subseteq Procs

\* However processes that share a file description race on its position, it
\* stays in the buffer or just behind it, and so does every byte a read or
\* write touches (chrdev.c:130-133, :149-157, :176-184).
InBounds ==
  /\ \A f \in Files : f_pos[f] \in 0 .. BUF_LEN
  /\ \A p \in Procs :
       /\ pc[p] \in {"check", "lock", "copy"} =>
            count[p] \in 0 .. BUF_LEN /\ ppos[p] + count[p] <= BUF_LEN
       /\ pc[p] = "return" => ppos[p] <= BUF_LEN

\* With the patch no two processes are between mutex_lock and mutex_unlock of
\* their read, write or llseek (add_mutex_to_chrdev.patch).
MutexExcludes ==
  Locked => \A p, q \in Procs :
    p # q /\ pc[p] \in {"copy", "seek"} => pc[q] \notin {"copy", "seek"}

\* A write that begins while the device is read-only changes nothing, as long
\* as it stays read-only; only writes whose test of read_only came before, a
\* mapping and reset_to may change it (chrdev.c:172,
\* add_mutex_to_chrdev.patch:116-122).
ReadOnlyBarsWrites == \A p \in barred : pc[p] = "check"
=============================================================================
