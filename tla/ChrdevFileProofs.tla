-------------------------- MODULE ChrdevFileProofs --------------------------
(***************************************************************************)
(* The safety invariants of ChrdevFile for every size of the buffer, set   *)
(* of processes and way they share file descriptions, in each of the three *)
(* versions, with and without faults, clients and mappings.                *)
(***************************************************************************)
EXTENDS ChrdevFileRefinement, TLAPS

USE FileAssumption

(* The inductive invariant: the properties, and what they rest on. *)

\* A write carries its byte until it returns.
WriteHasByte ==
  \A p \in Procs :
    pc[p] \in {"check", "copy", "lock"} /\ op[p] # "read" => Len(data[p]) = 1

\* The mutex is held by the process inside its critical section.
Holder ==
  /\ \A p \in Procs : Locked /\ pc[p] \in {"copy", "seek"} => mux = p
  /\ ~Locked => mux = Free

\* A process outside read() and write() has no position.
AtStart == \A p \in Procs : pc[p] \in {"idle", "seek"} => ppos[p] = 0

\* A barred write waits for its test, and the device is read-only.
Barred == \A p \in barred : pc[p] = "check" /\ read_only

\* A copy begins with the first byte and a reader has what was copied.
Received ==
  \A p \in Procs :
    /\ pc[p] = "lock" => done[p] = 0
    /\ pc[p] = "check" => done[p] = 0 /\ op[p] = "write"
    /\ pc[p] \in {"lock", "copy"} /\ op[p] = "read" => Len(data[p]) = done[p]
    /\ op[p] = "reset" => version = "attrs"

IInv ==
  /\ TypeOK /\ InBounds /\ WriteHasByte /\ Holder /\ AtStart /\ Barred
  /\ Received

-----------------------------------------------------------------------------
\* The clamped count stays in the buffer.
LEMMA ClampBounds ==
  ASSUME NEW pos \in 0 .. BUF_LEN, NEW n \in Nat
  PROVE  /\ Clamp(pos, n) \in 0 .. BUF_LEN /\ pos + Clamp(pos, n) <= BUF_LEN
         /\ Clamp(pos, n) \in Nat
BY DEF Clamp

LEMMA InitInv == Init => IInv
<1> SUFFICES ASSUME Init PROVE IInv
  OBVIOUS
<1>1. TypeOK
  BY DEF Init, TypeOK
<1>2. InBounds
  BY DEF Init, InBounds
<1>3. WriteHasByte /\ Holder
  BY DEF Init, WriteHasByte, Holder
<1>4. AtStart /\ Barred /\ Received
  BY DEF Init, AtStart, Barred, Received
<1> QED
  BY <1>1, <1>2, <1>3, <1>4 DEF IInv

\* The byte that is copied next is in the buffer.
LEMMA CopyPlace ==
  ASSUME IInv, NEW p \in Procs, CopyByte(p)
  PROVE  ppos[p] + done[p] \in Index
<1>1. /\ ppos[p] \in Nat /\ done[p] \in Nat /\ count[p] \in Nat
      /\ done[p] < count[p] /\ pc[p] = "copy"
  BY DEF IInv, TypeOK, CopyByte, Go
<1>2. ppos[p] + count[p] <= BUF_LEN
  BY <1>1 DEF IInv, InBounds
<1> QED
  BY <1>1, <1>2 DEF Index

LEMMA TypeStep == IInv /\ [Next]_vars => TypeOK'
<1> SUFFICES ASSUME IInv, [Next]_vars PROVE TypeOK'
  OBVIOUS
<1> USE DEF IInv, TypeOK, Go
<1>1. CASE UNCHANGED vars
  BY <1>1 DEF vars, callVars
<1>2. ASSUME NEW p \in Procs, ReadCall(p) \/ WriteCall(p)
      PROVE  TypeOK'
  <2>1. f_pos[FileOf[p]] \in 0 .. BUF_LEN
    BY DEF InBounds
  <2>2. \A n \in Counts : Clamp(f_pos[FileOf[p]], n) \in Nat
    <3> TAKE n \in Counts
    <3>1. n \in Nat
      OBVIOUS
    <3> QED
      BY <2>1, <3>1, ClampBounds
  <2>3. CASE ReadCall(p)
    <3>1. PICK n \in Counts : Call(p, "read", n, << >>)
      BY <2>3 DEF ReadCall
    <3>2. op' \in [Procs -> {"read", "write", "reset"}] /\ barred' \subseteq Procs
      BY <3>1 DEF Call
    <3>3. ppos' \in [Procs -> Nat] /\ count' \in [Procs -> Nat]
      BY <2>2, <3>1 DEF Call
    <3>4. done' \in [Procs -> Nat] /\ data' \in [Procs -> Seq(Values)]
      BY <3>1 DEF Call
    <3> QED
      BY <2>3, <3>2, <3>3, <3>4 DEF ReadCall
  <2>4. CASE WriteCall(p)
    <3>1. PICK n \in Counts, v \in Values : Call(p, "write", n, <<v>>)
      BY <2>4 DEF WriteCall
    <3>2. op' \in [Procs -> {"read", "write", "reset"}] /\ barred' \subseteq Procs
      BY <3>1 DEF Call
    <3>3. ppos' \in [Procs -> Nat] /\ count' \in [Procs -> Nat]
      BY <2>2, <3>1 DEF Call
    <3>4. done' \in [Procs -> Nat] /\ data' \in [Procs -> Seq(Values)]
      BY <3>1 DEF Call
    <3> QED
      BY <2>4, <3>2, <3>3, <3>4 DEF WriteCall
  <2> QED
    BY <1>2, <2>3, <2>4
<1>3. ASSUME NEW p \in Procs,
             WriteCheck(p) \/ MutexLock(p) \/ EndCopy(p) \/ WriteBack(p)
      PROVE  TypeOK'
  <2>1. CASE WriteCheck(p)
    <3>1. CASE UNCHANGED <<ppos, count, done, barred>>
      BY <2>1, <3>1 DEF WriteCheck
    <3>2. CASE EndCall(p)
      BY <2>1, <3>2 DEF WriteCheck, EndCall
    <3> QED
      BY <2>1, <3>1, <3>2 DEF WriteCheck
  <2>2. CASE MutexLock(p)
    BY <2>2 DEF MutexLock, Lock, callVars
  <2>3. CASE EndCopy(p)
    BY <2>3 DEF EndCopy, Unlock
  <2>4. CASE WriteBack(p)
    BY <2>4 DEF WriteBack, EndCall
  <2> QED
    BY <1>3, <2>1, <2>2, <2>3, <2>4
<1>4. ASSUME NEW p \in Procs, CopyByte(p)
      PROVE  TypeOK'
  <2>1. ppos[p] + done[p] \in Index
    BY <1>4, CopyPlace
  <2> DEFINE i == ppos[p] + done[p]
  <2>2. CASE op[p] = "read"
    <3>1. buf[i] \in Values /\ data[p] \in Seq(Values)
      BY <2>1
    <3>2. Append(data[p], buf[i]) \in Seq(Values)
      BY <3>1
    <3>3. data' = [data EXCEPT ![p] = Append(data[p], buf[i])] /\ UNCHANGED buf
      BY <1>4, <2>2 DEF CopyByte
    <3>4. data' \in [Procs -> Seq(Values)]
      BY <3>2, <3>3
    <3>5. UNCHANGED <<version, read_only, mux, f_pos, op, ppos, count, barred, new, info>>
      BY <1>4 DEF CopyByte
    <3>6. pc' = pc /\ done' \in [Procs -> Nat]
      BY <1>4 DEF CopyByte
    <3> QED
      BY <3>3, <3>4, <3>5, <3>6
  <2>3. CASE op[p] \in {"write", "reset"}
    <3>1. data[p] \in Seq(Values) /\ Len(data[p]) = 1
      BY <1>4, <2>3 DEF CopyByte, WriteHasByte
    <3>2. data[p][1] \in Values
      <4> DEFINE d == data[p]
      <4>1. d \in Seq(Values) /\ 1 \in 1 .. Len(d)
        BY <3>1
      <4> HIDE DEF d
      <4>2. d[1] \in Values
        BY <4>1
      <4> QED
        BY <4>2 DEF d
    <3>3. buf' = [buf EXCEPT ![i] = data[p][1]] /\ UNCHANGED data
      BY <1>4, <2>3 DEF CopyByte
    <3>4. buf' \in [Index -> Values]
      BY <2>1, <3>2, <3>3
    <3> QED
      BY <1>4, <3>3, <3>4 DEF CopyByte
  <2> QED
    BY <2>2, <2>3
<1>5. ASSUME NEW p \in Procs,
             SeekRead(p) \/ SeekWrite(p) \/ SetReadOnly(p) \/ StoreReadOnly(p)
      PROVE  TypeOK'
  <2>1. CASE SeekRead(p)
    <3>1. PICK n \in Int : new' = [new EXCEPT ![p] = n]
      <4>1. PICK offset \in Offsets, base \in {0, f_pos[FileOf[p]], BUF_LEN} :
              new' = [new EXCEPT ![p] = base + offset]
        BY <2>1 DEF SeekRead
      <4>2. offset \in Int /\ f_pos[FileOf[p]] \in Nat
        OBVIOUS
      <4>3. base + offset \in Int
        BY <4>1, <4>2
      <4> QED
        BY <4>1, <4>3
    <3> QED
      BY <2>1, <3>1 DEF SeekRead, Lock, callVars
  <2>2. CASE SeekWrite(p)
    BY <2>2 DEF SeekWrite, Unlock, Index, callVars
  <2>3. CASE SetReadOnly(p)
    BY <2>3 DEF SetReadOnly, SetRdonly
  <2>4. CASE StoreReadOnly(p)
    BY <2>4 DEF StoreReadOnly, SetRdonly
  <2> QED
    BY <1>5, <2>1, <2>2, <2>3, <2>4
<1>6. ASSUME NEW c \in Clients, ClientGet(c) \/ ClientSet(c)
      PROVE  TypeOK'
  <2>1. CASE ClientGet(c)
    BY <2>1 DEF ClientGet, callVars
  <2>2. CASE ClientSet(c)
    BY <2>2 DEF ClientSet, SetRdonly
  <2> QED
    BY <1>6, <2>1, <2>2
<1>8. ASSUME NEW p \in Procs, ResetCall(p) \/ ResetReturn(p)
      PROVE  TypeOK'
  <2>1. CASE ResetCall(p)
    <3>1. \A n \in Counts : n \in Nat /\ Clamp(0, n) \in Nat
      BY ClampBounds
    <3>2. \A v \in Values : <<v>> \in Seq(Values)
      OBVIOUS
    <3> QED
      BY <2>1, <3>1, <3>2 DEF ResetCall
  <2>2. CASE ResetReturn(p)
    BY <2>2 DEF ResetReturn, EndCall
  <2> QED
    BY <1>8, <2>1, <2>2
<1>7. CASE MmapStore
  BY <1>7 DEF MmapStore, callVars
<1> QED
  BY <1>1, <1>2, <1>3, <1>4, <1>5, <1>6, <1>7, <1>8 DEF Next, Step

LEMMA BoundsStep == IInv /\ [Next]_vars => InBounds'
<1> SUFFICES ASSUME IInv, [Next]_vars PROVE InBounds'
  OBVIOUS
<1> USE DEF IInv, TypeOK, InBounds, Go
<1>1. CASE UNCHANGED vars
  BY <1>1 DEF vars, callVars
<1>2. ASSUME NEW p \in Procs, ReadCall(p) \/ WriteCall(p)
      PROVE  InBounds'
  <2> DEFINE pos == f_pos[FileOf[p]]
  <2>1. PICK n \in Counts : /\ ppos' = [ppos EXCEPT ![p] = pos]
                            /\ count' = [count EXCEPT ![p] = Clamp(pos, n)]
    BY <1>2 DEF ReadCall, WriteCall, Call
  <2>2. pos \in 0 .. BUF_LEN
    OBVIOUS
  <2>3. Clamp(pos, n) \in 0 .. BUF_LEN /\ pos + Clamp(pos, n) <= BUF_LEN
    BY <2>2, ClampBounds
  <2>4. f_pos' = f_pos /\ \E s \in {"lock", "check"} : pc' = [pc EXCEPT ![p] = s]
    BY <1>2 DEF ReadCall, WriteCall
  <2> QED
    BY <2>1, <2>2, <2>3, <2>4
<1>3. ASSUME NEW p \in Procs, WriteCheck(p) \/ MutexLock(p) \/ CopyByte(p)
      PROVE  InBounds'
  <2>1. CASE WriteCheck(p)
    BY <2>1 DEF WriteCheck, EndCall
  <2>2. CASE MutexLock(p)
    BY <2>2 DEF MutexLock, callVars
  <2>3. CASE CopyByte(p)
    BY <2>3 DEF CopyByte
  <2> QED
    BY <1>3, <2>1, <2>2, <2>3
<1>4. ASSUME NEW p \in Procs, EndCopy(p)
      PROVE  InBounds'
  BY <1>4 DEF EndCopy
<1>5. ASSUME NEW p \in Procs, WriteBack(p)
      PROVE  InBounds'
  BY <1>5 DEF WriteBack, EndCall
<1>6. ASSUME NEW p \in Procs,
             SeekRead(p) \/ SetReadOnly(p) \/ StoreReadOnly(p) \/ ResetReturn(p)
      PROVE  InBounds'
  <2>1. CASE SeekRead(p)
    BY <2>1 DEF SeekRead, callVars
  <2>2. CASE SetReadOnly(p) \/ StoreReadOnly(p)
    BY <2>2 DEF SetReadOnly, StoreReadOnly
  <2>3. CASE ResetReturn(p)
    BY <2>3 DEF ResetReturn, EndCall
  <2> QED
    BY <1>6, <2>1, <2>2, <2>3
<1>7. ASSUME NEW p \in Procs, SeekWrite(p)
      PROVE  InBounds'
  <2>1. \A f \in Files : f_pos'[f] \in 0 .. BUF_LEN
    <3>1. CASE UNCHANGED f_pos
      BY <3>1
    <3>2. CASE new[p] \in Index /\ f_pos' = [f_pos EXCEPT ![FileOf[p]] = new[p]]
      <4>1. new[p] \in 0 .. BUF_LEN
        BY <3>2 DEF Index
      <4> QED
        BY <3>2, <4>1
    <3> QED
      BY <1>7, <3>1, <3>2 DEF SeekWrite
  <2>2. /\ UNCHANGED <<ppos, count>>
        /\ \A q \in Procs : pc'[q] # "idle" => pc'[q] = pc[q]
    BY <1>7 DEF SeekWrite, callVars
  <2> QED
    BY <2>1, <2>2
<1>8. ASSUME NEW c \in Clients, ClientGet(c) \/ ClientSet(c)
      PROVE  InBounds'
  BY <1>8 DEF ClientGet, ClientSet, callVars
<1>9. CASE MmapStore
  BY <1>9 DEF MmapStore, callVars
<1>10. ASSUME NEW p \in Procs, ResetCall(p)
       PROVE  InBounds'
  <2>1. PICK n \in Counts : count' = [count EXCEPT ![p] = Clamp(0, n)]
    BY <1>10 DEF ResetCall
  <2>2. Clamp(0, n) \in 0 .. BUF_LEN
    BY ClampBounds
  <2>3. ppos[p] = 0
    BY <1>10 DEF ResetCall, AtStart
  <2>4. UNCHANGED <<f_pos, ppos>> /\ pc' = [pc EXCEPT ![p] = "copy"]
    BY <1>10 DEF ResetCall
  <2> QED
    BY <2>1, <2>2, <2>3, <2>4
<1> QED
  BY <1>1, <1>2, <1>3, <1>4, <1>5, <1>6, <1>7, <1>8, <1>9, <1>10 DEF Next, Step

LEMMA ByteStep == IInv /\ [Next]_vars => WriteHasByte'
<1> SUFFICES ASSUME IInv, [Next]_vars PROVE WriteHasByte'
  OBVIOUS
<1> USE DEF IInv, TypeOK, WriteHasByte, Go
<1>1. CASE UNCHANGED vars
  BY <1>1 DEF vars, callVars
<1>2. ASSUME NEW p \in Procs, ReadCall(p) \/ WriteCall(p)
      PROVE  WriteHasByte'
  <2>1. CASE ReadCall(p)
    BY <2>1 DEF ReadCall, Call
  <2>2. CASE WriteCall(p)
    <3>1. PICK v \in Values : data' = [data EXCEPT ![p] = <<v>>]
      BY <2>2 DEF WriteCall, Call
    <3>2. Len(data'[p]) = 1
      BY <3>1
    <3>3. \A q \in Procs \ {p} : data'[q] = data[q]
      BY <3>1
    <3>4. \A q \in Procs \ {p} : pc'[q] = pc[q] /\ op'[q] = op[q]
      BY <2>2 DEF WriteCall, Call
    <3> QED
      BY <3>2, <3>3, <3>4
  <2> QED
    BY <1>2, <2>1, <2>2
<1>3. ASSUME NEW p \in Procs,
             \/ WriteCheck(p) \/ MutexLock(p) \/ EndCopy(p) \/ WriteBack(p)
             \/ ResetReturn(p)
      PROVE  WriteHasByte'
  BY <1>3 DEF WriteCheck, MutexLock, EndCopy, WriteBack, ResetReturn, callVars
<1>4. ASSUME NEW p \in Procs, CopyByte(p)
      PROVE  WriteHasByte'
  BY <1>4 DEF CopyByte
<1>5. ASSUME NEW p \in Procs,
             SeekRead(p) \/ SeekWrite(p) \/ SetReadOnly(p) \/ StoreReadOnly(p)
      PROVE  WriteHasByte'
  BY <1>5 DEF SeekRead, SeekWrite, SetReadOnly, StoreReadOnly, callVars
<1>6. ASSUME NEW c \in Clients, ClientGet(c) \/ ClientSet(c)
      PROVE  WriteHasByte'
  BY <1>6 DEF ClientGet, ClientSet, callVars
<1>7. CASE MmapStore
  BY <1>7 DEF MmapStore, callVars
<1>8. ASSUME NEW p \in Procs, ResetCall(p)
      PROVE  WriteHasByte'
  <2>1. PICK v \in Values : data' = [data EXCEPT ![p] = <<v>>]
    BY <1>8 DEF ResetCall
  <2>2. Len(data'[p]) = 1
    BY <2>1
  <2>3. \A q \in Procs \ {p} :
          data'[q] = data[q] /\ pc'[q] = pc[q] /\ op'[q] = op[q]
    BY <1>8, <2>1 DEF ResetCall
  <2> QED
    BY <2>2, <2>3
<1> QED
  BY <1>1, <1>2, <1>3, <1>4, <1>5, <1>6, <1>7, <1>8 DEF Next, Step

LEMMA HolderStep == IInv /\ [Next]_vars => Holder'
<1> SUFFICES ASSUME IInv, [Next]_vars PROVE Holder'
  OBVIOUS
<1> USE DEF IInv, TypeOK, Holder, Go, Locked
<1>1. CASE UNCHANGED vars
  BY <1>1 DEF vars
<1>2. ASSUME NEW p \in Procs,
             \/ ReadCall(p) \/ WriteCall(p) \/ SetReadOnly(p) \/ StoreReadOnly(p)
             \/ ResetCall(p) \/ ResetReturn(p)
      PROVE  Holder'
  BY <1>2 DEF ReadCall, WriteCall, SetReadOnly, StoreReadOnly, ResetCall, ResetReturn
<1>3. ASSUME NEW p \in Procs, WriteCheck(p) \/ WriteBack(p) \/ CopyByte(p)
      PROVE  Holder'
  BY <1>3 DEF WriteCheck, WriteBack, CopyByte
<1>4. ASSUME NEW p \in Procs, MutexLock(p) \/ SeekRead(p)
      PROVE  Holder'
  BY <1>4 DEF MutexLock, SeekRead, Lock
<1>5. ASSUME NEW p \in Procs, EndCopy(p) \/ SeekWrite(p)
      PROVE  Holder'
  BY <1>5 DEF EndCopy, SeekWrite, Unlock
<1>6. ASSUME NEW c \in Clients, ClientGet(c) \/ ClientSet(c)
      PROVE  Holder'
  BY <1>6 DEF ClientGet, ClientSet
<1>7. CASE MmapStore
  BY <1>7 DEF MmapStore
<1> QED
  BY <1>1, <1>2, <1>3, <1>4, <1>5, <1>6, <1>7 DEF Next, Step

LEMMA StartStep == IInv /\ [Next]_vars => AtStart'
<1> SUFFICES ASSUME IInv, [Next]_vars PROVE AtStart'
  OBVIOUS
<1> USE DEF IInv, TypeOK, AtStart, Go
<1>1. CASE UNCHANGED vars
  BY <1>1 DEF vars, callVars
<1>2. ASSUME NEW p \in Procs, ReadCall(p) \/ WriteCall(p) \/ ResetCall(p)
      PROVE  AtStart'
  BY <1>2 DEF ReadCall, WriteCall, ResetCall, Call
<1>3. ASSUME NEW p \in Procs,
             \/ WriteCheck(p) \/ MutexLock(p) \/ CopyByte(p) \/ EndCopy(p)
             \/ WriteBack(p) \/ ResetReturn(p)
      PROVE  AtStart'
  BY <1>3 DEF WriteCheck, MutexLock, CopyByte, EndCopy, WriteBack, ResetReturn,
              EndCall, callVars
<1>4. ASSUME NEW p \in Procs,
             SeekRead(p) \/ SeekWrite(p) \/ SetReadOnly(p) \/ StoreReadOnly(p)
      PROVE  AtStart'
  BY <1>4 DEF SeekRead, SeekWrite, SetReadOnly, StoreReadOnly, callVars
<1>5. ASSUME NEW c \in Clients, ClientGet(c) \/ ClientSet(c)
      PROVE  AtStart'
  BY <1>5, FileAssumption DEF ClientGet, ClientSet, callVars
<1>6. CASE MmapStore
  BY <1>6 DEF MmapStore, callVars
<1> QED
  BY <1>1, <1>2, <1>3, <1>4, <1>5, <1>6 DEF Next, Step

LEMMA BarredStep == IInv /\ [Next]_vars => Barred'
<1> SUFFICES ASSUME IInv, [Next]_vars PROVE Barred'
  OBVIOUS
<1> USE DEF IInv, TypeOK, Barred, Go
<1>1. CASE UNCHANGED vars
  BY <1>1 DEF vars, callVars
<1>2. ASSUME NEW p \in Procs, ReadCall(p) \/ WriteCall(p) \/ ResetCall(p)
      PROVE  Barred'
  BY <1>2 DEF ReadCall, WriteCall, ResetCall, Call
<1>3. ASSUME NEW p \in Procs,
             \/ WriteCheck(p) \/ MutexLock(p) \/ CopyByte(p) \/ EndCopy(p)
             \/ WriteBack(p) \/ ResetReturn(p)
      PROVE  Barred'
  BY <1>3 DEF WriteCheck, MutexLock, CopyByte, EndCopy, WriteBack, ResetReturn,
              EndCall, callVars
<1>4. ASSUME NEW p \in Procs,
             SeekRead(p) \/ SeekWrite(p) \/ SetReadOnly(p) \/ StoreReadOnly(p)
      PROVE  Barred'
  BY <1>4 DEF SeekRead, SeekWrite, SetReadOnly, StoreReadOnly, SetRdonly, callVars
<1>5. ASSUME NEW c \in Clients, ClientGet(c) \/ ClientSet(c)
      PROVE  Barred'
  BY <1>5 DEF ClientGet, ClientSet, SetRdonly, callVars
<1>6. CASE MmapStore
  BY <1>6 DEF MmapStore, callVars
<1> QED
  BY <1>1, <1>2, <1>3, <1>4, <1>5, <1>6 DEF Next, Step

LEMMA ReceivedStep == IInv /\ [Next]_vars => Received'
<1> SUFFICES ASSUME IInv, [Next]_vars PROVE Received'
  OBVIOUS
<1> USE DEF IInv, TypeOK, Received, Go
<1>1. CASE UNCHANGED vars
  BY <1>1 DEF vars, callVars
<1>2. ASSUME NEW p \in Procs, ReadCall(p) \/ WriteCall(p) \/ ResetCall(p)
      PROVE  Received'
  <2>1. CASE ReadCall(p)
    BY <2>1 DEF ReadCall, Call
  <2>2. CASE WriteCall(p)
    <3>1. PICK v \in Values : data' = [data EXCEPT ![p] = <<v>>]
      BY <2>2 DEF WriteCall, Call
    <3> QED
      BY <2>2, <3>1 DEF WriteCall, Call
  <2>3. CASE ResetCall(p)
    <3>1. PICK v \in Values : data' = [data EXCEPT ![p] = <<v>>]
      BY <2>3 DEF ResetCall
    <3> QED
      BY <2>3, <3>1 DEF ResetCall
  <2> QED
    BY <1>2, <2>1, <2>2, <2>3
<1>3. ASSUME NEW p \in Procs,
             \/ WriteCheck(p) \/ MutexLock(p) \/ EndCopy(p) \/ WriteBack(p)
             \/ ResetReturn(p)
      PROVE  Received'
  <2>1. CASE WriteCheck(p)
    BY <2>1 DEF WriteCheck, EndCall
  <2>2. CASE MutexLock(p) \/ EndCopy(p)
    BY <2>2 DEF MutexLock, EndCopy, callVars
  <2>3. CASE WriteBack(p) \/ ResetReturn(p)
    BY <2>3 DEF WriteBack, ResetReturn, EndCall
  <2> QED
    BY <1>3, <2>1, <2>2, <2>3
<1>4. ASSUME NEW p \in Procs, CopyByte(p)
      PROVE  Received'
  <2>1. CASE op[p] = "read"
    <3>1. data' = [data EXCEPT ![p] = Append(data[p], buf[ppos[p] + done[p]])]
      BY <1>4, <2>1 DEF CopyByte
    <3>2. ppos[p] + done[p] \in Index
      BY <1>4, CopyPlace
    <3>3. Len(data'[p]) = Len(data[p]) + 1
      BY <3>1, <3>2
    <3> QED
      BY <1>4, <3>1, <3>3 DEF CopyByte
  <2>2. CASE op[p] # "read"
    BY <1>4, <2>2 DEF CopyByte
  <2> QED
    BY <2>1, <2>2
<1>5. ASSUME NEW p \in Procs,
             SeekRead(p) \/ SeekWrite(p) \/ SetReadOnly(p) \/ StoreReadOnly(p)
      PROVE  Received'
  BY <1>5 DEF SeekRead, SeekWrite, SetReadOnly, StoreReadOnly, callVars
<1>6. ASSUME NEW c \in Clients, ClientGet(c) \/ ClientSet(c)
      PROVE  Received'
  BY <1>6, FileAssumption DEF ClientGet, ClientSet, callVars
<1>7. CASE MmapStore
  BY <1>7 DEF MmapStore, callVars
<1> QED
  BY <1>1, <1>2, <1>3, <1>4, <1>5, <1>6, <1>7 DEF Next, Step

-----------------------------------------------------------------------------
\* The inductive invariant holds of every behaviour.
THEOREM Invariance == Spec => []IInv
<1>1. IInv /\ [Next]_vars => IInv'
  BY TypeStep, BoundsStep, ByteStep, HolderStep, StartStep, BarredStep,
     ReceivedStep DEF IInv
<1> QED
  BY InitInv, <1>1, PTL DEF Spec

\* The variables of the memory device and of its users have their types.
THEOREM TypeCorrect == Spec => []TypeOK
<1>1. IInv => TypeOK
  BY DEF IInv
<1> QED
  BY <1>1, Invariance, PTL

\* No position and no copy of read() or write() leaves the buffer, however
\* many processes share a file description, with or without the mutex.
THEOREM PositionsInBounds == Spec => []InBounds
<1>1. IInv => InBounds
  BY DEF IInv
<1> QED
  BY <1>1, Invariance, PTL

\* With add_mutex_to_chrdev.patch, copies and seeks exclude each other.
THEOREM Exclusion == Spec => []MutexExcludes
<1>1. IInv => MutexExcludes
  BY DEF IInv, Holder, MutexExcludes
<1> QED
  BY <1>1, Invariance, PTL

\* A write that begins while the device is read-only writes nothing as long as
\* it stays so.
THEOREM ReadOnlyHonoured == Spec => []ReadOnlyBarsWrites
<1>1. IInv => ReadOnlyBarsWrites
  BY DEF IInv, Barred, ReadOnlyBarsWrites
<1> QED
  BY <1>1, Invariance, PTL

-----------------------------------------------------------------------------
(* read() and write() are atomic with the mutex *)

\* Two abstract states are the same if they are so byte by byte and caller by
\* caller.
LEMMA SameAbs ==
  ASSUME \A i \in Index : AbsContent'[i] = AbsContent[i],
         \A p \in Procs : AbsResult'[p] = AbsResult[p]
  PROVE  UNCHANGED Atomic!vars
<1>1. AbsContent = [i \in 0 .. BUF_LEN - 1 |-> AbsContent[i]]
      /\ AbsContent' = [i \in 0 .. BUF_LEN - 1 |-> AbsContent'[i]]
  BY DEF AbsContent, Index
<1>2. AbsResult = [p \in Procs |-> AbsResult[p]]
      /\ AbsResult' = [p \in Procs |-> AbsResult'[p]]
  BY DEF AbsResult
<1> QED
  BY <1>1, <1>2 DEF Atomic!vars, Index

LEMMA AbsInit == Init => Atomic!Init
<1> SUFFICES ASSUME Init PROVE Atomic!Init
  OBVIOUS
<1>1. AbsContent \in [0 .. BUF_LEN - 1 -> Values]
  BY DEF Init, AbsContent, Writing, Index
<1>2. AbsResult = [p \in Procs |-> << >>]
  BY DEF Init, AbsResult
<1> QED
  BY <1>1, <1>2 DEF Atomic!Init

\* Without the mutex the abstract buffer stands still.
LEMMA UnlockedStep ==
  ASSUME IInv, [Next]_vars, ~Locked
  PROVE  UNCHANGED Atomic!vars
<1>1. version' = version
  BY DEF Next, Step, vars, ReadCall, WriteCall, SeekRead, SetReadOnly, ResetCall,
     StoreReadOnly, WriteCheck, MutexLock, CopyByte, EndCopy, WriteBack, SeekWrite,
     ResetReturn, ClientGet, ClientSet, MmapStore
<1>2. ~Locked'
  BY <1>1 DEF Locked
<1> QED
  BY <1>2 DEF Atomic!vars, AbsContent, AbsResult

\* A step that leaves copies, buffer and data alone leaves the abstract ones.
LEMMA QuietStep ==
  ASSUME IInv, Locked, UNCHANGED <<version, buf, op, data>>,
         NEW p \in Procs \cup Clients, pc[p] # "copy", pc'[p] # "copy",
         \A q \in Procs \ {p} : pc'[q] = pc[q] /\ ppos'[q] = ppos[q]
                                  /\ count'[q] = count[q] /\ done'[q] = done[q],
         mux' # mux => \A q \in Procs : pc[q] # "copy"
  PROVE  UNCHANGED Atomic!vars
<1>1. Locked'
  BY DEF Locked
<1>2. \A i \in Index : AbsContent'[i] = AbsContent[i]
  <2> SUFFICES ASSUME NEW i \in Index PROVE Writing(i)' <=> Writing(i)
    BY <1>1 DEF AbsContent, Writing
  <2>1. CASE mux' = mux
    BY <2>1 DEF Writing
  <2>2. CASE mux' # mux
    BY <2>2 DEF Writing
  <2> QED
    BY <2>1, <2>2
<1>3. \A q \in Procs : AbsResult'[q] = AbsResult[q]
  BY <1>1 DEF AbsResult, Receiving
<1> QED
  BY <1>2, <1>3, SameAbs

\* The start of a call makes the last result void.
LEMMA CallStep ==
  ASSUME IInv, Locked, NEW p \in Procs, ReadCall(p) \/ WriteCall(p)
  PROVE  Atomic!Forget(p)
<1> USE DEF IInv, TypeOK, Go
<1>1. /\ UNCHANGED <<version, buf, mux>> /\ pc[p] = "idle"
      /\ pc'[p] # "copy"
      /\ \A q \in Procs \ {p} : /\ pc'[q] = pc[q] /\ ppos'[q] = ppos[q] /\ op'[q] = op[q]
                               /\ count'[q] = count[q] /\ done'[q] = done[q]
                               /\ data'[q] = data[q]
      /\ op'[p] = "write" \/ data'[p] = << >>
  BY DEF ReadCall, WriteCall, Call
<1>2. Locked'
  BY <1>1 DEF Locked
<1> HIDE DEF IInv, TypeOK, Go
<1>3. AbsContent' = AbsContent
  <2>1. \A i \in Index : Writing(i)' <=> Writing(i)
    BY <1>1 DEF Writing
  <2>2. \A i \in Index : Writing(i) => mux \in Procs \ {p}
    BY <1>1 DEF Writing
  <2> QED
    BY <1>1, <1>2, <2>1, <2>2 DEF AbsContent
<1>4. \A q \in Procs \ {p} : AbsResult'[q] = AbsResult[q]
  BY <1>1, <1>2 DEF AbsResult, Receiving
<1>5. AbsResult'[p] = << >>
  BY <1>1, <1>2 DEF AbsResult
<1>6. AbsResult' = [AbsResult EXCEPT ![p] = << >>]
  BY <1>4, <1>5 DEF AbsResult
<1> QED
  BY <1>3, <1>6 DEF Atomic!Forget

\* The writer that gets the mutex writes, the reader reads.
LEMMA LockStep ==
  ASSUME IInv, Locked, NEW p \in Procs, MutexLock(p)
  PROVE  Atomic!Read(p) \/ Atomic!Write(p)
<1> USE DEF IInv, TypeOK, Go
<1>1. /\ UNCHANGED <<version, buf, callVars>> /\ mux = Free /\ mux' = p
      /\ pc[p] = "lock" /\ pc' = [pc EXCEPT ![p] = "copy"]
  BY DEF MutexLock, Lock
<1>2. Locked'
  BY <1>1 DEF Locked
<1>3. \A q \in Procs : pc[q] # "copy"
  BY <1>1 DEF Holder
<1>4. \A i \in Index : AbsContent[i] = buf[i]
  BY <1>1 DEF AbsContent, Writing
<1>5. ppos[p] \in 0 .. BUF_LEN /\ count[p] \in 0 .. BUF_LEN - ppos[p] /\ done[p] = 0
  BY <1>1 DEF InBounds, Received
<1>6. \A q \in Procs \ {p} : AbsResult'[q] = AbsResult[q]
  BY <1>1, <1>2 DEF AbsResult, Receiving, callVars
<1>7. CASE op[p] = "read"
  <2>1. AbsContent' = AbsContent
    BY <1>1, <1>2, <1>4, <1>7 DEF AbsContent, Writing, callVars
  <2>2. \A k \in 1 .. count[p] : buf[ppos[p] + k - 1] = AbsContent[ppos[p] + k - 1]
    BY <1>4, <1>5 DEF Index
  <2>3. AbsResult'[p] = [k \in 1 .. count[p] |-> buf[ppos[p] + k - 1]]
    BY <1>1, <1>2, <1>5, <1>7 DEF AbsResult, Receiving, callVars
  <2>4. AbsResult'[p] = Atomic!Part(ppos[p], count[p])
    BY <2>2, <2>3 DEF Atomic!Part
  <2>5. AbsResult' = [AbsResult EXCEPT ![p] = Atomic!Part(ppos[p], count[p])]
    BY <1>6, <2>4 DEF AbsResult
  <2> QED
    BY <1>5, <2>1, <2>5 DEF Atomic!Read
<1>8. CASE op[p] = "write"
  <2> DEFINE b == data[p][1]
  <2>1. Len(data[p]) = 1 /\ data[p] \in Seq(Values)
    BY <1>1, <1>8 DEF WriteHasByte
  <2>2. b \in Values
    <3> DEFINE d == data[p]
    <3>1. d \in Seq(Values) /\ 1 \in 1 .. Len(d)
      BY <2>1
    <3> HIDE DEF d
    <3>2. d[1] \in Values
      BY <3>1
    <3> QED
      BY <3>2 DEF d
  <2> HIDE DEF b
  <2>3. \A i \in Index : AbsContent'[i] =
          IF i \in ppos[p] .. ppos[p] + count[p] - 1 THEN b ELSE AbsContent[i]
    BY <1>1, <1>2, <1>4, <1>5, <1>8 DEF AbsContent, Writing, callVars, b
  <2>4. AbsContent' = [i \in 0 .. BUF_LEN - 1 |->
          IF i \in ppos[p] .. ppos[p] + count[p] - 1 THEN b ELSE AbsContent[i]]
    BY <2>3 DEF AbsContent, Index
  <2>5. AbsResult'[p] = AbsResult[p]
    BY <1>1, <1>2, <1>8 DEF AbsResult, callVars
  <2>6. AbsResult' = AbsResult
    BY <1>6, <2>5 DEF AbsResult
  <2> QED
    <3> DEFINE start == ppos[p]
               n == count[p]
    <3>1. start \in 0 .. BUF_LEN /\ n \in 0 .. BUF_LEN - start
      BY <1>5
    <3>2. AbsContent' = [i \in 0 .. BUF_LEN - 1 |->
            IF i \in start .. start + n - 1 THEN b ELSE AbsContent[i]]
      BY <2>4
    <3> HIDE DEF start, n
    <3>3. Atomic!Write(p)
      BY ONLY <2>2, <2>6, <3>1, <3>2 DEF Atomic!Write
    <3> QED
      BY <3>3
<1>9. op[p] \in {"read", "write"}
  BY DEF Received, Locked
<1> HIDE DEF IInv, TypeOK, Go
<1> QED
  BY <1>7, <1>8, <1>9

\* What is copied was there, or counted, before.
LEMMA ByteCopied ==
  ASSUME IInv, Locked, NEW p \in Procs, CopyByte(p)
  PROVE  UNCHANGED Atomic!vars
<1> USE DEF IInv, TypeOK, Go
<1> DEFINE i == ppos[p] + done[p]
<1>1. /\ UNCHANGED <<version, mux, op, ppos, count, pc>> /\ pc[p] = "copy"
      /\ done' = [done EXCEPT ![p] = done[p] + 1] /\ done[p] < count[p]
  BY DEF CopyByte
<1>2. Locked'
  BY <1>1 DEF Locked
<1>3. mux = p /\ \A q \in Procs \ {p} : pc[q] # "copy"
  BY <1>1 DEF Holder
<1>4. i \in Index
  BY CopyPlace
<1>5. CASE op[p] = "read"
  <2>1. UNCHANGED buf /\ data' = [data EXCEPT ![p] = Append(data[p], buf[i])]
    BY <1>5 DEF CopyByte
  <2>2. AbsContent' = AbsContent
    BY <1>1, <1>2, <1>3, <1>5, <2>1 DEF AbsContent, Writing
  <2>3. data[p] \in Seq(Values) /\ Len(data[p]) = done[p] /\ buf[i] \in Values
    BY <1>1, <1>4, <1>5 DEF Received
  <2>4. /\ \A k \in 1 .. done[p] : data'[p][k] = data[p][k]
        /\ data'[p][done[p] + 1] = buf[i]
    BY <2>1, <2>3
  <2>5. \A k \in 1 .. count[p] :
          (IF k <= done'[p] THEN data'[p][k] ELSE buf'[ppos'[p] + k - 1])
            = IF k <= done[p] THEN data[p][k] ELSE buf[ppos[p] + k - 1]
    <3> TAKE k \in 1 .. count[p]
    <3>1. done[p] \in Nat /\ done'[p] = done[p] + 1 /\ ppos'[p] = ppos[p]
      BY <1>1
    <3>2. CASE k <= done[p]
      BY <2>4, <3>1, <3>2
    <3>3. CASE k = done[p] + 1
      <4>1. ppos[p] + k - 1 = i /\ k <= done'[p] /\ ~(k <= done[p])
        BY <3>1, <3>3
      <4> QED
        BY <2>1, <2>4, <3>1, <3>3, <4>1
    <3>4. CASE k > done[p] + 1
      BY <2>1, <3>1, <3>4
    <3> QED
      BY <3>1, <3>2, <3>3, <3>4
  <2>6. Receiving(p)' = Receiving(p)
    BY <1>1, <2>5 DEF Receiving
  <2>7. \A q \in Procs : AbsResult'[q] = AbsResult[q]
    BY <1>1, <1>2, <1>3, <2>1, <2>6 DEF AbsResult
  <2> QED
    BY <2>2, <2>7, SameAbs
<1>6. CASE op[p] = "write"
  <2>1. buf' = [buf EXCEPT ![i] = data[p][1]] /\ UNCHANGED data
    BY <1>6 DEF CopyByte
  <2>2. \A j \in Index : AbsContent'[j] = AbsContent[j]
    <3> TAKE j \in Index
    <3> DEFINE top == ppos[p] + count[p] - 1
    <3>1. Writing(j) <=> j \in i .. top
      BY <1>1, <1>3, <1>6 DEF Writing
    <3>2. Writing(j)' <=> j \in i + 1 .. top
      BY <1>1, <1>3, <1>6 DEF Writing
    <3>3. i \in Nat /\ top \in Int /\ i <= top /\ j \in Nat
      <4>1. ppos[p] \in Nat /\ done[p] \in Nat /\ count[p] \in Nat
        OBVIOUS
      <4>2. done[p] < count[p] /\ j \in Nat
        BY <1>1 DEF Index
      <4> HIDE DEF IInv, TypeOK, Go
      <4> QED
        BY <4>1, <4>2
    <3>4. Writing(j) => Writing(j)' \/ j = i
      BY <3>1, <3>2, <3>3
    <3>5. Writing(j)' => Writing(j) /\ j # i
      BY <3>1, <3>2, <3>3
    <3>6. Writing(i)
      BY <1>1, <1>3, <1>6, <3>3 DEF Writing
    <3> HIDE DEF i
    <3>7. CASE j = i
      BY <1>2, <1>3, <1>4, <2>1, <3>5, <3>6, <3>7 DEF AbsContent
    <3>8. CASE j # i
      BY <1>1, <1>2, <1>3, <2>1, <3>4, <3>5, <3>8 DEF AbsContent
    <3> QED
      BY <3>7, <3>8
  <2>3. \A q \in Procs : AbsResult'[q] = AbsResult[q]
    BY <1>1, <1>2, <1>3, <1>6, <2>1 DEF AbsResult
  <2> QED
    BY <2>2, <2>3, SameAbs
<1>7. op[p] # "reset"
  BY DEF Received, Locked
<1> QED
  BY <1>5, <1>6, <1>7

\* At the end of a copy everything that counted is there.
LEMMA CopyEnded ==
  ASSUME IInv, Locked, "mutex" \notin Faulty, NEW p \in Procs, EndCopy(p)
  PROVE  UNCHANGED Atomic!vars
<1> USE DEF IInv, TypeOK, Go
<1>1. /\ UNCHANGED <<version, buf, op, count, done, data>>
      /\ pc[p] = "copy" /\ pc' = [pc EXCEPT ![p] = "return"]
      /\ done[p] = count[p] /\ mux' = Free /\ op[p] # "reset"
  BY DEF EndCopy, Unlock, Locked
<1>2. Locked'
  BY <1>1 DEF Locked
<1>3. mux = p /\ \A q \in Procs \ {p} : pc[q] # "copy"
  BY <1>1 DEF Holder
<1>4. \A i \in Index : ~Writing(i) /\ ~Writing(i)'
  BY <1>1, <1>3 DEF Writing
<1>5. \A i \in Index : AbsContent'[i] = AbsContent[i]
  BY <1>1, <1>2, <1>4 DEF AbsContent
<1>6. \A q \in Procs \ {p} : AbsResult'[q] = AbsResult[q]
  BY <1>1, <1>2, <1>3 DEF AbsResult
<1>7. AbsResult'[p] = AbsResult[p]
  <2>1. CASE op[p] = "write"
    BY <1>1, <1>2, <2>1 DEF AbsResult
  <2>2. CASE op[p] = "read"
    <3>1. data[p] \in Seq(Values) /\ Len(data[p]) = done[p]
      BY <1>1, <2>2 DEF Received
    <3>2. data[p] = [k \in 1 .. done[p] |-> data[p][k]]
      BY <3>1
    <3>3. Receiving(p) = [k \in 1 .. done[p] |-> data[p][k]]
      BY <1>1 DEF Receiving
    <3> QED
      BY <1>1, <1>2, <2>2, <3>2, <3>3 DEF AbsResult
  <2> QED
    BY <1>1, <2>1, <2>2
<1> QED
  BY <1>5, <1>6, <1>7, SameAbs

\* Every step of the device with the mutex is one of the abstract buffer or
\* leaves it as it is.
LEMMA AtomicStep ==
  ASSUME IInv, [Next]_vars, "mutex" \notin Mapped \cup Faulty
  PROVE  [Atomic!Next]_Atomic!vars
<1> USE DEF IInv, TypeOK, Go
<1>1. CASE ~Locked
  BY <1>1, UnlockedStep
<1>2. CASE Locked /\ UNCHANGED vars
  BY <1>2 DEF vars, callVars, Atomic!vars, AbsContent, AbsResult, Writing, Receiving, Locked
<1>3. ASSUME Locked, NEW p \in Procs, ReadCall(p) \/ WriteCall(p)
      PROVE  Atomic!Next
  BY <1>3, CallStep DEF Atomic!Next
<1>4. ASSUME Locked, NEW p \in Procs, MutexLock(p)
      PROVE  Atomic!Next
  BY <1>4, LockStep DEF Atomic!Next
<1>5. ASSUME Locked, NEW p \in Procs, CopyByte(p) \/ EndCopy(p)
      PROVE  UNCHANGED Atomic!vars
  BY <1>5, ByteCopied, CopyEnded
<1>6. ASSUME Locked, NEW p \in Procs, WriteCheck(p) \/ WriteBack(p)
      PROVE  UNCHANGED Atomic!vars
  <2>1. /\ UNCHANGED <<version, buf, op, data, mux>> /\ pc[p] # "copy" /\ pc'[p] # "copy"
        /\ \A q \in Procs \ {p} : pc'[q] = pc[q] /\ ppos'[q] = ppos[q]
                                  /\ count'[q] = count[q] /\ done'[q] = done[q]
    BY <1>6 DEF WriteCheck, WriteBack, EndCall
  <2> QED
    BY <1>6, <2>1, QuietStep
<1>7. ASSUME Locked, NEW p \in Procs,
             SeekRead(p) \/ SeekWrite(p) \/ SetReadOnly(p) \/ StoreReadOnly(p)
      PROVE  UNCHANGED Atomic!vars
  <2>1. /\ UNCHANGED <<version, buf, op, data, ppos, count, done>>
        /\ pc[p] # "copy" /\ pc'[p] # "copy" /\ \A q \in Procs \ {p} : pc'[q] = pc[q]
    BY <1>7 DEF SeekRead, SeekWrite, SetReadOnly, StoreReadOnly, callVars
  <2>2. mux' # mux => mux = Free \/ mux = p
    BY <1>7 DEF SeekRead, SeekWrite, SetReadOnly, StoreReadOnly, Lock, Holder
  <2>3. mux' # mux => \A q \in Procs : pc[q] # "copy"
    BY <1>7, <2>1, <2>2 DEF Holder
  <2> QED
    BY <1>7, <2>1, <2>3, QuietStep
<1>8. ASSUME Locked, NEW c \in Clients, ClientGet(c) \/ ClientSet(c)
      PROVE  UNCHANGED Atomic!vars
  <2>1. /\ UNCHANGED <<version, buf, op, data, ppos, count, done, mux>>
        /\ pc[c] # "copy" /\ pc'[c] # "copy" /\ \A q \in Procs \ {c} : pc'[q] = pc[q]
    BY <1>8 DEF ClientGet, ClientSet, callVars
  <2> QED
    BY <1>8, <2>1, QuietStep
<1>9. Locked => /\ ~MmapStore
                /\ \A p \in Procs : ~ResetCall(p) /\ ~ResetReturn(p)
  BY DEF Locked, MmapStore, ResetCall, ResetReturn, Received
<1> QED
  BY <1>1, <1>2, <1>3, <1>4, <1>5, <1>6, <1>7, <1>8, <1>9 DEF Next, Step

\* With add_mutex_to_chrdev.patch read() and write() are atomic, for any number
\* of processes, as long as no pointer is bad and nobody maps the buffer
\* (add_mutex_to_chrdev.patch:9-61).
THEOREM ReadWriteAtomic ==
  ASSUME "mutex" \notin Mapped \cup Faulty
  PROVE  Spec => IsAtomic
<1>1. IInv /\ [Next]_vars => [Atomic!Next]_Atomic!vars
  BY AtomicStep
<1> QED
  BY <1>1, AbsInit, Invariance, PTL DEF Spec, IsAtomic, Atomic!Spec
=============================================================================
