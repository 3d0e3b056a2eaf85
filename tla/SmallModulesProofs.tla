------------------------- MODULE SmallModulesProofs -------------------------
(***************************************************************************)
(* The invariants of Notifier, ChrdevTest and Containers, each one of the  *)
(* specification of its own module, for any number of users and entries    *)
(* and any data.                                                           *)
(***************************************************************************)
EXTENDS Containers, Notifier, ChrdevTest, FiniteSetTheorems, SequenceTheorems,
        WellFoundedInduction, TLAPS

(* Notifier *)

NotifierTypeOK ==
  /\ pc \in {"out", "netdevice", "reboot", "undo", "in", "exit"}
  /\ registered \subseteq Chains
  /\ handler \in [Chains -> {"idle", "load", "store"}]
  /\ local \in [Chains -> Int] /\ ninfo_data \in Int
  /\ events \in Int /\ raced \in BOOLEAN

\* Which chains have the handler at each step, and that the kernel is in no
\* handler it has not.
OnChains ==
  /\ pc \in {"out", "netdevice"} => registered = {}
  /\ pc \in {"reboot", "undo"} => registered = {"netdevice"}
  /\ pc = "in" => registered = Chains
  /\ pc = "exit" => registered = {"reboot"}
  /\ \A k \in Chains : handler[k] # "idle" => k \in registered

\* The calls that are running, one by one.
Calls(k) == IF handler[k] = "idle" THEN 0 ELSE 1
InProgress == Calls("netdevice") + Calls("reboot")

\* What a handler has loaded is a number it may still add one to.
Numbering ==
  /\ ninfo_data + InProgress <= events
  /\ \A k \in Chains : handler[k] = "store" => local[k] + InProgress <= events

\* Before the first race only one handler is between load and store.
Unraced ==
  ~raced =>
    /\ ninfo_data + InProgress = events
    /\ \A k, o \in Chains : handler[k] = "store" /\ handler[o] = "store" => k = o
    /\ \A k \in Chains : handler[k] = "store" => local[k] = ninfo_data

NotifierInv == NotifierTypeOK /\ OnChains /\ Numbering /\ Unraced

LEMMA CountRunning ==
  ASSUME NotifierTypeOK
  PROVE  Cardinality(Running) = InProgress
<1>1. Cardinality({}) = 0
  BY FS_EmptySet
<1>2. /\ IsFiniteSet({"netdevice"}) /\ Cardinality({"netdevice"}) = 1
      /\ Cardinality({"reboot"}) = 1
  BY FS_Singleton
<1>3. Cardinality({"netdevice"} \cup {"reboot"}) = 2
  <2> DEFINE one == {"netdevice"}
  <2>1. IsFiniteSet(one) /\ Cardinality(one) = 1 /\ "reboot" \notin one
    BY <1>2
  <2> HIDE DEF one
  <2>2. Cardinality(one \cup {"reboot"}) = 2
    BY <2>1, FS_AddElement
  <2> QED
    BY <2>2 DEF one
<1>4. CASE handler["netdevice"] = "idle" /\ handler["reboot"] = "idle"
  <2>1. Running = {}
    BY <1>4 DEF Running, Chains
  <2> QED
    BY <1>1, <1>4, <2>1 DEF InProgress, Calls
<1>5. CASE handler["netdevice"] # "idle" /\ handler["reboot"] = "idle"
  <2>1. Running = {"netdevice"}
    BY <1>5 DEF Running, Chains
  <2> QED
    BY <1>2, <1>5, <2>1 DEF InProgress, Calls
<1>6. CASE handler["netdevice"] = "idle" /\ handler["reboot"] # "idle"
  <2>1. Running = {"reboot"}
    BY <1>6 DEF Running, Chains
  <2> QED
    BY <1>2, <1>6, <2>1 DEF InProgress, Calls
<1>7. CASE handler["netdevice"] # "idle" /\ handler["reboot"] # "idle"
  <2>1. Running = {"netdevice"} \cup {"reboot"}
    BY <1>7 DEF Running, Chains
  <2> QED
    BY <1>3, <1>7, <2>1 DEF InProgress, Calls
<1> QED
  BY <1>4, <1>5, <1>6, <1>7

LEMMA NotifierStep == NotifierInv /\ [NotifierNext]_notifierVars => NotifierInv'
<1> SUFFICES ASSUME NotifierInv, [NotifierNext]_notifierVars PROVE NotifierInv'
  OBVIOUS
<1> USE NotifierAssumption
    DEF NotifierInv, NotifierTypeOK, OnChains, Numbering, Unraced, InProgress, Calls, Chains, Go
<1>1. CASE Load
  <2>1. handler["netdevice"] = "idle" /\ handler["reboot"] = "idle"
    BY <1>1 DEF Load
  <2>2. NotifierTypeOK'
    <3>1. raced' \in BOOLEAN /\ registered' \subseteq Chains
      BY <1>1 DEF Load
    <3>2. ninfo_data' \in Int /\ events' \in Int
      BY <1>1 DEF Load
    <3> QED
      BY <1>1, <3>1, <3>2 DEF Load
  <2>3. OnChains'
    BY <1>1, <2>1 DEF Load
  <2>4. Numbering'
    BY <1>1, <2>1 DEF Load
  <2>5. Unraced'
    BY <1>1, <2>1 DEF Load
  <2> QED
    BY <2>2, <2>3, <2>4, <2>5
<1>2. CASE RegisterNetdevice
  BY <1>2 DEF RegisterNetdevice, handlerVars
<1>3. CASE RegisterReboot
  BY <1>3 DEF RegisterReboot, handlerVars
<1>4. CASE UndoNetdevice
  BY <1>4 DEF UndoNetdevice, Unregister, handlerVars
<1>5. CASE ExitNetdevice
  BY <1>5 DEF ExitNetdevice, Unregister, handlerVars
<1>6. CASE ExitReboot
  BY <1>6 DEF ExitReboot, Unregister, handlerVars
<1>7. ASSUME NEW k \in Chains, Notify(k) PROVE NotifierInv'
  BY <1>7 DEF Notify
<1>8. ASSUME NEW k \in Chains, HandlerLoad(k) PROVE NotifierInv'
  BY <1>8 DEF HandlerLoad
<1>9. ASSUME NEW k \in Chains, HandlerStore(k) PROVE NotifierInv'
  BY <1>9 DEF HandlerStore
<1>10. CASE UNCHANGED notifierVars
  BY <1>10 DEF notifierVars, handlerVars
<1> QED
  BY <1>1, <1>2, <1>3, <1>4, <1>5, <1>6, <1>7, <1>8, <1>9, <1>10 DEF NotifierNext

LEMMA NotifierInvariance == NotifierSpec => []NotifierInv
<1>1. NotifierInit => NotifierInv
  <2> SUFFICES ASSUME NotifierInit PROVE NotifierInv
    OBVIOUS
  <2> USE DEF NotifierInit, Chains
  <2>1. InProgress = 0
    BY DEF InProgress, Calls
  <2>2. NotifierTypeOK
    <3>1. raced \in BOOLEAN
      OBVIOUS
    <3>2. ninfo_data \in Int /\ events \in Int /\ registered \subseteq Chains
      OBVIOUS
    <3>3. pc \in {"out", "netdevice", "reboot", "undo", "in", "exit"}
      OBVIOUS
    <3>4. handler \in [Chains -> {"idle", "load", "store"}] /\ local \in [Chains -> Int]
      OBVIOUS
    <3> QED
      BY <3>1, <3>2, <3>3, <3>4 DEF NotifierTypeOK
  <2>3. OnChains
    BY DEF OnChains
  <2>4. Numbering
    BY <2>1 DEF Numbering
  <2>5. Unraced
    BY <2>1 DEF Unraced
  <2> QED
    BY <2>2, <2>3, <2>4, <2>5 DEF NotifierInv
<1> QED
  BY <1>1, NotifierStep, PTL DEF NotifierSpec

\* After its exit, and after an init that failed, the module leaves no handler
\* on a chain and the kernel in none (notifier.k:54-91).
THEOREM NotifierLeavesNothing == NotifierSpec => []NoneLeft
<1>1. NotifierInv => NoneLeft
  BY DEF NotifierInv, OnChains, NoneLeft
<1> QED
  BY <1>1, NotifierInvariance, PTL

\* Events are numbered without a gap, and until the two handlers first race in
\* data++ each has a number of its own (notifier.k:33, :45).
THEOREM NumbersHaveNoGap == NotifierSpec => []EventsNumbered
<1>1. NotifierInv => EventsNumbered
  BY CountRunning DEF NotifierInv, NotifierTypeOK, Numbering, Unraced, EventsNumbered, InProgress,
     Calls
<1> QED
  BY <1>1, NotifierInvariance, PTL

-----------------------------------------------------------------------------
(* ChrdevTest *)

TestTypeOK ==
  /\ device \in {"legacy", "buffer", "memory", "rdonly"}
  /\ program \in [Users -> Programs]
  /\ next \in [Users -> {"write", "reopen", "lseek", "read", "end"}]
  /\ ppos \in [Users -> Int] /\ c \in [Users -> Int]
  /\ DOMAIN got = Users /\ DOMAIN failed = Users
  /\ chrdev_buf \in [1 .. TestLen -> Nat]

\* The buffer begins with what every user writes.
TextThere == \A i \in 1 .. Len(Text) : chrdev_buf[i] = Text[i]

\* One write() writes all, so that each loop starts from 0, and the second one
\* at the start of a buffer that has the text, whoever wrote it last.
AsUser(u) ==
  /\ next[u] = "write" => ppos[u] = 0
  /\ next[u] \in {"write", "reopen", "lseek"} => c[u] = 0 /\ got[u] = << >>
  /\ next[u] = "read" /\ program[u] # "as_is" => c[u] = 0 /\ got[u] = << >> /\ ppos[u] = 0
  /\ next[u] \in {"reopen", "lseek", "read"} /\ device # "legacy" => TextThere
  /\ next[u] = "end" /\ program[u] # "as_is" /\ ~failed[u] /\ c[u] > 0 => got[u] = Text

TestInv == TestTypeOK /\ \A u \in Users : AsUser(u)

LEMMA OneWrite ==
  ASSUME TestInv, NEW u \in Users, TestWrite(u)
  PROVE  /\ Written(u, Len(Text) - c[u]) = Len(Text)
         /\ ppos' = [ppos EXCEPT ![u] = Len(Text)] /\ c' = [c EXCEPT ![u] = 0]
         /\ next' = [next EXCEPT ![u] = AfterWrites(u)]
         /\ UNCHANGED <<device, program, got, failed>>
         /\ chrdev_buf' \in [1 .. TestLen -> Nat]
         /\ device # "legacy" => TextThere'
         /\ device = "legacy" => UNCHANGED chrdev_buf
<1>1. next[u] = "write" /\ ppos[u] = 0 /\ c[u] = 0
  BY DEF TestInv, AsUser, TestWrite
<1>2. Len(Text) \in Nat /\ TestLen \in Nat /\ 0 < Len(Text) /\ Len(Text) <= TestLen
  BY TestAssumption
<1>3. Written(u, Len(Text) - c[u]) = Len(Text)
  BY <1>1, <1>2 DEF Written, ToEnd
<1>4. chrdev_buf' = [i \in 1 .. TestLen |->
        IF device # "legacy" /\ i \in 1 .. Len(Text) THEN Text[i] ELSE chrdev_buf[i]]
  BY <1>1, <1>2, <1>3 DEF TestWrite
<1>5. \A i \in 1 .. Len(Text) : Text[i] \in Nat
  BY TestAssumption
<1>6. chrdev_buf \in [1 .. TestLen -> Nat]
  BY DEF TestInv, TestTypeOK
<1>7. chrdev_buf' \in [1 .. TestLen -> Nat]
  BY <1>4, <1>5, <1>6
<1>8. device # "legacy" => TextThere'
  BY <1>2, <1>4 DEF TextThere
<1>9. device = "legacy" => UNCHANGED chrdev_buf
  BY <1>4, <1>6
<1>10. /\ ppos' = [ppos EXCEPT ![u] = Len(Text)] /\ c' = [c EXCEPT ![u] = 0]
       /\ next' = [next EXCEPT ![u] = AfterWrites(u)]
       /\ UNCHANGED <<device, program, got, failed>>
  <2> DEFINE n == Written(u, Len(Text) - c[u])
  <2>1. n = Len(Text) /\ c[u] + n = Len(Text) /\ ppos[u] + n = Len(Text)
    BY <1>1, <1>2, <1>3
  <2>2. /\ ppos' = [ppos EXCEPT ![u] = @ + n]
        /\ c' = [c EXCEPT ![u] = IF c[u] + n = Len(Text) THEN 0 ELSE @ + n]
        /\ next' = [next EXCEPT ![u] = IF c[u] + n = Len(Text) THEN AfterWrites(u) ELSE @]
        /\ UNCHANGED <<device, program, got, failed>>
    BY DEF TestWrite
  <2> HIDE DEF n
  <2> QED
    BY <2>1, <2>2
<1> QED
  BY <1>3, <1>7, <1>8, <1>9, <1>10

\* A read() at the start of the file takes the text, from a device that has it.
LEMMA OneRead ==
  ASSUME TestInv, NEW u \in Users, TestRead(u), program[u] # "as_is"
  PROVE  /\ next'[u] = "end"
         /\ IF device = "legacy" THEN c'[u] = 0 ELSE got'[u] = Text
<1>1. next[u] = "read" /\ ppos[u] = 0 /\ c[u] = 0 /\ got[u] = << >>
  BY DEF TestInv, AsUser, TestRead
<1>2. Len(Text) \in Nat /\ TestLen \in Nat /\ 0 < Len(Text) /\ Len(Text) <= TestLen
  BY TestAssumption
<1> DEFINE n == ReadBytes(u, Len(Text))
<1>3. n = IF device = "legacy" THEN 0 ELSE Len(Text)
  BY <1>1, <1>2 DEF ReadBytes, ToEnd
<1>4. /\ c' = [c EXCEPT ![u] = @ + n]
      /\ got' = [got EXCEPT ![u] = @ \o SubSeq(chrdev_buf, ppos[u] + 1, ppos[u] + n)]
      /\ next' = [next EXCEPT ![u] = IF n = 0 \/ c[u] + n >= Len(Text) THEN "end" ELSE @]
  BY DEF TestRead
<1> HIDE DEF n
<1>5. u \in DOMAIN next /\ u \in DOMAIN c /\ u \in DOMAIN got
  BY DEF TestInv, TestTypeOK
<1>6. next'[u] = "end"
  BY <1>1, <1>2, <1>3, <1>4, <1>5
<1>7. CASE device = "legacy"
  BY <1>1, <1>3, <1>4, <1>5, <1>6, <1>7
<1>8. CASE device # "legacy"
  <2>1. \A i \in 1 .. Len(Text) : chrdev_buf[i] = Text[i]
    BY <1>1, <1>8 DEF TestInv, AsUser, TextThere
  <2> DEFINE part == SubSeq(chrdev_buf, 1, Len(Text))
  <2>2. \A i \in 1 .. Len(Text) : chrdev_buf[i] \in Nat
    BY <2>1, TestAssumption
  <2>3. /\ part \in Seq(Nat) /\ Len(part) = Len(Text)
        /\ \A i \in 1 .. Len(Text) : part[i] = chrdev_buf[i]
    BY <1>2, <2>2, SubSeqProperties
  <2> HIDE DEF part
  <2>4. part = Text
    BY <2>1, <2>3, TestAssumption, SeqEqual
  <2>5. << >> \o part = part
    BY <2>3, ConcatEmptySeq
  <2>6. ppos[u] + 1 = 1 /\ ppos[u] + n = Len(Text)
    BY <1>1, <1>2, <1>3, <1>8
  <2>7. got'[u] = << >> \o part
    BY <1>1, <1>4, <1>5, <2>6 DEF part
  <2> QED
    BY <1>6, <1>8, <2>4, <2>5, <2>7
<1> QED
  BY <1>7, <1>8

\* What one user does to the others.
LEMMA OtherUser ==
  ASSUME TestInv, NEW u \in Users, TestOpen(u) \/ TestStep(u), NEW v \in Users, v # u
  PROVE  AsUser(v)'
<1>1. /\ next'[v] = next[v] /\ ppos'[v] = ppos[v] /\ c'[v] = c[v] /\ got'[v] = got[v]
      /\ failed'[v] = failed[v] /\ UNCHANGED <<device, program>>
  BY DEF TestInv, TestTypeOK, TestOpen, TestStep, TestWrite, TestWriteFails, TestReopen, TestSeek,
     TestRead, Fail
<1>2. CASE TestWrite(u)
  <2>1. device # "legacy" => TextThere'
    BY <1>2, OneWrite
  <2> QED
    BY <1>1, <2>1 DEF TestInv, AsUser
<1>3. CASE UNCHANGED chrdev_buf
  BY <1>1, <1>3 DEF TestInv, AsUser, TextThere
<1> QED
  BY <1>2, <1>3 DEF TestOpen, TestStep, TestWriteFails, TestReopen, TestSeek, TestRead

LEMMA TestStepKeeps == TestInv /\ [TestNext]_testVars => TestInv'
<1> SUFFICES ASSUME TestInv, [TestNext]_testVars PROVE TestInv'
  OBVIOUS
<1>1. ASSUME NEW u \in Users, TestOpen(u) \/ TestStep(u) PROVE TestInv'
  <2> SUFFICES TestTypeOK' /\ AsUser(u)'
    BY <1>1, OtherUser DEF TestInv
  <2> USE <1>1 DEF TestInv, TestTypeOK
  <2>1. CASE TestOpen(u)
    BY <2>1 DEF TestOpen, AsUser
  <2>2. CASE TestWrite(u)
    <3>1. /\ AfterWrites(u) \in {"read", "reopen", "lseek"}
          /\ program[u] # "as_is" => AfterWrites(u) # "read"
      BY DEF AfterWrites, Programs
    <3>2. TestTypeOK' /\ next'[u] = AfterWrites(u) /\ c'[u] = 0 /\ program'[u] = program[u]
      <4>1. /\ ppos' = [ppos EXCEPT ![u] = Len(Text)] /\ c' = [c EXCEPT ![u] = 0]
            /\ next' = [next EXCEPT ![u] = AfterWrites(u)]
            /\ UNCHANGED <<device, program, got, failed>>
            /\ chrdev_buf' \in [1 .. TestLen -> Nat]
        BY <2>2, OneWrite
      <4>2. Len(Text) \in Int
        BY TestAssumption
      <4>3. next' \in [Users -> {"write", "reopen", "lseek", "read", "end"}]
        BY <3>1, <4>1
      <4>4. ppos' \in [Users -> Int] /\ c' \in [Users -> Int]
        BY <4>1, <4>2
      <4> QED
        BY <4>1, <4>3, <4>4
    <3>4. got'[u] = << >>
      BY <2>2, OneWrite DEF TestWrite, AsUser
    <3>3. device' # "legacy" => TextThere'
      BY <2>2, OneWrite
    <3> QED
      BY <3>1, <3>2, <3>3, <3>4 DEF AsUser
  <2>3. CASE TestWriteFails(u)
    <3>1. TestTypeOK'
      BY <2>3 DEF TestWriteFails, Fail
    <3>2. next'[u] = "end" /\ failed'[u] = TRUE
      BY <2>3 DEF TestWriteFails, Fail
    <3> QED
      BY <3>1, <3>2 DEF AsUser
  <2>4. CASE TestReopen(u)
    BY <2>4 DEF TestReopen, AsUser, TextThere
  <2>5. CASE TestSeek(u)
    <3>1. /\ next[u] = "lseek" /\ next'[u] \in {"read", "end"}
          /\ next'[u] = "read" => ppos'[u] = 0
          /\ next'[u] = "end" => failed'[u] = TRUE
      BY <2>5 DEF TestSeek, Fail
    <3>2. UNCHANGED <<device, program, c, got, chrdev_buf>>
      BY <2>5 DEF TestSeek
    <3>3. TestTypeOK'
      BY <2>5 DEF TestSeek, Fail
    <3> QED
      BY <3>1, <3>2, <3>3 DEF AsUser, TextThere
  <2>6. CASE TestRead(u)
    <3>1. ReadBytes(u, Len(Text)) \in Int
      BY TestAssumption DEF ReadBytes, ToEnd
    <3>2. TestTypeOK'
      BY <2>6, <3>1 DEF TestRead
    <3>3. device' # "legacy" => TextThere'
      BY <2>6 DEF TestRead, AsUser, TextThere
    <3>4. next'[u] \in {"read", "end"} /\ program'[u] = program[u]
      BY <2>6 DEF TestRead
    <3>5. CASE program[u] = "as_is"
      BY <3>2, <3>3, <3>4, <3>5 DEF AsUser
    <3>6. CASE program[u] # "as_is"
      <4>1. next'[u] = "end" /\ (c'[u] = 0 \/ got'[u] = Text)
        BY <2>6, <3>6, OneRead
      <4> QED
        BY <3>2, <4>1 DEF AsUser
    <3> QED
      BY <3>5, <3>6
  <2> QED
    BY <2>1, <2>2, <2>3, <2>4, <2>5, <2>6 DEF TestStep
<1>2. CASE UNCHANGED testVars
  BY <1>2 DEF testVars, TestInv, TestTypeOK, AsUser, TextThere
<1> QED
  BY <1>1, <1>2 DEF TestNext

\* A program that goes back to the start reads its own text, with any number of
\* users in any order, or reports an error, or finds a device that keeps
\* nothing (chrdev_test.c:46-71 and its patches).
THEOREM UsersReadBack == TestSpec => []ReadsBack
<1>1. TestInit => TestInv
  BY TestAssumption DEF TestInit, TestInv, TestTypeOK, AsUser, Programs
<1>2. TestInv => ReadsBack
  BY DEF TestInv, AsUser, ReadsBack
<1> QED
  BY <1>1, <1>2, TestStepKeeps, PTL DEF TestSpec

-----------------------------------------------------------------------------
(* Containers *)

\* t is s with e put in at k, or without what was at k.
Inserted(s, t, k, e) ==
  /\ k \in 1 .. Len(s) + 1 /\ Len(t) = Len(s) + 1
  /\ \A i \in 1 .. Len(t) : t[i] = IF i < k THEN s[i] ELSE IF i = k THEN e ELSE s[i - 1]

Removed(s, t, k) ==
  /\ k \in 1 .. Len(s) /\ Len(t) = Len(s) - 1
  /\ \A i \in 1 .. Len(t) : t[i] = IF i < k THEN s[i] ELSE s[i + 1]

LEMMA InsertAtInserts ==
  ASSUME NEW S, NEW s \in Seq(S), NEW k \in 1 .. Len(s) + 1, NEW e \in S
  PROVE  InsertAt(s, k, e) \in Seq(S) /\ Inserted(s, InsertAt(s, k, e), k, e)
<1> DEFINE front == SubSeq(s, 1, k - 1)
           back  == SubSeq(s, k, Len(s))
           one   == <<e>>
           begin == front \o one
           all   == begin \o back
<1>1. Len(s) \in Nat /\ k \in Int /\ \A i \in 1 .. Len(s) : s[i] \in S
  OBVIOUS
<1>2. /\ front \in Seq(S) /\ Len(front) = k - 1
      /\ \A i \in 1 .. k - 1 : front[i] = s[i]
  BY <1>1, SubSeqProperties
<1>3. /\ back \in Seq(S) /\ Len(back) = Len(s) - k + 1
      /\ \A i \in 1 .. Len(s) - k + 1 : back[i] = s[k + i - 1]
  BY <1>1, SubSeqProperties
<1>4. one \in Seq(S) /\ Len(one) = 1 /\ one[1] = e
  OBVIOUS
<1>5. InsertAt(s, k, e) = all
  BY DEF InsertAt
<1> HIDE DEF front, back, one
<1>6. /\ begin \in Seq(S) /\ Len(begin) = k
      /\ \A i \in 1 .. k : begin[i] = IF i <= k - 1 THEN front[i] ELSE one[i - (k - 1)]
  <2>1. /\ begin \in Seq(S) /\ Len(begin) = Len(front) + Len(one)
        /\ \A i \in 1 .. Len(front) + Len(one) :
             begin[i] = IF i <= Len(front) THEN front[i] ELSE one[i - Len(front)]
    BY <1>2, <1>4, ConcatProperties
  <2> HIDE DEF begin
  <2> QED
    BY <1>1, <1>2, <1>4, <2>1
<1> HIDE DEF begin
<1>7. /\ all \in Seq(S) /\ Len(all) = Len(s) + 1
      /\ \A i \in 1 .. Len(s) + 1 : all[i] = IF i <= k THEN begin[i] ELSE back[i - k]
  <2>1. /\ all \in Seq(S) /\ Len(all) = Len(begin) + Len(back)
        /\ \A i \in 1 .. Len(begin) + Len(back) :
             all[i] = IF i <= Len(begin) THEN begin[i] ELSE back[i - Len(begin)]
    BY <1>3, <1>6, ConcatProperties
  <2> HIDE DEF all
  <2> QED
    BY <1>1, <1>3, <1>6, <2>1
<1> HIDE DEF all
<1>8. ASSUME NEW i \in 1 .. Len(s) + 1
      PROVE  all[i] = IF i < k THEN s[i] ELSE IF i = k THEN e ELSE s[i - 1]
  <2>1. CASE i < k
    BY <1>1, <1>2, <1>6, <1>7, <2>1
  <2>2. CASE i = k
    BY <1>1, <1>4, <1>6, <1>7, <2>2
  <2>3. CASE i > k
    <3>1. i - k \in 1 .. Len(s) - k + 1 /\ k + (i - k) - 1 = i - 1
      BY <1>1, <2>3
    <3>2. back[i - k] = s[i - 1]
      BY <1>3, <3>1
    <3> QED
      BY <1>1, <1>7, <2>3, <3>2
  <2> QED
    BY <1>1, <2>1, <2>2, <2>3
<1> QED
  BY <1>5, <1>7, <1>8 DEF Inserted

LEMMA AppendInserts ==
  ASSUME NEW S, NEW s \in Seq(S), NEW e \in S
  PROVE  Append(s, e) \in Seq(S) /\ Inserted(s, Append(s, e), Len(s) + 1, e)
<1>1. /\ Append(s, e) \in Seq(S) /\ Len(Append(s, e)) = Len(s) + 1 /\ Len(s) \in Nat
      /\ \A i \in 1 .. Len(s) : Append(s, e)[i] = s[i]
      /\ Append(s, e)[Len(s) + 1] = e
  BY AppendProperties
<1> QED
  BY <1>1 DEF Inserted

LEMMA InFrontInserts ==
  ASSUME NEW S, NEW s \in Seq(S), NEW e \in S
  PROVE  <<e>> \o s \in Seq(S) /\ Inserted(s, <<e>> \o s, 1, e)
<1> DEFINE one == <<e>>
<1>1. one \in Seq(S) /\ Len(one) = 1 /\ one[1] = e /\ Len(s) \in Nat
  OBVIOUS
<1> HIDE DEF one
<1>2. /\ one \o s \in Seq(S) /\ Len(one \o s) = 1 + Len(s)
      /\ \A i \in 1 .. 1 + Len(s) : (one \o s)[i] = IF i <= 1 THEN one[i] ELSE s[i - 1]
  <2> DEFINE all == one \o s
  <2>1. /\ all \in Seq(S) /\ Len(all) = Len(one) + Len(s)
        /\ \A i \in 1 .. Len(one) + Len(s) :
             all[i] = IF i <= Len(one) THEN one[i] ELSE s[i - Len(one)]
    BY <1>1, ConcatProperties
  <2> HIDE DEF all
  <2>2. /\ all \in Seq(S) /\ Len(all) = 1 + Len(s)
        /\ \A i \in 1 .. 1 + Len(s) : all[i] = IF i <= 1 THEN one[i] ELSE s[i - 1]
    BY <1>1, <2>1
  <2> QED
    BY <2>2 DEF all
<1>3. one \o s \in Seq(S) /\ Inserted(s, one \o s, 1, e)
  BY <1>1, <1>2 DEF Inserted
<1> QED
  BY <1>3 DEF one

LEMMA RemoveAtRemoves ==
  ASSUME NEW S, NEW s \in Seq(S), NEW k \in 1 .. Len(s)
  PROVE  RemoveAt(s, k) \in Seq(S) /\ Removed(s, RemoveAt(s, k), k)
<1> DEFINE front == SubSeq(s, 1, k - 1)
           back  == SubSeq(s, k + 1, Len(s))
           all   == front \o back
<1>1. Len(s) \in Nat /\ k \in Int /\ \A i \in 1 .. Len(s) : s[i] \in S
  OBVIOUS
<1>2. /\ front \in Seq(S) /\ Len(front) = k - 1
      /\ \A i \in 1 .. k - 1 : front[i] = s[i]
  BY <1>1, SubSeqProperties
<1>3. /\ back \in Seq(S) /\ Len(back) = Len(s) - k
      /\ \A i \in 1 .. Len(s) - k : back[i] = s[k + i]
  <2>1. k + 1 \in Int /\ Len(s) \in Int /\ \A i \in k + 1 .. Len(s) : s[i] \in S
    BY <1>1
  <2>2. /\ back \in Seq(S)
        /\ Len(back) = IF k + 1 <= Len(s) THEN Len(s) - (k + 1) + 1 ELSE 0
        /\ \A i \in 1 .. Len(s) - (k + 1) + 1 : back[i] = s[k + 1 + i - 1]
    BY <2>1, SubSeqProperties
  <2> HIDE DEF back
  <2>3. \A i \in 1 .. Len(s) - k : i \in 1 .. Len(s) - (k + 1) + 1 /\ k + 1 + i - 1 = k + i
    BY <1>1
  <2> QED
    BY <1>1, <2>2, <2>3
<1>5. RemoveAt(s, k) = all
  BY DEF RemoveAt
<1> HIDE DEF front, back
<1>6. /\ all \in Seq(S) /\ Len(all) = Len(s) - 1
      /\ \A i \in 1 .. Len(s) - 1 : all[i] = IF i <= k - 1 THEN front[i] ELSE back[i - (k - 1)]
  <2>1. /\ all \in Seq(S) /\ Len(all) = Len(front) + Len(back)
        /\ \A i \in 1 .. Len(front) + Len(back) :
             all[i] = IF i <= Len(front) THEN front[i] ELSE back[i - Len(front)]
    BY <1>2, <1>3, ConcatProperties
  <2> HIDE DEF all
  <2>2. Len(front) = k - 1 /\ Len(front) + Len(back) = Len(s) - 1
    BY <1>1, <1>2, <1>3
  <2> QED
    BY <2>1, <2>2
<1> HIDE DEF all
<1>7. ASSUME NEW i \in 1 .. Len(s) - 1
      PROVE  all[i] = IF i < k THEN s[i] ELSE s[i + 1]
  <2>1. CASE i < k
    BY <1>1, <1>2, <1>6, <2>1
  <2>2. CASE i >= k
    <3>1. i - (k - 1) \in 1 .. Len(s) - k /\ k + (i - (k - 1)) = i + 1
      BY <1>1, <2>2
    <3>2. back[i - (k - 1)] = s[i + 1]
      BY <1>3, <3>1
    <3> QED
      BY <1>1, <1>6, <2>2, <3>2
  <2> QED
    BY <1>1, <2>1, <2>2
<1> QED
  BY <1>1, <1>5, <1>6, <1>7 DEF Removed

LEMMA InsertedOnce ==
  ASSUME NEW S, NEW s \in Seq(S), NEW t \in Seq(S), NEW k, NEW e, Inserted(s, t, k, e),
         IsInjective(s), e \notin ToSet(s)
  PROVE  IsInjective(t) /\ ToSet(t) = ToSet(s) \cup {e}
<1>1. /\ Len(s) \in Nat /\ Len(t) = Len(s) + 1 /\ k \in 1 .. Len(s) + 1
      /\ DOMAIN s = 1 .. Len(s) /\ DOMAIN t = 1 .. Len(t)
  BY DEF Inserted
<1>2. \A i \in 1 .. Len(s) : s[i] # e
  BY <1>1 DEF ToSet
<1>3. \A i \in 1 .. Len(t) : t[i] = IF i < k THEN s[i] ELSE IF i = k THEN e ELSE s[i - 1]
  BY DEF Inserted
<1>4. IsInjective(t)
  <2>1. ASSUME NEW i \in 1 .. Len(t), NEW j \in 1 .. Len(t), i < j
        PROVE  t[i] # t[j]
    <3>1. CASE i = k
      <4>1. t[i] = e /\ t[j] = s[j - 1] /\ j - 1 \in 1 .. Len(s)
        BY <1>1, <1>3, <2>1, <3>1
      <4> QED
        BY <1>2, <4>1
    <3>2. CASE j = k
      <4>1. t[j] = e /\ t[i] = s[i] /\ i \in 1 .. Len(s)
        BY <1>1, <1>3, <2>1, <3>2
      <4> QED
        BY <1>2, <4>1
    <3>3. CASE i # k /\ j # k
      <4> DEFINE m == IF i < k THEN i ELSE i - 1
                 n == IF j < k THEN j ELSE j - 1
      <4>1. m \in 1 .. Len(s) /\ n \in 1 .. Len(s) /\ m # n
        BY <1>1, <2>1, <3>3
      <4>2. t[i] = s[m] /\ t[j] = s[n]
        BY <1>1, <1>3, <2>1, <3>3
      <4> HIDE DEF m, n
      <4> QED
        BY <1>1, <4>1, <4>2 DEF IsInjective
    <3> QED
      BY <3>1, <3>2, <3>3
  <2> QED
    BY <1>1, <2>1 DEF IsInjective
<1>5. ASSUME NEW i \in 1 .. Len(s) PROVE s[i] \in ToSet(t)
  <2>1. CASE i < k
    <3>1. i \in DOMAIN t /\ t[i] = s[i]
      BY <1>1, <1>3, <2>1
    <3> QED
      BY <3>1 DEF ToSet
  <2>2. CASE i >= k
    <3>1. i + 1 \in DOMAIN t /\ t[i + 1] = s[i]
      BY <1>1, <1>3, <2>2
    <3> QED
      BY <3>1 DEF ToSet
  <2> QED
    BY <1>1, <2>1, <2>2
<1>6. e \in ToSet(t)
  <2>1. k \in DOMAIN t /\ t[k] = e
    BY <1>1, <1>3
  <2> QED
    BY <2>1 DEF ToSet
<1>7. ASSUME NEW i \in 1 .. Len(t)
      PROVE  t[i] = e \/ \E j \in 1 .. Len(s) : t[i] = s[j]
  <2>1. CASE i < k
    BY <1>1, <1>3, <2>1
  <2>2. CASE i = k
    BY <1>3, <2>2
  <2>3. CASE i > k
    <3>1. i - 1 \in 1 .. Len(s) /\ t[i] = s[i - 1]
      BY <1>1, <1>3, <2>3
    <3> QED
      BY <3>1
  <2> QED
    BY <1>1, <2>1, <2>2, <2>3
<1>8. ToSet(t) \subseteq ToSet(s) \cup {e}
  BY <1>1, <1>7 DEF ToSet
<1>9. ToSet(s) \subseteq ToSet(t)
  BY <1>1, <1>5 DEF ToSet
<1> QED
  BY <1>4, <1>6, <1>8, <1>9

LEMMA RemovedOnce ==
  ASSUME NEW S, NEW s \in Seq(S), NEW t \in Seq(S), NEW k, Removed(s, t, k), IsInjective(s)
  PROVE  IsInjective(t) /\ ToSet(t) = ToSet(s) \ {s[k]}
<1>1. /\ Len(s) \in Nat /\ Len(t) = Len(s) - 1 /\ k \in 1 .. Len(s)
      /\ DOMAIN s = 1 .. Len(s) /\ DOMAIN t = 1 .. Len(t)
  BY DEF Removed
<1>2. \A i \in 1 .. Len(t) : t[i] = IF i < k THEN s[i] ELSE s[i + 1]
  BY DEF Removed
<1>3. IsInjective(t)
  <2>1. ASSUME NEW i \in 1 .. Len(t), NEW j \in 1 .. Len(t), i # j
        PROVE  t[i] # t[j]
    <3> DEFINE m == IF i < k THEN i ELSE i + 1
               n == IF j < k THEN j ELSE j + 1
    <3>1. m \in 1 .. Len(s) /\ n \in 1 .. Len(s) /\ m # n
      BY <1>1, <2>1
    <3>2. t[i] = s[m] /\ t[j] = s[n]
      BY <1>2, <2>1
    <3> HIDE DEF m, n
    <3> QED
      BY <1>1, <3>1, <3>2 DEF IsInjective
  <2> QED
    BY <1>1, <2>1 DEF IsInjective
<1>4. ASSUME NEW i \in 1 .. Len(s), i # k PROVE s[i] \in ToSet(t)
  <2>1. CASE i < k
    <3>1. i \in DOMAIN t /\ t[i] = s[i]
      BY <1>1, <1>2, <2>1
    <3> QED
      BY <3>1 DEF ToSet
  <2>2. CASE i > k
    <3>1. i - 1 \in DOMAIN t /\ t[i - 1] = s[i]
      BY <1>1, <1>2, <2>2
    <3> QED
      BY <3>1 DEF ToSet
  <2> QED
    BY <1>1, <1>4, <2>1, <2>2
<1>5. ASSUME NEW i \in 1 .. Len(t) PROVE t[i] \in ToSet(s) /\ t[i] # s[k]
  <2>1. \E j \in 1 .. Len(s) : t[i] = s[j] /\ j # k
    BY <1>1, <1>2
  <2> QED
    BY <1>1, <2>1 DEF IsInjective, ToSet
<1> QED
  BY <1>1, <1>3, <1>4, <1>5 DEF ToSet


LEMMA SeqFinite ==
  ASSUME NEW S, NEW s \in Seq(S)
  PROVE  IsFiniteSet(ToSet(s)) /\ IsFiniteSet(DOMAIN s)
<1> DEFINE n == Len(s)
           T == ToSet(s)
<1>1. n \in Nat /\ DOMAIN s = 1 .. n
  OBVIOUS
<1>2. s \in Surjection(1 .. n, T)
  BY <1>1 DEF Surjection, ToSet
<1> HIDE DEF n, T
<1>3. IsFiniteSet(1 .. n)
  BY <1>1, FS_Interval
<1>4. IsFiniteSet(T)
  BY <1>2, <1>3, FS_Surjection
<1> QED
  BY <1>1, <1>3, <1>4 DEF T

\* The entries, of some, that hold d.
Holding(es, d) == {e \in es : data[e] = d}

\* Counting them by their places or by what they are is the same.
LEMMA TimesHeld ==
  ASSUME NEW S, NEW s \in Seq(S), IsInjective(s), NEW d
  PROVE  Cardinality({i \in DOMAIN s : data[s[i]] = d}) = Cardinality(Holding(ToSet(s), d))
<1> DEFINE I == {i \in DOMAIN s : data[s[i]] = d}
           H == Holding(ToSet(s), d)
           f == [i \in I |-> s[i]]
<1>1. DOMAIN s = 1 .. Len(s)
  OBVIOUS
<1>2. f \in [I -> H]
  BY DEF Holding, ToSet
<1>3. \A i, j \in I : f[i] = f[j] => i = j
  BY <1>1 DEF IsInjective
<1>4. \A e \in H : \E i \in I : f[i] = e
  BY DEF Holding, ToSet
<1>5. IsFiniteSet(I)
  <2>1. IsFiniteSet(DOMAIN s) /\ I \in SUBSET DOMAIN s
    BY SeqFinite
  <2> HIDE DEF I
  <2> QED
    BY <2>1, FS_Subset
<1> HIDE DEF I, H, f
<1>6. f \in Bijection(I, H)
  BY <1>2, <1>3, <1>4 DEF Bijection, Injection, Surjection, IsInjective
<1>7. ExistsBijection(I, H)
  BY <1>6 DEF ExistsBijection
<1>8. Cardinality(H) = Cardinality(I)
  BY <1>5, <1>7, FS_Bijection
<1> QED
  BY <1>8 DEF I, H

LEMMA Smallest ==
  ASSUME NEW n \in Nat, NEW I \in SUBSET (1 .. n), I # {}
  PROVE  Min(I) \in I /\ \A i \in I : Min(I) <= i
<1> DEFINE R == OpToRel(<, Nat)
<1>1. I \subseteq Nat
  OBVIOUS
<1>2. IsWellFoundedOn(R, Nat) /\ \A i, j \in Nat : i < j => <<i, j>> \in R
  BY NatLessThanWellFounded DEF OpToRel
<1> HIDE DEF R
<1>3. PICK j \in I : \A i \in I : ~(<<i, j>> \in R)
  <2>1. IsWellFoundedOn(R, Nat)
    BY <1>2
  <2> QED
    BY <1>1, <2>1, WFMin, Zenon
<1>4. \A i \in I : ~(i < j)
  BY <1>1, <1>2, <1>3, Zenon
<1>5. \A i \in I : j <= i
  BY <1>1, <1>4
<1> QED
  BY <1>5 DEF Min

-----------------------------------------------------------------------------
(* The order of the list *)

BucketOf(d) == Bucket(hash_func(d))

ContainersTypeOK ==
  /\ data \in [Entries -> Int] /\ data_list \in Seq(Entries)
  /\ data_hash \in [{0, 1} -> Seq(Entries)]
  /\ older \subseteq Entries \X Entries

\* No entry is twice on the list, or in a bucket, and none in a bucket that is
\* not the one of its data.
InPlace ==
  /\ IsInjective(data_list)
  /\ \A b \in {0, 1} :
       /\ IsInjective(data_hash[b])
       /\ \A e \in ToSet(data_hash[b]) : BucketOf(data[e]) = b

\* Each entry of the list goes before the later ones.
MayPrecede(e, f) == data[e] > data[f] \/ (data[e] = data[f] /\ <<e, f>> \in older)

Descending ==
  \A i, j \in 1 .. Len(data_list) : i < j => MayPrecede(data_list[i], data_list[j])

\* As many entries with the same data are on the list as in the table.
SameNumbers ==
  \A d \in Data :
    Cardinality(Holding(ToSet(data_list), d))
      = Cardinality(Holding(ToSet(data_hash[BucketOf(d)]), d))

ContainersInv == ContainersTypeOK /\ InPlace /\ Descending /\ SameNumbers

LEMMA BucketType ==
  ASSUME NEW d
  PROVE  BucketOf(d) \in {0, 1}
BY DEF BucketOf, Bucket

LEMMA DataInts == \A d \in Data : d \in Int
BY ContainersAssumption

\* Where a new entry goes: behind those with as much data, before the others.
LEMMA ListInsertion ==
  ASSUME ContainersTypeOK, NEW e \in Entries, NEW d \in Int
  PROVE  LET t == add_ordered_entry(data_list, e, d)
         IN  /\ t \in Seq(Entries)
             /\ \E k \in 1 .. Len(data_list) + 1 :
                  /\ Inserted(data_list, t, k, e)
                  /\ \A i \in 1 .. Len(data_list) :
                       /\ i < k => data[data_list[i]] >= d
                       /\ i = k => data[data_list[i]] < d
<1> DEFINE s == data_list
           I == {i \in 1 .. Len(s) : data[s[i]] < d}
           k == IF I # {} THEN Min(I) ELSE 0
           t == add_ordered_entry(s, e, d)
<1>1. s \in Seq(Entries) /\ Len(s) \in Nat
  BY DEF ContainersTypeOK
<1>2. \A i \in 1 .. Len(s) : data[s[i]] \in Int
  BY DEF ContainersTypeOK
<1>3. t = IF k = 0 THEN Append(s, e) ELSE InsertAt(s, k, e)
  BY DEF add_ordered_entry, SelectInSeq
<1>4. CASE I = {}
  <2>1. t = Append(s, e)
    BY <1>3, <1>4
  <2>2. \A i \in 1 .. Len(s) : data[s[i]] >= d
    BY <1>2, <1>4
  <2> HIDE DEF t, s
  <2>3. t \in Seq(Entries) /\ Inserted(s, t, Len(s) + 1, e)
    BY <1>1, <2>1, AppendInserts
  <2>4. Len(s) + 1 \in 1 .. Len(s) + 1
        /\ \A i \in 1 .. Len(s) : i < Len(s) + 1 /\ i # Len(s) + 1
    BY <1>1
  <2>5. \E n \in 1 .. Len(s) + 1 :
          /\ Inserted(s, t, n, e)
          /\ \A i \in 1 .. Len(s) : (i < n => data[s[i]] >= d) /\ (i = n => data[s[i]] < d)
    BY <2>2, <2>3, <2>4
  <2> QED
    BY <2>3, <2>5 DEF t, s
<1>5. CASE I # {}
  <2>1. I \in SUBSET (1 .. Len(s))
    OBVIOUS
  <2> HIDE DEF I
  <2>2. k \in I /\ \A i \in I : k <= i
    BY <1>1, <1>5, <2>1, Smallest
  <2> HIDE DEF k, t, s
  <2>3. k \in 1 .. Len(s) /\ data[s[k]] < d
    BY <2>2 DEF I
  <2>4. \A i \in 1 .. Len(s) : i < k => data[s[i]] >= d
    BY <1>2, <2>2, <2>3 DEF I
  <2>5. t = InsertAt(s, k, e) /\ k \in 1 .. Len(s) + 1
    BY <1>1, <1>3, <2>3
  <2>6. t \in Seq(Entries) /\ Inserted(s, t, k, e)
    BY <1>1, <2>5, InsertAtInserts
  <2>7. \E n \in 1 .. Len(s) + 1 :
          /\ Inserted(s, t, n, e)
          /\ \A i \in 1 .. Len(s) : (i < n => data[s[i]] >= d) /\ (i = n => data[s[i]] < d)
    BY <2>3, <2>4, <2>5, <2>6
  <2> QED
    BY <2>6, <2>7 DEF t, s
<1> QED
  BY <1>4, <1>5

\* One entry with this data is removed from a list, if there is one.
LEMMA Deletion ==
  ASSUME NEW s \in Seq(Entries), NEW d,
         NEW t, t = del_entry(s, d)
  PROVE  /\ t \in Seq(Entries)
         /\ \/ t = s /\ Holding(ToSet(s), d) = {}
            \/ \E k \in 1 .. Len(s) : Removed(s, t, k) /\ data[s[k]] = d
<1> DEFINE I == {i \in 1 .. Len(s) : data[s[i]] = d}
           k == IF I # {} THEN Min(I) ELSE 0
<1>1. Len(s) \in Nat /\ DOMAIN s = 1 .. Len(s)
  OBVIOUS
<1>2. t = IF \E i \in 1 .. Len(s) : data[s[i]] = d THEN RemoveAt(s, k) ELSE s
  BY DEF del_entry, RemoveFirstMatch, SelectInSeq
<1>3. CASE I = {}
  <2>1. t = s
    BY <1>2, <1>3
  <2>2. Holding(ToSet(s), d) = {}
    BY <1>1, <1>3 DEF Holding, ToSet
  <2> QED
    BY <2>1, <2>2
<1>4. CASE I # {}
  <2>1. I \in SUBSET (1 .. Len(s)) /\ \E i \in 1 .. Len(s) : data[s[i]] = d
    BY <1>4
  <2> HIDE DEF I
  <2>2. k \in I
    BY <1>1, <1>4, <2>1, Smallest
  <2> HIDE DEF k
  <2>3. k \in 1 .. Len(s) /\ data[s[k]] = d
    BY <2>2 DEF I
  <2>4. t = RemoveAt(s, k)
    BY <1>2, <2>1
  <2>5. t \in Seq(Entries) /\ Removed(s, t, k)
    BY <2>3, <2>4, RemoveAtRemoves
  <2> QED
    BY <2>3, <2>5
<1> QED
  BY <1>3, <1>4

-----------------------------------------------------------------------------
(* What the two calls preserve *)

\* Of a new entry.
LEMMA AddFacts ==
  ASSUME ContainersInv, NEW e \in Entries, NEW d \in Data, Add(e, d)
  PROVE  /\ data' \in [Entries -> Int] /\ data'[e] = d
         /\ \A x \in Entries : x # e => data'[x] = data[x]
         /\ older' \subseteq Entries \X Entries
         /\ \A x, y \in Entries : x # e /\ (y = e \/ <<x, y>> \in older) => <<x, y>> \in older'
         /\ e \notin ToSet(data_list) /\ \A b \in {0, 1} : e \notin ToSet(data_hash[b])
<1>1. d \in Int /\ data \in [Entries -> Int] /\ older \subseteq Entries \X Entries
  BY DataInts DEF ContainersInv, ContainersTypeOK
<1>2. /\ data' = [data EXCEPT ![e] = d]
      /\ older' = (older \cup Entries \X {e}) \ {e} \X Entries
  BY DEF Add
<1>3. e \notin ToSet(data_list) /\ \A b \in {0, 1} : e \notin ToSet(data_hash[b])
  BY DEF Add, InList, InTable, ContainersInv, ContainersTypeOK
<1>4. \A x, y \in Entries : x # e /\ (y = e \/ <<x, y>> \in older) => <<x, y>> \in older'
  BY <1>2
<1> QED
  BY <1>1, <1>2, <1>3, <1>4

LEMMA AddToList ==
  ASSUME ContainersInv, NEW e \in Entries, NEW d \in Data, Add(e, d)
  PROVE  /\ data_list' \in Seq(Entries) /\ IsInjective(data_list')
         /\ ToSet(data_list') = ToSet(data_list) \cup {e}
         /\ Descending'
<1> DEFINE s == data_list
           t == add_ordered_entry(data_list, e, d)
<1>1. d \in Int /\ s \in Seq(Entries) /\ IsInjective(s) /\ e \notin ToSet(s)
  BY DataInts, AddFacts DEF ContainersInv, ContainersTypeOK, InPlace
<1>2. /\ t \in Seq(Entries)
      /\ \E k \in 1 .. Len(data_list) + 1 :
           /\ Inserted(data_list, t, k, e)
           /\ \A i \in 1 .. Len(data_list) :
                /\ i < k => data[data_list[i]] >= d
                /\ i = k => data[data_list[i]] < d
  BY <1>1, ListInsertion DEF ContainersInv
<1>3. data_list' = t
  BY DEF Add
<1> HIDE DEF t
<1>4. PICK k \in 1 .. Len(s) + 1 :
        /\ Inserted(s, t, k, e)
        /\ \A i \in 1 .. Len(s) :
             (i < k => data[s[i]] >= d) /\ (i = k => data[s[i]] < d)
  BY <1>2
<1>5. \A i, j \in 1 .. Len(s) : i < j => MayPrecede(s[i], s[j])
  BY DEF ContainersInv, Descending
<1> HIDE DEF s
<1>6. IsInjective(t) /\ ToSet(t) = ToSet(s) \cup {e}
  BY <1>1, <1>2, <1>4, InsertedOnce
<1>7. Len(s) \in Nat /\ DOMAIN s = 1 .. Len(s) /\ \A i \in 1 .. Len(s) : s[i] \in Entries /\ s[i] # e
  BY <1>1 DEF ToSet
<1>8. /\ Len(t) = Len(s) + 1
      /\ \A i \in 1 .. Len(t) : t[i] = IF i < k THEN s[i] ELSE IF i = k THEN e ELSE s[i - 1]
  BY <1>4 DEF Inserted
<1>9. \A i \in 1 .. Len(s) : data'[s[i]] = data[s[i]] /\ data[s[i]] \in Int /\ data'[e] = d
  BY <1>7, AddFacts DEF ContainersInv, ContainersTypeOK
<1>10. ASSUME NEW i \in 1 .. Len(t), NEW j \in 1 .. Len(t), i < j
       PROVE  \/ data'[t[i]] > data'[t[j]]
              \/ data'[t[i]] = data'[t[j]] /\ <<t[i], t[j]>> \in older'
  <2>1. CASE i = k
    <3>1. t[i] = e /\ t[j] = s[j - 1] /\ j - 1 \in 1 .. Len(s) /\ k <= j - 1
      BY <1>7, <1>8, <1>10, <2>1
    <3>2. data[s[j - 1]] < d
      <4>1. CASE j - 1 = k
        BY <1>4, <3>1, <4>1
      <4>2. CASE k < j - 1
        <5>1. k \in 1 .. Len(s) /\ MayPrecede(s[k], s[j - 1]) /\ data[s[k]] < d
          BY <1>4, <1>5, <1>7, <3>1, <4>2
        <5> QED
          BY <1>1, <1>9, <3>1, <5>1 DEF MayPrecede
      <4> QED
        BY <3>1, <4>1, <4>2
    <3>3. data'[t[i]] > data'[t[j]]
      BY <1>1, <1>9, <3>1, <3>2
    <3> QED
      BY <3>3
  <2>2. CASE j = k
    <3>1. t[j] = e /\ t[i] = s[i] /\ i \in 1 .. Len(s)
      BY <1>7, <1>8, <1>10, <2>2
    <3>2. data[s[i]] >= d
      BY <1>4, <1>10, <2>2, <3>1
    <3>3. data'[t[i]] > data'[t[j]] \/ data'[t[i]] = data'[t[j]]
      BY <1>1, <1>9, <3>1, <3>2
    <3>4. <<t[i], t[j]>> \in older'
      BY <1>7, <3>1, AddFacts
    <3> QED
      BY <3>3, <3>4
  <2>3. CASE i # k /\ j # k
    <3> DEFINE m == IF i < k THEN i ELSE i - 1
               n == IF j < k THEN j ELSE j - 1
    <3>1. m \in 1 .. Len(s) /\ n \in 1 .. Len(s) /\ m < n
      BY <1>7, <1>8, <1>10, <2>3
    <3>2. t[i] = s[m] /\ t[j] = s[n]
      BY <1>8, <1>10, <2>3
    <3> HIDE DEF m, n
    <3>3. MayPrecede(s[m], s[n])
      BY <1>5, <3>1
    <3>4. data'[s[m]] = data[s[m]] /\ data'[s[n]] = data[s[n]]
      BY <1>9, <3>1
    <3>5. <<s[m], s[n]>> \in older => <<s[m], s[n]>> \in older'
      BY <1>7, <3>1, AddFacts
    <3> QED
      BY <3>2, <3>3, <3>4, <3>5 DEF MayPrecede
  <2> QED
    BY <2>1, <2>2, <2>3
<1>11. Descending'
  BY <1>3, <1>10 DEF Descending, MayPrecede
<1> QED
  BY <1>2, <1>3, <1>6, <1>11 DEF s

LEMMA AddToTable ==
  ASSUME ContainersInv, NEW e \in Entries, NEW d \in Data, Add(e, d)
  PROVE  /\ data_hash' \in [{0, 1} -> Seq(Entries)]
         /\ \A b \in {0, 1} :
              /\ IsInjective(data_hash'[b])
              /\ ToSet(data_hash'[b])
                   = IF b = BucketOf(d) THEN ToSet(data_hash[b]) \cup {e} ELSE ToSet(data_hash[b])
<1> DEFINE n == BucketOf(d)
           s == data_hash[n]
           t == <<e>> \o s
<1>1. n \in {0, 1}
  BY BucketType
<1>2. /\ data_hash \in [{0, 1} -> Seq(Entries)] /\ \A b \in {0, 1} : IsInjective(data_hash[b])
      /\ e \notin ToSet(s)
  BY <1>1, AddFacts DEF ContainersInv, ContainersTypeOK, InPlace
<1>3. data_hash' = [data_hash EXCEPT ![n] = t]
  BY <1>1, <1>2 DEF Add, add_node, BucketOf
<1>4. s \in Seq(Entries) /\ IsInjective(s)
  BY <1>1, <1>2
<1> HIDE DEF n, s
<1>5. t \in Seq(Entries) /\ Inserted(s, t, 1, e)
  BY <1>4, InFrontInserts
<1> HIDE DEF t
<1>6. IsInjective(t) /\ ToSet(t) = ToSet(s) \cup {e}
  BY <1>2, <1>4, <1>5, InsertedOnce
<1>7. data_hash' \in [{0, 1} -> Seq(Entries)]
  BY <1>2, <1>3, <1>5
<1>8. ASSUME NEW b \in {0, 1}
      PROVE  /\ IsInjective(data_hash'[b])
             /\ ToSet(data_hash'[b]) = IF b = n THEN ToSet(data_hash[b]) \cup {e} ELSE ToSet(data_hash[b])
  <2>1. CASE b = n
    BY <1>1, <1>2, <1>3, <1>6, <2>1 DEF s
  <2>2. CASE b # n
    BY <1>2, <1>3, <2>2
  <2> QED
    BY <2>1, <2>2
<1> QED
  BY <1>7, <1>8 DEF n

\* How the number of entries with some data changes.
LEMMA OneMore ==
  ASSUME NEW es, IsFiniteSet(es), NEW e, e \notin es
  PROVE  Cardinality(es \cup {e}) = Cardinality(es) + 1
BY FS_AddElement

LEMMA AddKeeps ==
  ASSUME ContainersInv, NEW e \in Entries, NEW d \in Data, Add(e, d)
  PROVE  ContainersInv'
<1>1. ContainersTypeOK'
  BY AddFacts, AddToList, AddToTable DEF ContainersTypeOK
<1>2. /\ \A x \in ToSet(data_list) : x \in Entries /\ x # e
      /\ \A b \in {0, 1} : \A x \in ToSet(data_hash[b]) : x \in Entries /\ x # e
  BY AddFacts DEF ContainersInv, ContainersTypeOK, ToSet
<1>3. InPlace'
  <2>1. ASSUME NEW b \in {0, 1}, NEW x \in ToSet(data_hash'[b]) PROVE BucketOf(data'[x]) = b
    <3>1. CASE x = e
      <4>1. b = BucketOf(d)
        BY <1>2, <2>1, <3>1, AddToTable
      <4> QED
        BY <3>1, <4>1, AddFacts
    <3>2. CASE x # e
      <4>1. x \in ToSet(data_hash[b])
        BY <2>1, <3>2, AddToTable
      <4>2. data'[x] = data[x]
        BY <1>2, <3>2, <4>1, AddFacts
      <4> QED
        BY <4>1, <4>2 DEF ContainersInv, InPlace
    <3> QED
      BY <3>1, <3>2
  <2> QED
    BY <2>1, AddToList, AddToTable DEF InPlace
<1>4. ASSUME NEW f \in Data
      PROVE  Cardinality(Holding(ToSet(data_list), f)')
               = Cardinality(Holding(ToSet(data_hash[BucketOf(f)]), f)')
  <2> DEFINE b == BucketOf(f)
             L == Holding(ToSet(data_list), f)
             H == Holding(ToSet(data_hash[b]), f)
  <2>1. b \in {0, 1}
    BY BucketType
  <2>2. Cardinality(L) = Cardinality(H)
    BY DEF ContainersInv, SameNumbers
  <2>3. IsFiniteSet(L) /\ IsFiniteSet(H)
    <3>1. IsFiniteSet(ToSet(data_list)) /\ IsFiniteSet(ToSet(data_hash[b]))
      BY <2>1, SeqFinite DEF ContainersInv, ContainersTypeOK
    <3>2. L \in SUBSET ToSet(data_list) /\ H \in SUBSET ToSet(data_hash[b])
      BY DEF Holding
    <3> HIDE DEF L, H, b
    <3> QED
      BY <3>1, <3>2, FS_Subset
  <2>4. e \notin L /\ e \notin H
    BY <1>2, <2>1 DEF Holding
  <2>5. ToSet(data_list') = ToSet(data_list) \cup {e}
    BY AddToList
  <2>6. \A x \in ToSet(data_list) : data'[x] = data[x]
    BY <1>2, AddFacts
  <2>7. \A x \in ToSet(data_hash[b]) : data'[x] = data[x]
    BY <1>2, <2>1, AddFacts
  <2>8. data'[e] = d
    BY AddFacts
  <2>9. CASE f = d
    <3>1. Holding(ToSet(data_list), f)' = L \cup {e}
      BY <2>5, <2>6, <2>8, <2>9 DEF Holding
    <3>2. ToSet(data_hash'[b]) = ToSet(data_hash[b]) \cup {e}
      BY <2>1, <2>9, AddToTable
    <3>3. Holding(ToSet(data_hash[b]), f)' = H \cup {e}
      BY <2>7, <2>8, <2>9, <3>2 DEF Holding, BucketOf, Bucket, hash_func
    <3> HIDE DEF L, H
    <3>4. Cardinality(L \cup {e}) = Cardinality(H \cup {e})
      BY <2>2, <2>3, <2>4, OneMore
    <3> QED
      BY <3>1, <3>3, <3>4
  <2>10. CASE f # d
    <3>1. Holding(ToSet(data_list), f)' = L
      BY <2>5, <2>6, <2>8, <2>10 DEF Holding
    <3>2. /\ ToSet(data_hash'[b]) \subseteq ToSet(data_hash[b]) \cup {e}
          /\ ToSet(data_hash[b]) \subseteq ToSet(data_hash'[b])
      BY <2>1, AddToTable
    <3>3. Holding(ToSet(data_hash[b]), f)' = H
      BY <2>7, <2>8, <2>10, <3>2 DEF Holding, BucketOf, Bucket, hash_func
    <3> QED
      BY <2>2, <3>1, <3>3
  <2> QED
    BY <2>9, <2>10
<1>5. SameNumbers'
  BY <1>4 DEF SameNumbers
<1> QED
  BY <1>1, <1>3, <1>5, AddToList DEF ContainersInv

\* Deleting d from a list or a bucket, nowhere else is an entry touched.
LEMMA DeleteFrom ==
  ASSUME NEW s \in Seq(Entries), IsInjective(s), NEW d,
         NEW t, t = del_entry(s, d)
  PROVE  /\ t \in Seq(Entries) /\ IsInjective(t)
         /\ \/ ToSet(t) = ToSet(s) /\ Holding(ToSet(s), d) = {}
            \/ \E e \in Holding(ToSet(s), d) : ToSet(t) = ToSet(s) \ {e}
<1>1. /\ t \in Seq(Entries)
      /\ \/ t = s /\ Holding(ToSet(s), d) = {}
         \/ \E k \in 1 .. Len(s) : Removed(s, t, k) /\ data[s[k]] = d
  BY Deletion
<1>2. CASE t = s /\ Holding(ToSet(s), d) = {}
  BY <1>2
<1>3. ASSUME NEW k \in 1 .. Len(s), Removed(s, t, k), data[s[k]] = d
      PROVE  /\ IsInjective(t)
             /\ \E e \in Holding(ToSet(s), d) : ToSet(t) = ToSet(s) \ {e}
  <2>1. IsInjective(t) /\ ToSet(t) = ToSet(s) \ {s[k]}
    BY <1>1, <1>3, RemovedOnce
  <2>2. s[k] \in Holding(ToSet(s), d)
    BY <1>3 DEF Holding, ToSet
  <2> QED
    BY <2>1, <2>2
<1> QED
  BY <1>1, <1>2, <1>3

\* The entries with some data, after that.
LEMMA HeldAfter ==
  ASSUME NEW d, NEW f, NEW es, NEW rest, IsFiniteSet(es),
         \/ rest = es /\ Holding(es, d) = {}
         \/ \E e \in Holding(es, d) : rest = es \ {e}
  PROVE  /\ Cardinality(Holding(es, f)) \in Nat
         /\ Cardinality(Holding(rest, f)) =
              IF f = d /\ Cardinality(Holding(es, f)) > 0
              THEN Cardinality(Holding(es, f)) - 1 ELSE Cardinality(Holding(es, f))
<1> DEFINE H == Holding(es, f)
<1>1. H \in SUBSET es
  BY DEF Holding
<1> HIDE DEF H
<1>2. IsFiniteSet(H) /\ Cardinality(H) \in Nat
  BY <1>1, FS_Subset, FS_CardinalityType
<1>3. CASE rest = es /\ Holding(es, d) = {}
  <2>1. f = d => Cardinality(H) = 0
    BY <1>3, FS_EmptySet DEF H
  <2> QED
    BY <1>2, <1>3, <2>1 DEF H
<1>4. ASSUME NEW e \in Holding(es, d), rest = es \ {e}
      PROVE  Cardinality(Holding(rest, f)) =
               IF f = d /\ Cardinality(H) > 0 THEN Cardinality(H) - 1 ELSE Cardinality(H)
  <2>1. CASE f = d
    <3>1. e \in H /\ Holding(rest, f) = H \ {e}
      BY <1>4, <2>1 DEF H, Holding
    <3>2. Cardinality(H) # 0
      BY <1>2, <3>1, FS_EmptySet
    <3>3. Cardinality(H \ {e}) = Cardinality(H) - 1
      BY <1>2, <3>1, FS_RemoveElement
    <3> QED
      BY <1>2, <2>1, <3>1, <3>2, <3>3
  <2>2. CASE f # d
    <3>1. Holding(rest, f) = H
      BY <1>4, <2>2 DEF H, Holding
    <3> QED
      BY <2>2, <3>1
  <2> QED
    BY <2>1, <2>2
<1> QED
  BY <1>2, <1>3, <1>4 DEF H

LEMMA DeleteDescending ==
  ASSUME ContainersInv, NEW d \in Data, Delete(d)
  PROVE  Descending'
<1> DEFINE s == data_list
           t == data_list'
<1>1. s \in Seq(Entries) /\ t = del_entry(s, d)
  BY DEF ContainersInv, ContainersTypeOK, Delete
<1>2. \A i, j \in 1 .. Len(s) : i < j => MayPrecede(s[i], s[j])
  BY DEF ContainersInv, Descending
<1>3. UNCHANGED <<data, older>>
  BY DEF Delete
<1> HIDE DEF s, t
<1>4. t = s \/ \E k \in 1 .. Len(s) : Removed(s, t, k)
  BY <1>1, Deletion
<1>5. \A i, j \in 1 .. Len(t) : i < j => MayPrecede(t[i], t[j])
  <2>1. CASE t = s
    BY <1>2, <2>1
  <2>2. ASSUME NEW k \in 1 .. Len(s), Removed(s, t, k),
               NEW i \in 1 .. Len(t), NEW j \in 1 .. Len(t), i < j
        PROVE  MayPrecede(t[i], t[j])
    <3> DEFINE m == IF i < k THEN i ELSE i + 1
               n == IF j < k THEN j ELSE j + 1
    <3>1. Len(s) \in Nat /\ Len(t) = Len(s) - 1
      BY <1>1, <2>2 DEF Removed
    <3>2. m \in 1 .. Len(s) /\ n \in 1 .. Len(s) /\ m < n
      BY <2>2, <3>1
    <3>3. t[i] = s[m] /\ t[j] = s[n]
      BY <2>2 DEF Removed
    <3> HIDE DEF m, n
    <3> QED
      BY <1>2, <3>2, <3>3
  <2> QED
    BY <1>4, <2>1, <2>2
<1> QED
  BY <1>3, <1>5 DEF t, Descending, MayPrecede

LEMMA DeleteKeeps ==
  ASSUME ContainersInv, NEW d \in Data, Delete(d)
  PROVE  ContainersInv'
<1> DEFINE s == data_list
           s2 == data_list'
           n == BucketOf(d)
           h == data_hash[n]
           h2 == del_entry(h, d)
<1>1. n \in {0, 1}
  BY BucketType
<1>2. /\ s \in Seq(Entries) /\ IsInjective(s)
      /\ data_hash \in [{0, 1} -> Seq(Entries)] /\ \A b \in {0, 1} : IsInjective(data_hash[b])
  BY DEF ContainersInv, ContainersTypeOK, InPlace
<1>3. s2 = del_entry(s, d) /\ UNCHANGED <<data, older>>
  BY DEF Delete
<1>4. data_hash' = [data_hash EXCEPT ![n] = h2]
  BY <1>1, <1>2 DEF Delete, del_node, del_entry, BucketOf
<1>5. h \in Seq(Entries) /\ IsInjective(h)
  BY <1>1, <1>2
<1> HIDE DEF s, n
<1>6. /\ s2 \in Seq(Entries) /\ IsInjective(s2)
      /\ \/ ToSet(s2) = ToSet(s) /\ Holding(ToSet(s), d) = {}
         \/ \E e \in Holding(ToSet(s), d) : ToSet(s2) = ToSet(s) \ {e}
  <2> HIDE DEF s2
  <2> QED
    BY <1>2, <1>3, DeleteFrom
<1>7. /\ h2 \in Seq(Entries) /\ IsInjective(h2)
      /\ \/ ToSet(h2) = ToSet(h) /\ Holding(ToSet(h), d) = {}
         \/ \E e \in Holding(ToSet(h), d) : ToSet(h2) = ToSet(h) \ {e}
  <2>1. h2 = del_entry(h, d)
    OBVIOUS
  <2> HIDE DEF h, h2
  <2> QED
    BY <1>5, <2>1, DeleteFrom
<1> HIDE DEF h, h2
<1>8. ContainersTypeOK'
  BY <1>2, <1>3, <1>4, <1>6, <1>7 DEF ContainersInv, ContainersTypeOK
<1>9. \A b \in {0, 1} : data_hash'[b] = IF b = n THEN h2 ELSE data_hash[b]
  BY <1>2, <1>4
<1>10. InPlace'
  <2>1. ASSUME NEW b \in {0, 1}
        PROVE  /\ IsInjective(data_hash'[b])
               /\ \A e \in ToSet(data_hash'[b]) : BucketOf(data[e]) = b
    <3>1. ToSet(data_hash'[b]) \subseteq ToSet(data_hash[b])
      BY <1>7, <1>9 DEF h
    <3> QED
      BY <1>2, <1>7, <1>9, <3>1 DEF ContainersInv, InPlace
  <2> QED
    BY <1>3, <1>6, <2>1 DEF InPlace
<1>11. ASSUME NEW f \in Data
       PROVE  Cardinality(Holding(ToSet(s2), f)) = Cardinality(Holding(ToSet(data_hash'[BucketOf(f)]), f))
  <2> DEFINE L == Cardinality(Holding(ToSet(s), f))
             L2 == Cardinality(Holding(ToSet(s2), f))
             H == Cardinality(Holding(ToSet(data_hash[BucketOf(f)]), f))
             H2 == Cardinality(Holding(ToSet(data_hash'[BucketOf(f)]), f))
  <2>1. L = H
    BY DEF ContainersInv, SameNumbers, s
  <2>2. BucketOf(f) \in {0, 1}
    BY BucketType
  <2>3. IsFiniteSet(ToSet(s)) /\ IsFiniteSet(ToSet(h))
    BY <1>2, <1>5, SeqFinite
  <2>4. /\ L \in Nat
        /\ L2 = IF f = d /\ L > 0 THEN L - 1 ELSE L
    <3> DEFINE es == ToSet(s)
               rest == ToSet(s2)
    <3>1. /\ IsFiniteSet(es)
          /\ \/ rest = es /\ Holding(es, d) = {}
             \/ \E e \in Holding(es, d) : rest = es \ {e}
      BY <1>6, <2>3
    <3> HIDE DEF es, rest
    <3>2. /\ Cardinality(Holding(es, f)) \in Nat
          /\ Cardinality(Holding(rest, f)) =
               IF f = d /\ Cardinality(Holding(es, f)) > 0
               THEN Cardinality(Holding(es, f)) - 1 ELSE Cardinality(Holding(es, f))
      BY <3>1, HeldAfter
    <3> QED
      BY <3>2 DEF es, rest
  <2>5. H2 = IF f = d /\ H > 0 THEN H - 1 ELSE H
    <3>1. CASE BucketOf(f) = n
      <4> DEFINE es == ToSet(h)
                 rest == ToSet(h2)
      <4>1. /\ IsFiniteSet(es)
            /\ \/ rest = es /\ Holding(es, d) = {}
               \/ \E e \in Holding(es, d) : rest = es \ {e}
        BY <1>7, <2>3
      <4> HIDE DEF es, rest
      <4>2. Cardinality(Holding(rest, f)) =
              IF f = d /\ Cardinality(Holding(es, f)) > 0
              THEN Cardinality(Holding(es, f)) - 1 ELSE Cardinality(Holding(es, f))
        BY <4>1, HeldAfter
      <4>3. es = ToSet(data_hash[BucketOf(f)]) /\ rest = ToSet(data_hash'[BucketOf(f)])
        BY <1>9, <2>2, <3>1 DEF es, rest, h
      <4> QED
        BY <4>2, <4>3
    <3>2. CASE BucketOf(f) # n
      <4>1. f # d
        BY <3>2 DEF n
      <4>2. data_hash'[BucketOf(f)] = data_hash[BucketOf(f)]
        BY <1>9, <2>2, <3>2
      <4> QED
        BY <4>1, <4>2
    <3> QED
      BY <3>1, <3>2
  <2> HIDE DEF L, L2, H, H2
  <2>6. L2 = H2
    BY <2>1, <2>4, <2>5
  <2> QED
    BY <2>6 DEF L2, H2
<1>12. SameNumbers'
  BY <1>3, <1>11 DEF SameNumbers, Holding, s2
<1> QED
  BY <1>8, <1>10, <1>12, DeleteDescending DEF ContainersInv

LEMMA ContainersInvariance == ContainersSpec => []ContainersInv
<1>1. ContainersInit => ContainersInv
  <2> SUFFICES ASSUME ContainersInit PROVE ContainersInv
    OBVIOUS
  <2> USE DEF ContainersInit
  <2>1. \A d : BucketOf(d) \in {0, 1}
    BY BucketType
  <2>2. ContainersTypeOK
    BY DEF ContainersTypeOK
  <2>3. InPlace /\ Descending
    BY DEF InPlace, Descending, IsInjective, ToSet
  <2>4. \A d : Holding(ToSet(data_list), d) = {} /\ Holding(ToSet(data_hash[BucketOf(d)]), d) = {}
    BY <2>1 DEF Holding, ToSet
  <2> QED
    BY <2>2, <2>3, <2>4 DEF SameNumbers, ContainersInv
<1>2. ContainersInv /\ [ContainersNext]_containersVars => ContainersInv'
  <2> SUFFICES ASSUME ContainersInv, [ContainersNext]_containersVars PROVE ContainersInv'
    OBVIOUS
  <2>1. CASE UNCHANGED containersVars
    BY <2>1 DEF containersVars, ContainersInv, ContainersTypeOK, InPlace, Descending, MayPrecede,
       SameNumbers, Holding
  <2> QED
    BY <2>1, AddKeeps, DeleteKeeps DEF ContainersNext
<1> QED
  BY <1>1, <1>2, PTL DEF ContainersSpec

\* The list stays in descending order, equals in the order they came, for any
\* entries and data and any sequence of calls (list.c:20-47).
THEOREM ListIsOrdered == ContainersSpec => []Ordered
<1>1. ContainersInv => Ordered
  <2> SUFFICES ASSUME ContainersInv, NEW e \in Entries, NEW f \in Entries, Before(data_list, e, f)
               PROVE  \/ data[e] > data[f]
                      \/ data[e] = data[f] /\ <<e, f>> \in older
    BY DEF Ordered
  <2>1. DOMAIN data_list = 1 .. Len(data_list)
    BY DEF ContainersInv, ContainersTypeOK
  <2>2. MayPrecede(e, f)
    BY <2>1 DEF Before, ContainersInv, Descending
  <2> QED
    BY <2>2 DEF MayPrecede
<1> QED
  BY <1>1, ContainersInvariance, PTL

\* The list and the hash table hold the same data as often, for any data that
\* the hash takes, negative ones too: what has been put in one bucket is never
\* looked for in the other (list.c:35-47, hashtable.c:16-43).
THEOREM SameInBoth == ContainersSpec => []SameContents
<1>1. ContainersInv => SameContents
  <2> DEFINE Times(s, d) == Cardinality({i \in DOMAIN s : data[s[i]] = d})
  <2> SUFFICES ASSUME ContainersInv, NEW d \in Data
               PROVE  Times(data_list, d) = Times(data_hash[0], d) + Times(data_hash[1], d)
    BY DEF SameContents
  <2>1. /\ data_list \in Seq(Entries) /\ IsInjective(data_list)
        /\ data_hash[0] \in Seq(Entries) /\ IsInjective(data_hash[0])
        /\ data_hash[1] \in Seq(Entries) /\ IsInjective(data_hash[1])
    BY DEF ContainersInv, ContainersTypeOK, InPlace
  <2>2. /\ Times(data_list, d) = Cardinality(Holding(ToSet(data_list), d))
        /\ Times(data_hash[0], d) = Cardinality(Holding(ToSet(data_hash[0]), d))
        /\ Times(data_hash[1], d) = Cardinality(Holding(ToSet(data_hash[1]), d))
    BY <2>1, TimesHeld
  <2> HIDE DEF Times
  <2>3. ASSUME NEW b \in {0, 1}, b # BucketOf(d)
        PROVE  Cardinality(Holding(ToSet(data_hash[b]), d)) = 0
    <3>1. Holding(ToSet(data_hash[b]), d) = {}
      BY <2>3 DEF Holding, ContainersInv, InPlace
    <3> QED
      BY <3>1, FS_EmptySet
  <2>4. BucketOf(d) \in {0, 1}
    BY BucketType
  <2>5. Cardinality(Holding(ToSet(data_list), d))
          = Cardinality(Holding(ToSet(data_hash[BucketOf(d)]), d))
    BY DEF ContainersInv, SameNumbers
  <2>6. Cardinality(Holding(ToSet(data_list), d)) \in Nat
    <3> DEFINE H == Holding(ToSet(data_list), d)
    <3>1. IsFiniteSet(ToSet(data_list)) /\ H \in SUBSET ToSet(data_list)
      BY <2>1, SeqFinite DEF Holding
    <3> HIDE DEF H
    <3>2. Cardinality(H) \in Nat
      BY <3>1, FS_Subset, FS_CardinalityType
    <3> QED
      BY <3>2 DEF H
  <2> QED
    BY <2>2, <2>3, <2>4, <2>5, <2>6
<1> QED
  BY <1>1, ContainersInvariance, PTL
=============================================================================
