--------------------------- MODULE LogRefinement ----------------------------
(***************************************************************************)
(* Readers of Log.tla get current data, and the log implements the atomic  *)
(* disk, for any number of processes and blocks and any sizes.             *)
(***************************************************************************)
EXTENDS LogProofs

(* What recovery makes of the disk, block by block. *)
LEMMA ReplayLogged ==
  ASSUME NEW h, NEW d, NEW hd \in Seq(Block), Distinct(hd), NEW i \in 1..Len(hd)
  PROVE  Replay(h, d, hd)[hd[i]] = d[i]
<1>1. hd[i] \in Block /\ hd[i] \in Logged(hd)
  BY DEF Logged
<1>2. (CHOOSE j \in 1..Len(hd) : hd[j] = hd[i]) = i
  BY DEF Distinct
<1> QED BY <1>1, <1>2, Zenon DEF Replay

(* Recovery leaves alone a block that the header does not name. *)
LEMMA ReplayUnlogged ==
  ASSUME NEW h, NEW d, NEW hd, NEW b \in Block, b \notin Logged(hd)
  PROVE  Replay(h, d, hd)[b] = h[b]
BY DEF Replay

(* The invariant makes every bread return current data. *)
LEMMA CurrentData == IInv => CacheCurrent
<1> SUFFICES ASSUME IInv, ~Booting, NEW b \in Block, b \notin torn, Unlocked(b)
             PROVE  Current(b)
  BY DEF CacheCurrent
<1> USE LogAssumption DEF IInv, Current
<1>1. CASE b \in AwaitingInstall /\ Uncommitted
  <2>1. GroupWrites[b] = cache[b] /\ cache[b] # NoValue
    BY <1>1 DEF GroupWrites, AwaitingInstall, PinInv
  <2> QED BY <2>1 DEF Cached
<1>2. CASE b \in AwaitingInstall /\ ~Uncommitted
  <2>1. phase = "install" /\ dhead = lh
    BY <1>2 DEF AwaitingInstall, HeaderInv
  <2>2. PICK i \in tail..Len(lh) : b = lh[i]
    BY <1>2, <2>1 DEF AwaitingInstall
  <2>3. i \in 1..Len(lh) /\ Recovered[b] = dlog[i]
    BY <2>1, <2>2, ReplayLogged DEF Recovered, HeaderInv, TypeOK
  <2>4. cache[b] = dlog[i] /\ cache[b] # NoValue
    BY <1>2, <2>1, <2>2 DEF CopyInv, PinInv
  <2>5. GroupWrites[b] = NoValue
    BY <1>2 DEF GroupWrites
  <2> QED BY <2>3, <2>4, <2>5 DEF Cached
<1>3. CASE b \notin AwaitingInstall
  <2>1. Cached(b) = home[b]
    BY <1>3 DEF CoherenceInv, Cached
  <2>2. GroupWrites[b] = NoValue
    BY <1>3 DEF GroupWrites, AwaitingInstall
  <2>3. Recovered[b] = home[b]
    <3>1. CASE b \notin Logged(dhead)
      BY <3>1, ReplayUnlogged DEF Recovered
    <3>2. CASE b \in Logged(dhead)
      <4>1. PICK i \in 1..Len(dhead) : b = dhead[i]
        BY <3>2 DEF Logged
      <4>2. dhead = lh /\ phase \in {"install", "clear"}
        BY <4>1 DEF HeaderInv, TypeOK, Booting
      <4>3. home[b] = dlog[i]
        BY <1>3, <4>1, <4>2 DEF CopyInv, AwaitingInstall, Uncommitted, TypeOK
      <4> QED BY <4>1, <4>3, ReplayLogged DEF Recovered, HeaderInv, TypeOK
    <3> QED BY <3>1, <3>2
  <2> QED BY <2>1, <2>2, <2>3
<1> QED BY <1>1, <1>2, <1>3

(* A bread returns the data of the current group, or else what recovery    *)
(* would restore, in every state of commit() and after any crash.          *)
THEOREM ReadersSeeCurrentData == Spec => []CacheCurrent
BY Invariance, CurrentData, PTL
-----------------------------------------------------------------------------
(* The refinement: every step of the log is a step of the atomic disk or   *)
(* leaves the disk's variables alone.                                      *)

(* An empty header logs nothing. *)
LEMMA NothingLogged == Logged(<< >>) = {}
BY DEF Logged

(* The three ways a step can look to the atomic disk without being a step. *)
LEMMA Stutter ==
  ASSUME Recovered' = Recovered, GroupWrites' = GroupWrites, Active' = Active
  PROVE  [Disk!Next]_(Disk!vars)
BY DEF Disk!vars

(* A step that leaves header, cache and phase leaves the group. *)
LEMMA SameGroup ==
  ASSUME lh' = lh, cache' = cache, phase' = phase
  PROVE  GroupWrites' = GroupWrites
BY DEF GroupWrites, Uncommitted, Logged

(* What recovery would find depends on the disk alone. *)
LEMMA SameDisk == ASSUME UNCHANGED disk PROVE Recovered' = Recovered
BY DEF disk, Recovered, Replay, Logged

(* begin_op, log_write, brelse and end_op are steps of the atomic disk. *)
LEMMA CallRefines ==
  ASSUME IInv, IInv', NEW p \in Op, Call(p)
  PROVE  [Disk!Next]_(Disk!vars)
<1> USE LogAssumption DEF IInv
<1>0. Recovered' = Recovered
  BY SameDisk DEF Call, BeginOp, LogWrite, Brelse, EndOp
<1>1. CASE BeginOp(p)
  <2>1. GroupWrites' = GroupWrites
    BY <1>1, SameGroup DEF BeginOp
  <2>2. CASE Active' = Active
    BY <1>0, <2>1, <2>2, Stutter
  <2>3. CASE Active' = Active \cup {p} /\ p \notin Active
    <3>1. Disk!Begin(p)
      BY <1>0, <2>1, <2>3 DEF Disk!Begin
    <3> QED BY <3>1 DEF Disk!Next
  <2> QED BY <1>1, <2>2, <2>3 DEF BeginOp, Active, TypeOK
<1>2. CASE Brelse(p)
  <2>1. GroupWrites' = GroupWrites /\ Active' = Active
    BY <1>2, SameGroup DEF Brelse, Active
  <2> QED BY <1>0, <2>1, Stutter
<1>3. CASE EndOp(p)
  <2>1. phase = "run" /\ ~committing /\ p \in Active
    BY <1>3 DEF EndOp, TypeOK, CallInv, Active
  <2>2. Active' = Active \ {p}
    BY <1>3, <2>1 DEF EndOp, Wakeup, TypeOK, Active
  <2>3. GroupWrites' = GroupWrites
    <3>1. CASE lh = << >>
      BY <1>3, <3>1, NothingLogged DEF EndOp, GroupWrites
    <3>2. CASE lh # << >>
      <4>1. Uncommitted /\ Uncommitted'
        BY <1>3, <2>1, <3>2 DEF EndOp, Uncommitted
      <4> QED BY <1>3, <4>1 DEF EndOp, GroupWrites, Logged
    <3> QED BY <3>1, <3>2
  <2>4. Disk!End(p)
    BY <1>0, <2>1, <2>2, <2>3 DEF Disk!End
  <2> QED BY <2>4 DEF Disk!Next
<1>4. CASE LogWrite(p)
  <2>1. Active' = Active
    BY <1>4 DEF LogWrite, TypeOK, Active
  <2>2. CASE lh' = lh
    <3>1. GroupWrites' = GroupWrites
      BY <1>4, <2>2, SameGroup DEF LogWrite
    <3> QED BY <1>0, <2>1, <3>1, Stutter
  <2>3. CASE lh' # lh
    <3>1. /\ phase = "run" /\ p \in Active /\ buf[p] \in Block
          /\ cache[buf[p]] \in Value
      BY <1>4 DEF LogWrite, TypeOK, CallInv, BufInv, Active
    <3>2. buf[p] \notin Logged(lh) /\ lh' = Append(lh, buf[p])
      BY <1>4, <2>3 DEF LogWrite
    <3>3. Logged(lh') = Logged(lh) \cup {buf[p]}
      BY <3>1, <3>2, AppendLogged DEF TypeOK, HeaderInv
    <3>4. GroupWrites' = [GroupWrites EXCEPT ![buf[p]] = cache[buf[p]]]
      BY <1>4, <3>1, <3>3, Zenon DEF LogWrite, GroupWrites, Uncommitted
    <3>5. Disk!Write(p, buf[p], cache[buf[p]])
      BY <1>0, <2>1, <3>1, <3>4 DEF Disk!Write
    <3> QED BY <3>1, <3>5 DEF Disk!Next
  <2> QED BY <2>2, <2>3
<1> QED BY <1>1, <1>2, <1>3, <1>4 DEF Call

(* A change to a buffer of the group is a write of the atomic disk. *)
LEMMA ModifyRefines ==
  ASSUME IInv, NEW p \in Op, NEW v \in Value, Modify(p, v)
  PROVE  [Disk!Next]_(Disk!vars)
<1> USE LogAssumption DEF IInv, Modify
<1>1. Recovered' = Recovered /\ Active' = Active
  BY SameDisk DEF Active
<1>2. phase = "run" /\ p \in Active /\ buf[p] \in Block
  BY DEF TypeOK, CallInv, Active
<1>3. CASE buf[p] \in Logged(lh)
  <2>1. GroupWrites' = [GroupWrites EXCEPT ![buf[p]] = v]
    <3>1. Uncommitted /\ Uncommitted' /\ Logged(lh') = Logged(lh)
      BY <1>2 DEF Uncommitted, Logged
    <3>2. cache' = [cache EXCEPT ![buf[p]] = v] /\ cache \in [Block -> Value \cup {NoValue}]
      BY DEF TypeOK
    <3> QED BY <1>2, <1>3, <3>1, <3>2, Zenon DEF GroupWrites
  <2>2. Disk!Write(p, buf[p], v)
    BY <1>1, <1>2, <2>1 DEF Disk!Write
  <2> QED BY <1>2, <2>2 DEF Disk!Next
<1>4. CASE buf[p] \notin Logged(lh)
  <2>1. GroupWrites' = GroupWrites
    BY <1>2, <1>4 DEF TypeOK, GroupWrites, Uncommitted, Logged
  <2> QED BY <1>1, <2>1, Stutter
<1> QED BY <1>3, <1>4

(* bget fills and recycles only buffers that are not in the current group. *)
LEMMA CacheRefines ==
  ASSUME IInv, NEW b \in Block,
         Load(b) \/ Recycle(b) \/ \E p \in Op : Bread(p, b)
  PROVE  [Disk!Next]_(Disk!vars)
<1> USE LogAssumption DEF IInv, Load, Recycle, Bread
<1>0. UNCHANGED disk /\ UNCHANGED pc
  BY DEF calls
<1>1. Recovered' = Recovered /\ Active' = Active
  BY <1>0, SameDisk DEF Active
<1>2. /\ lh' = lh /\ phase' = phase
      /\ \A c \in Block \ {b} : cache'[c] = cache[c]
      /\ b \in AwaitingInstall => cache'[b] = cache[b]
  BY DEF TypeOK, PinInv, PinnedWhileLogged, Cached
<1>3. GroupWrites' = GroupWrites
  <2>1. Uncommitted' = Uncommitted /\ Logged(lh') = Logged(lh)
    BY <1>2 DEF Uncommitted, Logged
  <2>2. \A c \in Block : Uncommitted /\ c \in Logged(lh) => cache'[c] = cache[c]
    BY <1>2 DEF AwaitingInstall
  <2> QED BY <2>1, <2>2 DEF GroupWrites
<1> QED BY <1>1, <1>3, Stutter

(* Writing log blocks and header: the header write is the Commit. *)
LEMMA WriteLogRefines ==
  ASSUME IInv, WriteLog
  PROVE  [Disk!Next]_(Disk!vars)
<1> USE LogAssumption DEF IInv, WriteLog
<1>1. Active' = Active
  BY DEF calls, Active
<1>2. Recovered' = Recovered
  BY NothingLogged DEF HeaderInv, Recovered, Replay
<1>3. cache' = cache
  <2>1. lh[tail] \in Block /\ lh[tail] \in AwaitingInstall
    BY DEF TypeOK, HeaderInv, AwaitingInstall, Uncommitted, Logged
  <2> QED BY <2>1 DEF TypeOK, PinInv, Cached
<1>4. Uncommitted /\ Uncommitted'
  BY DEF Uncommitted, Advance
<1>5. GroupWrites' = GroupWrites
  BY <1>3, <1>4 DEF GroupWrites, Logged
<1> QED BY <1>1, <1>2, <1>5, Stutter

(* The commit point. *)
LEMMA WriteHeadRefines ==
  ASSUME IInv, WriteHead
  PROVE  [Disk!Next]_(Disk!vars)
<1> USE LogAssumption DEF IInv, WriteHead
<1>1. Active' = Active /\ Active = {}
  BY DEF calls, Active, CallInv
<1>2. GroupWrites' = Disk!NoWrites
  BY DEF GroupWrites, Uncommitted, Disk!NoWrites
<1>3. Recovered = [b \in Block |-> home[b]]
  BY NothingLogged DEF HeaderInv, Recovered, Replay
<1>4. ASSUME NEW b \in Block
      PROVE  Recovered'[b] = IF GroupWrites[b] = NoValue THEN Recovered[b] ELSE GroupWrites[b]
  <2>1. CASE b \in Logged(lh)
    <3>1. GroupWrites[b] = cache[b] /\ cache[b] # NoValue
      BY <2>1 DEF GroupWrites, Uncommitted, AwaitingInstall, PinInv
    <3>2. PICK i \in 1..Len(lh) : b = lh[i]
      BY <2>1 DEF Logged
    <3>3. Recovered'[b] = dlog[i]
      BY <3>2, ReplayLogged DEF Recovered, TypeOK, HeaderInv
    <3>4. dlog[i] = cache[b]
      BY <3>2 DEF CopyInv
    <3> QED BY <3>1, <3>3, <3>4
  <2>2. CASE b \notin Logged(lh)
    <3>1. GroupWrites[b] = NoValue
      BY <2>2 DEF GroupWrites
    <3>2. Recovered'[b] = home[b]
      BY <2>2, ReplayUnlogged DEF Recovered
    <3> QED BY <1>3, <3>1, <3>2
  <2> QED BY <2>1, <2>2
<1>5. Disk!Commit
  <2>1. Recovered' = [b \in Block |-> IF GroupWrites[b] = NoValue THEN Recovered[b] ELSE GroupWrites[b]]
    <3>1. Recovered' = [b \in Block |-> Recovered'[b]]
      BY DEF Recovered, Replay
    <3> HIDE DEF WriteHead, IInv
    <3> QED BY <1>4, <3>1
  <2> QED BY <1>1, <1>2, <2>1 DEF Disk!Commit
<1> QED BY <1>5 DEF Disk!Next

(* install_trans, crashed or not, changes nothing durable. *)
LEMMA InstallRefines ==
  ASSUME IInv, InstallTrans
  PROVE  [Disk!Next]_(Disk!vars)
<1> USE LogAssumption DEF IInv, InstallTrans
<1>1. Active' = Active
  BY DEF calls, Active
<1>2. GroupWrites' = GroupWrites
  BY DEF GroupWrites, Uncommitted, Advance
<1>3. tail \in 1..Len(dhead) /\ dhead = lh
  BY DEF HeaderInv
<1>4. Recovered' = Recovered
  <2> SUFFICES ASSUME NEW b \in Block PROVE Recovered'[b] = Recovered[b]
    BY DEF Recovered, Replay
  <2>1. CASE b \in Logged(dhead)
    <3>1. PICK i \in 1..Len(dhead) : b = dhead[i]
      BY <2>1 DEF Logged
    <3> QED BY <3>1, ReplayLogged, SMTT(30) DEF Recovered, TypeOK, HeaderInv
  <2>2. CASE b \notin Logged(dhead)
    <3>1. b # lh[tail] /\ lh[tail] \in Block
      BY <1>3, <2>2 DEF Logged, TypeOK
    <3>2. home'[b] = home[b]
      BY <3>1 DEF TypeOK
    <3>3. b \notin Logged(dhead')
      BY <2>2
    <3> HIDE DEF InstallTrans, IInv
    <3>4. Recovered'[b] = home'[b]
      BY <3>3, ReplayUnlogged DEF Recovered
    <3>5. Recovered[b] = home[b]
      BY <2>2, ReplayUnlogged DEF Recovered
    <3> QED BY <3>2, <3>4, <3>5, SMTT(30)
  <2> QED BY <2>1, <2>2
<1> QED BY <1>1, <1>2, <1>4, Stutter

(* Erasing the header changes nothing durable. *)
LEMMA ClearRefines ==
  ASSUME IInv, Clear
  PROVE  [Disk!Next]_(Disk!vars)
<1> USE LogAssumption DEF IInv, Clear
<1>1. Active' = Active
  BY DEF calls, Active
<1>2. GroupWrites' = GroupWrites
  BY NothingLogged DEF GroupWrites, Uncommitted
<1>3. dhead = lh
  BY DEF HeaderInv
<1>4. Recovered' = Recovered
  <2> SUFFICES ASSUME NEW b \in Block PROVE Recovered'[b] = Recovered[b]
    BY Zenon DEF Recovered, Replay
  <2>1. Recovered'[b] = home[b]
    BY NothingLogged, ReplayUnlogged DEF Recovered
  <2>2. CASE b \in Logged(dhead)
    <3>1. PICK i \in 1..Len(dhead) : b = dhead[i]
      BY <2>2 DEF Logged
    <3>2. home[b] = dlog[i]
      BY <1>3, <3>1 DEF CopyInv
    <3> QED BY <2>1, <3>1, <3>2, ReplayLogged DEF Recovered, TypeOK, HeaderInv
  <2>3. CASE b \notin Logged(dhead)
    BY <2>1, <2>3, ReplayUnlogged DEF Recovered
  <2> QED BY <2>2, <2>3
<1> QED BY <1>1, <1>2, <1>4, Stutter

(* Steps that touch neither disk nor group are stuttering steps. *)
LEMMA QuietRefines ==
  ASSUME IInv, ReadHead \/ \E p \in Op : Finish(p)
  PROVE  [Disk!Next]_(Disk!vars)
<1> USE LogAssumption DEF IInv, ReadHead, Finish
<1>1. Recovered' = Recovered
  BY SameDisk, Zenon
<1>2. Active' = Active
  BY Zenon DEF calls, Active, Wakeup, TypeOK
<1>3. GroupWrites' = GroupWrites
  <2>1. CASE phase = "boot"
    BY <2>1 DEF GroupWrites, Uncommitted
  <2>2. CASE phase = "finish"
    BY <2>2, NothingLogged, Zenon DEF GroupWrites, Uncommitted, HeaderInv
  <2> QED BY <2>1, <2>2, Zenon
<1> QED BY <1>1, <1>2, <1>3, Stutter

(* A crash loses the whole group, or nothing once it is committed. *)
LEMMA CrashRefines ==
  ASSUME Crash
  PROVE  [Disk!Next]_(Disk!vars)
<1> USE DEF Crash
<1>1. Recovered' = Recovered
  BY SameDisk
<1>2. Active' = {}
  BY DEF Active
<1>3. GroupWrites' = Disk!NoWrites
  BY DEF GroupWrites, Uncommitted, Disk!NoWrites
<1>4. Disk!Crash
  BY <1>1, <1>2, <1>3 DEF Disk!Crash
<1> QED BY <1>4 DEF Disk!Next

(* Initial states of the log are initial states of the atomic disk. *)
LEMMA InitRefines == Init => Disk!Init
<1> SUFFICES ASSUME Init PROVE Disk!Init
  OBVIOUS
<1> USE DEF Init
<1>1. Recovered \in [Block -> Value]
  BY NothingLogged DEF Recovered, Replay
<1>2. GroupWrites = Disk!NoWrites
  BY NothingLogged DEF GroupWrites, Disk!NoWrites
<1>3. Active = {}
  BY DEF Active
<1> QED BY <1>1, <1>2, <1>3 DEF Disk!Init

(* Every step of the log is a step of the atomic disk or a stutter. *)
LEMMA NextRefines == IInv /\ IInv' /\ [Next]_vars => [Disk!Next]_(Disk!vars)
<1> SUFFICES ASSUME IInv, IInv', [Next]_vars PROVE [Disk!Next]_(Disk!vars)
  OBVIOUS
<1>1. CASE \E p \in Op : Call(p)
  BY <1>1, CallRefines
<1>2. CASE \E p \in Op, v \in Value : Modify(p, v)
  BY <1>2, ModifyRefines
<1>3. CASE \E b \in Block : Load(b) \/ Recycle(b) \/ \E p \in Op : Bread(p, b)
  BY <1>3, CacheRefines
<1>4. CASE Commit
  BY <1>4, WriteLogRefines, WriteHeadRefines, QuietRefines DEF Commit
<1>5. CASE InstallTrans \/ Clear \/ ReadHead \/ Crash
  BY <1>5, InstallRefines, ClearRefines, QuietRefines, CrashRefines
<1>6. CASE UNCHANGED vars
  <2>1. Recovered' = Recovered /\ GroupWrites' = GroupWrites
    BY <1>6, SameDisk, SameGroup DEF vars
  <2>2. Active' = Active
    BY <1>6 DEF vars, calls, Active
  <2> QED BY <2>1, <2>2, Stutter
<1> QED BY <1>1, <1>2, <1>3, <1>4, <1>5, <1>6 DEF Next

(* kernel/log.c implements the atomic disk: a crash at any point of        *)
(* commit() or of recover_from_log() leaves either none or all of the      *)
(* writes of a group, and no call's writes are split between two groups.   *)
THEOREM LogIsAtomic == Spec => AtomicGroups
BY InitRefines, NextRefines, Invariance, PTL DEF Spec, AtomicGroups, Disk!Spec
=============================================================================
