----------------------------- MODULE LogProofs ------------------------------
(***************************************************************************)
(* The steps of commit and recovery, the buffer cache's own steps and a    *)
(* crash preserve the invariant of LogCalls.tla as well, so it always      *)
(* holds.  What follows from it directly: types, and buffers pinned        *)
(* exactly while they must be.                                             *)
(***************************************************************************)
EXTENDS LogCalls

(* A turn of the loop of write_log preserves it. *)
LEMMA WriteLogInv == ASSUME IInv, WriteLog PROVE IInv'
<1> USE LogAssumption DEF IInv, disk, calls, WriteLog, Advance, Cached
<1>1. TypeOK'
  BY DEF TypeOK, HeaderInv, CallInv, PinInv, PinnedWhileLogged, AwaitingInstall, Slot
<1>2. HeaderInv'
  BY DEF TypeOK, HeaderInv, CallInv, Distinct, Logged, Booting, Active
<1>3. CallInv'
  BY DEF TypeOK, HeaderInv, CallInv, Active, Booting
<1>4. BufInv'
  BY DEF TypeOK, BufInv, CallInv, Active, Locked
<1>5. PinInv'
  BY DEF TypeOK, HeaderInv, CallInv, PinInv, BufInv, PinnedWhileLogged, AwaitingInstall, Uncommitted, Logged, Active
<1>6. CopyInv'
  <2>1. tail \in 1..Len(lh) /\ lh[tail] \in Block /\ tail \in Slot
    BY DEF TypeOK, HeaderInv, Slot
  <2>2. Cached(lh[tail]) = cache[lh[tail]] /\ cache' = cache
    BY <2>1 DEF TypeOK, PinInv, AwaitingInstall, Uncommitted, Logged
  <2>3. dlog' = [dlog EXCEPT ![tail] = cache[lh[tail]]]
    BY <2>2, Zenon
  <2>4. CASE tail < Len(lh)
    BY <2>1, <2>2, <2>3, <2>4 DEF TypeOK, CopyInv, Slot, HeaderInv
  <2>5. CASE ~(tail < Len(lh))
    BY <2>1, <2>2, <2>3, <2>5 DEF TypeOK, CopyInv, Slot, HeaderInv
  <2> QED BY <2>4, <2>5
<1>7. CoherenceInv'
  BY DEF TypeOK, HeaderInv, CallInv, BufInv, CoherenceInv, Unlocked, AwaitingInstall, Uncommitted, Logged, Active, Locked
<1> QED BY <1>1, <1>2, <1>3, <1>4, <1>5, <1>6, <1>7

(* The commit point preserves it: the log blocks are complete. *)
LEMMA WriteHeadInv == ASSUME IInv, WriteHead PROVE IInv'
<1> USE LogAssumption DEF IInv, disk, calls, WriteHead
<1>1. TypeOK'
  BY DEF TypeOK, HeaderInv, CallInv, PinInv, PinnedWhileLogged, AwaitingInstall, Slot
<1>2. HeaderInv'
  BY DEF TypeOK, HeaderInv, CallInv, Distinct, Logged, Booting, Active
<1>3. CallInv'
  BY DEF TypeOK, HeaderInv, CallInv, Active, Booting
<1>4. BufInv'
  BY DEF TypeOK, BufInv, CallInv, Active, Locked
<1>5. PinInv'
  BY DEF TypeOK, HeaderInv, CallInv, PinInv, BufInv, PinnedWhileLogged, AwaitingInstall, Uncommitted, Logged, Active
<1>6. CopyInv'
  BY DEF TypeOK, HeaderInv, CallInv, CopyInv, PinInv, Active, AwaitingInstall
<1>7. CoherenceInv'
  BY DEF TypeOK, HeaderInv, CallInv, BufInv, CoherenceInv, Unlocked, AwaitingInstall, Uncommitted, Logged, Active, Locked
<1> QED BY <1>1, <1>2, <1>3, <1>4, <1>5, <1>6, <1>7

(* The end of end_op after a commit preserves it. *)
LEMMA FinishInv == ASSUME IInv, NEW p \in Op, Finish(p) PROVE IInv'
<1> USE LogAssumption DEF IInv, disk, calls, Finish, Wakeup
<1>1. TypeOK'
  BY Zenon DEF TypeOK, HeaderInv, CallInv, PinInv, PinnedWhileLogged, AwaitingInstall, Slot
<1>2. HeaderInv'
  BY DEF TypeOK, HeaderInv, CallInv, Distinct, Logged, Booting, Active
<1>3. CallInv'
  <2>1. Active' = Active
    BY DEF TypeOK, Active
  <2> QED BY <2>1 DEF TypeOK, CallInv, Booting
<1>4. BufInv'
  BY DEF TypeOK, BufInv, CallInv, Active, Locked
<1>5. PinInv'
  BY DEF TypeOK, HeaderInv, CallInv, PinInv, BufInv, PinnedWhileLogged, AwaitingInstall, Uncommitted, Logged, Active
<1>6. CopyInv'
  BY DEF TypeOK, HeaderInv, CallInv, CopyInv, PinInv, Active, AwaitingInstall
<1>7. CoherenceInv'
  BY DEF TypeOK, HeaderInv, CallInv, BufInv, CoherenceInv, Unlocked, AwaitingInstall, Uncommitted, Logged, Active, Locked
<1> QED BY <1>1, <1>2, <1>3, <1>4, <1>5, <1>6, <1>7

(* A turn of the loop of install_trans preserves it. *)
LEMMA InstallTransInv == ASSUME IInv, InstallTrans PROVE IInv'
<1> USE LogAssumption DEF IInv, disk, calls, InstallTrans
<1>0. /\ tail \in 1..Len(lh) /\ tail \in Slot /\ Len(lh) \in Nat
      /\ lh[tail] \in Block /\ dlog[tail] \in Value
      /\ \A i \in 1..Len(lh) : lh[i] \in Block
  BY DEF TypeOK, HeaderInv, Slot
<1>a. /\ tail < Len(lh) => tail' = tail + 1 /\ phase' = phase
      /\ ~(tail < Len(lh)) => tail' = 1 /\ phase' = IF phase = "install" THEN "clear" ELSE "rclear"
  BY DEF Advance
<1>b. phase = "install" => cache' = cache
  <2>1. phase = "install" => dlog[tail] = cache[lh[tail]]
    BY <1>0 DEF CopyInv
  <2> QED BY <1>0, <2>1 DEF TypeOK
<1>c. phase' \in {"install", "clear", "rinstall", "rclear"}
  BY <1>a DEF TypeOK
<1>d. phase = "install" =>
        /\ lh[tail] \in AwaitingInstall
        /\ AwaitingInstall' = AwaitingInstall \ {lh[tail]}
        /\ AwaitingInstall \subseteq Block
  BY <1>0, <1>a DEF AwaitingInstall, Uncommitted, HeaderInv, Distinct
<1>e. phase = "rinstall" => AwaitingInstall' = {} /\ AwaitingInstall = {}
  BY <1>a DEF AwaitingInstall, Uncommitted
<1>1. TypeOK'
  <2>1. home' \in [Block -> Value] /\ cache' \in [Block -> Value \cup {NoValue}]
    BY <1>0 DEF TypeOK
  <2>2. pin' \in [Block -> Nat]
    BY <1>0, <1>d DEF TypeOK, Unpin, PinInv, PinnedWhileLogged
  <2>3. tail' \in Nat \ {0}
    BY <1>0, <1>a
  <2> QED BY <1>c, <2>1, <2>2, <2>3 DEF TypeOK
<1>2. HeaderInv'
  BY <1>0, <1>a DEF TypeOK, HeaderInv, Distinct
<1>3. CallInv'
  BY <1>a, <1>c DEF TypeOK, CallInv, Active, Booting
<1>4. BufInv'
  BY <1>0 DEF TypeOK, BufInv, CallInv, Active
<1>5. PinInv'
  <2>1. CASE phase = "install"
    <3>1. pin' = [pin EXCEPT ![lh[tail]] = @ - 1]
      BY <2>1 DEF Unpin
    <3> QED BY <1>0, <1>b, <1>d, <2>1, <3>1 DEF TypeOK, PinInv, PinnedWhileLogged
  <2>2. CASE phase = "rinstall"
    BY <1>e, <2>2 DEF PinInv, PinnedWhileLogged, Unpin
  <2> QED BY <2>1, <2>2
<1>6. CopyInv'
  <2>1. \A i \in 1..tail : home'[lh[i]] = dlog'[i]
    BY <1>0 DEF TypeOK, CopyInv, HeaderInv, Distinct
  <2>2. CASE tail < Len(lh)
    <3>1. /\ tail' = tail + 1 /\ phase' = phase /\ lh' = lh /\ dlog' = dlog
          /\ phase \in {"install", "rinstall"}
      BY <1>a, <2>2
    <3>2. phase = "install" => \A i \in tail'..Len(lh) : dlog[i] = cache'[lh[i]]
      BY <1>0, <1>b, <3>1 DEF CopyInv
    <3>3. \A i \in 1..(tail' - 1) : home'[lh[i]] = dlog'[i]
      BY <1>0, <2>1, <3>1
    <3> QED BY <3>1, <3>2, <3>3 DEF CopyInv
  <2>3. CASE ~(tail < Len(lh))
    BY <1>0, <1>a, <1>c, <2>1, <2>3 DEF CopyInv
  <2> QED BY <2>2, <2>3
<1>7. CoherenceInv'
  <2> SUFFICES ASSUME NEW c \in Block,
                      c \notin torn', c \notin AwaitingInstall', Unlocked(c)'
               PROVE  cache'[c] \in {NoValue, home'[c]}
    BY DEF CoherenceInv
  <2>1. CASE c = lh[tail]
    BY <1>0, <2>1 DEF TypeOK
  <2>2. CASE c # lh[tail]
    <3>1. c \notin torn /\ c \notin AwaitingInstall /\ Unlocked(c)
      BY <1>d, <1>e, <2>2 DEF Unlocked
    <3> QED BY <1>0, <2>2, <3>1 DEF TypeOK, CoherenceInv
  <2> QED BY <2>1, <2>2, Zenon
<1> QED BY <1>1, <1>2, <1>3, <1>4, <1>5, <1>6, <1>7

(* Erasing the log preserves it: every block is home. *)
LEMMA ClearInv == ASSUME IInv, Clear PROVE IInv'
<1> USE LogAssumption DEF IInv, disk, calls, Clear
<1>1. TypeOK'
  BY DEF TypeOK, HeaderInv, CallInv, PinInv, PinnedWhileLogged, AwaitingInstall, Slot
<1>2. HeaderInv'
  BY DEF TypeOK, HeaderInv, CallInv, Distinct, Logged, Booting, Active
<1>3. CallInv'
  BY DEF TypeOK, HeaderInv, CallInv, Active, Booting
<1>4. BufInv'
  BY DEF TypeOK, BufInv, CallInv, Active, Locked
<1>5. PinInv'
  BY DEF TypeOK, HeaderInv, CallInv, PinInv, BufInv, PinnedWhileLogged, AwaitingInstall, Uncommitted, Logged, Active
<1>6. CopyInv'
  BY DEF TypeOK, HeaderInv, CallInv, CopyInv, PinInv, Active, AwaitingInstall
<1>7. CoherenceInv'
  BY DEF TypeOK, HeaderInv, CallInv, BufInv, CoherenceInv, Unlocked, AwaitingInstall, Uncommitted, Logged, Active, Locked
<1> QED BY <1>1, <1>2, <1>3, <1>4, <1>5, <1>6, <1>7

(* read_head at boot preserves it. *)
LEMMA ReadHeadInv == ASSUME IInv, ReadHead PROVE IInv'
<1> USE LogAssumption DEF IInv, disk, calls, ReadHead
<1>1. TypeOK'
  BY DEF TypeOK, HeaderInv, CallInv, PinInv, PinnedWhileLogged, AwaitingInstall, Slot
<1>2. HeaderInv'
  BY DEF TypeOK, HeaderInv, CallInv, Distinct, Logged, Booting, Active
<1>3. CallInv'
  BY DEF TypeOK, HeaderInv, CallInv, Active, Booting
<1>4. BufInv'
  BY DEF TypeOK, BufInv, CallInv, Active, Locked
<1>5. PinInv'
  BY DEF TypeOK, HeaderInv, CallInv, PinInv, BufInv, PinnedWhileLogged, AwaitingInstall, Uncommitted, Logged, Active
<1>6. CopyInv'
  BY DEF TypeOK, HeaderInv, CallInv, CopyInv, PinInv, Active, AwaitingInstall
<1>7. CoherenceInv'
  BY DEF TypeOK, HeaderInv, CallInv, BufInv, CoherenceInv, Unlocked, AwaitingInstall, Uncommitted, Logged, Active, Locked
<1> QED BY <1>1, <1>2, <1>3, <1>4, <1>5, <1>6, <1>7

(* A read outside any call preserves it. *)
LEMMA LoadInv == ASSUME IInv, NEW b \in Block, Load(b) PROVE IInv'
<1> USE LogAssumption DEF IInv, disk, calls, Load
<1>1. TypeOK'
  BY DEF TypeOK, HeaderInv, CallInv, PinInv, PinnedWhileLogged, AwaitingInstall, Slot
<1>2. HeaderInv'
  BY DEF TypeOK, HeaderInv, CallInv, Distinct, Logged, Booting, Active
<1>3. CallInv'
  BY DEF TypeOK, HeaderInv, CallInv, Active, Booting
<1>4. BufInv'
  BY DEF TypeOK, BufInv, CallInv, Active, Locked
<1>5. PinInv'
  BY DEF TypeOK, HeaderInv, CallInv, PinInv, BufInv, PinnedWhileLogged, AwaitingInstall, Uncommitted, Logged, Active
<1>6. CopyInv'
  <2>1. b \notin AwaitingInstall
    BY DEF TypeOK, PinInv
  <2> QED BY <2>1 DEF TypeOK, HeaderInv, CopyInv, AwaitingInstall, Uncommitted, Logged
<1>7. CoherenceInv'
  BY DEF TypeOK, HeaderInv, CallInv, BufInv, CoherenceInv, Unlocked, AwaitingInstall, Uncommitted, Logged, Active, Locked
<1> QED BY <1>1, <1>2, <1>3, <1>4, <1>5, <1>6, <1>7

(* Recycling a buffer preserves it: an unpinned buffer can be lost. *)
LEMMA RecycleInv == ASSUME IInv, NEW b \in Block, Recycle(b) PROVE IInv'
<1> USE LogAssumption DEF IInv, disk, calls, Recycle
<1>1. TypeOK'
  BY DEF TypeOK, HeaderInv, CallInv, PinInv, PinnedWhileLogged, AwaitingInstall, Slot
<1>2. HeaderInv'
  BY DEF TypeOK, HeaderInv, CallInv, Distinct, Logged, Booting, Active
<1>3. CallInv'
  BY DEF TypeOK, HeaderInv, CallInv, Active, Booting
<1>4. BufInv'
  BY DEF TypeOK, BufInv, CallInv, Active, Locked
<1>5. PinInv'
  <2>1. AwaitingInstall' = AwaitingInstall
    BY DEF AwaitingInstall, Uncommitted, Logged
  <2>2. b \notin AwaitingInstall
    BY DEF PinInv, PinnedWhileLogged
  <2> QED BY <2>1, <2>2 DEF TypeOK, PinInv, PinnedWhileLogged
<1>6. CopyInv'
  <2>1. b \notin AwaitingInstall
    BY DEF TypeOK, PinInv, PinnedWhileLogged
  <2> QED BY <2>1 DEF TypeOK, HeaderInv, CopyInv, AwaitingInstall, Uncommitted, Logged
<1>7. CoherenceInv'
  BY DEF TypeOK, HeaderInv, CallInv, BufInv, CoherenceInv, Unlocked, AwaitingInstall, Uncommitted, Logged, Active, Locked
<1> QED BY <1>1, <1>2, <1>3, <1>4, <1>5, <1>6, <1>7

(* A crash at any moment preserves it. *)
LEMMA CrashInv == ASSUME IInv, Crash PROVE IInv'
<1> USE LogAssumption DEF IInv, disk, calls, Crash
<1>1. TypeOK'
  <2>1. dirty' \in [Op -> BOOLEAN] /\ pc' \in [Op -> {"idle", "begin", "asleep", "op", "commit", "panic"}]
    BY DEF TypeOK
  <2>2. wrote' \in [Op -> SUBSET Block] /\ buf' \in [Op -> Block \cup {NoBlock}]
    BY DEF TypeOK
  <2>3. cache' \in [Block -> Value \cup {NoValue}] /\ pin' \in [Block -> Nat] /\ lh' \in Seq(Block)
    BY DEF TypeOK
  <2>4. /\ home' \in [Block -> Value] /\ dlog' \in [Slot -> Value] /\ dhead' \in Seq(Block)
        /\ outstanding' \in Nat /\ torn' \in SUBSET Block
        /\ phase' = "boot" /\ tail' \in Nat \ {0}
    BY DEF TypeOK
  <2>5. committing' \in BOOLEAN
    BY Zenon
  <2> HIDE DEF Crash
  <2> QED BY <2>1, <2>2, <2>3, <2>4, <2>5 DEF TypeOK
<1>2. HeaderInv'
  BY DEF TypeOK, HeaderInv, CallInv, Distinct, Logged, Booting, Active
<1>3. CallInv'
  <2>1. Active' = {}
    BY DEF Active
  <2> QED BY <2>1, FS_EmptySet DEF CallInv, Booting
<1>4. BufInv'
  BY DEF TypeOK, BufInv, CallInv, Active, Locked
<1>5. PinInv'
  BY DEF TypeOK, HeaderInv, CallInv, PinInv, BufInv, PinnedWhileLogged, AwaitingInstall, Uncommitted, Logged, Active
<1>6. CopyInv'
  BY DEF TypeOK, HeaderInv, CallInv, CopyInv, PinInv, Active, AwaitingInstall
<1>7. CoherenceInv'
  BY DEF TypeOK, HeaderInv, CallInv, BufInv, CoherenceInv, Unlocked, AwaitingInstall, Uncommitted, Logged, Active, Locked
<1> QED BY <1>1, <1>2, <1>3, <1>4, <1>5, <1>6, <1>7

(* The first boot satisfies the invariant. *)
LEMMA InitInv == ASSUME Init PROVE IInv
<1> USE LogAssumption DEF Init
<1>1. Active = {}
  BY DEF Active
<1>2. dirty \in [Op -> BOOLEAN] /\ committing \in BOOLEAN
  BY Zenon
<1>3. TypeOK
  <2>1. wrote \in [Op -> SUBSET Block] /\ buf \in [Op -> Block \cup {NoBlock}]
    OBVIOUS
  <2>2. cache \in [Block -> Value \cup {NoValue}] /\ pin \in [Block -> Nat]
    OBVIOUS
  <2>3. pc \in [Op -> {"idle", "begin", "asleep", "op", "commit", "panic"}]
    OBVIOUS
  <2>4. /\ home \in [Block -> Value] /\ dlog \in [Slot -> Value]
        /\ dhead \in Seq(Block) /\ lh \in Seq(Block)
        /\ outstanding \in Nat /\ torn \in SUBSET Block /\ phase = "boot" /\ tail \in Nat \ {0}
    OBVIOUS
  <2> HIDE DEF Init
  <2> QED BY <1>2, <2>1, <2>2, <2>3, <2>4 DEF TypeOK
<1>4. HeaderInv /\ CopyInv
  BY DEF HeaderInv, Distinct, CopyInv
<1>5. CallInv
  BY <1>1, FS_EmptySet DEF CallInv, Booting
<1>6. BufInv /\ PinInv /\ CoherenceInv
  BY DEF BufInv, PinInv, PinnedWhileLogged, AwaitingInstall, Uncommitted, CoherenceInv
<1> QED BY <1>3, <1>4, <1>5, <1>6 DEF IInv

(* Every step preserves the invariant. *)
LEMMA NextInv == IInv /\ [Next]_vars => IInv'
<1> SUFFICES ASSUME IInv, [Next]_vars PROVE IInv'
  OBVIOUS
<1>1. CASE \E p \in Op : Call(p)
  BY <1>1, BeginOpInv, LogWriteInv, BrelseInv, EndOpInv DEF Call
<1>2. CASE \E p \in Op, b \in Block : Bread(p, b)
  BY <1>2, BreadInv
<1>3. CASE \E p \in Op, v \in Value : Modify(p, v)
  BY <1>3, ModifyInv
<1>4. CASE Commit
  BY <1>4, WriteLogInv, WriteHeadInv, FinishInv DEF Commit
<1>5. CASE InstallTrans \/ Clear \/ ReadHead \/ Crash
  BY <1>5, InstallTransInv, ClearInv, ReadHeadInv, CrashInv
<1>6. CASE \E b \in Block : Load(b) \/ Recycle(b)
  BY <1>6, LoadInv, RecycleInv
<1>7. CASE UNCHANGED vars
  <2> USE <1>7 DEF vars, disk, calls
  <2>1. TypeOK'
    BY DEF IInv, TypeOK
  <2>2. HeaderInv'
    BY DEF IInv, HeaderInv, Distinct
  <2>3. CallInv'
    BY DEF IInv, CallInv, Active, Booting
  <2>4. BufInv'
    BY DEF IInv, BufInv, Active
  <2>5. AwaitingInstall' = AwaitingInstall
    BY DEF AwaitingInstall, Uncommitted, Logged
  <2>6. PinInv'
    BY <2>5 DEF IInv, PinInv, PinnedWhileLogged
  <2>7. CopyInv'
    BY SMTT(30) DEF IInv, CopyInv
  <2>8. CoherenceInv'
    BY <2>5 DEF IInv, CoherenceInv, Unlocked
  <2> QED BY <2>1, <2>2, <2>3, <2>4, <2>6, <2>7, <2>8 DEF IInv
<1> QED BY <1>1, <1>2, <1>3, <1>4, <1>5, <1>6, <1>7 DEF Next

(* The inductive invariant holds throughout, and with it the types. *)
THEOREM Invariance == Spec => []IInv
BY InitInv, NextInv, PTL DEF Spec

(* Each variable keeps its type; in particular install_trans never unpins  *)
(* a buffer that is not pinned.                                            *)
THEOREM TypeCorrect == Spec => []TypeOK
<1>1. IInv => TypeOK
  BY DEF IInv
<1> QED BY <1>1, Invariance, PTL

(* The buffer of a block is pinned, once, exactly from its first log_write *)
(* in a group until install_trans has written it home.                     *)
THEOREM PinsBalance == Spec => []PinnedWhileLogged
<1>1. IInv => PinnedWhileLogged
  BY DEF IInv, PinInv
<1> QED BY <1>1, Invariance, PTL
=============================================================================
