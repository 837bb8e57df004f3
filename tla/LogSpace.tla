------------------------------ MODULE LogSpace ------------------------------
(***************************************************************************)
(* begin_op and log_write of Log.tla: nobody oversleeps, and the log does  *)
(* not run out of space, for any number of processes and any sizes.        *)
(***************************************************************************)
EXTENDS LogProofs

(* begin_op: no process sleeps without a cause that somebody will remove.  *)

(* A log without room has none with more blocks or more calls either. *)
LEMMA RoomShrinks ==
  ASSUME NEW n \in Nat, NEW m \in Nat, NEW k \in Nat, NEW l \in Nat, n <= m, k <= l,
         n + (k + 1) * MAXOPBLOCKS > LOGSIZE
  PROVE  m + (l + 1) * MAXOPBLOCKS > LOGSIZE
<1>1. (l + 1) * MAXOPBLOCKS = (k + 1) * MAXOPBLOCKS + (l - k) * MAXOPBLOCKS
  BY LogAssumption
<1>2. (l - k) * MAXOPBLOCKS >= 0
  BY LogAssumption
<1>3. (k + 1) * MAXOPBLOCKS \in Nat /\ (l + 1) * MAXOPBLOCKS \in Nat /\ (l - k) * MAXOPBLOCKS \in Int
  BY LogAssumption, SMTT(30)
<1> QED BY <1>1, <1>2, <1>3, LogAssumption

(* No step leaves a process asleep in begin_op without a cause. *)
LEMMA NextSleepers == IInv /\ SleepersHaveCause /\ [Next]_vars => SleepersHaveCause'
<1> SUFFICES ASSUME IInv, SleepersHaveCause, [Next]_vars,
                    NEW q \in Op, pc'[q] = "asleep"
             PROVE  committing' \/ ~Room'
  BY DEF SleepersHaveCause
<1> USE LogAssumption DEF IInv
<1>0. Len(lh) \in Nat /\ outstanding \in Nat
  BY DEF TypeOK
<1>1. ASSUME NEW p \in Op, BeginOp(p) PROVE committing' \/ ~Room'
  <2>1. lh' = lh /\ committing' = committing /\ outstanding' \in {outstanding, outstanding + 1}
    BY <1>1 DEF BeginOp
  <2>2. CASE committing
    BY <2>1, <2>2
  <2>3. CASE ~committing /\ ~Room
    BY <1>0, <2>1, <2>3, RoomShrinks DEF Room
  <2>4. CASE ~committing /\ Room
    <3>1. pc[q] = "asleep"
      BY <1>1, <2>4 DEF BeginOp, TypeOK
    <3> QED BY <2>4, <3>1 DEF SleepersHaveCause
  <2> QED BY <2>2, <2>3, <2>4
<1>2. ASSUME NEW p \in Op, EndOp(p) PROVE committing' \/ ~Room'
  <2>1. ~committing
    BY <1>2 DEF EndOp, TypeOK, CallInv, Active
  <2>2. CASE LastOut
    BY <1>2, <2>1, <2>2 DEF EndOp
  <2>3. CASE ~LastOut
    BY <1>2, <2>1, <2>3, ZenonT(30) DEF EndOp, Wakeup, TypeOK
  <2> QED BY <2>2, <2>3
<1>3. ASSUME NEW p \in Op, LogWrite(p) PROVE committing' \/ ~Room'
  <2>1. pc[q] = "asleep" /\ committing' = committing /\ outstanding' = outstanding
    BY <1>3 DEF LogWrite, TypeOK
  <2>2. Len(lh') \in Nat /\ Len(lh) <= Len(lh')
    BY <1>3 DEF LogWrite, TypeOK, BufInv
  <2> QED BY <1>0, <2>1, <2>2, RoomShrinks DEF SleepersHaveCause, Room
<1>4. ASSUME NEW p \in Op, Finish(p) PROVE committing' \/ ~Room'
  BY <1>4 DEF Finish, Wakeup, TypeOK
<1>5. CASE Clear \/ ReadHead \/ Crash
  <2>1. pc[q] = "asleep" /\ committing' = committing
    BY <1>5 DEF Clear, ReadHead, Crash, calls, TypeOK
  <2>2. committing
    BY <1>5, <2>1 DEF Clear, ReadHead, Crash, CallInv, Booting, TypeOK
  <2> QED BY <2>1, <2>2
<1>6. ASSUME UNCHANGED <<pc, committing, lh, outstanding>> PROVE committing' \/ ~Room'
  BY <1>6 DEF SleepersHaveCause, Room
<1> QED
  BY <1>1, <1>2, <1>3, <1>4, <1>5, <1>6 DEF Next, Call, Commit, vars, calls, disk, Bread, Modify,
     Brelse, WriteLog, WriteHead, InstallTrans, Load, Recycle

(* A process that sleeps in begin_op waits for a commit that is on, or for *)
(* space that is still reserved: no wakeup(&log) is missing.               *)
THEOREM NoOversleeping == Spec => []SleepersHaveCause
<1>1. Init => SleepersHaveCause
  BY DEF Init, SleepersHaveCause
<1> QED BY <1>1, NextSleepers, Invariance, PTL DEF Spec
-----------------------------------------------------------------------------
(* The space of the log.  begin_op reserves MAXOPBLOCKS blocks for a call; *)
(* a call turns its reservation into header entries one block at a time    *)
(* and gives back the rest when it ends.  The entries a running call has   *)
(* made are counted by the pairs <<p, i>> of Used.                         *)

Capacity == IF LOGSIZE <= NLOG - 1 THEN LOGSIZE ELSE NLOG - 1

(* The calls leave enough of their reservations unused to make up for the  *)
(* log on disk being smaller than LOGSIZE data blocks.                     *)
Slack == LOGSIZE + OpBlocks < MAXOPBLOCKS + Capacity

Used == {u \in Active \X (1..OpBlocks) : u[2] <= Cardinality(wrote[u[1]])}

SpaceInv ==
  /\ NoPanic
  /\ \A p \in Op : IsFiniteSet(wrote[p])
  /\ \A p \in Active : Cardinality(wrote[p]) <= OpBlocks /\ wrote[p] \subseteq Logged(lh)
  /\ \A p \in Active : dirty[p] => buf[p] \in wrote[p] \/ Cardinality(wrote[p]) < OpBlocks
  /\ phase = "run" => Len(lh) + outstanding * MAXOPBLOCKS <= LOGSIZE + Cardinality(Used)

(* The reservations in use are finitely many. *)
LEMMA UsedFinite == IsFiniteSet(Used) /\ Cardinality(Used) \in Nat
<1>1. IsFiniteSet(1..OpBlocks)
  BY LogAssumption, FS_Interval
<1>2. IsFiniteSet(Active \X (1..OpBlocks))
  BY <1>1, ActiveFinite, FS_Product, Zenon
<1>3. Used \in SUBSET (Active \X (1..OpBlocks))
  BY DEF Used
<1> QED BY <1>2, <1>3, FS_Subset, FS_CardinalityType

(* A call uses at most OpBlocks of what it has reserved. *)
LEMMA UsedBound ==
  ASSUME IInv PROVE Cardinality(Used) <= outstanding * OpBlocks
<1>1. IsFiniteSet(1..OpBlocks) /\ Cardinality(1..OpBlocks) = OpBlocks
  BY LogAssumption, FS_Interval
<1>2. /\ IsFiniteSet(Active \X (1..OpBlocks))
      /\ Cardinality(Active \X (1..OpBlocks)) = outstanding * OpBlocks
  BY <1>1, ActiveFinite, FS_Product, ZenonT(30) DEF IInv, CallInv
<1>3. Used \in SUBSET (Active \X (1..OpBlocks))
  BY DEF Used
<1> QED BY <1>2, <1>3, FS_Subset

(* What log_write tests before it appends. *)
LEMMA NotTooBig ==
  ASSUME Slack, IInv, SpaceInv, phase = "run", Active # {}
  PROVE  ~TooBig /\ ~(outstanding < 1)
<1> USE LogAssumption
<1> DEFINE rest == MAXOPBLOCKS - OpBlocks
<1>1. outstanding \in Nat /\ outstanding >= 1 /\ Len(lh) \in Nat
  BY ActiveFinite, FS_EmptySet DEF IInv, TypeOK, CallInv
<1>2. rest \in Int /\ rest > LOGSIZE - Capacity /\ Capacity \in Int /\ rest >= 0
  BY DEF Slack, Capacity
<1>3. outstanding * MAXOPBLOCKS = outstanding * OpBlocks + outstanding * rest
  BY <1>1
<1>4. outstanding * rest >= rest
  BY <1>1, <1>2
<1>5. Len(lh) + outstanding * MAXOPBLOCKS <= LOGSIZE + outstanding * OpBlocks
  <2>1. Cardinality(Used) \in Nat /\ Cardinality(Used) <= outstanding * OpBlocks
    BY UsedFinite, UsedBound
  <2>2. Len(lh) + outstanding * MAXOPBLOCKS <= LOGSIZE + Cardinality(Used)
    BY DEF SpaceInv
  <2>3. outstanding * MAXOPBLOCKS \in Nat /\ outstanding * OpBlocks \in Nat
    BY <1>1
  <2> QED BY <1>1, <2>1, <2>2, <2>3
<1>6. Len(lh) + outstanding * rest <= LOGSIZE
  <2>1. outstanding * OpBlocks \in Nat /\ outstanding * rest \in Int
    BY <1>1, <1>2
  <2> HIDE DEF rest
  <2> QED BY <1>1, <1>3, <1>5, <2>1
<1>7. Len(lh) < Capacity
  <2>1. outstanding * rest \in Int
    BY <1>1, <1>2
  <2> HIDE DEF rest, Capacity
  <2> QED BY <1>1, <1>2, <1>4, <1>6, <2>1
<1> QED BY <1>1, <1>7 DEF TooBig, Capacity

(* begin_op keeps the count: it admits a call whose reservation fits. *)
LEMMA BeginOpSpace ==
  ASSUME IInv, IInv', SpaceInv, NEW p \in Op, BeginOp(p)
  PROVE  SpaceInv'
<1> USE LogAssumption DEF IInv
<1>1. CASE ~committing /\ Room
  <2>1. /\ outstanding' = outstanding + 1 /\ UNCHANGED <<lh, buf, dirty>>
        /\ pc' = [pc EXCEPT ![p] = "op"] /\ wrote' = [wrote EXCEPT ![p] = {}]
    BY <1>1 DEF BeginOp
  <2>2. Active' = Active \cup {p} /\ p \notin Active
    BY <2>1 DEF BeginOp, Active, TypeOK
  <2>3. ~dirty[p]
    BY <2>2 DEF BufInv
  <2>4. \A q \in Op : IsFiniteSet(wrote'[q])
    BY <2>1, FS_EmptySet DEF SpaceInv, TypeOK
  <2>5. NoPanic'
    BY <2>1 DEF SpaceInv, NoPanic, TypeOK
  <2>6. \A q \in Active' : Cardinality(wrote'[q]) <= OpBlocks /\ wrote'[q] \subseteq Logged(lh')
    BY <2>1, <2>2, FS_EmptySet DEF SpaceInv, TypeOK, Active
  <2>7. \A q \in Active' : dirty'[q] => buf'[q] \in wrote'[q] \/ Cardinality(wrote'[q]) < OpBlocks
    BY <2>1, <2>2, <2>3 DEF SpaceInv, TypeOK, Active
  <2>8. Len(lh') + outstanding' * MAXOPBLOCKS <= LOGSIZE + Cardinality(Used)'
    <3>1. IsFiniteSet(Used)' /\ Cardinality(Used)' \in Nat
      <4>1. IsFiniteSet(1..OpBlocks)
        BY FS_Interval
      <4>2. IsFiniteSet(Active' \X (1..OpBlocks))
        BY <2>2, <4>1, ActiveFinite, FS_AddElement, FS_Product, Zenon
      <4>3. Used' \in SUBSET (Active' \X (1..OpBlocks))
        BY DEF Used
      <4> QED BY <4>2, <4>3, FS_Subset, FS_CardinalityType
    <3>2. (outstanding + 1) * MAXOPBLOCKS \in Nat /\ Len(lh) \in Nat
      BY DEF TypeOK
    <3> QED BY <1>1, <2>1, <3>1, <3>2 DEF Room
  <2> QED BY <2>4, <2>5, <2>6, <2>7, <2>8 DEF SpaceInv
<1>2. CASE ~(~committing /\ Room)
  <2>1. /\ UNCHANGED <<outstanding, lh, buf, dirty, wrote, phase>>
        /\ pc' = [pc EXCEPT ![p] = "asleep"]
    BY <1>2 DEF BeginOp
  <2>2. Active' = Active
    BY <2>1 DEF BeginOp, Active, TypeOK
  <2>3. Used' = Used
    BY <2>1, <2>2 DEF Used
  <2>4. NoPanic'
    BY <2>1 DEF SpaceInv, NoPanic, TypeOK
  <2> QED BY <2>1, <2>2, <2>3, <2>4 DEF SpaceInv
<1> QED BY <1>1, <1>2

(* log_write finds room, and uses up one block of the call. *)
LEMMA LogWriteSpace ==
  ASSUME Slack, IInv, SpaceInv, NEW p \in Op, LogWrite(p)
  PROVE  SpaceInv'
<1> USE LogAssumption DEF IInv
<1>0. phase = "run" /\ p \in Active /\ buf[p] \in Block /\ dirty[p]
  BY DEF LogWrite, TypeOK, CallInv, BufInv, Active
<1>1. ~(TooBig \/ outstanding < 1)
  BY <1>0, NotTooBig
<1>2. /\ dirty' = [dirty EXCEPT ![p] = FALSE]
      /\ wrote' = [wrote EXCEPT ![p] = @ \cup {buf[p]}]
      /\ UNCHANGED <<pc, buf, outstanding, phase>>
  BY <1>1 DEF LogWrite
<1>3. Active' = Active
  BY <1>2 DEF Active
<1> DEFINE k == Cardinality(wrote[p])
<1>4. /\ IsFiniteSet(wrote'[p]) /\ k \in Nat
      /\ Cardinality(wrote'[p]) = IF buf[p] \in wrote[p] THEN k ELSE k + 1
  <2>1. wrote'[p] = wrote[p] \cup {buf[p]}
    BY <1>2 DEF TypeOK
  <2>2. IsFiniteSet(wrote[p])
    BY DEF SpaceInv
  <2>3. k \in Nat
    BY <2>2, FS_CardinalityType
  <2>4. /\ IsFiniteSet(wrote[p] \cup {buf[p]})
        /\ Cardinality(wrote[p] \cup {buf[p]})
             = IF buf[p] \in wrote[p] THEN Cardinality(wrote[p]) ELSE Cardinality(wrote[p]) + 1
    BY <2>2, FS_AddElement, Zenon
  <2> QED BY <2>1, <2>3, <2>4, Zenon
<1>5. Logged(lh) \subseteq Logged(lh') /\ buf[p] \in Logged(lh')
  <2>1. CASE buf[p] \in Logged(lh)
    BY <1>1, <2>1 DEF LogWrite
  <2>2. CASE buf[p] \notin Logged(lh)
    <3>1. lh' = Append(lh, buf[p])
      BY <1>1, <2>2 DEF LogWrite
    <3>2. Logged(Append(lh, buf[p])) = Logged(lh) \cup {buf[p]}
      BY <1>0, <2>2, AppendLogged DEF TypeOK, HeaderInv
    <3> QED BY <3>1, <3>2
  <2> QED BY <2>1, <2>2
<1>6. \A q \in Op : IsFiniteSet(wrote'[q])
  BY <1>2, <1>4 DEF SpaceInv, TypeOK
<1>7. \A q \in Active' : Cardinality(wrote'[q]) <= OpBlocks /\ wrote'[q] \subseteq Logged(lh')
  <2> SUFFICES ASSUME NEW q \in Active
               PROVE  Cardinality(wrote'[q]) <= OpBlocks /\ wrote'[q] \subseteq Logged(lh')
    BY <1>3
  <2>1. CASE q = p
    BY <1>0, <1>2, <1>4, <1>5, <2>1 DEF SpaceInv, TypeOK
  <2>2. CASE q # p
    BY <1>2, <1>5, <2>2 DEF SpaceInv, TypeOK, Active
  <2> QED BY <2>1, <2>2
<1>8. \A q \in Active' : dirty'[q] => buf'[q] \in wrote'[q] \/ Cardinality(wrote'[q]) < OpBlocks
  BY <1>2, <1>3 DEF SpaceInv, TypeOK, Active
<1>9. Len(lh') + outstanding' * MAXOPBLOCKS <= LOGSIZE + Cardinality(Used')
  <2>0. outstanding * MAXOPBLOCKS \in Nat /\ Len(lh) \in Nat
    BY DEF TypeOK
  <2>1. CASE buf[p] \in wrote[p]
    <3>1. wrote' = wrote /\ lh' = lh
      BY <1>0, <1>1, <1>2, <2>1 DEF LogWrite, SpaceInv, TypeOK
    <3>2. Used' = Used
      BY <1>3, <3>1 DEF Used
    <3> QED BY <1>0, <1>2, <3>1, <3>2 DEF SpaceInv
  <2>2. CASE buf[p] \notin wrote[p]
    <3>1. k + 1 \in 1..OpBlocks
      BY <1>0, <1>4, <2>2 DEF SpaceInv
    <3>2. <<p, k + 1>> \notin Used
      BY <1>4 DEF Used
    <3>3. Used' = Used \cup {<<p, k + 1>>}
      <4>1. \A q \in Active : q # p => wrote'[q] = wrote[q]
        BY <1>2 DEF TypeOK, Active
      <4>2. \A i \in 1..OpBlocks : i <= Cardinality(wrote'[p]) <=> i <= k \/ i = k + 1
        BY <1>4, <2>2
      <4> QED BY <1>0, <1>3, <3>1, <4>1, <4>2 DEF Used
    <3>4. Cardinality(Used') = Cardinality(Used) + 1 /\ Cardinality(Used) \in Nat
      BY <3>2, <3>3, UsedFinite, FS_AddElement, Zenon
    <3>5. Len(lh') <= Len(lh) + 1 /\ Len(lh') \in Nat
      BY <1>0, <1>1 DEF LogWrite, TypeOK
    <3> QED BY <1>0, <1>2, <2>0, <3>4, <3>5 DEF SpaceInv
  <2> QED BY <2>1, <2>2
<1> QED BY <1>2, <1>6, <1>7, <1>8, <1>9, Zenon DEF SpaceInv, NoPanic

(* end_op keeps the count: a call that is over writes no more. *)
LEMMA EndOpSpace ==
  ASSUME Slack, IInv, SpaceInv, NEW p \in Op, EndOp(p)
  PROVE  SpaceInv'
<1> USE LogAssumption DEF IInv
<1>0. phase = "run" /\ ~committing /\ p \in Active
  BY DEF EndOp, TypeOK, CallInv, Active
<1>1. Active' = Active \ {p}
  BY <1>0 DEF EndOp, Wakeup, TypeOK, Active
<1>2. NoPanic'
  BY <1>0, Zenon DEF EndOp, Wakeup, TypeOK, SpaceInv, NoPanic
<1>3. UNCHANGED <<lh, buf, dirty, wrote>> /\ outstanding' = outstanding - 1
  BY DEF EndOp
<1>4. Used' = Used \ ({p} \X (1..OpBlocks))
  BY <1>1, <1>3 DEF Used
<1>5. Cardinality(Used) <= Cardinality(Used') + OpBlocks /\ Cardinality(Used') \in Nat
  <2>1. IsFiniteSet({p} \X (1..OpBlocks)) /\ Cardinality({p} \X (1..OpBlocks)) = OpBlocks
    <3>1. IsFiniteSet(1..OpBlocks) /\ Cardinality(1..OpBlocks) = OpBlocks
      BY FS_Interval
    <3>2. IsFiniteSet({p}) /\ Cardinality({p}) = 1
      BY FS_Singleton, Zenon
    <3>3. /\ IsFiniteSet({p} \X (1..OpBlocks))
          /\ Cardinality({p} \X (1..OpBlocks)) = Cardinality({p}) * Cardinality(1..OpBlocks)
      BY <3>1, <3>2, FS_Product, Zenon
    <3> QED BY <3>1, <3>2, <3>3
  <2> DEFINE mine == Used \cap ({p} \X (1..OpBlocks))
  <2>2. Cardinality(mine) <= OpBlocks /\ Cardinality(mine) \in Nat
    <3>1. mine \in SUBSET ({p} \X (1..OpBlocks))
      OBVIOUS
    <3> QED BY <2>1, <3>1, FS_Subset, FS_CardinalityType
  <2>3. IsFiniteSet(Used') /\ Cardinality(Used') = Cardinality(Used) - Cardinality(mine)
    BY <1>4, UsedFinite, FS_Difference, Zenon
  <2>4. Cardinality(Used') \in Nat
    BY <2>3, FS_CardinalityType
  <2> QED BY <2>2, <2>3, <2>4, UsedFinite
<1>6. Len(lh') + outstanding' * MAXOPBLOCKS <= LOGSIZE + Cardinality(Used')
  <2>1. outstanding \in Nat /\ Len(lh) \in Nat
    BY DEF TypeOK
  <2>2. (outstanding - 1) * MAXOPBLOCKS = outstanding * MAXOPBLOCKS - MAXOPBLOCKS
    BY <2>1
  <2>3. outstanding * MAXOPBLOCKS \in Nat
    BY <2>1
  <2>4. OpBlocks <= MAXOPBLOCKS
    BY DEF Slack, Capacity
  <2> QED BY <1>0, <1>3, <1>5, <2>1, <2>2, <2>3, <2>4, UsedFinite DEF SpaceInv
<1> QED BY <1>1, <1>2, <1>3, <1>6 DEF SpaceInv

(* Steps that change neither header nor calls keep the count. *)
LEMMA QuietSpace ==
  ASSUME SpaceInv, UNCHANGED <<calls, lh, outstanding>>, phase' = "run" => phase = "run"
  PROVE  SpaceInv'
<1>1. Active' = Active /\ Used' = Used
  BY DEF calls, Active, Used
<1> QED BY <1>1 DEF SpaceInv, NoPanic, calls

(* Steps on buffers keep the count. *)
LEMMA BufferSpace ==
  ASSUME IInv, SpaceInv, NEW p \in Op,
         \/ \E b \in Block : Bread(p, b)
         \/ \E v \in Value : Modify(p, v)
         \/ Brelse(p)
  PROVE  SpaceInv'
<1> USE DEF IInv
<1>1. UNCHANGED <<pc, wrote, lh, outstanding, phase>>
  BY DEF Bread, Modify, Brelse
<1>2. Active' = Active /\ Used' = Used
  BY <1>1, SMTT(30) DEF Active, Used
<1>3. \A q \in Active : dirty'[q] => buf'[q] \in wrote[q] \/ Cardinality(wrote[q]) < OpBlocks
  <2> SUFFICES ASSUME NEW q \in Active, dirty'[q]
               PROVE  buf'[q] \in wrote[q] \/ Cardinality(wrote[q]) < OpBlocks
    OBVIOUS
  <2>1. CASE \E b \in Block : Bread(p, b)
    BY <2>1 DEF Bread, TypeOK, BufInv, SpaceInv, Active
  <2>2. CASE \E v \in Value : Modify(p, v)
    BY <2>2 DEF Modify, TypeOK, SpaceInv, Active
  <2>3. CASE Brelse(p)
    BY <2>3, SMTT(30) DEF Brelse, TypeOK, SpaceInv, Active
  <2> QED BY <2>1, <2>2, <2>3
<1> QED BY <1>1, <1>2, <1>3 DEF SpaceInv, NoPanic

(* Commit, recovery and crashes keep the count. *)
LEMMA PhaseSpace ==
  ASSUME IInv, IInv', SpaceInv,
         Clear \/ ReadHead \/ Crash \/ \E p \in Op : Finish(p)
  PROVE  SpaceInv'
<1> USE LogAssumption DEF IInv
<1>1. Active' = {}
  <2>1. CASE Clear \/ ReadHead
    BY <2>1 DEF Clear, ReadHead, calls, CallInv, Active
  <2>2. CASE Crash
    BY <2>2, SMTT(30) DEF Crash, Active
  <2>3. ASSUME NEW p \in Op, Finish(p) PROVE Active' = {}
    BY <2>3 DEF Finish, Wakeup, CallInv, Active, TypeOK
  <2> QED BY <2>1, <2>2, <2>3
<1>2. NoPanic'
  BY <1>1 DEF NoPanic, Active
<1>3. \A q \in Op : IsFiniteSet(wrote'[q])
  BY FS_EmptySet, Zenon DEF Clear, ReadHead, Crash, Finish, SpaceInv, calls
<1>4. Used' = {}
  BY <1>1 DEF Used
<1>5. phase' = "run" => lh' = << >> /\ outstanding' = 0
  <2>1. outstanding' = 0
    BY <1>1, FS_EmptySet DEF CallInv
  <2>2. phase' = "run" => lh' = << >>
    BY Zenon DEF Clear, ReadHead, Crash, Finish, HeaderInv
  <2> QED BY <2>1, <2>2
<1>6. phase' = "run" => Len(lh') + outstanding' * MAXOPBLOCKS <= LOGSIZE + Cardinality(Used')
  BY <1>4, <1>5, FS_EmptySet
<1> QED BY <1>1, <1>2, <1>3, <1>6 DEF SpaceInv

(* Every step keeps the count, and none panics. *)
LEMMA NextSpace ==
  ASSUME Slack, IInv, IInv', SpaceInv, [Next]_vars
  PROVE  SpaceInv'
<1>1. ASSUME NEW p \in Op, Call(p) PROVE SpaceInv'
  BY <1>1, BeginOpSpace, LogWriteSpace, BufferSpace, EndOpSpace DEF Call
<1>2. ASSUME NEW p \in Op, NEW b \in Block, Bread(p, b) PROVE SpaceInv'
  BY <1>2, BufferSpace
<1>3. ASSUME NEW p \in Op, NEW v \in Value, Modify(p, v) PROVE SpaceInv'
  BY <1>3, BufferSpace
<1>4. CASE WriteLog \/ WriteHead \/ InstallTrans
  <2>1. UNCHANGED <<calls, lh, outstanding>> /\ phase' # "run"
    BY <1>4 DEF WriteLog, WriteHead, InstallTrans, Advance
  <2> QED BY <2>1, QuietSpace
<1>5. CASE Clear \/ ReadHead \/ Crash \/ \E p \in Op : Finish(p)
  BY <1>5, PhaseSpace
<1>6. ASSUME NEW b \in Block, Load(b) \/ Recycle(b) PROVE SpaceInv'
  <2>1. UNCHANGED <<calls, lh, outstanding, phase>>
    BY <1>6, Zenon DEF Load, Recycle
  <2> QED BY <2>1, QuietSpace
<1>7. CASE UNCHANGED vars
  BY <1>7, QuietSpace DEF vars
<1> QED BY <1>1, <1>2, <1>3, <1>4, <1>5, <1>6, <1>7 DEF Next, Commit

(* As long as the calls leave enough of their reservation unused to make   *)
(* up for the log being smaller than LOGSIZE + 1 blocks, log_write never   *)
(* panics for want of space, and end_op never while committing.            *)
THEOREM LogHasRoom ==
  ASSUME Slack
  PROVE  Spec => []NoPanic
<1>1. Init => SpaceInv
  BY LogAssumption, FS_EmptySet DEF Init, SpaceInv, NoPanic, Active
<1>2. IInv /\ IInv' /\ SpaceInv /\ [Next]_vars => SpaceInv'
  BY NextSpace
<1>3. SpaceInv => NoPanic
  BY DEF SpaceInv
<1> QED BY <1>1, <1>2, <1>3, Invariance, PTL DEF Spec
=============================================================================
