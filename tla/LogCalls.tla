----------------------------- MODULE LogCalls -------------------------------
(***************************************************************************)
(* The inductive invariant of Log.tla, and that the calls of a file-system *)
(* operation (begin_op, bread, log_write, brelse, end_op) preserve it, for *)
(* any number of processes and blocks and any sizes.                       *)
(***************************************************************************)
EXTENDS Log, FiniteSetTheorems, TLAPS

Distinct(h) == \A i, j \in 1..Len(h) : h[i] = h[j] => i = j

(* The two headers: no block twice, never longer than the log on disk, and *)
(* the one on disk is empty until the commit point, then equal to log.lh.  *)
HeaderInv ==
  /\ Distinct(lh) /\ Len(lh) < NLOG
  /\ Distinct(dhead) /\ Len(dhead) < NLOG
  /\ phase \in {"run", "write_log", "write_head", "finish"} => dhead = << >>
  /\ phase \in {"rinstall", "rclear", "install", "clear"} => dhead = lh
  /\ phase \in {"boot", "finish"} => lh = << >>
  /\ phase \in {"write_log", "rinstall", "install"} => tail \in 1..Len(lh)
  /\ phase = "write_head" => tail = 1 /\ Len(lh) > 0

(* Commit and recovery have the log for themselves. *)
CallInv ==
  /\ outstanding = Cardinality(Active)
  /\ phase # "run" => Active = {}
  /\ committing <=> phase \in {"write_log", "write_head", "install", "clear", "finish"}
  /\ \A p, q \in Op : pc[p] = "commit" => committing /\ (pc[q] = "commit" => p = q)
  /\ Booting => \A p \in Op : pc[p] = "idle"

(* Who holds which buffer. *)
BufInv ==
  /\ \A p \in Op : buf[p] # NoBlock => p \in Active /\ cache[buf[p]] # NoValue
  /\ \A p \in Op : dirty[p] => buf[p] # NoBlock
  /\ \A p, q \in Op : buf[p] = buf[q] /\ buf[p] # NoBlock => p = q

(* The buffers that must survive until they are installed are pinned. *)
PinInv ==
  /\ PinnedWhileLogged
  /\ \A b \in AwaitingInstall : cache[b] # NoValue

(* How far write_log and install_trans have got. *)
CopyInv ==
  /\ phase = "write_log" => \A i \in 1..(tail - 1) : dlog[i] = cache[lh[i]]
  /\ phase = "write_head" => \A i \in 1..Len(lh) : dlog[i] = cache[lh[i]]
  /\ phase = "install" => \A i \in tail..Len(lh) : dlog[i] = cache[lh[i]]
  /\ phase \in {"install", "rinstall"} => \A i \in 1..(tail - 1) : home[lh[i]] = dlog[i]
  /\ phase \in {"clear", "rclear"} => \A i \in 1..Len(lh) : home[lh[i]] = dlog[i]

(* A cached block with nothing to install is a copy of its home block. *)
CoherenceInv ==
  \A b \in Block : b \notin torn /\ b \notin AwaitingInstall /\ Unlocked(b)
                     => cache[b] \in {NoValue, home[b]}

IInv == TypeOK /\ HeaderInv /\ CallInv /\ BufInv /\ PinInv /\ CopyInv /\ CoherenceInv

(* Finitely many calls are between begin_op and end_op. *)
LEMMA ActiveFinite == IsFiniteSet(Active)
BY LogAssumption, FS_Subset DEF Active

(* log_write appends a block the header does not have yet. *)
LEMMA AppendLogged ==
  ASSUME NEW h \in Seq(Block), NEW b \in Block, b \notin Logged(h), Distinct(h)
  PROVE  /\ Append(h, b) \in Seq(Block)
         /\ Len(Append(h, b)) = Len(h) + 1
         /\ Logged(Append(h, b)) = Logged(h) \cup {b}
         /\ Distinct(Append(h, b))
<1>1. /\ Append(h, b) \in Seq(Block)
      /\ Len(Append(h, b)) = Len(h) + 1
      /\ Append(h, b)[Len(h) + 1] = b
      /\ \A i \in 1..Len(h) : Append(h, b)[i] = h[i]
      /\ Len(h) \in Nat
  OBVIOUS
<1>2. Logged(Append(h, b)) = Logged(h) \cup {b}
  BY <1>1 DEF Logged
<1>3. Distinct(Append(h, b))
  BY <1>1 DEF Distinct, Logged
<1> QED BY <1>1, <1>2, <1>3

(* begin_op, admitted or put to sleep, preserves the invariant. *)
LEMMA BeginOpInv == ASSUME IInv, NEW p \in Op, BeginOp(p) PROVE IInv'
<1> USE LogAssumption DEF IInv, disk, calls, BeginOp
<1>1. TypeOK'
  <2>1. CASE ~committing /\ Room
    <3>1. outstanding' \in Nat /\ pc' \in [Op -> {"idle", "begin", "asleep", "op", "commit", "panic"}]
      BY <2>1 DEF TypeOK
    <3>2. wrote' \in [Op -> SUBSET Block]
      BY <2>1, Zenon DEF TypeOK
    <3> QED BY <3>1, <3>2 DEF TypeOK
  <2>2. CASE ~(~committing /\ Room)
    <3>1. outstanding' \in Nat /\ wrote' \in [Op -> SUBSET Block]
      BY <2>2 DEF TypeOK
    <3>2. pc' \in [Op -> {"idle", "begin", "asleep", "op", "commit", "panic"}]
      BY <2>2, Zenon DEF TypeOK
    <3> QED BY <3>1, <3>2 DEF TypeOK
  <2> QED BY <2>1, <2>2
<1>2. HeaderInv'
  BY DEF TypeOK, HeaderInv, CallInv, Distinct, Logged, Booting, Active
<1>3. CallInv'
  <2>1. CASE outstanding' = outstanding + 1
    <3>1. Active' = Active \cup {p} /\ p \notin Active
      BY <2>1 DEF TypeOK, Active
    <3>2. Cardinality(Active') = Cardinality(Active) + 1
      BY <3>1, ActiveFinite, FS_AddElement, Zenon
    <3> QED BY <2>1, <3>1, <3>2 DEF TypeOK, CallInv, Active, Booting
  <2>2. CASE outstanding' = outstanding /\ pc' = [pc EXCEPT ![p] = "asleep"]
    <3>1. Active' = Active
      BY <2>2 DEF TypeOK, Active
    <3> QED BY <2>2, <3>1 DEF TypeOK, CallInv, Booting
  <2> QED BY <2>1, <2>2 DEF TypeOK
<1>4. BufInv'
  BY Zenon DEF TypeOK, BufInv, CallInv, Active, Locked
<1>5. PinInv'
  BY DEF TypeOK, HeaderInv, CallInv, PinInv, BufInv, PinnedWhileLogged, AwaitingInstall, Uncommitted, Logged, Active
<1>6. CopyInv'
  BY DEF TypeOK, HeaderInv, CallInv, CopyInv, PinInv, Active, AwaitingInstall
<1>7. CoherenceInv'
  BY DEF TypeOK, HeaderInv, CallInv, BufInv, CoherenceInv, Unlocked, AwaitingInstall, Uncommitted, Logged, Active, Locked
<1> QED BY <1>1, <1>2, <1>3, <1>4, <1>5, <1>6, <1>7

(* bread preserves it: a buffer is filled from its home block. *)
LEMMA BreadInv == ASSUME IInv, NEW p \in Op, NEW b \in Block, Bread(p, b) PROVE IInv'
<1> USE LogAssumption DEF IInv, disk, calls, Bread, Cached
<1>1. TypeOK'
  BY DEF TypeOK, HeaderInv, CallInv, PinInv, PinnedWhileLogged, AwaitingInstall, Slot
<1>2. HeaderInv'
  BY DEF TypeOK, HeaderInv, CallInv, Distinct, Logged, Booting, Active
<1>3. CallInv'
  BY DEF TypeOK, HeaderInv, CallInv, Active, Booting
<1>4. BufInv'
  BY DEF TypeOK, BufInv, CallInv, Active, Locked
<1>5. PinInv'
  BY DEF TypeOK, HeaderInv, CallInv, PinInv, BufInv, PinnedWhileLogged, AwaitingInstall, Uncommitted, Logged, Active
<1>6. CopyInv'
  BY DEF TypeOK, HeaderInv, CallInv, CopyInv, PinInv, Active, AwaitingInstall
<1>7. CoherenceInv'
  <2> SUFFICES ASSUME NEW c \in Block,
                      c \notin torn', c \notin AwaitingInstall', Unlocked(c)'
               PROVE  cache'[c] \in {NoValue, home'[c]}
    BY DEF CoherenceInv
  <2>1. c \notin torn /\ c \notin AwaitingInstall
    BY DEF AwaitingInstall, Uncommitted, Logged
  <2>2. Unlocked(c)
    BY DEF TypeOK, Unlocked, Locked
  <2> QED BY <2>1, <2>2 DEF TypeOK, CoherenceInv
<1> QED BY <1>1, <1>2, <1>3, <1>4, <1>5, <1>6, <1>7

(* A change to a locked buffer preserves it. *)
LEMMA ModifyInv == ASSUME IInv, NEW p \in Op, NEW v \in Value, Modify(p, v) PROVE IInv'
<1> USE LogAssumption DEF IInv, disk, calls, Modify
<1>1. TypeOK'
  BY DEF TypeOK, HeaderInv, CallInv, PinInv, PinnedWhileLogged, AwaitingInstall, Slot
<1>2. HeaderInv'
  BY DEF TypeOK, HeaderInv, CallInv, Distinct, Logged, Booting, Active
<1>3. CallInv'
  BY DEF TypeOK, HeaderInv, CallInv, Active, Booting
<1>4. BufInv'
  BY DEF TypeOK, BufInv, CallInv, Active, Locked
<1>5. PinInv'
  BY DEF TypeOK, HeaderInv, CallInv, PinInv, BufInv, PinnedWhileLogged, AwaitingInstall, Uncommitted, Logged, Active
<1>6. CopyInv'
  BY DEF TypeOK, HeaderInv, CallInv, CopyInv, PinInv, Active, AwaitingInstall
<1>7. CoherenceInv'
  BY DEF TypeOK, HeaderInv, CallInv, BufInv, CoherenceInv, Unlocked, AwaitingInstall, Uncommitted, Logged, Active, Locked
<1> QED BY <1>1, <1>2, <1>3, <1>4, <1>5, <1>6, <1>7

(* log_write preserves it, absorbing, appending or panicking. *)
LEMMA LogWriteInv == ASSUME IInv, NEW p \in Op, LogWrite(p) PROVE IInv'
<1> USE LogAssumption DEF IInv, disk, calls, LogWrite
<1>0. phase = "run" /\ p \in Active /\ buf[p] \in Block /\ dhead = << >>
  BY DEF TypeOK, CallInv, BufInv, HeaderInv, Active
<1>1. CASE TooBig \/ outstanding < 1
  <2>1. pc' = [pc EXCEPT ![p] = "panic"] /\ UNCHANGED <<lh, pin, dirty, wrote, torn>>
    BY <1>1
  <2>2. Active' = Active
    BY <1>0, <2>1 DEF TypeOK, Active
  <2>3. TypeOK'
    BY <2>1 DEF TypeOK
  <2>4. HeaderInv' /\ PinInv' /\ CopyInv'
    BY <2>1 DEF HeaderInv, Distinct, PinInv, PinnedWhileLogged, AwaitingInstall, Uncommitted, Logged, CopyInv
  <2>5. CallInv' /\ BufInv'
    BY <1>0, <2>1, <2>2 DEF TypeOK, CallInv, BufInv, Booting
  <2>6. CoherenceInv'
    BY <2>1 DEF CoherenceInv, AwaitingInstall, Uncommitted, Logged, Unlocked
  <2> QED BY <2>3, <2>4, <2>5, <2>6
<1>2. CASE ~(TooBig \/ outstanding < 1)
  <2>0. /\ dirty' = [dirty EXCEPT ![p] = FALSE]
        /\ wrote' = [wrote EXCEPT ![p] = @ \cup {buf[p]}]
        /\ torn' = torn \ {buf[p]}
        /\ UNCHANGED pc
    BY <1>2
  <2>1. CASE buf[p] \in Logged(lh) /\ UNCHANGED <<lh, pin>>
    <3>1. TypeOK'
      <4>1. dirty' \in [Op -> BOOLEAN]
        BY <2>0 DEF TypeOK
      <4>2. wrote' \in [Op -> SUBSET Block]
        BY <1>0, <2>0 DEF TypeOK
      <4> QED BY <2>0, <2>1, <4>1, <4>2 DEF TypeOK
    <3>2. HeaderInv' /\ PinInv' /\ CopyInv'
      BY <2>1 DEF HeaderInv, Distinct, PinInv, PinnedWhileLogged, AwaitingInstall, Uncommitted, Logged, CopyInv
    <3>3. CallInv' /\ BufInv'
      BY <2>0 DEF TypeOK, CallInv, BufInv, Booting, Active
    <3>4. CoherenceInv'
      <4> SUFFICES ASSUME NEW c \in Block,
                          c \notin torn', c \notin AwaitingInstall', Unlocked(c)'
                   PROVE  cache'[c] \in {NoValue, home'[c]}
        BY DEF CoherenceInv
      <4>1. AwaitingInstall' = Logged(lh) /\ AwaitingInstall = Logged(lh)
        BY <1>0, <2>1 DEF AwaitingInstall, Uncommitted, Logged
      <4>2. c # buf[p] /\ c \notin torn
        BY <2>0, <2>1, <4>1
      <4>3. Unlocked(c)
        BY <2>0, <4>2 DEF TypeOK, Unlocked
      <4> QED BY <4>1, <4>2, <4>3 DEF CoherenceInv
    <3> QED BY <3>1, <3>2, <3>3, <3>4
  <2>2. CASE buf[p] \notin Logged(lh) /\ lh' = Append(lh, buf[p]) /\ pin' = Pin(buf[p])
    <3>0. /\ lh' \in Seq(Block) /\ Len(lh') = Len(lh) + 1
          /\ Logged(lh') = Logged(lh) \cup {buf[p]}
          /\ Distinct(lh')
      BY <1>0, <2>2, AppendLogged DEF TypeOK, HeaderInv
    <3>a. AwaitingInstall' = Logged(lh') /\ AwaitingInstall = Logged(lh)
      BY <1>0 DEF AwaitingInstall, Uncommitted, Logged
    <3>1. TypeOK'
      <4>1. dirty' \in [Op -> BOOLEAN]
        BY <2>0 DEF TypeOK
      <4>2. wrote' \in [Op -> SUBSET Block]
        BY <1>0, <2>0 DEF TypeOK
      <4>3. pin' \in [Block -> Nat]
        BY <1>0, <2>2 DEF TypeOK, Pin
      <4> QED BY <2>0, <3>0, <4>1, <4>2, <4>3, SMTT(30) DEF TypeOK
    <3>2. HeaderInv'
      BY <1>0, <1>2, <3>0 DEF TypeOK, HeaderInv, Distinct, TooBig
    <3>3. CallInv' /\ BufInv'
      BY <2>0 DEF TypeOK, CallInv, BufInv, Booting, Active
    <3>4. PinInv'
      BY <1>0, <2>2, <3>0, <3>a DEF TypeOK, PinInv, PinnedWhileLogged, Pin, BufInv
    <3>5. CopyInv'
      BY <1>0 DEF CopyInv
    <3>6. CoherenceInv'
      <4> SUFFICES ASSUME NEW c \in Block,
                          c \notin torn', c \notin AwaitingInstall', Unlocked(c)'
                   PROVE  cache'[c] \in {NoValue, home'[c]}
        BY DEF CoherenceInv
      <4>1. c # buf[p] /\ c \notin torn /\ c \notin AwaitingInstall
        BY <2>0, <3>0, <3>a
      <4>2. Unlocked(c)
        BY <2>0, <4>1 DEF TypeOK, Unlocked
      <4> QED BY <4>1, <4>2 DEF CoherenceInv
    <3> QED BY <3>1, <3>2, <3>3, <3>4, <3>5, <3>6
  <2> QED BY <1>2, <2>1, <2>2
<1> QED BY <1>1, <1>2

(* brelse preserves it; an unlogged change is noted in torn. *)
LEMMA BrelseInv == ASSUME IInv, NEW p \in Op, Brelse(p) PROVE IInv'
<1> USE LogAssumption DEF IInv, disk, calls, Brelse
<1>1. TypeOK'
  BY DEF TypeOK, HeaderInv, CallInv, PinInv, PinnedWhileLogged, AwaitingInstall, Slot
<1>2. HeaderInv'
  BY DEF TypeOK, HeaderInv, CallInv, Distinct, Logged, Booting, Active
<1>3. CallInv'
  BY DEF TypeOK, HeaderInv, CallInv, Active, Booting
<1>4. BufInv'
  BY DEF TypeOK, BufInv, CallInv, Active, Locked
<1>5. PinInv'
  BY DEF TypeOK, HeaderInv, CallInv, PinInv, BufInv, PinnedWhileLogged, AwaitingInstall, Uncommitted, Logged, Active
<1>6. CopyInv'
  BY DEF TypeOK, HeaderInv, CallInv, CopyInv, PinInv, Active, AwaitingInstall
<1>7. CoherenceInv'
  <2> SUFFICES ASSUME NEW c \in Block,
                      c \notin torn', c \notin AwaitingInstall', Unlocked(c)'
               PROVE  cache'[c] \in {NoValue, home'[c]}
    BY DEF CoherenceInv
  <2>0. phase = "run"
    BY SMTT(30) DEF TypeOK, CallInv, Active
  <2>1. c \notin torn /\ c \notin Logged(lh) /\ c \notin AwaitingInstall
    BY <2>0 DEF AwaitingInstall, Uncommitted, Logged
  <2>2. c = buf[p] => ~dirty[p]
    BY <2>1
  <2>3. Unlocked(c)
    BY <2>2, Zenon DEF TypeOK, Unlocked
  <2> QED BY <2>1, <2>3 DEF TypeOK, CoherenceInv
<1> QED BY <1>1, <1>2, <1>3, <1>4, <1>5, <1>6, <1>7

(* end_op preserves it, whether or not it starts a commit. *)
LEMMA EndOpInv == ASSUME IInv, NEW p \in Op, EndOp(p) PROVE IInv'
<1> USE LogAssumption DEF IInv, disk, calls, EndOp, Wakeup, LastOut
<1>0. phase = "run" /\ ~committing /\ p \in Active
  BY DEF TypeOK, CallInv, Active
<1>a. Active' = Active \ {p} /\ Cardinality(Active') = Cardinality(Active) - 1
  <2>1. Active' = Active \ {p}
    BY <1>0 DEF TypeOK, Active
  <2> QED BY <1>0, <2>1, ActiveFinite, FS_RemoveElement, Zenon
<1>b. Cardinality(Active') \in Nat
  BY <1>a, ActiveFinite, FS_RemoveElement, FS_CardinalityType
<1>1. TypeOK'
  <2>1. outstanding' \in Nat
    BY <1>a, <1>b DEF CallInv
  <2>2. pc' \in [Op -> {"idle", "begin", "asleep", "op", "commit", "panic"}]
    BY <1>0, SMTT(30) DEF TypeOK
  <2>3. CASE LastOut
    BY <1>0, <2>1, <2>2, <2>3 DEF TypeOK
  <2>4. CASE ~LastOut
    BY <1>0, <2>1, <2>2, <2>4 DEF TypeOK
  <2> QED BY <2>3, <2>4
<1>2. HeaderInv'
  BY DEF TypeOK, HeaderInv, CallInv, Distinct, Logged, Booting, Active
<1>3. CallInv'
  <2>1. outstanding' = Cardinality(Active')
    BY <1>a DEF CallInv
  <2>2. CASE LastOut
    <3>1. IsFiniteSet(Active')
      BY <1>a, ActiveFinite, FS_RemoveElement
    <3>2. Active' = {}
      BY <1>a, <2>2, <3>1, FS_EmptySet DEF CallInv
    <3> QED BY <1>0, <2>1, <2>2, <3>2 DEF TypeOK, CallInv, Booting
  <2>3. CASE ~LastOut
    BY <1>0, <2>1, <2>3 DEF TypeOK, CallInv, Booting
  <2> QED BY <2>2, <2>3
<1>4. BufInv'
  BY Zenon DEF TypeOK, BufInv, CallInv, Active, Locked
<1>5. PinInv'
  BY DEF TypeOK, HeaderInv, CallInv, PinInv, BufInv, PinnedWhileLogged, AwaitingInstall, Uncommitted, Logged, Active
<1>6. CopyInv'
  BY DEF TypeOK, HeaderInv, CallInv, CopyInv, PinInv, Active, AwaitingInstall
<1>7. CoherenceInv'
  BY DEF TypeOK, HeaderInv, CallInv, BufInv, CoherenceInv, Unlocked, AwaitingInstall, Uncommitted, Logged, Active, Locked
<1> QED BY <1>1, <1>2, <1>3, <1>4, <1>5, <1>6, <1>7

=============================================================================
