------------------------ MODULE ResourceManagerProofs ------------------------
(***************************************************************************)
(* The handle table, for any number of threads, resources and handles.     *)
(* What the properties need beside themselves: which thread holds the lock *)
(* in which way, decided by its pc; which resources are still arguments of *)
(* a call, and that nothing else has them; that no resource is under two   *)
(* handles; and that the counter is not behind a handle in use.  The last  *)
(* holds only until nextID wraps, so the theorems about Add assume that it *)
(* does not (NoWrap).                                                      *)
(***************************************************************************)
EXTENDS ResourceManager, TLAPS, FiniteSetTheorems

Words == 0 .. 2^HandleBits - 1
Ops == Writes \cup {"Get", "Range"}
Working == Writes \cup {"delete", "unlock"}
Resting == {"idle", "unlock", "runlock"}
Steps == Ops \cup {"idle", "lock", "drain", "rlock", "delete", "unlock", "runlock"}
NoWrap == nextID < 2^HandleBits - 1

OpNames == Ops \cup {"none"}
Frames == [op : OpNames, handle : Words, res : Resources \cup {Nothing},
           todo : SUBSET Words, seen : SUBSET (Words \X Resources)]
FrameOK == frame \in [Threads -> Frames]

(* The lock, and what a thread at a step is doing. *)
LockOK(t) ==
  /\ pc[t] \in Working \cup {"drain"} <=> writer = t
  /\ pc[t] \in {"Get", "Range", "runlock"} <=> t \in readers
  /\ pc[t] \in Working => readers = {}
  /\ pc[t] \in Ops => frame[t].op = pc[t]
  /\ pc[t] \in {"lock", "drain"} => frame[t].op \in Writes
  /\ pc[t] = "rlock" => frame[t].op \in {"Get", "Range"}
  /\ frame[t].res \in Resources <=> frame[t].op \in {"Set", "Add"}
  /\ pc[t] \in Resting => frame[t].op = "none" /\ frame[t].handle = 0 /\ frame[t].res = Nothing
  /\ pc[t] = "delete" => frame[t].op = "Remove" /\ frame[t].handle \in DOMAIN handles
  /\ pc[t] \in {"idle", "rlock"} => frame[t].seen = {}

Locked == TypeOK /\ FrameOK /\ \A t \in Threads : LockOK(t)

(* Handles in use have been issued, and the counter is past them. *)
Counted == issued \subseteq 0 .. nextID /\ DOMAIN handles \subseteq issued

Stored(r) == \E h \in DOMAIN handles : handles[h] = r
Kept(r) == \E h \in DOMAIN handles :
             handles[h] = r /\ \A t \in Threads : pc[t] = "delete" => frame[t].handle # h

(* Resources that are not in the manager's hands yet. *)
Waiting(r) == r \notin put \/ r \in Passed
Untouched(r) == destroyed[r] = 0 /\ r \notin popped /\ r \notin replaced /\ ~ Stored(r)

Fate(r) ==
  \/ destroyed[r] = 1 /\ ~ Kept(r) /\ r \notin popped /\ r \notin replaced
  \/ destroyed[r] = 0 /\ Kept(r) /\ r \notin popped /\ r \notin replaced
  \/ destroyed[r] = 0 /\ ~ Stored(r) /\ r \in popped /\ r \notin replaced
  \/ destroyed[r] = 0 /\ ~ Stored(r) /\ r \notin popped /\ r \in replaced

Fates ==
  /\ \A t \in Threads : frame[t].res \in put \cup {Nothing}
  /\ \A t, u \in Threads : frame[t].res = frame[u].res /\ frame[t].res # Nothing => t = u
  /\ \A g, h \in DOMAIN handles : handles[g] = handles[h] => g = h
  /\ \A r \in Resources : IF Waiting(r) THEN Untouched(r) ELSE Fate(r)

-----------------------------------------------------------------------------
LEMMA Assumed ==
  /\ 2^HandleBits \in Nat \ {0} /\ Nobody \notin Threads /\ Nothing \notin Resources
  /\ Handles \subseteq Words
BY ResourceManagerAssumption DEF Words

LEMMA TableOps ==
  ASSUME TypeOK, NEW h
  PROVE  /\ \A r : DOMAIN With(h, r) = DOMAIN handles \cup {h}
         /\ \A r : With(h, r)[h] = r
         /\ \A r : \A x \in DOMAIN handles \ {h} : With(h, r)[x] = handles[x]
         /\ DOMAIN Without(h) = DOMAIN handles \ {h}
         /\ \A x \in DOMAIN handles \ {h} : Without(h)[x] = handles[x]
         /\ h \in DOMAIN handles => Present(h) = {handles[h]}
         /\ h \notin DOMAIN handles => Present(h) = {}
         /\ Present(h) \subseteq Resources
BY DEF TypeOK, With, Without, Present

LEMMA NoFrameOK == NoFrame \in Frames
BY Assumed, SMT DEF NoFrame, Frames, OpNames, Words

LEMMA FrameParts ==
  ASSUME NEW f \in Frames
  PROVE  /\ f.op \in OpNames /\ f.handle \in Words /\ f.res \in Resources \cup {Nothing}
         /\ f.todo \in SUBSET Words /\ f.seen \in SUBSET (Words \X Resources)
BY DEF Frames

LEMMA FrameAhead ==
  ASSUME NEW f \in Frames, NEW d \in SUBSET Words
  PROVE  [f EXCEPT !.todo = d] \in Frames
BY DEF Frames

LEMMA FrameWalked ==
  ASSUME NEW f \in Frames, NEW d \in SUBSET Words, NEW e \in SUBSET (Words \X Resources)
  PROVE  [f EXCEPT !.todo = d, !.seen = e] \in Frames
BY DEF Frames

-----------------------------------------------------------------------------
(* The state's type and the lock. *)
LEMMA InitLocked == Init => Locked
<1> SUFFICES ASSUME Init PROVE Locked
  OBVIOUS
<1> USE Assumed
<1>1. TypeOK BY DEF Init, TypeOK, Writes
<1>2. FrameOK BY NoFrameOK DEF Init, FrameOK
<1>3. \A t \in Threads : LockOK(t)
  BY DEF Init, LockOK, NoFrame, Working, Resting, Ops, Writes
<1> QED BY <1>1, <1>2, <1>3 DEF Locked

LEMMA Typed ==
  ASSUME Locked
  PROVE  pc \in [Threads -> Steps] /\ frame \in [Threads -> Frames]
BY DEF Locked, TypeOK, FrameOK, Steps, Ops

(* A thread that a step of another one leaves alone. *)
LEMMA OthersLocked ==
  ASSUME Locked, NEW u \in Threads, pc'[u] = pc[u], frame'[u] = frame[u],
         writer' = u <=> writer = u, u \in readers' <=> u \in readers,
         readers = {} => readers' = {} \/ pc[u] \notin Working,
         DOMAIN handles' = DOMAIN handles \/ pc[u] # "delete"
  PROVE  LockOK(u)'
BY DEF Locked, LockOK

LEMMA LockedCall ==
  ASSUME Locked, NEW t \in Threads,
         NEW o \in Ops, NEW h \in Handles \cup {0}, NEW r \in Resources \cup {Nothing}, Call(t, o, h, r)
  PROVE  Locked'
<1> DEFINE f == [NoFrame EXCEPT !.op = o, !.handle = h, !.res = r]
<1> USE Assumed, Typed DEF Call, Goto, table, lock, history
<1>1. TypeOK' BY DEF Locked, TypeOK, Ops, Writes
<1>2. f \in Frames
  <2>1. h \in Words BY DEF Words
  <2>2. o \in OpNames BY DEF OpNames
  <2> QED BY <2>1, <2>2, NoFrameOK DEF Frames
<1>3. FrameOK' BY <1>2 DEF FrameOK
<1>4. f.op = o /\ f.res = r /\ f.seen = {} BY DEF NoFrame
<1>5. frame'[t] = f /\ pc'[t] = (IF o \in Writes THEN "lock" ELSE "rlock") BY DEF Steps
<1>6. LockOK(t)'
  <2>1. LockOK(t) /\ pc[t] = "idle" BY DEF Locked
  <2>2. r \in Resources <=> o \in {"Set", "Add"} BY DEF Ops, Writes
  <2> HIDE DEF f
  <2> QED BY <1>4, <1>5, <2>1, <2>2 DEF LockOK, Working, Resting, Ops, Writes
<1>7. \A u \in Threads : u # t => pc'[u] = pc[u] /\ frame'[u] = frame[u] OBVIOUS
<1>8. \A u \in Threads : u # t => LockOK(u)' BY <1>7, OthersLocked
<1> QED BY <1>1, <1>3, <1>6, <1>8 DEF Locked

(* Steps of the lock. *)
LEMMA LockedAnnounce ==
  ASSUME Locked, NEW t \in Threads, Announce(t)
  PROVE  Locked'
<1> USE Assumed, Typed DEF Announce, Goto, table, lock, history
<1>1. TypeOK' /\ FrameOK' BY DEF Locked, TypeOK, FrameOK
<1>2. LockOK(t)'
  <2>1. LockOK(t) /\ pc'[t] = "drain" BY DEF Locked, Steps
  <2> QED BY <2>1 DEF LockOK, Working, Resting, Ops, Writes
<1>3. \A u \in Threads : u # t => LockOK(u)' BY OthersLocked
<1> QED BY <1>1, <1>2, <1>3 DEF Locked

LEMMA LockedAcquire ==
  ASSUME Locked, NEW t \in Threads, Acquire(t)
  PROVE  Locked'
<1> USE Assumed, Typed DEF Acquire, Goto, table, lock, history
<1>1. frame[t].op \in Writes /\ LockOK(t) BY DEF Locked, LockOK
<1>2. TypeOK' /\ FrameOK' BY <1>1 DEF Locked, TypeOK, FrameOK, Writes
<1>3. LockOK(t)'
  <2>1. pc'[t] = frame[t].op BY DEF Steps
  <2> QED BY <1>1, <2>1 DEF LockOK, Working, Resting, Ops, Writes
<1>4. \A u \in Threads : u # t => LockOK(u)' BY OthersLocked
<1> QED BY <1>2, <1>3, <1>4 DEF Locked

LEMMA LockedRLock ==
  ASSUME Locked, NEW t \in Threads, RLock(t)
  PROVE  Locked'
<1> DEFINE f == IF frame[t].op = "Range" THEN [frame[t] EXCEPT !.todo = DOMAIN handles] ELSE frame[t]
<1> USE Assumed, Typed DEF RLock, Goto, table, lock, history
<1>1. frame[t].op \in {"Get", "Range"} /\ LockOK(t) BY DEF Locked, LockOK
<1>2. TypeOK' BY <1>1 DEF Locked, TypeOK, Writes
<1>3. frame'[t] = f /\ pc'[t] = frame[t].op BY DEF Steps
<1>4. f \in Frames
  <2>1. frame[t] \in Frames /\ DOMAIN handles \in SUBSET Words BY Typed DEF Locked, TypeOK, Words
  <2> QED BY <2>1, FrameAhead
<1>5. FrameOK' BY <1>4 DEF FrameOK
<1>6. f.op = frame[t].op /\ f.res = frame[t].res BY DEF Frames
<1>7. LockOK(t)'
  <2> HIDE DEF f
  <2> QED BY <1>1, <1>3, <1>6 DEF LockOK, Working, Resting, Ops, Writes
<1>8. \A u \in Threads : u # t => pc'[u] = pc[u] /\ frame'[u] = frame[u] /\ pc[u] \notin Working
  BY DEF Locked, LockOK
<1>9. \A u \in Threads : u # t => LockOK(u)' BY <1>8, OthersLocked
<1> QED BY <1>2, <1>5, <1>7, <1>9 DEF Locked

LEMMA LeaveFrame ==
  ASSUME Locked, NEW t \in Threads, Leave(t)
  PROVE  /\ frame'[t] = NoFrame /\ pc'[t] = "idle" /\ FrameOK'
         /\ \A u \in Threads : u # t => pc'[u] = pc[u] /\ frame'[u] = frame[u]
BY Typed, NoFrameOK DEF Leave, Goto, FrameOK, Steps

LEMMA LockedUnlock ==
  ASSUME Locked, NEW t \in Threads, Unlock(t) \/ RUnlock(t)
  PROVE  Locked'
<1> USE Assumed DEF Unlock, RUnlock, table, history
<1>1. TypeOK' BY DEF Locked, TypeOK, Leave, Goto
<1>2. LockOK(t) BY DEF Locked
<1>3. LockOK(t)'
  BY <1>2, LeaveFrame DEF LockOK, NoFrame, Working, Resting, Ops, Writes
<1>4. \A u \in Threads : writer = u /\ writer = t => u = t OBVIOUS
<1>5. ASSUME NEW u \in Threads, u # t PROVE LockOK(u)'
  <2>1. CASE Unlock(t)
    <3>1. writer = t BY <1>2, <2>1 DEF LockOK, Working
    <3> QED BY <1>5, <2>1, <3>1, LeaveFrame, OthersLocked
  <2>2. CASE RUnlock(t) BY <1>5, <2>2, LeaveFrame, OthersLocked
  <2> QED BY <2>1, <2>2
<1> QED BY <1>1, <1>3, <1>5, LeaveFrame DEF Locked

-----------------------------------------------------------------------------
(* The work of a call. *)
LEMMA OneWorker ==
  ASSUME Locked, NEW t \in Threads, pc[t] \in Working
  PROVE  \A u \in Threads : pc[u] \in Working => u = t
BY DEF Locked, LockOK

LEMMA AnswerFrame ==
  ASSUME Locked, NEW t \in Threads, NEW step \in Resting, NEW e, Answer(t, step, e)
  PROVE  /\ pc'[t] = step
         /\ frame'[t].op = "none" /\ frame'[t].handle = 0 /\ frame'[t].res = Nothing
         /\ frame'[t].seen = e
         /\ \A u \in Threads : u # t => pc'[u] = pc[u] /\ frame'[u] = frame[u]
<1>1. frame'[t] = [NoFrame EXCEPT !.seen = e] /\ pc'[t] = step BY Typed DEF Answer, Goto, Steps
<1>2. \A u \in Threads : u # t => pc'[u] = pc[u] /\ frame'[u] = frame[u] BY Typed DEF Answer, Goto
<1> QED BY <1>1, <1>2 DEF NoFrame

LEMMA LockedAnswer ==
  ASSUME Locked, TypeOK', NEW t \in Threads, UNCHANGED lock,
         NEW step, NEW e \in SUBSET (Words \X Resources), Answer(t, step, e),
         IF pc[t] \in Working THEN step = "unlock"
         ELSE pc[t] \in {"Get", "Range"} /\ step = "runlock" /\ UNCHANGED handles
  PROVE  Locked'
<1> USE DEF lock
<1>1. step \in Resting BY DEF Resting
<1>2. FrameOK'
  <2>1. [NoFrame EXCEPT !.seen = e] \in Frames BY NoFrameOK DEF Frames
  <2> QED BY <2>1, Typed DEF Answer, FrameOK
<1>3. LockOK(t)'
  <2>1. LockOK(t) BY DEF Locked
  <2>2. pc'[t] = step /\ frame'[t].op = "none" /\ frame'[t].handle = 0 /\ frame'[t].res = Nothing
    BY <1>1, AnswerFrame
  <2>3. CASE pc[t] \in Working BY <2>1, <2>2, <2>3, Assumed DEF LockOK, Working, Resting, Ops, Writes
  <2>4. CASE pc[t] \notin Working BY <2>1, <2>2, <2>4, Assumed DEF LockOK, Working, Resting, Ops, Writes
  <2> QED BY <2>3, <2>4
<1>4. ASSUME NEW u \in Threads, u # t PROVE LockOK(u)'
  <2>1. pc'[u] = pc[u] /\ frame'[u] = frame[u] BY <1>1, <1>4, AnswerFrame
  <2>2. UNCHANGED handles \/ pc[u] # "delete" BY <1>4, OneWorker DEF Working
  <2> QED BY <2>1, <2>2, OthersLocked
<1> QED BY <1>2, <1>3, <1>4 DEF Locked

LEMMA LockedStore ==
  ASSUME Locked, NEW t \in Threads, Set(t) \/ Add(t)
  PROVE  Locked'
<1> DEFINE h == IF pc[t] = "Set" THEN frame[t].handle ELSE (nextID + 1) % 2^HandleBits
           e == IF pc[t] = "Set" THEN {} ELSE {<<h, frame[t].res>>}
<1> USE Assumed DEF Set, Add, Goto, table, lock
<1>1. h \in Words
  <2>1. (nextID + 1) % 2^HandleBits \in Words BY SMT DEF Locked, TypeOK, Words
  <2> QED BY <2>1, FrameParts DEF Locked, FrameOK
<1>2. frame[t].res \in Resources BY DEF Locked, LockOK, Ops, Writes
<1>3. /\ handles' = With(h, frame[t].res) /\ issued' = issued \cup {h}
      /\ Answer(t, "unlock", e) /\ UNCHANGED <<lock, put, popped, destroyed>>
      /\ replaced' \in SUBSET (replaced \cup Present(h)) /\ nextID' \in {nextID, h}
  OBVIOUS
<1>4. pc[t] \in Working /\ e \in SUBSET (Words \X Resources) BY <1>1, <1>2 DEF Working, Writes
<1> HIDE DEF h, e
<1>5. TypeOK'
  <2>1. DOMAIN handles' \subseteq Words /\ handles' \in [DOMAIN handles' -> Resources]
    BY <1>1, <1>2, <1>3 DEF With, Locked, TypeOK, Words
  <2>2. Present(h) \subseteq Resources BY TableOps DEF Locked
  <2>3. pc' = [pc EXCEPT ![t] = "unlock"] BY <1>3 DEF Answer
  <2> QED BY <1>1, <1>3, <2>1, <2>2, <2>3 DEF Locked, TypeOK, Words
<1> QED BY <1>3, <1>4, <1>5, LockedAnswer

LEMMA LockedRemove ==
  ASSUME Locked, NEW t \in Threads, Remove(t)
  PROVE  Locked'
<1> DEFINE gone == Present(frame[t].handle)
<1> USE Assumed DEF Remove, Goto, table, lock
<1>0. pc[t] \in Working BY DEF Working, Writes
<1>1. CASE gone = {}
  <2>1. Answer(t, "unlock", {}) /\ UNCHANGED <<table, lock, issued, put, popped, replaced, destroyed>>
    BY <1>1
  <2>2. TypeOK' BY <2>1 DEF Answer, Locked, TypeOK
  <2> QED BY <1>0, <2>1, <2>2, LockedAnswer
<1>2. CASE gone # {}
  <2>1. frame[t].handle \in DOMAIN handles BY <1>2, TableOps DEF Locked
  <2>2. Destroy(gone) /\ pc' = [pc EXCEPT ![t] = "delete"]
        /\ UNCHANGED <<table, lock, frame, issued, put, popped, replaced>>
    BY <1>2
  <2>3. TypeOK' /\ FrameOK' BY <2>2 DEF Destroy, Locked, TypeOK, FrameOK
  <2>4. LockOK(t) /\ pc[t] = "Remove" /\ pc'[t] = "delete" BY <2>2, Typed DEF Locked
  <2>5. LockOK(t)' BY <2>1, <2>2, <2>4 DEF LockOK, Working, Resting, Ops, Writes
  <2>6. \A u \in Threads : u # t => LockOK(u)' BY <2>2, Typed, OthersLocked
  <2> QED BY <2>3, <2>5, <2>6 DEF Locked
<1> QED BY <1>1, <1>2

LEMMA FoundTyped ==
  ASSUME Locked, NEW t \in Threads
  PROVE  Found(frame[t].handle) \in SUBSET (Words \X Resources)
<1>1. frame[t].handle \in Words BY FrameParts DEF Locked, FrameOK
<1>2. Present(frame[t].handle) \subseteq Resources BY TableOps DEF Locked
<1> QED BY <1>1, <1>2 DEF Found

LEMMA LockedOut ==
  ASSUME Locked, NEW t \in Threads, Delete(t) \/ Pop(t)
  PROVE  Locked'
<1> DEFINE h == frame[t].handle
<1> USE DEF Delete, Pop, table, lock, history
<1>1. /\ handles' = Without(h) /\ Answer(t, "unlock", Found(h))
      /\ popped' \in SUBSET (popped \cup Present(h))
      /\ UNCHANGED <<lock, nextID, issued, put, replaced, destroyed>>
  OBVIOUS
<1>2. TypeOK'
  <2>1. DOMAIN handles' \subseteq Words /\ handles' \in [DOMAIN handles' -> Resources]
    BY <1>1 DEF Without, Locked, TypeOK, Words
  <2>2. Present(h) \subseteq Resources BY TableOps DEF Locked
  <2>3. pc' = [pc EXCEPT ![t] = "unlock"] BY <1>1 DEF Answer, Goto
  <2> QED BY <1>1, <2>1, <2>2, <2>3 DEF Locked, TypeOK, Words
<1>3. pc[t] \in Working BY DEF Working, Writes
<1> QED BY <1>1, <1>2, <1>3, FoundTyped, LockedAnswer

LEMMA LockedGet ==
  ASSUME Locked, NEW t \in Threads, Get(t) \/ RangeEnd(t)
  PROVE  Locked'
<1> DEFINE e == IF pc[t] = "Get" THEN Found(frame[t].handle) ELSE frame[t].seen
<1> USE DEF Get, RangeEnd, table, lock, history
<1>1. Answer(t, "runlock", e) /\ UNCHANGED <<table, lock, history>> /\ pc[t] \in {"Get", "Range"}
  OBVIOUS
<1>2. e \in SUBSET (Words \X Resources) BY FoundTyped, Typed, FrameParts
<1>3. TypeOK' BY <1>1 DEF Answer, Goto, Locked, TypeOK
<1> HIDE DEF e
<1> QED BY <1>1, <1>2, <1>3, LockedAnswer DEF Working, Writes

LEMMA LockedRangeStep ==
  ASSUME Locked, NEW t \in Threads, RangeStep(t)
  PROVE  Locked'
<1> USE Assumed DEF RangeStep, table, lock, history
<1>1. TypeOK' BY DEF Locked, TypeOK
<1>2. PICK h \in frame[t].todo :
        frame' = [frame EXCEPT ![t].todo = @ \ {h}, ![t].seen = @ \cup Found(h)]
  OBVIOUS
<1> DEFINE f == [frame[t] EXCEPT !.todo = frame[t].todo \ {h}, !.seen = frame[t].seen \cup Found(h)]
<1>3. f \in Frames
  <2>1. frame[t] \in Frames BY Typed
  <2>2. h \in Words /\ Present(h) \subseteq Resources BY <2>1, FrameParts, TableOps DEF Locked
  <2>3. frame[t].todo \ {h} \in SUBSET Words BY <2>1, FrameParts
  <2>4. frame[t].seen \cup Found(h) \in SUBSET (Words \X Resources) BY <2>1, <2>2, FrameParts DEF Found
  <2> QED BY <2>1, <2>3, <2>4, FrameWalked, Zenon
<1>4. frame'[t] = f /\ \A u \in Threads : u # t => frame'[u] = frame[u] BY <1>2, Typed
<1>5. FrameOK' BY <1>2, <1>3, Typed DEF FrameOK
<1>6. f.op = frame[t].op /\ f.res = frame[t].res BY Typed DEF Frames
<1>7. LockOK(t)'
  <2>1. LockOK(t) BY DEF Locked
  <2> HIDE DEF f
  <2> QED BY <1>4, <1>6, <2>1 DEF LockOK, Working, Resting, Ops, Writes
<1>8. \A u \in Threads : u # t => LockOK(u)' BY <1>4, OthersLocked
<1> QED BY <1>1, <1>5, <1>7, <1>8 DEF Locked

LEMMA NextLocked == Locked /\ [Next]_vars => Locked'
<1> SUFFICES ASSUME Locked, [Next]_vars PROVE Locked'
  OBVIOUS
<1>1. ASSUME NEW t \in Threads, NEW o \in Ops, NEW h \in Handles \cup {0},
             NEW r \in Resources \cup {Nothing}, Call(t, o, h, r)
      PROVE  Locked'
  BY <1>1, LockedCall
<1>2. ASSUME NEW t \in Threads, Step(t) PROVE Locked'
  BY <1>2, LockedAnnounce, LockedAcquire, LockedRLock, LockedUnlock, LockedStore, LockedGet,
     LockedRemove, LockedOut, LockedRangeStep DEF Step
<1>3. CASE UNCHANGED vars
  BY <1>3 DEF vars, table, lock, history, Locked, TypeOK, FrameOK, LockOK
<1> QED BY <1>1, <1>2, <1>3 DEF Next, Ops

-----------------------------------------------------------------------------
(* The table stands still while anyone reads it. *)
LEMMA RangeInit == Init => RangeConsistent
BY DEF Init, RangeConsistent

(* A writer at work has no reader beside it. *)
LEMMA NoReaderWith ==
  ASSUME Locked, NEW t \in Threads, pc[t] \in Working
  PROVE  \A u \in Threads : pc[u] # "Range"
BY DEF Locked, LockOK

LEMMA RangeKept ==
  ASSUME RangeConsistent, UNCHANGED handles,
         \A u \in Threads : pc'[u] = "Range" => pc[u] = "Range" /\ frame'[u] = frame[u]
  PROVE  RangeConsistent'
BY DEF RangeConsistent

LEMMA SeenHeads ==
  ASSUME NEW S, NEW h, NEW v
  PROVE  {e[1] : e \in S \cup {<<h, v>>}} = {e[1] : e \in S} \cup {h}
<1>1. <<h, v>>[1] = h OBVIOUS
<1> QED BY <1>1

LEMMA NextRange == Locked /\ RangeConsistent /\ [Next]_vars => RangeConsistent'
<1> SUFFICES ASSUME Locked, RangeConsistent, [Next]_vars PROVE RangeConsistent'
  OBVIOUS
<1> USE DEF Goto, table, lock, history
<1>0. pc \in [Threads -> Steps] /\ frame \in [Threads -> Frames]
  BY Typed
<1>1. ASSUME NEW t \in Threads, NEW o \in Ops, NEW h \in Handles \cup {0},
             NEW r \in Resources \cup {Nothing}, Call(t, o, h, r)
      PROVE  RangeConsistent'
  BY <1>0, <1>1, RangeKept DEF Call
<1>2. ASSUME NEW t \in Threads, Announce(t) PROVE RangeConsistent'
  BY <1>0, <1>2, RangeKept DEF Announce
<1>3. ASSUME NEW t \in Threads, Acquire(t) PROVE RangeConsistent'
  <2>1. frame[t].op # "Range" BY <1>3 DEF Acquire, Locked, LockOK, Writes
  <2> QED BY <1>0, <1>3, <2>1, RangeKept DEF Acquire
<1>4. ASSUME NEW t \in Threads, RLock(t) PROVE RangeConsistent'
  <2> SUFFICES ASSUME NEW u \in Threads, pc'[u] = "Range"
               PROVE  /\ \A e \in frame'[u].seen : e[1] \in DOMAIN handles /\ handles[e[1]] = e[2]
                      /\ frame'[u].todo \cup {e[1] : e \in frame'[u].seen} = DOMAIN handles
    BY <1>4 DEF RLock, RangeConsistent
  <2>1. CASE u # t BY <1>0, <1>4, <2>1 DEF RLock, RangeConsistent
  <2>2. CASE u = t
    <3>1. frame[t].op = "Range" BY <1>0, <1>4, <2>2 DEF RLock
    <3>2. frame'[t] = [frame[t] EXCEPT !.todo = DOMAIN handles] BY <1>0, <1>4, <3>1 DEF RLock
    <3>3. frame[t].seen = {} BY <1>4 DEF RLock, Locked, LockOK
    <3>4. frame'[t].todo = DOMAIN handles /\ frame'[t].seen = {} BY <1>0, <3>2, <3>3 DEF Frames
    <3>5. {e[1] : e \in frame'[t].seen} = {} BY <3>4
    <3> QED BY <2>2, <3>4, <3>5
  <2> QED BY <2>1, <2>2
<1>5. ASSUME NEW t \in Threads, Set(t) \/ Add(t) \/ Remove(t) \/ Delete(t) \/ Pop(t)
      PROVE  RangeConsistent'
  <2>1. pc[t] \in Working BY <1>5 DEF Set, Add, Remove, Delete, Pop, Working, Writes
  <2>2. pc' = [pc EXCEPT ![t] = "unlock"] \/ pc' = [pc EXCEPT ![t] = "delete"]
    BY <1>5 DEF Set, Add, Remove, Delete, Pop, Answer
  <2>3. \A u \in Threads : pc'[u] # "Range" BY <1>0, <2>1, <2>2, NoReaderWith
  <2> QED BY <2>3 DEF RangeConsistent
<1>6. ASSUME NEW t \in Threads, Get(t) \/ RangeEnd(t) \/ Unlock(t) \/ RUnlock(t)
      PROVE  RangeConsistent'
  <2>1. UNCHANGED handles BY <1>6 DEF Get, RangeEnd, Unlock, RUnlock
  <2>2. pc' = [pc EXCEPT ![t] = "idle"] \/ pc' = [pc EXCEPT ![t] = "runlock"]
    BY <1>6 DEF Get, RangeEnd, Unlock, RUnlock, Answer, Leave
  <2>3. \A u \in Threads : u # t => frame'[u] = frame[u]
    BY <1>0, <1>6 DEF Get, RangeEnd, Unlock, RUnlock, Answer, Leave
  <2> QED BY <1>0, <2>1, <2>2, <2>3, RangeKept
<1>7. ASSUME NEW t \in Threads, RangeStep(t) PROVE RangeConsistent'
  <2>1. PICK h \in frame[t].todo :
          frame' = [frame EXCEPT ![t].todo = @ \ {h}, ![t].seen = @ \cup Found(h)]
    BY <1>7 DEF RangeStep
  <2>2. h \in DOMAIN handles BY <1>7 DEF RangeStep, RangeConsistent
  <2>3. Present(h) = {handles[h]} BY <2>2, TableOps DEF Locked
  <2>10. Found(h) = {<<h, handles[h]>>} BY <2>3 DEF Found
  <2>4. frame'[t].todo = frame[t].todo \ {h} /\ frame'[t].seen = frame[t].seen \cup {<<h, handles[h]>>}
    BY <1>0, <2>1, <2>10 DEF Frames
  <2>5. \A u \in Threads \ {t} : frame'[u] = frame[u] BY <1>0, <2>1
  <2>6. pc' = pc /\ handles' = handles BY <1>7 DEF RangeStep
  <2>7. pc[t] = "Range" BY <1>7 DEF RangeStep
  <2>8. \A e \in frame'[t].seen : e[1] \in DOMAIN handles /\ handles[e[1]] = e[2]
    <3> TAKE e \in frame'[t].seen
    <3>1. CASE e \in frame[t].seen BY <2>7, <3>1 DEF RangeConsistent
    <3>2. CASE e = <<h, handles[h]>>
      <4>1. e[1] = h /\ e[2] = handles[h] BY <3>2
      <4> QED BY <2>2, <4>1
    <3> QED BY <2>4, <3>1, <3>2
  <2>9. frame'[t].todo \cup {e[1] : e \in frame'[t].seen} = DOMAIN handles
    <3>1. frame[t].todo \cup {e[1] : e \in frame[t].seen} = DOMAIN handles BY <2>7 DEF RangeConsistent
    <3>2. {e[1] : e \in frame[t].seen \cup {<<h, handles[h]>>}} = {e[1] : e \in frame[t].seen} \cup {h}
      BY SeenHeads
    <3>3. {e[1] : e \in frame'[t].seen} = {e[1] : e \in frame[t].seen} \cup {h} BY <2>4, <3>2
    <3> QED BY <2>2, <2>4, <3>1, <3>3
  <2> QED BY <2>5, <2>6, <2>8, <2>9 DEF RangeConsistent
<1>8. CASE UNCHANGED vars BY <1>8 DEF vars, RangeConsistent
<1> QED BY <1>1, <1>2, <1>3, <1>4, <1>5, <1>6, <1>7, <1>8 DEF Next, Step, Ops

-----------------------------------------------------------------------------
(* The counter, as long as it does not wrap. *)
LEMMA NextCounted == Locked /\ Counted /\ NoWrap /\ [Next]_vars => Counted'
<1> SUFFICES ASSUME Locked, Counted, NoWrap, [Next]_vars PROVE Counted'
  OBVIOUS
<1> USE DEF Goto, table, lock, history
<1>0. nextID \in Nat /\ nextID + 1 \in Words /\ (nextID + 1) % 2^HandleBits = nextID + 1
  BY Assumed DEF Locked, TypeOK, NoWrap, Words
<1>1. ASSUME NEW t \in Threads, Set(t) PROVE Counted'
  <2> DEFINE h == frame[t].handle
  <2>0. frame[t] \in Frames BY DEF Locked, FrameOK
  <2>1. h \in Nat
    <3>1. h \in Words BY <2>0, FrameParts
    <3> QED BY <3>1, Assumed DEF Words
  <2>2. DOMAIN handles' = DOMAIN handles \cup {h} /\ issued' = issued \cup {h}
    BY <1>1, TableOps DEF Set, Locked
  <2>3. nextID' \in Nat /\ nextID <= nextID' /\ h <= nextID' BY <1>0, <1>1, <2>1 DEF Set
  <2> HIDE DEF h
  <2>4. 0 .. nextID \subseteq 0 .. nextID' /\ h \in 0 .. nextID' BY <1>0, <2>1, <2>3
  <2> QED BY <2>2, <2>4 DEF Counted
<1>2. ASSUME NEW t \in Threads, Add(t) PROVE Counted'
  <2>1. DOMAIN handles' = DOMAIN handles \cup {nextID + 1} /\ issued' = issued \cup {nextID + 1}
        /\ nextID' = nextID + 1
    BY <1>0, <1>2, TableOps DEF Add, Locked
  <2> QED BY <1>0, <2>1 DEF Counted
<1>3. ASSUME NEW t \in Threads, Delete(t) \/ Pop(t) PROVE Counted'
  <2>1. DOMAIN handles' \subseteq DOMAIN handles /\ UNCHANGED <<issued, nextID>>
    BY <1>3 DEF Delete, Pop, Without
  <2> QED BY <2>1 DEF Counted
<1>4. CASE UNCHANGED <<table, issued>> BY <1>4 DEF Counted
<1>5. ASSUME NEW t \in Threads, NEW o, NEW h, NEW r, Call(t, o, h, r) PROVE Counted'
  BY <1>4, <1>5 DEF Call
<1>6. ASSUME NEW t \in Threads, Announce(t) \/ Acquire(t) \/ RLock(t) \/ Unlock(t) \/ RUnlock(t)
      PROVE  Counted'
  BY <1>4, <1>6 DEF Announce, Acquire, RLock, Unlock, RUnlock
<1>7. ASSUME NEW t \in Threads, Get(t) \/ Remove(t) \/ RangeStep(t) \/ RangeEnd(t)
      PROVE  Counted'
  BY <1>4, <1>7 DEF Get, Remove, RangeStep, RangeEnd
<1>8. CASE UNCHANGED vars BY <1>4, <1>8 DEF vars
<1> QED BY <1>1, <1>2, <1>3, <1>5, <1>6, <1>7, <1>8 DEF Next, Step

LEMMA AddIsNew ==
  Locked /\ Counted /\ NoWrap /\ [Next]_vars => \A t \in Threads : Adds(t) => nextID' \notin issued
<1> SUFFICES ASSUME Locked, Counted, NoWrap, [Next]_vars, NEW t \in Threads, Adds(t)
             PROVE  nextID' \notin issued
  OBVIOUS
<1>1. nextID \in Nat /\ (nextID + 1) % 2^HandleBits = nextID + 1
  BY Assumed DEF Locked, TypeOK, NoWrap
<1>2. pc[t] = "Add" /\ pc'[t] = "unlock" /\ pc \in [Threads -> Steps]
  BY Typed DEF Adds
<1>3. Add(t)
  <2> USE <1>2 DEF Goto, Answer, Leave, history
  <2>1. ASSUME NEW u \in Threads, u # t, Step(u) PROVE pc'[t] = pc[t]
    <3>1. CASE Announce(u) \/ Acquire(u) \/ RLock(u) \/ Unlock(u) \/ RUnlock(u)
      BY <2>1, <3>1 DEF Announce, Acquire, RLock, Unlock, RUnlock
    <3>2. CASE Set(u) \/ Add(u) \/ Remove(u) \/ Delete(u) \/ Pop(u)
      BY <2>1, <3>2 DEF Set, Add, Remove, Delete, Pop
    <3>3. CASE Get(u) \/ RangeStep(u) \/ RangeEnd(u)
      BY <2>1, <3>3 DEF Get, RangeStep, RangeEnd
    <3> QED BY <2>1, <3>1, <3>2, <3>3 DEF Step
  <2>2. ASSUME NEW u \in Threads, NEW o, NEW h, NEW r, Call(u, o, h, r)
        PROVE  pc'[t] = pc[t] \/ pc[t] = "idle"
    BY <2>2 DEF Call
  <2>3. ASSUME Step(t) PROVE Add(t)
    BY <2>3 DEF Step, Announce, Acquire, RLock, Unlock, RUnlock, Set, Get, Remove, Delete, Pop,
                RangeStep, RangeEnd
  <2>4. ~ UNCHANGED vars BY DEF vars
  <2> QED BY <2>1, <2>2, <2>3, <2>4 DEF Next
<1>4. nextID' = nextID + 1 BY <1>1, <1>3 DEF Add
<1> QED BY <1>1, <1>4 DEF Counted

-----------------------------------------------------------------------------
(* What becomes of a resource. *)
LEMMA PassedBy == \A r : r \in Passed <=> \E t \in Threads : frame[t].res = r
BY DEF Passed

LEMMA FatesKept ==
  ASSUME Locked, Fates, UNCHANGED <<handles, put, destroyed, popped, replaced>>,
         \A t \in Threads : /\ frame'[t].res = frame[t].res
                            /\ pc'[t] = "delete" <=> pc[t] = "delete"
                            /\ pc[t] = "delete" => frame'[t].handle = frame[t].handle
  PROVE  Fates'
<1>1. \A r : (r \in Passed)' <=> r \in Passed BY DEF Passed
<1>2. \A r : Stored(r)' <=> Stored(r) BY DEF Stored
<1>3. \A r : Kept(r)' <=> Kept(r) BY DEF Kept
<1>4. \A r \in Resources : (IF Waiting(r) THEN Untouched(r) ELSE Fate(r))'
  BY <1>1, <1>2, <1>3 DEF Fates, Waiting, Untouched, Fate
<1> QED BY <1>4 DEF Fates

LEMMA NoneDying ==
  ASSUME Locked, NEW t \in Threads, pc[t] \in Writes
  PROVE  /\ \A u \in Threads : pc[u] # "delete"
         /\ \A r : Kept(r) <=> Stored(r)
<1>1. pc[t] # "delete" BY DEF Writes
<1>2. \A u \in Threads : pc[u] # "delete" BY <1>1, OneWorker DEF Working
<1> QED BY <1>2 DEF Kept, Stored

LEMMA FatesCall ==
  ASSUME Locked, Fates, NEW t \in Threads, NEW o \in Ops, NEW h \in Handles \cup {0},
         NEW r \in Resources \cup {Nothing}, Call(t, o, h, r)
  PROVE  Fates'
<1> USE Assumed DEF Call, Goto, table, lock, history
<1>0. frame \in [Threads -> Frames] /\ pc \in [Threads -> Steps]
  BY Typed
<1>1. /\ frame'[t].res = r /\ frame[t].res = Nothing /\ pc[t] # "delete" /\ pc'[t] # "delete"
      /\ \A u \in Threads \ {t} : frame'[u] = frame[u] /\ pc'[u] = pc[u]
  <2>1. frame[t].res = Nothing /\ pc[t] # "delete" BY DEF Locked, LockOK, Resting
  <2>2. frame'[t] = [NoFrame EXCEPT !.op = o, !.handle = h, !.res = r] BY <1>0
  <2>3. frame'[t].res = r BY <2>2 DEF NoFrame
  <2>4. pc' = [pc EXCEPT ![t] = "lock"] \/ pc' = [pc EXCEPT ![t] = "rlock"] OBVIOUS
  <2> QED BY <1>0, <2>1, <2>3, <2>4
<1>2. r = Nothing \/ r \in Resources \ put BY DEF Ops, Writes
<1>3. put' = put \cup ({r} \ {Nothing}) /\ UNCHANGED <<handles, destroyed, popped, replaced>> OBVIOUS
<1>4. \A x : Kept(x)' <=> Kept(x) BY <1>1, <1>3 DEF Kept
<1>5. \A x : Stored(x)' <=> Stored(x) BY <1>3 DEF Stored
<1>6. \A x \in Resources : (x \in Passed)' <=> x \in Passed \/ x = r BY <1>1, PassedBy DEF Passed
<1>7. \A x \in Resources : (IF Waiting(x) THEN Untouched(x) ELSE Fate(x))'
  BY <1>2, <1>3, <1>4, <1>5, <1>6 DEF Fates, Waiting, Untouched, Fate
<1>8. \A u \in Threads : frame'[u].res \in put' \cup {Nothing} BY <1>1, <1>2, <1>3 DEF Fates
<1>9. \A u, v \in Threads : frame'[u].res = frame'[v].res /\ frame'[u].res # Nothing => u = v
  BY <1>1, <1>2 DEF Fates
<1> QED BY <1>3, <1>7, <1>8, <1>9 DEF Fates

(* Set and Add bring the resource of their call under a handle. *)
LEMMA FatesStore ==
  ASSUME Locked, Fates, NEW t \in Threads, pc[t] \in {"Set", "Add"}, NEW h,
         handles' = With(h, frame[t].res), replaced' = replaced \cup Present(h),
         NEW e, Answer(t, "unlock", e), UNCHANGED <<put, destroyed, popped>>
  PROVE  Fates'
<1> DEFINE r == frame[t].res
<1>0. frame \in [Threads -> Frames] /\ pc \in [Threads -> Steps]
  BY Typed
<1>1. r \in Resources /\ r # Nothing BY Assumed DEF Locked, LockOK, Ops, Writes
<1>2. r \in put /\ r \in Passed /\ Untouched(r) BY <1>1, PassedBy DEF Fates, Waiting
<1>3. /\ frame'[t].res = Nothing /\ pc'[t] # "delete"
      /\ \A u \in Threads \ {t} : frame'[u] = frame[u] /\ pc'[u] = pc[u]
  BY AnswerFrame DEF Resting
<1>4. /\ \A u \in Threads : pc[u] # "delete" /\ pc'[u] # "delete"
      /\ \A x : Kept(x) <=> Stored(x)
  BY <1>3, NoneDying DEF Writes
<1>5. \A x : Kept(x)' <=> Stored(x)' BY <1>4 DEF Kept, Stored
<1>6. \A x \in Resources : (x \in Passed)' <=> x \in Passed /\ x # r
  <2> TAKE x \in Resources
  <2>1. x # Nothing BY Assumed
  <2>2. (x \in Passed)' <=> \E u \in Threads : frame'[u].res = x BY DEF Passed
  <2>3. (\E u \in Threads : frame'[u].res = x) <=> \E u \in Threads \ {t} : frame[u].res = x
    BY <1>3, <2>1
  <2>4. \A u \in Threads \ {t} : frame[u].res # r BY <1>1 DEF Fates
  <2> QED BY <2>2, <2>3, <2>4, PassedBy
<1>7. /\ DOMAIN handles' = DOMAIN handles \cup {h} /\ handles'[h] = r
      /\ \A x \in DOMAIN handles \ {h} : handles'[x] = handles[x]
  BY DEF With
<1>8. \A x \in DOMAIN handles : handles[x] # r BY <1>2 DEF Untouched, Stored
<1>9. \A g, k \in DOMAIN handles' : handles'[g] = handles'[k] => g = k BY <1>7, <1>8 DEF Fates
<1>10. \A x \in Resources : (IF Waiting(x) THEN Untouched(x) ELSE Fate(x))'
  <2> TAKE x \in Resources
  <2>1. Stored(x)' <=> x = r \/ \E k \in DOMAIN handles \ {h} : handles[k] = x BY <1>7 DEF Stored
  <2>2. CASE x = r
    <3>1. ~ Waiting(x)' BY <1>2, <1>6, <2>2 DEF Waiting
    <3>2. r \notin Present(h) BY <1>8 DEF Present
    <3> QED BY <1>2, <1>5, <2>1, <2>2, <3>1, <3>2 DEF Fate, Untouched
  <2>3. CASE x # r /\ x \in Present(h)
    <3>1. h \in DOMAIN handles /\ handles[h] = x BY <2>3 DEF Present
    <3>2. Stored(x) BY <3>1 DEF Stored
    <3>3. ~ Waiting(x) BY <3>2 DEF Fates, Untouched
    <3>4. Fate(x) BY <3>3 DEF Fates
    <3>5. destroyed[x] = 0 /\ x \notin popped BY <1>4, <3>2, <3>4 DEF Fate
    <3>6. ~ Stored(x)' BY <2>1, <2>3, <3>1 DEF Fates
    <3>7. ~ Waiting(x)' BY <1>6, <3>3 DEF Waiting
    <3> QED BY <2>3, <3>5, <3>6, <3>7 DEF Fate
  <2>4. CASE x # r /\ x \notin Present(h)
    <3>1. \A k \in DOMAIN handles : handles[k] = x => k # h BY <2>4 DEF Present
    <3>2. Stored(x)' <=> Stored(x) BY <2>1, <2>4, <3>1 DEF Stored
    <3>3. Waiting(x)' <=> Waiting(x) BY <1>6, <2>4 DEF Waiting
    <3> QED BY <1>4, <1>5, <2>4, <3>2, <3>3 DEF Fates, Fate, Untouched
  <2> QED BY <2>2, <2>3, <2>4
<1>11. \A u \in Threads : frame'[u].res \in put' \cup {Nothing} BY <1>3 DEF Fates
<1>12. \A u, v \in Threads : frame'[u].res = frame'[v].res /\ frame'[u].res # Nothing => u = v
  BY <1>3 DEF Fates
<1> QED BY <1>9, <1>10, <1>11, <1>12 DEF Fates

LEMMA FatesRemove ==
  ASSUME Locked, Fates, NEW t \in Threads, Remove(t)
  PROVE  Fates'
<1> DEFINE h == frame[t].handle
<1> USE Assumed DEF Remove, Destroy, Goto, lock, table
<1>0. frame \in [Threads -> Frames] /\ pc \in [Threads -> Steps]
      /\ destroyed \in [Resources -> Nat]
  BY Typed DEF Locked, TypeOK
<1>1. frame[t].res = Nothing BY <1>0, FrameParts DEF Locked, LockOK, Ops, Writes
<1>2. CASE Present(h) = {}
  <2>1. \A u \in Threads : /\ frame'[u].res = frame[u].res
                           /\ pc'[u] = "delete" <=> pc[u] = "delete"
                           /\ pc[u] = "delete" => frame'[u].handle = frame[u].handle
    <3>1. Answer(t, "unlock", {}) BY <1>2
    <3>2. pc[t] # "delete" /\ pc'[t] # "delete" BY <3>1, AnswerFrame DEF Resting
    <3>3. frame'[t].res = Nothing BY <3>1, AnswerFrame DEF Resting
    <3>4. \A u \in Threads : u # t => pc'[u] = pc[u] /\ frame'[u] = frame[u]
      BY <3>1, AnswerFrame DEF Resting
    <3> QED BY <1>1, <3>2, <3>3, <3>4
  <2>2. UNCHANGED <<handles, put, destroyed, popped, replaced>> BY <1>2
  <2> QED BY <2>1, <2>2, FatesKept
<1>3. CASE Present(h) # {}
  <2>1. h \in DOMAIN handles /\ Present(h) = {handles[h]} BY <1>3, TableOps DEF Locked
  <2> DEFINE r == handles[h]
  <2>2. /\ destroyed' = [x \in Resources |-> IF x = r THEN destroyed[x] + 1 ELSE destroyed[x]]
        /\ pc' = [pc EXCEPT ![t] = "delete"]
        /\ UNCHANGED <<handles, put, popped, replaced, frame>>
    BY <1>3, <2>1
  <2>3. r \in Resources BY <2>1 DEF Locked, TypeOK
  <2>4. /\ \A u \in Threads : pc[u] # "delete"
        /\ \A x : Kept(x) <=> Stored(x)
    BY NoneDying DEF Writes
  <2>5. \A x : Stored(x)' <=> Stored(x) BY <2>2 DEF Stored
  <2>6. \A x \in Resources : Kept(x)' <=> Stored(x) /\ x # r
    <3> TAKE x \in Resources
    <3>1. Kept(x)' <=> \E k \in DOMAIN handles : handles[k] = x /\ k # h
      BY <1>0, <2>2, <2>4 DEF Kept
    <3> QED BY <2>1, <3>1 DEF Stored, Fates
  <2>7. \A x \in Resources : Waiting(x)' <=> Waiting(x) BY <2>2 DEF Waiting, Passed
  <2>8. Stored(r) /\ ~ Waiting(r) /\ Fate(r) BY <2>1, <2>3 DEF Stored, Fates, Untouched
  <2>9. destroyed[r] = 0 /\ r \notin popped /\ r \notin replaced BY <2>4, <2>8 DEF Fate
  <2>10. \A x \in Resources : (IF Waiting(x) THEN Untouched(x) ELSE Fate(x))'
    <3> TAKE x \in Resources
    <3>1. CASE x = r
      <4>1. destroyed'[x] = 1 BY <2>2, <2>3, <2>9, <3>1
      <4> QED BY <2>2, <2>6, <2>7, <2>8, <2>9, <3>1, <4>1 DEF Fate
    <3>2. CASE x # r
      <4>1. destroyed'[x] = destroyed[x] BY <2>2, <3>2
      <4> QED BY <2>2, <2>4, <2>5, <2>6, <2>7, <3>2, <4>1 DEF Fates, Fate, Untouched
    <3> QED BY <3>1, <3>2
  <2> QED BY <2>2, <2>10 DEF Fates
<1> QED BY <1>2, <1>3

(* Delete and Pop take a handle out; what becomes of its resource differs. *)
LEMMA FatesOut ==
  ASSUME Locked, Fates, NEW t \in Threads, Delete(t) \/ Pop(t)
  PROVE  Fates'
<1> DEFINE h == frame[t].handle
<1>0. frame \in [Threads -> Frames] /\ pc \in [Threads -> Steps]
  BY Typed
<1>1. pc[t] \in {"delete", "Pop"} BY DEF Delete, Pop
<1>2. frame[t].res = Nothing
  BY <1>0, <1>1, FrameParts DEF Locked, LockOK, Ops, Writes
<1>3. /\ handles' = Without(h) /\ Answer(t, "unlock", Found(h)) /\ UNCHANGED <<put, destroyed, replaced>>
      /\ popped' = IF pc[t] = "Pop" THEN popped \cup Present(h) ELSE popped
  BY DEF Delete, Pop, history
<1>4. /\ frame'[t].res = Nothing /\ pc'[t] # "delete"
      /\ \A u \in Threads \ {t} : frame'[u] = frame[u] /\ pc'[u] = pc[u]
  BY <1>3, AnswerFrame DEF Resting
<1>5. \A u \in Threads : pc[u] = "delete" => u = t BY <1>1, OneWorker DEF Working, Writes
<1>6. \A u \in Threads : pc'[u] # "delete" BY <1>4, <1>5
<1>7. \A x : Waiting(x)' <=> Waiting(x)
  <2>1. \A u \in Threads : frame'[u].res = frame[u].res BY <1>2, <1>4
  <2> QED BY <1>3, <2>1 DEF Waiting, Passed
<1>8. DOMAIN handles' = DOMAIN handles \ {h} /\ \A k \in DOMAIN handles' : handles'[k] = handles[k]
  BY <1>3 DEF Without
<1>9. \A x : Stored(x)' <=> \E k \in DOMAIN handles : k # h /\ handles[k] = x BY <1>8 DEF Stored
<1>10. \A x : Kept(x)' <=> Stored(x)' BY <1>6 DEF Kept, Stored
<1>11. \A x \in Resources : (IF Waiting(x) THEN Untouched(x) ELSE Fate(x))'
  <2> TAKE x \in Resources
  <2>1. CASE x \notin Present(h)
    <3>1. \A k \in DOMAIN handles : handles[k] = x => k # h BY <2>1 DEF Present
    <3>2. Stored(x)' <=> Stored(x) BY <1>9, <3>1 DEF Stored
    <3>3. Kept(x) <=> Stored(x) BY <1>5, <3>1 DEF Kept, Stored
    <3> QED BY <1>3, <1>7, <1>10, <2>1, <3>2, <3>3 DEF Fates, Fate, Untouched
  <2>2. CASE x \in Present(h)
    <3>1. h \in DOMAIN handles /\ handles[h] = x BY <2>2 DEF Present
    <3>2. Stored(x) /\ ~ Waiting(x) /\ Fate(x) BY <3>1 DEF Stored, Fates, Untouched
    <3>3. ~ Stored(x)' BY <1>9, <3>1 DEF Fates
    <3>4. CASE pc[t] = "delete"
      <4>1. ~ Kept(x) BY <3>1, <3>4 DEF Kept, Fates
      <4> QED BY <1>3, <1>7, <1>10, <3>2, <3>3, <3>4, <4>1 DEF Fate
    <3>5. CASE pc[t] = "Pop"
      <4>1. Kept(x) BY <3>2, <3>5, NoneDying DEF Writes
      <4>2. x \in popped' BY <1>3, <2>2, <3>5
      <4> QED BY <1>3, <1>7, <3>2, <3>3, <4>1, <4>2 DEF Fate
    <3> QED BY <1>1, <3>4, <3>5
  <2> QED BY <2>1, <2>2
<1>12. \A g, k \in DOMAIN handles' : handles'[g] = handles'[k] => g = k BY <1>8 DEF Fates
<1>13. \A u \in Threads : frame'[u].res = frame[u].res BY <1>2, <1>4
<1> QED BY <1>3, <1>11, <1>12, <1>13 DEF Fates

LEMMA InitFates == Init => Fates
BY Assumed DEF Init, Fates, Waiting, Untouched, Stored, NoFrame

LEMMA NextFates == Locked /\ Counted /\ NoWrap /\ Fates /\ [Next]_vars => Fates'
<1> SUFFICES ASSUME Locked, Counted, NoWrap, Fates, [Next]_vars PROVE Fates'
  OBVIOUS
<1>0. frame \in [Threads -> Frames] /\ pc \in [Threads -> Steps]
  BY Typed
<1>1. ASSUME NEW t \in Threads, NEW o \in Ops, NEW h \in Handles \cup {0},
             NEW r \in Resources \cup {Nothing}, Call(t, o, h, r)
      PROVE  Fates'
  BY <1>1, FatesCall
<1>2. ASSUME NEW t \in Threads, Announce(t) \/ Acquire(t) \/ RLock(t) \/ RangeStep(t) PROVE Fates'
  <2>1. UNCHANGED <<handles, put, destroyed, popped, replaced>>
    BY <1>2 DEF Announce, Acquire, RLock, RangeStep, table, history
  <2>2. \A u \in Threads : /\ frame'[u].res = frame[u].res
                           /\ pc'[u] = "delete" <=> pc[u] = "delete"
                           /\ pc[u] = "delete" => frame'[u].handle = frame[u].handle
    <3>1. \A u \in Threads : frame'[u].res = frame[u].res /\ frame'[u].handle = frame[u].handle
      <4>1. CASE Announce(t) \/ Acquire(t) BY <4>1 DEF Announce, Acquire
      <4>2. CASE RLock(t)
        <5>1. frame' = frame \/ frame' = [frame EXCEPT ![t].todo = DOMAIN handles] BY <4>2 DEF RLock
        <5> QED BY <1>0, <5>1 DEF Frames
      <4>3. CASE RangeStep(t)
        <5>1. PICK h \in frame[t].todo :
                frame' = [frame EXCEPT ![t].todo = @ \ {h}, ![t].seen = @ \cup Found(h)]
          BY <4>3 DEF RangeStep
        <5> QED BY <1>0, <5>1 DEF Frames
      <4> QED BY <1>2, <4>1, <4>2, <4>3
    <3>2. frame[t].op # "delete" BY <1>0, FrameParts DEF OpNames, Ops, Writes
    <3>3. \A u \in Threads : pc'[u] = "delete" <=> pc[u] = "delete"
      BY <1>0, <1>2, <3>2 DEF Announce, Acquire, RLock, RangeStep, Goto
    <3> QED BY <3>1, <3>3
  <2> QED BY <2>1, <2>2, FatesKept
<1>3. ASSUME NEW t \in Threads, Get(t) \/ RangeEnd(t) \/ Unlock(t) \/ RUnlock(t) PROVE Fates'
  <2>1. UNCHANGED <<handles, put, destroyed, popped, replaced>>
    BY <1>3 DEF Get, RangeEnd, Unlock, RUnlock, table, history
  <2>2. frame[t].res = Nothing /\ pc[t] # "delete"
    <3>1. pc[t] \in {"Get", "Range"} \cup Resting
      BY <1>3 DEF Get, RangeEnd, Unlock, RUnlock, Resting
    <3> QED BY <1>0, <3>1, FrameParts DEF Locked, LockOK, Ops, Writes, Resting
  <2>3. /\ frame'[t].res = Nothing /\ pc'[t] # "delete"
        /\ \A u \in Threads : u # t => pc'[u] = pc[u] /\ frame'[u] = frame[u]
    <3>1. CASE Unlock(t) \/ RUnlock(t) BY <3>1, LeaveFrame DEF Unlock, RUnlock, NoFrame
    <3>2. CASE Get(t) \/ RangeEnd(t)
      <4>1. PICK e : Answer(t, "runlock", e) BY <3>2 DEF Get, RangeEnd
      <4> QED BY <4>1, AnswerFrame DEF Resting
    <3> QED BY <1>3, <3>1, <3>2
  <2> QED BY <2>1, <2>2, <2>3, FatesKept
<1>4. ASSUME NEW t \in Threads, Set(t) PROVE Fates'
  <2>1. /\ pc[t] = "Set" /\ handles' = With(frame[t].handle, frame[t].res)
        /\ replaced' = replaced \cup Present(frame[t].handle)
        /\ Answer(t, "unlock", {}) /\ UNCHANGED <<put, destroyed, popped>>
    BY <1>4 DEF Set
  <2> QED BY <2>1, FatesStore
<1>5. ASSUME NEW t \in Threads, Add(t) PROVE Fates'
  <2> DEFINE h == (nextID + 1) % 2^HandleBits
  <2>1. h = nextID + 1 /\ nextID \in Nat BY Assumed DEF Locked, TypeOK, NoWrap
  <2>2. h \notin DOMAIN handles BY <2>1 DEF Counted
  <2>3. replaced' = replaced \cup Present(h) BY <1>5, <2>2 DEF Add, Present
  <2>4. handles' = With(h, frame[t].res) /\ Answer(t, "unlock", {<<h, frame[t].res>>})
        /\ UNCHANGED <<put, destroyed, popped>> /\ pc[t] \in {"Set", "Add"}
    BY <1>5 DEF Add
  <2> QED BY <2>3, <2>4, FatesStore
<1>6. ASSUME NEW t \in Threads, Remove(t) PROVE Fates'
  BY <1>6, FatesRemove
<1>7. ASSUME NEW t \in Threads, Delete(t) \/ Pop(t) PROVE Fates'
  BY <1>7, FatesOut
<1>8. CASE UNCHANGED vars
  BY <1>8, FatesKept DEF vars, table, history
<1> QED BY <1>1, <1>2, <1>3, <1>4, <1>5, <1>6, <1>7, <1>8 DEF Next, Step, Ops

(* Fates, said of the properties' own names. *)
LEMMA FatesGiveOneFate == Locked /\ Fates => OneFate
<1> SUFFICES ASSUME Locked, Fates, NEW r \in put \ Passed
             PROVE  destroyed[r] + Cardinality({S \in {<<1, InTable>>, <<2, popped>>, <<3, replaced>>} : r \in S[2]}) = 1
  BY DEF OneFate
<1> DEFINE Places == {S \in {<<1, InTable>>, <<2, popped>>, <<3, replaced>>} : r \in S[2]}
<1>1. r \in Resources /\ Fate(r) BY DEF Locked, TypeOK, Fates, Waiting
<1>2. r \in InTable <=> Kept(r)
  <2>1. r \in Dying <=> \E t \in Threads : pc[t] = "delete" /\ r \in Present(frame[t].handle)
    BY DEF Dying
  <2>2. r \in InTable <=> Stored(r) /\ r \notin Dying BY DEF InTable, Stored
  <2>3. \A t \in Threads : r \in Present(frame[t].handle) <=>
            frame[t].handle \in DOMAIN handles /\ handles[frame[t].handle] = r
    BY DEF Present
  <2> QED BY <2>1, <2>2, <2>3 DEF Kept, Stored, Fates
<1>3. ASSUME ~ Kept(r), r \notin popped, r \notin replaced PROVE Cardinality(Places) = 0
  <2>1. Places = {} BY <1>2, <1>3
  <2> QED BY <2>1, FS_EmptySet
<1>4. ASSUME NEW P \in {<<1, InTable>>, <<2, popped>>, <<3, replaced>>}, r \in P[2],
             \A S \in {<<1, InTable>>, <<2, popped>>, <<3, replaced>>} : r \in S[2] => S = P
      PROVE  Cardinality(Places) = 1
  <2>1. Places = {P} BY <1>4
  <2> QED BY <2>1, FS_Singleton
<1>5. Kept(r) => Stored(r) BY DEF Kept, Stored
<1>6. CASE destroyed[r] = 1 BY <1>1, <1>3, <1>6 DEF Fate
<1>7. CASE Kept(r) /\ destroyed[r] = 0 /\ r \notin popped /\ r \notin replaced
  BY <1>2, <1>4, <1>7
<1>8. CASE ~ Kept(r) /\ destroyed[r] = 0 /\ r \in popped /\ r \notin replaced
  BY <1>2, <1>4, <1>8
<1>9. CASE ~ Kept(r) /\ destroyed[r] = 0 /\ r \notin popped /\ r \in replaced
  BY <1>2, <1>4, <1>9
<1> QED BY <1>1, <1>5, <1>6, <1>7, <1>8, <1>9 DEF Fate

-----------------------------------------------------------------------------
(* The table as its callers see it. *)
LEMMA InitSeen == Init => Table!Init
<1> SUFFICES ASSUME Init PROVE Table!Init
  OBVIOUS
<1>1. Dying = {} BY DEF Init, Dying
<1>2. Destroyed = [r \in Resources |-> 0] BY <1>1 DEF Init, Destroyed
<1>3. \A t \in Threads : CallOf(t) = Table!Idle BY DEF Init, CallOf, NoFrame, Table!Idle
<1> QED BY <1>2, <1>3 DEF Init, Calls, Table!Init

LEMMA SameCallOf ==
  ASSUME NEW u \in Threads, pc'[u] = pc[u], frame'[u] = frame[u]
  PROVE  CallOf(u)' = CallOf(u)
BY DEF CallOf

LEMMA CallsStep ==
  ASSUME NEW t \in Threads, NEW c, CallOf(t)' = c,
         \A u \in Threads : u # t => pc'[u] = pc[u] /\ frame'[u] = frame[u]
  PROVE  Calls' = [Calls EXCEPT ![t] = c]
<1>1. \A u \in Threads : u # t => CallOf(u)' = CallOf(u) BY SameCallOf
<1> QED BY <1>1 DEF Calls

(* A thread at work in the manager has its call pending. *)
LEMMA DoingSeen ==
  ASSUME Locked, NEW t \in Threads, pc[t] \in Ops \cup {"delete"}
  PROVE  /\ Table!Doing(t, IF pc[t] = "delete" THEN "Remove" ELSE pc[t])
         /\ Calls[t].handle = frame[t].handle /\ Calls[t].res = frame[t].res
<1>1. LockOK(t) BY DEF Locked
<1>2. pc[t] \notin Resting BY DEF Resting, Ops, Writes
<1>3. frame[t].op = IF pc[t] = "delete" THEN "Remove" ELSE pc[t]
  BY <1>1 DEF LockOK, Ops, Writes
<1>4. Calls[t] = [stage |-> "pending", op |-> frame[t].op, handle |-> frame[t].handle,
                  res |-> frame[t].res, answer |-> {}]
  BY <1>2 DEF Calls, CallOf, Resting
<1> QED BY <1>3, <1>4 DEF Table!Doing

LEMMA AnswerSeen ==
  ASSUME Locked, NEW t \in Threads, NEW step \in {"unlock", "runlock"}, NEW e, Answer(t, step, e)
  PROVE  Table!Answer(t, e)
<1>1. step \in Resting BY DEF Resting
<1>2. CallOf(t)' = Table!Answered(e)
  <2>1. /\ pc'[t] = step /\ frame'[t].op = "none" /\ frame'[t].handle = 0
        /\ frame'[t].res = Nothing /\ frame'[t].seen = e
    BY <1>1, AnswerFrame
  <2>2. CallOf(t)' = [stage |-> "answered", op |-> "none", handle |-> 0, res |-> Nothing, answer |-> e]
    BY <2>1 DEF CallOf
  <2> QED BY <2>2 DEF Table!Answered
<1>3. \A u \in Threads : u # t => pc'[u] = pc[u] /\ frame'[u] = frame[u] BY <1>1, AnswerFrame
<1> QED BY <1>2, <1>3, CallsStep DEF Table!Answer

LEMMA FoundSeen ==
  ASSUME NEW h
  PROVE  /\ Table!Found(h) = Found(h)
         /\ h \in DOMAIN handles => Found(h) = {<<h, handles[h]>>}
         /\ h \notin DOMAIN handles => Found(h) = {}
BY DEF Table!Found, Found, Present

(* What has been destroyed, when no destructor runs and while one does. *)
LEMMA DestroyedWhole ==
  ASSUME Locked, \A u \in Threads : pc[u] # "delete"
  PROVE  Destroyed = destroyed
<1>1. Dying = {} BY DEF Dying
<1>2. destroyed \in [Resources -> Nat] BY DEF Locked, TypeOK
<1> QED BY <1>1, <1>2 DEF Destroyed

LEMMA DestroyedKept ==
  ASSUME UNCHANGED <<handles, destroyed>>,
         \A u \in Threads : /\ pc'[u] = "delete" <=> pc[u] = "delete"
                            /\ pc[u] = "delete" => frame'[u].handle = frame[u].handle
  PROVE  Destroyed' = Destroyed
<1>1. \A r : (r \in Dying)' <=> r \in Dying BY DEF Dying, Present
<1> QED BY <1>1 DEF Destroyed

LEMMA DyingOne ==
  ASSUME Locked, NEW t \in Threads, pc[t] = "delete"
  PROVE  Dying = {handles[frame[t].handle]}
<1>1. \A u \in Threads : pc[u] = "delete" <=> u = t BY OneWorker DEF Working
<1>2. frame[t].handle \in DOMAIN handles BY DEF Locked, LockOK
<1>3. Present(frame[t].handle) = {handles[frame[t].handle]} BY <1>2 DEF Present
<1>4. {u \in Threads : pc[u] = "delete"} = {t} BY <1>1
<1> QED BY <1>3, <1>4 DEF Dying

LEMMA CallSeen ==
  ASSUME Locked, NEW t \in Threads, NEW o \in Ops, NEW h \in Handles \cup {0},
         NEW r \in Resources \cup {Nothing}, Call(t, o, h, r)
  PROVE  Table!Next
<1> DEFINE f == [NoFrame EXCEPT !.op = o, !.handle = h, !.res = r]
<1>1. pc[t] = "idle" /\ UNCHANGED <<handles, issued, destroyed>> BY DEF Call, table
<1>2. frame'[t] = f /\ pc'[t] \in {"lock", "rlock"} BY Typed DEF Call, Goto
<1>3. \A u \in Threads : u # t => pc'[u] = pc[u] /\ frame'[u] = frame[u] BY Typed DEF Call, Goto
<1>4. Calls[t] = Table!Idle
  <2>1. frame[t].op = "none" /\ frame[t].handle = 0 /\ frame[t].res = Nothing /\ frame[t].seen = {}
    BY <1>1 DEF Locked, LockOK, Resting
  <2> QED BY <1>1, <2>1 DEF Calls, CallOf, Table!Idle
<1>5. f.op = o /\ f.handle = h /\ f.res = r BY DEF NoFrame
<1> HIDE DEF f
<1>6. CallOf(t)' = Table!Pending(o, h, r) BY <1>2, <1>5 DEF CallOf, Table!Pending
<1>7. Calls' = [Calls EXCEPT ![t] = Table!Pending(o, h, r)] BY <1>3, <1>6, CallsStep
<1>8. Destroyed' = Destroyed BY <1>1, <1>2, <1>3, DestroyedKept
<1>9. Table!Call(t, o, h, r) BY <1>1, <1>4, <1>7, <1>8 DEF Table!Call
<1>10. \/ o \in {"Set", "Add"} /\ r \in Resources
       \/ o \in {"Get", "Remove", "Pop", "Range"} /\ r = Nothing
  BY DEF Call, Ops, Writes
<1> QED BY <1>9, <1>10 DEF Table!Next

(* Steps of the lock, the destructor and the callback are not seen. *)
LEMMA InsideUnseen ==
  ASSUME Locked, NEW t \in Threads,
         Announce(t) \/ Acquire(t) \/ RLock(t) \/ RangeStep(t)
  PROVE  UNCHANGED <<handles, issued, Destroyed, Calls>>
<1>1. UNCHANGED <<handles, issued, destroyed>>
  BY DEF Announce, Acquire, RLock, RangeStep, table, history
<1>2. \A u \in Threads : u # t => pc'[u] = pc[u] /\ frame'[u] = frame[u]
  BY Typed DEF Announce, Acquire, RLock, RangeStep, Goto
<1>3. /\ pc[t] \notin Resting \cup {"delete"} /\ pc'[t] \notin Resting \cup {"delete"}
  <2>1. pc[t] \in {"drain", "rlock"} => frame[t].op \in Ops
    <3>1. LockOK(t) BY DEF Locked
    <3> QED BY <3>1 DEF LockOK, Ops
  <2> QED BY <2>1, Typed DEF Announce, Acquire, RLock, RangeStep, Goto, Resting, Ops, Writes
<1>4. frame'[t].op = frame[t].op /\ frame'[t].handle = frame[t].handle /\ frame'[t].res = frame[t].res
  <2>1. CASE Announce(t) \/ Acquire(t) BY <2>1 DEF Announce, Acquire
  <2>2. CASE RLock(t)
    <3>1. frame' = frame \/ frame' = [frame EXCEPT ![t].todo = DOMAIN handles] BY <2>2 DEF RLock
    <3> QED BY <3>1, Typed DEF Frames
  <2>3. CASE RangeStep(t)
    <3>1. PICK h \in frame[t].todo :
            frame' = [frame EXCEPT ![t].todo = @ \ {h}, ![t].seen = @ \cup Found(h)]
      BY <2>3 DEF RangeStep
    <3> QED BY <3>1, Typed DEF Frames
  <2> QED BY <2>1, <2>2, <2>3
<1>5. CallOf(t)' = CallOf(t) BY <1>3, <1>4 DEF CallOf, Resting
<1>6. \A u \in Threads : CallOf(u)' = CallOf(u) BY <1>2, <1>5, SameCallOf
<1>7. Destroyed' = Destroyed BY <1>1, <1>2, <1>3, DestroyedKept
<1> QED BY <1>1, <1>6, <1>7 DEF Calls

LEMMA ReturnSeen ==
  ASSUME Locked, NEW t \in Threads, Unlock(t) \/ RUnlock(t)
  PROVE  Table!Return(t)
<1>1. /\ pc[t] \in {"unlock", "runlock"} /\ Leave(t) /\ UNCHANGED <<handles, issued, destroyed>>
  BY DEF Unlock, RUnlock, table, history
<1>2. Calls[t].stage = "answered" BY <1>1 DEF Calls, CallOf
<1>3. CallOf(t)' = Table!Idle
  <2>1. pc'[t] = "idle" /\ frame'[t] = NoFrame BY <1>1, LeaveFrame
  <2> QED BY <2>1 DEF CallOf, NoFrame, Table!Idle
<1>4. Calls' = [Calls EXCEPT ![t] = Table!Idle] BY <1>1, <1>3, LeaveFrame, CallsStep
<1>5. Destroyed' = Destroyed BY <1>1, LeaveFrame, DestroyedKept
<1> QED BY <1>1, <1>2, <1>4, <1>5 DEF Table!Return

(* The work of a writer, which runs beside no destructor. *)
LEMMA WriterSeen ==
  ASSUME Locked, NEW t \in Threads, pc[t] \in Writes, NEW e, Answer(t, "unlock", e),
         UNCHANGED destroyed, Locked'
  PROVE  Destroyed' = Destroyed /\ Table!Answer(t, e)
<1>1. \A u \in Threads : pc[u] # "delete" BY NoneDying
<1>2. \A u \in Threads : pc'[u] # "delete" BY <1>1, AnswerFrame DEF Resting
<1>3. Dying = {} /\ Dying' = {} BY <1>1, <1>2 DEF Dying
<1>4. Destroyed' = Destroyed BY <1>3 DEF Destroyed
<1> QED BY <1>4, AnswerSeen

LEMMA StoreSeen ==
  ASSUME Locked, Locked', Counted, NoWrap, NEW t \in Threads, Set(t) \/ Add(t)
  PROVE  Table!Set(t) \/ Table!Add(t)
<1> USE DEF Set, Add
<1>1. pc[t] \in {"Set", "Add"} OBVIOUS
<1>2. Table!Doing(t, pc[t]) /\ Calls[t].handle = frame[t].handle /\ Calls[t].res = frame[t].res
  BY <1>1, DoingSeen DEF Ops, Writes
<1>3. CASE Set(t)
  <2>1. Answer(t, "unlock", {}) /\ UNCHANGED destroyed BY <1>3
  <2>2. Destroyed' = Destroyed /\ Table!Answer(t, {}) BY <1>1, <2>1, WriterSeen DEF Writes
  <2>3. handles' = Table!With(frame[t].handle, frame[t].res) BY <1>3 DEF With, Table!With
  <2> QED BY <1>2, <1>3, <2>2, <2>3 DEF Table!Set
<1>4. CASE Add(t)
  <2> DEFINE h == nextID + 1
  <2>1. (nextID + 1) % 2^HandleBits = h /\ h \in Words /\ nextID \in Nat
    BY Assumed DEF Locked, TypeOK, NoWrap, Words
  <2>2. h \notin issued BY <2>1 DEF Counted
  <2>3. Answer(t, "unlock", {<<h, frame[t].res>>}) /\ UNCHANGED destroyed BY <1>4, <2>1
  <2>4. Destroyed' = Destroyed /\ Table!Answer(t, {<<h, frame[t].res>>})
    BY <1>1, <2>3, WriterSeen DEF Writes
  <2>5. handles' = Table!With(h, frame[t].res) /\ issued' = issued \cup {h}
    BY <1>4, <2>1 DEF With, Table!With
  <2> HIDE DEF h
  <2> QED BY <1>2, <1>4, <2>1, <2>2, <2>4, <2>5 DEF Table!Add, Words
<1> QED BY <1>3, <1>4

LEMMA GetSeen ==
  ASSUME Locked, RangeConsistent, NEW t \in Threads, Get(t) \/ RangeEnd(t)
  PROVE  Table!Get(t) \/ Table!Range(t)
<1> USE DEF Get, RangeEnd, table, history
<1>1. pc[t] \in {"Get", "Range"} /\ UNCHANGED <<handles, issued, destroyed>> OBVIOUS
<1>2. Table!Doing(t, pc[t]) /\ Calls[t].handle = frame[t].handle
  BY <1>1, DoingSeen DEF Ops, Writes
<1>3. PICK answer : Answer(t, "runlock", answer) OBVIOUS
<1>4. Destroyed' = Destroyed
  <2>1. pc[t] # "delete" /\ pc'[t] # "delete" BY <1>1, <1>3, AnswerFrame DEF Resting
  <2>2. \A u \in Threads : u # t => pc'[u] = pc[u] /\ frame'[u] = frame[u]
    BY <1>3, AnswerFrame DEF Resting
  <2> QED BY <1>1, <2>1, <2>2, DestroyedKept
<1>5. CASE Get(t)
  <2>1. Table!Answer(t, Found(frame[t].handle)) BY <1>5, AnswerSeen
  <2> QED BY <1>1, <1>2, <1>4, <1>5, <2>1, FoundSeen DEF Table!Get
<1>6. CASE RangeEnd(t)
  <2> DEFINE seen == frame[t].seen
  <2>1. Table!Answer(t, seen) BY <1>6, AnswerSeen
  <2>2. /\ \A e \in seen : e[1] \in DOMAIN handles /\ handles[e[1]] = e[2]
        /\ frame[t].todo \cup {e[1] : e \in seen} = DOMAIN handles
    BY <1>6 DEF RangeConsistent
  <2>3. seen \in SUBSET (Words \X Resources) BY Typed, FrameParts
  <2>4. \A e \in seen : e = <<e[1], handles[e[1]]>> BY <2>2, <2>3
  <2>5. seen \in SUBSET {<<h, handles[h]>> : h \in DOMAIN handles} BY <2>2, <2>4
  <2>6. seen = {} => DOMAIN handles = {}
    <3>1. frame[t].todo = {} \/ seen # {} BY <1>6
    <3> QED BY <2>2, <3>1
  <2> HIDE DEF seen
  <2> QED BY <1>1, <1>2, <1>4, <1>6, <2>1, <2>5, <2>6 DEF Table!Range
<1> QED BY <1>5, <1>6

LEMMA RemoveSeen ==
  ASSUME Locked, Locked', NEW t \in Threads, Remove(t)
  PROVE  Table!Remove(t) \/ UNCHANGED <<handles, issued, Destroyed, Calls>>
<1> DEFINE h == frame[t].handle
<1> USE DEF Remove, table
<1>1. pc[t] = "Remove" /\ UNCHANGED <<handles, issued>> OBVIOUS
<1>2. Table!Doing(t, "Remove") /\ Calls[t].handle = h BY <1>1, DoingSeen DEF Ops, Writes
<1>3. handles \in [DOMAIN handles -> Resources] BY DEF Locked, TypeOK
<1>4. CASE Present(h) = {}
  <2>1. Answer(t, "unlock", {}) /\ UNCHANGED destroyed BY <1>4
  <2>2. Destroyed' = Destroyed /\ Table!Answer(t, {}) BY <1>1, <2>1, WriterSeen DEF Writes
  <2>3. h \notin DOMAIN handles BY <1>4 DEF Present
  <2>4. Table!Found(h) = {} BY <2>3, FoundSeen
  <2>5. Table!Without(h) = handles BY <1>3, <2>3 DEF Table!Without
  <2>6. Destroyed' = [r \in Resources |->
          IF <<h, r>> \in Table!Found(h) THEN Destroyed[r] + 1 ELSE Destroyed[r]]
    BY <2>2, <2>4 DEF Destroyed
  <2> QED BY <1>1, <1>2, <2>2, <2>4, <2>5, <2>6 DEF Table!Remove
<1>5. CASE Present(h) # {}
  <2> DEFINE r == handles[h]
  <2>1. h \in DOMAIN handles /\ Present(h) = {r} BY <1>5, TableOps DEF Locked
  <2>2. pc' = [pc EXCEPT ![t] = "delete"] /\ Destroy({r}) /\ UNCHANGED frame
    BY <1>5, <2>1 DEF Goto
  <2>3. pc'[t] = "delete" /\ \A u \in Threads : u # t => pc'[u] = pc[u] BY <2>2, Typed
  <2>4. Dying = {} BY <1>1, NoneDying DEF Dying, Writes
  <2>5. Dying' = {r}
    <3>1. \A u \in Threads : pc[u] # "delete" BY <1>1, NoneDying DEF Writes
    <3>2. {u \in Threads : pc'[u] = "delete"} = {t} BY <2>3, <3>1
    <3>3. Present(h)' = {r} BY <1>1, <2>1, <2>2 DEF Present
    <3> QED BY <2>2, <3>2, <3>3 DEF Dying
  <2>6. Destroyed' = Destroyed
    <3>1. destroyed \in [Resources -> Nat] BY DEF Locked, TypeOK
    <3> HIDE DEF r
    <3>2. destroyed' = [x \in Resources |-> IF x \in {r} THEN destroyed[x] + 1 ELSE destroyed[x]]
      BY <2>2 DEF Destroy
    <3>3. \A x \in Resources : (IF x \in {r} THEN destroyed'[x] - 1 ELSE destroyed'[x]) = destroyed[x]
      BY <3>1, <3>2
    <3> QED BY <2>4, <2>5, <3>3 DEF Destroyed
  <2>7. CallOf(t)' = CallOf(t) BY <1>1, <2>2, <2>3 DEF CallOf
  <2>8. \A u \in Threads : CallOf(u)' = CallOf(u) BY <2>2, <2>3, <2>7, SameCallOf
  <2> QED BY <1>1, <2>6, <2>8 DEF Calls
<1> QED BY <1>4, <1>5

LEMMA DeleteSeen ==
  ASSUME Locked, NEW t \in Threads, Delete(t)
  PROVE  Table!Remove(t)
<1> DEFINE h == frame[t].handle
           r == handles[h]
<1> USE DEF Delete, history
<1>1. /\ pc[t] = "delete" /\ Answer(t, "unlock", Found(h)) /\ UNCHANGED <<issued, destroyed>>
      /\ handles' = Without(h)
  OBVIOUS
<1>2. Table!Doing(t, "Remove") /\ Calls[t].handle = h BY <1>1, DoingSeen
<1>3. Table!Answer(t, Found(h)) BY <1>1, AnswerSeen
<1>4. h \in DOMAIN handles BY <1>1 DEF Locked, LockOK
<1>5. Table!Found(h) = {<<h, r>>} /\ Found(h) = {<<h, r>>} BY <1>4, FoundSeen
<1>6. Dying = {r} BY <1>1, DyingOne
<1>7. Dying' = {}
  <2>1. \A u \in Threads : pc'[u] # "delete"
    <3>1. \A u \in Threads : pc[u] = "delete" => u = t BY <1>1, OneWorker DEF Working
    <3>2. pc'[t] = "unlock" /\ \A u \in Threads : u # t => pc'[u] = pc[u]
      BY <1>1, AnswerFrame DEF Resting
    <3> QED BY <3>1, <3>2
  <2> QED BY <2>1 DEF Dying
<1>8. Destroyed' = [x \in Resources |->
        IF <<h, x>> \in Table!Found(h) THEN Destroyed[x] + 1 ELSE Destroyed[x]]
  <2>1. destroyed \in [Resources -> Nat] BY DEF Locked, TypeOK
  <2> HIDE DEF h, r
  <2>2. \A x \in Resources : <<h, x>> \in Table!Found(h) <=> x = r BY <1>5
  <2>3. \A x \in Resources : Destroyed[x] = IF x = r THEN destroyed[x] - 1 ELSE destroyed[x]
    BY <1>6 DEF Destroyed
  <2>4. \A x \in Resources :
          destroyed[x] = IF <<h, x>> \in Table!Found(h) THEN Destroyed[x] + 1 ELSE Destroyed[x]
    BY <2>1, <2>2, <2>3
  <2>5. Destroyed' = [x \in Resources |-> destroyed[x]] BY <1>1, <1>7 DEF Destroyed
  <2> QED BY <2>4, <2>5
<1>9. handles' = Table!Without(h) BY <1>1 DEF Without, Table!Without
<1> QED BY <1>1, <1>2, <1>3, <1>5, <1>8, <1>9 DEF Table!Remove

LEMMA PopSeen ==
  ASSUME Locked, Locked', NEW t \in Threads, Pop(t)
  PROVE  Table!Pop(t)
<1> DEFINE h == frame[t].handle
<1> USE DEF Pop
<1>1. /\ pc[t] = "Pop" /\ Answer(t, "unlock", Found(h)) /\ UNCHANGED <<issued, destroyed>>
      /\ handles' = Without(h)
  OBVIOUS
<1>2. Table!Doing(t, "Pop") /\ Calls[t].handle = h BY <1>1, DoingSeen DEF Ops, Writes
<1>3. Destroyed' = Destroyed /\ Table!Answer(t, Found(h)) BY <1>1, WriterSeen DEF Writes
<1>4. handles' = Table!Without(h) BY <1>1 DEF Without, Table!Without
<1> QED BY <1>1, <1>2, <1>3, <1>4, FoundSeen DEF Table!Pop

LEMMA StepSeen ==
  Locked /\ Locked' /\ RangeConsistent /\ Counted /\ NoWrap /\ [Next]_vars => [Table!Next]_(Table!vars)
<1> SUFFICES ASSUME Locked, Locked', RangeConsistent, Counted, NoWrap, [Next]_vars
             PROVE  Table!Next \/ UNCHANGED <<handles, issued, Destroyed, Calls>>
  BY DEF Table!vars
<1>1. ASSUME NEW t \in Threads, NEW o \in Ops, NEW h \in Handles \cup {0},
             NEW r \in Resources \cup {Nothing}, Call(t, o, h, r)
      PROVE  Table!Next
  BY <1>1, CallSeen
<1>2. ASSUME NEW t \in Threads, Announce(t) \/ Acquire(t) \/ RLock(t) \/ RangeStep(t)
      PROVE  UNCHANGED <<handles, issued, Destroyed, Calls>>
  BY <1>2, InsideUnseen
<1>3. ASSUME NEW t \in Threads, Unlock(t) \/ RUnlock(t) PROVE Table!Next
  BY <1>3, ReturnSeen DEF Table!Next
<1>4. ASSUME NEW t \in Threads, Set(t) \/ Add(t) PROVE Table!Next
  BY <1>4, StoreSeen DEF Table!Next
<1>5. ASSUME NEW t \in Threads, Get(t) \/ RangeEnd(t) PROVE Table!Next
  BY <1>5, GetSeen DEF Table!Next
<1>6. ASSUME NEW t \in Threads, Remove(t)
      PROVE  Table!Next \/ UNCHANGED <<handles, issued, Destroyed, Calls>>
  BY <1>6, RemoveSeen DEF Table!Next
<1>7. ASSUME NEW t \in Threads, Delete(t) \/ Pop(t) PROVE Table!Next
  BY <1>7, DeleteSeen, PopSeen DEF Table!Next
<1>8. CASE UNCHANGED vars
  BY <1>8 DEF vars, table, history, Destroyed, Dying, Present, Calls, CallOf
<1> QED BY <1>1, <1>2, <1>3, <1>4, <1>5, <1>6, <1>7, <1>8 DEF Next, Step, Ops

-----------------------------------------------------------------------------
LEMMA InitCounted == Init => Counted
BY DEF Init, Counted

LEMMA LockedAlways == Spec => [](Locked /\ RangeConsistent)
BY InitLocked, NextLocked, RangeInit, NextRange, PTL DEF Spec

(* The table, the lock and the calls keep their types. *)
THEOREM TableType == Spec => []TypeOK
<1>1. Locked => TypeOK BY DEF Locked
<1> QED BY <1>1, LockedAlways, PTL

(* A Range sees one table, whoever else calls the manager. *)
THEOREM RangeSeesOneTable == Spec => []RangeConsistent
BY LockedAlways, PTL

(* Until the counter wraps, every resource has one fate, ... *)
THEOREM OneFateEach == Spec /\ []NoWrap => []OneFate
BY InitLocked, NextLocked, InitCounted, NextCounted, InitFates, NextFates, FatesGiveOneFate, PTL DEF Spec

(* ... and Add returns no handle that was in use before. *)
THEOREM AddGivesNew == Spec /\ []NoWrap => AddFresh
BY InitLocked, NextLocked, InitCounted, NextCounted, AddIsNew, PTL DEF Spec, AddFresh
(* Until the counter wraps, callers cannot tell the manager from a table   *)
(* on which every operation takes effect in one step.                      *)
THEOREM ManagerIsLinearizable == Spec /\ []NoWrap => Linearizable
BY InitLocked, NextLocked, RangeInit, NextRange, InitCounted, NextCounted, InitSeen, StepSeen, PTL
DEF Spec, Linearizable, Table!Spec
=============================================================================
