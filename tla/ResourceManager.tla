--------------------------- MODULE ResourceManager ---------------------------
(***************************************************************************)
(* adapter/resource.go: the handle table of host-owned resources, used by  *)
(* several goroutines at once under a sync.RWMutex.  A call is: take the   *)
(* lock, do the work, release the lock when it returns (the defer).  The   *)
(* work of Remove has two parts, since the destructor is foreign code, and *)
(* Range runs foreign code once per entry.  The result is evaluated before *)
(* the deferred unlock.  HandleTable is what this promises the callers;    *)
(* the entries a call answers with are the <<handle, resource>> pairs its  *)
(* caller learns of: what Get, Pop and Range found, what Add has made, and *)
(* for Remove whether there was one.  The lock is external, modelled from  *)
(* the documentation of sync.RWMutex: a waiting writer keeps new readers   *)
(* out.                                                                    *)
(***************************************************************************)
EXTENDS Naturals, FiniteSets

CONSTANTS
  Threads,
  Resources,   (* resources the callers put into the table (bound)           *)
  Handles,     (* handles the callers pass to Set, Get, Remove and Pop       *)
  HandleBits,  (* width of nextID (32 in the code)                           *)
  AddLimit,    (* Add is called only while nextID is below it (bound)        *)
  Nobody, Nothing

ASSUME ResourceManagerAssumption ==
  /\ Nobody \notin Threads /\ Nothing \notin Resources
  /\ HandleBits \in Nat /\ 2^HandleBits \in Nat \ {0} /\ AddLimit \in Nat
  /\ Handles \subseteq 0 .. 2^HandleBits - 1

VARIABLES
  handles,    (* the map: handle -> resource                                 *)
  nextID,     (* the largest handle given out                                *)
  writer,     (* the thread that holds, or waits for, the write lock         *)
  readers,    (* the threads that hold the read lock                         *)
  pc, frame,  (* thread -> where its call is, and its arguments and locals   *)
  issued,     (* history: handles given out by Add or set by Set             *)
  put,        (* history: resources whose Add or Set has begun               *)
  destroyed,  (* history: resource -> calls of its destructor                *)
  popped,     (* history: resources returned by Pop                          *)
  replaced    (* history: resources a Set has pushed out of the table        *)

table == <<handles, nextID>>
lock == <<writer, readers>>
history == <<issued, put, destroyed, popped, replaced>>
vars == <<table, lock, pc, frame, history>>

Writes == {"Set", "Add", "Remove", "Pop"}
NoFrame == [op |-> "none", handle |-> 0, res |-> Nothing, todo |-> {}, seen |-> {}]

Goto(t, step) == pc' = [pc EXCEPT ![t] = step]

Init ==
  /\ handles = [h \in {} |-> Nothing] /\ nextID = 0
  /\ writer = Nobody /\ readers = {}
  /\ pc = [t \in Threads |-> "idle"] /\ frame = [t \in Threads |-> NoFrame]
  /\ issued = {} /\ put = {} /\ popped = {} /\ replaced = {}
  /\ destroyed = [r \in Resources |-> 0]

-----------------------------------------------------------------------------
(* Calls. *)
Call(t, op, h, r) ==
  /\ pc[t] = "idle"
  /\ op \in {"Set", "Add"} => r \in Resources \ put
  /\ op \notin {"Set", "Add"} => r = Nothing
  /\ op = "Add" => nextID < AddLimit
  /\ op \in {"Add", "Range"} => h = 0
  /\ put' = put \cup ({r} \ {Nothing})
  /\ frame' = [frame EXCEPT ![t] = [NoFrame EXCEPT !.op = op, !.handle = h, !.res = r]]
  /\ Goto(t, IF op \in Writes THEN "lock" ELSE "rlock")
  /\ UNCHANGED <<table, lock, issued, destroyed, popped, replaced>>

(* sync.RWMutex.  Lock: shut new readers out, wait for the old ones. *)
Announce(t) ==
  /\ pc[t] = "lock" /\ writer = Nobody
  /\ writer' = t /\ Goto(t, "drain")
  /\ UNCHANGED <<table, readers, frame, history>>

Acquire(t) ==
  /\ pc[t] = "drain" /\ readers = {}
  /\ Goto(t, frame[t].op)
  /\ UNCHANGED <<table, lock, frame, history>>

(* Mutant of RLock: readers do not heed the writer. *)
RLockUnguarded(t) ==
  /\ pc[t] = "rlock"
  /\ readers' = readers \cup {t}
  /\ frame' = IF frame[t].op = "Range"
              THEN [frame EXCEPT ![t].todo = DOMAIN handles] ELSE frame
  /\ Goto(t, frame[t].op)
  /\ UNCHANGED <<table, writer, history>>

(* RLock; a Range starts with every entry ahead of it. *)
RLock(t) ==
  /\ pc[t] = "rlock" /\ writer = Nobody
  /\ readers' = readers \cup {t}
  /\ frame' = IF frame[t].op = "Range"
              THEN [frame EXCEPT ![t].todo = DOMAIN handles] ELSE frame
  /\ Goto(t, frame[t].op)
  /\ UNCHANGED <<table, writer, history>>

(* The work is done: the call answers with entries, and unlocks. *)
Answer(t, unlock, entries) ==
  /\ Goto(t, unlock)
  /\ frame' = [frame EXCEPT ![t] = [NoFrame EXCEPT !.seen = entries]]

Leave(t) == Goto(t, "idle") /\ frame' = [frame EXCEPT ![t] = NoFrame]

Unlock(t) ==
  /\ pc[t] = "unlock"
  /\ writer' = Nobody /\ Leave(t)
  /\ UNCHANGED <<table, readers, history>>

RUnlock(t) ==
  /\ pc[t] = "runlock"
  /\ readers' = readers \ {t} /\ Leave(t)
  /\ UNCHANGED <<table, writer, history>>

-----------------------------------------------------------------------------
(* The table with resource r under handle h, and without h. *)
With(h, r) == [x \in DOMAIN handles \cup {h} |-> IF x = h THEN r ELSE handles[x]]
Without(h) == [x \in DOMAIN handles \ {h} |-> handles[x]]
Present(h) == {handles[x] : x \in DOMAIN handles \cap {h}}
Found(h) == {h} \X Present(h)

(* Mutant of Set: the counter does not follow the handle. *)
SetOnly(t) ==
  LET h == frame[t].handle
  IN  /\ pc[t] = "Set"
      /\ handles' = With(h, frame[t].res) /\ nextID' = nextID
      /\ replaced' = replaced \cup Present(h) /\ issued' = issued \cup {h}
      /\ Answer(t, "unlock", {}) /\ UNCHANGED <<lock, put, destroyed, popped>>

Set(t) ==
  LET h == frame[t].handle
  IN  /\ pc[t] = "Set"
      /\ handles' = With(h, frame[t].res)
      /\ nextID' = IF nextID < h THEN h ELSE nextID
      /\ replaced' = replaced \cup Present(h) /\ issued' = issued \cup {h}
      /\ Answer(t, "unlock", {}) /\ UNCHANGED <<lock, put, destroyed, popped>>

(* nextID++ wraps. *)
Add(t) ==
  LET h == (nextID + 1) % 2^HandleBits
  IN  /\ pc[t] = "Add"
      /\ nextID' = h /\ handles' = With(h, frame[t].res)
      /\ issued' = issued \cup {h}
      /\ Answer(t, "unlock", {<<h, frame[t].res>>})
      /\ UNCHANGED <<lock, put, destroyed, popped, replaced>>

Get(t) ==
  /\ pc[t] = "Get"
  /\ Answer(t, "runlock", Found(frame[t].handle))
  /\ UNCHANGED <<table, lock, history>>

Destroy(gone) ==
  destroyed' = [r \in Resources |-> IF r \in gone THEN destroyed[r] + 1 ELSE destroyed[r]]

(* Mutants of Remove: an unknown handle returns with the lock held; the    *)
(* lock is given back while the destructor runs.                           *)
RemoveKeepsLock(t) ==
  /\ pc[t] = "Remove"
  /\ LET gone == Present(frame[t].handle)
     IN  IF gone = {}
         THEN Leave(t) /\ UNCHANGED <<lock, destroyed>>
         ELSE Destroy(gone) /\ Goto(t, "delete") /\ UNCHANGED <<lock, frame>>
  /\ UNCHANGED <<table, issued, put, popped, replaced>>

RemoveUnlocked(t) ==
  /\ pc[t] = "Remove"
  /\ LET gone == Present(frame[t].handle)
     IN  IF gone = {}
         THEN Answer(t, "unlock", {}) /\ UNCHANGED <<writer, destroyed>>
         ELSE Destroy(gone) /\ Goto(t, "delete") /\ writer' = Nobody /\ UNCHANGED frame
  /\ UNCHANGED <<table, readers, issued, put, popped, replaced>>

(* Remove: the destructor runs first, still under the lock; then the entry *)
(* goes.                                                                   *)
Remove(t) ==
  /\ pc[t] = "Remove"
  /\ LET gone == Present(frame[t].handle)
     IN  IF gone = {}
         THEN Answer(t, "unlock", {}) /\ UNCHANGED destroyed
         ELSE Destroy(gone) /\ Goto(t, "delete") /\ UNCHANGED frame
  /\ UNCHANGED <<table, lock, issued, put, popped, replaced>>

(* Mutants of Delete: the entry stays; it stays with a nil resource. *)
DeleteNothing(t) ==
  /\ pc[t] = "delete"
  /\ Answer(t, "unlock", Found(frame[t].handle))
  /\ UNCHANGED <<table, lock, history>>

DeleteToNil(t) ==
  /\ pc[t] = "delete"
  /\ handles' = With(frame[t].handle, Nothing)
  /\ Answer(t, "unlock", Found(frame[t].handle))
  /\ UNCHANGED <<nextID, lock, history>>

Delete(t) ==
  LET h == frame[t].handle
  IN  /\ pc[t] = "delete"
      /\ handles' = Without(h)
      /\ Answer(t, "unlock", Found(h)) /\ UNCHANGED <<nextID, lock, history>>

Pop(t) ==
  LET h == frame[t].handle
  IN  /\ pc[t] = "Pop"
      /\ popped' = popped \cup Present(h) /\ handles' = Without(h)
      /\ Answer(t, "unlock", Found(h))
      /\ UNCHANGED <<nextID, lock, issued, put, destroyed, replaced>>

(* Range calls f on one entry after another, in any order, until f has     *)
(* enough.  An entry that is gone before its turn is passed over.          *)
RangeStep(t) ==
  /\ pc[t] = "Range"
  /\ \E h \in frame[t].todo :
       frame' = [frame EXCEPT ![t].todo = @ \ {h}, ![t].seen = @ \cup Found(h)]
  /\ UNCHANGED <<table, lock, pc, history>>

RangeEnd(t) ==
  /\ pc[t] = "Range"
  /\ frame[t].todo = {} \/ frame[t].seen # {}
  /\ Answer(t, "runlock", frame[t].seen) /\ UNCHANGED <<table, lock, history>>

Step(t) ==
  \/ Announce(t) \/ Acquire(t) \/ RLock(t) \/ Unlock(t) \/ RUnlock(t)
  \/ Set(t) \/ Add(t) \/ Remove(t) \/ Delete(t) \/ Pop(t)
  \/ Get(t) \/ RangeStep(t) \/ RangeEnd(t)

Next ==
  \E t \in Threads :
    \/ \E op \in Writes \cup {"Get", "Range"}, h \in Handles \cup {0},
          r \in Resources \cup {Nothing} : Call(t, op, h, r)
    \/ Step(t)

Spec == Init /\ [][Next]_vars

(* The lock is fair: sync.RWMutex lets every waiting reader in when a      *)
(* writer leaves, and sync.Mutex hands itself to a starving waiter.        *)
FairSpec == Spec /\ \A t \in Threads : SF_vars(Step(t))

-----------------------------------------------------------------------------
TypeOK ==
  /\ DOMAIN handles \subseteq 0 .. 2^HandleBits - 1
  /\ handles \in [DOMAIN handles -> Resources]
  /\ nextID \in 0 .. 2^HandleBits - 1
  /\ writer \in Threads \cup {Nobody} /\ readers \subseteq Threads
  /\ pc \in [Threads -> Writes \cup {"Get", "Range", "idle", "lock", "drain", "rlock", "delete",
                     "unlock", "runlock"}]
  /\ issued \subseteq 0 .. 2^HandleBits - 1
  /\ put \subseteq Resources /\ popped \subseteq Resources /\ replaced \subseteq Resources
  /\ destroyed \in [Resources -> Nat]

(* Where the resources are: still an argument of a call, under the hands   *)
(* of their destructor, in the table.                                      *)
Passed == {frame[t].res : t \in Threads}
Dying == UNION {Present(frame[t].handle) : t \in {u \in Threads : pc[u] = "delete"}}
InTable == {handles[h] : h \in DOMAIN handles} \ Dying

(* Every resource put into the table is accounted for exactly once: it is  *)
(* in the table, or was destroyed once, or handed to the caller of Pop, or *)
(* pushed out by a Set.  None is destroyed twice, none is destroyed after  *)
(* a Pop, and none is lost, whatever calls race (Remove, Pop, Set, Add).   *)
OneFate ==
  \A r \in put \ Passed :
    destroyed[r] + Cardinality({S \in {<<1, InTable>>, <<2, popped>>, <<3, replaced>>} : r \in S[2]}) = 1

(* What a Range has seen, and what is still ahead of it, is the table as   *)
(* it is now: nothing is added or removed while it runs (Range).           *)
RangeConsistent ==
  \A t \in Threads : pc[t] = "Range" =>
    /\ \A e \in frame[t].seen : e[1] \in DOMAIN handles /\ handles[e[1]] = e[2]
    /\ frame[t].todo \cup {e[1] : e \in frame[t].seen} = DOMAIN handles

(* Add never gives out a handle that was in use before, so that a stale    *)
(* handle finds nothing rather than another resource (Add, Set).           *)
Adds(t) == pc[t] = "Add" /\ pc'[t] = "unlock"
AddFresh == [][\A t \in Threads : Adds(t) => nextID' \notin issued]_vars

(* The table as its callers see it: an entry whose destructor runs is      *)
(* still there, and counts as destroyed when it goes.                      *)
Destroyed == [r \in Resources |-> IF r \in Dying THEN destroyed[r] - 1 ELSE destroyed[r]]

CallOf(t) ==
  LET f == frame[t]
      done == pc[t] \in {"idle", "unlock", "runlock"}
  IN  [stage |-> IF pc[t] = "idle" THEN "idle" ELSE IF done THEN "answered" ELSE "pending",
       op |-> f.op, handle |-> f.handle, res |-> f.res,
       answer |-> IF done THEN f.seen ELSE {}]

Calls == [t \in Threads |-> CallOf(t)]

Table == INSTANCE HandleTable WITH
  entries <- handles, destroyed <- Destroyed, calls <- Calls,
  Handles <- Handles \cup {0}, Numbers <- 0 .. 2^HandleBits - 1

(* Every operation takes effect in one step between its call and its       *)
(* return, whatever the calls beside it do: what Get, Pop and Range answer *)
(* is what the table held in that step, the destructor and the deletion of *)
(* Remove are one, and Add brings the resource under a new handle.         *)
Linearizable == Table!Spec

(* Every call returns: no lock is left behind, and writers and readers do  *)
(* not wait for each other.                                                *)
CallsReturn == \A t \in Threads : pc[t] # "idle" ~> pc[t] = "idle"
==============================================================================
