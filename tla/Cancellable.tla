----------------------------- MODULE Cancellable -----------------------------
(***************************************************************************)
(* How one export call after another gets a context that the host can      *)
(* cancel (adapter/context.go WarpCancellable, the handlers of main.go,    *)
(* adapter/streams.go NewOutputStream and Close).                          *)
(*                                                                         *)
(* The component runs one export call at a time, and goroutines are        *)
(* scheduled cooperatively: a watcher runs only while the handler of the   *)
(* call in progress is parked, from one time.Sleep to the next.  A host    *)
(* function that blocks, blocks the whole component.  The host's table of  *)
(* pollables is external: modelled from how the code uses it.              *)
(***************************************************************************)
EXTENDS Naturals

CONSTANTS
  Calls,        (* export calls the host makes (bound)                     *)
  MaxStreams,   (* output streams one call subscribes to (bound)           *)
  Reuse,        (* does the host give dropped handle numbers out again?    *)
  UnknownReady, (* what the host may answer about a handle not in its table *)
  NoCall

ASSUME CancellableAssumption ==
  /\ NoCall \notin Calls /\ MaxStreams \in Nat
  /\ Reuse \in BOOLEAN /\ UnknownReady \subseteq BOOLEAN

VARIABLES
  started,    (* calls the host has made                                    *)
  current,    (* the call in progress, or NoCall                            *)
  mode,       (* its handler: running, parked in the scheduler, or blocked  *)
              (* in a host function                                         *)
  requested,  (* calls the host wants cancelled                             *)
  canceled,   (* calls whose context.Context is cancelled                   *)
  poll,       (* call -> the pollable of its cancellable, 0 before          *)
  stream,     (* call -> the pollable of its open output stream, 0 if none  *)
  opened,     (* streams the call in progress has opened                    *)
  watching,   (* calls whose watcher goroutine is alive                     *)
  table,      (* the host's pollables: handle -> what it reports on         *)
  nextID      (* the largest handle the host has given out                  *)

vars == <<started, current, mode, requested, canceled, poll, stream, opened,
          watching, table, nextID>>

None == 0
CancelOf(c) == [kind |-> "cancel", call |-> c]
WritableOf(c) == [kind |-> "writable", call |-> c]
Events == [kind : {"cancel", "writable"}, call : Calls]

Init ==
  /\ started = {} /\ current = NoCall /\ mode = "running"
  /\ requested = {} /\ canceled = {} /\ watching = {}
  /\ poll = [c \in Calls |-> None] /\ stream = [c \in Calls |-> None] /\ opened = 0
  /\ table = [h \in {} |-> None] /\ nextID = 0

-----------------------------------------------------------------------------
(* The host's table. *)
(* Mutants of NewHandles: numbers start at 0; the newest is given again. *)
NewHandlesFromZero == {nextID}
NewHandlesStuck == {IF nextID = 0 THEN 1 ELSE nextID}

NewHandles ==
  IF Reuse THEN (1 .. nextID + 1) \ DOMAIN table ELSE {nextID + 1}

Subscribe(h, event) ==
  /\ table' = [x \in DOMAIN table \cup {h} |-> IF x = h THEN event ELSE table[x]]
  /\ nextID' = IF nextID < h THEN h ELSE nextID

(* resource-drop: whatever has this number now is gone; dropping a number  *)
(* the table does not know does nothing.                                   *)
Drop(h) ==
  /\ table' = [x \in DOMAIN table \ {h} |-> table[x]]
  /\ UNCHANGED nextID

(* What pollable.ready may answer: a stream gets writable and full again   *)
(* as its reader pleases.                                                  *)
Ready(h) ==
  IF h \notin DOMAIN table THEN UnknownReady
  ELSE IF table[h].kind = "cancel" THEN {table[h].call \in requested} ELSE BOOLEAN

-----------------------------------------------------------------------------
(* A handler starts: WarpCancellable makes the context, subscribes to the  *)
(* host's cancellable and starts the watcher.                              *)
Begin(c) ==
  /\ current = NoCall /\ c \notin started
  /\ started' = started \cup {c} /\ current' = c /\ mode' = "running" /\ opened' = 0
  /\ watching' = watching \cup {c}
  /\ \E h \in NewHandles : Subscribe(h, CancelOf(c)) /\ poll' = [poll EXCEPT ![c] = h]
  /\ UNCHANGED <<requested, canceled, stream>>

(* cancelDrop: cancel the context and drop the pollable, each time called. *)
(* Mutant of CancelDrop: the pollable is forgotten. *)
CancelOnly(c) == canceled' = canceled \cup {c} /\ UNCHANGED <<table, nextID>>

CancelDrop(c) == canceled' = canceled \cup {c} /\ Drop(poll[c])

(* The handler returns and its deferred cancel runs. *)
Return(c) ==
  /\ current = c /\ mode = "running" /\ stream[c] = None
  /\ CancelDrop(c)
  /\ current' = NoCall
  /\ UNCHANGED <<started, mode, requested, poll, stream, opened, watching>>

(* Mutants of Watch: it wakes for a pollable that is not ready; it looks   *)
(* only at the context.                                                    *)
WatchNotReady(c) ==
  /\ c \in watching /\ current # NoCall /\ mode = "parked"
  /\ FALSE \in Ready(poll[c]) \/ c \in canceled
  /\ CancelDrop(c)
  /\ watching' = watching \ {c}
  /\ UNCHANGED <<started, current, mode, requested, poll, stream, opened>>

WatchContextOnly(c) ==
  /\ c \in watching /\ current # NoCall /\ mode = "parked"
  /\ c \in canceled
  /\ CancelDrop(c)
  /\ watching' = watching \ {c}
  /\ UNCHANGED <<started, current, mode, requested, poll, stream, opened>>

(* The watcher wakes up, finds the pollable ready or the context cancelled, *)
(* calls cancelDrop and ends.  (Otherwise it sleeps again.)                *)
Watch(c) ==
  /\ c \in watching /\ current # NoCall /\ mode = "parked"
  /\ TRUE \in Ready(poll[c]) \/ c \in canceled
  /\ CancelDrop(c)
  /\ watching' = watching \ {c}
  /\ UNCHANGED <<started, current, mode, requested, poll, stream, opened>>

(* The driver's code sleeps or waits for another goroutine, and goes on. *)
Park ==
  /\ current # NoCall /\ mode = "running" /\ mode' = "parked"
  /\ UNCHANGED <<started, current, requested, canceled, poll, stream, opened,
                 watching, table, nextID>>

Resume ==
  /\ mode = "parked" /\ mode' = "running"
  /\ UNCHANGED <<started, current, requested, canceled, poll, stream, opened,
                 watching, table, nextID>>

(* LinkRange subscribes to the stream it writes to. *)
NewOutputStream(c) ==
  /\ current = c /\ mode = "running" /\ stream[c] = None /\ opened < MaxStreams
  /\ opened' = opened + 1
  /\ \E h \in NewHandles : Subscribe(h, WritableOf(c)) /\ stream' = [stream EXCEPT ![c] = h]
  /\ UNCHANGED <<started, current, mode, requested, canceled, poll, watching>>

CloseStream(c) ==
  /\ current = c /\ mode = "running" /\ stream[c] # None
  /\ Drop(stream[c]) /\ stream' = [stream EXCEPT ![c] = None]
  /\ UNCHANGED <<started, current, mode, requested, canceled, poll, opened, watching>>

(* OutputStream.Write waits in pollable.Block until the stream's reader    *)
(* makes room.                                                             *)
Block ==
  /\ current # NoCall /\ mode = "running" /\ stream[current] # None
  /\ mode' = "blocked"
  /\ UNCHANGED <<started, current, requested, canceled, poll, stream, opened,
                 watching, table, nextID>>

RoomMade ==
  /\ mode = "blocked" /\ mode' = "running"
  /\ UNCHANGED <<started, current, requested, canceled, poll, stream, opened,
                 watching, table, nextID>>

(* The host cancels the call it is waiting for. *)
RequestCancel ==
  /\ current # NoCall /\ requested' = requested \cup {current}
  /\ UNCHANGED <<started, current, mode, canceled, poll, stream, opened,
                 watching, table, nextID>>

Next ==
  \/ \E c \in Calls : \/ Begin(c) \/ Return(c) \/ Watch(c)
                      \/ NewOutputStream(c) \/ CloseStream(c)
  \/ Park \/ Resume \/ Block \/ RoomMade \/ RequestCancel

Spec == Init /\ [][Next]_vars

(* A driver that lets the scheduler run again and again; the scheduler     *)
(* runs every goroutine in turn.                                           *)
Cooperative == SF_vars(Park) /\ \A c \in Calls : SF_vars(Watch(c))

(* And a reader that keeps draining the stream. *)
FairSpec == Spec /\ Cooperative /\ WF_vars(RoomMade)

(* The same driver with a reader that may stop. *)
StalledSpec == Spec /\ Cooperative

-----------------------------------------------------------------------------
(* Types of the variables; handles are numbers the host has given out.     *)
TypeOK ==
  /\ started \subseteq Calls /\ current \in started \cup {NoCall}
  /\ mode \in {"running", "parked", "blocked"}
  /\ requested \subseteq started /\ canceled \subseteq started /\ watching \subseteq started
  /\ poll \in [Calls -> 0 .. nextID] /\ stream \in [Calls -> 0 .. nextID]
  /\ opened \in 0 .. MaxStreams /\ nextID \in Nat
  /\ DOMAIN table \subseteq 1 .. nextID /\ table \in [DOMAIN table -> Events]

(* The pollables the call in progress uses are its own and alive: no       *)
(* watcher that outlives an earlier call drops or replaces them            *)
(* (cancelDrop runs both in the handler and in its watcher).               *)
PollableLive ==
  current # NoCall =>
    /\ current \notin canceled =>
         poll[current] \in DOMAIN table /\ table[poll[current]] = CancelOf(current)
    /\ stream[current] # None =>
         stream[current] \in DOMAIN table /\ table[stream[current]] = WritableOf(current)

(* The context of a running call is cancelled only if the host asked for   *)
(* it: neither a late watcher nor somebody else's pollable cancels it.     *)
CancelSound == current \in canceled => current \in requested

(* When no call is in progress the component holds no pollable: every      *)
(* subscription has been dropped, by its handler or by its watcher.        *)
NoLeak == \A h \in DOMAIN table : table[h].call = current

(* A request to cancel reaches the context of the call in progress. *)
CancelDelivered == \A c \in Calls : c \in requested ~> c \in canceled

-----------------------------------------------------------------------------
(* The inductive invariant for a host that never gives a number out twice: *)
(* handles of different subscriptions differ, only the call in progress    *)
(* has entries in the table, and a watcher left behind finds its context   *)
(* cancelled.                                                              *)
HandlesDiffer ==
  /\ \A c \in started : poll[c] # None
  /\ \A c, d \in started : poll[c] = poll[d] => c = d
  /\ \A c, d \in started : stream[c] # None => stream[c] # poll[d]
  /\ \A c \in Calls : stream[c] # None => c = current

Entries ==
  \A h \in DOMAIN table :
    \/ h = poll[current] /\ table[h] = CancelOf(current)
    \/ h = stream[current] /\ table[h] = WritableOf(current)

LeftBehind == \A c \in watching : c = current \/ c \in canceled

IInv ==
  /\ TypeOK /\ PollableLive /\ CancelSound /\ NoLeak
  /\ HandlesDiffer /\ LeftBehind
  /\ current # NoCall => Entries
==============================================================================
