-------------------------- MODULE CancellableProofs --------------------------
(***************************************************************************)
(* Theorems about Cancellable, for any number of calls and streams, when   *)
(* the host never gives a handle number out twice (as the repository's own *)
(* ResourceManager does).                                                  *)
(***************************************************************************)
EXTENDS Cancellable, TLAPS

(* The call in progress is one of the calls, and so is every subscriber.   *)
LEMMA CallInProgress ==
  ASSUME TypeOK
  PROVE  /\ NoCall \notin started /\ current # NoCall => current \in Calls
         /\ \A h \in DOMAIN table : table[h].call \in Calls
BY CancellableAssumption DEF TypeOK, CancellableAssumption, Events

(* Nothing is subscribed before the first call.                            *)
LEMMA InvInit == Init => IInv
BY CancellableAssumption DEF CancellableAssumption, Init, IInv, TypeOK, PollableLive, CancelSound,
   NoLeak, HandlesDiffer, Entries, LeftBehind, None

(* A subscription gets a number nobody has.                                *)
LEMMA FreshHandle ==
  ASSUME ~ Reuse, TypeOK, NEW h \in NewHandles, NEW e \in Events, Subscribe(h, e)
  PROVE  /\ h = nextID + 1 /\ nextID' = nextID + 1 /\ h \notin DOMAIN table
         /\ h \in 1 .. nextID' /\ \A c \in Calls : h # poll[c] /\ h # stream[c]
         /\ DOMAIN table' = DOMAIN table \cup {h} /\ table'[h] = e
         /\ \A x \in DOMAIN table : table'[x] = table[x]
         /\ DOMAIN table' \subseteq 1 .. nextID' /\ table' \in [DOMAIN table' -> Events]
<1>1. h = nextID + 1 /\ nextID \in Nat /\ DOMAIN table \subseteq 1 .. nextID
      /\ poll \in [Calls -> 0 .. nextID] /\ stream \in [Calls -> 0 .. nextID]
      /\ table \in [DOMAIN table -> Events]
  BY DEF NewHandles, TypeOK
<1>2. nextID' = nextID + 1 /\ h \notin DOMAIN table
  BY <1>1 DEF Subscribe
<1>3. table' = [x \in DOMAIN table \cup {h} |-> IF x = h THEN e ELSE table[x]]
  BY DEF Subscribe
<1>4. /\ DOMAIN table' = DOMAIN table \cup {h} /\ table'[h] = e
      /\ \A x \in DOMAIN table : table'[x] = table[x]
  BY <1>2, <1>3
<1>5. h \in 1 .. nextID' /\ \A c \in Calls : h # poll[c] /\ h # stream[c]
  BY <1>1, <1>2
<1>6. DOMAIN table' \subseteq 1 .. nextID'
  BY <1>1, <1>2, <1>4
<1>7. table' \in [DOMAIN table' -> Events]
  BY <1>1, <1>2, <1>3, <1>4
<1> QED
  BY <1>1, <1>2, <1>4, <1>5, <1>6, <1>7

(* Dropping a number removes at most its entry.                            *)
LEMMA DropEffect ==
  ASSUME TypeOK, NEW h, Drop(h)
  PROVE  /\ DOMAIN table' = DOMAIN table \ {h} /\ nextID' = nextID
         /\ \A x \in DOMAIN table' : table'[x] = table[x]
         /\ DOMAIN table' \subseteq 1 .. nextID' /\ table' \in [DOMAIN table' -> Events]
BY DEF Drop, TypeOK

(* A handler starts.                                                       *)
LEMMA BeginStep ==
  ASSUME IInv, ~ Reuse, NEW c \in Calls, Begin(c)
  PROVE  IInv'
<1>1. TypeOK /\ NoLeak /\ HandlesDiffer /\ LeftBehind
  BY DEF IInv
<1>2. PICK h \in NewHandles : Subscribe(h, CancelOf(c)) /\ poll' = [poll EXCEPT ![c] = h]
  BY DEF Begin
<1>3. CancelOf(c) \in Events
  BY DEF CancelOf, Events
<1>4. /\ h = nextID + 1 /\ nextID' = nextID + 1 /\ h \notin DOMAIN table
      /\ h \in 1 .. nextID' /\ \A d \in Calls : h # poll[d] /\ h # stream[d]
      /\ DOMAIN table' = DOMAIN table \cup {h} /\ table'[h] = CancelOf(c)
      /\ DOMAIN table' \subseteq 1 .. nextID' /\ table' \in [DOMAIN table' -> Events]
  BY <1>1, <1>2, <1>3, FreshHandle
<1>5. /\ current = NoCall /\ c \notin started /\ started' = started \cup {c} /\ current' = c
      /\ mode' = "running" /\ opened' = 0 /\ watching' = watching \cup {c}
      /\ UNCHANGED <<requested, canceled, stream>>
  BY DEF Begin
<1>6. /\ poll'[c] = h /\ \A d \in Calls \ {c} : poll'[d] = poll[d]
      /\ nextID \in Nat
  BY <1>1, <1>2 DEF TypeOK
<1>7. DOMAIN table = {} /\ c # NoCall /\ c \notin canceled /\ \A d \in Calls : stream[d] = None
  <2>1. NoCall \notin Calls
    BY CancellableAssumption DEF CancellableAssumption
  <2>2. DOMAIN table = {}
    BY <1>1, <1>5, <2>1, CallInProgress DEF NoLeak
  <2>3. c \notin canceled
    BY <1>1, <1>5 DEF TypeOK
  <2>4. \A d \in Calls : stream[d] = None
    BY <1>1, <1>5, <2>1 DEF HandlesDiffer
  <2> QED
    BY <2>1, <2>2, <2>3, <2>4
<1>8. TypeOK'
  <2>1. poll' \in [Calls -> 0 .. nextID'] /\ stream' \in [Calls -> 0 .. nextID']
    BY <1>1, <1>2, <1>4, <1>5, <1>6 DEF TypeOK
  <2> QED
    BY <1>1, <1>4, <1>5, <2>1, CancellableAssumption DEF TypeOK, CancellableAssumption
<1>9. PollableLive' /\ CancelSound' /\ NoLeak' /\ Entries' /\ LeftBehind'
  <2>1. DOMAIN table' = {h} /\ table'[h] = CancelOf(c) /\ poll'[c] = h /\ stream'[c] = None
    BY <1>4, <1>5, <1>6, <1>7
  <2>2. PollableLive' /\ Entries'
    BY <1>5, <2>1 DEF PollableLive, Entries, CancelOf
  <2>3. NoLeak'
    BY <1>5, <2>1 DEF NoLeak, CancelOf
  <2>4. CancelSound'
    BY <1>5, <1>7 DEF CancelSound
  <2>5. LeftBehind'
    <3>1. \A d \in watching : d # NoCall
      BY <1>1, CancellableAssumption DEF TypeOK, CancellableAssumption
    <3> QED
      BY <1>1, <1>5, <3>1 DEF LeftBehind
  <2> QED
    BY <2>2, <2>3, <2>4, <2>5
<1>10. HandlesDiffer'
  BY <1>1, <1>4, <1>5, <1>6, <1>7 DEF HandlesDiffer, None, TypeOK
<1> QED
  BY <1>8, <1>9, <1>10 DEF IInv

(* A handler returns: its pollable goes, if its watcher left it.           *)
LEMMA ReturnStep ==
  ASSUME IInv, NEW c \in Calls, Return(c)
  PROVE  IInv'
<1>1. TypeOK /\ NoLeak /\ HandlesDiffer /\ LeftBehind /\ (current # NoCall => Entries)
  BY DEF IInv
<1>2. /\ current = c /\ stream[c] = None /\ canceled' = canceled \cup {c} /\ Drop(poll[c])
      /\ current' = NoCall
      /\ UNCHANGED <<started, mode, requested, poll, stream, opened, watching>>
  BY DEF Return, CancelDrop
<1>3. /\ DOMAIN table' = DOMAIN table \ {poll[c]} /\ nextID' = nextID
      /\ DOMAIN table' \subseteq 1 .. nextID' /\ table' \in [DOMAIN table' -> Events]
  BY <1>1, <1>2, DropEffect
<1>4. c # NoCall /\ c \in started
  BY <1>1, <1>2, CallInProgress, CancellableAssumption DEF TypeOK, CancellableAssumption
<1>5. DOMAIN table' = {}
  BY <1>1, <1>2, <1>3, <1>4 DEF Entries, TypeOK, None
<1>6. TypeOK'
  BY <1>1, <1>2, <1>3, <1>4 DEF TypeOK
<1>7. NoCall \notin canceled'
  BY <1>6, CancellableAssumption DEF TypeOK, CancellableAssumption
<1>8. PollableLive' /\ CancelSound' /\ NoLeak' /\ LeftBehind'
  BY <1>1, <1>2, <1>5, <1>7 DEF PollableLive, CancelSound, NoLeak, LeftBehind
<1>9. HandlesDiffer'
  BY <1>1, <1>2 DEF HandlesDiffer
<1> QED
  BY <1>2, <1>6, <1>8, <1>9 DEF IInv

(* A watcher ends: it drops its own pollable, or a number nobody has.      *)
LEMMA WatchStep ==
  ASSUME IInv, NEW c \in Calls, Watch(c)
  PROVE  IInv'
<1>1. TypeOK /\ PollableLive /\ CancelSound /\ NoLeak /\ HandlesDiffer /\ LeftBehind
      /\ (current # NoCall => Entries)
  BY DEF IInv
<1>2. /\ c \in watching /\ current # NoCall /\ canceled' = canceled \cup {c} /\ Drop(poll[c])
      /\ watching' = watching \ {c} /\ (TRUE \in Ready(poll[c]) \/ c \in canceled)
      /\ UNCHANGED <<started, current, mode, requested, poll, stream, opened>>
  BY DEF Watch, CancelDrop
<1>3. /\ DOMAIN table' = DOMAIN table \ {poll[c]} /\ nextID' = nextID
      /\ \A x \in DOMAIN table' : table'[x] = table[x]
      /\ DOMAIN table' \subseteq 1 .. nextID' /\ table' \in [DOMAIN table' -> Events]
  BY <1>1, <1>2, DropEffect
<1>4. c \in started /\ current \in started /\ current \in Calls
  BY <1>1, <1>2 DEF TypeOK
<1>5. TypeOK'
  BY <1>1, <1>2, <1>3, <1>4 DEF TypeOK
<1>6. c = current /\ c \notin canceled => c \in requested
  <2>1. SUFFICES ASSUME c = current, c \notin canceled PROVE c \in requested
    OBVIOUS
  <2>2. poll[c] \in DOMAIN table /\ table[poll[c]] = CancelOf(c)
    BY <1>1, <1>2, <2>1 DEF PollableLive
  <2>3. table[poll[c]].kind = "cancel" /\ table[poll[c]].call = c
    BY <2>2 DEF CancelOf
  <2>4. Ready(poll[c]) = {table[poll[c]].call \in requested}
    BY <2>2, <2>3 DEF Ready
  <2>5. TRUE \in Ready(poll[c])
    BY <1>2, <2>1
  <2>6. TRUE = (table[poll[c]].call \in requested)
    BY <2>4, <2>5
  <2> QED
    BY <2>3, <2>6
<1>7. c # current => c \in canceled /\ poll[c] # poll[current]
  BY <1>1, <1>2, <1>4 DEF LeftBehind, HandlesDiffer
<1>8. stream[current] # None => stream[current] # poll[c]
  BY <1>1, <1>4 DEF HandlesDiffer
<1>9. PollableLive'
  BY <1>1, <1>2, <1>3, <1>7, <1>8 DEF PollableLive
<1>10. CancelSound' /\ NoLeak' /\ LeftBehind' /\ Entries'
  BY <1>1, <1>2, <1>3, <1>6, <1>7 DEF CancelSound, NoLeak, LeftBehind, Entries
<1>11. HandlesDiffer'
  BY <1>1, <1>2 DEF HandlesDiffer
<1> QED
  BY <1>5, <1>9, <1>10, <1>11 DEF IInv

(* A handler subscribes to its output stream.                              *)
LEMMA OpenStep ==
  ASSUME IInv, ~ Reuse, NEW c \in Calls, NewOutputStream(c)
  PROVE  IInv'
<1>1. TypeOK /\ PollableLive /\ CancelSound /\ NoLeak /\ HandlesDiffer /\ LeftBehind
      /\ (current # NoCall => Entries)
  BY DEF IInv
<1>2. PICK h \in NewHandles : Subscribe(h, WritableOf(c)) /\ stream' = [stream EXCEPT ![c] = h]
  BY DEF NewOutputStream
<1>3. WritableOf(c) \in Events
  BY DEF WritableOf, Events
<1>4. /\ h = nextID + 1 /\ nextID' = nextID + 1 /\ h \notin DOMAIN table
      /\ h \in 1 .. nextID' /\ \A d \in Calls : h # poll[d] /\ h # stream[d]
      /\ DOMAIN table' = DOMAIN table \cup {h} /\ table'[h] = WritableOf(c)
      /\ \A x \in DOMAIN table : table'[x] = table[x]
      /\ DOMAIN table' \subseteq 1 .. nextID' /\ table' \in [DOMAIN table' -> Events]
  BY <1>1, <1>2, <1>3, FreshHandle
<1>5. /\ current = c /\ stream[c] = None /\ opened < MaxStreams /\ opened' = opened + 1
      /\ UNCHANGED <<started, current, mode, requested, canceled, poll, watching>>
  BY DEF NewOutputStream
<1>6. /\ stream'[c] = h /\ \A d \in Calls \ {c} : stream'[d] = stream[d]
      /\ nextID \in Nat /\ c \in started /\ c # NoCall
  BY <1>1, <1>2, <1>5, CancellableAssumption DEF TypeOK, CancellableAssumption
<1>7. TypeOK'
  <2>1. poll' \in [Calls -> 0 .. nextID'] /\ stream' \in [Calls -> 0 .. nextID']
    BY <1>1, <1>2, <1>4, <1>5, <1>6 DEF TypeOK
  <2>2. opened' \in 0 .. MaxStreams /\ nextID' \in Nat
    BY <1>1, <1>4, <1>5, CancellableAssumption DEF TypeOK, CancellableAssumption
  <2> QED
    BY <1>1, <1>4, <1>5, <2>1, <2>2 DEF TypeOK
<1>8. PollableLive' /\ CancelSound' /\ LeftBehind'
  BY <1>1, <1>4, <1>5, <1>6 DEF PollableLive, CancelSound, LeftBehind
<1>9. NoLeak' /\ Entries'
  BY <1>1, <1>4, <1>5, <1>6 DEF NoLeak, Entries, WritableOf, TypeOK, None
<1>10. HandlesDiffer'
  <2>1. started \subseteq Calls
    BY <1>1 DEF TypeOK
  <2> QED
    BY <1>1, <1>4, <1>5, <1>6, <2>1 DEF HandlesDiffer
<1> QED
  BY <1>7, <1>8, <1>9, <1>10 DEF IInv

(* It closes the stream.                                                   *)
LEMMA CloseStep ==
  ASSUME IInv, NEW c \in Calls, CloseStream(c)
  PROVE  IInv'
<1>1. TypeOK /\ PollableLive /\ CancelSound /\ NoLeak /\ HandlesDiffer /\ LeftBehind
      /\ (current # NoCall => Entries)
  BY DEF IInv
<1>2. /\ current = c /\ stream[c] # None /\ Drop(stream[c])
      /\ stream' = [stream EXCEPT ![c] = None]
      /\ UNCHANGED <<started, current, mode, requested, canceled, poll, opened, watching>>
  BY DEF CloseStream
<1>3. /\ DOMAIN table' = DOMAIN table \ {stream[c]} /\ nextID' = nextID
      /\ \A x \in DOMAIN table' : table'[x] = table[x]
      /\ DOMAIN table' \subseteq 1 .. nextID' /\ table' \in [DOMAIN table' -> Events]
  BY <1>1, <1>2, DropEffect
<1>4. /\ stream'[c] = None /\ \A d \in Calls \ {c} : stream'[d] = stream[d]
      /\ c \in started /\ c # NoCall /\ poll[c] # stream[c] /\ started \subseteq Calls
  BY <1>1, <1>2, CancellableAssumption DEF TypeOK, CancellableAssumption, HandlesDiffer
<1>5. TypeOK'
  <2>1. stream' \in [Calls -> 0 .. nextID']
    BY <1>1, <1>2, <1>3 DEF TypeOK, None
  <2> QED
    BY <1>1, <1>2, <1>3, <2>1 DEF TypeOK
<1>6. PollableLive' /\ CancelSound' /\ LeftBehind' /\ NoLeak'
  BY <1>1, <1>2, <1>3, <1>4 DEF PollableLive, CancelSound, LeftBehind, NoLeak
<1>7. Entries'
  BY <1>1, <1>2, <1>3, <1>4 DEF Entries
<1>8. HandlesDiffer'
  BY <1>1, <1>2, <1>4 DEF HandlesDiffer
<1> QED
  BY <1>5, <1>6, <1>7, <1>8 DEF IInv

(* Steps that touch neither handles nor contexts.                          *)
LEMMA OtherSteps ==
  ASSUME IInv, Park \/ Resume \/ Block \/ RoomMade \/ RequestCancel \/ UNCHANGED vars
  PROVE  IInv'
<1>1. TypeOK /\ PollableLive /\ CancelSound /\ NoLeak /\ HandlesDiffer /\ LeftBehind
      /\ (current # NoCall => Entries)
  BY DEF IInv
<1>2. /\ UNCHANGED <<started, current, canceled, poll, stream, opened, watching, table, nextID>>
      /\ mode' \in {"running", "parked", "blocked"}
      /\ requested \subseteq requested' /\ requested' \subseteq started
  BY <1>1 DEF TypeOK, Park, Resume, Block, RoomMade, RequestCancel, vars
<1> QED
  BY <1>1, <1>2 DEF IInv, TypeOK, PollableLive, CancelSound, NoLeak, HandlesDiffer, LeftBehind, Entries

(* On such a host the invariant holds in every reachable state.            *)
THEOREM Invariant ==
  ASSUME ~ Reuse
  PROVE  Spec => []IInv
<1>1. IInv /\ [Next]_vars => IInv'
  BY BeginStep, ReturnStep, WatchStep, OpenStep, CloseStep, OtherSteps DEF Next
<1> QED
  BY <1>1, InvInit, PTL DEF Spec

(* Every variable keeps its type.                                          *)
THEOREM TypesHold ==
  ASSUME ~ Reuse
  PROVE  Spec => []TypeOK
<1>1. IInv => TypeOK
  BY DEF IInv
<1> QED
  BY <1>1, Invariant, PTL

(* A running call's context is cancelled only on the host's request, for   *)
(* any number of watchers left behind by earlier calls.                    *)
THEOREM CancelledOnRequestOnly ==
  ASSUME ~ Reuse
  PROVE  Spec => []CancelSound
<1>1. IInv => CancelSound
  BY DEF IInv
<1> QED
  BY <1>1, Invariant, PTL

(* The pollables a running call uses stay alive and its own, although      *)
(* cancelDrop runs twice for every call.                                   *)
THEOREM PollablesStayLive ==
  ASSUME ~ Reuse
  PROVE  Spec => []PollableLive
<1>1. IInv => PollableLive
  BY DEF IInv
<1> QED
  BY <1>1, Invariant, PTL

(* Between calls the component holds no pollable.                          *)
THEOREM NothingLeaks ==
  ASSUME ~ Reuse
  PROVE  Spec => []NoLeak
<1>1. IInv => NoLeak
  BY DEF IInv
<1> QED
  BY <1>1, Invariant, PTL
==============================================================================
