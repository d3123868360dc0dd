--------------------------- MODULE HandlersProofs ---------------------------
(***************************************************************************)
(* The answers of the handlers, for every set of drivers and declarations  *)
(* and errors of every length.  The invariant adds to the run's properties *)
(* what an answer remembers: who gave it is decided by the interfaces the  *)
(* driver has, and a detected set of capabilities is that of the driver.   *)
(* It holds with the crossings of Calls too, which leave the handlers'     *)
(* state alone.                                                            *)
(***************************************************************************)
EXTENDS Calls, TLAPS

(* What a handler has answered fits what the driver implements; between    *)
(* calls no context is held.                                               *)
AnswerOK ==
  /\ op # "none" => subscribed = 1
  /\ op = "none" => subscribed = 0
  /\ answer.by = "driver" => Implements(answer.op)
  /\ answer.by = "handler" => ~ Implements(answer.op) /\ answer.result = "not-implemented"
  /\ answer.op # "none" => answer.by # "nobody"
  /\ known /\ declared = {} => advertised = AutoCapabilities

HInv == TypeOK /\ AnswerOK /\ CauseKept

-----------------------------------------------------------------------------
(* The least element that the switch of ErrorToDriverError finds. *)
LEMMA FirstHit ==
  ASSUME NEW hits \in SUBSET (1 .. 6), hits # {}
  PROVE  \E i \in hits : \A j \in hits : i <= j
<1>1. CASE 1 \in hits BY <1>1, SMT
<1>2. CASE 1 \notin hits /\ 2 \in hits BY <1>2, SMT
<1>3. CASE 1 \notin hits /\ 2 \notin hits /\ 3 \in hits BY <1>3, SMT
<1>4. CASE 1 \notin hits /\ 2 \notin hits /\ 3 \notin hits /\ 4 \in hits BY <1>4, SMT
<1>5. CASE 1 \notin hits /\ 2 \notin hits /\ 3 \notin hits /\ 4 \notin hits /\ 5 \in hits BY <1>5, SMT
<1>6. CASE hits \cap (1 .. 5) = {}
  <2>1. \A i \in hits : i = 6 BY <1>6, SMT
  <2>2. 6 \in hits BY <2>1
  <2> QED BY <2>1, <2>2, SMT
<1>7. hits \cap (1 .. 5) # {} => 1 \in hits \/ 2 \in hits \/ 3 \in hits \/ 4 \in hits \/ 5 \in hits
  BY SMT
<1> QED BY <1>1, <1>2, <1>3, <1>4, <1>5, <1>6, <1>7

LEMMA SwitchFacts ==
  /\ DOMAIN SwitchOrder = 1 .. 6
  /\ \A i \in 1 .. 6 : SwitchOrder[i] \in Sentinels
  /\ \A s \in Sentinels \ {"not-support"} : \E i \in 1 .. 6 : SwitchOrder[i] = s
BY SMT DEF SwitchOrder, Sentinels

(* ErrorToDriverError finds one of the sentinels that the error wraps, and *)
(* none only when the error wraps none, or ErrNotSupport alone.            *)
THEOREM ErrorCode ==
  ASSUME NEW err \in SUBSET Sentinels
  PROVE  /\ ErrorToDriverError(err) \in DriverErrors
         /\ err = {} => ErrorToDriverError(err) = "generic"
         /\ err \ {"not-support"} # {} => ErrorToDriverError(err) \in err
<1> DEFINE hits == {i \in DOMAIN SwitchOrder : SwitchOrder[i] \in err}
<1>1. hits \in SUBSET (1 .. 6) BY SwitchFacts
<1>2. CASE hits = {}
  <2>1. ErrorToDriverError(err) = "generic" BY <1>2 DEF ErrorToDriverError
  <2>2. err \ {"not-support"} = {} BY <1>2, SwitchFacts
  <2> QED BY <2>1, <2>2 DEF DriverErrors
<1>3. CASE hits # {}
  <2> DEFINE first == CHOOSE i \in hits : \A j \in hits : i <= j
  <2>1. first \in hits BY <1>1, <1>3, FirstHit
  <2>2. ErrorToDriverError(err) = SwitchOrder[first] BY <1>3 DEF ErrorToDriverError
  <2>3. SwitchOrder[first] \in err BY <2>1
  <2> QED BY <2>2, <2>3 DEF DriverErrors
<1> QED BY <1>2, <1>3

(* Detected capabilities are those of the operations not refused. *)
LEMMA DetectedExactly ==
  ASSUME NEW o \in DOMAIN CapabilityOf
  PROVE  CapabilityOf[o] \in AutoCapabilities <=> Implements(o)
<1>1. o \in {"GetFile", "ListFiles", "LinkFile", "MakeDir", "RenameFile", "MoveFile",
             "RemoveFile", "CopyFile", "UploadFile"} BY DEF CapabilityOf
<1>2. CASE o = "GetFile"    BY <1>2 DEF CapabilityOf, AutoCapabilities, Implements, Needs, Plain
<1>3. CASE o = "ListFiles"  BY <1>3 DEF CapabilityOf, AutoCapabilities, Implements, Needs, Plain
<1>4. CASE o = "LinkFile"   BY <1>4 DEF CapabilityOf, AutoCapabilities, Implements, Needs, Plain
<1>5. CASE o = "MakeDir"    BY <1>5 DEF CapabilityOf, AutoCapabilities, Implements, Needs, Plain
<1>6. CASE o = "RenameFile" BY <1>6 DEF CapabilityOf, AutoCapabilities, Implements, Needs, Plain
<1>7. CASE o = "MoveFile"   BY <1>7 DEF CapabilityOf, AutoCapabilities, Implements, Needs, Plain
<1>8. CASE o = "RemoveFile" BY <1>8 DEF CapabilityOf, AutoCapabilities, Implements, Needs, Plain
<1>9. CASE o = "CopyFile"   BY <1>9 DEF CapabilityOf, AutoCapabilities, Implements, Needs, Plain
<1>10. CASE o = "UploadFile" BY <1>10 DEF CapabilityOf, AutoCapabilities, Implements, Needs, Plain
<1> QED BY <1>1, <1>2, <1>3, <1>4, <1>5, <1>6, <1>7, <1>8, <1>9, <1>10

LEMMA AutoSubset == AutoCapabilities \subseteq Capabilities
<1>1. ASSUME NEW cap \in AutoCapabilities PROVE \E o \in DOMAIN CapabilityOf : CapabilityOf[o] = cap
  <2>1. cap \in {"get-file", "list-file", "link-file", "mkdir-file", "rename-file", "move-file",
                 "remove-file", "copy-file", "upload-file"} BY DEF AutoCapabilities
  <2> QED BY <2>1 DEF CapabilityOf
<1> QED BY <1>1 DEF Capabilities

LEMMA OperationNames == "none" \notin Operations /\ DOMAIN CapabilityOf \subseteq Operations
BY DEF Operations, Needs, Plain, CapabilityOf

-----------------------------------------------------------------------------
LEMMA InitHInv == Init => HInv
<1> SUFFICES ASSUME Init PROVE HInv
  OBVIOUS
<1>1. TypeOK
  <2>1. subscribed \in 0 .. 1 BY SMT DEF Init
  <2>2. answer \in [op : Operations \cup {"none"}, by : {"nobody", "handler", "driver"},
                    result : DriverErrors \cup {"ok"}]
    BY DEF Init, NoAnswer
  <2>3. known \in BOOLEAN BY DEF Init
  <2> QED BY <2>1, <2>2, <2>3 DEF Init, TypeOK
<1>2. AnswerOK BY DEF Init, AnswerOK, NoAnswer
<1>3. CauseKept BY DEF Init, CauseKept, Failed, NoAnswer
<1> QED BY <1>1, <1>2, <1>3 DEF HInv

LEMMA NextHInv == HInv /\ [Next]_vars => HInv'
<1> SUFFICES ASSUME HInv, [Next]_vars PROVE HInv'
  OBVIOUS
<1> USE DEF HInv
<1>1. CASE GetProperties
  <2>1. TypeOK' BY <1>1, AutoSubset, HandlersAssumption DEF TypeOK, GetProperties
  <2>2. AnswerOK' BY <1>1 DEF AnswerOK, GetProperties, Implements, AutoCapabilities
  <2>3. CauseKept' BY <1>1 DEF CauseKept, Failed, Answered, GetProperties
  <2> QED BY <2>1, <2>2, <2>3
<1>2. ASSUME NEW o \in Operations, Start(o) PROVE HInv'
  <2>1. TypeOK' BY <1>2 DEF TypeOK, AnswerOK, Start, NoAnswer, DriverErrors
  <2>2. AnswerOK' BY <1>2, OperationNames DEF AnswerOK, Start, NoAnswer, Implements, AutoCapabilities
  <2>3. CauseKept' BY <1>2 DEF CauseKept, Failed, Start, NoAnswer
  <2> QED BY <2>1, <2>2, <2>3
<1>3. ASSUME NEW o \in Operations, Refuse(o) PROVE HInv'
  <2>1. TypeOK' BY <1>3 DEF TypeOK, Refuse, NotImplemented, DriverErrors, Sentinels
  <2>2. AnswerOK' BY <1>3 DEF AnswerOK, Refuse, NotImplemented, Implements, AutoCapabilities
  <2>3. CauseKept' BY <1>3 DEF CauseKept, Failed, Refuse, NotImplemented
  <2> QED BY <2>1, <2>2, <2>3
<1>7. CASE RefuseLate
  <2>1. TypeOK' BY <1>7 DEF TypeOK, AnswerOK, RefuseLate, NotImplemented, DriverErrors, Sentinels
  <2>2. AnswerOK' BY <1>7 DEF TypeOK, AnswerOK, RefuseLate, NotImplemented, Implements, AutoCapabilities
  <2>3. CauseKept' BY <1>7 DEF CauseKept, Failed, RefuseLate, NotImplemented
  <2> QED BY <2>1, <2>2, <2>3
<1>4. CASE Succeed
  <2>1. TypeOK' BY <1>4 DEF TypeOK, AnswerOK, Succeed
  <2>2. AnswerOK' BY <1>4 DEF TypeOK, AnswerOK, Succeed, Implements, AutoCapabilities
  <2>3. CauseKept' BY <1>4 DEF CauseKept, Failed, Succeed
  <2> QED BY <2>1, <2>2, <2>3
<1>5. ASSUME NEW err \in Errors, Fail(err) PROVE HInv'
  <2>1. err \in SUBSET Sentinels BY <1>5 DEF Errors
  <2>2. TypeOK' BY <1>5, <2>1, ErrorCode DEF TypeOK, AnswerOK, Fail
  <2>3. AnswerOK' BY <1>5 DEF TypeOK, AnswerOK, Fail, Implements, AutoCapabilities
  <2>4. CauseKept' BY <1>5, <2>1, ErrorCode DEF CauseKept, Failed, Answered, Fail
  <2> QED BY <2>2, <2>3, <2>4
<1>6. CASE UNCHANGED vars
  BY <1>6 DEF vars, TypeOK, AnswerOK, CauseKept, Failed, Answered, Implements, AutoCapabilities
<1> QED BY <1>1, <1>2, <1>3, <1>4, <1>5, <1>6, <1>7 DEF Next

LEMMA HInvSafe == HInv => TypeOK /\ AdvertisedExactly /\ ContextReleased /\ CauseKept
<1> SUFFICES ASSUME HInv PROVE AdvertisedExactly /\ ContextReleased
  BY DEF HInv
<1>1. AdvertisedExactly
  <2> SUFFICES ASSUME known, declared = {}, answer.op \in DOMAIN CapabilityOf
               PROVE  CapabilityOf[answer.op] \in advertised <=> answer.by = "driver"
    BY DEF AdvertisedExactly
  <2>1. answer.by = "driver" <=> Implements(answer.op)
    BY OperationNames DEF HInv, TypeOK, AnswerOK
  <2>2. advertised = AutoCapabilities BY DEF HInv, AnswerOK
  <2> QED BY <2>1, <2>2, DetectedExactly
<1>2. ContextReleased BY DEF HInv, AnswerOK, ContextReleased
<1> QED BY <1>1, <1>2

LEMMA HandlersInvariant == Spec => []HInv
BY InitHInv, NextHInv, PTL DEF Spec

(* The handlers' state keeps its type. *)
THEOREM HandlersType == Spec => []TypeOK
BY HandlersInvariant, HInvSafe, PTL

(* Whatever the driver implements, the host is told of the operations the  *)
(* handlers carry out and of no other.                                     *)
THEOREM Advertised == Spec => []AdvertisedExactly
BY HandlersInvariant, HInvSafe, PTL

(* No subscription outlives its operation. *)
THEOREM Released == Spec => []ContextReleased
BY HandlersInvariant, HInvSafe, PTL

(* Errors that wrap any number of sentinels reach the host as one of them. *)
THEOREM CauseReported == Spec => []CauseKept
BY HandlersInvariant, HInvSafe, PTL
-----------------------------------------------------------------------------
(* A call that crosses the boundary is a call of the handlers, or leaves   *)
(* them as they are.                                                       *)
LEMMA CallStep == [CallsNext]_callVars => [Next]_vars
<1> SUFFICES ASSUME [CallsNext]_callVars PROVE [Next]_vars OBVIOUS
<1>1. CASE CallProperties BY <1>1 DEF CallProperties, Next
<1>2. CASE CallFormMeta BY <1>2 DEF CallFormMeta
<1>3. CASE CallSetHandle BY <1>3 DEF CallSetHandle
<1>4. ASSUME NEW o \in Operations, Call(o) PROVE [Next]_vars BY <1>4 DEF Call, Next
<1>5. ASSUME NEW o \in Operations, CallRefused(o) PROVE [Next]_vars BY <1>5 DEF CallRefused, Next
<1>10. CASE ReturnRefused BY <1>10 DEF ReturnRefused, Next
<1>6. CASE Return BY <1>6 DEF Return, Next
<1>7. ASSUME NEW err \in Errors, ReturnError(err) PROVE [Next]_vars BY <1>7 DEF ReturnError, Next
<1>8. CASE CallHost BY <1>8 DEF CallHost
<1>9. CASE UNCHANGED callVars BY <1>9 DEF callVars
<1> QED BY <1>1, <1>2, <1>3, <1>4, <1>5, <1>6, <1>7, <1>8, <1>9, <1>10 DEF CallsNext

(* A crossing only says what layouts a value takes, so that the steps of   *)
(* Calls are steps of Handlers, by their form: what is proved there may be *)
(* used here.                                                              *)
LEMMA CallsImplementHandlers == CallsSpec => Spec
<1>1. CallsInit => Init BY DEF CallsInit
<1> QED BY <1>1, CallStep, PTL DEF CallsSpec, Spec

(* What is proved of the handlers holds of the component: the host is told *)
(* of exactly the operations that are not refused, no context outlives its *)
(* call, and the answer names the cause, with every value of the interface *)
(* on its way in and out (main.go behind the bindings).                    *)
THEOREM CallsSafe == CallsSpec => [](TypeOK /\ AdvertisedExactly /\ ContextReleased /\ CauseKept)
BY CallsImplementHandlers, HandlersInvariant, HInvSafe, PTL
=============================================================================
