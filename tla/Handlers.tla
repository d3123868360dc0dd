------------------------------- MODULE Handlers -------------------------------
(***************************************************************************)
(* main.go RegisterDriver: the exports the host calls, each of which looks *)
(* for the Go interface it needs, runs the driver under a context that is  *)
(* subscribed to the host's cancellable, and turns the driver's error into *)
(* a driver-errors value (adapter/error.go).  The host learns from         *)
(* get-properties which operations it may call.                            *)
(*                                                                         *)
(* The driver is external: it may implement any of the optional interfaces *)
(* and answer a call with any error.  A Go error is the set of the         *)
(* sentinels errors.Is finds in it.                                        *)
(***************************************************************************)
EXTENDS FiniteSets, Naturals

CONSTANTS
  Drivers,       (* which optional interfaces the driver may implement *)
  Declarations,  (* what Capabilitys the driver may fill in itself     *)
  MaxChain       (* sentinels in one error (bound)                     *)

Optional == {"Getter", "StreamReader", "Mkdir", "Move", "Rename", "Copy", "Remove", "Put"}

Sentinels == {"invalid-handle", "not-implemented", "not-support", "not-found",
              "not-folder", "not-file", "unauthorized"}
DriverErrors == Sentinels \cup {"generic"}

(* The interface a handler asks for; the others need only Driver. *)
Needs == [GetFile |-> "Getter", LinkRange |-> "StreamReader", MakeDir |-> "Mkdir",
          RenameFile |-> "Rename", MoveFile |-> "Move", RemoveFile |-> "Remove",
          CopyFile |-> "Copy", UploadFile |-> "Put"]
Plain == {"Init", "Drop", "GetRoot", "ListFiles", "LinkFile"}
Operations == DOMAIN Needs \cup Plain

(* The capability that stands for an operation (driver.wit).  *)
CapabilityOf == [GetFile |-> "get-file", ListFiles |-> "list-file", LinkFile |-> "link-file",
                 MakeDir |-> "mkdir-file", RenameFile |-> "rename-file",
                 MoveFile |-> "move-file", RemoveFile |-> "remove-file",
                 CopyFile |-> "copy-file", UploadFile |-> "upload-file"]
Capabilities == {CapabilityOf[op] : op \in DOMAIN CapabilityOf}

ASSUME HandlersAssumption ==
  /\ Drivers \subseteq SUBSET Optional
  /\ Declarations \subseteq SUBSET Capabilities /\ MaxChain \in Nat

VARIABLES
  impl,        (* the optional interfaces the driver implements     *)
  declared,    (* the Capabilitys it fills in; {} leaves them to us *)
  advertised,  (* what get-properties has told the host             *)
  known,       (* has the host asked?                               *)
  op,          (* the operation in progress, or "none"              *)
  subscribed,  (* contexts subscribed and not yet cancelled         *)
  cause,       (* the error the driver returned last                *)
  answer       (* the last answer: which operation, from whom, what *)

vars == <<impl, declared, advertised, known, op, subscribed, cause, answer>>

NoAnswer == [op |-> "none", by |-> "nobody", result |-> "ok"]

Init ==
  /\ impl \in Drivers /\ declared \in Declarations
  /\ advertised = {} /\ known = FALSE
  /\ op = "none" /\ subscribed = 0 /\ cause = {}
  /\ answer = NoAnswer

-----------------------------------------------------------------------------
(* Mutant of AutoCapabilities: the flags of Move and Copy are exchanged. *)
AutoCapabilitiesSwapped ==
  {"link-file", "list-file"}
  \cup {cap \in {"get-file", "mkdir-file", "move-file", "copy-file", "rename-file",
                 "remove-file", "upload-file"} :
          \E i \in impl : <<i, cap>> \in
            {<<"Getter", "get-file">>, <<"Mkdir", "mkdir-file">>, <<"Move", "copy-file">>,
             <<"Copy", "move-file">>, <<"Rename", "rename-file">>,
             <<"Remove", "remove-file">>, <<"Put", "upload-file">>}}

(* GetProperties: the flags of the interfaces found; every Driver is a     *)
(* Reader.                                                                 *)
AutoCapabilities ==
  {"link-file", "list-file"}
  \cup {cap \in {"get-file", "mkdir-file", "move-file", "copy-file", "rename-file",
                 "remove-file", "upload-file"} :
          \E i \in impl : <<i, cap>> \in
            {<<"Getter", "get-file">>, <<"Mkdir", "mkdir-file">>, <<"Move", "move-file">>,
             <<"Copy", "copy-file">>, <<"Rename", "rename-file">>,
             <<"Remove", "remove-file">>, <<"Put", "upload-file">>}}

GetProperties ==
  /\ op = "none"
  /\ known' = TRUE
  /\ advertised' = IF declared = {} THEN AutoCapabilities ELSE declared
  /\ UNCHANGED <<impl, declared, op, subscribed, cause, answer>>

(* ErrorToDriverError: the first sentinel found, in the order of the switch. *)
SwitchOrder == <<"invalid-handle", "not-implemented", "not-found", "not-folder",
                 "not-file", "unauthorized">>

(* Mutant of ErrorToDriverError: the case of ErrNotFile is missing. *)
ErrorToDriverErrorNoFile(err) ==
  LET hits == {i \in DOMAIN SwitchOrder : SwitchOrder[i] \in err \ {"not-file"}}
  IN  IF hits = {} THEN "generic"
      ELSE SwitchOrder[CHOOSE i \in hits : \A j \in hits : i <= j]

ErrorToDriverError(err) ==
  LET hits == {i \in DOMAIN SwitchOrder : SwitchOrder[i] \in err}
  IN  IF hits = {} THEN "generic"
      ELSE SwitchOrder[CHOOSE i \in hits : \A j \in hits : i <= j]

Implements(o) == o \in Plain \cup {p \in DOMAIN Needs : Needs[p] \in impl}

(* The handler makes a context of its own, under which the driver runs.    *)
(* LinkRange does so before it looks for the interface.                    *)
Start(o) ==
  /\ op = "none" /\ (Implements(o) \/ o = "LinkRange")
  /\ op' = o /\ subscribed' = subscribed + 1
  /\ cause' = {} /\ answer' = NoAnswer
  /\ UNCHANGED <<impl, declared, advertised, known>>

NotImplemented(o) == answer' = [op |-> o, by |-> "handler", result |-> "not-implemented"]

(* The driver lacks the interface. *)
Refuse(o) ==
  /\ op = "none" /\ ~ Implements(o) /\ o # "LinkRange"
  /\ NotImplemented(o)
  /\ UNCHANGED <<impl, declared, advertised, known, op, subscribed, cause>>

(* Mutant of RefuseLate: LinkRange returns before its cancel is deferred. *)
RefuseLateKeepingContext ==
  /\ op = "LinkRange" /\ ~ Implements(op)
  /\ NotImplemented(op)
  /\ op' = "none"
  /\ UNCHANGED <<impl, declared, advertised, known, subscribed, cause>>

(* LinkRange finds that the driver lacks it; the deferred cancel runs. *)
RefuseLate ==
  /\ op = "LinkRange" /\ ~ Implements(op)
  /\ NotImplemented(op)
  /\ op' = "none" /\ subscribed' = subscribed - 1
  /\ UNCHANGED <<impl, declared, advertised, known, cause>>

(* The driver is done; the deferred cancel runs.  A driver that returns no *)
(* error returns what was asked for: a nil object, which GetFile, GetRoot  *)
(* and LinkFile would dereference, is left out.                            *)
Succeed ==
  /\ op # "none" /\ Implements(op)
  /\ answer' = [op |-> op, by |-> "driver", result |-> "ok"]
  /\ op' = "none" /\ subscribed' = subscribed - 1
  /\ UNCHANGED <<impl, declared, advertised, known, cause>>

Fail(err) ==
  /\ op # "none" /\ Implements(op)
  /\ answer' = [op |-> op, by |-> "driver", result |-> ErrorToDriverError(err)]
  /\ cause' = err
  /\ op' = "none" /\ subscribed' = subscribed - 1
  /\ UNCHANGED <<impl, declared, advertised, known>>

Errors == {e \in SUBSET Sentinels : Cardinality(e) <= MaxChain}

Next ==
  \/ GetProperties
  \/ \E o \in Operations : Start(o) \/ Refuse(o)
  \/ RefuseLate \/ Succeed
  \/ \E err \in Errors : Fail(err)

Spec == Init /\ [][Next]_vars

-----------------------------------------------------------------------------
TypeOK ==
  /\ impl \in Drivers /\ declared \in Declarations
  /\ advertised \subseteq Capabilities /\ known \in BOOLEAN
  /\ op \in Operations \cup {"none"} /\ subscribed \in 0 .. 1
  /\ cause \subseteq Sentinels
  /\ answer \in [op : Operations \cup {"none"}, by : {"nobody", "handler", "driver"},
                 result : DriverErrors \cup {"ok"}]

(* When the capabilities are detected and not declared, the host is told   *)
(* of exactly the operations the handlers do not refuse (GetProperties     *)
(* against the type assertions of the handlers).                           *)
AdvertisedExactly ==
  known /\ declared = {} /\ answer.op \in DOMAIN CapabilityOf =>
    (CapabilityOf[answer.op] \in advertised <=> answer.by = "driver")

(* No operation leaves a subscription behind, whether it is answered by    *)
(* the driver or refused (the deferred cancel of every handler).           *)
ContextReleased == op = "none" => subscribed = 0

(* The host can tell the cause of an error: the answer is one of the       *)
(* sentinels the driver's error wraps, and it is the generic error only    *)
(* when there is none (ErrorToDriverError).                                *)
Answered(err) ==
  IF err = {} THEN answer.result = "generic" ELSE answer.result \in err

Failed == answer.by = "driver" /\ answer.result # "ok"
CauseKept == Failed /\ "not-support" \notin cause => Answered(cause)

(* The same of ErrNotSupport, which the package defines as the counterpart *)
(* of not-support in driver-errors.                                        *)
NotSupportKept == Failed /\ cause = {"not-support"} => Answered(cause)
==============================================================================
