-------------------------------- MODULE Calls --------------------------------
(***************************************************************************)
(* The handlers behind the generated bindings: every call of an export,    *)
(* every answer of a handler and every call the driver makes to the host   *)
(* carries its values across the boundary (Crossings).                     *)
(***************************************************************************)
EXTENDS Handlers

CONSTANTS
  Imported,      (* for every import, what crosses when the driver calls it            *)
  Arguments(_),  (* what crosses when an export is called                              *)
  Answers(_)     (* what crosses when an export answers, each with the answer's outcome *)

VARIABLES crossing  (* the last values that crossed: of which call, what got lost, what was made up *)

callVars == <<vars, crossing>>

-----------------------------------------------------------------------------
(* The export that stands for an operation of the handlers. *)
ExportOf ==
  [Init |-> "init", Drop |-> "drop", GetRoot |-> "get-root", GetFile |-> "get-file",
   ListFiles |-> "list-files", LinkFile |-> "link-file", LinkRange |-> "link-range",
   MakeDir |-> "make-dir", RenameFile |-> "rename-file", MoveFile |-> "move-file",
   RemoveFile |-> "remove-file", CopyFile |-> "copy-file", UploadFile |-> "upload-file"]

ExportNames == {"set-handle", "get-properties", "get-form-meta"} \cup {ExportOf[o] : o \in Operations}

Quiet == [call |-> "none", lost |-> {}, extra |-> {}]

ToHost     == UNION Imported
ToDriver   == [name \in ExportNames |-> Arguments(name)]
FromDriver == [name \in ExportNames |-> Answers(name)]

Arrives(f) == crossing' \in ToDriver[f]
Returns(f, outcome) == \E r \in FromDriver[f] : outcome \subseteq r.outcome /\ crossing' = r.crossing

-----------------------------------------------------------------------------
CallsInit == Init /\ crossing = Quiet

CallProperties == GetProperties /\ Returns("get-properties", {})
CallFormMeta   == op = "none" /\ Returns("get-form-meta", {}) /\ UNCHANGED vars
CallSetHandle  == op = "none" /\ Arrives("set-handle") /\ UNCHANGED vars
Call(o)        == Start(o) /\ Arrives(ExportOf[o])
CallRefused(o) ==
  /\ Refuse(o)
  /\ Arrives(ExportOf[o]) \/ Returns(ExportOf[o], {"err", "not-implemented"})
ReturnRefused  == RefuseLate /\ Returns(ExportOf[op], {"err", "not-implemented"})
Return         == Succeed /\ Returns(ExportOf[op], {"ok"})
ReturnError(err) == Fail(err) /\ Returns(ExportOf[op], {"err", ErrorToDriverError(err)})
CallHost       == op # "none" /\ crossing' \in ToHost /\ UNCHANGED vars

CallsNext ==
  \/ CallProperties \/ CallFormMeta \/ CallSetHandle
  \/ \E o \in Operations : Call(o) \/ CallRefused(o)
  \/ ReturnRefused \/ Return
  \/ \E err \in Errors : ReturnError(err)
  \/ CallHost

CallsSpec == CallsInit /\ [][CallsNext]_callVars

-----------------------------------------------------------------------------
(* Every value arrives as it was sent: the layouts of the Go declarations  *)
(* agree with those of the interface, no two parts of a value share bytes  *)
(* or slots, and no block moves without its data (the bindings and         *)
(* cabi_realloc).                                                          *)
CrossingExact == crossing.lost = {} /\ crossing.extra = {}

==============================================================================
