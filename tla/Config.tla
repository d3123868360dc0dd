-------------------------------- MODULE Config --------------------------------
(***************************************************************************)
(* manager.go: the driver's configuration, which the host keeps as a JSON  *)
(* text.  The host tells the component its handle with set-handle;         *)
(* LoadConfig and SaveConfig pass it back, and convert between the text    *)
(* and the driver's struct.                                                *)
(*                                                                         *)
(* The conversion is encoding/json, external: modelled by what it keeps    *)
(* and what it loses.  It writes the exported fields, save for those       *)
(* tagged omitempty that are zero; it reads into a struct that has values  *)
(* already, skips a member of the wrong type, and reports it at the end.   *)
(***************************************************************************)
EXTENDS Naturals

CONSTANTS
  Fields,           (* exported fields of the struct                          *)
  Omitted,          (* those of them tagged omitempty                         *)
  Hidden,           (* fields that JSON leaves out                            *)
  Values, Zero,     (* what a field can hold; a new struct has Zero           *)
  Unsupported,      (* a value that json.Marshal refuses, such as NaN         *)
  Mistyped,         (* JSON that fits no field                                *)
  NotJSON,          (* a text that is not JSON                                *)
  Configs,          (* structs that the driver loads into and saves           *)
  FirstTexts,       (* texts that the host may keep in the beginning          *)
  InstanceHandles   (* handles the host gives its drivers, never 0            *)

Structs == [Fields \cup Hidden -> Values]
JSONValues == (Values \ {Unsupported}) \cup {Mistyped}
Objects == UNION {[members -> JSONValues] : members \in SUBSET Fields}
Texts == Objects \cup {NotJSON}

ASSUME ConfigAssumption ==
  /\ Fields \cap Hidden = {} /\ Omitted \subseteq Fields
  /\ Zero \in Values \ {Unsupported} /\ Mistyped \notin Values
  /\ NotJSON \notin Objects /\ FirstTexts \subseteq Texts
  /\ Configs \subseteq Structs /\ 0 \notin InstanceHandles

VARIABLES
  hostHeadle,  (* the handle the component uses                               *)
  stored,      (* the text the host keeps for each handle                     *)
  (* what host and driver know of it *)
  told,        (* the handle the host told last                               *)
  promised,    (* has SaveConfig ever returned nil, under each handle?        *)
  attempts     (* the structs it was called with since it last did, inclusive *)

configVars == <<hostHeadle, stored, told, promised, attempts>>

ConfigInit ==
  /\ hostHeadle = 0 /\ told = 0
  /\ stored \in [InstanceHandles -> FirstTexts]
  /\ promised = [h \in InstanceHandles |-> FALSE]
  /\ attempts = [h \in InstanceHandles |-> {}]

-----------------------------------------------------------------------------
(* encoding/json *)
Marshalable(val) == \A f \in Fields : val[f] # Unsupported

Marshal(val) == [f \in {g \in Fields : g \notin Omitted \/ val[g] # Zero} |-> val[f]]

Fitting(text) == {f \in DOMAIN text : text[f] # Mistyped}

(* The struct val after text was read into it. *)
Unmarshal(text, val) ==
  IF text = NotJSON THEN val
  ELSE [f \in Fields \cup Hidden |-> IF f \in Fitting(text) THEN text[f] ELSE val[f]]

Loads(text) == text # NotJSON /\ Fitting(text) = DOMAIN text

-----------------------------------------------------------------------------
SetHandle(h) ==
  /\ hostHeadle' = h /\ told' = h
  /\ UNCHANGED <<stored, promised, attempts>>

(* What LoadConfig(&val) may return, with val as it then is: the host's    *)
(* error, or the outcome of the conversion.  The host has nothing for a    *)
(* handle that it has not given.                                           *)
LoadConfig(val) ==
  {[err |-> "host", val |-> val]}
  \cup {[err |-> IF Loads(text) THEN "nil" ELSE "json", val |-> Unmarshal(text, val)] :
          text \in {stored[h] : h \in {hostHeadle} \cap InstanceHandles}}

ConfigErrors == {"nil", "host", "json"}

(* Mutant of SaveConfig: the host's error is not looked at. *)
SaveConfigUnchecked(val, err) ==
  /\ err = "json" <=> ~ Marshalable(val)
  /\ hostHeadle \notin InstanceHandles => err # "nil"
  /\ \/ err # "nil" /\ UNCHANGED stored
     \/ err # "json" /\ stored' = [h \in InstanceHandles |-> IF h = hostHeadle THEN Marshal(val) ELSE stored[h]]
  /\ promised' = [h \in InstanceHandles |-> promised[h] \/ (h = told /\ err # "json")]
  /\ attempts' = [h \in InstanceHandles |-> IF h = told /\ err # "json" THEN {val} ELSE attempts[h]]
  /\ UNCHANGED <<hostHeadle, told>>

(* SaveConfig(val) returns err.  A host that reports an error may have     *)
(* stored the text before it failed.                                       *)
SaveConfig(val, err) ==
  /\ err = "json" <=> ~ Marshalable(val)
  /\ hostHeadle \notin InstanceHandles => err # "nil"
  /\ \/ err # "nil" /\ UNCHANGED stored
     \/ err # "json" /\ stored' = [h \in InstanceHandles |-> IF h = hostHeadle THEN Marshal(val) ELSE stored[h]]
  /\ promised' = [h \in InstanceHandles |-> promised[h] \/ (h = told /\ err = "nil")]
  /\ attempts' = [h \in InstanceHandles |->
       IF h # told \/ err = "json" THEN attempts[h]
       ELSE IF err = "nil" THEN {val} ELSE attempts[h] \cup {val}]
  /\ UNCHANGED <<hostHeadle, told>>

-----------------------------------------------------------------------------
(* after is v, read into a struct that was before: a field that JSON       *)
(* carries is the saved one, unless v left it out as zero, and what JSON   *)
(* does not carry stays as it was.                                         *)
Restored(v, before, after) ==
  /\ \A f \in Fields : after[f] = v[f] \/ (f \in Omitted /\ v[f] = Zero /\ after[f] = before[f])
  /\ \A f \in Hidden : after[f] = before[f]

(* Once SaveConfig has returned nil, a load under the same handle gives    *)
(* back that configuration, or one that the driver has tried to save since *)
(* then; never another handle's, an older one, a mixture of two, or an     *)
(* error of the conversion.  A load that the host refuses changes nothing  *)
(* (LoadConfig and SaveConfig over set-handle, encoding/json and a host    *)
(* that may fail before or after it has stored the text).                  *)
RoundTrip ==
  \A before \in Configs : \A r \in LoadConfig(before) :
    /\ r.err = "host" => r.val = before
    /\ told \in InstanceHandles /\ promised[told] /\ r.err # "host" =>
         r.err = "nil" /\ \E v \in attempts[told] : Restored(v, before, r.val)
==============================================================================
