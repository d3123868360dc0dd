------------------------------- MODULE MCUpload -------------------------------
(* Instance of Upload for TLC. *)
EXTENDS Upload, TLC

CONSTANT One

Interchangeable == Permutations(Blocks) \cup Permutations(InstanceHandles)
MCPeeks == {<<1, 2>>}

(* A struct with a field of each kind: two configurations that differ in   *)
(* all of them, and one that cannot be written as JSON.                    *)
Struct(token, note, cache) == [token |-> token, note |-> note, cache |-> cache]
MCConfigs == {Struct(One, One, Zero), Struct(Zero, Zero, One), Struct(Unsupported, One, Zero)}

(* No text, and one of which only a part fits. *)
MCFirstTexts == {NotJSON, [token |-> Mistyped, note |-> One]}

(* What is explored: uploads with the configuration never saved, and       *)
(* configurations with nothing read or hashed yet.                         *)
Apart ==
  \/ \A h \in InstanceHandles : ~ promised[h] /\ attempts[h] = {}
  \/ /\ readers = <<>> /\ chunkSize = 0 /\ ~ streamed
     /\ \A b \in Blocks : content[b] \in {"nothing", "message", "config"}
==============================================================================
