---------------------- MODULE MCEvidenceV2Extraction ----------------------
(* Small instances of EvidenceV2Extraction for TLC. *)
EXTENDS EvidenceV2Extraction, TLC

(* Every part of up to three units of one or three words: none to three    *)
(* windows of at most two units and four words.                            *)
SmallParts == UNION {[1 .. n -> {1, 3}] : n \in 0 .. 3}

(* One part of two windows. *)
TwoWindows == {<<3, 3>>}
=============================================================================
