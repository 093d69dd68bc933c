--------------------------- MODULE MCDifferential ---------------------------
(* Both engines on the accepted programs of MCConfig.                      *)
EXTENDS Differential, MCConfig

(* Programs that end in a call.                                            *)
MCCallLastPrograms == {p \in MCPrograms : EndsInCall(p)}

=============================================================================
