----------------------------- MODULE MCDispatch -----------------------------
EXTENDS Dispatch, TLC

CONSTANTS work, final, a, b

MCExits == [n \in Node |-> IF n = work THEN {work, final} ELSE {}]

E(status, kind, asks, report) ==
  [status |-> status, kind |-> kind, asks |-> asks, report |-> report]

(* Endings a run tells apart. *)
MCRaceEndings ==
  {E("completed", "none", FALSE, "clean"), E("completed", "none", TRUE, "dirty"),
   E("completed", "none", FALSE, "refused"), E("failed", "none", FALSE, "clean"),
   E("completed", "none", FALSE, "artifact"),
   E("failed", "engine_refusal", TRUE, "clean")}

MCLiveEndings ==
  {E("completed", "none", FALSE, "clean"), E("failed", "none", FALSE, "clean"),
   E("failed", "quota", FALSE, "clean"), E("stopped", "none", FALSE, "clean"),
   E("completed", "none", FALSE, "artifact")}

MCSymmetry == Permutations({a, b})
=============================================================================
