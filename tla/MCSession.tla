----------------------------- MODULE MCSession ------------------------------
(* Instances of DebugSession for TLC: ui edits breakpoints, cmd acts on    *)
(* the debug views.                                                        *)
EXTENDS DebugSession

MCOneLine == {1}
MCSources == {"main"}
MCUsers == {"ui", "cmd"}

Duty(ui, cmd) == [t \in MCUsers |-> IF t = "ui" THEN ui ELSE cmd]

MCControlDuties == Duty({"suspend", "frames"}, {"resume", "step", "variable"})
MCAllDuties ==
  Duty({"add", "delete", "enable", "disable", "change", "manager", "suspend", "frames"},
       {"resume", "step", "variable", "data", "popdata", "pushdata", "drop",
        "setvar", "exit", "watch"})
=============================================================================
