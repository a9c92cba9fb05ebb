------------------------------- MODULE MCLdb --------------------------------
(* Instances of LdbClient for TLC.                                         *)
EXTENDS LdbClient

MCLines == {1, 2}
MCSources == {"main", "lib"}

MCCommands == {Break(1), Break(NoLine), Break(NoWord), Clear(1), Clear(2)} \cup
              {Do(v) : v \in {"resume", "step", "suspend", "stackforide",
                               "exit", "drop", "popdata", "quit", "list"}}
=============================================================================
