------------------------------- MODULE LuaCode -------------------------------
(* The compiler and the virtual machine together against the meaning of    *)
(* programs: what has to be true of the code they share.                   *)
EXTENDS LuaV, LuaMeaning

TypeOK ==
  /\ status \in {"start", "run", "done", "error", "refused"}
  /\ Len(L.stack) = StackSize /\ Len(L.ci) \in 1..StackSize
  /\ \A i \in DOMAIN L.ci : L.ci[i].top <= StackSize /\ L.ci[i].func < L.ci[i].base
  /\ status = "run" => L.pc \in 0..(Size(P) - 1) /\ L.savedpc \in 0..Size(P)

(* What luaV_execute asserts of every instruction (lvm.c:403): the top of  *)
(* the stack is that of the frame, except between an instruction that      *)
(* leaves an open number of values and the one that takes them.            *)
TopIsTheFrames ==
  status = "run" =>
    /\ Frame.base <= L.top /\ L.top <= StackSize
    /\ L.top = Frame.top \/ (I.op \in {"CALL", "TAILCALL", "RETURN", "SETLIST"} /\ I.b = 0)

(* Every function the compiler hands over passes the code checker, as      *)
(* close_func asserts (lparser.c:386).                                     *)
CodeChecks == (status = "run" /\ L.pc = 0 /\ Len(L.ci) = 2) => CheckCode(main)

(* A program is refused if and only if it has to be, at the right line.    *)
RefusesExactly ==
  /\ status \in {"run", "done", "error"} => program.faulty = 0
  /\ status = "refused" => err[2] = program.faulty

(* An open upvalue is in the register of a variable that is in scope in a  *)
(* function that runs: a new round of a loop, or what uses the register    *)
(* next, never shares it.                                                  *)
OpenIsActive ==
  status = "run" =>
    \A u \in DOMAIN heap.upvals : heap.upvals[u].open =>
      LET level == heap.upvals[u].level
          Below(f) == f.base <= level
          frames == {i \in 2..Len(L.ci) : Below(L.ci[i])}
          i == CHOOSE j \in frames : \A k \in frames : k <= j
          active == Len(ActiveNames(GetLuaProto(i), CurrentPc(i)))
      IN /\ frames # {}
         /\ \/ level < L.ci[i].base + active
            \/ i = Len(L.ci) /\ I.op = "RETURN"
            \/ i = Len(L.ci) /\ I.op = "CLOSE" /\ level >= Frame.base + I.a

Ended == status \in {"done", "error"}
NameFits(name, meant) ==
  meant = Unknown \/ name = meant \/ (name[1] = meant[1] /\ name[2] = "?")
(* The program writes, returns or fails with what it means, at the line it *)
(* means; a variable the message names is the one at fault (the name of a  *)
(* field is not always known).                                             *)
SameOutcome ==
  [][Ended' =>
       LET m == Meaning(program.text)
       IN /\ out' = m.out
          /\ (status' = "error") = (m.stop = "error")
          /\ status' = "done" =>
               ShownAll(Read(L', 1, L'.top - 1)) = ShownAll(IF m.stop = "return" THEN m.v ELSE <<>>)
          /\ status' = "error" =>
               err'[1] = m.err[1] /\ err'[3] = m.err[3] /\ NameFits(err'[2], m.err[2])]_vars

Fits(hook, t) ==
  /\ Len(hook) = Len(t)
  /\ \A i \in DOMAIN t : hook[i] = [t[i] EXCEPT ![3] = hook[i][3]] /\ NameFits(hook[i][3], t[i][3])
(* The line hook is called for every statement that is carried out, in     *)
(* order. There the debugger finds the stack of functions that run, with   *)
(* those a tail call has replaced: their lines, the names they were called *)
(* by, and the variables in scope with their present values.               *)
StatementsAreHooked ==
  [][Ended' =>
       LET trace == Meaning(program.text).trace
           Taken(n, hook) == IF n < Len(trace) /\ Fits(hook, trace[n + 1]) THEN n + 1 ELSE n
       IN FoldLeft(Taken, 0, hooks') = Len(trace)]_vars
==============================================================================
