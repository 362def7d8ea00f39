------------------------------- MODULE Parity -------------------------------
(***************************************************************************)
(* Each program is built twice, without and with the optimizer, and the    *)
(* two builds are run one after the other on the VM.  A program's name in  *)
(* Programs is a pair of the source and the level it was built at.         *)
(***************************************************************************)
EXTENDS Vm

VARIABLES seen,   \* how the first build ended, and the instructions it ran
          steps   \* the instructions run by this build

parityVars == <<vars, seen, steps>>

Outcome == [out |-> out, status |-> status]

ParityInit == Init /\ prog[2] = "O0" /\ seen = <<>> /\ steps = 0

Step ==
  /\ Next
  /\ steps' = steps + 1
  /\ UNCHANGED seen

\* The first build has stopped: the second one starts on a new machine.
Rerun ==
  /\ status # "running" /\ prog[2] = "O0"
  /\ seen' = <<[outcome |-> Outcome, steps |-> steps]>>
  /\ steps' = 0
  /\ prog' = <<prog[1], "O1">>
  /\ ip' = 1
  /\ mem' = BootMemory(Programs[prog'].image)
  /\ vstack' = <<>>
  /\ frameBase' = StackBase /\ allocTop' = StackBase /\ func' = 0
  /\ cstack' = <<>> /\ due' = <<>> /\ owed' = 0
  /\ heapHead' = HeapBase
  /\ out' = <<>>
  /\ status' = "running"

ParityNext == Step \/ Rerun

ParitySpec == ParityInit /\ [][ParityNext]_parityVars

-----------------------------------------------------------------------------
\* The two builds of a program print the same values and end the same way
\* (tests/run_tests.sh: "-O0 and -O1 must produce identical stdout").
SameOutcome == prog[2] = "O1" /\ status # "running" => seen[1].outcome = Outcome

\* The optimized build runs no more instructions than the plain one, and so
\* comes to its end wherever that one does: no code removed after a jump and
\* no collapsed chain of jumps turns into another path or an endless loop.
NoSlower == prog[2] = "O1" => steps <= seen[1].steps
=============================================================================
