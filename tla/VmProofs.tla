------------------------------ MODULE VmProofs ------------------------------
(***************************************************************************)
(* What holds of the VM for every bytecode it may be given and every size  *)
(* of memory and stacks: the frames tile its stack area (FramesTile), and  *)
(* no step leaves the limits of its stacks and memory (TypeOK).  What      *)
(* holds of bytecode that is verified (Verifier.tla): it never reaches the *)
(* VM's internal errors, its calls leave what they should on the operand   *)
(* stack, and every operand has the tag its instruction expects.           *)
(*                                                                         *)
(* Only BC_CALL and BC_RET move frames.  What they do is stated first on   *)
(* constants (Tiles), where a call appends a frame and a return drops one; *)
(* every other action is then shown to leave the frames alone (Keeps).     *)
(* For the limits (Bounded) an action is one of three: it is refused, it   *)
(* replaces operands by a result, or it writes memory.  For verified       *)
(* bytecode the operands of the active calls lie end to end, like the      *)
(* frames: those of the running function have the shape of the next        *)
(* instruction, and a caller waits with the shape of the instruction it    *)
(* will return to, less what the call owes it (Shaped).                    *)
(***************************************************************************)
EXTENDS Verifier, MemoryProofs, SequenceTheorems, TLAPS

Frame == [retIp : Nat, thisBase : Nat, savedBase : Nat, savedFunc : Nat]

\* FramesTile of the call stack cs, the registers base, top and fn, and the
\* functions funcs.
EndOf(cs, top, k) == IF k = Len(cs) THEN top ELSE cs[k + 1].thisBase
FuncOf(cs, fn, k) == IF k = Len(cs) THEN fn ELSE cs[k + 1].savedFunc
Tiles(cs, base, top, fn, funcs) ==
  /\ top <= MemSize
  /\ \A k \in 1..Len(cs) :
       /\ EndOf(cs, top, k) = cs[k].thisBase + funcs[FuncOf(cs, fn, k)].frameSize
       /\ cs[k].savedBase = IF k = 1 THEN StackBase ELSE cs[k - 1].thisBase
       /\ FuncOf(cs, fn, k) \in DOMAIN funcs
  /\ IF cs = <<>>
     THEN base = StackBase /\ top = StackBase /\ fn = 0
     ELSE /\ cs[1].thisBase = StackBase /\ cs[1].savedFunc = 0
          /\ base = cs[Len(cs)].thisBase

FrameTypes ==
  /\ prog \in DOMAIN Programs
  /\ ip \in Nat
  /\ cstack \in Seq(Frame)
  /\ frameBase \in Nat /\ allocTop \in Nat /\ func \in Nat

\* The inductive invariant.
FInv == FrameTypes /\ FramesTile

-----------------------------------------------------------------------------
\* The two statements of the tiling agree.
LEMMA TilesIsFramesTile ==
  FramesTile <=> Tiles(cstack, frameBase, allocTop, func, bc.funcs)
BY DEF FramesTile, Tiles, EndOf, FuncOf, FrameEnd, FrameFunc

\* A call: one more frame, at the old top (BC_CALL in vm.c).
LEMMA PushTiles ==
  ASSUME NEW cs \in Seq(Frame), NEW base \in Nat, NEW top \in Nat, NEW fn \in Nat,
         NEW funcs, NEW f \in DOMAIN funcs, NEW ret \in Nat,
         f \in Nat, funcs[f].frameSize \in Nat, top + funcs[f].frameSize <= MemSize,
         StackBase \in Nat, MemSize \in Nat,
         Tiles(cs, base, top, fn, funcs)
  PROVE  LET fr == [retIp |-> ret, thisBase |-> top, savedBase |-> base, savedFunc |-> fn]
         IN /\ Append(cs, fr) \in Seq(Frame)
            /\ Tiles(Append(cs, fr), top, top + funcs[f].frameSize, f, funcs)
<1> DEFINE fr == [retIp |-> ret, thisBase |-> top, savedBase |-> base, savedFunc |-> fn]
           cs1 == Append(cs, fr)
           n == Len(cs)
<1>1. fr \in Frame BY DEF Frame
<1>2. /\ cs1 \in Seq(Frame) /\ n \in Nat /\ Len(cs1) = n + 1 /\ cs1 # <<>>
      /\ cs1[n + 1] = fr /\ \A k \in 1..n : cs1[k] = cs[k]
  BY <1>1
<1> HIDE DEF fr, cs1, n
<1>3. fr.thisBase = top /\ fr.savedBase = base /\ fr.savedFunc = fn BY DEF fr
<1>4. ASSUME NEW k \in 1..n + 1
      PROVE  /\ EndOf(cs1, top + funcs[f].frameSize, k)
                  = cs1[k].thisBase + funcs[FuncOf(cs1, f, k)].frameSize
             /\ cs1[k].savedBase = IF k = 1 THEN StackBase ELSE cs1[k - 1].thisBase
             /\ FuncOf(cs1, f, k) \in DOMAIN funcs
  <2>1. CASE k = n + 1
    <3>1. n = 0 => cs = <<>> BY DEF n
    <3>2. n # 0 => cs # <<>> /\ base = cs[n].thisBase BY DEF n, Tiles
    <3>3. n = 0 => base = StackBase BY <3>1 DEF Tiles
    <3> QED BY <2>1, <1>2, <1>3, <3>2, <3>3 DEF EndOf, FuncOf
  <2>2. CASE k \in 1..n
    <3>4. /\ Len(cs) = n /\ Len(cs1) = n + 1 /\ k # n + 1
          /\ k = n => cs1[k + 1] = fr
          /\ k # n => cs1[k + 1] = cs[k + 1]
      <4>1. k # n => k + 1 \in 1..n BY <2>2, <1>2
      <4> QED BY <2>2, <1>2, <4>1 DEF n
    <3>1. EndOf(cs1, top + funcs[f].frameSize, k) = EndOf(cs, top, k)
      BY <1>3, <3>4 DEF EndOf
    <3>2. FuncOf(cs1, f, k) = FuncOf(cs, fn, k)
      BY <1>3, <3>4 DEF FuncOf
    <3>3. cs1[k] = cs[k] /\ (k # 1 => cs1[k - 1] = cs[k - 1]) BY <2>2, <1>2
    <3> QED BY <3>1, <3>2, <3>3, <2>2 DEF Tiles, n
  <2> QED BY <2>1, <2>2, <1>2
<1>5. cs1[1].thisBase = StackBase /\ cs1[1].savedFunc = 0
  <2>1. CASE n = 0
    <3>1. cs = <<>> BY <2>1 DEF n
    <3> QED BY <2>1, <3>1, <1>2, <1>3 DEF Tiles
  <2>2. CASE n # 0
    <3>1. cs # <<>> BY <2>2 DEF n
    <3> QED BY <2>2, <3>1, <1>2 DEF Tiles
  <2> QED BY <2>1, <2>2
<1>6. Tiles(cs1, top, top + funcs[f].frameSize, f, funcs)
  BY <1>2, <1>3, <1>4, <1>5 DEF Tiles
<1> QED BY <1>2, <1>6 DEF cs1, fr

\* A return: the last frame is given back, the registers are the ones it saved
\* (BC_RET in vm.c).
LEMMA PopTiles ==
  ASSUME NEW cs \in Seq(Frame), NEW base \in Nat, NEW top \in Nat, NEW fn \in Nat,
         NEW funcs, cs # <<>>, StackBase \in Nat, MemSize \in Nat,
         \A g \in DOMAIN funcs : funcs[g].frameSize \in Nat,
         Tiles(cs, base, top, fn, funcs)
  PROVE  LET fr == cs[Len(cs)]
         IN /\ SubSeq(cs, 1, Len(cs) - 1) \in Seq(Frame)
            /\ Tiles(SubSeq(cs, 1, Len(cs) - 1), fr.savedBase, fr.thisBase, fr.savedFunc, funcs)
<1> DEFINE n == Len(cs)
           cs1 == SubSeq(cs, 1, n - 1)
           fr == cs[n]
<1>1. n \in Nat \ {0} /\ fr \in Frame OBVIOUS
<1>2. /\ cs1 \in Seq(Frame) /\ Len(cs1) = n - 1
      /\ \A k \in 1..n - 1 : cs1[k] = cs[k]
  <2>1. \A k \in 1..n - 1 : cs[k] \in Frame BY <1>1
  <2> HIDE DEF n
  <2>2. /\ SubSeq(cs, 1, n - 1) \in Seq(Frame)
        /\ Len(SubSeq(cs, 1, n - 1)) = IF 1 <= n - 1 THEN n - 1 - 1 + 1 ELSE 0
        /\ \A k \in 1..n - 1 - 1 + 1 : SubSeq(cs, 1, n - 1)[k] = cs[1 + k - 1]
    BY <2>1, <1>1, SubSeqProperties
  <2> QED BY <2>2, <1>1
<1>3. cs1 = <<>> <=> n = 1
  <2>1. cs1 = <<>> <=> Len(cs1) = 0 BY <1>2, EmptySeq
  <2> HIDE DEF n, cs1
  <2> QED BY <2>1, <1>1, <1>2
<1> HIDE DEF fr, cs1, n
<1>4. fr.thisBase \in Nat /\ fr.savedBase \in Nat /\ fr.savedFunc \in Nat BY <1>1 DEF Frame
<1>5. fr.thisBase <= MemSize
  <2>1. /\ EndOf(cs, top, n) = fr.thisBase + funcs[FuncOf(cs, fn, n)].frameSize
        /\ FuncOf(cs, fn, n) \in DOMAIN funcs
    BY <1>1 DEF Tiles, n, fr
  <2>2. EndOf(cs, top, n) = top BY DEF EndOf, n
  <2>3. top <= MemSize BY DEF Tiles
  <2> QED BY <2>1, <2>2, <2>3, <1>4
<1>6. ASSUME NEW k \in 1..n - 1
      PROVE  /\ EndOf(cs1, fr.thisBase, k)
                  = cs1[k].thisBase + funcs[FuncOf(cs1, fr.savedFunc, k)].frameSize
             /\ cs1[k].savedBase = IF k = 1 THEN StackBase ELSE cs1[k - 1].thisBase
             /\ FuncOf(cs1, fr.savedFunc, k) \in DOMAIN funcs
  <2>1. EndOf(cs1, fr.thisBase, k) = EndOf(cs, top, k)
    BY <1>1, <1>2 DEF EndOf, n, fr
  <2>2. FuncOf(cs1, fr.savedFunc, k) = FuncOf(cs, fn, k)
    BY <1>1, <1>2 DEF FuncOf, n, fr
  <2>3. cs1[k] = cs[k] /\ (k # 1 => cs1[k - 1] = cs[k - 1]) BY <1>1, <1>2
  <2>4. k \in 1..Len(cs) BY <1>1 DEF n
  <2> QED BY <2>1, <2>2, <2>3, <2>4 DEF Tiles
<1>7. CASE n = 1
  <2>1. fr.savedBase = StackBase /\ fr.thisBase = StackBase /\ fr.savedFunc = 0
    BY <1>7 DEF Tiles, n, fr
  <2> QED BY <2>1, <1>2, <1>3, <1>5, <1>6, <1>7 DEF Tiles, cs1, fr, n
<1>8. CASE n # 1
  <2>1. cs1[1] = cs[1] /\ cs1[n - 1] = cs[n - 1] BY <1>1, <1>2, <1>8
  <2>2. fr.savedBase = cs[n - 1].thisBase
    <3>1. n \in 1..Len(cs) BY <1>1 DEF n
    <3>2. cs[n].savedBase = IF n = 1 THEN StackBase ELSE cs[n - 1].thisBase
      BY <3>1 DEF Tiles
    <3> QED BY <3>2, <1>8 DEF fr
  <2>3. cs[1].thisBase = StackBase /\ cs[1].savedFunc = 0 BY DEF Tiles
  <2>4. Tiles(cs1, fr.savedBase, fr.thisBase, fr.savedFunc, funcs)
    BY <2>1, <2>2, <2>3, <1>2, <1>3, <1>5, <1>6, <1>8 DEF Tiles
  <2> QED BY <2>4, <1>2 DEF cs1, fr, n
<1> QED BY <1>7, <1>8

-----------------------------------------------------------------------------
\* What every action but a call and a return does to the frames: nothing.
Keeps == ip' \in Nat /\ UNCHANGED <<prog, cstack, frameBase, allocTop, func>>

\* Leaving the frames alone keeps them tiled.
LEMMA KeepsFrames == FInv /\ Keeps => FInv'
BY DEF FInv, FrameTypes, FramesTile, Keeps, FrameEnd, FrameFunc, bc

\* The opcodes that compute on the operand stack (vm.c, BC_PUSH_I32 to
\* BC_MEMBER_ADDR) keep the frames.
LEMMA OperandKeeps == FrameTypes /\ OperandStep => Keeps
<1> SUFFICES ASSUME FrameTypes, OperandStep PROVE Keeps
  OBVIOUS
<1> USE DEF FrameTypes, Keeps, Yield, Write, Fatal, frameVars
<1>0. ip + 1 \in Nat OBVIOUS
<1>1. CASE Push BY <1>1 DEF Push
<1>2. CASE Pop BY <1>2 DEF Pop
<1>3. CASE Dup BY <1>3 DEF Dup
<1>4. CASE AddrLocal BY <1>4 DEF AddrLocal
<1>5. CASE MemberAddr BY <1>5 DEF MemberAddr
<1>6. CASE ArrAddr BY <1>0, <1>6, Zenon DEF ArrAddr
<1>7. CASE PtrAdd BY <1>7 DEF PtrAdd
<1>8. CASE PtrSub BY <1>8 DEF PtrSub
<1>9. CASE PtrDiff BY <1>9 DEF PtrDiff
<1>10. CASE ArithOp BY <1>10 DEF ArithOp
<1>11. CASE Neg BY <1>11 DEF Neg
<1>12. CASE CompareOp BY <1>12 DEF CompareOp
<1>13. CASE Not BY <1>13 DEF Not
<1>14. CASE Cast BY <1>14 DEF Cast
<1> QED
  BY <1>1, <1>2, <1>3, <1>4, <1>5, <1>6, <1>7, <1>8, <1>9, <1>10, <1>11, <1>12, <1>13,
     <1>14 DEF OperandStep

\* Loads and stores, wherever they write, keep the frames: the registers and
\* the call stack are not in the program's memory.
LEMMA MemoryKeeps == FrameTypes /\ MemoryStep => Keeps
<1> SUFFICES ASSUME FrameTypes, MemoryStep PROVE Keeps
  OBVIOUS
<1> USE DEF FrameTypes, Keeps, Yield, Write, Fatal, frameVars
<1>0. ip + 1 \in Nat OBVIOUS
<1>1. CASE Load BY <1>1 DEF Load
<1>2. CASE Store BY <1>2 DEF Store
<1>3. CASE Copy BY <1>3 DEF Copy
<1>4. CASE ZeroMem BY <1>4 DEF ZeroMem
<1> QED BY <1>1, <1>2, <1>3, <1>4 DEF MemoryStep

\* Jumps and stops keep the frames.
LEMMA ControlKeeps == FrameTypes /\ ControlStep => Keeps
<1> SUFFICES ASSUME FrameTypes, ControlStep PROVE Keeps
  OBVIOUS
<1> USE DEF FrameTypes, Keeps, Fatal, frameVars
<1>0. ip + 1 \in Nat OBVIOUS
<1>1. At({"JMP", "JZ"}) => Ins.to \in Nat
  BY ProgramsAssumption DEF At, Ins, bc
<1>2. CASE Jmp
  <2>1. At({"JMP", "JZ"}) BY <1>2 DEF Jmp, At
  <2> QED BY <1>1, <1>2, <2>1 DEF Jmp
<1>3. CASE Jz
  <2>1. At({"JMP", "JZ"}) BY <1>3 DEF Jz, At
  <2> QED BY <1>0, <1>1, <1>3, <2>1, Zenon DEF Jz
<1>4. CASE Halt BY <1>4 DEF Halt
<1>5. CASE RunOff BY <1>5 DEF RunOff
<1> QED BY <1>2, <1>3, <1>4, <1>5 DEF ControlStep

\* Native functions have no frame.
LEMMA NativeKeeps == FrameTypes /\ NativeStep => Keeps
<1> SUFFICES ASSUME FrameTypes, NativeStep PROVE Keeps
  OBVIOUS
<1> USE DEF FrameTypes, Keeps, Yield, Fatal, frameVars
<1>0. ip + 1 \in Nat OBVIOUS
<1>1. CASE NativePrint BY <1>0, <1>1, Zenon DEF NativePrint
<1>2. CASE Malloc BY <1>0, <1>2, Zenon DEF Malloc
<1>3. CASE Free BY <1>0, <1>3, Zenon DEF Free
<1>4. CASE Strlen BY <1>0, <1>4, Zenon DEF Strlen
<1>5. CASE Strcmp BY <1>0, <1>5, Zenon DEF Strcmp
<1>6. CASE Strcpy BY <1>0, <1>6, Zenon DEF Strcpy
<1> QED BY <1>1, <1>2, <1>3, <1>4, <1>5, <1>6 DEF NativeStep

\* What a CALL instruction names is a function of the bytecode.
LEMMA CalledFunction ==
  ASSUME FrameTypes, Call
  PROVE  /\ Ins.f \in DOMAIN bc.funcs /\ Ins.f \in Nat
         /\ bc.funcs[Ins.f].frameSize \in Nat /\ bc.funcs[Ins.f].entry \in Nat
         /\ Len(bc.funcs[Ins.f].params) \in Nat
<1>1. prog \in DOMAIN Programs BY DEF FrameTypes
<1>2. ip \in DOMAIN bc.code /\ Ins.op = "CALL" BY DEF Call, At
<1>3. Ins.f \in DOMAIN bc.funcs BY <1>1, <1>2, ProgramsAssumption DEF bc, Ins
<1>4. Len(bc.funcs) \in Nat /\ DOMAIN bc.funcs = 1..Len(bc.funcs)
  BY <1>1, ProgramsAssumption DEF bc
<1>5. Ins.f \in Nat BY <1>3, <1>4
<1>6. /\ bc.funcs[Ins.f].frameSize \in Nat /\ bc.funcs[Ins.f].entry \in Nat
      /\ Len(bc.funcs[Ins.f].params) \in Nat
  BY <1>1, <1>3, ProgramsAssumption DEF bc
<1> QED BY <1>3, <1>5, <1>6

\* A call either stops the program or adds its function's frame.
LEMMA CallFrames == FInv /\ Call => FInv'
<1> SUFFICES ASSUME FInv, Call PROVE FInv'
  OBVIOUS
<1> DEFINE fn == bc.funcs[Ins.f]
           fr == [retIp |-> ip + 1, thisBase |-> allocTop, savedBase |-> frameBase,
                  savedFunc |-> func]
<1>1. Ins.f \in DOMAIN bc.funcs /\ Ins.f \in Nat /\ fn.frameSize \in Nat /\ fn.entry \in Nat
  BY CalledFunction DEF FInv
<1>2. CASE \E why : Fatal(why)
  BY <1>2, KeepsFrames DEF Fatal, frameVars, Keeps, FInv, FrameTypes
<1>3. CASE /\ EnterFrame(Ins.f) /\ UNCHANGED prog
           /\ ~(allocTop + fn.frameSize > MemSize)
  <2>1. Tiles(cstack, frameBase, allocTop, func, bc.funcs)
    BY TilesIsFramesTile DEF FInv
  <2>2. ip + 1 \in Nat /\ allocTop + fn.frameSize <= MemSize
    <3>1. ip \in Nat /\ allocTop \in Nat /\ MemSize \in Nat BY VmAssumption DEF FInv, FrameTypes
    <3>2. fn.frameSize \in Nat /\ ~(allocTop + fn.frameSize > MemSize) BY <1>1, <1>3
    <3> HIDE DEF fn
    <3> QED BY <3>1, <3>2
  <2>3. StackBase \in Nat /\ MemSize \in Nat BY VmAssumption
  <2>4. /\ Append(cstack, fr) \in Seq(Frame)
        /\ Tiles(Append(cstack, fr), allocTop, allocTop + fn.frameSize, Ins.f, bc.funcs)
    BY <1>1, <2>1, <2>2, <2>3, PushTiles DEF FInv, FrameTypes
  <2>5. bc' = bc BY <1>3 DEF bc
  <2>6. Tiles(cstack', frameBase', allocTop', func', bc.funcs')
    BY <1>3, <2>4, <2>5 DEF EnterFrame
  <2>7. FramesTile'
    BY <2>6 DEF FramesTile, Tiles, EndOf, FuncOf, FrameEnd, FrameFunc
  <2>8. FrameTypes'
    BY <1>1, <1>3, <2>4 DEF FInv, FrameTypes, EnterFrame
  <2> QED BY <2>7, <2>8 DEF FInv
<1> QED BY <1>2, <1>3, Zenon DEF Call, CallFault

\* A return stops the program or drops the last frame.
LEMMA RetFrames == FInv /\ Ret => FInv'
<1> SUFFICES ASSUME FInv, Ret PROVE FInv'
  OBVIOUS
<1> DEFINE fr == cstack[Len(cstack)]
<1>1. CASE \E why : Fatal(why)
  BY <1>1, KeepsFrames DEF Fatal, frameVars, Keeps, FInv, FrameTypes
<1>2. CASE LeaveFrame /\ UNCHANGED prog
  <2>1. cstack # <<>> BY DEF Ret
  <2>2. Tiles(cstack, frameBase, allocTop, func, bc.funcs)
    BY TilesIsFramesTile DEF FInv
  <2>3. \A g \in DOMAIN bc.funcs : bc.funcs[g].frameSize \in Nat
    BY ProgramsAssumption DEF bc, FInv, FrameTypes
  <2>4. StackBase \in Nat /\ MemSize \in Nat BY VmAssumption
  <2>5. /\ SubSeq(cstack, 1, Len(cstack) - 1) \in Seq(Frame)
        /\ Tiles(SubSeq(cstack, 1, Len(cstack) - 1), fr.savedBase, fr.thisBase,
                 fr.savedFunc, bc.funcs)
    BY <2>1, <2>2, <2>3, <2>4, PopTiles DEF FInv, FrameTypes
  <2>6. bc' = bc BY <1>2 DEF bc
  <2>7. Tiles(cstack', frameBase', allocTop', func', bc.funcs')
    BY <1>2, <2>5, <2>6 DEF LeaveFrame
  <2>8. FramesTile'
    BY <2>7 DEF FramesTile, Tiles, EndOf, FuncOf, FrameEnd, FrameFunc
  <2>9. fr \in Frame BY <2>1 DEF FInv, FrameTypes
  <2>10. FrameTypes'
    BY <1>2, <2>5, <2>9 DEF FInv, FrameTypes, LeaveFrame, Frame
  <2> QED BY <2>8, <2>10 DEF FInv
<1> QED BY <1>1, <1>2, Zenon DEF Ret

-----------------------------------------------------------------------------
\* Execution starts with no frame.
LEMMA InitFrames == Init => FInv
<1> SUFFICES ASSUME Init PROVE FInv
  OBVIOUS
<1>1. StackBase \in Nat /\ StackBase <= MemSize BY VmAssumption
<1>2. FrameTypes BY <1>1 DEF Init, FrameTypes
<1>3. cstack = <<>> /\ Len(cstack) = 0 /\ frameBase = StackBase /\ allocTop = StackBase
      /\ func = 0
  BY DEF Init
<1>4. FramesTile BY <1>1, <1>3 DEF FramesTile
<1> QED BY <1>2, <1>4 DEF FInv

\* Every step keeps the frames tiled.
LEMMA NextFrames == FInv /\ [Next]_vars => FInv'
<1> SUFFICES ASSUME FInv, [Next]_vars PROVE FInv'
  OBVIOUS
<1>0. FrameTypes BY DEF FInv
<1>1. CASE OperandStep BY <1>0, <1>1, OperandKeeps, KeepsFrames
<1>2. CASE MemoryStep BY <1>0, <1>2, MemoryKeeps, KeepsFrames
<1>3. CASE ControlStep BY <1>0, <1>3, ControlKeeps, KeepsFrames
<1>4. CASE Call BY <1>4, CallFrames
<1>5. CASE Ret BY <1>5, RetFrames
<1>6. CASE NativeStep BY <1>0, <1>6, NativeKeeps, KeepsFrames
<1>7. CASE UNCHANGED vars
  <2>1. Keeps BY <1>7 DEF vars, frameVars, Keeps, FInv, FrameTypes
  <2> QED BY <2>1, KeepsFrames
<1> QED BY <1>1, <1>2, <1>3, <1>4, <1>5, <1>6, <1>7 DEF Next

\* For every program whose jumps and calls have targets, and every size of
\* memory and stacks, the frames lie end to end from the start of the stack
\* area to its current top, which never passes the end of memory, and the
\* registers are the last frame's (BC_CALL and BC_RET in vm.c).
THEOREM FramesAlwaysTile == Spec => []FramesTile
<1>1. FInv => FramesTile BY DEF FInv
<1> QED BY InitFrames, NextFrames, <1>1, PTL DEF Spec
-----------------------------------------------------------------------------
\* The limits of the machine: its two stacks, the operand heights that are due,
\* and the extent of memory.
Limits(vs, cs, du, m) ==
  /\ \E S : vs \in Seq(S)
  /\ Len(vs) <= ValueStackMax
  /\ Len(cs) <= CallStackMax
  /\ du \in Seq(Int) /\ Len(du) = Len(cs)
  /\ DOMAIN m = 0..MemSize - 1

Bounded == Limits(vstack, cstack, due, mem)

\* A stack with k values dropped, and with one pushed after that.
LEMMA Dropped ==
  ASSUME Bounded, NEW k \in Nat, k <= Height
  PROVE  /\ Height \in Nat /\ \E S : Drop(k) \in Seq(S)
         /\ Len(Drop(k)) = Height - k
<1>1. PICK S : vstack \in Seq(S) BY DEF Bounded, Limits
<1>2. Height \in Nat BY <1>1 DEF Height
<1>3. Drop(k) \in Seq(S) /\ Len(Drop(k)) = Height - k BY <1>1, <1>2 DEF Drop, Height
<1> QED BY <1>2, <1>3

LEMMA Replaced ==
  ASSUME Bounded, NEW k \in Nat, k <= Height, NEW e
  PROVE  /\ \E S : Append(Drop(k), e) \in Seq(S)
         /\ Len(Append(Drop(k), e)) = Height - k + 1
<1>1. PICK S : Drop(k) \in Seq(S) BY Dropped
<1>2. Drop(k) \in Seq(S \cup {e}) BY <1>1
<1>3. Append(Drop(k), e) \in Seq(S \cup {e}) /\ Len(Append(Drop(k), e)) = Len(Drop(k)) + 1
  BY <1>2
<1> QED BY <1>3, Dropped

\* Writing memory does not extend it.
LEMMA PutUDomain == \A m, a, n, v : DOMAIN PutU(m, a, n, v) = DOMAIN m
BY DEF PutU

LEMMA WriteValueDomain == \A m, a, t, x, junk : DOMAIN WriteValue(m, a, t, x, junk) = DOMAIN m
BY PutUDomain DEF WriteValue

LEMMA MovedDomain == \A m, dst, src, n : DOMAIN Moved(m, dst, src, n) = DOMAIN m
BY DEF Moved

LEMMA ZeroedDomain == \A m, dst, n : DOMAIN Zeroed(m, dst, n) = DOMAIN m
BY DEF Zeroed

LEMMA HeaderDomain ==
  /\ \A m, h, e, v : DOMAIN HdrSet(m, h, e, v) = DOMAIN m
  /\ \A m, h, x, y, z : DOMAIN SetHdr(m, h, x, y, z) = DOMAIN m
BY PutUDomain DEF HdrSet, SetHdr

LEMMA MallocDomain == \A m, head, n : DOMAIN VmMalloc(m, head, n).m = DOMAIN m
<1> TAKE m, head, n
<1>1. ASSUME NEW C, NEW m1, NEW m2, NEW h, NEW e, NEW v, NEW x, NEW y, NEW u, NEW w,
             DOMAIN m1 = DOMAIN m, DOMAIN m2 = DOMAIN m
      PROVE  DOMAIN HdrSet(IF C THEN m2 ELSE m1, h, e, v) = DOMAIN m
  BY <1>1, HeaderDomain
<1> QED BY HeaderDomain DEF VmMalloc

LEMMA FreeDomain == \A m, head, p : DOMAIN VmFree(m, head, p).m = DOMAIN m
BY HeaderDomain DEF VmFree

\* What an instruction that is refused, or that touches neither calls nor
\* memory, keeps.
LEMMA FatalBounded == ASSUME Bounded, NEW why, Fatal(why) PROVE Bounded'
BY DEF Fatal, Bounded, Limits, frameVars

LEMMA NoFault ==
  ASSUME NEW f, NEW g, First(f, g) = "ok"
  PROVE  f = "ok" /\ g = "ok"
BY DEF First

LEMMA StackRoom ==
  ASSUME Bounded, NEW pops \in Nat, NEW pushes \in Nat, StackFault(pops, pushes) = "ok"
  PROVE  pops <= Height /\ Height - pops + pushes <= ValueStackMax
<1>1. Height \in Nat BY DEF Bounded, Limits, Height
<1>2. ValueStackMax \in Nat BY VmAssumption
<1> QED BY <1>1, <1>2 DEF StackFault

LEMMA YieldBounded ==
  ASSUME Bounded, NEW pops \in Nat, NEW result, NEW fault, Yield(pops, result, fault)
  PROVE  Bounded'
<1> DEFINE f == First(StackFault(pops, 1), fault)
<1>1. CASE f # "ok"
  <2>1. Fatal(f) BY <1>1, Zenon DEF Yield
  <2> QED BY <2>1, FatalBounded
<1>2. CASE f = "ok"
  <2>1. vstack' = Append(Drop(pops), result) /\ UNCHANGED <<mem, frameVars>>
    BY <1>2, Zenon DEF Yield
  <2>2. pops <= Height /\ Height - pops + 1 <= ValueStackMax BY <1>2, NoFault, StackRoom
  <2>3. (\E S : vstack' \in Seq(S)) /\ Len(vstack') = Height - pops + 1
    BY <2>1, <2>2, Replaced
  <2> QED BY <2>1, <2>2, <2>3 DEF Bounded, Limits, frameVars
<1> QED BY <1>1, <1>2

LEMMA WriteBounded ==
  ASSUME Bounded, NEW pops \in Nat, NEW newMem, NEW fault, Write(pops, newMem, fault),
         DOMAIN newMem = DOMAIN mem
  PROVE  Bounded'
<1> DEFINE f == First(StackFault(pops, 0), fault)
<1>1. CASE f # "ok"
  <2>1. Fatal(f) BY <1>1, Zenon DEF Write
  <2> QED BY <2>1, FatalBounded
<1>2. CASE f = "ok"
  <2>1. vstack' = Drop(pops) /\ mem' = newMem /\ UNCHANGED frameVars
    BY <1>2, Zenon DEF Write
  <2>2. pops <= Height /\ Height - pops + 0 <= ValueStackMax BY <1>2, NoFault, StackRoom
  <2>3. Height \in Nat /\ (\E S : vstack' \in Seq(S)) /\ Len(vstack') = Height - pops
    BY <2>1, <2>2, Dropped
  <2>4. Len(vstack') <= ValueStackMax BY <2>2, <2>3
  <2> QED BY <2>1, <2>3, <2>4 DEF Bounded, Limits, frameVars
<1> QED BY <1>1, <1>2

\* Operands never outgrow the operand stack.
LEMMA OperandBounded == ASSUME Bounded, OperandStep PROVE Bounded'
<1>0. 0 \in Nat /\ 1 \in Nat /\ 2 \in Nat OBVIOUS
<1>1. CASE Push BY <1>0, <1>1, YieldBounded DEF Push
<1>2. CASE Pop BY <1>0, <1>2, WriteBounded DEF Pop
<1>3. CASE Dup
  <2> DEFINE f == StackFault(1, 2)
  <2>1. CASE f # "ok" BY <1>3, <2>1, FatalBounded, Zenon DEF Dup
  <2>2. CASE f = "ok"
    <3>1. vstack' = Append(vstack, Top(0)) /\ UNCHANGED <<mem, frameVars>>
      BY <1>3, <2>2, Zenon DEF Dup
    <3>2. 1 <= Height /\ Height - 1 + 2 <= ValueStackMax BY <2>2, StackRoom
    <3>3. PICK S : vstack \in Seq(S) BY DEF Bounded, Limits
    <3>4. vstack' \in Seq(S \cup {Top(0)}) /\ Len(vstack') = Height + 1 /\ Height \in Nat
      BY <3>1, <3>3 DEF Height
    <3> QED BY <3>1, <3>2, <3>4 DEF Bounded, Limits, frameVars
  <2> QED BY <2>1, <2>2
<1>4. CASE AddrLocal BY <1>0, <1>4, YieldBounded DEF AddrLocal
<1>5. CASE MemberAddr BY <1>0, <1>5, YieldBounded DEF MemberAddr
<1>6. CASE ArrAddr BY <1>0, <1>6, YieldBounded DEF ArrAddr
<1>7. CASE PtrAdd BY <1>0, <1>7, YieldBounded DEF PtrAdd
<1>8. CASE PtrSub BY <1>0, <1>8, YieldBounded DEF PtrSub
<1>9. CASE PtrDiff BY <1>0, <1>9, YieldBounded DEF PtrDiff
<1>10. CASE ArithOp BY <1>0, <1>10, YieldBounded DEF ArithOp
<1>11. CASE Neg BY <1>0, <1>11, YieldBounded DEF Neg
<1>12. CASE CompareOp BY <1>0, <1>12, YieldBounded DEF CompareOp
<1>13. CASE Not BY <1>0, <1>13, YieldBounded DEF Not
<1>14. CASE Cast BY <1>0, <1>14, YieldBounded DEF Cast
<1> QED
  BY <1>1, <1>2, <1>3, <1>4, <1>5, <1>6, <1>7, <1>8, <1>9, <1>10, <1>11, <1>12, <1>13,
     <1>14 DEF OperandStep

\* Stores change what is in memory, not where it is.
LEMMA MemoryBounded == ASSUME Bounded, MemoryStep PROVE Bounded'
<1>0. 1 \in Nat /\ 2 \in Nat OBVIOUS
<1>1. CASE Load BY <1>0, <1>1, YieldBounded DEF Load
<1>2. CASE Store
  <2>1. PICK junk \in {0, -1} :
          Write(2, WriteValue(mem, AsPtr(Top(1)), Ins.tag, Top(0), junk),
                RangeFault(AsPtr(Top(1)), TagSize(Ins.tag)))
    BY <1>2 DEF Store
  <2> QED BY <1>0, <2>1, WriteBounded, WriteValueDomain
<1>3. CASE Copy BY <1>0, <1>3, WriteBounded, MovedDomain DEF Copy
<1>4. CASE ZeroMem BY <1>0, <1>4, WriteBounded, ZeroedDomain DEF ZeroMem
<1> QED BY <1>1, <1>2, <1>3, <1>4 DEF MemoryStep

LEMMA ControlBounded == ASSUME Bounded, ControlStep PROVE Bounded'
<1>1. CASE Jmp BY <1>1 DEF Jmp, Bounded, Limits, frameVars
<1>2. CASE Jz
  <2>1. CASE Height = 0
    <3>1. Fatal("operand stack underflow") BY <1>2, <2>1, Zenon DEF Jz
    <3> QED BY <3>1, FatalBounded
  <2>2. CASE Height # 0
    <3>1. vstack' = Drop(1) /\ UNCHANGED <<mem, frameVars>> BY <1>2, <2>2, Zenon DEF Jz
    <3>2. Height \in Nat /\ Height <= ValueStackMax BY DEF Bounded, Limits, Height
    <3>3. 1 \in Nat /\ 1 <= Height BY <2>2, <3>2
    <3>4. (\E S : vstack' \in Seq(S)) /\ Len(vstack') = Height - 1
      BY <3>1, <3>3, Dropped
    <3>5. Len(vstack') <= ValueStackMax BY <3>2, <3>4, VmAssumption
    <3> QED BY <3>1, <3>4, <3>5 DEF Bounded, Limits, frameVars
  <2> QED BY <2>1, <2>2
<1>3. CASE Halt BY <1>3 DEF Halt, Bounded, Limits, frameVars
<1>4. CASE RunOff BY <1>4, FatalBounded DEF RunOff
<1> QED BY <1>1, <1>2, <1>3, <1>4 DEF ControlStep

\* Native functions pop what they were given.
LEMMA NativeBounded == ASSUME Bounded, FrameTypes, NativeStep PROVE Bounded'
<1>0. 0 \in Nat /\ 1 \in Nat /\ 2 \in Nat OBVIOUS
<1>1. CASE NativePrint
  <2> DEFINE f == IF Ins.argc > NativeMaxArgs THEN "too many arguments"
                  ELSE StackFault(Ins.argc, 0)
  <2>1. Ins.argc \in Nat
    BY <1>1, ProgramsAssumption DEF NativePrint, AtNative, At, Ins, bc, FrameTypes
  <2>2. CASE f # "ok" BY <1>1, <2>2, FatalBounded, Zenon DEF NativePrint
  <2>3. CASE f = "ok"
    <3>1. vstack' = Drop(Ins.argc) /\ UNCHANGED <<mem, frameVars>>
      BY <1>1, <2>3, Zenon DEF NativePrint
    <3>2. StackFault(Ins.argc, 0) = "ok" BY <2>3
    <3>3. Ins.argc <= Height /\ Height - Ins.argc + 0 <= ValueStackMax
      BY <1>0, <2>1, <3>2, StackRoom
    <3>4. Height \in Nat /\ (\E S : vstack' \in Seq(S)) /\ Len(vstack') = Height - Ins.argc
      BY <2>1, <3>1, <3>3, Dropped
    <3>5. Len(vstack') <= ValueStackMax BY <2>1, <3>3, <3>4
    <3> QED BY <3>1, <3>4, <3>5 DEF Bounded, Limits, frameVars
  <2> QED BY <2>2, <2>3
<1>2. CASE Malloc
  <2> DEFINE f == StackFault(1, 1)
  <2>1. CASE f # "ok" BY <1>2, <2>1, FatalBounded, Zenon DEF Malloc
  <2>2. CASE f = "ok"
    <3>1. PICK e, n : /\ vstack' = Append(Drop(1), e) /\ mem' = VmMalloc(mem, heapHead, n).m
                      /\ UNCHANGED frameVars
      BY <1>2, <2>2, Zenon DEF Malloc
    <3>2. 1 <= Height /\ Height - 1 + 1 <= ValueStackMax BY <1>0, <2>2, StackRoom
    <3>3. (\E S : vstack' \in Seq(S)) /\ Len(vstack') = Height - 1 + 1
      BY <1>0, <3>1, <3>2, Replaced
    <3> QED BY <3>1, <3>2, <3>3, MallocDomain DEF Bounded, Limits, frameVars
  <2> QED BY <2>1, <2>2
<1>3. CASE Free
  <2> DEFINE f == First(StackFault(1, 0), IF FreeFatal(mem, AsPtr(Top(0)))
                                          THEN "double free or invalid free" ELSE "ok")
  <2>1. CASE f # "ok" BY <1>3, <2>1, FatalBounded, Zenon DEF Free
  <2>2. CASE f = "ok"
    <3>1. /\ vstack' = Drop(1) /\ mem' = VmFree(mem, heapHead, AsPtr(Top(0))).m
          /\ UNCHANGED frameVars
      BY <1>3, <2>2, Zenon DEF Free
    <3>2. StackFault(1, 0) = "ok" BY <2>2, NoFault
    <3>3. 1 <= Height /\ Height - 1 + 0 <= ValueStackMax BY <1>0, <3>2, StackRoom
    <3>4. Height \in Nat /\ (\E S : vstack' \in Seq(S)) /\ Len(vstack') = Height - 1
      BY <1>0, <3>1, <3>3, Dropped
    <3>5. Len(vstack') <= ValueStackMax BY <3>3, <3>4
    <3> QED BY <3>1, <3>4, <3>5, FreeDomain DEF Bounded, Limits, frameVars
  <2> QED BY <2>1, <2>2
<1>4. CASE Strlen BY <1>0, <1>4, YieldBounded DEF Strlen
<1>5. CASE Strcmp BY <1>0, <1>5, YieldBounded DEF Strcmp
<1>6. CASE Strcpy
  <2>1. PICK f, fault : f = First(StackFault(2, 1), fault)
                     /\ IF f # "ok" THEN Fatal(f)
                        ELSE /\ \E dst, src, n : mem' = Moved(mem, dst, src, n)
                             /\ \E e : vstack' = Append(Drop(2), e)
                             /\ UNCHANGED frameVars
    BY <1>6 DEF Strcpy
  <2>2. CASE f # "ok" BY <2>1, <2>2, FatalBounded
  <2>3. CASE f = "ok"
    <3>1. /\ \E dst, src, n : mem' = Moved(mem, dst, src, n)
          /\ \E e : vstack' = Append(Drop(2), e)
          /\ UNCHANGED frameVars
      BY <2>1, <2>3
    <3>2. StackFault(2, 1) = "ok" BY <2>1, <2>3, NoFault
    <3>3. 2 <= Height /\ Height - 2 + 1 <= ValueStackMax BY <1>0, <3>2, StackRoom
    <3>4. (\E S : vstack' \in Seq(S)) /\ Len(vstack') = Height - 2 + 1
      BY <1>0, <3>1, <3>3, Replaced
    <3> QED BY <3>1, <3>3, <3>4, MovedDomain DEF Bounded, Limits, frameVars
  <2> QED BY <2>2, <2>3
<1> QED BY <1>1, <1>2, <1>3, <1>4, <1>5, <1>6 DEF NativeStep

\* Memory with a frame's parameters in it, one after the other: the recursion of
\* ParamsIn ends, since each of its finite parts exists.
LEMMA ParamsDomain ==
  ASSUME NEW f, Len(f.params) \in Nat
  PROVE  DOMAIN ParamsIn(f)[Len(f.params)] = DOMAIN mem
<1> DEFINE n == Len(f.params)
           base == Zeroed(mem, allocTop, f.frameSize)
           Goes(g, k) == g[k] = IF k = 0 THEN base
                                ELSE Passed(g[k - 1], k, f.params[n - k + 1])
           S == {j \in 0..n : \E g : (\A k \in 0..j : Goes(g, k)) /\ g = [k \in 0..j |-> g[k]]}
           P(g) == g = [k \in 0..n |-> IF k = 0 THEN base
                                       ELSE Passed(g[k - 1], k, f.params[n - k + 1])]
<1>1. 0 \in S
  <2> DEFINE g == [k \in 0..0 |-> base]
  <2>1. \A k \in 0..0 : Goes(g, k) OBVIOUS
  <2>2. g = [k \in 0..0 |-> g[k]] OBVIOUS
  <2>3. 0 \in 0..n OBVIOUS
  <2> HIDE DEF g
  <2> QED BY <2>1, <2>2, <2>3
<1>2. ASSUME NEW j \in 0..n - 1, j \in S PROVE j + 1 \in S
  <2>1. PICK g : (\A k \in 0..j : Goes(g, k)) /\ g = [k \in 0..j |-> g[k]] BY <1>2
  <2> DEFINE h == [k \in 0..j + 1 |-> IF k = j + 1 THEN Passed(g[j], j + 1, f.params[n - (j + 1) + 1])
                                      ELSE g[k]]
  <2>2. ASSUME NEW k \in 0..j + 1 PROVE Goes(h, k)
    <3>1. CASE k = j + 1
      <4>1. h[k] = Passed(g[j], j + 1, f.params[n - (j + 1) + 1]) BY <3>1
      <4>2. k # 0 /\ k - 1 = j /\ j \in 0..j + 1 /\ j # j + 1 BY <3>1
      <4>3. h[k - 1] = g[j] BY <4>2
      <4> QED BY <3>1, <4>1, <4>2, <4>3
    <3>2. CASE k # j + 1
      <4>1. k \in 0..j BY <3>2
      <4>2. h[k] = g[k] BY <3>2
      <4>3. Goes(g, k) BY <2>1, <4>1
      <4>4. CASE k = 0 BY <4>2, <4>3, <4>4
      <4>5. CASE k # 0
        <5>1. k - 1 \in 0..j + 1 /\ k - 1 # j + 1 BY <4>1, <4>5
        <5>2. h[k - 1] = g[k - 1] BY <5>1
        <5> QED BY <4>2, <4>3, <4>5, <5>2
      <4> QED BY <4>4, <4>5
    <3> QED BY <3>1, <3>2
  <2>3. h = [k \in 0..j + 1 |-> h[k]] OBVIOUS
  <2>4. j + 1 \in 0..n BY <1>2
  <2> HIDE DEF h, Goes
  <2> QED BY <2>2, <2>3, <2>4
<1>3. n \in S
  <2>1. \A k \in 0..n - 1 : k \in S => k + 1 \in S BY <1>2
  <2>2. n \in Nat /\ n \in 0..n OBVIOUS
  <2> HIDE DEF S, n
  <2>3. \A k \in 0..n : k \in S BY <1>1, <2>1, <2>2, UpTo
  <2> QED BY <2>2, <2>3
<1>4. PICK g : (\A k \in 0..n : Goes(g, k)) /\ g = [k \in 0..n |-> g[k]] BY <1>3
<1>5. P(g) BY <1>4
<1>6. P(CHOOSE q : P(q)) BY <1>5
<1> HIDE DEF P
<1>7. ParamsIn(f) = CHOOSE q : P(q) BY DEF ParamsIn, P
<1>8. P(ParamsIn(f)) BY <1>6, <1>7
<1> DEFINE q == ParamsIn(f)
<1>9. q = [k \in 0..n |-> IF k = 0 THEN base ELSE Passed(q[k - 1], k, f.params[n - k + 1])]
  BY <1>8 DEF P
<1> HIDE DEF q
<1>10. q[0] = base /\ \A k \in 0..n - 1 : q[k + 1] = Passed(q[k], k + 1, f.params[n - (k + 1) + 1])
  <2>1. q[0] = base BY <1>9
  <2>2. ASSUME NEW k \in 0..n - 1 PROVE q[k + 1] = Passed(q[k], k + 1, f.params[n - (k + 1) + 1])
    <3>1. k + 1 \in 0..n /\ k + 1 # 0 /\ (k + 1) - 1 = k BY <2>2
    <3> QED BY <1>9, <3>1
  <2> QED BY <2>1, <2>2
<1>11. \A m, k, par : DOMAIN Passed(m, k, par) = DOMAIN m
  BY MovedDomain, WriteValueDomain DEF Passed
<1> DEFINE T == {k \in 0..n : DOMAIN q[k] = DOMAIN mem}
<1>12. 0 \in T BY <1>10, ZeroedDomain
<1>13. \A k \in 0..n - 1 : k \in T => k + 1 \in T BY <1>10, <1>11
<1>14. n \in Nat /\ n \in 0..n OBVIOUS
<1> HIDE DEF T, n
<1>15. \A k \in 0..n : k \in T BY <1>12, <1>13, <1>14, UpTo
<1>16. n \in T BY <1>14, <1>15
<1> QED BY <1>16 DEF T, q, n

\* A call takes its arguments off the operand stack and adds to the call stack,
\* which has room.
LEMMA CallBounded == ASSUME Bounded, FrameTypes, Call PROVE Bounded'
<1> DEFINE f == bc.funcs[Ins.f]
           n == Len(f.params)
           pops == IF f.returnsStruct THEN n + 1 ELSE n
<1>1. n \in Nat
  BY ProgramsAssumption DEF Call, At, Ins, bc, FrameTypes
<1>2. pops \in Nat BY <1>1
<1>3. PICK structArgs :
        LET fault == CallFault(f, pops, structArgs)
        IN IF fault # "ok" THEN Fatal(fault)
           ELSE /\ \/ \E t, x, junk : mem' = WriteValue(ParamsIn(f)[n], allocTop, t, x, junk)
                   \/ mem' = ParamsIn(f)[n]
                /\ vstack' = Drop(pops)
                /\ \E fr : cstack' = Append(cstack, fr)
                /\ \E e : due' = Append(due, Height - pops + IF e THEN 1 ELSE 0)
  <2>1. PICK structArgs :
          LET fault == CallFault(f, pops, structArgs)
          IN IF fault # "ok" THEN Fatal(fault)
             ELSE /\ mem' = IF f.returnsStruct
                            THEN WriteValue(ParamsIn(f)[n], allocTop, "PTR", Top(n), 0)
                            ELSE ParamsIn(f)[n]
                  /\ vstack' = Drop(pops)
                  /\ EnterFrame(Ins.f)
                  /\ due' = Append(due, Height - pops + IF f.declared = "scalar" THEN 1 ELSE 0)
    BY Zenon DEF Call
  <2> HIDE DEF f, n, pops
  <2> QED BY <2>1 DEF EnterFrame
<1> DEFINE fault == CallFault(f, pops, structArgs)
<1>4. CASE fault # "ok"
  <2>1. Fatal(fault) BY <1>3, <1>4
  <2> QED BY <2>1, FatalBounded
<1>5. CASE fault = "ok"
  <2>1. /\ ~(Len(cstack) >= CallStackMax) /\ ~(Height < pops)
    BY <1>5 DEF CallFault
  <2>2. /\ \/ \E t, x, junk : mem' = WriteValue(ParamsIn(f)[n], allocTop, t, x, junk)
           \/ mem' = ParamsIn(f)[n]
        /\ vstack' = Drop(pops)
        /\ \E fr : cstack' = Append(cstack, fr)
        /\ \E e : due' = Append(due, Height - pops + IF e THEN 1 ELSE 0)
    BY <1>3, <1>5
  <2>3. DOMAIN mem' = DOMAIN mem BY <1>1, <2>2, ParamsDomain, WriteValueDomain
  <2> HIDE DEF f, n, pops
  <2>4. Height \in Nat /\ Height <= ValueStackMax BY DEF Bounded, Limits, Height
  <2>5. pops <= Height BY <1>2, <2>1, <2>4
  <2>6. (\E S : vstack' \in Seq(S)) /\ Len(vstack') = Height - pops
    BY <1>2, <2>2, <2>5, Dropped
  <2>7. Len(vstack') <= ValueStackMax BY <1>2, <2>4, <2>6, VmAssumption
  <2>8. Len(cstack') = Len(cstack) + 1 /\ Len(cstack) \in Nat
    <3>1. PICK fr : cstack' = Append(cstack, fr) BY <2>2
    <3>2. cstack \in Seq(Frame \cup {fr}) BY DEF FrameTypes
    <3> QED BY <3>1, <3>2
  <2>9. Len(cstack') <= CallStackMax BY <2>1, <2>8, VmAssumption
  <2>10. due' \in Seq(Int) /\ Len(due') = Len(cstack')
    <3>1. PICK e : due' = Append(due, Height - pops + IF e THEN 1 ELSE 0) BY <2>2
    <3>2. Height - pops + (IF e THEN 1 ELSE 0) \in Int BY <1>2, <2>4
    <3>3. due \in Seq(Int) /\ Len(due) = Len(cstack) BY DEF Bounded, Limits
    <3> QED BY <2>8, <3>1, <3>2, <3>3
  <2> QED BY <2>3, <2>6, <2>7, <2>9, <2>10 DEF Bounded, Limits
<1> QED BY <1>4, <1>5, Zenon

\* A return gives up one frame and the height that was due for it.
LEMMA RetBounded == ASSUME Bounded, FrameTypes, Ret PROVE Bounded'
<1>1. CASE \E why : Fatal(why) BY <1>1, FatalBounded
<1>2. CASE /\ LeaveFrame /\ due' = SubSeq(due, 1, Len(due) - 1)
           /\ UNCHANGED <<mem, vstack>>
  <2>1. cstack # <<>> /\ cstack \in Seq(Frame) BY DEF Ret, FrameTypes
  <2>2. due \in Seq(Int) /\ Len(due) = Len(cstack) BY DEF Bounded, Limits
  <2>3. Len(cstack) \in Nat \ {0} BY <2>1
  <2>4. Len(cstack') = Len(cstack) - 1
    <3>1. cstack' = SubSeq(cstack, 1, Len(cstack) - 1) BY <1>2 DEF LeaveFrame
    <3> DEFINE k == Len(cstack) - 1
    <3>2. k \in Nat /\ \A i \in 1..k : cstack[i] \in Frame BY <2>1, <2>3
    <3> HIDE DEF k
    <3>3. Len(SubSeq(cstack, 1, k)) = IF 1 <= k THEN k - 1 + 1 ELSE 0
      BY <3>2, SubSeqProperties
    <3>4. Len(SubSeq(cstack, 1, k)) = k BY <3>2, <3>3
    <3> QED BY <3>1, <3>4 DEF k
  <2>5. due' \in Seq(Int) /\ Len(due') = Len(cstack) - 1 BY <1>2, <2>2, <2>3
  <2>6. Len(cstack') <= CallStackMax BY <2>3, <2>4, VmAssumption DEF Bounded, Limits
  <2> QED BY <1>2, <2>4, <2>5, <2>6 DEF Bounded, Limits
<1> QED BY <1>1, <1>2, Zenon DEF Ret

LEMMA InitBounded == Init => Bounded
<1> SUFFICES ASSUME Init PROVE Bounded OBVIOUS
<1>1. DOMAIN BootMemory(bc.image) = 0..MemSize - 1
  BY HeaderDomain DEF BootMemory, HeapInit
<1>2. vstack = <<>> /\ cstack = <<>> /\ due = <<>> /\ mem = BootMemory(bc.image)
  BY DEF Init
<1>3. <<>> \in Seq(Int) /\ Len(<<>>) = 0 OBVIOUS
<1> QED BY <1>1, <1>2, <1>3, VmAssumption DEF Bounded, Limits

\* Every step stays within the limits.
LEMMA NextBounded == FrameTypes /\ Bounded /\ [Next]_vars => Bounded'
<1> SUFFICES ASSUME FrameTypes, Bounded, [Next]_vars PROVE Bounded'
  OBVIOUS
<1>1. CASE UNCHANGED vars BY <1>1 DEF vars, frameVars, Bounded, Limits
<1> QED
  BY <1>1, OperandBounded, MemoryBounded, ControlBounded, CallBounded, RetBounded,
     NativeBounded DEF Next

\* Whatever the bytecode, the operand stack and the call stack stay within their
\* limits, memory keeps its size, and the current function is one of the
\* program's (push, BC_CALL and the other checks of vm.c).
THEOREM VmTypeCorrect == Spec => []TypeOK
<1>1. FInv /\ Bounded => TypeOK
  <2> SUFFICES ASSUME FInv, Bounded PROVE TypeOK OBVIOUS
  <2>1. prog \in DOMAIN Programs /\ ip \in Nat /\ cstack \in Seq(Frame) BY DEF FInv, FrameTypes
  <2>2. func \in 0..Len(bc.funcs)
    <3>1. Len(bc.funcs) \in Nat /\ DOMAIN bc.funcs = 1..Len(bc.funcs)
      BY <2>1, ProgramsAssumption DEF bc
    <3>2. CASE cstack = <<>> BY <3>1, <3>2 DEF FInv, FramesTile
    <3>3. CASE cstack # <<>>
      <4>1. Len(cstack) \in 1..Len(cstack) BY <2>1, <3>3
      <4>2. FrameFunc(Len(cstack)) \in DOMAIN bc.funcs BY <4>1 DEF FInv, FramesTile
      <4> QED BY <3>1, <4>2 DEF FrameFunc
    <3> QED BY <3>2, <3>3
  <2> QED BY <2>1, <2>2 DEF Bounded, Limits, TypeOK, Height
<1> QED BY InitFrames, NextFrames, InitBounded, NextBounded, <1>1, PTL DEF Spec, FInv

-----------------------------------------------------------------------------
\* The shapes claimed for the program that runs, and the tags claimed of its
\* operands before the next instruction.
shapes == Shapes[prog]
here == shapes[ip].tags

\* The operands of the active calls lie end to end: b[k] is where those of call k
\* begin (b[0] those of the prologue).
Bases(b, n) ==
  /\ b \in [0..n -> Nat]
  /\ b[0] = 0
  /\ \A j, k \in 0..n : j <= k => b[j] <= b[k]

\* Call k of the call stack cs will return to an instruction of its caller whose
\* shape is the operands the caller has kept and what the call owes it.
Waits(b, vs, cs, fn, du, funcs, sh, k) ==
  LET r == cs[k].retIp
      t == sh[r].tags
      w == Returned(funcs[FuncOf(cs, fn, k)])
  IN /\ r \in DOMAIN sh /\ sh[r].func = cs[k].savedFunc
     /\ du[k] = b[k - 1] + Len(t)
     /\ b[k] = b[k - 1] + Len(t) - Len(w)
     /\ \A i \in 1..Len(t) - Len(w) : vs[b[k - 1] + i].tag = t[i]
     /\ \A i \in 1..Len(w) : t[Len(t) - Len(w) + i] = w[i]

\* The operands vs[base + 1], vs[base + 2], ... have the tags s.
Tagged(vs, base, s) ==
  /\ Len(vs) = base + Len(s)
  /\ \A i \in 1..Len(s) : vs[base + i].tag = s[i]

\* The operands of the running function have the shape of its next instruction.
Runs(b, vs, cs, fn, sh, i) ==
  LET base == b[Len(cs)]
      s == sh[i].tags
  IN /\ i \in DOMAIN sh /\ sh[i].func = fn
     /\ Tagged(vs, base, s)

Shaped ==
  \E b : /\ Bases(b, Len(cstack))
         /\ \A k \in 1..Len(cstack) :
              Waits(b, vstack, cstack, func, due, bc.funcs, shapes, k)
         /\ Runs(b, vstack, cstack, func, shapes, ip)

InternalFaults == {"operand stack underflow",
                   "instruction pointer ran off the end of the program"}

\* The inductive invariant of verified bytecode.
Sound ==
  /\ Shaped
  /\ owed = 0
  /\ status = "halted" => vstack = <<>>
  /\ status \notin InternalFaults

Verif == prog \in DOMAIN Programs /\ Verified(prog)

-----------------------------------------------------------------------------
\* What Consistent says of one instruction.
LEMMA InstructionFits ==
  ASSUME Verif, ip \in DOMAIN shapes
  PROVE  /\ ip \in DOMAIN bc.code
         /\ here \in Seq(Tags) /\ Len(here) \in Nat
         /\ AsListed(prog, Ins, here)
         /\ Pops(prog, Ins) <= Len(here)
         /\ \A j \in Successors(Ins, ip) :
              Has(shapes, j, Shape(shapes[ip].func, After(prog, Ins, here)))
         /\ Ins.op = "HALT" => shapes[ip].func = 0 /\ here = <<>>
         /\ Ins.op = "RET" => /\ shapes[ip].func # 0
                              /\ here = Returned(bc.funcs[shapes[ip].func])
                              /\ HasRetval(bc.funcs[shapes[ip].func]) => here # <<>>
<1> DEFINE sh == Shapes[prog]
           s == sh[ip].tags
<1>1. ip \in DOMAIN sh BY DEF shapes
<1>2. Consistent(prog, sh) BY DEF Verif, Verified
<1> HIDE DEF sh
<1>3. DOMAIN sh \subseteq DOMAIN Programs[prog].code BY <1>2 DEF Consistent
<1>4. /\ s \in Seq(Tags)
      /\ AsListed(prog, Programs[prog].code[ip], s)
      /\ \A j \in Successors(Programs[prog].code[ip], ip) :
           Has(sh, j, Shape(sh[ip].func, After(prog, Programs[prog].code[ip], s)))
      /\ Programs[prog].code[ip].op = "HALT" => sh[ip].func = 0 /\ s = <<>>
      /\ Programs[prog].code[ip].op = "RET" =>
           /\ sh[ip].func # 0 /\ s = Returned(Programs[prog].funcs[sh[ip].func])
           /\ HasRetval(Programs[prog].funcs[sh[ip].func]) => s # <<>>
  BY <1>1, <1>2, Zenon DEF Consistent
<1>5. Len(s) \in Nat BY <1>4
<1>6. Pops(prog, Programs[prog].code[ip]) <= Len(s) BY <1>4 DEF AsListed
<1> QED BY <1>1, <1>3, <1>4, <1>5, <1>6 DEF sh, shapes, here, bc, Ins

LEMMA EntriesFit ==
  ASSUME Verif
  PROVE  /\ Has(shapes, 1, Shape(0, <<>>))
         /\ \A f \in DOMAIN bc.funcs : Has(shapes, bc.funcs[f].entry, Shape(f, <<>>))
         /\ \A i \in DOMAIN shapes : shapes[i].tags \in Seq(Tags)
BY DEF Verif, Verified, Consistent, shapes, bc

LEMMA ReturnedSeq ==
  ASSUME NEW f
  PROVE  /\ Returned(f) \in Seq({f.returnTag}) /\ Len(Returned(f)) \in Nat
         /\ Len(Returned(f)) = IF f.declared = "scalar" THEN 1 ELSE 0
<1>1. <<>> \in Seq({f.returnTag}) /\ Len(<<>>) = 0 OBVIOUS
<1>2. <<f.returnTag>> \in Seq({f.returnTag}) /\ Len(<<f.returnTag>>) = 1 OBVIOUS
<1>0. 0 \in Nat /\ 1 \in Nat OBVIOUS
<1>3. CASE f.declared = "scalar" BY <1>0, <1>2, <1>3, Zenon DEF Returned
<1>4. CASE f.declared # "scalar"
  <2>1. Returned(f) = <<>> BY <1>4, Zenon DEF Returned
  <2> QED BY <1>0, <1>1, <1>4, <2>1
<1> QED BY <1>3, <1>4

\* t is s without its last m elements, continued by w.
Joined(t, s, m, w) ==
  /\ Len(t) = Len(s) - m + Len(w)
  /\ \A i \in 1..Len(s) - m : t[i] = s[i]
  /\ \A i \in 1..Len(w) : t[Len(s) - m + i] = w[i]

LEMMA Continued ==
  ASSUME NEW S, NEW s \in Seq(S), NEW T, NEW w \in Seq(T), NEW m \in Nat, m <= Len(s),
         NEW t, t = SubSeq(s, 1, Len(s) - m) \o w
  PROVE  Joined(t, s, m, w)
<1> DEFINE n == Len(s) - m
           a == SubSeq(s, 1, n)
<1>1. n \in Nat /\ n <= Len(s) OBVIOUS
<1>2. a \in Seq(S) /\ Len(a) = n /\ \A i \in 1..n : a[i] = s[i]
  <2>1. \A i \in 1..n : s[i] \in S BY <1>1
  <2> HIDE DEF n
  <2>2. /\ SubSeq(s, 1, n) \in Seq(S)
        /\ Len(SubSeq(s, 1, n)) = IF 1 <= n THEN n - 1 + 1 ELSE 0
        /\ \A i \in 1..n - 1 + 1 : SubSeq(s, 1, n)[i] = s[1 + i - 1]
    BY <2>1, <1>1, SubSeqProperties
  <2> QED BY <2>2, <1>1
<1>3. t = a \o w OBVIOUS
<1> HIDE DEF a, n
<1>4. a \in Seq(S \cup T) /\ w \in Seq(S \cup T) BY <1>2
<1>5. /\ Len(t) = Len(a) + Len(w)
      /\ \A i \in 1..Len(a) + Len(w) : t[i] = IF i <= Len(a) THEN a[i] ELSE w[i - Len(a)]
  <2>1. /\ Len(a \o w) = Len(a) + Len(w)
        /\ \A i \in 1..Len(a) + Len(w) :
             (a \o w)[i] = IF i <= Len(a) THEN a[i] ELSE w[i - Len(a)]
    BY <1>4, ConcatProperties
  <2> QED BY <1>3, <2>1
<1>6. Len(w) \in Nat OBVIOUS
<1>7. \A i \in 1..n : t[i] = s[i] BY <1>1, <1>2, <1>5, <1>6
<1>8. ASSUME NEW i \in 1..Len(w) PROVE t[n + i] = w[i]
  <2>1. n + i \in 1..Len(a) + Len(w) /\ ~(n + i <= Len(a)) /\ (n + i) - Len(a) = i
    BY <1>1, <1>2, <1>6
  <2> QED BY <1>5, <2>1
<1> QED BY <1>2, <1>5, <1>7, <1>8 DEF n, Joined

\* The stack vs1 is the first h operands of vs with operands of the tags w on top.
Pushed(vs1, vs, h, w) ==
  /\ Len(vs1) = h + Len(w)
  /\ \A i \in 1..h : vs1[i] = vs[i]
  /\ \A i \in 1..Len(w) : vs1[h + i].tag = w[i]

LEMMA StaysTagged ==
  ASSUME NEW vs, NEW vs1, NEW s, NEW t, NEW w, NEW base \in Nat, NEW m \in Nat, NEW h,
         Len(s) \in Nat, Len(w) \in Nat, m <= Len(s), h = Len(vs) - m,
         Tagged(vs, base, s), Joined(t, s, m, w), Pushed(vs1, vs, h, w)
  PROVE  Tagged(vs1, base, t)
<1> DEFINE l == Len(s)
           n == Len(w)
<1>1. l \in Nat /\ n \in Nat /\ m <= l /\ h = base + l - m /\ h \in Nat
  BY DEF Tagged
<1>2. Len(t) = l - m + n /\ Len(vs1) = h + n BY DEF Joined, Pushed
<1>3. ASSUME NEW j \in 1..Len(t) PROVE vs1[base + j].tag = t[j]
  <2> HIDE DEF l, n
  <2>1. CASE j <= l - m
    <3>1. j \in 1..l - m /\ j \in 1..l /\ base + j \in 1..h BY <1>1, <1>2, <2>1
    <3>2. vs1[base + j] = vs[base + j] BY <3>1 DEF Pushed
    <3>3. vs[base + j].tag = s[j] BY <3>1 DEF Tagged, l
    <3>4. t[j] = s[j] BY <3>1 DEF Joined, l
    <3> QED BY <3>2, <3>3, <3>4
  <2>2. CASE ~(j <= l - m)
    <3>1. PICK i \in 1..n : base + j = h + i /\ j = l - m + i
      <4>1. j - (l - m) \in 1..n /\ base + j = h + (j - (l - m)) /\ j = l - m + (j - (l - m))
        BY <1>1, <1>2, <2>2
      <4> QED BY <4>1
    <3>2. vs1[h + i].tag = w[i] BY <3>1 DEF Pushed, n
    <3>3. t[l - m + i] = w[i] BY <3>1 DEF Joined, l, n
    <3> QED BY <3>1, <3>2, <3>3
  <2> QED BY <2>1, <2>2
<1> QED BY <1>1, <1>2, <1>3 DEF Tagged

\* What happens above the operands a call's caller keeps is nothing to it.
LEMMA StillWaits ==
  ASSUME NEW b, NEW vs, NEW vs1, NEW cs, NEW fn, NEW du, NEW funcs, NEW sh, NEW n \in Nat,
         NEW k \in 1..n, NEW m \in Nat, Bases(b, n), b[n] <= m,
         \A i \in 1..m : vs1[i] = vs[i],
         \A i \in DOMAIN sh : sh[i].tags \in Seq(Tags),
         Waits(b, vs, cs, fn, du, funcs, sh, k)
  PROVE  Waits(b, vs1, cs, fn, du, funcs, sh, k)
<1> DEFINE t == sh[cs[k].retIp].tags
           w == Returned(funcs[FuncOf(cs, fn, k)])
<1>1. Len(t) \in Nat BY DEF Waits
<1>2. Len(w) \in Nat BY ReturnedSeq
<1>3. b[k] <= m /\ b[k] \in Nat /\ b[k - 1] \in Nat
  <2>1. k \in 0..n /\ n \in 0..n /\ k <= n /\ k - 1 \in 0..n OBVIOUS
  <2>2. b[k] <= b[n] /\ b[k] \in Nat /\ b[n] \in Nat /\ b[k - 1] \in Nat BY <2>1 DEF Bases
  <2> QED BY <2>2
<1>4. b[k] = b[k - 1] + Len(t) - Len(w) BY DEF Waits
<1>5. \A i \in 1..Len(t) - Len(w) : vs1[b[k - 1] + i].tag = t[i]
  <2> TAKE i \in 1..Len(t) - Len(w)
  <2>1. vs[b[k - 1] + i].tag = t[i] BY DEF Waits
  <2> HIDE DEF t, w
  <2>2. b[k - 1] + i \in 1..m BY <1>1, <1>2, <1>3, <1>4
  <2> QED BY <2>1, <2>2
<1> QED BY <1>5 DEF Waits

\* An instruction that goes on in its function, with its operands replaced by
\* what its row says, keeps the shapes.
LEMMA WithinFunction ==
  ASSUME Verif, Shaped, Bounded, cstack \in Seq(Frame),
         NEW T, NEW w \in Seq(T), w = Pushes(prog, Ins, here),
         NEW m \in Nat, m = Pops(prog, Ins),
         ip' \in Successors(Ins, ip),
         Pushed(vstack', vstack, Height - m, w),
         UNCHANGED <<prog, cstack, func, due>>
  PROVE  Shaped'
<1> DEFINE n == Len(cstack)
           s == here
           t == After(prog, Ins, s)
<1>1. PICK b : /\ Bases(b, n)
               /\ \A k \in 1..n : Waits(b, vstack, cstack, func, due, bc.funcs, shapes, k)
               /\ Runs(b, vstack, cstack, func, shapes, ip)
  BY DEF Shaped
<1>2. ip \in DOMAIN shapes /\ shapes[ip].func = func /\ Tagged(vstack, b[n], s)
  BY <1>1 DEF Runs, here
<1>3. s \in Seq(Tags) /\ Len(s) \in Nat /\ m <= Len(s)
      /\ Has(shapes, ip', Shape(shapes[ip].func, t))
  BY <1>2, InstructionFits
<1>4. n \in Nat /\ b[n] \in Nat
  <2>1. n \in Nat OBVIOUS
  <2>2. n \in 0..n BY <2>1
  <2> QED BY <1>1, <2>1, <2>2 DEF Bases
<1>5. Len(w) \in Nat OBVIOUS
<1>6. Joined(t, s, m, w)
  <2>1. t = SubSeq(s, 1, Len(s) - m) \o w BY DEF After
  <2> HIDE DEF t, s
  <2> QED BY <1>3, <2>1, Continued
<1>7. shapes' = shapes /\ bc' = bc BY DEF shapes, bc
<1>8. ip' \in DOMAIN shapes /\ shapes[ip'].func = func /\ shapes[ip'].tags = t
  BY <1>2, <1>3 DEF Has, Shape
<1> DEFINE h == Height - m
<1>9. h \in Nat /\ b[n] <= h /\ h = Len(vstack) - m
  <2>1. Height = b[n] + Len(s) BY <1>2 DEF Tagged, Height
  <2>2. h = Len(vstack) - m BY DEF Height
  <2> HIDE DEF n, s
  <2> QED BY <1>3, <1>4, <2>1, <2>2
<1>10. Pushed(vstack', vstack, h, w) OBVIOUS
<1> HIDE DEF t, s, n, h
<1>11. Runs(b, vstack', cstack, func, shapes, ip')
  <2>1. Tagged(vstack', b[n], t) BY <1>2, <1>3, <1>4, <1>5, <1>6, <1>9, <1>10, StaysTagged
  <2> QED BY <1>8, <2>1 DEF Runs, n
<1>12. ASSUME NEW k \in 1..n PROVE Waits(b, vstack', cstack, func, due, bc.funcs, shapes, k)
  <2>1. Waits(b, vstack, cstack, func, due, bc.funcs, shapes, k) BY <1>1
  <2>2. \A i \in DOMAIN shapes : shapes[i].tags \in Seq(Tags) BY EntriesFit
  <2>3. \A i \in 1..h : vstack'[i] = vstack[i] BY <1>10 DEF Pushed
  <2> QED BY <1>1, <1>4, <1>9, <2>1, <2>2, <2>3, StillWaits
<1> QED BY <1>1, <1>7, <1>11, <1>12 DEF Shaped, n

-----------------------------------------------------------------------------
\* The operands the shape promises are on the stack.
LEMMA OperandsThere ==
  ASSUME Verif, Shaped, Bounded, cstack \in Seq(Frame)
  PROVE  /\ ip \in DOMAIN shapes /\ shapes[ip].func = func
         /\ Height \in Nat /\ Len(here) \in Nat /\ Len(here) <= Height
         /\ \A k \in 0..Len(here) - 1 : Top(k).tag = here[Len(here) - k]
<1> DEFINE n == Len(cstack)
           s == here
<1>1. PICK b : Bases(b, n) /\ Runs(b, vstack, cstack, func, shapes, ip)
  BY DEF Shaped
<1>2. ip \in DOMAIN shapes /\ shapes[ip].func = func /\ Tagged(vstack, b[n], s)
  BY <1>1 DEF Runs, here
<1>3. Len(s) \in Nat BY <1>2, InstructionFits
<1>4. b[n] \in Nat
  <2>1. n \in Nat OBVIOUS
  <2>2. n \in 0..n BY <2>1
  <2> QED BY <1>1, <2>2 DEF Bases
<1> DEFINE base == b[n]
           l == Len(s)
<1>5. base \in Nat /\ l \in Nat /\ Height = base + l BY <1>2, <1>3, <1>4 DEF Tagged, Height
<1>6. \A i \in 1..l : vstack[base + i].tag = s[i] BY <1>2 DEF Tagged
<1> HIDE DEF base, l
<1>7. ASSUME NEW k \in 0..l - 1 PROVE Top(k).tag = s[l - k]
  <2>1. l - k \in 1..l /\ base + (l - k) = Height - k BY <1>5
  <2> QED BY <1>6, <2>1 DEF Top
<1> QED BY <1>2, <1>5, <1>7 DEF l

\* What dropping operands, and pushing one after that, makes of the stack.
LEMMA DropPushed ==
  ASSUME Bounded, NEW m \in Nat, m <= Height
  PROVE  /\ Pushed(Drop(m), vstack, Height - m, <<>>)
         /\ \A e : Pushed(Append(Drop(m), e), vstack, Height - m, <<e.tag>>)
<1>1. PICK S : vstack \in Seq(S) BY DEF Bounded, Limits
<1> DEFINE n == Height - m
           d == SubSeq(vstack, 1, n)
<1>2. n \in Nat /\ n <= Len(vstack) BY <1>1 DEF Height
<1>3. d \in Seq(S) /\ Len(d) = n /\ \A i \in 1..n : d[i] = vstack[i]
  <2>1. \A i \in 1..n : vstack[i] \in S BY <1>1, <1>2
  <2> HIDE DEF n
  <2>2. /\ SubSeq(vstack, 1, n) \in Seq(S)
        /\ Len(SubSeq(vstack, 1, n)) = IF 1 <= n THEN n - 1 + 1 ELSE 0
        /\ \A i \in 1..n - 1 + 1 : SubSeq(vstack, 1, n)[i] = vstack[1 + i - 1]
    BY <2>1, <1>2, SubSeqProperties
  <2> QED BY <2>2, <1>2
<1>4. Drop(m) = d BY DEF Drop
<1> HIDE DEF d, n
<1>5. Pushed(d, vstack, n, <<>>) BY <1>2, <1>3 DEF Pushed
<1>6. ASSUME NEW e PROVE Pushed(Append(d, e), vstack, n, <<e.tag>>)
  <2>1. d \in Seq(S \cup {e}) BY <1>3
  <2>2. /\ Len(Append(d, e)) = n + 1
        /\ Append(d, e)[n + 1] = e
        /\ \A i \in 1..n : Append(d, e)[i] = d[i]
    BY <1>2, <1>3, <2>1, AppendProperties
  <2>3. Len(<<e.tag>>) = 1 /\ <<e.tag>>[1] = e.tag OBVIOUS
  <2> DEFINE w == <<e.tag>>
             q == Append(d, e)
  <2> HIDE DEF w, q
  <2> QED BY <1>2, <1>3, <2>2, <2>3 DEF Pushed, w, q
<1> QED BY <1>4, <1>5, <1>6 DEF n

Harmless(f) == f \notin InternalFaults /\ f # "halted"

\* A refused instruction leaves everything as it was.
LEMMA RefusedSound ==
  ASSUME Sound, NEW why, Fatal(why), Harmless(why)
  PROVE  Sound'
BY DEF Sound, Fatal, Harmless, Shaped, shapes, bc, frameVars

\* The checks of the operand stack that verified bytecode can fail.
LEMMA FaultHarmless ==
  ASSUME Bounded, NEW m \in Nat, m <= Height, NEW k, NEW fault, Harmless(fault)
  PROVE  Harmless(First(StackFault(m, k), fault))
<1>1. ~(Height < m) BY DEF Bounded, Limits, Height
<1>2. StackFault(m, k) \in {"operand stack overflow", "ok"} BY <1>1, Zenon DEF StackFault
<1> QED BY <1>2 DEF First, Harmless, InternalFaults

\* The row of the instruction about to be executed: it takes m operands, leaves
\* some of the tags w and goes on behind itself.
Row(m, w) ==
  /\ Pops(prog, Ins) = m
  /\ Pushes(prog, Ins, here) = w
  /\ Successors(Ins, ip) = {ip + 1}

\* Operands are replaced by one result, whatever happens to memory.
LEMMA ReplacedSound ==
  ASSUME Verif, Sound, Bounded, cstack \in Seq(Frame), status = "running",
         NEW m \in Nat, NEW e, vstack' = Append(Drop(m), e), ip' = ip + 1,
         UNCHANGED <<prog, cstack, func, due, owed, status>>, Row(m, <<e.tag>>)
  PROVE  Sound'
<1> DEFINE w == <<e.tag>>
<1>0. m = Pops(prog, Ins) BY DEF Row
<1>1. m <= Height
  <2>1. m <= Len(here) BY <1>0, OperandsThere, InstructionFits DEF Sound
  <2> QED BY <2>1, OperandsThere DEF Sound
<1>2. Pushed(vstack', vstack, Height - m, w) BY <1>1, DropPushed
<1>3. w \in Seq({e.tag}) OBVIOUS
<1>4. ip' \in Successors(Ins, ip) /\ w = Pushes(prog, Ins, here) BY DEF Row
<1> HIDE DEF w
<1>5. Shaped' BY <1>0, <1>2, <1>3, <1>4, WithinFunction DEF Sound
<1> QED BY <1>5 DEF Sound

LEMMA YieldSound ==
  ASSUME Verif, Sound, Bounded, cstack \in Seq(Frame), status = "running",
         NEW m \in Nat, NEW result, NEW fault, Harmless(fault),
         Yield(m, result, fault), Row(m, <<result.tag>>)
  PROVE  Sound'
<1> DEFINE f == First(StackFault(m, 1), fault)
<1>1. m <= Height
  <2>0. m = Pops(prog, Ins) BY DEF Row
  <2>1. m <= Len(here) BY <2>0, OperandsThere, InstructionFits DEF Sound
  <2> QED BY <2>1, OperandsThere DEF Sound
<1>2. CASE f # "ok"
  <2>1. Fatal(f) BY <1>2, Zenon DEF Yield
  <2> QED BY <1>1, <2>1, FaultHarmless, RefusedSound
<1>3. CASE f = "ok"
  <2>1. /\ vstack' = Append(Drop(m), result) /\ ip' = ip + 1
        /\ UNCHANGED <<prog, frameVars, status>>
    BY <1>3, Zenon DEF Yield
  <2>2. UNCHANGED <<prog, cstack, func, due, owed, status>> BY <2>1 DEF frameVars
  <2> QED BY <2>1, <2>2, ReplacedSound
<1> QED BY <1>2, <1>3

\* Operands are dropped and nothing is pushed, whatever happens to memory.
LEMMA DroppedSound ==
  ASSUME Verif, Sound, Bounded, cstack \in Seq(Frame), status = "running",
         NEW m \in Nat, m = Pops(prog, Ins), vstack' = Drop(m),
         UNCHANGED <<prog, cstack, func, due, owed, status>>,
         Pushes(prog, Ins, here) = <<>>, ip' \in Successors(Ins, ip)
  PROVE  Sound'
<1>1. m <= Height
  <2>1. m <= Len(here) BY OperandsThere, InstructionFits DEF Sound
  <2> QED BY <2>1, OperandsThere DEF Sound
<1>2. Pushed(vstack', vstack, Height - m, <<>>) BY <1>1, DropPushed
<1>3. <<>> \in Seq({0}) OBVIOUS
<1>4. Shaped' BY <1>2, <1>3, WithinFunction DEF Sound
<1> QED BY <1>4 DEF Sound

LEMMA WriteSound ==
  ASSUME Verif, Sound, Bounded, cstack \in Seq(Frame), status = "running",
         NEW m \in Nat, NEW newMem, NEW fault, Harmless(fault),
         Write(m, newMem, fault), Row(m, <<>>)
  PROVE  Sound'
<1> DEFINE f == First(StackFault(m, 0), fault)
<1>0. m = Pops(prog, Ins) BY DEF Row
<1>1. m <= Height
  <2>1. m <= Len(here) BY <1>0, OperandsThere, InstructionFits DEF Sound
  <2> QED BY <2>1, OperandsThere DEF Sound
<1>2. CASE f # "ok"
  <2>1. Fatal(f) BY <1>2, Zenon DEF Write
  <2> QED BY <1>1, <2>1, FaultHarmless, RefusedSound
<1>3. CASE f = "ok"
  <2>1. vstack' = Drop(m) /\ ip' = ip + 1 /\ UNCHANGED <<prog, frameVars, status>>
    BY <1>3, Zenon DEF Write
  <2>2. ip' \in Successors(Ins, ip) /\ Pushes(prog, Ins, here) = <<>> BY <2>1 DEF Row
  <2>3. UNCHANGED <<prog, cstack, func, due, owed, status>> BY <2>1 DEF frameVars
  <2> QED BY <1>0, <2>1, <2>2, <2>3, DroppedSound
<1> QED BY <1>2, <1>3

LEMMA FaultsHarmless ==
  /\ Harmless("ok")
  /\ \A a, n : Harmless(RangeFault(a, n))
  /\ \A f, g : Harmless(f) /\ Harmless(g) => Harmless(First(f, g))
  /\ \A a, b : Harmless(DivFault(a, b))
<1>1. Harmless("ok") BY DEF Harmless, InternalFaults
<1>2. ASSUME NEW a, NEW n PROVE Harmless(RangeFault(a, n))
  <2>1. RangeFault(a, n) \in {"null pointer dereference", "segmentation fault", "ok"}
    BY Zenon DEF RangeFault
  <2> QED BY <2>1 DEF Harmless, InternalFaults
<1>3. \A f, g : Harmless(f) /\ Harmless(g) => Harmless(First(f, g)) BY Zenon DEF First
<1>4. ASSUME NEW a, NEW b PROVE Harmless(DivFault(a, b))
  <2>1. DivFault(a, b) \in {"division by zero", "host trap", "ok"} BY Zenon DEF DivFault
  <2> QED BY <2>1 DEF Harmless, InternalFaults
<1> QED BY <1>1, <1>2, <1>3, <1>4

\* The tags of what is computed.
LEMMA ResultTags ==
  /\ \A t, x : Val(t, x).tag = t
  /\ \A c : BoolVal(c).tag = "BOOL"
  /\ \A a, t : CastValue(a, t).tag = t
  /\ \A op, a, c : Arith(op, a, c).tag = a.tag
  /\ \A a : Negate(a).tag = a.tag
  /\ \A m, a, t : ReadValue(m, a, t).tag = t
<1>1. \A t, x : Val(t, x).tag = t BY DEF Val
<1>2. \A c : BoolVal(c).tag = "BOOL" BY DEF BoolVal
<1>3. \A a, t : CastValue(a, t).tag = t BY <1>1, <1>2, Zenon DEF CastValue
<1>4. ASSUME NEW op, NEW a, NEW c PROVE Arith(op, a, c).tag = a.tag
  <2>1. CASE a.tag = "BOOL"
    <3>1. \E z : Arith(op, a, c) = BoolVal(z) BY <2>1, Zenon DEF Arith
    <3> QED BY <1>2, <2>1, <3>1
  <2>2. CASE a.tag # "BOOL"
    <3>1. \E z : Arith(op, a, c) = Val(a.tag, z) BY <2>2, Zenon DEF Arith
    <3> QED BY <1>1, <3>1
  <2> QED BY <2>1, <2>2
<1>5. \A a : Negate(a).tag = a.tag BY <1>1, Zenon DEF Negate
<1>6. \A m, a, t : ReadValue(m, a, t).tag = t BY <1>1, Zenon DEF ReadValue
<1> QED BY <1>1, <1>2, <1>3, <1>4, <1>5, <1>6

\* The tags of the uppermost operands are those of the shape.
LEMMA TopTags ==
  ASSUME Verif, Shaped, Bounded, cstack \in Seq(Frame)
  PROVE  /\ Pops(prog, Ins) = 1 => Top(0).tag = here[Len(here)]
         /\ Pops(prog, Ins) = 2 => /\ Top(0).tag = here[Len(here)]
                                   /\ Top(1).tag = here[Len(here) - 1]
<1> DEFINE l == Len(here)
           p == Pops(prog, Ins)
<1>1. l \in Nat /\ p <= l /\ \A k \in 0..l - 1 : Top(k).tag = here[l - k]
  BY OperandsThere, InstructionFits
<1>4. l \in Nat /\ p <= l BY <1>1
<1> HIDE DEF l, p
<1>2. p \in {1, 2} => 0 \in 0..l - 1 /\ l - 0 = l BY <1>4
<1>3. p = 2 => 1 \in 0..l - 1
  <2>1. p = 2 => 2 <= l BY <1>4, Zenon
  <2>2. 2 <= l => 1 \in 0..l - 1 BY <1>4
  <2> QED BY <2>1, <2>2, Zenon
<1> QED BY <1>1, <1>2, <1>3 DEF l, p

\* The table of opcodes (codegen.h), for those that go on behind themselves.
LEMMA Rows ==
  /\ At({"PUSH"}) => Row(0, <<Ins.val.tag>>)
  /\ At({"POP", "ZERO_MEM"}) => Row(1, <<>>)
  /\ At({"DUP"}) => Row(1, <<here[Len(here)], here[Len(here)]>>)
  /\ At({"ADDR_LOCAL"}) => Row(0, <<"PTR">>)
  /\ At({"MEMBER_ADDR"}) => Row(1, <<"PTR">>)
  /\ At({"PTR_ADD", "PTR_SUB", "ARR_ADDR"}) => Row(2, <<"PTR">>)
  /\ At({"PTR_DIFF"}) => Row(2, <<"LONG">>)
  /\ At({"LOAD", "CAST"}) => Row(1, <<Ins.tag>>)
  /\ At({"STORE", "COPY"}) => Row(2, <<>>)
  /\ At({"ADD", "SUB", "MUL", "DIV", "MOD"}) => Row(2, <<here[Len(here) - 1]>>)
  /\ At({"NEG"}) => Row(1, <<here[Len(here)]>>)
  /\ At({"LT", "GT", "LE", "GE", "EQ", "NE"}) => Row(2, <<"BOOL">>)
  /\ At({"NOT"}) => Row(1, <<"BOOL">>)
BY DEF At, Row, Pops, Pushes, Successors, OnPointers, Arithmetic, Comparison

\* The natives' rows.
LEMMA NativeRows ==
  /\ AtNative("print") => Row(Ins.argc, <<>>)
  /\ AtNative("malloc") => Row(1, <<"PTR">>)
  /\ AtNative("free") => Row(1, <<>>)
  /\ AtNative("strlen") => Row(1, <<"INT">>)
  /\ AtNative("strcmp") => Row(2, <<"INT">>)
  /\ AtNative("strcpy") => Row(2, <<"PTR">>)
BY DEF AtNative, At, Row, Pops, Pushes, Successors, OnPointers, Arithmetic, Comparison

\* The opcodes that compute on the operand stack do what their rows say.
LEMMA OperandSound ==
  ASSUME Verif, Sound, Bounded, cstack \in Seq(Frame), OperandStep
  PROVE  Sound'
<1> DEFINE above == here[Len(here)]
           below == here[Len(here) - 1]
<1>0. 0 \in Nat /\ 1 \in Nat /\ 2 \in Nat OBVIOUS
<1>a. status = "running" BY DEF OperandStep, Push, Pop, Dup, AddrLocal, MemberAddr, ArrAddr,
        PtrAdd, PtrSub, PtrDiff, ArithOp, Neg, CompareOp, Not, Cast, At
<1> USE <1>0, <1>a, FaultsHarmless, ResultTags
<1>1. CASE Push BY <1>1, Rows, YieldSound DEF Push
<1>2. CASE Pop BY <1>2, Rows, WriteSound DEF Pop, At
<1>3. CASE Dup
  <2> DEFINE f == StackFault(1, 2)
             w == <<above, above>>
  <2>1. Row(1, w) BY <1>3, Rows DEF Dup
  <2>2. Top(0).tag = above BY <2>1, TopTags DEF Row, Sound
  <2>3. 1 <= Height
    <3>1. 1 <= Len(here) BY <2>1, OperandsThere, InstructionFits DEF Row, Sound
    <3> QED BY <3>1, OperandsThere DEF Sound
  <2>4. CASE f # "ok"
    <3>1. Fatal(f) BY <1>3, <2>4, Zenon DEF Dup
    <3>2. f \in {"operand stack overflow", "ok"}
      <4>1. ~(Height < 1) BY <2>3 DEF Bounded, Limits, Height
      <4> QED BY <4>1, Zenon DEF StackFault
    <3>3. Harmless(f) BY <3>2 DEF Harmless, InternalFaults
    <3> QED BY <3>1, <3>3, RefusedSound
  <2>5. CASE f = "ok"
    <3>1. /\ vstack' = Append(vstack, Top(0)) /\ ip' = ip + 1
          /\ UNCHANGED <<prog, frameVars, status>>
      BY <1>3, <2>5, Zenon DEF Dup
    <3>2. Pushed(vstack', vstack, Height - 1, w)
      <4>1. PICK S : vstack \in Seq(S) BY DEF Bounded, Limits
      <4> DEFINE e == Top(0)
      <4>2. vstack \in Seq(S \cup {e}) BY <4>1
      <4>3. /\ Len(vstack') = Height + 1 /\ vstack'[Height + 1] = e
            /\ \A i \in 1..Height : vstack'[i] = vstack[i]
        BY <3>1, <4>2, AppendProperties DEF Height
      <4>4. vstack[Height] = e BY <4>1, <2>3 DEF Top, Height
      <4>5. Height \in Nat BY <4>1 DEF Height
      <4>6. Len(w) = 2 /\ w[1] = above /\ w[2] = above OBVIOUS
      <4>7. e.tag = above BY <2>2
      <4> HIDE DEF e, w
      <4>8. \A i \in 1..Len(w) : vstack'[Height - 1 + i].tag = w[i]
        <5>1. vstack'[Height - 1 + 1].tag = w[1] BY <2>3, <4>3, <4>4, <4>5, <4>6, <4>7
        <5>2. vstack'[Height - 1 + 2].tag = w[2] BY <4>3, <4>5, <4>6, <4>7
        <5> QED BY <4>6, <5>1, <5>2
      <4> QED BY <2>3, <4>3, <4>5, <4>6, <4>8 DEF Pushed
    <3>3. w \in Seq({above}) OBVIOUS
    <3>4. ip' \in Successors(Ins, ip) /\ w = Pushes(prog, Ins, here) /\ 1 = Pops(prog, Ins)
      BY <2>1, <3>1 DEF Row
    <3>5. UNCHANGED <<prog, cstack, func, due, owed, status>> BY <3>1 DEF frameVars
    <3> HIDE DEF w
    <3>6. Shaped' BY <3>2, <3>3, <3>4, <3>5, WithinFunction DEF Sound
    <3> QED BY <3>5, <3>6 DEF Sound
  <2> QED BY <2>4, <2>5
<1>4. CASE AddrLocal BY <1>4, Rows, YieldSound DEF AddrLocal
<1>5. CASE MemberAddr BY <1>5, Rows, YieldSound DEF MemberAddr
<1>6. CASE ArrAddr
  <2>1. Row(2, <<"PTR">>) BY <1>6, Rows DEF ArrAddr, At
  <2> DEFINE e == Val("PTR", AsPtr(Top(1)) + Top(0).v * Ins.elem)
  <2>2. PICK fault : fault \in {"ok", "array index out of bounds"} /\ Yield(2, e, fault)
    BY <1>6, Zenon DEF ArrAddr
  <2>3. Harmless(fault) BY <2>2 DEF Harmless, InternalFaults
  <2>4. e.tag = "PTR" OBVIOUS
  <2> HIDE DEF e
  <2> QED BY <2>1, <2>2, <2>3, <2>4, YieldSound
<1>7. CASE PtrAdd BY <1>7, Rows, YieldSound DEF PtrAdd, At
<1>8. CASE PtrSub BY <1>8, Rows, YieldSound DEF PtrSub, At
<1>9. CASE PtrDiff
  <2>1. Row(2, <<"LONG">>) BY <1>9, Rows DEF PtrDiff
  <2>2. PICK x : Yield(2, Val("LONG", x), "ok") BY <1>9, Zenon DEF PtrDiff
  <2>3. Val("LONG", x).tag = "LONG" OBVIOUS
  <2> QED BY <2>1, <2>2, <2>3, YieldSound
<1>10. CASE ArithOp
  <2>1. Row(2, <<below>>) BY <1>10, Rows DEF ArithOp
  <2>2. Arith(Ins.op, Top(1), Top(0)).tag = below BY <2>1, TopTags DEF Row, Sound
  <2>3. PICK fault : Harmless(fault) /\ Yield(2, Arith(Ins.op, Top(1), Top(0)), fault)
    BY <1>10, Zenon DEF ArithOp
  <2> QED BY <2>1, <2>2, <2>3, YieldSound
<1>11. CASE Neg
  <2>1. Row(1, <<above>>) BY <1>11, Rows DEF Neg
  <2>2. Negate(Top(0)).tag = above BY <2>1, TopTags DEF Row, Sound
  <2> QED BY <1>11, <2>1, <2>2, YieldSound DEF Neg
<1>12. CASE CompareOp BY <1>12, Rows, YieldSound DEF CompareOp
<1>13. CASE Not BY <1>13, Rows, YieldSound DEF Not
<1>14. CASE Cast BY <1>14, Rows, YieldSound DEF Cast, At
<1> QED
  BY <1>1, <1>2, <1>3, <1>4, <1>5, <1>6, <1>7, <1>8, <1>9, <1>10, <1>11, <1>12, <1>13,
     <1>14 DEF OperandStep

\* Loads and stores do, too: the tag of what is loaded is the instruction's.
LEMMA MemorySound ==
  ASSUME Verif, Sound, Bounded, cstack \in Seq(Frame), MemoryStep
  PROVE  Sound'
<1>0. 0 \in Nat /\ 1 \in Nat /\ 2 \in Nat OBVIOUS
<1>a. status = "running" BY DEF MemoryStep, Load, Store, Copy, ZeroMem, At
<1> USE <1>0, <1>a, FaultsHarmless, ResultTags
<1>1. CASE Load
  <2> DEFINE e == ReadValue(mem, AsPtr(Top(0)), Ins.tag)
  <2>1. Row(1, <<Ins.tag>>) BY <1>1, Rows DEF Load, At
  <2>2. e.tag = Ins.tag OBVIOUS
  <2>3. PICK fault : Harmless(fault) /\ Yield(1, e, fault) BY <1>1, Zenon DEF Load
  <2> HIDE DEF e
  <2> QED BY <2>1, <2>2, <2>3, YieldSound
<1>2. CASE Store BY <1>2, Rows, WriteSound DEF Store, At
<1>3. CASE Copy BY <1>3, Rows, WriteSound DEF Copy, At
<1>4. CASE ZeroMem BY <1>4, Rows, WriteSound DEF ZeroMem, At
<1> QED BY <1>1, <1>2, <1>3, <1>4 DEF MemoryStep

\* Natives take and leave what their rows say.
LEMMA NativeSound ==
  ASSUME Verif, Sound, Bounded, FrameTypes, NativeStep
  PROVE  Sound'
<1>0. 0 \in Nat /\ 1 \in Nat /\ 2 \in Nat OBVIOUS
<1>a. status = "running"
  BY DEF NativeStep, NativePrint, Malloc, Free, Strlen, Strcmp, Strcpy, AtNative, At
<1>b. cstack \in Seq(Frame) BY DEF FrameTypes
<1>c. ASSUME NEW m \in Nat, m = Pops(prog, Ins) PROVE m <= Height
  <2>1. m <= Len(here) BY <1>b, <1>c, OperandsThere, InstructionFits DEF Sound
  <2> QED BY <1>b, <2>1, OperandsThere DEF Sound
<1> USE <1>0, <1>a, <1>b, FaultsHarmless, ResultTags
<1>1. CASE NativePrint
  <2> DEFINE f == IF Ins.argc > NativeMaxArgs THEN "too many arguments"
                  ELSE StackFault(Ins.argc, 0)
  <2>1. Ins.argc \in Nat
    BY <1>1, ProgramsAssumption DEF NativePrint, AtNative, At, Ins, bc, FrameTypes
  <2>2. Row(Ins.argc, <<>>) BY <1>1, NativeRows DEF NativePrint
  <2>3. CASE f # "ok"
    <3>1. Fatal(f) BY <1>1, <2>3, Zenon DEF NativePrint
    <3>2. Ins.argc <= Height BY <1>c, <2>1, <2>2 DEF Row
    <3>3. ~(Height < Ins.argc) BY <2>1, <3>2 DEF Bounded, Limits, Height
    <3>4. f \in {"too many arguments", "operand stack overflow", "ok"}
      BY <3>3, Zenon DEF StackFault
    <3>5. Harmless(f) BY <3>4 DEF Harmless, InternalFaults
    <3> QED BY <3>1, <3>5, RefusedSound
  <2>4. CASE f = "ok"
    <3>1. vstack' = Drop(Ins.argc) /\ ip' = ip + 1 /\ UNCHANGED <<prog, frameVars, status>>
      BY <1>1, <2>4, Zenon DEF NativePrint
    <3>2. UNCHANGED <<prog, cstack, func, due, owed, status>> BY <3>1 DEF frameVars
    <3>3. /\ Ins.argc = Pops(prog, Ins) /\ Pushes(prog, Ins, here) = <<>>
          /\ ip' \in Successors(Ins, ip)
      BY <2>2, <3>1 DEF Row
    <3> QED BY <2>1, <3>1, <3>2, <3>3, DroppedSound
  <2> QED BY <2>3, <2>4
<1>2. CASE Malloc
  <2> DEFINE f == StackFault(1, 1)
  <2>1. Row(1, <<"PTR">>) BY <1>2, NativeRows DEF Malloc
  <2>2. 1 <= Height BY <1>c, <2>1 DEF Row
  <2>3. CASE f # "ok"
    <3>1. Fatal(f) BY <1>2, <2>3, Zenon DEF Malloc
    <3>2. Harmless(First(f, "ok")) BY <2>2, FaultHarmless
    <3>3. First(f, "ok") = f BY <2>3 DEF First
    <3> QED BY <3>1, <3>2, <3>3, RefusedSound
  <2>4. CASE f = "ok"
    <3>1. PICK x : /\ vstack' = Append(Drop(1), Val("PTR", x)) /\ ip' = ip + 1
                   /\ UNCHANGED <<prog, frameVars, status>>
      BY <1>2, <2>4, Zenon DEF Malloc
    <3>2. UNCHANGED <<prog, cstack, func, due, owed, status>> BY <3>1 DEF frameVars
    <3> DEFINE e == Val("PTR", x)
    <3>3. e.tag = "PTR" /\ vstack' = Append(Drop(1), e) BY <3>1
    <3> HIDE DEF e
    <3> QED BY <2>1, <3>1, <3>2, <3>3, ReplacedSound
  <2> QED BY <2>3, <2>4
<1>3. CASE Free
  <2> DEFINE g == IF FreeFatal(mem, AsPtr(Top(0)))
                  THEN "double free or invalid free" ELSE "ok"
             f == First(StackFault(1, 0), g)
  <2>1. Row(1, <<>>) BY <1>3, NativeRows DEF Free
  <2>2. 1 <= Height BY <1>c, <2>1 DEF Row
  <2>3. CASE f # "ok"
    <3>1. Fatal(f) BY <1>3, <2>3, Zenon DEF Free
    <3>2. Harmless(g) BY DEF Harmless, InternalFaults
    <3> HIDE DEF g
    <3> QED BY <2>2, <3>1, <3>2, FaultHarmless, RefusedSound
  <2>4. CASE f = "ok"
    <3>1. vstack' = Drop(1) /\ ip' = ip + 1 /\ UNCHANGED <<prog, frameVars, status>>
      BY <1>3, <2>4, Zenon DEF Free
    <3>2. UNCHANGED <<prog, cstack, func, due, owed, status>> BY <3>1 DEF frameVars
    <3>3. /\ 1 = Pops(prog, Ins) /\ Pushes(prog, Ins, here) = <<>>
          /\ ip' \in Successors(Ins, ip)
      BY <2>1, <3>1 DEF Row
    <3> QED BY <3>1, <3>2, <3>3, DroppedSound
  <2> QED BY <2>3, <2>4
<1>4. CASE Strlen
  <2> DEFINE e == Val("INT", Len(Text(AsPtr(Top(0)))))
  <2>1. Row(1, <<"INT">>) BY <1>4, NativeRows DEF Strlen
  <2>2. e.tag = "INT" OBVIOUS
  <2>3. PICK fault : Harmless(fault) /\ Yield(1, e, fault) BY <1>4, Zenon DEF Strlen
  <2> HIDE DEF e
  <2> QED BY <2>1, <2>2, <2>3, YieldSound
<1>5. CASE Strcmp
  <2>1. Row(2, <<"INT">>) BY <1>5, NativeRows DEF Strcmp
  <2>2. PICK x, p, q, r, t : Yield(2, Val("INT", x), First(RangeFault(p, q), RangeFault(r, t)))
    BY <1>5, Zenon DEF Strcmp
  <2>3. Harmless(First(RangeFault(p, q), RangeFault(r, t))) OBVIOUS
  <2> DEFINE e == Val("INT", x)
  <2>4. e.tag = "INT" /\ Yield(2, e, First(RangeFault(p, q), RangeFault(r, t))) BY <2>2
  <2> HIDE DEF e
  <2> QED BY <2>1, <2>3, <2>4, YieldSound
<1>6. CASE Strcpy
  <2>1. Row(2, <<"PTR">>) BY <1>6, NativeRows DEF Strcpy
  <2>2. PICK f, g : /\ f = First(StackFault(2, 1), g) /\ Harmless(g)
                    /\ IF f # "ok" THEN Fatal(f)
                       ELSE /\ \E x : vstack' = Append(Drop(2), Val("PTR", x))
                            /\ ip' = ip + 1
                            /\ UNCHANGED <<prog, frameVars, status>>
    <3> DEFINE dst == AsPtr(Top(1))
               src == AsPtr(Top(0))
               n == Len(Text(src))
               runsOff == src + n >= MemSize \/ dst + n >= MemSize \/ dst \in src + 1..src + n
               h == IF runsOff THEN "segmentation fault" ELSE "ok"
               g == First(First(RangeFault(src, 1), RangeFault(dst, 1)), h)
               f == First(StackFault(2, 1), g)
    <3>1. IF f # "ok" THEN Fatal(f)
          ELSE /\ vstack' = Append(Drop(2), Val("PTR", dst))
               /\ ip' = ip + 1
               /\ UNCHANGED <<prog, frameVars, status>>
      BY <1>6, Zenon DEF Strcpy
    <3> HIDE DEF runsOff
    <3>2. Harmless(h) BY DEF Harmless, InternalFaults
    <3> HIDE DEF dst, src, h
    <3>3. Harmless(g) BY <3>2
    <3> HIDE DEF g, f
    <3>4. f = First(StackFault(2, 1), g) BY DEF f
    <3> QED BY <3>1, <3>3, <3>4
  <2>3. 2 <= Height BY <1>c, <2>1 DEF Row
  <2>4. CASE f # "ok"
    <3>1. Fatal(f) BY <2>2, <2>4
    <3> QED BY <2>2, <2>3, <3>1, FaultHarmless, RefusedSound
  <2>5. CASE f = "ok"
    <3>1. PICK x : /\ vstack' = Append(Drop(2), Val("PTR", x)) /\ ip' = ip + 1
                   /\ UNCHANGED <<prog, frameVars, status>>
      BY <2>2, <2>5
    <3>2. UNCHANGED <<prog, cstack, func, due, owed, status>> BY <3>1 DEF frameVars
    <3> DEFINE e == Val("PTR", x)
    <3>3. e.tag = "PTR" /\ vstack' = Append(Drop(2), e) BY <3>1
    <3> HIDE DEF e
    <3> QED BY <2>1, <3>1, <3>2, <3>3, ReplacedSound
  <2> QED BY <2>4, <2>5
<1> QED BY <1>1, <1>2, <1>3, <1>4, <1>5, <1>6 DEF NativeStep

\* Jumps lead to instructions of the same shape; a program halts in the prologue,
\* whose last operand it has popped.
LEMMA ControlSound ==
  ASSUME Verif, Sound, Bounded, FInv, ControlStep
  PROVE  Sound'
<1>0. 0 \in Nat /\ 1 \in Nat OBVIOUS
<1>b. cstack \in Seq(Frame) BY DEF FInv, FrameTypes
<1>c. ip \in DOMAIN shapes /\ ip \in DOMAIN bc.code
  BY <1>b, OperandsThere, InstructionFits DEF Sound
<1>1. CASE Jmp
  <2>1. /\ Pops(prog, Ins) = 0 /\ Pushes(prog, Ins, here) = <<>>
        /\ Successors(Ins, ip) = {Ins.to}
    BY <1>1 DEF Jmp, At, Pops, Pushes, Successors, OnPointers, Arithmetic, Comparison
  <2>2. UNCHANGED <<prog, cstack, func, due, owed, status, vstack>> BY <1>1 DEF Jmp, frameVars
  <2>3. Pushed(vstack, vstack, Height - 0, <<>>)
    <3>1. Height \in Nat /\ Len(vstack) = Height BY <1>b, OperandsThere DEF Sound, Height
    <3> QED BY <3>1 DEF Pushed
  <2>4. <<>> \in Seq({0}) OBVIOUS
  <2>5. ip' \in Successors(Ins, ip) BY <1>1, <2>1 DEF Jmp
  <2>6. Pushed(vstack', vstack, Height - 0, <<>>) BY <2>2, <2>3
  <2>7. Shaped' BY <1>0, <1>b, <2>1, <2>2, <2>4, <2>5, <2>6, WithinFunction DEF Sound
  <2> QED BY <2>2, <2>7 DEF Sound
<1>2. CASE Jz
  <2>1. /\ Pops(prog, Ins) = 1 /\ Pushes(prog, Ins, here) = <<>>
        /\ Successors(Ins, ip) = {ip + 1, Ins.to} /\ status = "running"
    BY <1>2 DEF Jz, At, Pops, Pushes, Successors, OnPointers, Arithmetic, Comparison
  <2>2. Height # 0
    <3>1. 1 <= Len(here) BY <1>b, <2>1, OperandsThere, InstructionFits DEF Sound
    <3> QED BY <1>b, <3>1, OperandsThere DEF Sound
  <2>3. /\ ip' = (IF IsTruthy(Top(0)) THEN ip + 1 ELSE Ins.to) /\ vstack' = Drop(1)
        /\ UNCHANGED <<prog, frameVars, status>>
    BY <1>2, <2>2, Zenon DEF Jz
  <2>4. ip' \in Successors(Ins, ip) BY <2>1, <2>3
  <2>5. UNCHANGED <<prog, cstack, func, due, owed, status>> BY <2>3 DEF frameVars
  <2> QED BY <1>0, <1>b, <2>1, <2>3, <2>4, <2>5, DroppedSound
<1>3. CASE Halt
  <2>1. here = <<>> /\ func = 0 /\ Ins.op = "HALT"
    BY <1>3, <1>b, <1>c, OperandsThere, InstructionFits DEF Halt, At, Sound
  <2>2. cstack = <<>>
    <3>1. SUFFICES ASSUME cstack # <<>> PROVE FALSE OBVIOUS
    <3>2. Len(cstack) \in 1..Len(cstack) BY <1>b, <3>1
    <3>3. FrameFunc(Len(cstack)) \in DOMAIN bc.funcs BY <3>2 DEF FInv, FramesTile
    <3>4. func \in DOMAIN bc.funcs BY <3>3 DEF FrameFunc
    <3>5. DOMAIN bc.funcs = 1..Len(bc.funcs) /\ Len(bc.funcs) \in Nat
      BY ProgramsAssumption DEF Verif, bc
    <3> QED BY <2>1, <3>4, <3>5
  <2>3. vstack = <<>>
    <3>1. PICK b : Bases(b, Len(cstack)) /\ Runs(b, vstack, cstack, func, shapes, ip)
      BY DEF Sound, Shaped
    <3>2. Tagged(vstack, b[Len(cstack)], here) BY <3>1 DEF Runs, here
    <3>3. Len(cstack) = 0 /\ b[0] = 0 BY <2>2, <3>1 DEF Bases
    <3>4. Len(vstack) = 0 BY <2>1, <3>2, <3>3 DEF Tagged
    <3>5. PICK S : vstack \in Seq(S) BY DEF Bounded, Limits
    <3> QED BY <3>4, <3>5, EmptySeq
  <2>4. UNCHANGED <<prog, ip, vstack, frameVars>> /\ status' = "halted" BY <1>3 DEF Halt
  <2>5. Shaped' BY <2>4 DEF Sound, Shaped, shapes, bc, frameVars
  <2> QED BY <2>3, <2>4, <2>5 DEF Sound, frameVars, InternalFaults
<1>4. CASE RunOff BY <1>4, <1>c DEF RunOff
<1> QED BY <1>1, <1>2, <1>3, <1>4 DEF ControlStep

\* Waits, with what it is about named.
Waiting(b, vs, cs, fn, du, funcs, sh, k, r, t, w, a) ==
  /\ cs[k].retIp = r /\ r \in DOMAIN sh /\ sh[r].func = cs[k].savedFunc /\ sh[r].tags = t
  /\ Returned(funcs[FuncOf(cs, fn, k)]) = w /\ b[k - 1] = a
  /\ du[k] = a + Len(t) /\ b[k] = a + Len(t) - Len(w)
  /\ \A i \in 1..Len(t) - Len(w) : vs[a + i].tag = t[i]
  /\ \A i \in 1..Len(w) : t[Len(t) - Len(w) + i] = w[i]

LEMMA IsWaiting ==
  ASSUME NEW b, NEW vs, NEW cs, NEW fn, NEW du, NEW funcs, NEW sh, NEW k,
         NEW r, NEW t, NEW w, NEW a,
         Waiting(b, vs, cs, fn, du, funcs, sh, k, r, t, w, a)
  PROVE  Waits(b, vs, cs, fn, du, funcs, sh, k)
BY DEF Waiting, Waits

\* One more call, whose operands begin at h.
LEMMA MoreBases ==
  ASSUME NEW n \in Nat, NEW b, Bases(b, n), NEW h \in Nat, b[n] <= h
  PROVE  LET c == [k \in 0..n + 1 |-> IF k = n + 1 THEN h ELSE b[k]]
         IN Bases(c, n + 1) /\ c[n + 1] = h /\ \A k \in 0..n : c[k] = b[k]
<1> DEFINE c == [k \in 0..n + 1 |-> IF k = n + 1 THEN h ELSE b[k]]
<1>1. /\ \A k \in 0..n : b[k] \in Nat
      /\ \A j, k \in 0..n : j <= k => b[j] <= b[k]
      /\ b[0] = 0
  BY DEF Bases
<1>2. c[n + 1] = h /\ \A k \in 0..n : c[k] = b[k] OBVIOUS
<1>3. c \in [0..n + 1 -> Nat]
  <2>1. \A k \in 0..n + 1 : (IF k = n + 1 THEN h ELSE b[k]) \in Nat BY <1>1
  <2> QED BY <2>1
<1>4. c[0] = 0 BY <1>1, <1>2
<1>5. ASSUME NEW j \in 0..n + 1, NEW k \in 0..n + 1, j <= k PROVE c[j] <= c[k]
  <2> HIDE DEF c
  <2>1. CASE k \in 0..n
    <3>1. j \in 0..n BY <1>5, <2>1
    <3> QED BY <1>1, <1>2, <1>5, <2>1, <3>1
  <2>2. CASE k = n + 1
    <3>1. CASE j = n + 1 BY <1>2, <2>2, <3>1
    <3>2. CASE j \in 0..n
      <4>1. b[j] <= b[n] /\ b[j] \in Nat /\ b[n] \in Nat BY <1>1, <3>2
      <4> QED BY <1>2, <2>2, <3>2, <4>1
    <3> QED BY <3>1, <3>2
  <2> QED BY <2>1, <2>2
<1> HIDE DEF c
<1>6. Bases(c, n + 1) BY <1>3, <1>4, <1>5 DEF Bases
<1> QED BY <1>2, <1>6 DEF c

\* Only what call k is about matters to what it waits with.
LEMMA WaitsAlike ==
  ASSUME NEW b, NEW c, NEW vs, NEW cs, NEW cs1, NEW fn, NEW fn1, NEW du, NEW du1,
         NEW funcs, NEW sh, NEW k,
         c[k] = b[k], c[k - 1] = b[k - 1], cs1[k] = cs[k], du1[k] = du[k],
         FuncOf(cs1, fn1, k) = FuncOf(cs, fn, k),
         Waits(b, vs, cs, fn, du, funcs, sh, k)
  PROVE  Waits(c, vs, cs1, fn1, du1, funcs, sh, k)
BY Zenon DEF Waits

\* A call hands over what its function is declared to take: the caller waits with
\* the rest, and the function starts with none.
LEMMA CallSound ==
  ASSUME Verif, Sound, Bounded, FInv, Call
  PROVE  Sound'
<1> DEFINE g == Ins.f
           f == bc.funcs[g]
           m == IF f.returnsStruct THEN Len(f.params) + 1 ELSE Len(f.params)
           w == Returned(f)
           s == here
           t == After(prog, Ins, s)
           n == Len(cstack)
           h == Height - m
           fr == [retIp |-> ip + 1, thisBase |-> allocTop, savedBase |-> frameBase,
                  savedFunc |-> func]
<1>0. FrameTypes /\ cstack \in Seq(Frame) BY DEF FInv, FrameTypes
<1>1. g \in DOMAIN bc.funcs /\ Len(f.params) \in Nat BY <1>0, CalledFunction, Zenon
<1>2. /\ Pops(prog, Ins) = m /\ Pushes(prog, Ins, s) = w /\ Successors(Ins, ip) = {ip + 1}
      /\ Ins.op = "CALL" /\ status = "running"
  BY DEF Call, At, bc, Pops, Pushes, Successors, OnPointers, Arithmetic, Comparison
<1>3. m \in Nat BY <1>1
<1>4. PICK b : /\ Bases(b, n)
               /\ \A k \in 1..n : Waits(b, vstack, cstack, func, due, bc.funcs, shapes, k)
               /\ Runs(b, vstack, cstack, func, shapes, ip)
  BY DEF Sound, Shaped
<1>5. ip \in DOMAIN shapes /\ shapes[ip].func = func /\ Tagged(vstack, b[n], s)
  BY <1>4 DEF Runs, here
<1>6. s \in Seq(Tags) /\ Len(s) \in Nat /\ m <= Len(s)
      /\ Has(shapes, ip + 1, Shape(func, t))
  BY <1>2, <1>5, InstructionFits
<1>7. n \in Nat /\ b[n] \in Nat
  <2>1. n \in Nat BY <1>0
  <2>2. n \in 0..n BY <2>1
  <2> QED BY <1>4, <2>1, <2>2 DEF Bases
<1>8. Height = b[n] + Len(s) /\ Height \in Nat /\ m <= Height /\ h \in Nat /\ b[n] <= h
  <2>1. Height = b[n] + Len(s) BY <1>5 DEF Tagged, Height
  <2> HIDE DEF m, n, s
  <2> QED BY <2>1, <1>3, <1>6, <1>7
<1>9. PICK structArgs :
        LET fault == CallFault(f, m, structArgs)
        IN IF fault # "ok" THEN Fatal(fault)
           ELSE /\ vstack' = Drop(m)
                /\ EnterFrame(g)
                /\ due' = Append(due, Height - m + IF f.declared = "scalar" THEN 1 ELSE 0)
                /\ UNCHANGED <<prog, status, owed>>
  BY Zenon DEF Call
<1> DEFINE fault == CallFault(f, m, structArgs)
<1>10. CASE fault # "ok"
  <2>1. Fatal(fault) BY <1>9, <1>10
  <2>2. ~(Height < m)
    <3> HIDE DEF m
    <3> QED BY <1>3, <1>8
  <2> HIDE DEF f, m
  <2>3. fault \in {"call stack overflow", "stack overflow", "segmentation fault", "ok"}
    BY <2>2, Zenon DEF CallFault
  <2>4. Harmless(fault) BY <2>3 DEF Harmless, InternalFaults
  <2> QED BY <2>1, <2>4, RefusedSound
<1>11. CASE fault = "ok"
  <2>1. /\ vstack' = Drop(m) /\ cstack' = Append(cstack, fr) /\ func' = g /\ ip' = f.entry
        /\ due' = Append(due, Height - m + IF f.declared = "scalar" THEN 1 ELSE 0)
        /\ UNCHANGED <<prog, status, owed>>
    BY <1>9, <1>11 DEF EnterFrame
  <2>2. shapes' = shapes /\ bc' = bc BY <2>1 DEF shapes, bc
  <2>3. Pushed(vstack', vstack, h, <<>>) BY <1>3, <1>8, <2>1, DropPushed
  <2>4. Joined(t, s, m, w)
    <3>1. t = SubSeq(s, 1, Len(s) - m) \o w BY <1>2 DEF After
    <3>2. w \in Seq({f.returnTag}) BY ReturnedSeq
    <3> HIDE DEF t, s, m, w
    <3> QED BY <1>3, <1>6, <3>1, <3>2, Continued
  <2>5. Len(w) \in Nat /\ Len(w) = IF f.declared = "scalar" THEN 1 ELSE 0 BY ReturnedSeq
  <2>6. Has(shapes, f.entry, Shape(g, <<>>)) BY <1>1, EntriesFit
  <2>7. /\ cstack' \in Seq(Frame \cup {fr}) /\ Len(cstack') = n + 1
        /\ cstack'[n + 1] = fr /\ \A k \in 1..n : cstack'[k] = cstack[k]
    BY <1>0, <2>1
  <2>8. /\ due'[n + 1] = h + Len(w) /\ \A k \in 1..n : due'[k] = due[k]
    <3>1. due \in Seq(Int) /\ Len(due) = n BY DEF Bounded, Limits
    <3> DEFINE d == Height - m + IF f.declared = "scalar" THEN 1 ELSE 0
    <3>2. d = h + Len(w) BY <2>5
    <3>3. due' = Append(due, d) BY <2>1
    <3> HIDE DEF d
    <3>4. due \in Seq(Int \cup {d}) BY <3>1
    <3> QED BY <3>1, <3>2, <3>3, <3>4, AppendProperties
  <2> DEFINE c == [k \in 0..n + 1 |-> IF k = n + 1 THEN h ELSE b[k]]
  <2>9. Bases(c, n + 1) /\ c[n + 1] = h /\ \A k \in 0..n : c[k] = b[k]
    <3> HIDE DEF n, h
    <3> QED BY <1>4, <1>7, <1>8, MoreBases
  <2> HIDE DEF c
  <2>10. ASSUME NEW k \in 1..n
         PROVE  Waits(c, vstack', cstack', g, due', bc.funcs, shapes, k)
    <3>1. \A i \in DOMAIN shapes : shapes[i].tags \in Seq(Tags) BY EntriesFit
    <3>2. \A i \in 1..h : vstack'[i] = vstack[i] BY <2>3 DEF Pushed
    <3>3. FuncOf(cstack', g, k) = FuncOf(cstack, func, k)
      <4> HIDE DEF n
      <4>1. n = Len(cstack) BY DEF n
      <4>2. CASE k = n BY <4>1, <4>2, <1>7, <2>7 DEF FuncOf
      <4>3. CASE k # n
        <5>1. k + 1 \in 1..n /\ k # n + 1 BY <1>7, <4>3
        <5> QED BY <4>1, <4>3, <5>1, <2>7 DEF FuncOf
      <4> QED BY <4>2, <4>3
    <3>4. k - 1 \in 0..n /\ k \in 0..n BY <1>7
    <3> HIDE DEF n, h, fr
    <3>5. Waits(b, vstack', cstack, func, due, bc.funcs, shapes, k)
      BY <1>4, <1>7, <1>8, <3>1, <3>2, StillWaits
    <3>6. /\ c[k] = b[k] /\ c[k - 1] = b[k - 1]
          /\ cstack'[k] = cstack[k] /\ due'[k] = due[k]
      BY <2>7, <2>8, <2>9, <3>4
    <3> QED BY <3>3, <3>5, <3>6, WaitsAlike
  <2>11. Waits(c, vstack', cstack', g, due', bc.funcs, shapes, n + 1)
    <3> DEFINE l == Len(s)
               u == Len(w)
               base == b[n]
    <3>1. ip + 1 \in DOMAIN shapes /\ shapes[ip + 1].func = func /\ shapes[ip + 1].tags = t
      BY <1>6 DEF Has, Shape
    <3>2. cstack'[n + 1].retIp = ip + 1 /\ cstack'[n + 1].savedFunc = func BY <2>7
    <3>3. FuncOf(cstack', g, n + 1) = g BY <2>7 DEF FuncOf
    <3>4. c[n] = base /\ (n + 1) - 1 = n BY <1>7, <2>9
    <3>5. /\ Len(t) = l - m + u
          /\ \A i \in 1..l - m : t[i] = s[i]
          /\ \A i \in 1..u : t[l - m + i] = w[i]
      BY <2>4 DEF Joined
    <3>6. \A i \in 1..l : vstack[base + i].tag = s[i] BY <1>5 DEF Tagged
    <3>7. \A i \in 1..h : vstack'[i] = vstack[i] BY <2>3 DEF Pushed
    <3>8. h = base + l - m /\ base \in Nat /\ l \in Nat /\ u \in Nat /\ m \in Nat /\ m <= l
      <4> HIDE DEF m
      <4> QED BY <1>3, <1>6, <1>7, <1>8, <2>5
    <3>9. due'[n + 1] = h + u /\ c[n + 1] = h BY <2>8, <2>9
    <3> HIDE DEF l, u, base, m, h, n, fr, s, t
    <3>10. ASSUME NEW i \in 1..Len(t) - u PROVE vstack'[base + i].tag = t[i]
      <4>1. i \in 1..l - m /\ i \in 1..l /\ base + i \in 1..h BY <3>5, <3>8
      <4> QED BY <3>5, <3>6, <3>7, <4>1
    <3>11. \A i \in 1..u : t[Len(t) - u + i] = w[i]
      <4>1. Len(t) - u = l - m BY <3>5, <3>8
      <4> QED BY <3>5, <4>1
    <3>12. h + u = base + Len(t) /\ h = base + Len(t) - u BY <3>5, <3>8
    <3> HIDE DEF w
    <3>13. Returned(bc.funcs[FuncOf(cstack', g, n + 1)]) = w BY <3>3 DEF w, f
    <3>14. /\ due'[n + 1] = base + Len(t) /\ c[n + 1] = base + Len(t) - Len(w)
           /\ \A i \in 1..Len(t) - Len(w) : vstack'[base + i].tag = t[i]
           /\ \A i \in 1..Len(w) : t[Len(t) - Len(w) + i] = w[i]
           /\ shapes[ip + 1].func = cstack'[n + 1].savedFunc /\ c[(n + 1) - 1] = base
      BY <3>1, <3>2, <3>4, <3>9, <3>10, <3>11, <3>12 DEF u
    <3> HIDE DEF w, f, g
    <3>15. Waiting(c, vstack', cstack', g, due', bc.funcs, shapes, n + 1, ip + 1, t, w, base)
      <4>1. /\ cstack'[n + 1].retIp = ip + 1 /\ ip + 1 \in DOMAIN shapes
            /\ shapes[ip + 1].func = cstack'[n + 1].savedFunc /\ shapes[ip + 1].tags = t
        BY <3>1, <3>2
      <4>2. Returned(bc.funcs[FuncOf(cstack', g, n + 1)]) = w /\ c[(n + 1) - 1] = base
        BY <3>13, <3>14
      <4>3. due'[n + 1] = base + Len(t) /\ c[n + 1] = base + Len(t) - Len(w) BY <3>14
      <4>4. /\ \A i \in 1..Len(t) - Len(w) : vstack'[base + i].tag = t[i]
            /\ \A i \in 1..Len(w) : t[Len(t) - Len(w) + i] = w[i]
        BY <3>14
      <4> QED BY <4>1, <4>2, <4>3, <4>4, Zenon DEF Waiting
    <3> QED BY <3>15, IsWaiting
  <2>12. Runs(c, vstack', cstack', g, shapes, f.entry)
    <3>1. f.entry \in DOMAIN shapes /\ shapes[f.entry].func = g /\ shapes[f.entry].tags = <<>>
      BY <2>6 DEF Has, Shape
    <3>2. Len(vstack') = h BY <1>8, <2>3 DEF Pushed
    <3>3. Tagged(vstack', h, <<>>) BY <1>8, <3>2 DEF Tagged
    <3> QED BY <2>7, <2>9, <3>1, <3>3 DEF Runs
  <2>13. \A k \in 1..n + 1 : Waits(c, vstack', cstack', g, due', bc.funcs, shapes, k)
    <3> HIDE DEF n
    <3> TAKE k \in 1..n + 1
    <3>1. CASE k = n + 1 BY <2>11, <3>1, Zenon
    <3>2. CASE k # n + 1
      <4>2. n \in Nat BY <1>7, Zenon
      <4>1. k \in 1..n BY <3>2, <4>2
      <4> QED BY <2>10, <4>1, Zenon
    <3> QED BY <3>1, <3>2
  <2>14. Shaped' BY <2>1, <2>2, <2>7, <2>9, <2>12, <2>13 DEF Shaped
  <2> QED BY <1>2, <2>1, <2>14 DEF Sound, InternalFaults
<1> QED BY <1>10, <1>11

\* One call less.
LEMMA FewerBases ==
  ASSUME NEW n \in Nat \ {0}, NEW b, Bases(b, n)
  PROVE  LET c == [k \in 0..n - 1 |-> b[k]]
         IN Bases(c, n - 1) /\ \A k \in 0..n - 1 : c[k] = b[k]
<1> DEFINE c == [k \in 0..n - 1 |-> b[k]]
<1>1. /\ \A k \in 0..n : b[k] \in Nat
      /\ \A j, k \in 0..n : j <= k => b[j] <= b[k]
      /\ b[0] = 0
  BY DEF Bases
<1>2. \A k \in 0..n - 1 : k \in 0..n /\ c[k] = b[k] OBVIOUS
<1>3. c \in [0..n - 1 -> Nat]
  <2>1. \A k \in 0..n - 1 : b[k] \in Nat BY <1>1, <1>2
  <2> QED BY <2>1
<1> HIDE DEF c
<1>4. 0 \in 0..n - 1 OBVIOUS
<1>5. Bases(c, n - 1) BY <1>1, <1>2, <1>3, <1>4 DEF Bases
<1> QED BY <1>2, <1>5 DEF c

\* What is left on the operand stack is what the caller waits for.
LEMMA HandedBack ==
  ASSUME NEW a \in Nat, NEW S, NEW t \in Seq(S), NEW T, NEW w \in Seq(T), NEW vs, NEW e,
         Len(w) <= Len(t), e = a + Len(t) - Len(w),
         Tagged(vs, e, w),
         \A i \in 1..Len(t) - Len(w) : vs[a + i].tag = t[i],
         \A i \in 1..Len(w) : t[Len(t) - Len(w) + i] = w[i]
  PROVE  Tagged(vs, a, t)
<1> DEFINE l == Len(t)
           u == Len(w)
<1>0. l \in Nat /\ u \in Nat /\ u <= l OBVIOUS
<1>1. Len(vs) = e + u /\ \A i \in 1..u : vs[e + i].tag = w[i] BY DEF Tagged
<1>2. \A i \in 1..l - u : vs[a + i].tag = t[i] OBVIOUS
<1>3. \A i \in 1..u : t[l - u + i] = w[i] OBVIOUS
<1>4. e = a + l - u OBVIOUS
<1> HIDE DEF l, u
<1>5. ASSUME NEW i \in 1..l PROVE vs[a + i].tag = t[i]
  <2>1. CASE i \in 1..l - u BY <1>2, <2>1
  <2>2. CASE i \notin 1..l - u
    <3>1. i - (l - u) \in 1..u BY <1>0, <2>2
    <3>2. \A x, y, z \in Int : (x + y) + (z - y) = x + z OBVIOUS
    <3>3. a \in Int /\ l - u \in Int /\ i \in Int BY <1>0
    <3>4. e + (i - (l - u)) = a + i
      <4>1. (a + (l - u)) + (i - (l - u)) = a + i BY <3>2, <3>3
      <4> QED BY <1>4, <4>1
    <3>5. l - u + (i - (l - u)) = i
      <4>1. \A x, y \in Int : x + (y - x) = y OBVIOUS
      <4> QED BY <4>1, <3>3
    <3> QED BY <1>1, <1>3, <3>1, <3>4, <3>5
  <2> QED BY <2>1, <2>2
<1>6. Len(vs) = a + l BY <1>0, <1>1, <1>4
<1> QED BY <1>5, <1>6 DEF Tagged, l

\* A return leaves what its function is declared to return, no more and no less:
\* the caller goes on as it waited.
LEMMA RetSound ==
  ASSUME Verif, Sound, Bounded, FInv, Ret
  PROVE  Sound'
<1> DEFINE f == bc.funcs[func]
           w == Returned(f)
           n == Len(cstack)
           fr == cstack[n]
           r == fr.retIp
           t == shapes[r].tags
<1>0. cstack \in Seq(Frame) /\ cstack # <<>> BY DEF FInv, FrameTypes, Ret
<1>1. n \in Nat \ {0} BY <1>0
<1>2. Ins.op = "RET" /\ status = "running" BY DEF Ret, At
<1>3. PICK b : /\ Bases(b, n)
               /\ \A k \in 1..n : Waits(b, vstack, cstack, func, due, bc.funcs, shapes, k)
               /\ Runs(b, vstack, cstack, func, shapes, ip)
  BY DEF Sound, Shaped
<1>4. ip \in DOMAIN shapes /\ shapes[ip].func = func /\ Tagged(vstack, b[n], here)
  BY <1>3 DEF Runs, here
<1>5. here = w /\ (HasRetval(f) => here # <<>>) BY <1>2, <1>4, InstructionFits
<1>6. n \in 1..n /\ FuncOf(cstack, func, n) = func /\ n - 1 \in 0..n /\ n \in 0..n
  BY <1>1 DEF FuncOf
<1>7. /\ r \in DOMAIN shapes /\ shapes[r].func = fr.savedFunc
      /\ due[n] = b[n - 1] + Len(t)
      /\ b[n] = b[n - 1] + Len(t) - Len(w)
      /\ \A i \in 1..Len(t) - Len(w) : vstack[b[n - 1] + i].tag = t[i]
      /\ \A i \in 1..Len(w) : t[Len(t) - Len(w) + i] = w[i]
  <2>1. Waits(b, vstack, cstack, func, due, bc.funcs, shapes, n) BY <1>3, <1>6
  <2> HIDE DEF n
  <2> QED BY <2>1, <1>6 DEF Waits
<1>8. b[n - 1] \in Nat /\ b[n] \in Nat /\ b[n - 1] <= b[n]
  <2> HIDE DEF n
  <2> QED BY <1>1, <1>3, <1>6 DEF Bases
<1>9. t \in Seq(Tags) /\ Len(t) \in Nat BY <1>7, EntriesFit
<1>10. w \in Seq({f.returnTag}) /\ Len(w) \in Nat BY ReturnedSeq
<1>11. Len(w) <= Len(t)
  <2> HIDE DEF n, t, w
  <2> QED BY <1>7, <1>8, <1>9, <1>10
<1>12. Tagged(vstack, b[n - 1], t)
  <2>1. Tagged(vstack, b[n], w) BY <1>4, <1>5
  <2> HIDE DEF n, t, w
  <2> QED BY <1>7, <1>8, <1>9, <1>10, <1>11, <2>1, HandedBack
<1>13. Height = due[n] /\ due[n] \in Nat
  <2>1. Height = b[n - 1] + Len(t) BY <1>12 DEF Tagged, Height
  <2> HIDE DEF n, t
  <2> QED BY <2>1, <1>7, <1>8, <1>9
<1>14. ~(HasRetval(f) /\ Height = 0)
  <2>1. Height = b[n] + Len(w) BY <1>4, <1>5 DEF Tagged, Height
  <2>2. HasRetval(f) => Len(w) # 0 BY <1>5, <1>10, EmptySeq
  <2> HIDE DEF n, f, w
  <2> QED BY <2>1, <2>2, <1>8, <1>10
<1>15. /\ LeaveFrame
       /\ due' = SubSeq(due, 1, Len(due) - 1)
       /\ owed' = due[Len(due)] - Height
       /\ UNCHANGED <<prog, mem, vstack, heapHead, out, status>>
  BY <1>14, Zenon DEF Ret, HasRetval
<1>16. /\ func' = fr.savedFunc /\ ip' = r /\ cstack' = SubSeq(cstack, 1, n - 1)
       /\ UNCHANGED <<prog, vstack, status>>
  BY <1>15 DEF LeaveFrame
<1>17. shapes' = shapes /\ bc' = bc BY <1>16 DEF shapes, bc
<1>18. due \in Seq(Int) /\ Len(due) = n BY DEF Bounded, Limits
<1>19. owed' = 0 BY <1>13, <1>15, <1>18
<1>20. /\ cstack' \in Seq(Frame) /\ Len(cstack') = n - 1
       /\ \A k \in 1..n - 1 : cstack'[k] = cstack[k] /\ due'[k] = due[k]
  <2>1. due' = SubSeq(due, 1, n - 1) BY <1>15, <1>18
  <2>2. \A k \in 1..n - 1 : cstack[k] \in Frame /\ due[k] \in Int BY <1>0, <1>1, <1>18
  <2> HIDE DEF n
  <2>3. /\ SubSeq(cstack, 1, n - 1) \in Seq(Frame)
        /\ Len(SubSeq(cstack, 1, n - 1)) = IF 1 <= n - 1 THEN (n - 1) - 1 + 1 ELSE 0
        /\ \A k \in 1..(n - 1) - 1 + 1 : SubSeq(cstack, 1, n - 1)[k] = cstack[1 + k - 1]
    BY <1>1, <2>2, SubSeqProperties
  <2>4. \A k \in 1..(n - 1) - 1 + 1 : SubSeq(due, 1, n - 1)[k] = due[1 + k - 1]
    BY <1>1, <2>2, SubSeqProperties
  <2> QED BY <1>1, <1>16, <2>1, <2>3, <2>4
<1> DEFINE c == [k \in 0..n - 1 |-> b[k]]
<1>21. Bases(c, n - 1) /\ \A k \in 0..n - 1 : c[k] = b[k]
  <2> HIDE DEF n
  <2> QED BY <1>1, <1>3, FewerBases
<1> HIDE DEF c
<1>22. ASSUME NEW k \in 1..n - 1
       PROVE  Waits(c, vstack', cstack', func', due', bc.funcs, shapes, k)
  <2>1. k \in 1..n /\ k \in 0..n - 1 /\ k - 1 \in 0..n - 1 BY <1>1
  <2>2. FuncOf(cstack', func', k) = FuncOf(cstack, func, k)
    <3>1. CASE k = n - 1
      <4>1. FuncOf(cstack', func', k) = func' BY <1>20, <3>1 DEF FuncOf
      <4>2. k # n /\ k + 1 = n BY <1>1, <3>1
      <4>3. FuncOf(cstack, func, k) = cstack[n].savedFunc
        <5> SUFFICES k # Len(cstack) /\ k + 1 = n BY DEF FuncOf
        <5> QED BY <4>2
      <4> QED BY <1>16, <4>1, <4>3
    <3>2. CASE k # n - 1
      <4>1. k + 1 \in 1..n - 1 /\ k # n BY <1>1, <3>2
      <4>2. FuncOf(cstack', func', k) = cstack'[k + 1].savedFunc BY <1>20, <3>2 DEF FuncOf
      <4>3. FuncOf(cstack, func, k) = cstack[k + 1].savedFunc BY <4>1 DEF FuncOf
      <4> QED BY <1>20, <4>1, <4>2, <4>3
    <3> QED BY <3>1, <3>2
  <2>3. Waits(b, vstack, cstack, func, due, bc.funcs, shapes, k) BY <1>3, <2>1
  <2> HIDE DEF n
  <2>4. c[k] = b[k] /\ c[k - 1] = b[k - 1] BY <1>21, <2>1
  <2>5. cstack'[k] = cstack[k] /\ due'[k] = due[k] BY <1>20
  <2>6. Waits(c, vstack, cstack', func', due', bc.funcs, shapes, k)
    BY <2>2, <2>3, <2>4, <2>5, WaitsAlike
  <2> QED BY <1>16, <2>6
<1>23. Runs(c, vstack', cstack', func', shapes, ip')
  <2>1. n - 1 \in 0..n - 1 BY <1>1
  <2>2. c[Len(cstack')] = b[n - 1] BY <1>20, <1>21, <2>1
  <2>3. ip' = r /\ func' = fr.savedFunc /\ vstack' = vstack BY <1>16
  <2> HIDE DEF n, fr
  <2> QED BY <1>7, <1>12, <2>2, <2>3 DEF Runs
<1>24. Shaped'
  <2>1. /\ Bases(c, Len(cstack'))
        /\ \A k \in 1..Len(cstack') :
             Waits(c, vstack', cstack', func', due', bc'.funcs, shapes', k)
        /\ Runs(c, vstack', cstack', func', shapes', ip')
    BY <1>17, <1>20, <1>21, <1>22, <1>23
  <2> QED BY <2>1 DEF Shaped
<1> QED BY <1>2, <1>16, <1>19, <1>24 DEF Sound, InternalFaults

\* Execution starts before the first instruction with no operands.
LEMMA InitSound == ASSUME Verif, Init PROVE Sound
<1>1. ip = 1 /\ vstack = <<>> /\ cstack = <<>> /\ func = 0 /\ owed = 0 /\ status = "running"
  BY DEF Init
<1>2. 1 \in DOMAIN shapes /\ shapes[1].func = 0 /\ shapes[1].tags = <<>>
  BY EntriesFit DEF Has, Shape
<1> DEFINE b == [k \in 0..0 |-> 0]
<1>3. b[0] = 0 /\ Bases(b, 0) BY DEF Bases
<1> HIDE DEF b
<1>4. Len(<<>>) = 0 /\ 1..0 = {} OBVIOUS
<1>5. Tagged(vstack, 0, shapes[1].tags) BY <1>1, <1>2, <1>4 DEF Tagged
<1>6. Runs(b, vstack, cstack, func, shapes, ip) BY <1>1, <1>2, <1>3, <1>4, <1>5 DEF Runs
<1>7. Shaped BY <1>1, <1>3, <1>4, <1>6 DEF Shaped
<1> QED BY <1>1, <1>7 DEF Sound, InternalFaults

\* No step changes the program.
LEMMA SameProgram == FInv /\ [Next]_vars => prog' = prog
<1> SUFFICES ASSUME FInv, [Next]_vars PROVE prog' = prog OBVIOUS
<1>0. FrameTypes BY DEF FInv
<1>1. CASE OperandStep BY <1>0, <1>1, OperandKeeps DEF Keeps
<1>2. CASE MemoryStep BY <1>0, <1>2, MemoryKeeps DEF Keeps
<1>3. CASE ControlStep BY <1>0, <1>3, ControlKeeps DEF Keeps
<1>4. CASE Call BY <1>4, Zenon DEF Call, Fatal
<1>5. CASE Ret BY <1>5, Zenon DEF Ret, Fatal
<1>6. CASE NativeStep BY <1>0, <1>6, NativeKeeps DEF Keeps
<1>7. CASE UNCHANGED vars BY <1>7 DEF vars
<1> QED BY <1>1, <1>2, <1>3, <1>4, <1>5, <1>6, <1>7 DEF Next

\* The inductive invariant, of the programs that are verified.
VerifiedSound == Verif => Sound

\* Every step of verified bytecode keeps the operands as its shapes say.
LEMMA NextSound == FInv /\ Bounded /\ VerifiedSound /\ [Next]_vars => VerifiedSound'
<1> SUFFICES ASSUME FInv, Bounded, VerifiedSound, [Next]_vars, Verif' PROVE Sound'
  BY DEF VerifiedSound
<1>1. FrameTypes /\ cstack \in Seq(Frame) BY DEF FInv, FrameTypes
<1>2. prog' = prog BY SameProgram
<1>3. Verif BY <1>2 DEF Verif, Verified
<1>4. Sound BY <1>3 DEF VerifiedSound
<1>5. CASE UNCHANGED vars
  <2>1. shapes' = shapes /\ bc' = bc BY <1>2 DEF shapes, bc
  <2> QED BY <1>4, <1>5, <2>1 DEF vars, frameVars, Sound, Shaped
<1> QED
  BY <1>1, <1>3, <1>4, <1>5, OperandSound, MemorySound, ControlSound, CallSound, RetSound,
     NativeSound DEF Next

\* The three invariants together.
VInv == FInv /\ Bounded /\ VerifiedSound

LEMMA StaysVerified == Spec => []VInv
<1>1. Init => VInv BY InitFrames, InitBounded, InitSound DEF VInv, VerifiedSound
<1>2. VInv /\ [Next]_vars => VInv' BY NextFrames, NextBounded, NextSound DEF VInv, FInv
<1> QED BY <1>1, <1>2, PTL DEF Spec

\* A compiled program that is verified is sound.
LEMMA CompiledSound ==
  ASSUME VInv, CompiledVerified, prog \in Compiled
  PROVE  Verif /\ Sound
BY DEF VInv, FInv, FrameTypes, VerifiedSound, Verif, Fitting, CompiledVerified

\* Compiled bytecode that is verified never reaches the VM's own errors: pop does
\* not find the operand stack empty and the dispatch loop does not run off the
\* code, on any path and with any limits of the machine (vm.c, pop and vm_execute).
THEOREM VerifiedNeverFaults == Spec => [](CompiledVerified => NoInternalFault)
<1> DEFINE P == CompiledVerified => NoInternalFault
<1>1. VInv => P BY CompiledSound DEF NoInternalFault, Sound, InternalFaults
<1> HIDE DEF P
<1>2. Spec => []P BY StaysVerified, <1>1, PTL
<1> QED BY <1>2 DEF P

\* A call of verified bytecode leaves on the operand stack what its function is
\* declared to return and nothing else, and a program that halts leaves nothing
\* (BC_CALL, BC_RET and BC_HALT in vm.c).
THEOREM VerifiedCallsBalance == Spec => [](CompiledVerified => CallsBalanced)
<1> DEFINE P == CompiledVerified => CallsBalanced
<1>1. VInv => P BY CompiledSound DEF CallsBalanced, Sound
<1> HIDE DEF P
<1>2. Spec => []P BY StaysVerified, <1>1, PTL
<1> QED BY <1>2 DEF P

\* The operands of every instruction of verified bytecode have the tags its row in
\* codegen.h gives them when it is executed: the VM never reads a union member
\* other than the one that was written (vm.c, Value).
THEOREM VerifiedTagsAgree == Spec => [](CompiledVerified => TagsAgree)
<1> DEFINE P == CompiledVerified => TagsAgree
           above == here[Len(here)]
           below == here[Len(here) - 1]
<1>1. ASSUME VInv, CompiledVerified, prog \in Compiled
      PROVE  TagsAgree
  <2>1. Verif /\ Sound /\ Bounded /\ cstack \in Seq(Frame)
    BY <1>1, CompiledSound DEF VInv, FInv, FrameTypes
  <2>2. /\ Height \in Nat /\ Len(here) \in Nat /\ Len(here) <= Height
        /\ AsListed(prog, Ins, here) /\ Pops(prog, Ins) <= Len(here)
        /\ Pops(prog, Ins) = 1 => Top(0).tag = above
        /\ Pops(prog, Ins) = 2 => Top(0).tag = above /\ Top(1).tag = below
    BY <2>1, OperandsThere, InstructionFits, TopTags DEF Sound
  <2>3. /\ Pops(prog, Ins) = 1 => TagOf(0) = above
        /\ Pops(prog, Ins) = 2 => TagOf(0) = above /\ TagOf(1) = below
    BY <2>2 DEF TagOf
  <2>4. /\ At({"LOAD", "ZERO_MEM", "MEMBER_ADDR"}) => Pops(prog, Ins) = 1
        /\ At({"STORE", "COPY", "PTR_DIFF", "PTR_ADD", "PTR_SUB", "ARR_ADDR", "ADD", "SUB",
               "MUL", "DIV", "MOD", "LT", "GT", "LE", "GE", "EQ", "NE"}) => Pops(prog, Ins) = 2
    BY DEF At, Pops, OnPointers, Arithmetic, Comparison
  <2>5. /\ At({"LOAD", "ZERO_MEM", "MEMBER_ADDR"}) => above = "PTR"
        /\ At({"STORE"}) => below = "PTR" /\ above = Ins.tag
        /\ At({"COPY", "PTR_DIFF"}) => below = "PTR" /\ above = "PTR"
        /\ At({"PTR_ADD", "PTR_SUB", "ARR_ADDR"}) => below = "PTR" /\ above = "INT"
        /\ At({"ADD", "SUB", "MUL", "DIV", "MOD", "LT", "GT", "LE", "GE", "EQ", "NE"}) =>
             below = above
    BY <2>2 DEF AsListed, At, Arithmetic, Comparison
  <2> HIDE DEF above, below
  <2> QED BY <2>3, <2>4, <2>5 DEF TagsAgree, At
<1>2. VInv => P BY <1>1 DEF TagsAgree
<1> HIDE DEF P
<1>3. Spec => []P BY StaysVerified, <1>2, PTL
<1> QED BY <1>3 DEF P
=============================================================================
