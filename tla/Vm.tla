--------------------------------- MODULE Vm ---------------------------------
(***************************************************************************)
(* The virtual machine (src/src/vm.c, vm_execute): one action per opcode   *)
(* or group of opcodes that share a case.                                  *)
(*                                                                         *)
(* A program (Bytecode in src/src/codegen.h) is                            *)
(*   [code  : sequence of instructions,                                    *)
(*    funcs : sequence of functions, image : the data segment's cells].    *)
(* An instruction is a record with its operands; jump targets and entries  *)
(* are indices of code.  Floating-point values are not modelled.           *)
(***************************************************************************)
EXTENDS Values, Sequences

CONSTANTS StackBase,      \* call frames live in [StackBase, MemSize)
          MemSize,
          ValueStackMax,  \* VALUE_STACK_MAX
          CallStackMax,   \* CALL_STACK_MAX
          NativeMaxArgs,  \* NATIVE_MAX_ARGS
          Programs,       \* the programs that may be run, by name
          Compiled        \* those of them the code generator emitted

ASSUME VmAssumption ==
  /\ DataBase \in Nat \ {0} /\ DataBase <= HeapBase
  /\ HeapBase \in Nat /\ HeapSize \in Nat /\ StackBase = HeapBase + HeapSize
  /\ MemSize \in Nat /\ StackBase <= MemSize
  /\ ValueStackMax \in Nat /\ CallStackMax \in Nat
  /\ Word = 4

\* Bytecode the VM takes on trust: it checks neither the index of a function
\* nor a jump's target before using it.
ASSUME ProgramsAssumption ==
  \A p \in DOMAIN Programs :
    /\ \A i \in DOMAIN Programs[p].code :
         LET ins == Programs[p].code[i]
         IN /\ ins.op \in {"JMP", "JZ"} => ins.to \in Nat
            /\ ins.op = "CALL" => ins.f \in DOMAIN Programs[p].funcs
            /\ ins.op = "CALL_NATIVE" /\ ins.id = "print" => ins.argc \in Nat
    /\ Len(Programs[p].funcs) \in Nat
    /\ DOMAIN Programs[p].funcs = 1..Len(Programs[p].funcs)
    /\ \A f \in DOMAIN Programs[p].funcs :
         /\ Programs[p].funcs[f].entry \in Nat /\ Programs[p].funcs[f].frameSize \in Nat
         /\ Len(Programs[p].funcs[f].params) \in Nat

VARIABLES prog,       \* name of the program being run
          ip,         \* index of the next instruction
          mem,        \* VM.memory
          vstack,     \* VM.value_stack, up to value_top
          cstack,     \* VM.call_stack, up to call_top
          frameBase, allocTop,   \* VM.frame_base, VM.stack_alloc_top
          func,       \* VM.current_func_index, 0 outside every function
          heapHead,   \* VM.heap_free_head
          out,        \* what the program has printed
          status,     \* "running", "halted", or why the VM gave up
          due,        \* history: the operand height each active call owes its
                      \* caller on return, from what the function is declared
                      \* to return
          owed        \* history: height due by the last return minus the height
                      \* it left

frameVars == <<cstack, frameBase, allocTop, func, due, owed>>
vars == <<prog, ip, mem, vstack, frameVars, heapHead, out, status>>

-----------------------------------------------------------------------------
bc == Programs[prog]
Ins == bc.code[ip]
Height == Len(vstack)
Top(k) == vstack[Height - k]               \* Top(0) is the top of the stack
Drop(k) == SubSeq(vstack, 1, Height - k)

At(ops) == status = "running" /\ ip \in DOMAIN bc.code /\ Ins.op \in ops

\* fatal: a message and exit(2).
Fatal(why) ==
  /\ status' = why
  /\ UNCHANGED <<prog, ip, mem, vstack, frameVars, heapHead, out>>

\* pop on an empty stack, push on a full one.
StackFaultMutant(pops, pushes) ==         \* one value too many
  IF Height < pops THEN "operand stack underflow"
  ELSE IF Height - pops + pushes > ValueStackMax + 1 THEN "operand stack overflow"
  ELSE "ok"
StackFault(pops, pushes) ==
  IF Height < pops THEN "operand stack underflow"
  ELSE IF Height - pops + pushes > ValueStackMax THEN "operand stack overflow"
  ELSE "ok"

\* check_range
RangeFault(a, n) ==
  IF a = 0 THEN "null pointer dereference"
  ELSE IF a < DataBase \/ a + n > MemSize THEN "segmentation fault"
  ELSE "ok"

First(f, g) == IF f # "ok" THEN f ELSE g

\* An instruction that replaces operands by one result.
Yield(pops, result, fault) ==
  LET f == First(StackFault(pops, 1), fault)
  IN IF f # "ok" THEN Fatal(f)
     ELSE /\ vstack' = Append(Drop(pops), result)
          /\ ip' = ip + 1
          /\ UNCHANGED <<prog, mem, frameVars, heapHead, out, status>>

\* An instruction that consumes operands and writes memory.
Write(pops, newMem, fault) ==
  LET f == First(StackFault(pops, 0), fault)
  IN IF f # "ok" THEN Fatal(f)
     ELSE /\ mem' = newMem
          /\ vstack' = Drop(pops)
          /\ ip' = ip + 1
          /\ UNCHANGED <<prog, frameVars, heapHead, out, status>>

-----------------------------------------------------------------------------
\* Constants, the operand stack, and addresses.
Push == At({"PUSH"}) /\ Yield(0, Ins.val, "ok")

Pop == At({"POP"}) /\ Write(1, mem, "ok")

Dup ==
  /\ At({"DUP"})
  /\ LET f == StackFault(1, 2)
     IN IF f # "ok" THEN Fatal(f)
        ELSE /\ vstack' = Append(vstack, Top(0))
             /\ ip' = ip + 1
             /\ UNCHANGED <<prog, mem, frameVars, heapHead, out, status>>

AddrLocal == At({"ADDR_LOCAL"}) /\ Yield(0, Val("PTR", frameBase + Ins.off), "ok")

MemberAddr == At({"MEMBER_ADDR"}) /\ Yield(1, Val("PTR", AsPtr(Top(0)) + Ins.off), "ok")

ArrAddr ==
  /\ At({"ARR_ADDR"})
  /\ Yield(2, Val("PTR", AsPtr(Top(1)) + Top(0).v * Ins.elem),
           IF Top(0).v \in 0..Ins.len - 1 THEN "ok" ELSE "array index out of bounds")

PtrAdd == At({"PTR_ADD"}) /\ Yield(2, Val("PTR", AsPtr(Top(1)) + Top(0).v), "ok")
PtrSub == At({"PTR_SUB"}) /\ Yield(2, Val("PTR", AsPtr(Top(1)) - Top(0).v), "ok")
PtrDiff ==
  /\ At({"PTR_DIFF"})
  /\ LET elem == IF Ins.elem = 0 THEN 1 ELSE Ins.elem
     IN Yield(2, Val("LONG", Quot(AsPtr(Top(1)) - AsPtr(Top(0)), elem)), "ok")

\* Memory.
Load ==
  /\ At({"LOAD"})
  /\ Yield(1, ReadValue(mem, AsPtr(Top(0)), Ins.tag),
           RangeFault(AsPtr(Top(0)), TagSize(Ins.tag)))

Store ==
  /\ At({"STORE"})
  /\ \E junk \in {0, -1} :
       Write(2, WriteValue(mem, AsPtr(Top(1)), Ins.tag, Top(0), junk),
             RangeFault(AsPtr(Top(1)), TagSize(Ins.tag)))

\* memmove
Moved(m, dst, src, n) ==
  [a \in DOMAIN m |-> IF dst <= a /\ a < dst + n THEN m[src + (a - dst)] ELSE m[a]]
Zeroed(m, dst, n) ==
  [a \in DOMAIN m |-> IF dst <= a /\ a < dst + n THEN 0 ELSE m[a]]

Copy ==
  /\ At({"COPY"})
  /\ Write(2, Moved(mem, AsPtr(Top(1)), AsPtr(Top(0)), Ins.size),
           First(RangeFault(AsPtr(Top(1)), Ins.size), RangeFault(AsPtr(Top(0)), Ins.size)))

ZeroMem ==
  /\ At({"ZERO_MEM"})
  /\ Write(1, Zeroed(mem, AsPtr(Top(0)), Ins.size), RangeFault(AsPtr(Top(0)), Ins.size))

\* Arithmetic.  The quotient of the least LONG by -1 has no int64_t value: the
\* division traps on the host.
DivFault(a, b) ==
  IF b.v = 0 THEN "division by zero"
  ELSE IF a.v = -(Radix ^ 8 \div 2) /\ b.v = -1 THEN "host trap"
  ELSE "ok"

ArithOp ==
  /\ At({"ADD", "SUB", "MUL", "DIV", "MOD"})
  /\ Yield(2, Arith(Ins.op, Top(1), Top(0)),
           IF Ins.op \in {"DIV", "MOD"} THEN DivFault(Top(1), Top(0)) ELSE "ok")

Neg == At({"NEG"}) /\ Yield(1, Negate(Top(0)), "ok")
CompareOp ==
  /\ At({"LT", "GT", "LE", "GE", "EQ", "NE"})
  /\ Yield(2, BoolVal(Compare(Ins.op, Top(1), Top(0))), "ok")
Not == At({"NOT"}) /\ Yield(1, BoolVal(~IsTruthy(Top(0))), "ok")
Cast == At({"CAST"}) /\ Yield(1, CastValue(Top(0), Ins.tag), "ok")

\* Control.
Jmp ==
  /\ At({"JMP"})
  /\ ip' = Ins.to
  /\ UNCHANGED <<prog, mem, vstack, frameVars, heapHead, out, status>>

Jz ==
  /\ At({"JZ"})
  /\ IF Height = 0 THEN Fatal("operand stack underflow")
     ELSE /\ ip' = IF IsTruthy(Top(0)) THEN ip + 1 ELSE Ins.to
          /\ vstack' = Drop(1)
          /\ UNCHANGED <<prog, mem, frameVars, heapHead, out, status>>

Halt ==
  /\ At({"HALT"})
  /\ status' = "halted"
  /\ UNCHANGED <<prog, ip, mem, vstack, frameVars, heapHead, out>>

RunOff ==
  /\ status = "running" /\ ip \notin DOMAIN bc.code
  /\ Fatal("instruction pointer ran off the end of the program")

-----------------------------------------------------------------------------
\* Calls.  The frame is zeroed and the parameters are popped into it, the last
\* one first; a struct parameter is copied from the address on the stack, after a
\* check of that address (either of its two messages is the one used here).
CallFault(f, pops, structArgs) ==
  IF Len(cstack) >= CallStackMax THEN "call stack overflow"
  ELSE IF allocTop + f.frameSize > MemSize THEN "stack overflow"
  ELSE IF Height < pops THEN "operand stack underflow"
  ELSE IF \E s \in structArgs : RangeFault(s.at, s.size) # "ok" THEN "segmentation fault"
  ELSE "ok"

\* The frame of function number g becomes the current one.
EnterFrame(g) ==
  /\ cstack' = Append(cstack, [retIp |-> ip + 1, thisBase |-> allocTop,
                               savedBase |-> frameBase, savedFunc |-> func])
  /\ frameBase' = allocTop
  /\ allocTop' = allocTop + bc.funcs[g].frameSize
  /\ func' = g
  /\ ip' = bc.funcs[g].entry

\* The current frame is given up, the registers are the ones it saved.
LeaveFrameMutant ==                       \* the base is left to the callee's
  LET frame == cstack[Len(cstack)]
  IN /\ allocTop' = frame.thisBase
     /\ frameBase' = frame.thisBase
     /\ func' = frame.savedFunc
     /\ ip' = frame.retIp
     /\ cstack' = SubSeq(cstack, 1, Len(cstack) - 1)
LeaveFrame ==
  LET frame == cstack[Len(cstack)]
  IN /\ allocTop' = frame.thisBase
     /\ frameBase' = frame.savedBase
     /\ func' = frame.savedFunc
     /\ ip' = frame.retIp
     /\ cstack' = SubSeq(cstack, 1, Len(cstack) - 1)

\* Memory when k parameters of f are in its frame: the last one is on top.
Passed(m, k, par) ==
  IF par.isStruct THEN Moved(m, allocTop + par.off, AsPtr(Top(k - 1)), par.size)
  ELSE WriteValue(m, allocTop + par.off, par.tag, Top(k - 1), 0)
ParamsIn(f) ==
  LET m[k \in 0..Len(f.params)] ==
        IF k = 0 THEN Zeroed(mem, allocTop, f.frameSize)
        ELSE Passed(m[k - 1], k, f.params[Len(f.params) - k + 1])
  IN m

Call ==
  /\ At({"CALL"})
  /\ LET f == bc.funcs[Ins.f]
         n == Len(f.params)
         pops == IF f.returnsStruct THEN n + 1 ELSE n
         structArgs == {[at |-> AsPtr(Top(n - i)), size |-> f.params[i].size] :
                          i \in {j \in 1..n : f.params[j].isStruct}}
         fault == CallFault(f, pops, structArgs)
     IN IF fault # "ok" THEN Fatal(fault)
        ELSE /\ mem' = IF f.returnsStruct
                       THEN WriteValue(ParamsIn(f)[n], allocTop, "PTR", Top(n), 0)
                       ELSE ParamsIn(f)[n]
             /\ vstack' = Drop(pops)
             /\ EnterFrame(Ins.f)
             /\ due' = Append(due, Height - pops + IF f.declared = "scalar" THEN 1 ELSE 0)
             /\ UNCHANGED <<prog, heapHead, out, status, owed>>

\* A value is popped and pushed back, unless the function returns none.
Ret ==
  /\ At({"RET"})
  /\ cstack # <<>>        \* the prologue, the only code outside calls, has no RET
  /\ LET f == bc.funcs[func]
         hasRetval == ~f.returnsStruct /\ f.returnTag # "VOID"
     IN IF hasRetval /\ Height = 0 THEN Fatal("operand stack underflow")
        ELSE /\ LeaveFrame
             /\ due' = SubSeq(due, 1, Len(due) - 1)
             /\ owed' = due[Len(due)] - Height
             /\ UNCHANGED <<prog, mem, vstack, heapHead, out, status>>

-----------------------------------------------------------------------------
\* Native functions.
AtNative(id) == At({"CALL_NATIVE"}) /\ Ins.id = id

\* The cells of a NUL-terminated string at a, or up to the end of memory.
Text(a) ==
  LET stop == Min({k \in a..MemSize : k = MemSize \/ (k < MemSize /\ mem[k] = 0)})
  IN [i \in 1..stop - a |-> mem[a + i - 1]]

\* A pointer into memory is printed as the string it points to.
Printed(a) ==
  IF a.tag = "PTR" /\ DataBase <= AsPtr(a) /\ AsPtr(a) < MemSize
  THEN [tag |-> "TEXT", v |-> Text(AsPtr(a))] ELSE a

NativePrint ==
  /\ AtNative("print")
  /\ LET f == IF Ins.argc > NativeMaxArgs THEN "too many arguments"
              ELSE StackFault(Ins.argc, 0)
     IN IF f # "ok" THEN Fatal(f)
        ELSE /\ out' = Append(out, [i \in 1..Ins.argc |-> Printed(Top(Ins.argc - i))])
             /\ vstack' = Drop(Ins.argc)
             /\ ip' = ip + 1
             /\ UNCHANGED <<prog, mem, frameVars, heapHead, status>>

Malloc ==
  /\ AtNative("malloc")
  /\ LET f == StackFault(1, 1)
         r == VmMalloc(mem, heapHead, Unsigned(Top(0).v, 4))
     IN IF f # "ok" THEN Fatal(f)
        ELSE /\ mem' = r.m
             /\ heapHead' = r.head
             /\ vstack' = Append(Drop(1), Val("PTR", r.ret))
             /\ ip' = ip + 1
             /\ UNCHANGED <<prog, frameVars, out, status>>

Free ==
  /\ AtNative("free")
  /\ LET f == First(StackFault(1, 0), IF FreeFatal(mem, AsPtr(Top(0)))
                                      THEN "double free or invalid free" ELSE "ok")
         r == VmFree(mem, heapHead, AsPtr(Top(0)))
     IN IF f # "ok" THEN Fatal(f)
        ELSE /\ mem' = r.m
             /\ heapHead' = r.head
             /\ vstack' = Drop(1)
             /\ ip' = ip + 1
             /\ UNCHANGED <<prog, frameVars, out, status>>

\* The string functions look at one character after the other and check each
\* address before using it.
Strlen ==
  /\ AtNative("strlen")
  /\ LET a == AsPtr(Top(0))
     IN Yield(1, Val("INT", Len(Text(a))),
              First(RangeFault(a, 1), RangeFault(a + Len(Text(a)), 1)))

Strcmp ==
  /\ AtNative("strcmp")
  /\ LET a == AsPtr(Top(1))
         b == AsPtr(Top(0))
         fault(k) == First(RangeFault(a + k, 1), RangeFault(b + k, 1))
         k0 == Min({k \in 0..MemSize :
                      IF fault(k) # "ok" THEN TRUE
                      ELSE mem[a + k] # mem[b + k] \/ mem[a + k] = 0})
     IN Yield(2, Val("INT", mem[a + k0] - mem[b + k0]), fault(k0))

\* Copied forwards over its own end, a string never ends: the copy runs out of
\* memory.
Strcpy ==
  /\ AtNative("strcpy")
  /\ LET dst == AsPtr(Top(1))
         src == AsPtr(Top(0))
         n == Len(Text(src))
         runsOff == src + n >= MemSize \/ dst + n >= MemSize \/ dst \in src + 1..src + n
         fault == First(First(RangeFault(src, 1), RangeFault(dst, 1)),
                        IF runsOff THEN "segmentation fault" ELSE "ok")
         f == First(StackFault(2, 1), fault)
     IN IF f # "ok" THEN Fatal(f)
        ELSE /\ mem' = Moved(mem, dst, src, n + 1)
             /\ vstack' = Append(Drop(2), Val("PTR", dst))
             /\ ip' = ip + 1
             /\ UNCHANGED <<prog, frameVars, heapHead, out, status>>

-----------------------------------------------------------------------------
\* calloc, the data segment, heap_init; execution starts at the first cell.
BootMemory(image) ==
  HeapInit([a \in 0..MemSize - 1 |->
              IF a - DataBase + 1 \in DOMAIN image THEN image[a - DataBase + 1] ELSE 0])

Init ==
  /\ prog \in DOMAIN Programs
  /\ ip = 1
  /\ mem = BootMemory(bc.image)
  /\ vstack = <<>>
  /\ cstack = <<>>
  /\ frameBase = StackBase
  /\ allocTop = StackBase
  /\ func = 0
  /\ heapHead = HeapBase
  /\ out = <<>>
  /\ status = "running"
  /\ due = <<>>
  /\ owed = 0

OperandStep == Push \/ Pop \/ Dup \/ AddrLocal \/ MemberAddr \/ ArrAddr
               \/ PtrAdd \/ PtrSub \/ PtrDiff
               \/ ArithOp \/ Neg \/ CompareOp \/ Not \/ Cast
MemoryStep == Load \/ Store \/ Copy \/ ZeroMem
ControlStep == Jmp \/ Jz \/ Halt \/ RunOff
NativeStep == NativePrint \/ Malloc \/ Free \/ Strlen \/ Strcmp \/ Strcpy

Next == OperandStep \/ MemoryStep \/ ControlStep \/ Call \/ Ret \/ NativeStep

\* The dispatch loop runs until a HALT or a fatal error.
Spec == Init /\ [][Next]_vars /\ WF_vars(Next)

-----------------------------------------------------------------------------
\* The function of the k-th active call, and the memory of its frame.
FrameFunc(k) == IF k = Len(cstack) THEN func ELSE cstack[k + 1].savedFunc
FrameEnd(k) == IF k = Len(cstack) THEN allocTop ELSE cstack[k + 1].thisBase

\* Types of the registers and stacks (struct VM in vm.c).
TypeOK ==
  /\ prog \in DOMAIN Programs
  /\ ip \in Nat /\ func \in 0..Len(bc.funcs)
  /\ DOMAIN mem = 0..MemSize - 1
  /\ Height <= ValueStackMax /\ Len(cstack) <= CallStackMax
  /\ Len(due) = Len(cstack)

\* Frames are laid end to end from StackBase, each as large as its function
\* says; the registers are those of the last one, and each frame holds the
\* registers of the one below it (BC_CALL and BC_RET in vm.c).
FramesTile ==
  /\ allocTop <= MemSize
  /\ \A k \in 1..Len(cstack) :
       /\ FrameEnd(k) = cstack[k].thisBase + bc.funcs[FrameFunc(k)].frameSize
       /\ cstack[k].savedBase = IF k = 1 THEN StackBase ELSE cstack[k - 1].thisBase
       /\ FrameFunc(k) \in DOMAIN bc.funcs
  /\ IF cstack = <<>>
     THEN frameBase = StackBase /\ allocTop = StackBase /\ func = 0
     ELSE /\ cstack[1].thisBase = StackBase /\ cstack[1].savedFunc = 0
          /\ frameBase = cstack[Len(cstack)].thisBase

\* A call leaves on the operand stack what its function is declared to return
\* and nothing else, and a program that halts leaves nothing (codegen.h,
\* BC_CALL: "args... -> retval?"; the prologue discards main's result).
CallsBalanced ==
  prog \in Compiled =>
    /\ owed = 0
    /\ status = "halted" => vstack = <<>>

\* The operands of the next instruction have the tags its row in codegen.h
\* gives them: the VM reads the union member of the tag it expects, and computes
\* in the tag on the left.  Where a char or bool is negated, indexes, or is added
\* to a pointer, no cast is emitted and the tags differ: such programs are not
\* among MCVm's (see VmNegate.cfg and VmIndex.cfg).
TagOf(k) == IF k < Height THEN Top(k).tag ELSE "missing"
TagsAgree ==
  LET above == TagOf(0)
      below == TagOf(1)
  IN prog \in Compiled =>
     /\ At({"LOAD", "ZERO_MEM", "MEMBER_ADDR"}) => above = "PTR"
     /\ At({"STORE"}) => below = "PTR" /\ above = Ins.tag
     /\ At({"COPY", "PTR_DIFF"}) => below = "PTR" /\ above = "PTR"
     /\ At({"PTR_ADD", "PTR_SUB", "ARR_ADDR"}) => below = "PTR" /\ above = "INT"
     /\ At({"ADD", "SUB", "MUL", "DIV", "MOD", "LT", "GT", "LE", "GE", "EQ", "NE"}) =>
          below = above

\* What the next instruction reads or writes through pointers.
Touched ==
  LET at(k, n) == IF k < Height THEN {[at |-> AsPtr(Top(k)), size |-> n]} ELSE {}
  IN CASE At({"LOAD"}) -> at(0, TagSize(Ins.tag))
       [] At({"STORE"}) -> at(1, TagSize(Ins.tag))
       [] At({"ZERO_MEM"}) -> at(0, Ins.size)
       [] At({"COPY"}) -> at(0, Ins.size) \cup at(1, Ins.size)
       [] OTHER -> {}

\* A program that keeps no pointer to a local past its function's end never
\* gets at the stack area outside the frames in use, nor across two of them:
\* the frame codegen.c sizes (frame_high) holds every slot it hands out.
AccessesInsideFrames ==
  \A r \in Touched :
    (prog \in Compiled /\ r.at >= StackBase /\ RangeFault(r.at, r.size) = "ok") =>
    \E k \in 1..Len(cstack) : cstack[k].thisBase <= r.at /\ r.at + r.size <= FrameEnd(k)

\* While a struct-returning function runs, the address it will write its
\* result to (its hidden first parameter) stays in an older frame, or out of
\* the stack, with room for the whole result (codegen.c, codegen_call).
ResultOutsideFrame ==
  \A k \in 1..Len(cstack) : prog \in Compiled /\ bc.funcs[FrameFunc(k)].returnsStruct =>
    LET at == GetU(mem, cstack[k].thisBase, 4)
        end == at + bc.funcs[FrameFunc(k)].returnSize
    IN \/ DataBase <= at /\ end <= StackBase
       \/ \E j \in 1..k - 1 : cstack[j].thisBase <= at /\ end <= FrameEnd(j)

\* Compiled code never takes the VM out of its instruction stream or below
\* the operands it pushed: the checks of pop and of the dispatch loop never
\* fire for what the code generator emits.
NoInternalFault ==
  prog \in Compiled =>
    status \notin {"operand stack underflow",
                   "instruction pointer ran off the end of the program"}

\* Compiled programs without an endless loop come to a stop (the dispatch loop of vm.c
\* runs until a HALT or a fatal error).
Halts == prog \in Compiled => <>(status # "running")
=============================================================================
