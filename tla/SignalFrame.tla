---------------------------- MODULE SignalFrame -----------------------------
(***************************************************************************)
(* How a signal interrupts a program: handle_signals pushes the trapframe, *)
(* the code of sigret, the message, a pointer to it and a return address   *)
(* on the user stack and enters the handler; the handler returns into the  *)
(* code, which calls sig_ret; ret_signal finds the trapframe from esp      *)
(* alone, and syscall() stores the result of the call (proc.c 649-850,     *)
(* sigretcode.S, syscall.c 160-178).                                       *)
(*                                                                         *)
(* One process, its registers and its stack.  Memory is a function from    *)
(* addresses to words, and the stack grows downwards.  Of the registers    *)
(* only eax, eip and esp are kept; a trapframe is those three words.       *)
(***************************************************************************)
EXTENDS Integers, Sequences

CONSTANTS
  Top,            \* the first address above the stack
  Main, Handler,  \* code addresses: the program and its signal handler
  SigretCode,     \* the word sigretcode.S assembles to
  Words,          \* the words programs compute with and messages consist of
  MaxDepth,       \* bound: words the program has on its stack
  MaxPending      \* bound: signals waiting

ASSUME FrameAssumption ==
  /\ Top \in Nat /\ MaxDepth \in Nat /\ MaxPending \in Nat
  /\ Top >= MaxDepth + 10
  /\ Words \subseteq Nat /\ 0 \in Words
  /\ {Main, Handler, SigretCode} \subseteq Nat
  /\ Main >= Top /\ Handler >= Top /\ Main # Handler

VARIABLES
  mode,      \* "user", or "kernel" on the way back from trap()
  tf,        \* the user registers; in the kernel, p->tf
  stack,     \* the words of the user stack
  handling,  \* p->handling
  pending,   \* the messages of the pending signals
  saved      \* history: while a handler runs, the registers and the stack it interrupted

vars == <<mode, tf, stack, handling, pending, saved>>

Addresses == 0 .. (Top - 1)

(* Sizes in words.  sizeof(struct trapframe), codesize, the message of 8   *)
(* bytes, and the 12 bytes that ret_signal adds to esp.                    *)
TrapframeSize == 3
CodeSize == 1
MsgSize == 2
RetOffset == 3

(* memmove of the words ws to address a.                                   *)
Store(mem, a, ws) ==
  [i \in DOMAIN mem |-> IF i >= a /\ i < a + Len(ws) THEN ws[i - a + 1] ELSE mem[i]]

Trapframe(r) == <<r.eax, r.eip, r.esp>>

Load(mem, a) == [eax |-> mem[a], eip |-> mem[a + 1], esp |-> mem[a + 2]]

-----------------------------------------------------------------------------
Context == [regs |-> tf, mem |-> [a \in tf.esp .. (Top - 1) |-> stack[a]]]

NotHandling == [regs |-> [eax |-> 0, eip |-> 0, esp |-> 0], mem |-> <<>>]

Init ==
  /\ mode = "user"
  /\ tf = [eax |-> 0, eip |-> Main, esp |-> Top]
  /\ stack = [a \in Addresses |-> 0]
  /\ handling = FALSE
  /\ pending = <<>>
  /\ saved = NotHandling

InMain == mode = "user" /\ tf.eip = Main
InHandler == mode = "user" /\ tf.eip = Handler

(* The program computes, pushes a word, pops one.                          *)
Compute ==
  /\ InMain
  /\ \E w \in Words : tf' = [tf EXCEPT !.eax = w]
  /\ UNCHANGED <<mode, stack, handling, pending, saved>>

Push ==
  /\ InMain
  /\ tf.esp > Top - MaxDepth
  /\ tf' = [tf EXCEPT !.esp = @ - 1]
  /\ stack' = [stack EXCEPT ![tf.esp - 1] = tf.eax]
  /\ UNCHANGED <<mode, handling, pending, saved>>

Pop ==
  /\ InMain
  /\ tf.esp < Top
  /\ tf' = [tf EXCEPT !.esp = @ + 1, !.eax = stack[tf.esp]]
  /\ UNCHANGED <<mode, stack, handling, pending, saved>>

(* A system call other than sig_ret, or a timer interrupt.                 *)
syscall ==
  /\ InMain \/ InHandler
  /\ \E w \in Words : tf' = [tf EXCEPT !.eax = w]
  /\ mode' = "kernel"
  /\ UNCHANGED <<stack, handling, pending, saved>>

Interrupt ==
  /\ mode = "user"
  /\ mode' = "kernel"
  /\ UNCHANGED <<tf, stack, handling, pending, saved>>

(* send_multicast, run by another process at any time.                     *)
send_multicast ==
  /\ Len(pending) < MaxPending
  /\ \E w \in Words : pending' = Append(pending, <<w, w>>)
  /\ UNCHANGED <<mode, tf, stack, handling, saved>>

-----------------------------------------------------------------------------
(* The frame handle_signals builds below address sp0, from the top down:   *)
(* trapframe, sigret code, message, pointer to the message, return address.*)
EnterHandler(sp0) ==
  LET sp1 == sp0 - TrapframeSize
      code_pointer == sp1 - CodeSize
      sp2 == code_pointer - MsgSize
      mem1 == Store(stack, sp1, Trapframe(tf))
      mem2 == Store(mem1, code_pointer, <<SigretCode>>)
      mem3 == Store(mem2, sp2, Head(pending))
  IN  /\ mode = "kernel"
      /\ pending # <<>>
      /\ handling' = TRUE
      /\ stack' = Store(mem3, sp2 - 2, <<code_pointer, sp2>>)
      /\ tf' = [tf EXCEPT !.esp = sp2 - 2, !.eip = Handler]
      /\ pending' = Tail(pending)
      /\ saved' = Context
      /\ mode' = "user"

(* Faulty: the frame overlaps the program's stack by a word.               *)
HandleSignalsOverlap == ~ handling /\ EnterHandler(IF tf.esp < Top THEN tf.esp + 1 ELSE Top)

(* On the way back to user space: the frame is built and the handler       *)
(* entered, unless one runs already or nothing is pending.                 *)
handle_signals == ~ handling /\ EnterHandler(tf.esp)

(* Faulty: trapret may return without looking for signals.                 *)
TrapretSkips ==
  /\ mode = "kernel"
  /\ mode' = "user"
  /\ UNCHANGED <<tf, stack, handling, pending, saved>>

trapret ==
  /\ mode = "kernel"
  /\ handling \/ pending = <<>>
  /\ mode' = "user"
  /\ UNCHANGED <<tf, stack, handling, pending, saved>>

(* The handler uses the stack below its frame and its own argument slot.   *)
HandlerBody ==
  /\ InHandler
  /\ \E w \in Words, a \in {tf.esp - 1, tf.esp + 1} :
       stack' = [stack EXCEPT ![a] = w] /\ tf' = [tf EXCEPT !.eax = w]
  /\ UNCHANGED <<mode, handling, pending, saved>>

(* Its ret instruction: it takes the address of the sigret code.           *)
HandlerReturn ==
  /\ InHandler
  /\ tf' = [tf EXCEPT !.eip = stack[tf.esp], !.esp = @ + 1]
  /\ UNCHANGED <<mode, stack, handling, pending, saved>>

(* The sigret code: eax = SYS_sig_ret and a trap.  ret_signal copies the   *)
(* trapframe back; then syscall() stores the result of sys_sig_ret, 0, in  *)
(* tf->eax.                                                                *)
RetSignalWith(regs) ==
  /\ mode = "user"
  /\ tf.eip \in Addresses
  /\ stack[tf.eip] = SigretCode
  /\ tf' = [regs EXCEPT !.eax = 0]
  /\ handling' = FALSE
  /\ mode' = "kernel"
  /\ saved' = NotHandling
  /\ UNCHANGED <<stack, pending>>

(* Faulty: ret_signal does not restore esp.                                *)
RetSignalEip == RetSignalWith([Load(stack, tf.esp + RetOffset + CodeSize) EXCEPT !.esp = tf.esp])

ret_signal == RetSignalWith(Load(stack, tf.esp + RetOffset + CodeSize))

Next ==
  \/ Compute \/ Push \/ Pop \/ syscall \/ Interrupt \/ send_multicast
  \/ handle_signals \/ trapret \/ HandlerBody \/ HandlerReturn \/ ret_signal

Spec == Init /\ [][Next]_vars

(* The timer interrupts user code, the kernel returns to it, and a handler *)
(* that goes on executing returns and runs the code it returns to.         *)
FairSpec ==
  /\ Spec
  /\ SF_vars(Interrupt) /\ WF_vars(handle_signals \/ trapret)
  /\ SF_vars(HandlerReturn) /\ SF_vars(ret_signal)

-----------------------------------------------------------------------------
(* Properties.                                                             *)

(* While a handler runs, and in the sigret code after it, what ret_signal  *)
(* will need is intact on the user stack, whatever the handler does with   *)
(* its own frame: the trapframe, the code, and the program's stack above.  *)
FrameIntact ==
  handling =>
    LET base == saved.regs.esp
    IN  /\ Load(stack, base - TrapframeSize) = saved.regs
        /\ stack[base - TrapframeSize - CodeSize] = SigretCode
        /\ \A a \in base .. (Top - 1) : stack[a] = saved.mem[a]

(* sig_ret resumes the program where the signal interrupted it, with the   *)
(* stack pointer it had: ret_signal computes the address of the trapframe  *)
(* from esp alone.  (eax is not restored: syscall stores the result of     *)
(* sig_ret over it.)                                                       *)
ContextRestored ==
  [][handling /\ ~ handling' =>
       tf'.eip = saved.regs.eip /\ tf'.esp = saved.regs.esp]_vars

(* Every signal reaches the handler, and every handler run ends: signals   *)
(* that arrive while one is handled wait and are handled next.             *)
SignalsHandled ==
  /\ (pending # <<>> /\ ~ handling) ~> handling
  /\ handling ~> ~ handling
=============================================================================
