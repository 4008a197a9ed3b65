------------------------- MODULE SignalFrame_proofs -------------------------
(***************************************************************************)
(* Proofs about the signal frame (SignalFrame), for every stack, program   *)
(* and message: while a handler runs, all that sig_ret needs stays intact  *)
(* on the user stack, and sig_ret resumes the program where the signal     *)
(* interrupted it.                                                         *)
(*                                                                         *)
(* ret_signal finds the trapframe from esp alone.  The invariant therefore *)
(* fixes where esp and eip are relative to the interrupted esp (base): in  *)
(* the handler 8 words below it, with the address of the sigret code as    *)
(* the return address, and in the sigret code, at base - 4, 7 words below. *)
(***************************************************************************)
EXTENDS SignalFrame, TLAPS

(* The time the provers are given, where a step does not say.              *)
USE SMTT(20), ZenonT(20)

Registers == [eax : Nat, eip : Nat, esp : Nat]

Message(m) == m \in Seq(Nat) /\ Len(m) = MsgSize

Types ==
  /\ mode \in {"user", "kernel"}
  /\ tf \in Registers
  /\ stack \in [Addresses -> Nat]
  /\ handling \in BOOLEAN
  /\ pending \in Seq({m \in Seq(Nat) : Message(m)})

(* The stack of the program.                                               *)
ProgramInv ==
  ~ handling => tf.eip = Main /\ tf.esp \in (Top - MaxDepth) .. Top

Base == saved.regs.esp

SavedInv ==
  handling =>
    /\ saved.regs \in Registers
    /\ Base \in (Top - MaxDepth) .. Top
    /\ saved.regs.eip = Main

(* Where the handler, and the sigret code after it, are.                   *)
HandlerInv ==
  handling =>
    \/ tf.eip = Handler /\ tf.esp = Base - 8 /\ stack[Base - 8] = Base - 4
    \/ tf.eip = Base - 4 /\ tf.esp = Base - 7

(* FrameIntact, word by word.                                              *)
FrameInv ==
  handling =>
    /\ stack[Base - 3] = saved.regs.eax
    /\ stack[Base - 2] = saved.regs.eip
    /\ stack[Base - 1] = saved.regs.esp
    /\ stack[Base - 4] = SigretCode
    /\ \A a \in Base .. (Top - 1) : stack[a] = saved.mem[a]

Inv == Types /\ ProgramInv /\ SavedInv /\ HandlerInv /\ FrameInv

-----------------------------------------------------------------------------
(* What the constants are, as the provers need it.                         *)
LEMMA Constants ==
  /\ Top \in Nat /\ MaxDepth \in Nat /\ Top >= MaxDepth + 10
  /\ Main \in Nat /\ Handler \in Nat /\ SigretCode \in Nat
  /\ Main >= Top /\ Handler >= Top /\ Main # Handler
  /\ \A w \in Words : w \in Nat
BY FrameAssumption, Zenon

(* memmove changes the words it is told to change, and no other.           *)
LEMMA StoreFacts ==
  ASSUME NEW mem \in [Addresses -> Nat], NEW a \in Nat, NEW ws \in Seq(Nat)
  PROVE  /\ Store(mem, a, ws) \in [Addresses -> Nat]
         /\ \A i \in Addresses : i < a \/ i >= a + Len(ws) => Store(mem, a, ws)[i] = mem[i]
         /\ \A k \in 1 .. Len(ws) : a + k - 1 \in Addresses => Store(mem, a, ws)[a + k - 1] = ws[k]
<1>1. Addresses \in SUBSET Int /\ DOMAIN mem = Addresses /\ Len(ws) \in Nat
  BY Constants DEF Addresses
<1>2. \A i \in Addresses : i >= a /\ i < a + Len(ws) => i - a + 1 \in 1 .. Len(ws)
  BY <1>1
<1>3. \A k \in 1 .. Len(ws) : ws[k] \in Nat
  OBVIOUS
<1>4. \A i \in Addresses :
        (IF i >= a /\ i < a + Len(ws) THEN ws[i - a + 1] ELSE mem[i]) \in Nat
  BY <1>2, <1>3, Zenon
<1>5. Store(mem, a, ws) = [i \in Addresses |->
                            IF i >= a /\ i < a + Len(ws) THEN ws[i - a + 1] ELSE mem[i]]
  BY <1>1, Zenon DEF Store
<1>6. \A k \in 1 .. Len(ws) : /\ a + k - 1 >= a /\ a + k - 1 < a + Len(ws)
                              /\ (a + k - 1) - a + 1 = k
  BY <1>1
<1>7. Store(mem, a, ws) \in [Addresses -> Nat]
  BY <1>4, <1>5, Zenon
<1>8. \A i \in Addresses : i < a \/ i >= a + Len(ws) => Store(mem, a, ws)[i] = mem[i]
  BY <1>1, <1>5
<1>9. \A k \in 1 .. Len(ws) : a + k - 1 \in Addresses => Store(mem, a, ws)[a + k - 1] = ws[k]
  BY <1>5, <1>6, Zenon
<1> QED
  BY <1>7, <1>8, <1>9, Zenon

(* While a handler runs, the words of its frame are inside the stack.      *)
LEMMA BaseRange ==
  ASSUME NEW b \in (Top - MaxDepth) .. Top
  PROVE  /\ b \in Nat /\ b >= 10 /\ b <= Top
         /\ \A k \in 1 .. 9 : b - k \in Addresses
         /\ \A a \in b .. (Top - 1) : a \in Addresses
BY Constants DEF Addresses

(* The program runs only while no signal is handled.                       *)
LEMMA MainNotHandling ==
  Inv /\ tf.eip = Main => ~ handling
<1> SUFFICES ASSUME Inv, tf.eip = Main, handling PROVE FALSE
  BY Zenon
<1>1. Base \in (Top - MaxDepth) .. Top
  BY Zenon DEF Inv, SavedInv
<1>2. Base \in Nat /\ Base <= Top
  BY <1>1, BaseRange, Zenon
<1> QED
  BY <1>2, Constants DEF Inv, HandlerInv

-----------------------------------------------------------------------------
(* The initial state.                                                      *)
LEMMA InitInv ==
  Init => Inv
<1> SUFFICES ASSUME Init PROVE Inv
  BY Zenon
<1>1. Types
  <2>1. tf \in Registers /\ stack \in [Addresses -> Nat]
    BY Constants, Zenon DEF Init, Registers
  <2>2. handling \in BOOLEAN
    BY Zenon DEF Init
  <2>3. pending \in Seq({m \in Seq(Nat) : Message(m)}) /\ mode \in {"user", "kernel"}
    BY DEF Init
  <2> QED
    BY <2>1, <2>2, <2>3, Zenon DEF Types
<1>2. ProgramInv
  BY Constants DEF Init, ProgramInv
<1> QED
  BY <1>1, <1>2, Zenon DEF Init, Inv, SavedInv, HandlerInv, FrameInv

(* Steps that touch neither the stack nor eip and esp: computation, system *)
(* calls, interrupts, the return from a trap, and a signal that is sent.   *)
LEMMA Inv_Registers ==
  ASSUME Inv, UNCHANGED <<stack, handling, saved>>,
         tf' \in Registers, tf'.eip = tf.eip, tf'.esp = tf.esp,
         mode' \in {"user", "kernel"}, pending' \in Seq({m \in Seq(Nat) : Message(m)})
  PROVE  Inv'
<1>1. Types'
  BY Zenon DEF Inv, Types
<1>2. ProgramInv' /\ SavedInv' /\ HandlerInv'
  BY Zenon DEF Inv, ProgramInv, SavedInv, HandlerInv, Base
<1>3. FrameInv'
  BY Zenon DEF Inv, FrameInv, Base
<1> QED
  BY <1>1, <1>2, <1>3, Zenon DEF Inv

(* Another value in eax.                                                   *)
LEMMA SetEax ==
  ASSUME Types, NEW w \in Nat, tf' = [tf EXCEPT !.eax = w]
  PROVE  tf' \in Registers /\ tf'.eip = tf.eip /\ tf'.esp = tf.esp
BY Zenon DEF Types, Registers

(* The program, when no signal is handled.                                 *)
LEMMA Inv_Program ==
  ASSUME Inv, ~ handling, UNCHANGED <<mode, handling, pending, saved>>,
         tf' \in Registers, tf'.eip = tf.eip, tf'.esp \in (Top - MaxDepth) .. Top,
         stack' \in [Addresses -> Nat]
  PROVE  Inv'
<1>1. Types' /\ ProgramInv'
  BY Zenon DEF Inv, Types, ProgramInv
<1> QED
  BY <1>1, Zenon DEF Inv, SavedInv, HandlerInv, FrameInv

(* A push on the program's own stack.                                      *)
LEMMA Inv_Push ==
  ASSUME Inv, Push
  PROVE  Inv'
<1>1. ~ handling /\ tf.esp \in (Top - MaxDepth) .. Top /\ tf.esp > Top - MaxDepth
  BY MainNotHandling, Zenon DEF Push, InMain, Inv, ProgramInv
<1>2. tf.esp - 1 \in (Top - MaxDepth) .. Top /\ tf.esp - 1 \in Nat
  BY <1>1, Constants
<1>3. tf' \in Registers /\ tf'.eip = tf.eip /\ tf'.esp = tf.esp - 1
  BY <1>2, Zenon DEF Push, Inv, Types, Registers
<1>4. stack' \in [Addresses -> Nat]
  <2>1. tf.eax \in Nat
    BY Zenon DEF Inv, Types, Registers
  <2> QED
    BY <2>1, Zenon DEF Push, Inv, Types
<1> QED
  BY <1>1, <1>2, <1>3, <1>4, Inv_Program, Zenon DEF Push

(* A pop.                                                                  *)
LEMMA Inv_Pop ==
  ASSUME Inv, Pop
  PROVE  Inv'
<1>1. ~ handling /\ tf.esp \in (Top - MaxDepth) .. Top /\ tf.esp < Top
  BY MainNotHandling, Zenon DEF Pop, InMain, Inv, ProgramInv
<1>2. tf.esp + 1 \in (Top - MaxDepth) .. Top /\ tf.esp + 1 \in Nat /\ tf.esp \in Addresses
  BY <1>1, Constants DEF Addresses
<1>3. tf' \in Registers /\ tf'.eip = tf.eip /\ tf'.esp = tf.esp + 1
  <2>1. stack[tf.esp] \in Nat
    BY <1>2, Zenon DEF Inv, Types
  <2> QED
    BY <1>2, <2>1, Zenon DEF Pop, Inv, Types, Registers
<1> QED
  BY <1>1, <1>2, <1>3, Inv_Program, Zenon DEF Pop, Inv, Types

(* handle_signals builds the frame below the program's stack.              *)
LEMMA Inv_handle_signals ==
  ASSUME Inv, handle_signals
  PROVE  Inv'
<1> DEFINE b == tf.esp
           m == Head(pending)
           mem1 == Store(stack, b - 3, Trapframe(tf))
           mem2 == Store(mem1, b - 4, <<SigretCode>>)
           mem3 == Store(mem2, b - 6, m)
           mem4 == Store(mem3, b - 8, <<b - 4, b - 6>>)
<1>1. ~ handling /\ tf.eip = Main /\ b \in (Top - MaxDepth) .. Top /\ pending # <<>>
  BY Zenon DEF handle_signals, EnterHandler, Inv, ProgramInv
<1>2. /\ b \in Nat /\ b >= 10 /\ b <= Top
      /\ \A k \in 1 .. 9 : b - k \in Addresses
      /\ \A a \in b .. (Top - 1) : a \in Addresses
  BY <1>1, BaseRange, Zenon
<1>3. /\ handling' = TRUE /\ mode' = "user" /\ saved' = Context
      /\ pending' = Tail(pending)
      /\ tf' = [tf EXCEPT !.esp = b - 8, !.eip = Handler]
      /\ stack' = mem4
  <2>1. /\ b - TrapframeSize = b - 3
        /\ (b - TrapframeSize) - CodeSize = b - 4
        /\ ((b - TrapframeSize) - CodeSize) - MsgSize = b - 6
        /\ (((b - TrapframeSize) - CodeSize) - MsgSize) - 2 = b - 8
    BY <1>2 DEF TrapframeSize, CodeSize, MsgSize
  <2> QED
    BY <2>1, Zenon DEF handle_signals, EnterHandler
<1>4. m \in Seq(Nat) /\ Len(m) = 2 /\ pending' \in Seq({n \in Seq(Nat) : Message(n)})
  <2>1. m \in {n \in Seq(Nat) : Message(n)} /\ pending' \in Seq({n \in Seq(Nat) : Message(n)})
    BY <1>1, <1>3 DEF Inv, Types
  <2> QED
    BY <2>1, Zenon DEF Message, MsgSize
<1>5. /\ Trapframe(tf) \in Seq(Nat) /\ Len(Trapframe(tf)) = 3
      /\ Trapframe(tf)[1] = tf.eax /\ Trapframe(tf)[2] = tf.eip /\ Trapframe(tf)[3] = tf.esp
  <2>1. tf.eax \in Nat /\ tf.eip \in Nat /\ tf.esp \in Nat
    BY Zenon DEF Inv, Types, Registers
  <2> QED
    BY <2>1 DEF Trapframe
<1>6. stack \in [Addresses -> Nat] /\ tf \in Registers
  BY Zenon DEF Inv, Types
<1> HIDE DEF b, m, mem1, mem2, mem3, mem4
<1>7. /\ mem1 \in [Addresses -> Nat]
      /\ \A a \in b .. (Top - 1) : mem1[a] = stack[a]
      /\ mem1[b - 3] = tf.eax /\ mem1[b - 2] = tf.eip /\ mem1[b - 1] = tf.esp
  <2>1. b - 3 \in Nat
    BY <1>2
  <2>2. /\ mem1 \in [Addresses -> Nat]
        /\ \A i \in Addresses : i < b - 3 \/ i >= (b - 3) + 3 => mem1[i] = stack[i]
        /\ \A k \in 1 .. 3 : (b - 3) + k - 1 \in Addresses =>
                               mem1[(b - 3) + k - 1] = Trapframe(tf)[k]
    <3> DEFINE t == Trapframe(tf)
    <3>1. t \in Seq(Nat) /\ Len(t) = 3 /\ mem1 = Store(stack, b - 3, t)
      BY <1>5, Zenon DEF mem1
    <3> HIDE DEF t
    <3>2. /\ Store(stack, b - 3, t) \in [Addresses -> Nat]
          /\ \A i \in Addresses : i < b - 3 \/ i >= (b - 3) + Len(t) =>
                                 Store(stack, b - 3, t)[i] = stack[i]
          /\ \A k \in 1 .. Len(t) : (b - 3) + k - 1 \in Addresses =>
                                 Store(stack, b - 3, t)[(b - 3) + k - 1] = t[k]
      BY <1>6, <2>1, <3>1, StoreFacts, ZenonT(30), Zenon
    <3>3. t = Trapframe(tf)
      BY Zenon DEF t
    <3> QED
      BY <3>1, <3>2, <3>3, Zenon
  <2>3. \A a \in b .. (Top - 1) : a >= (b - 3) + 3
    BY <1>2
  <2>4. /\ (b - 3) + 1 - 1 = b - 3 /\ (b - 3) + 2 - 1 = b - 2 /\ (b - 3) + 3 - 1 = b - 1
        /\ b - 3 \in Addresses /\ b - 2 \in Addresses /\ b - 1 \in Addresses
    BY <1>2
  <2>5. /\ mem1[b - 3] = tf.eax /\ mem1[b - 2] = tf.eip /\ mem1[b - 1] = tf.esp
    BY <1>5, <2>2, <2>4
  <2> QED
    BY <1>2, <2>2, <2>3, <2>5, Zenon
<1>8. /\ mem2 \in [Addresses -> Nat]
      /\ \A a \in Addresses : a >= b - 3 => mem2[a] = mem1[a]
      /\ mem2[b - 4] = SigretCode
  <2>1. b - 4 \in Nat /\ <<SigretCode>> \in Seq(Nat) /\ Len(<<SigretCode>>) = 1
    BY <1>2, Constants
  <2>2. /\ mem2 \in [Addresses -> Nat]
        /\ \A i \in Addresses : i < b - 4 \/ i >= (b - 4) + 1 => mem2[i] = mem1[i]
        /\ \A k \in 1 .. 1 : (b - 4) + k - 1 \in Addresses =>
                               mem2[(b - 4) + k - 1] = <<SigretCode>>[k]
    BY <1>7, <2>1, StoreFacts, ZenonT(30), Zenon DEF mem2
  <2>3. (b - 4) + 1 = b - 3 /\ (b - 4) + 1 - 1 = b - 4 /\ b - 4 \in Addresses
    BY <1>2
  <2>4. mem2[b - 4] = SigretCode
    BY <2>2, <2>3
  <2> QED
    BY <2>2, <2>3, <2>4, Zenon
<1>9. /\ mem3 \in [Addresses -> Nat]
      /\ \A a \in Addresses : a >= b - 4 => mem3[a] = mem2[a]
  <2>1. b - 6 \in Nat /\ (b - 6) + 2 = b - 4
    BY <1>2
  <2>2. /\ mem3 \in [Addresses -> Nat]
        /\ \A i \in Addresses : i < b - 6 \/ i >= (b - 6) + 2 => mem3[i] = mem2[i]
    <3>1. /\ mem3 \in [Addresses -> Nat]
          /\ \A i \in Addresses : i < b - 6 \/ i >= (b - 6) + Len(m) => mem3[i] = mem2[i]
      BY <1>4, <1>8, <2>1, StoreFacts, ZenonT(30), Zenon DEF mem3
    <3> QED
      BY <1>4, <3>1, Zenon
  <2> QED
    BY <2>1, <2>2, Zenon
<1>10. /\ mem4 \in [Addresses -> Nat]
       /\ \A a \in Addresses : a >= b - 6 => mem4[a] = mem3[a]
       /\ mem4[b - 8] = b - 4
  <2>1. /\ b - 8 \in Nat /\ <<b - 4, b - 6>> \in Seq(Nat) /\ Len(<<b - 4, b - 6>>) = 2
        /\ <<b - 4, b - 6>>[1] = b - 4
    BY <1>2
  <2>2. /\ mem4 \in [Addresses -> Nat]
        /\ \A i \in Addresses : i < b - 8 \/ i >= (b - 8) + 2 => mem4[i] = mem3[i]
        /\ \A k \in 1 .. 2 : (b - 8) + k - 1 \in Addresses =>
                               mem4[(b - 8) + k - 1] = <<b - 4, b - 6>>[k]
    <3> DEFINE t == <<b - 4, b - 6>>
    <3>1. t \in Seq(Nat) /\ Len(t) = 2 /\ mem4 = Store(mem3, b - 8, t)
      BY <2>1, Zenon DEF mem4
    <3> HIDE DEF t
    <3>2. /\ Store(mem3, b - 8, t) \in [Addresses -> Nat]
          /\ \A i \in Addresses : i < b - 8 \/ i >= (b - 8) + Len(t) =>
                                 Store(mem3, b - 8, t)[i] = mem3[i]
          /\ \A k \in 1 .. Len(t) : (b - 8) + k - 1 \in Addresses =>
                                 Store(mem3, b - 8, t)[(b - 8) + k - 1] = t[k]
      BY <1>9, <2>1, <3>1, StoreFacts, ZenonT(30), Zenon
    <3>3. t = <<b - 4, b - 6>>
      BY Zenon DEF t
    <3> QED
      BY <3>1, <3>2, <3>3, Zenon
  <2>3. (b - 8) + 2 = b - 6 /\ (b - 8) + 1 - 1 = b - 8 /\ b - 8 \in Addresses /\ 1 \in 1 .. 2
    BY <1>2
  <2>4. mem4[b - 8] = b - 4
    BY <2>1, <2>2, <2>3, Zenon
  <2> QED
    BY <2>2, <2>3, <2>4, Zenon
<1>11. /\ \A a \in b .. (Top - 1) : mem4[a] = stack[a]
       /\ mem4[b - 3] = tf.eax /\ mem4[b - 2] = tf.eip /\ mem4[b - 1] = tf.esp
       /\ mem4[b - 4] = SigretCode
  <2>1. \A a \in Addresses : a >= b - 3 => mem4[a] = mem1[a]
    BY <1>2, <1>8, <1>9, <1>10 DEF Addresses
  <2>2. \A a \in b .. (Top - 1) : a \in Addresses /\ a >= b - 3
    BY <1>2
  <2>3. /\ b - 3 \in Addresses /\ b - 2 \in Addresses /\ b - 1 \in Addresses /\ b - 4 \in Addresses
        /\ b - 3 >= b - 3 /\ b - 2 >= b - 3 /\ b - 1 >= b - 3 /\ b - 4 >= b - 4 /\ b - 4 >= b - 6
    BY <1>2
  <2>4. mem4[b - 4] = SigretCode
    BY <1>8, <1>9, <1>10, <2>3, Zenon
  <2> QED
    BY <1>7, <2>1, <2>2, <2>3, <2>4, Zenon
<1>12. tf' \in Registers /\ tf'.eip = Handler /\ tf'.esp = b - 8
  <2>1. b - 8 \in Nat /\ Handler \in Nat
    BY <1>2, Constants
  <2> QED
    BY <1>3, <1>6, <2>1, Zenon DEF Registers
<1>13. /\ saved'.regs = tf /\ saved'.regs.esp = b /\ Base' = b
       /\ \A a \in b .. (Top - 1) : saved'.mem[a] = stack[a]
  BY <1>3, Zenon DEF Context, Base, b
<1>14. Types'
  BY <1>3, <1>4, <1>10, <1>12, Zenon DEF Types
<1>15. ProgramInv' /\ SavedInv'
  BY <1>1, <1>3, <1>6, <1>13, Zenon DEF ProgramInv, SavedInv
<1>16. HandlerInv'
  BY <1>3, <1>10, <1>12, <1>13, Zenon DEF HandlerInv
<1>17. FrameInv'
  BY <1>3, <1>11, <1>13, Zenon DEF FrameInv, b
<1> QED
  BY <1>14, <1>15, <1>16, <1>17, Zenon DEF Inv

(* The handler writes below its frame and over its argument only.          *)
LEMMA Inv_HandlerBody ==
  ASSUME Inv, HandlerBody
  PROVE  Inv'
<1>1. handling /\ tf.eip = Handler
  BY Constants, Zenon DEF HandlerBody, InHandler, Inv, ProgramInv
<1>2. Base \in (Top - MaxDepth) .. Top /\ saved.regs \in Registers /\ saved.regs.eip = Main
  BY <1>1, Zenon DEF Inv, SavedInv
<1>3. /\ Base \in Nat /\ Base >= 10 /\ Base <= Top
      /\ \A k \in 1 .. 9 : Base - k \in Addresses
      /\ \A a \in Base .. (Top - 1) : a \in Addresses
  BY <1>2, BaseRange, Zenon
<1>4. tf.esp = Base - 8 /\ stack[Base - 8] = Base - 4
  BY <1>1, <1>3, Constants DEF Inv, HandlerInv
<1>5. PICK w \in Words, d \in {tf.esp - 1, tf.esp + 1} :
        stack' = [stack EXCEPT ![d] = w] /\ tf' = [tf EXCEPT !.eax = w]
  BY Zenon DEF HandlerBody
<1>6. d \in {Base - 9, Base - 7} /\ w \in Nat
  BY <1>3, <1>4, <1>5, Constants
<1>7. /\ stack' \in [Addresses -> Nat]
      /\ \A a \in Addresses : a # d => stack'[a] = stack[a]
  BY <1>5, <1>6, Zenon DEF Inv, Types
<1>8. /\ Base - 8 \in Addresses /\ Base - 8 # d
      /\ \A a \in Addresses : a >= Base - 4 => a # d
      /\ \A k \in 1 .. 4 : Base - k \in Addresses /\ Base - k >= Base - 4
      /\ \A a \in Base .. (Top - 1) : a >= Base - 4
  BY <1>3, <1>6 DEF Addresses
<1>9. UNCHANGED <<mode, handling, pending, saved>> /\ Base' = Base
  BY Zenon DEF HandlerBody, Base
<1>10. tf' \in Registers /\ tf'.eip = tf.eip /\ tf'.esp = tf.esp
  BY <1>5, <1>6, SetEax, Zenon DEF Inv
<1>11. Types'
  BY <1>7, <1>9, <1>10, Zenon DEF Inv, Types
<1>12. ProgramInv' /\ SavedInv'
  BY <1>1, <1>9, <1>2, Zenon DEF ProgramInv, SavedInv
<1>13. HandlerInv'
  BY <1>1, <1>4, <1>7, <1>8, <1>9, <1>10, Zenon DEF HandlerInv
<1>14. FrameInv'
  <2>1. \A a \in Addresses : a >= Base - 4 => stack'[a] = stack[a]
    BY <1>7, <1>8, Zenon
  <2>2. /\ stack'[Base - 1] = stack[Base - 1] /\ stack'[Base - 2] = stack[Base - 2]
        /\ stack'[Base - 3] = stack[Base - 3] /\ stack'[Base - 4] = stack[Base - 4]
    BY <1>8, <2>1
  <2>3. \A a \in Base .. (Top - 1) : stack'[a] = stack[a]
    BY <1>3, <1>8, <2>1, Zenon
  <2> QED
    BY <1>1, <1>9, <2>2, <2>3, Zenon DEF Inv, FrameInv
<1> QED
  BY <1>11, <1>12, <1>13, <1>14, Zenon DEF Inv

(* Its return goes to the sigret code.                                     *)
LEMMA Inv_HandlerReturn ==
  ASSUME Inv, HandlerReturn
  PROVE  Inv'
<1>1. handling /\ tf.eip = Handler
  BY Constants, Zenon DEF HandlerReturn, InHandler, Inv, ProgramInv
<1>2. Base \in (Top - MaxDepth) .. Top
  BY <1>1, Zenon DEF Inv, SavedInv
<1>3. Base \in Nat /\ Base >= 10 /\ Base <= Top
  BY <1>2, BaseRange, Zenon
<1>4. tf.esp = Base - 8 /\ stack[Base - 8] = Base - 4
  BY <1>1, <1>3, Constants DEF Inv, HandlerInv
<1>5. UNCHANGED <<mode, stack, handling, pending, saved>> /\ Base' = Base
  BY Zenon DEF HandlerReturn, Base
<1>6. tf' \in Registers /\ tf'.eip = Base - 4 /\ tf'.esp = Base - 7
  <2>1. tf' = [tf EXCEPT !.eip = Base - 4, !.esp = Base - 7]
    <3>1. tf' = [tf EXCEPT !.eip = stack[tf.esp], !.esp = tf.esp + 1]
      BY Zenon DEF HandlerReturn
    <3>2. tf.esp + 1 = Base - 7 /\ stack[tf.esp] = Base - 4
      BY <1>3, <1>4
    <3> QED
      BY <3>1, <3>2, Zenon
  <2>2. Base - 4 \in Nat /\ Base - 7 \in Nat
    BY <1>3
  <2> QED
    BY <2>1, <2>2, Zenon DEF Inv, Types, Registers
<1>7. Types'
  BY <1>5, <1>6, Zenon DEF Inv, Types
<1>8. ProgramInv' /\ SavedInv' /\ HandlerInv'
  BY <1>1, <1>5, <1>6, Zenon DEF Inv, ProgramInv, SavedInv, HandlerInv
<1>9. FrameInv'
  BY <1>1, <1>5, Zenon DEF Inv, FrameInv
<1> QED
  BY <1>7, <1>8, <1>9, Zenon DEF Inv

(* ret_signal loads the trapframe that handle_signals stored.              *)
LEMMA Inv_ret_signal ==
  ASSUME Inv, ret_signal
  PROVE  /\ Inv' /\ tf'.eip = saved.regs.eip /\ tf'.esp = saved.regs.esp
<1>1. tf.eip \in Addresses /\ mode = "user"
  BY Zenon DEF ret_signal, RetSignalWith
<1>2. handling /\ tf.eip # Handler
  BY <1>1, Constants DEF Inv, ProgramInv, Addresses
<1>3. Base \in (Top - MaxDepth) .. Top /\ saved.regs \in Registers /\ saved.regs.eip = Main
  BY <1>2, Zenon DEF Inv, SavedInv
<1>4. Base \in Nat /\ Base >= 10 /\ Base <= Top
  BY <1>3, BaseRange, Zenon
<1>5. tf.esp = Base - 7
  BY <1>2, Zenon DEF Inv, HandlerInv
<1>6. tf.esp + RetOffset + CodeSize = Base - 3
  BY <1>4, <1>5 DEF RetOffset, CodeSize
<1>7. Load(stack, Base - 3) =
        [eax |-> stack[Base - 3], eip |-> stack[Base - 2], esp |-> stack[Base - 1]]
  <2>1. (Base - 3) + 1 = Base - 2 /\ (Base - 3) + 2 = Base - 1
    BY <1>4
  <2> QED
    BY <2>1, Zenon DEF Load
<1>8. stack[Base - 2] = saved.regs.eip /\ stack[Base - 1] = saved.regs.esp
  BY <1>2, Zenon DEF Inv, FrameInv
<1>9. tf' = [eax |-> 0, eip |-> saved.regs.eip, esp |-> saved.regs.esp]
  BY <1>6, <1>7, <1>8 DEF ret_signal, RetSignalWith
<1>10. handling' = FALSE /\ mode' = "kernel" /\ UNCHANGED <<stack, pending>>
  BY Zenon DEF ret_signal, RetSignalWith
<1>11. tf' \in Registers /\ tf'.eip = saved.regs.eip /\ tf'.esp = saved.regs.esp
  BY <1>3, <1>9, Zenon DEF Registers
<1>12. Types'
  BY <1>10, <1>11, Zenon DEF Inv, Types
<1>13. ProgramInv'
  BY <1>3, <1>11, Zenon DEF ProgramInv, Base
<1> QED
  BY <1>10, <1>11, <1>12, <1>13, Zenon DEF Inv, SavedInv, HandlerInv, FrameInv

-----------------------------------------------------------------------------
(* Every step preserves the invariant, and a step that ends the handling   *)
(* of a signal restores eip and esp.                                       *)
LEMMA Step ==
  ASSUME Inv, [Next]_vars
  PROVE  /\ Inv'
         /\ handling /\ ~ handling' =>
              tf'.eip = saved.regs.eip /\ tf'.esp = saved.regs.esp
<1>1. CASE UNCHANGED vars
  <2>1. UNCHANGED <<mode, tf, stack, handling, pending, saved>>
    BY <1>1, Zenon DEF vars
  <2> QED
    BY <2>1, Inv_Registers, Zenon DEF Inv, Types
<1>2. CASE Compute \/ syscall
  <2>1. PICK w \in Words : tf' = [tf EXCEPT !.eax = w]
    BY <1>2, Zenon DEF Compute, syscall
  <2>2. tf' \in Registers /\ tf'.eip = tf.eip /\ tf'.esp = tf.esp
    BY <2>1, SetEax, Constants, Zenon DEF Inv
  <2>3. UNCHANGED <<stack, handling, pending, saved>> /\ mode' \in {"user", "kernel"}
    BY <1>2, Zenon DEF Compute, syscall, Inv, Types
  <2> QED
    BY <2>2, <2>3, Inv_Registers, Zenon DEF Inv, Types
<1>3. CASE Interrupt \/ trapret
  <2>1. UNCHANGED <<tf, stack, handling, pending, saved>> /\ mode' \in {"user", "kernel"}
    BY <1>3, Zenon DEF Interrupt, trapret
  <2> QED
    BY <2>1, Inv_Registers, Zenon DEF Inv, Types
<1>4. CASE send_multicast
  <2>1. UNCHANGED <<mode, tf, stack, handling, saved>>
    BY <1>4, Zenon DEF send_multicast
  <2>2. PICK w \in Words : pending' = Append(pending, <<w, w>>)
    BY <1>4, Zenon DEF send_multicast
  <2>3. <<w, w>> \in {m \in Seq(Nat) : Message(m)}
    BY <2>2, Constants DEF Message, MsgSize
  <2>4. pending' \in Seq({m \in Seq(Nat) : Message(m)})
    BY <2>2, <2>3 DEF Inv, Types
  <2> QED
    BY <2>1, <2>4, Inv_Registers, Zenon DEF Inv, Types
<1>5. CASE Push \/ Pop
  BY <1>5, Inv_Push, Inv_Pop DEF Push, Pop
<1>6. CASE handle_signals
  BY <1>6, Inv_handle_signals, Zenon DEF handle_signals, EnterHandler
<1>7. CASE HandlerBody \/ HandlerReturn
  BY <1>7, Inv_HandlerBody, Inv_HandlerReturn DEF HandlerBody, HandlerReturn
<1>8. CASE ret_signal
  BY <1>8, Inv_ret_signal, Zenon
<1> QED
  BY <1>1, <1>2, <1>3, <1>4, <1>5, <1>6, <1>7, <1>8, Zenon DEF Next

(* The invariant is inductive.                                             *)
LEMMA Invariance ==
  Spec => []Inv
<1>1. Init => Inv
  BY InitInv, Zenon
<1>2. Inv /\ [Next]_vars => Inv'
  BY Step, Zenon
<1> QED
  BY <1>1, <1>2, PTL DEF Spec

(* While a handler runs, and in the sigret code after it, the trapframe,   *)
(* the code of sigret and the program's stack are what handle_signals      *)
(* found and stored (proc.c 778-850).                                      *)
THEOREM FrameSafe ==
  Spec => []FrameIntact
<1>1. Inv => FrameIntact
  <2> SUFFICES ASSUME Inv, handling PROVE FrameIntact
    BY Zenon DEF FrameIntact
  <2>1. Base \in (Top - MaxDepth) .. Top /\ saved.regs \in Registers
    BY Zenon DEF Inv, SavedInv
  <2>2. Base \in Nat /\ Base >= 10
    BY <2>1, BaseRange, Zenon
  <2>3. /\ Base - TrapframeSize = Base - 3 /\ Base - TrapframeSize - CodeSize = Base - 4
        /\ (Base - 3) + 1 = Base - 2 /\ (Base - 3) + 2 = Base - 1
    BY <2>2 DEF TrapframeSize, CodeSize
  <2>4. Load(stack, Base - 3) =
          [eax |-> stack[Base - 3], eip |-> stack[Base - 2], esp |-> stack[Base - 1]]
    BY <2>3, Zenon DEF Load
  <2>5. saved.regs = [eax |-> saved.regs.eax, eip |-> saved.regs.eip, esp |-> saved.regs.esp]
    BY <2>1, Zenon DEF Registers
  <2>6. Load(stack, Base - TrapframeSize) = saved.regs
    BY <2>3, <2>4, <2>5, Zenon DEF Inv, FrameInv
  <2>7. /\ stack[Base - TrapframeSize - CodeSize] = SigretCode
        /\ \A a \in Base .. (Top - 1) : stack[a] = saved.mem[a]
    BY <2>3, Zenon DEF Inv, FrameInv
  <2> QED
    BY <2>6, <2>7, Zenon DEF FrameIntact, Base
<1> QED
  BY <1>1, Invariance, PTL

(* sig_ret resumes the program where the signal interrupted it, with the   *)
(* stack pointer it had (ret_signal, proc.c 715-726).                      *)
THEOREM RestoreSafe ==
  Spec => ContextRestored
<1>1. Inv /\ [Next]_vars =>
        [handling /\ ~ handling' =>
           tf'.eip = saved.regs.eip /\ tf'.esp = saved.regs.esp]_vars
  BY Step, Zenon
<1> QED
  BY <1>1, Invariance, PTL DEF Spec, ContextRestored
=============================================================================
