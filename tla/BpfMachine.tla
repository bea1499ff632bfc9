------------------------------ MODULE BpfMachine ------------------------------
(***************************************************************************)
(* Classic BPF programs as LightPacket/LightBPF/CompilerSet builds them:   *)
(* the instruction (Instruction.py, Opcode.py), what one instruction does  *)
(* (Emulator.py) and the passes of the optimiser (Peephole.py).            *)
(*                                                                         *)
(* A program is a sequence, counted from 1.  A 32-bit word is the signed   *)
(* integer of the same bits, which is what TLC can hold; comparisons are   *)
(* unsigned.  Products and left shifts stay below 2^31.                    *)
(***************************************************************************)
EXTENDS Integers, Sequences, FiniteSets, Bitwise

MaxInt == 2147483647
Ones   == -1             \* 0xFFFFFFFF

BPF_MAX_BUF_LEN == 262144

\* class, mode or operation, bytes loaded, source of the operand, k, jt, jf
Insn(class, mode, size, src, k, jt, jf) ==
  [ class |-> class, mode |-> mode, size |-> size, src |-> src,
    k |-> k, jt |-> jt, jf |-> jf ]

LdImm(k)           == Insn("ld", "imm", 4, "k", k, 0, 0)
LdAbs(size, k)     == Insn("ld", "abs", size, "k", k, 0, 0)
LdInd(size, k)     == Insn("ld", "ind", size, "k", k, 0, 0)
LdLen              == Insn("ld", "len", 4, "k", 0, 0, 0)
LdxImm(k)          == Insn("ldx", "imm", 4, "k", k, 0, 0)
LdxMem(k)          == Insn("ldx", "mem", 4, "k", k, 0, 0)
LdxMsh(k)          == Insn("ldx", "msh", 1, "k", k, 0, 0)
St(k)              == Insn("st", "mem", 4, "k", k, 0, 0)
Stx(k)             == Insn("stx", "mem", 4, "k", k, 0, 0)
Alu(op, src, k)    == Insn("alu", op, 4, src, k, 0, 0)
Tax                == Insn("misc", "tax", 4, "k", 0, 0, 0)
If(op, k, jt, jf)  == Insn("jmp", op, 4, "k", k, jt, jf)
IfX(op, jt, jf)    == Insn("jmp", op, 4, "x", 0, jt, jf)
Ja(k)              == Insn("jmp", "ja", 4, "k", k, 0, 0)
Ret(k)             == Insn("ret", "k", 4, "k", k, 0, 0)

IsJa(i)   == i.class = "jmp" /\ i.mode = "ja"
IsIf(i)   == i.class = "jmp" /\ i.mode # "ja"

-----------------------------------------------------------------------------
(* Words *)

Below(a, b) == IF (a < 0) = (b < 0) THEN a < b ELSE b < 0

Add(a, b) ==
  CASE a > 0 /\ b > MaxInt - a      -> (a - MaxInt - 1) + (b - MaxInt - 1)
    [] a < 0 /\ b < -MaxInt - 1 - a -> (a + MaxInt + 1) + (b + MaxInt + 1)
    [] OTHER                        -> a + b

Low(a) == IF a < 0 THEN a + MaxInt + 1 ELSE a      \* the lower 31 bits
High(top, low) == IF top THEN low - MaxInt - 1 ELSE low

WAnd(a, b) == High(a < 0 /\ b < 0, Low(a) & Low(b))
WOr(a, b)  == High(a < 0 \/ b < 0, Low(a) | Low(b))
WXor(a, b) == High((a < 0) # (b < 0), Low(a) ^^ Low(b))
Shr(a, n) == IF n = 0 THEN a ELSE (Low(a) \div 2^n) + (IF a < 0 THEN 2^(31 - n) ELSE 0)

-----------------------------------------------------------------------------
(* BpfEmulator.execute *)

Start == [A |-> 0, X |-> 0, M |-> [i \in 0..15 |-> 0], pc |-> 1, halted |-> FALSE, out |-> 0]

\* read: size bytes from offset off on, in network order.
Read(packet, off, size) ==
  LET b(i) == packet[off + i]
  IN  CASE size = 1 -> b(1)
        [] size = 2 -> 256 * b(1) + b(2)
        [] OTHER -> (IF b(1) > 127 THEN b(1) - 256 ELSE b(1)) * 16777216
                      + 65536 * b(2) + 256 * b(3) + b(4)

Halt(vm, out) == [vm EXCEPT !.halted = TRUE, !.out = out]

Load(vm, i, packet) ==
  LET from(off) == IF off + i.size > Len(packet) THEN Halt(vm, 0)
                   ELSE [vm EXCEPT !.A = Read(packet, off, i.size), !.pc = @ + 1]
  IN  CASE i.mode = "imm" -> [vm EXCEPT !.A = i.k, !.pc = @ + 1]
        [] i.mode = "len" -> [vm EXCEPT !.A = Len(packet), !.pc = @ + 1]
        [] i.mode = "abs" -> from(i.k)
        [] i.mode = "ind" -> from(vm.X + i.k)

\* MSH: four times the lower half of a byte, the length of an IPv4 header.
LoadX(vm, i, packet) ==
  CASE i.mode = "imm" -> [vm EXCEPT !.X = i.k, !.pc = @ + 1]
    [] i.mode = "mem" -> [vm EXCEPT !.X = vm.M[i.k], !.pc = @ + 1]
    [] i.mode = "msh" -> IF i.k >= Len(packet) THEN Halt(vm, 0)
                         ELSE [vm EXCEPT !.X = 4 * (packet[i.k + 1] % 16), !.pc = @ + 1]

Compute(vm, i) ==
  LET v == IF i.src = "x" THEN vm.X ELSE i.k
      to(a) == [vm EXCEPT !.A = a, !.pc = @ + 1]
  IN  CASE i.mode = "+"  -> to(Add(vm.A, v))
        [] i.mode = "-"  -> to(Add(vm.A, -v))
        [] i.mode = "*"  -> to(vm.A * v)
        [] i.mode = "/"  -> IF v = 0 THEN Halt(vm, 0) ELSE to(vm.A \div v)
        [] i.mode = "%"  -> IF v = 0 THEN Halt(vm, 0) ELSE to(vm.A % v)
        [] i.mode = "&"  -> to(WAnd(vm.A, v))
        [] i.mode = "|"  -> to(WOr(vm.A, v))
        [] i.mode = "^"  -> to(WXor(vm.A, v))
        [] i.mode = "<<" -> to(vm.A * 2^(v % 32))
        [] i.mode = ">>" -> to(Shr(vm.A, v % 32))

Holds(vm, i) ==
  LET v == IF i.src = "x" THEN vm.X ELSE i.k
  IN  CASE i.mode = "jeq"  -> vm.A = v
        [] i.mode = "jgt"  -> Below(v, vm.A)
        [] i.mode = "jge"  -> ~Below(vm.A, v)
        [] i.mode = "jset" -> WAnd(vm.A, v) # 0

\* One turn of the loop; a counter outside the program ends it with 0.
Execute(vm, code, packet) ==
  IF vm.pc \notin DOMAIN code THEN Halt(vm, 0)
  ELSE LET i == code[vm.pc]
       IN  CASE i.class = "ld"   -> Load(vm, i, packet)
             [] i.class = "ldx"  -> LoadX(vm, i, packet)
             [] i.class = "st"   -> [vm EXCEPT !.M[i.k] = vm.A, !.pc = @ + 1]
             [] i.class = "stx"  -> [vm EXCEPT !.M[i.k] = vm.X, !.pc = @ + 1]
             [] i.class = "alu"  -> Compute(vm, i)
             [] i.class = "misc" -> [vm EXCEPT !.X = vm.A, !.pc = @ + 1]
             [] i.class = "ret"  -> Halt(vm, i.k)
             [] IsJa(i)          -> [vm EXCEPT !.pc = @ + 1 + i.k]
             [] IsIf(i)          -> [vm EXCEPT !.pc = @ + 1 + IF Holds(vm, i) THEN i.jt ELSE i.jf]

RECURSIVE Finish(_, _, _)
Finish(vm, code, packet) ==
  IF vm.halted THEN vm.out ELSE Finish(Execute(vm, code, packet), code, packet)

Result(code, packet) == Finish(Start, code, packet)

-----------------------------------------------------------------------------
(* Peephole.py *)

\* Where an instruction may send the counter, as positions of the program.
Targets(code, n) ==
  LET i == code[n]
  IN  CASE IsJa(i) -> {n + 1 + i.k}
        [] IsIf(i) -> {n + 1 + i.jt, n + 1 + i.jf}
        [] OTHER   -> {}

\* next_kept, then the new position: a target that is removed stands for the next
\* instruction that stays.
NextKept(t, kept, len) ==
  IF \E j \in kept : j >= t
  THEN 1 + Cardinality({j \in kept : j < t})
  ELSE len + 1

\* _apply_removals with _remap_jumps.
ApplyRemovals(code, removed) ==
  LET kept == DOMAIN code \ removed
      old[n \in 1..Cardinality(kept)] ==
        CHOOSE j \in kept : Cardinality({i \in kept : i <= j}) = n
      moved(t, n) == NextKept(t, kept, Len(code)) - (n + 1)
      insn(n) ==
        LET i == code[old[n]]
        IN  CASE IsJa(i) -> [i EXCEPT !.k = moved(old[n] + 1 + i.k, n)]
              [] IsIf(i) -> [i EXCEPT !.jt = moved(old[n] + 1 + i.jt, n),
                                      !.jf = moved(old[n] + 1 + i.jf, n)]
              [] OTHER   -> i
  IN  [n \in 1..Cardinality(kept) |-> insn(n)]

RemoveNoopJumps(code) ==
  ApplyRemovals(code, {n \in DOMAIN code : IsJa(code[n]) /\ code[n].k = 0})

\* resolve: follow unconditional jumps.
RECURSIVE Resolve(_, _, _)
Resolve(code, t, seen) ==
  IF t \in DOMAIN code \ seen /\ IsJa(code[t])
  THEN Resolve(code, t + 1 + code[t].k, seen \cup {t})
  ELSE t

\* Variants named after a mistake are not part of the optimiser: each is what a
\* plausible bug would make of the definition that follows it.
ThreadJumpsShort(code) ==
  [ n \in DOMAIN code |->
      IF IsIf(code[n]) /\ Resolve(code, n + 1 + code[n].jt, {}) # n + 1 + code[n].jt
      THEN [code[n] EXCEPT !.jt = Resolve(code, n + 1 + code[n].jt, {}) - n]
      ELSE code[n] ]

\* All jumps lead forward, so it is the same to rewrite them at once or in turn.
ThreadJumps(code) ==
  LET far(t, n) == Resolve(code, t, {}) - (n + 1)
      insn(n) ==
        LET i == code[n]
        IN  CASE IsJa(i) -> [i EXCEPT !.k = far(n + 1 + i.k, n)]
              [] IsIf(i) -> [i EXCEPT !.jt = far(n + 1 + i.jt, n),
                                      !.jf = far(n + 1 + i.jf, n)]
              [] OTHER   -> i
  IN  [n \in DOMAIN code |-> insn(n)]

\* What the reachability walk pushes: for a conditional jump the next one too.
Successors(code, n) ==
  CASE code[n].class = "ret" -> {}
    [] IsJa(code[n])         -> Targets(code, n)
    [] OTHER                 -> Targets(code, n) \cup {n + 1}

RECURSIVE Reach(_, _)
Reach(code, S) ==
  LET more == S \cup UNION {Successors(code, n) \cap DOMAIN code : n \in S}
  IN  IF more = S THEN S ELSE Reach(code, more)

\* The walk starts from the entry and from the target of every jump, dead or not.
EliminateDeadCode(code) ==
  LET entries == {1} \cup (UNION {Targets(code, n) : n \in DOMAIN code} \cap DOMAIN code)
  IN  ApplyRemovals(code, DOMAIN code \ Reach(code, entries))
=============================================================================
