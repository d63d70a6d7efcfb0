-------------------------- MODULE Processor_proofs --------------------------
(***************************************************************************)
(* The processor of de0/*.v against driver/shadow.cc, one clock edge and   *)
(* one operation at a time, apart from what clocks them.                   *)
(*                                                                         *)
(* First the sequencer: one flip-flop is set at any time.                  *)
(* Then the data path: the fields and offsets of an instruction, the       *)
(* condition codes, the ALU of alu.v against the arithmetic of             *)
(* Shadow::clock, operation by operation.  Then what one clock edge does   *)
(* to the registers, and that it sets the flip-flop of the state           *)
(* Shadow::clock goes to.  Then the two running together: they stay        *)
(* together, and the pins are those Shadow::check expects.  Then how they  *)
(* come together: the reset, and the register loads of -randmem.  Last,    *)
(* Lockstep.tla: they agree for every program, memory, interrupt and       *)
(* initial value of the registers, and Shadow::check never fails.          *)
(***************************************************************************)
EXTENDS Lockstep, Words_proofs, TLAPS
-----------------------------------------------------------------------------
(* The flip-flops that simply follow another one. *)
LEMMA FeedsTable ==
  /\ DOMAIN Feeds = {"RESET1", "FETCH2", "STORE2", "LOAD2", "IRET2", "IRET3",
                     "IRET4", "IREQ2", "IREQ3", "IREQ4", "IREQ5"}
  /\ Feeds["RESET1"] = "RESET0" /\ Feeds["FETCH2"] = "FETCH1"
  /\ Feeds["STORE2"] = "STORE1" /\ Feeds["LOAD2"] = "LOAD1"
  /\ Feeds["IRET2"] = "IRET1" /\ Feeds["IRET3"] = "IRET2" /\ Feeds["IRET4"] = "IRET3"
  /\ Feeds["IREQ2"] = "IREQ1" /\ Feeds["IREQ3"] = "IREQ2"
  /\ Feeds["IREQ4"] = "IREQ3" /\ Feeds["IREQ5"] = "IREQ4"
  BY DEF Feeds

(* With one flip-flop set, On and AnyOf are questions about that one. *)
LEMMA Alone ==
  ASSUME NEW s \in Flops, q = {s}
  PROVE  /\ \A x : On(x) <=> x = s
         /\ \A S : AnyOf(S) <=> s \in S
  BY DEF On, AnyOf

(* A state that another follows unconditionally has one successor, because no
   flip-flop feeds two others. *)
LEMMA FedStep ==
  ASSUME NEW s \in Flops, q = {s}, NEW i, NEW intrq \in BOOLEAN, NEW pswie \in BOOLEAN,
         PosedgeClock(i, intrq, pswie),
         NEW n \in DOMAIN Feeds, Feeds[n] = s
  PROVE  q' = {n}
<1>1. s \notin LastCycle \union {"FETCH2", "LOAD2"}
  BY FeedsTable DEF LastCycle
<1>2. ~On("FETCH2") /\ ~On("LOAD2") /\ ~instend(i)
  BY <1>1, Alone DEF instend, load2s
<1>3. \A x \in DOMAIN Feeds : D(x, i, intrq, pswie) <=> x = n
  <2>1. \A x \in DOMAIN Feeds : Feeds[x] = s => x = n
    BY FeedsTable
  <2>2. \A x \in DOMAIN Feeds : On(Feeds[x]) <=> x = n
    BY <2>1, Alone
  <2>3. QED
    BY <2>2, FeedsTable DEF D
<1>4. \A x \in Flops \ DOMAIN Feeds : ~D(x, i, intrq, pswie)
  BY <1>2, FeedsTable
  DEF D, Flops, arith1d, bcc1d, lda1d, load1d, load3d, store1d, halt1d, iret1d,
      wrps1d, rdps1d, SpecialD
<1>5. n \in Flops
  BY FeedsTable DEF Flops
<1>6. QED
  BY <1>3, <1>4, <1>5 DEF PosedgeClock

(* FETCH2 goes to the state the decoder names: its outputs exclude each other
   and leave no instruction out. *)
Decoded == {"ARITH1", "BCC1", "LDA1", "LOAD1", "STORE1", "HALT1", "IRET1", "WRPS1",
            "RDPS1"}

LEMMA DecodeStep ==
  ASSUME q = {"FETCH2"}, NEW i, NEW intrq \in BOOLEAN, NEW pswie \in BOOLEAN,
         PosedgeClock(i, intrq, pswie)
  PROVE  \E s \in Decoded : q' = {s} /\ D(s, i, intrq, pswie)
<1>1. "FETCH2" \in Flops
  BY DEF Flops
<1>2. On("FETCH2") /\ ~On("LOAD2") /\ ~instend(i)
  BY <1>1, Alone DEF instend, load2s, LastCycle
<1>3. \A x \in DOMAIN Feeds : ~On(Feeds[x])
  BY <1>1, Alone, FeedsTable
<1>4. \A x \in Flops \ Decoded : ~D(x, i, intrq, pswie)
  BY <1>2, <1>3, FeedsTable DEF D, Flops, Decoded, load3d
<1>5. Decoded \subseteq Flops /\ Decoded \intersect DOMAIN Feeds = {}
  BY FeedsTable DEF Flops, Decoded
<1>6. \E s \in Decoded : \A x \in Decoded : D(x, i, intrq, pswie) <=> x = s
  BY <1>2, <1>5
  DEF D, Decoded, arith1d, bcc1d, lda1d, load1d, store1d, halt1d, iret1d, wrps1d, rdps1d,
      SpecialD, topthreezero, specialinstr
<1>7. QED
  BY <1>4, <1>5, <1>6 DEF PosedgeClock

(* At the end of an instruction the interrupt test picks IREQ1 or FETCH1; after
   LOAD2 an immediate operand picks LOAD3 instead. *)
LEMMA EndStep ==
  ASSUME NEW s \in LastCycle \union {"LOAD2"}, q = {s}, NEW i,
         NEW intrq \in BOOLEAN, NEW pswie \in BOOLEAN,
         PosedgeClock(i, intrq, pswie)
  PROVE  q' = {IF load3d(i) THEN "LOAD3"
               ELSE IF irqpend(intrq, pswie) THEN "IREQ1" ELSE "FETCH1"}
<1>1. s \in Flops /\ s # "FETCH2"
  BY DEF Flops, LastCycle
<1>2. ~On("FETCH2") /\ (On("LOAD2") <=> s = "LOAD2")
  BY <1>1, Alone
<1>3. \A x \in DOMAIN Feeds : ~On(Feeds[x])
  BY <1>1, Alone, FeedsTable DEF LastCycle
<1>4. instend(i) <=> ~load3d(i)
  BY <1>1, <1>2, Alone DEF instend, load2s, load3d, LastCycle
<1>5. \A x \in Flops \ {"IREQ1", "FETCH1", "LOAD3"} : ~D(x, i, intrq, pswie)
  BY <1>2, <1>3, FeedsTable
  DEF D, Flops, arith1d, bcc1d, lda1d, load1d, store1d, halt1d, iret1d, wrps1d,
      rdps1d, SpecialD
<1>6. /\ D("IREQ1", i, intrq, pswie) <=> irqpend(intrq, pswie) /\ ~load3d(i)
      /\ D("FETCH1", i, intrq, pswie) <=> ~irqpend(intrq, pswie) /\ ~load3d(i)
      /\ D("LOAD3", i, intrq, pswie) <=> load3d(i)
  BY <1>4, FeedsTable DEF D
<1>7. {"IREQ1", "FETCH1", "LOAD3"} \subseteq Flops
  BY DEF Flops
<1>8. QED
  BY <1>5, <1>6, <1>7 DEF PosedgeClock

(* Every step of the sequencer, a reset included, keeps it in one state. *)
LEMMA SeqNextOneHot == OneHot /\ [SeqNext]_q => OneHot'
<1> SUFFICES ASSUME OneHot, [SeqNext]_q PROVE OneHot'
  OBVIOUS
<1>1. PICK s \in Flops : q = {s}
  BY DEF OneHot
<1>2. ASSUME NEW i \in IrBus, NEW intrq \in BOOLEAN, NEW pswie \in BOOLEAN,
             PosedgeClock(i, intrq, pswie)
      PROVE  OneHot'
  <2>1. CASE s \in LastCycle \union {"LOAD2"}
    BY <1>1, <1>2, <2>1, EndStep DEF OneHot, Flops
  <2>2. CASE s = "FETCH2"
    <3>1. PICK n \in Decoded : q' = {n}
      BY <1>1, <1>2, <2>2, DecodeStep
    <3>2. n \in Flops
      BY DEF Decoded, Flops
    <3>3. QED
      BY <3>1, <3>2 DEF OneHot
  <2>3. CASE s \notin LastCycle \union {"LOAD2", "FETCH2"}
    <3>1. PICK n \in DOMAIN Feeds : Feeds[n] = s
      BY <2>3, FeedsTable DEF Flops, LastCycle
    <3>2. q' = {n} /\ n \in Flops
      BY <1>1, <1>2, <3>1, FedStep, FeedsTable DEF Flops
    <3>3. QED
      BY <3>2 DEF OneHot
  <2>4. QED
    BY <2>1, <2>2, <2>3
<1>3. CASE PosedgeReset
  BY <1>3 DEF PosedgeReset, OneHot, Flops
<1>4. CASE UNCHANGED q
  BY <1>4 DEF OneHot
<1>5. QED
  BY <1>2, <1>3, <1>4 DEF SeqNext

(* The sequencer of de0/seq.v never has two states set or none, for every
   instruction word and every moment of an interrupt or a reset
   (de0/seq.v:103-125, 194-217). *)
THEOREM OneHotAlways == SeqSpec => []OneHot
<1>1. SeqInit => OneHot
  BY DEF SeqInit, OneHot, Flops
<1>2. QED
  BY <1>1, SeqNextOneHot, PTL DEF SeqSpec

-----------------------------------------------------------------------------
(* Which state raises which control line. *)
LEMMA Lines ==
  ASSUME NEW s \in Flops, q = {s}
  PROVE  /\ Ctl("ALU_ADD") <=> s \in {"FETCH1", "FETCH2", "BCC1", "STORE1", "LDA1",
                                      "LOAD1", "IREQ4", "LOAD3"}
         /\ Ctl("ALU_IRFC") <=> s = "ARITH1"
         /\ Ctl("BMUX_CON_0") <=> s \in {"RESET1", "FETCH1", "IREQ4"}
         /\ Ctl("BMUX_CON_2") <=> s \in {"FETCH2", "IREQ1", "IREQ5", "IRET3", "LOAD3"}
         /\ Ctl("BMUX_CON__4") <=> s \in {"IRET1", "IRET3", "IREQ1", "IREQ3"}
         /\ Ctl("BMUX_IRBROF") <=> s = "BCC1"
         /\ Ctl("BMUX_IRLSOF") <=> s \in {"STORE1", "LDA1", "LOAD1"}
         /\ Ctl("GPRS_REA7") <=> s \in {"FETCH1", "FETCH2", "BCC1", "IREQ4", "LOAD3"}
         /\ Ctl("GPRS_REA") <=> s \in {"ARITH1", "STORE1", "LDA1", "LOAD1"}
         /\ Ctl("GPRS_REB") <=> s \in {"ARITH1", "WRPS1", "HALT1"}
         /\ Ctl("GPRS_RED2B") <=> s = "STORE2"
         /\ Ctl("HALT") <=> s = "HALT1"
         /\ Ctl("IR_WE") <=> s = "FETCH2"
         /\ Ctl("MEM_READ") <=> s \in {"FETCH1", "IRET1", "IRET3", "LOAD1"}
         /\ Ctl("MEM_REB") <=> s \in {"LOAD2", "IRET2", "IRET4"}
         /\ Ctl("MEM_WRITE") <=> s \in {"IREQ1", "IREQ3", "STORE1"}
         /\ Ctl("PSW_ALUWE") <=> s = "ARITH1"
         /\ Ctl("PSW_IECLR") <=> s \in {"RESET1", "IREQ4"}
         /\ Ctl("PSW_REB") <=> s \in {"IREQ2", "RDPS1"}
         /\ Ctl("PSW_WE") <=> s \in {"RESET1", "IRET4", "WRPS1"}
         /\ ALU_BONLY <=> s \notin {"FETCH1", "FETCH2", "BCC1", "STORE1", "LDA1", "LOAD1",
                                    "IREQ4", "LOAD3", "ARITH1"}
  BY Alone DEF Ctl, Microcode, ALU_BONLY

(* The two models read the same fields of the instruction. *)
LEMMA Fields ==
  ASSUME NEW i \in Word
  PROVE  /\ RegAt(i, 12) = RegA(i) /\ RegAt(i, 6) = RegB(i) /\ RegAt(i, 9) = RegD(i)
         /\ RegA(i) \in 0 .. 7 /\ RegB(i) \in 0 .. 7 /\ RegD(i) \in 0 .. 7
<1>1. \A k \in 0 .. 15 : Bit(i, k) \in {0, 1}
  BY BitType, WordIs
<1>2. /\ RegAt(i, 12) = 4 * Bit(i, 12) + 2 * Bit(i, 11) + Bit(i, 10)
      /\ RegAt(i, 6) = 4 * Bit(i, 6) + 2 * Bit(i, 5) + Bit(i, 4)
      /\ RegAt(i, 9) = 4 * Bit(i, 9) + 2 * Bit(i, 8) + Bit(i, 7)
  BY DEF RegAt
<1>3. /\ RegA(i) = Bit(i, 10) + 2 * Bit(i, 11) + 4 * Bit(i, 12)
      /\ RegB(i) = Bit(i, 4) + 2 * Bit(i, 5) + 4 * Bit(i, 6)
      /\ RegD(i) = Bit(i, 7) + 2 * Bit(i, 8) + 4 * Bit(i, 9)
  BY DEF RegA, RegB, RegD, Field3
<1>4. QED
  BY <1>1, <1>2, <1>3

(* ... and the same offsets. *)
LEMMA Offsets ==
  ASSUME NEW i \in Word
  PROVE  /\ irbrof(i) = BrOffset(i) /\ BrOffset(i) \in Word
         /\ irlsof(i) = LsOffset(i) /\ LsOffset(i) \in Word
<1>1. i \in Nat /\ i < 65536
  BY WordIs
<1>2. Bit(i, 0) = i % 2
  BY <1>1, Weights DEF Bit
<1>3. (i - (i % 2)) % 1024 = (i % 1024) - (i % 2)
  BY <1>1
<1>4. (i % 1024) - (i % 2) >= 512 <=> i % 1024 >= 512
  BY <1>1
<1>5. /\ i % 1024 \in Int /\ 0 <= (i % 1024) - (i % 2) /\ i % 1024 < 1024
      /\ i % 128 \in Int /\ 0 <= i % 128 /\ i % 128 < 128
      /\ i % 2 \in Int /\ 0 <= i % 2
  BY <1>1
<1>6. Bit(i, 9) \in {0, 1} /\ Bit(i, 6) \in {0, 1}
  BY <1>1, BitType
<1>7. BrOffset(i) = IF i % 1024 >= 512 THEN (i % 1024) - (i % 2) + 64512
                    ELSE (i % 1024) - (i % 2)
  BY <1>2, <1>3, <1>4 DEF BrOffset, SextAt, WordSize
<1>8. LsOffset(i) = IF i % 128 >= 64 THEN (i % 128) + 65408 ELSE i % 128
  BY DEF LsOffset, SextAt, WordSize
<1>9. irbrof(i) = BrOffset(i)
  BY <1>1, <1>2, <1>5, <1>6, <1>7, SignOfLow DEF irbrof
<1>10. irlsof(i) = LsOffset(i)
  BY <1>1, <1>5, <1>6, <1>8, SignOfLow DEF irlsof
<1>11. BrOffset(i) \in Word /\ LsOffset(i) \in Word
  BY <1>5, <1>7, <1>8, WordIs
<1>12. QED
  BY <1>9, <1>10, <1>11

(* The status word is made of the flags, and has them in its low bits. *)
LEMMA PswBits ==
  ASSUME NEW ie \in BOOLEAN, NEW f \in Flags
  PROVE  /\ PswOf(ie, f) \in Word
         /\ IsSet(PswOf(ie, f), 15) <=> ie
         /\ IsSet(PswOf(ie, f), 3) <=> f.n
         /\ IsSet(PswOf(ie, f), 2) <=> f.z
         /\ IsSet(PswOf(ie, f), 1) <=> f.v
         /\ IsSet(PswOf(ie, f), 0) <=> f.c
<1> DEFINE e == Num(ie)
           n == Num(f.n)
           z == Num(f.z)
           v == Num(f.v)
           c == Num(f.c)
           w == PswOf(ie, f)
<1>1. /\ e \in {0, 1} /\ n \in {0, 1} /\ z \in {0, 1} /\ v \in {0, 1} /\ c \in {0, 1}
      /\ (e = 1 <=> ie) /\ (n = 1 <=> f.n) /\ (z = 1 <=> f.z) /\ (v = 1 <=> f.v)
      /\ (c = 1 <=> f.c)
  BY DEF Num, Flags
<1>2. w = 32768 * e + 32752 + 8 * n + 4 * z + 2 * v + c
  BY DEF PswOf
<1> HIDE DEF e, n, z, v, c, w
<1>3. w \in Int /\ 0 <= w /\ w < 65536
  BY <1>1, <1>2
<1>4. /\ (w \div 32768) % 2 = e /\ (w \div 8) % 2 = n /\ (w \div 4) % 2 = z
      /\ (w \div 2) % 2 = v /\ (w \div 1) % 2 = c
  BY <1>1, <1>2, <1>3
<1>5. /\ Bit(w, 15) = e /\ Bit(w, 3) = n /\ Bit(w, 2) = z /\ Bit(w, 1) = v /\ Bit(w, 0) = c
  BY <1>4, Weights DEF Bit
<1>6. QED
  BY <1>1, <1>3, <1>5, WordIs DEF w, IsSet

(* Loading a word into the status word sets the flags from its low bits. *)
FlagsIn(w) == [n |-> IsSet(w, 3), z |-> IsSet(w, 2), v |-> IsSet(w, 1), c |-> IsSet(w, 0)]

LEMMA LoadedPsw ==
  ASSUME NEW w \in Word
  PROVE  FlagsIn(w) \in Flags /\ LoadPsw(w) = PswOf(IsSet(w, 15), FlagsIn(w))
<1>1. \A k \in {0, 1, 2, 3, 15} : Bit(w, k) \in {0, 1} /\ Num(IsSet(w, k)) = Bit(w, k)
  BY BitType, WordIs DEF Num, IsSet
<1>2. w % 16 = Bit(w, 0) + 2 * Bit(w, 1) + 4 * Bit(w, 2) + 8 * Bit(w, 3)
  BY LowFour, WordIs
<1>3. PswOf(IsSet(w, 15), FlagsIn(w)) =
        32768 * Bit(w, 15) + 32752 + 8 * Bit(w, 3) + 4 * Bit(w, 2) + 2 * Bit(w, 1) + Bit(w, 0)
  BY <1>1 DEF PswOf, FlagsIn
<1>4. FlagsIn(w) \in Flags
  BY DEF Flags, FlagsIn, IsSet
<1>5. QED
  BY <1>1, <1>2, <1>3, <1>4 DEF LoadPsw

(* A branch is taken in the one exactly if it is in the other. *)
LEMMA SameBranch ==
  ASSUME NEW i \in Word, NEW p \in Word,
         IsSet(p, 3) <=> nzvc.n, IsSet(p, 2) <=> nzvc.z,
         IsSet(p, 1) <=> nzvc.v, IsSet(p, 0) <=> nzvc.c,
         nzvc \in Flags
  PROVE  BranchTrue(i, p) <=> pswbt(i)
<1>1. Bit(i, 10) \in {0, 1} /\ Bit(i, 11) \in {0, 1} /\ Bit(i, 12) \in {0, 1}
  BY BitType, WordIs
<1>2. Field3(i, 10) = Bit(i, 10) + 2 * Bit(i, 11) + 4 * Bit(i, 12)
  BY DEF Field3
<1>3. /\ nzvc.n \in BOOLEAN /\ nzvc.z \in BOOLEAN /\ nzvc.v \in BOOLEAN /\ nzvc.c \in BOOLEAN
      /\ IsSet(p, 3) \in BOOLEAN /\ IsSet(p, 2) \in BOOLEAN /\ IsSet(p, 1) \in BOOLEAN
      /\ IsSet(p, 0) \in BOOLEAN /\ IsSet(i, 0) \in BOOLEAN
  BY DEF Flags, IsSet
<1>4. /\ IsSet(i, 10) <=> Bit(i, 10) = 1
      /\ IsSet(i, 11) <=> Bit(i, 11) = 1
      /\ IsSet(i, 12) <=> Bit(i, 12) = 1
  BY DEF IsSet
<1>5. CASE Bit(i, 12) = 0 /\ Bit(i, 11) = 0 /\ Bit(i, 10) = 0
  <2>1. Field3(i, 10) = 0
    BY <1>2, <1>5
  <2>2. BranchBase(i, p) \in BOOLEAN /\ (BranchBase(i, p) <=> FALSE)
    BY <1>3, <2>1 DEF BranchBase, IsSet
  <2>3. btbase(i) \in BOOLEAN /\ (btbase(i) <=> FALSE)
    BY <1>3, <1>4, <1>5 DEF btbase, IsSet
  <2>4. QED
    BY <1>3, <2>2, <2>3 DEF BranchTrue, pswbt
<1>6. CASE Bit(i, 12) = 0 /\ Bit(i, 11) = 0 /\ Bit(i, 10) = 1
  <2>1. Field3(i, 10) = 1
    BY <1>2, <1>6
  <2>2. BranchBase(i, p) \in BOOLEAN /\ (BranchBase(i, p) <=> nzvc.z)
    BY <1>3, <2>1 DEF BranchBase, IsSet
  <2>3. btbase(i) \in BOOLEAN /\ (btbase(i) <=> nzvc.z)
    BY <1>3, <1>4, <1>6 DEF btbase, IsSet
  <2>4. QED
    BY <1>3, <2>2, <2>3 DEF BranchTrue, pswbt
<1>7. CASE Bit(i, 12) = 0 /\ Bit(i, 11) = 1 /\ Bit(i, 10) = 0
  <2>1. Field3(i, 10) = 2
    BY <1>2, <1>7
  <2>2. BranchBase(i, p) \in BOOLEAN /\ (BranchBase(i, p) <=> (nzvc.n # nzvc.v))
    BY <1>3, <2>1 DEF BranchBase, IsSet
  <2>3. btbase(i) \in BOOLEAN /\ (btbase(i) <=> (nzvc.n # nzvc.v))
    BY <1>3, <1>4, <1>7 DEF btbase, IsSet
  <2>4. QED
    BY <1>3, <2>2, <2>3 DEF BranchTrue, pswbt
<1>8. CASE Bit(i, 12) = 0 /\ Bit(i, 11) = 1 /\ Bit(i, 10) = 1
  <2>1. Field3(i, 10) = 3
    BY <1>2, <1>8
  <2>2. BranchBase(i, p) \in BOOLEAN /\ (BranchBase(i, p) <=> ((nzvc.n # nzvc.v) \/ nzvc.z))
    BY <1>3, <2>1 DEF BranchBase, IsSet
  <2>3. btbase(i) \in BOOLEAN /\ (btbase(i) <=> ((nzvc.n # nzvc.v) \/ nzvc.z))
    BY <1>3, <1>4, <1>8 DEF btbase, IsSet
  <2>4. QED
    BY <1>3, <2>2, <2>3 DEF BranchTrue, pswbt
<1>9. CASE Bit(i, 12) = 1 /\ Bit(i, 11) = 0 /\ Bit(i, 10) = 0
  <2>1. Field3(i, 10) = 4
    BY <1>2, <1>9
  <2>2. BranchBase(i, p) \in BOOLEAN /\ (BranchBase(i, p) <=> nzvc.c)
    BY <1>3, <2>1 DEF BranchBase, IsSet
  <2>3. btbase(i) \in BOOLEAN /\ (btbase(i) <=> nzvc.c)
    BY <1>3, <1>4, <1>9 DEF btbase, IsSet
  <2>4. QED
    BY <1>3, <2>2, <2>3 DEF BranchTrue, pswbt
<1>10. CASE Bit(i, 12) = 1 /\ Bit(i, 11) = 0 /\ Bit(i, 10) = 1
  <2>1. Field3(i, 10) = 5
    BY <1>2, <1>10
  <2>2. BranchBase(i, p) \in BOOLEAN /\ (BranchBase(i, p) <=> (nzvc.c \/ nzvc.z))
    BY <1>3, <2>1 DEF BranchBase, IsSet
  <2>3. btbase(i) \in BOOLEAN /\ (btbase(i) <=> (nzvc.c \/ nzvc.z))
    BY <1>3, <1>4, <1>10 DEF btbase, IsSet
  <2>4. QED
    BY <1>3, <2>2, <2>3 DEF BranchTrue, pswbt
<1>11. CASE Bit(i, 12) = 1 /\ Bit(i, 11) = 1 /\ Bit(i, 10) = 0
  <2>1. Field3(i, 10) = 6
    BY <1>2, <1>11
  <2>2. BranchBase(i, p) \in BOOLEAN /\ (BranchBase(i, p) <=> nzvc.n)
    BY <1>3, <2>1 DEF BranchBase, IsSet
  <2>3. btbase(i) \in BOOLEAN /\ (btbase(i) <=> nzvc.n)
    BY <1>3, <1>4, <1>11 DEF btbase, IsSet
  <2>4. QED
    BY <1>3, <2>2, <2>3 DEF BranchTrue, pswbt
<1>12. CASE Bit(i, 12) = 1 /\ Bit(i, 11) = 1 /\ Bit(i, 10) = 1
  <2>1. Field3(i, 10) = 7
    BY <1>2, <1>12
  <2>2. BranchBase(i, p) \in BOOLEAN /\ (BranchBase(i, p) <=> nzvc.v)
    BY <1>3, <2>1 DEF BranchBase, IsSet
  <2>3. btbase(i) \in BOOLEAN /\ (btbase(i) <=> nzvc.v)
    BY <1>3, <1>4, <1>12 DEF btbase, IsSet
  <2>4. QED
    BY <1>3, <2>2, <2>3 DEF BranchTrue, pswbt
<1>13. QED
  BY <1>1, <1>5, <1>6, <1>7, <1>8, <1>9, <1>10, <1>11, <1>12

(* The word of a load. *)
LEMMA Loaded ==
  ASSUME NEW i \in Word, NEW m \in Word
  PROVE  /\ LoadedWord(i, m) \in Word
         /\ LET high == IF ~IsSet(i, 13) THEN m \div 256
                        ELSE IF IsSet(i, 14) THEN 255 * Bit(m, 7) ELSE 0
            IN  (m % 256) + 256 * high = LoadedWord(i, m)
         /\ (m % 256) + 256 * (m \div 256) = m
<1>1. m \in Int /\ 0 <= m /\ m < 65536
  BY WordIs
<1>2. /\ m % 256 \in Int /\ 0 <= m % 256 /\ m % 256 < 256
      /\ (m % 256) + 256 * (m \div 256) = m
  BY <1>1
<1>3. Bit(m, 7) \in {0, 1} /\ (m % 256 >= 128 <=> Bit(m, 7) = 1)
  BY <1>1, BitType, SignOfLow
<1>4. SextAt(m, 128) = IF m % 256 >= 128 THEN (m % 256) + 65280 ELSE m % 256
  BY DEF SextAt, WordSize
<1>5. CASE ~IsSet(i, 13)
  BY <1>2, <1>5 DEF LoadedWord, ByteAccess
<1>6. CASE IsSet(i, 13) /\ IsSet(i, 14)
  <2>1. LoadedWord(i, m) = SextAt(m, 128)
    BY <1>6 DEF LoadedWord, ByteAccess
  <2>2. SextAt(m, 128) = (m % 256) + 256 * (255 * Bit(m, 7))
    BY <1>2, <1>3, <1>4
  <2>3. SextAt(m, 128) \in Word
    BY <1>2, <1>4, WordIs
  <2>4. QED
    BY <1>2, <1>6, <2>1, <2>2, <2>3
<1>7. CASE IsSet(i, 13) /\ ~IsSet(i, 14)
  BY <1>2, <1>7, WordIs DEF LoadedWord, ByteAccess
<1>8. QED
  BY <1>5, <1>6, <1>7

(* The constant of IREQ1 and IRET3, made of the other two. *)
LEMMA Evens == OrW(2, 65532) = 65534
<1> DEFINE b(k) == Num(IsSet(2, k) \/ IsSet(65532, k))
<1>1. /\ b(0) = 0 /\ b(1) = 1 /\ b(2) = 1 /\ b(3) = 1 /\ b(4) = 1 /\ b(5) = 1
      /\ b(6) = 1 /\ b(7) = 1 /\ b(8) = 1 /\ b(9) = 1 /\ b(10) = 1 /\ b(11) = 1
      /\ b(12) = 1 /\ b(13) = 1 /\ b(14) = 1 /\ b(15) = 1
  BY Weights DEF IsSet, Bit, Num
<1>2. OrW(2, 65532) = FromBits([k \in 0 .. 15 |-> b(k)])
  BY DEF OrW
<1> HIDE DEF b
<1>3. QED
  BY <1>1, <1>2 DEF FromBits

(* The words on the A and B buses of the FPGA, by state. *)
LEMMA BusA ==
  ASSUME NEW s \in Flops, q = {s}, rq \in [0 .. 7 -> Word], NEW i \in Word
  PROVE  /\ s \in {"ARITH1", "STORE1", "LDA1", "LOAD1"} => QA(i) = rq[RegA(i)]
         /\ s \in {"FETCH1", "FETCH2", "BCC1", "IREQ4", "LOAD3"} => QA(i) = rq[7]
         /\ s \notin {"ARITH1", "STORE1", "LDA1", "LOAD1", "FETCH1", "FETCH2", "BCC1",
                      "IREQ4", "LOAD3"} => QA(i) = 0
         /\ QA(i) \in Word
<1>1. rq[RegA(i)] \in Word /\ rq[7] \in Word /\ 0 \in Word
  BY Fields, WordIs
<1>2. QA(i) = OrW(Gate(Ctl("GPRS_REA"), rq[RegA(i)]), Gate(Ctl("GPRS_REA7"), rq[7]))
  BY Fields DEF QA
<1>3. CASE s \in {"ARITH1", "STORE1", "LDA1", "LOAD1"}
  <2>1. Gate(Ctl("GPRS_REA"), rq[RegA(i)]) = rq[RegA(i)] /\ Gate(Ctl("GPRS_REA7"), rq[7]) = 0
    BY <1>3, Lines DEF Gate
  <2>2. QED
    BY <1>1, <1>2, <1>3, <2>1, OrZero
<1>4. CASE s \in {"FETCH1", "FETCH2", "BCC1", "IREQ4", "LOAD3"}
  <2>1. Gate(Ctl("GPRS_REA"), rq[RegA(i)]) = 0 /\ Gate(Ctl("GPRS_REA7"), rq[7]) = rq[7]
    BY <1>4, Lines DEF Gate
  <2>2. QED
    BY <1>1, <1>2, <1>4, <2>1, OrZero
<1>5. CASE s \notin {"ARITH1", "STORE1", "LDA1", "LOAD1", "FETCH1", "FETCH2", "BCC1",
                     "IREQ4", "LOAD3"}
  <2>1. Gate(Ctl("GPRS_REA"), rq[RegA(i)]) = 0 /\ Gate(Ctl("GPRS_REA7"), rq[7]) = 0
    BY <1>5, Lines DEF Gate
  <2>2. QED
    BY <1>1, <1>2, <1>5, <2>1, OrZero
<1>6. QED
  BY <1>3, <1>4, <1>5

LEMMA BusB ==
  ASSUME NEW s \in Flops, q = {s}, De0TypeOK, NEW i \in Word, NEW m \in Word
  PROVE  /\ s \in {"RESET0", "RESET1", "FETCH1", "IREQ4"} => alub(i, m) = 0
         /\ s \in {"FETCH2", "LOAD3", "IREQ5"} => alub(i, m) = 2
         /\ s \in {"IREQ1", "IRET3"} => alub(i, m) = 65534
         /\ s \in {"IREQ3", "IRET1"} => alub(i, m) = 65532
         /\ s = "BCC1" => alub(i, m) = BrOffset(i)
         /\ s \in {"STORE1", "LDA1", "LOAD1"} => alub(i, m) = LsOffset(i)
         /\ s \in {"ARITH1", "HALT1", "WRPS1"} => alub(i, m) = rq[RegB(i)]
         /\ s = "STORE2" => alub(i, m) = rq[RegD(i)]
         /\ s = "LOAD2" => alub(i, m) = LoadedWord(i, m)
         /\ s \in {"IRET2", "IRET4"} => alub(i, m) = m
         /\ s \in {"IREQ2", "RDPS1"} => alub(i, m) = PswOf(ieff, nzvc)
         /\ alub(i, m) \in Word
<1> DEFINE c2 == Gate(Ctl("BMUX_CON_2"), 2)
           c4 == Gate(Ctl("BMUX_CON__4"), 65532)
           br == Gate(Ctl("BMUX_IRBROF"), irbrof(i))
           ls == Gate(Ctl("BMUX_IRLSOF"), irlsof(i))
           rb == Gate(Ctl("GPRS_REB"), rq[RegAt(i, 6)])
           rd == Gate(Ctl("GPRS_RED2B"), rq[RegAt(i, 9)])
           mr == memrdq(i, m)
           ps == pswq
<1>1. alub(i, m) = OrW(OrW(OrW(OrW(c2, c4), OrW(br, ls)), OrW(rb, rd)), OrW(mr, ps))
  BY DEF alub, bmuxq, QB
<1>2. /\ c2 = IF s \in {"FETCH2", "IREQ1", "IREQ5", "IRET3", "LOAD3"} THEN 2 ELSE 0
      /\ c4 = IF s \in {"IRET1", "IRET3", "IREQ1", "IREQ3"} THEN 65532 ELSE 0
      /\ br = IF s = "BCC1" THEN BrOffset(i) ELSE 0
      /\ ls = IF s \in {"STORE1", "LDA1", "LOAD1"} THEN LsOffset(i) ELSE 0
      /\ rb = IF s \in {"ARITH1", "WRPS1", "HALT1"} THEN rq[RegB(i)] ELSE 0
      /\ rd = IF s = "STORE2" THEN rq[RegD(i)] ELSE 0
  BY Lines, Offsets, Fields DEF Gate
<1>3. ps = IF s \in {"IREQ2", "RDPS1"} THEN PswOf(ieff, nzvc) ELSE 0
  BY Lines DEF pswq, Gate, PswOf
<1>4. mr = IF s = "LOAD2" THEN LoadedWord(i, m)
           ELSE IF s \in {"IRET2", "IRET4"} THEN m ELSE 0
  <2>1. s \notin {"LOAD2", "IRET2", "IRET4"} => mr = 0
    BY Lines DEF memrdq, Gate
  <2>2. s \in {"IRET2", "IRET4"} => mr = m
    <3>1. s \in {"IRET2", "IRET4"} => MEM_WORD(i)
      BY Alone DEF MEM_WORD
    <3>2. QED
      BY <3>1, Lines, Loaded DEF memrdq, Gate
  <2>3. s = "LOAD2" => mr = LoadedWord(i, m)
    <3>1. s = "LOAD2" => (MEM_WORD(i) <=> ~IsSet(i, 13))
      BY Alone DEF MEM_WORD
    <3>2. QED
      BY <3>1, Lines, Loaded DEF memrdq, Gate
  <2>4. QED
    BY <2>1, <2>2, <2>3
<1>5. /\ BrOffset(i) \in Word /\ LsOffset(i) \in Word /\ LoadedWord(i, m) \in Word
      /\ rq[RegB(i)] \in Word /\ rq[RegD(i)] \in Word /\ PswOf(ieff, nzvc) \in Word
      /\ 0 \in Word /\ 2 \in Word /\ 65532 \in Word /\ 65534 \in Word
  BY Offsets, Loaded, Fields, PswBits, WordIs DEF De0TypeOK
<1> HIDE DEF c2, c4, br, ls, rb, rd, mr, ps
<1>6. OrW(0, 0) = 0
  BY <1>5, OrZero
<1>7. CASE s \in {"RESET0", "RESET1", "FETCH1", "IREQ4"}
  BY <1>1, <1>2, <1>3, <1>4, <1>5, <1>6, <1>7
<1>8. CASE s \in {"FETCH2", "LOAD3", "IREQ5"}
  BY <1>1, <1>2, <1>3, <1>4, <1>5, <1>6, <1>8, OrZero
<1>9. CASE s \in {"IREQ1", "IRET3"}
  BY <1>1, <1>2, <1>3, <1>4, <1>5, <1>6, <1>9, OrZero, Evens
<1>10. CASE s \in {"IREQ3", "IRET1"}
  BY <1>1, <1>2, <1>3, <1>4, <1>5, <1>6, <1>10, OrZero
<1>11. CASE s = "BCC1"
  BY <1>1, <1>2, <1>3, <1>4, <1>5, <1>6, <1>11, OrZero
<1>12. CASE s \in {"STORE1", "LDA1", "LOAD1"}
  BY <1>1, <1>2, <1>3, <1>4, <1>5, <1>6, <1>12, OrZero
<1>13. CASE s \in {"ARITH1", "HALT1", "WRPS1"}
  BY <1>1, <1>2, <1>3, <1>4, <1>5, <1>6, <1>13, OrZero
<1>14. CASE s = "STORE2"
  BY <1>1, <1>2, <1>3, <1>4, <1>5, <1>6, <1>14, OrZero
<1>15. CASE s = "LOAD2"
  BY <1>1, <1>2, <1>3, <1>4, <1>5, <1>6, <1>15, OrZero
<1>16. CASE s \in {"IRET2", "IRET4"}
  BY <1>1, <1>2, <1>3, <1>4, <1>5, <1>6, <1>16, OrZero
<1>17. CASE s \in {"IREQ2", "RDPS1"}
  BY <1>1, <1>2, <1>3, <1>4, <1>5, <1>6, <1>17, OrZero
<1>18. QED
  BY <1>7, <1>8, <1>9, <1>10, <1>11, <1>12, <1>13, <1>14, <1>15, <1>16, <1>17 DEF Flops

(* The ALU of the FPGA in the states that add, and in those that pass the B
   bus through. *)
LEMMA AluAdds ==
  ASSUME NEW a \in Word, NEW b \in Word, NEW cin \in BOOLEAN, NEW i \in Word
  PROVE  AluV(a, b, cin, TRUE, FALSE, FALSE, i).d = AddW(a, b)
<1> DEFINE lo == SumLow(a, b, 0)
           hi == SumHigh(a, b, 0)
           sum == 32768 * (hi % 2) + (lo % 32768)
<1>1. AluV(a, b, cin, TRUE, FALSE, FALSE, i).d
        = OrW(OrW(sum, 0), OrW(OrW(0, 0), 0))
  BY DEF AluV, Gate, Num, Eor, SumLow, SumHigh
<1>2. a \in Int /\ b \in Int /\ 0 \in Word
  BY WordIs
<1>3. sum = (a + b + 0) % 65536
  BY Adder
<1> HIDE DEF sum
<1>4. sum = AddW(a, b) /\ AddW(a, b) \in Word
  BY <1>2, <1>3, AddWIs
<1>5. QED
  BY <1>1, <1>2, <1>4, OrZero

LEMMA AluPasses ==
  ASSUME NEW a \in Word, NEW b \in Word, NEW cin \in BOOLEAN, NEW i \in Word
  PROVE  AluV(a, b, cin, FALSE, TRUE, FALSE, i).d = OrW(b, 0)
<1>1. AluV(a, b, cin, FALSE, TRUE, FALSE, i).d = OrW(OrW(0, 0), OrW(OrW(0, OrW(0, b)), 0))
  BY DEF AluV, Gate
<1>2. 0 \in Word
  BY WordIs
<1>3. QED
  BY <1>1, <1>2, OrZero

(* The four low bits of an arithmetic instruction, which are its function. *)
LEMMA OpBits ==
  ASSUME NEW i \in Word
  PROVE  /\ AluOp(i) \in 0 .. 15
         /\ IsSet(i, 0) <=> AluOp(i) \in {1, 3, 5, 7, 9, 11, 13, 15}
         /\ IsSet(i, 1) <=> AluOp(i) \in {2, 3, 6, 7, 10, 11, 14, 15}
         /\ IsSet(i, 2) <=> AluOp(i) \in {4, 5, 6, 7, 12, 13, 14, 15}
         /\ IsSet(i, 3) <=> AluOp(i) \in {8, 9, 10, 11, 12, 13, 14, 15}
<1>1. AluOp(i) = Bit(i, 0) + 2 * Bit(i, 1) + 4 * Bit(i, 2) + 8 * Bit(i, 3)
  BY LowFour, WordIs DEF AluOp
<1>2. /\ Bit(i, 0) \in {0, 1} /\ Bit(i, 1) \in {0, 1}
      /\ Bit(i, 2) \in {0, 1} /\ Bit(i, 3) \in {0, 1}
  BY BitType, WordIs
<1>3. QED
  BY <1>1, <1>2 DEF IsSet

(* What the ALU of the FPGA makes of an arithmetic instruction: the operands and
   the carry of its adder, then its outputs. *)
OnA(i, a)     == Gate(IsSet(i, 3), a)
OnB(i, b)     == IF IsSet(i, 0) THEN NotW(b) ELSE b
CarryIn(i, c) == Num(Eor(AluOp(i) \in {6, 7} \/ (AluOp(i) \in {14, 15} /\ c), IsSet(i, 0)))
Low(i, a, b, c)  == SumLow(OnA(i, a), OnB(i, b), CarryIn(i, c))
High(i, a, b, c) == SumHigh(OnA(i, a), OnB(i, b), CarryIn(i, c))
Shifted(i, a, c) ==
    32768 * Num((IsSet(a, 15) /\ IsSet(i, 0)) \/ (c /\ IsSet(i, 1))) + a \div 2
ArithV(i, a, b, c) == AluV(a, b, c, FALSE, FALSE, TRUE, i)

ArithSum(i, a, b, c) == 32768 * (High(i, a, b, c) % 2) + (Low(i, a, b, c) % 32768)

LEMMA ArithVResult ==
  ASSUME NEW i, NEW a, NEW b, NEW c
  PROVE  ArithV(i, a, b, c).d =
           OrW(OrW(Gate(IsSet(i, 2), ArithSum(i, a, b, c)),
                   Gate(AluOp(i) \in {10}, XorW(OnA(i, a), b))),
               OrW(OrW(Gate(AluOp(i) \in {9}, AndW(OnA(i, a), b)),
                       Gate(AluOp(i) \in {8}, OrW(OnA(i, a), b))),
                   Gate(AluOp(i) \in {0, 1, 2, 3}, Shifted(i, a, c))))
  BY SMT DEF ArithV, AluV, AluOp, OnA, OnB, CarryIn, ArithSum, Low, High, SumLow, SumHigh, Shifted,
             Gate, Num, Eor

LEMMA ArithVZero ==
  ASSUME NEW i, NEW a, NEW b, NEW c
  PROVE  /\ ArithV(i, a, b, c).n = IsSet(ArithV(i, a, b, c).d, 15)
         /\ ArithV(i, a, b, c).z = (ArithV(i, a, b, c).d = 0)
<1>1. ArithV(i, a, b, c).n = IsSet(ArithV(i, a, b, c).d, 15)
  BY SMT DEF ArithV, AluV, IsSet
<1>2. ArithV(i, a, b, c).z = (ArithV(i, a, b, c).d = 0)
  BY SMT DEF ArithV, AluV
<1>3. QED
  BY <1>1, <1>2

LEMMA ArithVOverflow ==
  ASSUME NEW i, NEW a, NEW b, NEW c
  PROVE  ArithV(i, a, b, c).v =
           IF IsSet(i, 2) THEN Eor(IsSet(Low(i, a, b, c), 15), High(i, a, b, c) \div 2 = 1)
           ELSE FALSE
<1>1. ArithV(i, a, b, c).v =
        (IsSet(i, 2) /\ Eor(IsSet(Low(i, a, b, c), 15), High(i, a, b, c) \div 2 = 1))
  BY SMT DEF ArithV, AluV, AluOp, OnA, OnB, CarryIn, Low, High, SumLow, SumHigh,
             Gate, Num, Eor
<1>2. QED
  BY <1>1, Zenon DEF Eor

LEMMA ArithVCarry ==
  ASSUME NEW i, NEW a, NEW b, NEW c
  PROVE  ArithV(i, a, b, c).c =
           IF ~IsSet(i, 3) /\ ~IsSet(i, 2) THEN IsSet(a, 0)
           ELSE IF IsSet(i, 3) /\ IsSet(i, 2)
           THEN Eor(High(i, a, b, c) \div 2 = 1, IsSet(i, 0))
           ELSE c
  BY SMT DEF ArithV, AluV, AluOp, OnA, OnB, CarryIn, Low, High, SumLow, SumHigh,
             Gate, Num, Eor

(* The operands of the adder as words, and their readings as signed numbers. *)
LEMMA SignedIs ==
  ASSUME NEW w \in Word
  PROVE  /\ w \in Int /\ 0 <= w /\ w < 65536
         /\ Signed(w) \in Int /\ -32768 <= Signed(w) /\ Signed(w) < 32768
         /\ Signed(w) = w - 65536 * Num(IsSet(w, 15))
         /\ Signed(w) = w \/ Signed(w) = w - 65536
         /\ NotW(w) \in Word /\ NotW(w) = 65535 - w
         /\ Signed(NotW(w)) = -1 - Signed(w)
<1>1. w \in Int /\ 0 <= w /\ w < 65536
  BY WordIs
<1>2. NotW(w) = 65535 - w
  BY DEF NotW, WordSize
<1>3. NotW(w) \in Word
  BY <1>1, <1>2, WordIs
<1>4. IsSet(w, 15) <=> w >= 32768
  BY TopBit
<1>5. Signed(w) = IF w >= 32768 THEN w - 65536 ELSE w
  BY DEF Signed, WordSize
<1>6. Signed(NotW(w)) = IF 65535 - w >= 32768 THEN 65535 - w - 65536 ELSE 65535 - w
  BY <1>2 DEF Signed, WordSize
<1>7. QED
  BY <1>1, <1>2, <1>3, <1>4, <1>5, <1>6 DEF Num

(* An instruction whose result the adder makes. *)
LEMMA SumOps ==
  ASSUME NEW i \in Word, NEW a \in Word, NEW b \in Word, NEW c \in BOOLEAN,
         IsSet(i, 2), OnA(i, a) \in Word, OnB(i, b) \in Word, CarryIn(i, c) \in {0, 1}
  PROVE  LET x == OnA(i, a)
             y == OnB(i, b)
             r == CarryIn(i, c)
         IN  /\ ArithV(i, a, b, c).d = (x + y + r) % 65536
             /\ (x + y + r) % 65536 \in Word
             /\ ArithV(i, a, b, c).v \in BOOLEAN
             /\ ArithV(i, a, b, c).v <=> Overflow(Signed(x) + Signed(y) + r)
             /\ IsSet(i, 3) =>
                   /\ ArithV(i, a, b, c).c \in BOOLEAN
                   /\ ArithV(i, a, b, c).c <=> Eor(x + y + r >= 65536, IsSet(i, 0))
             /\ ~IsSet(i, 3) => ArithV(i, a, b, c).c = c
<1> DEFINE x == OnA(i, a)
           y == OnB(i, b)
           r == CarryIn(i, c)
           lo == Low(i, a, b, c)
           hi == High(i, a, b, c)
           out == ArithV(i, a, b, c)
<1>1. lo = SumLow(x, y, r) /\ hi = SumHigh(x, y, r)
      /\ ArithSum(i, a, b, c) = 32768 * (hi % 2) + (lo % 32768)
  BY DEF Low, High, ArithSum
<1>2. /\ 32768 * (hi % 2) + (lo % 32768) = (x + y + r) % 65536
      /\ hi \div 2 = 1 <=> x + y + r >= 65536
      /\ Eor(IsSet(lo, 15), hi \div 2 = 1)
              <=> Signed(x) + Signed(y) + r < -32768 \/ Signed(x) + Signed(y) + r > 32767
  BY <1>1, Adder
<1>3. (x + y + r) % 65536 \in Word
  <2>1. x \in Int /\ y \in Int /\ r \in Int
    BY WordIs
  <2>2. QED
    BY <2>1, WordIs
<1>4. AluOp(i) \notin {0, 1, 2, 3, 8, 9, 10}
  BY OpBits
<1>5. out.d = OrW(OrW(ArithSum(i, a, b, c), 0), OrW(OrW(0, 0), 0))
  BY <1>4, ArithVResult DEF Gate
<1>6. 0 \in Word
  BY WordIs
<1>7. out.d = (x + y + r) % 65536
  BY <1>1, <1>2, <1>3, <1>5, <1>6, OrZero
<1>8. out.v = Eor(IsSet(lo, 15), hi \div 2 = 1)
  BY ArithVOverflow DEF Eor
<1> HIDE DEF lo, hi, out
<1>9. out.v \in BOOLEAN /\ (out.v <=> Overflow(Signed(x) + Signed(y) + r))
  <2>1. out.v \in BOOLEAN
    BY <1>8 DEF Eor
  <2>2. out.v <=> Eor(IsSet(lo, 15), hi \div 2 = 1)
    BY <1>8 DEF Eor
  <2>3. QED
    BY <1>2, <2>1, <2>2 DEF Overflow
<1>10. IsSet(i, 3) => out.c = Eor(hi \div 2 = 1, IsSet(i, 0))
  BY ArithVCarry DEF hi, out
<1>11. ~IsSet(i, 3) => out.c = c
  BY ArithVCarry DEF out
<1>12. IsSet(i, 3) => out.c \in BOOLEAN /\ (out.c <=> Eor(x + y + r >= 65536, IsSet(i, 0)))
  <2>1. IsSet(i, 3) => out.c \in BOOLEAN /\ (out.c <=> Eor(hi \div 2 = 1, IsSet(i, 0)))
    BY <1>10 DEF Eor
  <2>2. hi \div 2 = 1 <=> x + y + r >= 65536
    BY <1>2
  <2>3. QED
    BY <2>1, <2>2 DEF Eor
<1>13. QED
  BY <1>3, <1>7, <1>9, <1>11, <1>12 DEF out

(* What the shift unit makes. *)
LEMMA ShiftIs ==
  ASSUME NEW i \in Word, NEW a \in Word, NEW c \in BOOLEAN
  PROVE  /\ AluOp(i) = 0 => Shifted(i, a, c) = a \div 2
         /\ AluOp(i) = 1 => Shifted(i, a, c) = (Signed(a) \div 2) % 65536
         /\ AluOp(i) = 2 => Shifted(i, a, c) = (a \div 2) + 32768 * Num(c)
         /\ AluOp(i) \in {0, 1, 2} => Shifted(i, a, c) \in Word
<1> DEFINE t == Num(IsSet(a, 15))
           n == Num(c)
           h == a \div 2
           s == Shifted(i, a, c)
<1>1. a \in Int /\ 0 <= a /\ a < 65536 /\ Signed(a) = a - 65536 * t
  BY SignedIs
<1>2. t \in {0, 1} /\ n \in {0, 1}
  BY DEF Num
<1>3. /\ AluOp(i) = 0 => s = 32768 * 0 + h
      /\ AluOp(i) = 1 => s = 32768 * t + h
      /\ AluOp(i) = 2 => s = 32768 * n + h
  BY OpBits DEF Shifted, Num
<1> HIDE DEF t, n, s
<1>4. h \in Int /\ 0 <= h /\ h < 32768
  BY <1>1
<1>5. Signed(a) \div 2 = h - 32768 * t
  BY <1>1, <1>2
<1>6. (h - 32768 * t) % 65536 = 32768 * t + h
  BY <1>2, <1>4
<1>7. AluOp(i) \in {0, 1, 2} => s \in Word
  <2>1. /\ 0 <= 32768 * 0 + h /\ 32768 * 0 + h < 65536
        /\ 0 <= 32768 * t + h /\ 32768 * t + h < 65536
        /\ 0 <= 32768 * n + h /\ 32768 * n + h < 65536
    BY <1>2, <1>4
  <2>2. 32768 * 0 + h \in Int /\ 32768 * t + h \in Int /\ 32768 * n + h \in Int
    BY <1>2, <1>4
  <2>3. QED
    BY <1>3, <2>1, <2>2, WordIs
<1>8. /\ AluOp(i) = 0 => s = h
      /\ AluOp(i) = 1 => s = (Signed(a) \div 2) % 65536
      /\ AluOp(i) = 2 => s = h + 32768 * n
  BY <1>2, <1>3, <1>4, <1>5, <1>6
<1>9. QED
  BY <1>7, <1>8 DEF s, n

(* What is asked of an arithmetic instruction: the same result, overflow and
   carry on both sides. *)
SameArith(i, a, b, c, p) ==
    /\ ArithV(i, a, b, c).d = ArithResult(i, a, b, p)
    /\ ArithResult(i, a, b, p) \in Word
    /\ ArithV(i, a, b, c).v \in BOOLEAN
    /\ ArithV(i, a, b, c).v <=> ArithOverflow(i, a, b, p)
    /\ ArithV(i, a, b, c).c \in BOOLEAN
    /\ ArithCarry(i, a, b, p) = Num(ArithV(i, a, b, c).c)

LEMMA ShiftsSame ==
  ASSUME NEW i \in Word, NEW a \in Word, NEW b \in Word, NEW c \in BOOLEAN, NEW p \in Word,
         IsSet(p, 0) <=> c, AluOp(i) \in {0, 1, 2}
  PROVE  SameArith(i, a, b, c, p)
<1>1. ~IsSet(i, 2) /\ ~IsSet(i, 3)
  BY OpBits
<1>2. ArithV(i, a, b, c).d = OrW(OrW(0, 0), OrW(OrW(0, 0), Shifted(i, a, c)))
  BY <1>1, ArithVResult DEF Gate
<1>3. ArithV(i, a, b, c).d = Shifted(i, a, c) /\ Shifted(i, a, c) \in Word
  BY <1>2, ShiftIs, OrZero, WordIs
<1>4. Bit(p, 0) = Num(c)
  BY BitType, WordIs DEF IsSet, Num
<1>5. ArithResult(i, a, b, p) = Shifted(i, a, c)
  BY <1>4, ShiftIs DEF ArithResult, WordSize
<1>6. ArithV(i, a, b, c).v = FALSE
  BY <1>1, ArithVOverflow
<1>7. ~ArithOverflow(i, a, b, p)
  BY DEF ArithOverflow
<1>8. ArithV(i, a, b, c).c = IsSet(a, 0)
  BY <1>1, ArithVCarry
<1>9. ArithCarry(i, a, b, p) = a % 2
  BY DEF ArithCarry
<1>10. a % 2 = Bit(a, 0) /\ Bit(a, 0) \in {0, 1}
  <2>1. a \in Nat
    BY WordIs
  <2>2. QED
    BY <2>1, Weights, BitType DEF Bit
<1>11. ArithV(i, a, b, c).c \in BOOLEAN /\ Num(ArithV(i, a, b, c).c) = Bit(a, 0)
  BY <1>8, <1>10 DEF IsSet, Num
<1>12. QED
  BY <1>3, <1>5, <1>6, <1>7, <1>9, <1>10, <1>11 DEF SameArith

LEMMA LogicSame ==
  ASSUME NEW i \in Word, NEW a \in Word, NEW b \in Word, NEW c \in BOOLEAN, NEW p \in Word,
         IsSet(p, 0) <=> c, AluOp(i) \in {8, 9, 10}
  PROVE  SameArith(i, a, b, c, p)
<1>1. ~IsSet(i, 2) /\ IsSet(i, 3)
  BY OpBits
<1>2. OnA(i, a) = a
  BY <1>1 DEF OnA, Gate
<1>3. OrW(a, b) \in Word /\ AndW(a, b) \in Word /\ XorW(a, b) \in Word /\ 0 \in Word
  BY BitwiseType, WordIs
<1>4. /\ AluOp(i) = 8 => ArithV(i, a, b, c).d = OrW(OrW(0, 0), OrW(OrW(0, OrW(a, b)), 0))
      /\ AluOp(i) = 9 => ArithV(i, a, b, c).d = OrW(OrW(0, 0), OrW(OrW(AndW(a, b), 0), 0))
      /\ AluOp(i) = 10 => ArithV(i, a, b, c).d = OrW(OrW(0, XorW(a, b)), OrW(OrW(0, 0), 0))
  BY <1>1, <1>2, ArithVResult DEF Gate
<1>5. /\ AluOp(i) = 8 => ArithV(i, a, b, c).d = OrW(a, b)
      /\ AluOp(i) = 9 => ArithV(i, a, b, c).d = AndW(a, b)
      /\ AluOp(i) = 10 => ArithV(i, a, b, c).d = XorW(a, b)
  BY <1>3, <1>4, OrZero
<1>6. ArithV(i, a, b, c).d = ArithResult(i, a, b, p) /\ ArithResult(i, a, b, p) \in Word
  BY <1>3, <1>5 DEF ArithResult
<1>7. ArithV(i, a, b, c).v = FALSE
  BY <1>1, ArithVOverflow
<1>8. ~ArithOverflow(i, a, b, p)
  BY DEF ArithOverflow
<1>9. ArithV(i, a, b, c).c = c
  BY <1>1, ArithVCarry
<1>10. Bit(p, 0) = Num(c)
  BY BitType, WordIs DEF IsSet, Num
<1>11. ArithCarry(i, a, b, p) = Bit(p, 0)
  BY DEF ArithCarry
<1>12. QED
  BY <1>6, <1>7, <1>8, <1>9, <1>10, <1>11 DEF SameArith

(* The operations of the adder on B alone: MOV, NEG, INC, COM. *)
LEMMA UnarySame ==
  ASSUME NEW i \in Word, NEW a \in Word, NEW b \in Word, NEW c \in BOOLEAN, NEW p \in Word,
         IsSet(p, 0) <=> c, AluOp(i) \in {4, 5, 6, 7}
  PROVE  SameArith(i, a, b, c, p)
<1> DEFINE out == ArithV(i, a, b, c)
           r == CarryIn(i, c)
           y == OnB(i, b)
           s == Signed(b)
           n == NotW(b)
<1>1. IsSet(i, 2) /\ ~IsSet(i, 3) /\ (IsSet(i, 0) <=> AluOp(i) \in {5, 7})
  BY OpBits
<1>2. OnA(i, a) = 0 /\ 0 \in Word /\ Signed(0) = 0
  BY <1>1, WordIs DEF OnA, Gate, Signed
<1>3. /\ b \in Int /\ 0 <= b /\ b < 65536 /\ n \in Word /\ n = 65535 - b
      /\ s \in Int /\ -32768 <= s /\ s < 32768 /\ (s = b \/ s = b - 65536)
      /\ Signed(n) = -1 - s
  BY SignedIs
<1>4. /\ AluOp(i) = 4 => y = b /\ r = 0
      /\ AluOp(i) = 5 => y = n /\ r = 1
      /\ AluOp(i) = 6 => y = b /\ r = 1
      /\ AluOp(i) = 7 => y = n /\ r = 0
  BY <1>1 DEF OnB, CarryIn, Num, Eor
<1>5. y \in Word /\ r \in {0, 1}
  BY <1>3, <1>4
<1>6. /\ out.d = (0 + y + r) % 65536
      /\ (0 + y + r) % 65536 \in Word
      /\ out.v \in BOOLEAN
      /\ out.v <=> Overflow(0 + Signed(y) + r)
      /\ out.c = c
  BY <1>1, <1>2, <1>5, SumOps
<1> HIDE DEF out, r, y, n, s
<1>7. /\ AluOp(i) = 4 => (0 + y + r) % 65536 = b
      /\ AluOp(i) = 5 => (0 + y + r) % 65536 = (-s) % 65536
      /\ AluOp(i) = 6 => (0 + y + r) % 65536 = (b + 1) % 65536
      /\ AluOp(i) = 7 => (0 + y + r) % 65536 = n
  <2>1. AluOp(i) = 4 => 0 + y + r = b
    BY <1>3, <1>4
  <2>2. AluOp(i) = 5 => 0 + y + r = 65536 - b
    BY <1>3, <1>4
  <2>3. AluOp(i) = 6 => 0 + y + r = b + 1
    BY <1>3, <1>4
  <2>4. AluOp(i) = 7 => 0 + y + r = n
    BY <1>3, <1>4
  <2>5. (65536 - b) % 65536 = (-s) % 65536
    BY <1>3
  <2>6. b % 65536 = b /\ n % 65536 = n
    BY <1>3
  <2>7. QED
    BY <2>1, <2>2, <2>3, <2>4, <2>5, <2>6
<1>8. out.d = ArithResult(i, a, b, p)
  <2>1. AluOp(i) = 4 => ArithResult(i, a, b, p) = b
    BY DEF ArithResult
  <2>2. AluOp(i) = 5 => ArithResult(i, a, b, p) = (-s) % 65536
    BY DEF ArithResult, WordSize, s
  <2>3. AluOp(i) = 6 => ArithResult(i, a, b, p) = AddW(b, 1)
    BY DEF ArithResult
  <2>4. AluOp(i) = 7 => ArithResult(i, a, b, p) = n
    BY DEF ArithResult, n
  <2>5. AddW(b, 1) = (b + 1) % 65536
    BY <1>3, AddWIs
  <2>6. QED
    BY <1>6, <1>7, <2>1, <2>2, <2>3, <2>4, <2>5
<1>9. out.v <=> ArithOverflow(i, a, b, p)
  <2>1. /\ AluOp(i) = 4 => (ArithOverflow(i, a, b, p) <=> FALSE)
        /\ AluOp(i) = 5 => (ArithOverflow(i, a, b, p) <=> Overflow(-s))
        /\ AluOp(i) = 6 => (ArithOverflow(i, a, b, p) <=> Overflow(s + 1))
        /\ AluOp(i) = 7 => (ArithOverflow(i, a, b, p) <=> FALSE)
    BY DEF ArithOverflow, s
  <2>2. /\ AluOp(i) = 4 => 0 + Signed(y) + r = s
        /\ AluOp(i) = 5 => 0 + Signed(y) + r = -s
        /\ AluOp(i) = 6 => 0 + Signed(y) + r = s + 1
        /\ AluOp(i) = 7 => 0 + Signed(y) + r = -1 - s
    <3>1. AluOp(i) \in {4, 6} => Signed(y) = s
      BY <1>4 DEF s
    <3>2. AluOp(i) \in {5, 7} => Signed(y) = -1 - s
      BY <1>3, <1>4
    <3>3. QED
      BY <1>3, <1>4, <3>1, <3>2
  <2>3. ~Overflow(s) /\ ~Overflow(-1 - s)
    BY <1>3 DEF Overflow
  <2>4. QED
    BY <1>6, <2>1, <2>2, <2>3
<1>10. ArithCarry(i, a, b, p) = Bit(p, 0)
  BY DEF ArithCarry
<1>11. Bit(p, 0) = Num(c)
  BY BitType, WordIs DEF IsSet, Num
<1>12. QED
  BY <1>6, <1>8, <1>9, <1>10, <1>11 DEF SameArith, out

(* The operations on both operands: ADD, SUB, ADC, SBB. *)
LEMMA BinarySame ==
  ASSUME NEW i \in Word, NEW a \in Word, NEW b \in Word, NEW c \in BOOLEAN, NEW p \in Word,
         IsSet(p, 0) <=> c, AluOp(i) \in {12, 13, 14, 15}
  PROVE  SameArith(i, a, b, c, p)
<1> DEFINE out == ArithV(i, a, b, c)
           r == CarryIn(i, c)
           y == OnB(i, b)
           s == Signed(b)
           t == Signed(a)
           n == NotW(b)
           k == CarryUsed(i, p)
<1>1. IsSet(i, 2) /\ IsSet(i, 3) /\ (IsSet(i, 0) <=> AluOp(i) \in {13, 15})
  BY OpBits
<1>2. OnA(i, a) = a
  BY <1>1 DEF OnA, Gate
<1>3. /\ b \in Int /\ 0 <= b /\ b < 65536 /\ n \in Word /\ n = 65535 - b
      /\ s \in Int /\ (s = b \/ s = b - 65536) /\ Signed(n) = -1 - s
      /\ a \in Int /\ 0 <= a /\ a < 65536
      /\ t \in Int /\ (t = a \/ t = a - 65536)
  BY SignedIs
<1>4. k = IF AluOp(i) \in {14, 15} THEN Num(c) ELSE 0
  BY BitType, WordIs DEF IsSet, Num, CarryUsed
<1>5. Num(c) \in {0, 1} /\ k \in {0, 1}
  BY <1>4 DEF Num
<1>6. /\ AluOp(i) \in {12, 14} => y = b /\ r = k
      /\ AluOp(i) \in {13, 15} => y = n /\ r = 1 - k
  BY <1>1, <1>4 DEF OnB, CarryIn, Num, Eor
<1>7. y \in Word /\ r \in {0, 1}
  BY <1>3, <1>5, <1>6
<1>8. /\ out.d = (a + y + r) % 65536
      /\ (a + y + r) % 65536 \in Word
      /\ out.v \in BOOLEAN
      /\ out.v <=> Overflow(t + Signed(y) + r)
      /\ out.c \in BOOLEAN
      /\ out.c <=> Eor(a + y + r >= 65536, IsSet(i, 0))
  BY <1>1, <1>2, <1>7, SumOps
<1> HIDE DEF out, r, y, n, s, t, k
<1>9. CASE AluOp(i) \in {12, 14}
  <2>1. y = b /\ r = k /\ ~IsSet(i, 0)
    BY <1>1, <1>6, <1>9
  <2>2. (a + b + k) % 65536 = (t + s + k) % 65536
    BY <1>3, <1>5
  <2>3. ArithResult(i, a, b, p) = (t + s + k) % 65536
    BY <1>9 DEF ArithResult, WordSize, s, t, k
  <2>4. ArithOverflow(i, a, b, p) <=> Overflow(t + s + k)
    BY <1>9 DEF ArithOverflow, s, t, k
  <2>5. ArithCarry(i, a, b, p) = Num(a + b + k >= 65536)
    BY <1>9 DEF ArithCarry, WordSize, k
  <2>6. Signed(y) = s
    BY <2>1 DEF s
  <2>7. out.c <=> a + b + k >= 65536
    BY <1>8, <2>1 DEF Eor
  <2>8. ArithCarry(i, a, b, p) = Num(out.c)
    BY <2>5, <2>7 DEF Num
  <2>9. QED
    BY <1>8, <2>1, <2>2, <2>3, <2>4, <2>6, <2>8 DEF SameArith, out
<1>10. CASE AluOp(i) \in {13, 15}
  <2>1. y = n /\ r = 1 - k /\ IsSet(i, 0)
    BY <1>1, <1>6, <1>10
  <2>2. (a + n + (1 - k)) % 65536 = (t - s - k) % 65536
    BY <1>3, <1>5
  <2>3. ArithResult(i, a, b, p) = (t - s - k) % 65536
    BY <1>10 DEF ArithResult, WordSize, s, t, k
  <2>4. ArithOverflow(i, a, b, p) <=> Overflow(t - s - k)
    BY <1>10 DEF ArithOverflow, s, t, k
  <2>5. ArithCarry(i, a, b, p) = Num(a < b + k)
    BY <1>10 DEF ArithCarry, k
  <2>6. t + Signed(y) + r = t - s - k
    BY <1>3, <1>5, <2>1
  <2>7. a + n + (1 - k) >= 65536 <=> ~(a < b + k)
    BY <1>3, <1>5
  <2>8. out.c <=> a < b + k
    BY <1>8, <2>1, <2>7 DEF Eor
  <2>9. ArithCarry(i, a, b, p) = Num(out.c)
    BY <2>5, <2>8 DEF Num
  <2>10. QED
    BY <1>8, <2>1, <2>2, <2>3, <2>4, <2>6, <2>9 DEF SameArith, out
<1>11. QED
  BY <1>9, <1>10

(* Every arithmetic instruction shadow.cc accepts does the same in the FPGA. *)
LEMMA AnyArithSame ==
  ASSUME NEW i \in Word, NEW a \in Word, NEW b \in Word, NEW c \in BOOLEAN, NEW p \in Word,
         IsSet(p, 0) <=> c, ~BadAlu(i)
  PROVE  SameArith(i, a, b, c, p)
<1>1. AluOp(i) \in {0, 1, 2} \/ AluOp(i) \in {8, 9, 10} \/ AluOp(i) \in {4, 5, 6, 7}
        \/ AluOp(i) \in {12, 13, 14, 15}
  BY OpBits DEF BadAlu
<1>2. QED
  BY <1>1, ShiftsSame, LogicSame, UnarySame, BinarySame

(* The status word ARITH1 loads is that of the flags the ALU shows. *)
FlagsOf(x) == [n |-> x.n, z |-> x.z, v |-> x.v, c |-> x.c]

LEMMA ArithFlags ==
  ASSUME NEW i \in Word, NEW a \in Word, NEW b \in Word, NEW c \in BOOLEAN, NEW p \in Word,
         IsSet(p, 0) <=> c, ~BadAlu(i)
  PROVE  LET f == FlagsOf(ArithV(i, a, b, c))
             w == Arith(i, a, b, p).psw
         IN  /\ f \in Flags
             /\ w \in Word
             /\ IsSet(w, 15) <=> IsSet(p, 15)
             /\ LoadPsw(w) = PswOf(IsSet(p, 15), f)
<1> DEFINE out == ArithV(i, a, b, c)
           d == out.d
           w == Arith(i, a, b, p).psw
           e == Num(IsSet(p, 15))
           n == Num(out.n)
           z == Num(out.z)
           v == Num(out.v)
           y == Num(out.c)
<1>1. SameArith(i, a, b, c, p)
  BY AnyArithSame
<1>2. /\ d = ArithResult(i, a, b, p) /\ d \in Word
      /\ out.v \in BOOLEAN /\ (out.v <=> ArithOverflow(i, a, b, p))
      /\ out.c \in BOOLEAN /\ ArithCarry(i, a, b, p) = y
  BY <1>1 DEF SameArith
<1>3. out.n = IsSet(d, 15) /\ out.z = (d = 0)
  BY ArithVZero
<1> HIDE DEF out, d
<1>4. Bit(d, 15) = n /\ Num(d = 0) = z /\ Num(ArithOverflow(i, a, b, p)) = v
  <2>1. Bit(d, 15) \in {0, 1}
    BY <1>2, BitType, WordIs
  <2>2. out.n <=> Bit(d, 15) = 1
    BY <1>3 DEF IsSet
  <2>3. out.z <=> d = 0
    BY <1>3
  <2>4. Bit(d, 15) = n
    BY <2>1, <2>2 DEF Num
  <2>5. Num(d = 0) = z
    BY <2>3 DEF Num
  <2>6. Num(ArithOverflow(i, a, b, p)) = v
    BY <1>2 DEF Num
  <2>7. QED
    BY <2>4, <2>5, <2>6
<1>5. Bit(p, 15) = e
  BY BitType, WordIs DEF IsSet, Num
<1>6. w = 32768 * Bit(p, 15) + 8 * Bit(d, 15) + 4 * Num(d = 0)
            + 2 * Num(ArithOverflow(i, a, b, p)) + ArithCarry(i, a, b, p)
  BY <1>2 DEF Arith, d, out
<1>7. e \in {0, 1} /\ n \in {0, 1} /\ z \in {0, 1} /\ v \in {0, 1} /\ y \in {0, 1}
  BY DEF Num
<1>8. PswOf(IsSet(p, 15), FlagsOf(out)) = 32768 * e + 32752 + 8 * n + 4 * z + 2 * v + y
  BY DEF PswOf, FlagsOf
<1>9. FlagsOf(out) \in Flags
  BY <1>2, <1>3 DEF FlagsOf, Flags, IsSet
<1>10. e = 1 <=> IsSet(p, 15)
  BY DEF Num
<1>11. w = 32768 * e + 8 * n + 4 * z + 2 * v + y
  BY <1>2, <1>4, <1>5, <1>6
<1> HIDE DEF w, e, n, z, v, y
<1>12. w \in Int /\ 0 <= w /\ w < 65536 /\ w % 16 = 8 * n + 4 * z + 2 * v + y
       /\ w \div 32768 = e
  BY <1>7, <1>11
<1>13. w \in Word /\ Bit(w, 15) = e
  <2>1. w \in Word
    BY <1>12, WordIs
  <2>2. Bit(w, 15) = w \div 32768
    BY <2>1, TopBit
  <2>3. QED
    BY <1>12, <2>1, <2>2
<1>14. LoadPsw(w) = 32768 * e + 32752 + (8 * n + 4 * z + 2 * v + y)
  BY <1>12, <1>13 DEF LoadPsw
<1>15. LoadPsw(w) = PswOf(IsSet(p, 15), FlagsOf(out))
  BY <1>7, <1>8, <1>14
<1>16. IsSet(w, 15) <=> IsSet(p, 15)
  BY <1>10, <1>13 DEF IsSet
<1>17. QED
  BY <1>9, <1>13, <1>15, <1>16 DEF w, out

(* The fields of an instruction by their bits. *)
LEMMA FieldBits ==
  ASSUME NEW i \in Word
  PROVE  /\ \A k \in 0 .. 15 : IsSet(i, k) \in BOOLEAN /\ (IsSet(i, k) <=> Bit(i, k) # 0)
         /\ \A k \in {1, 4, 7, 10, 13} :
              /\ Field3(i, k) = Bit(i, k) + 2 * Bit(i, k + 1) + 4 * Bit(i, k + 2)
              /\ Bit(i, k) \in {0, 1} /\ Bit(i, k + 1) \in {0, 1} /\ Bit(i, k + 2) \in {0, 1}
         /\ rdnotpc(i) <=> RegD(i) # 7
         /\ loadimm(i) <=> LoadImmediate(i)
<1>1. \A k \in 0 .. 15 : Bit(i, k) \in {0, 1}
  BY BitType, WordIs
<1>2. \A k \in 0 .. 15 : IsSet(i, k) \in BOOLEAN /\ (IsSet(i, k) <=> Bit(i, k) # 0)
  BY <1>1 DEF IsSet
<1>3. \A k \in {1, 4, 7, 10, 13} :
        /\ Field3(i, k) = Bit(i, k) + 2 * Bit(i, k + 1) + 4 * Bit(i, k + 2)
        /\ Bit(i, k) \in {0, 1} /\ Bit(i, k + 1) \in {0, 1} /\ Bit(i, k + 2) \in {0, 1}
  BY <1>1 DEF Field3
<1>4. rdnotpc(i) <=> RegD(i) # 7
  <2>1. RegD(i) = Bit(i, 7) + 2 * Bit(i, 8) + 4 * Bit(i, 9)
    BY DEF RegD, Field3
  <2>2. Bit(i, 7) \in {0, 1} /\ Bit(i, 8) \in {0, 1} /\ Bit(i, 9) \in {0, 1}
    BY <1>1
  <2>3. QED
    BY <2>1, <2>2 DEF rdnotpc, IsSet
<1>5. RegA(i) = 7 <=> IsSet(i, 12) /\ IsSet(i, 11) /\ IsSet(i, 10)
  <2>1. RegA(i) = Bit(i, 10) + 2 * Bit(i, 11) + 4 * Bit(i, 12)
    BY DEF RegA, Field3
  <2>2. Bit(i, 10) \in {0, 1} /\ Bit(i, 11) \in {0, 1} /\ Bit(i, 12) \in {0, 1}
    BY <1>1
  <2>3. QED
    BY <2>1, <2>2 DEF IsSet
<1>6. i % 128 = 0 <=> \A k \in 0 .. 6 : ~IsSet(i, k)
  <2>1. i % 128 = Bit(i, 0) + 2 * Bit(i, 1) + 4 * Bit(i, 2) + 8 * Bit(i, 3)
                     + 16 * Bit(i, 4) + 32 * Bit(i, 5) + 64 * Bit(i, 6)
    BY LowSeven, WordIs
  <2>2. i % 128 = 0 <=> /\ Bit(i, 0) = 0 /\ Bit(i, 1) = 0 /\ Bit(i, 2) = 0 /\ Bit(i, 3) = 0
                        /\ Bit(i, 4) = 0 /\ Bit(i, 5) = 0 /\ Bit(i, 6) = 0
    BY <1>1, <2>1
  <2>3. QED
    BY <1>2, <2>2
<1>7. QED
  BY <1>2, <1>3, <1>4, <1>5, <1>6 DEF loadimm, LoadImmediate

(* The decoder of the FPGA goes where FETCH2 of shadow.cc goes, unless that
   refuses the instruction. *)
LEMMA DecodeSame ==
  ASSUME q = {"FETCH2"}, NEW i \in Word, NEW intrq \in BOOLEAN, NEW pswie \in BOOLEAN,
         PosedgeClock(i, intrq, pswie), Decode(i) # "bad"
  PROVE  q' = {Decode(i)} /\ Decode(i) \in Decoded
<1>1. PICK s \in Decoded : q' = {s} /\ D(s, i, intrq, pswie)
  BY DecodeStep
<1>2. On("FETCH2")
  BY DEF On
<1>3. Field3(i, 13) = Bit(i, 13) + 2 * Bit(i, 14) + 4 * Bit(i, 15)
      /\ Bit(i, 13) \in {0, 1} /\ Bit(i, 14) \in {0, 1} /\ Bit(i, 15) \in {0, 1}
  BY FieldBits
<1>4. Field3(i, 1) = Bit(i, 1) + 2 * Bit(i, 2) + 4 * Bit(i, 3)
      /\ Bit(i, 1) \in {0, 1} /\ Bit(i, 2) \in {0, 1} /\ Bit(i, 3) \in {0, 1}
  BY FieldBits
<1>5. specialinstr(i) <=> Special(i)
  <2>1. Field3(i, 10) = Bit(i, 10) + 2 * Bit(i, 11) + 4 * Bit(i, 12)
        /\ Bit(i, 10) \in {0, 1} /\ Bit(i, 11) \in {0, 1} /\ Bit(i, 12) \in {0, 1}
    BY FieldBits
  <2>2. QED
    BY <2>1 DEF specialinstr, Special, IsSet
<1>6. /\ IsSet(i, 13) <=> Bit(i, 13) = 1
      /\ IsSet(i, 14) <=> Bit(i, 14) = 1
      /\ IsSet(i, 15) <=> Bit(i, 15) = 1
  BY DEF IsSet
<1>7. /\ s \in Decoded
      /\ s = "ARITH1" => (Bit(i, 15) # 1 /\ Bit(i, 14) # 1 /\ Bit(i, 13) = 1)
      /\ s = "STORE1" => (Bit(i, 15) # 1 /\ Bit(i, 14) = 1)
      /\ s = "LDA1" => (Bit(i, 15) = 1 /\ Bit(i, 14) # 1 /\ Bit(i, 13) # 1)
      /\ s = "LOAD1" => (Bit(i, 15) = 1 /\ (Bit(i, 14) = 1 \/ Bit(i, 13) = 1))
      /\ s \in {"BCC1", "HALT1", "IRET1", "WRPS1", "RDPS1"} =>
           (Bit(i, 15) # 1 /\ Bit(i, 14) # 1 /\ Bit(i, 13) # 1)
      /\ s = "BCC1" => ~Special(i)
      /\ s \in {"HALT1", "IRET1", "WRPS1", "RDPS1"} => Special(i)
  <2>1. /\ s = "ARITH1" => arith1d(i)
        /\ s = "STORE1" => store1d(i)
        /\ s = "LDA1" => lda1d(i)
        /\ s = "LOAD1" => load1d(i)
        /\ s = "BCC1" => bcc1d(i)
        /\ s = "HALT1" => halt1d(i)
        /\ s = "IRET1" => iret1d(i)
        /\ s = "WRPS1" => wrps1d(i)
        /\ s = "RDPS1" => rdps1d(i)
    BY <1>1, FeedsTable DEF D
  <2>2. QED
    BY <1>5, <1>6, <2>1
    DEF arith1d, bcc1d, lda1d, load1d, store1d, halt1d, iret1d, wrps1d, rdps1d,
        SpecialD, topthreezero
<1>8. CASE Field3(i, 13) = 0 /\ ~Special(i)
  <2>1. Decode(i) = "BCC1"
    BY <1>8 DEF Decode
  <2>2. s = "BCC1"
    BY <1>3, <1>7, <1>8 DEF Decoded
  <2>3. QED
    BY <1>1, <2>1, <2>2
<1>9. CASE Field3(i, 13) = 0 /\ Special(i)
  <2>1. Decode(i) = SpecialState(i)
    BY <1>9 DEF Decode
  <2>2. s \in {"HALT1", "IRET1", "WRPS1", "RDPS1"}
    BY <1>3, <1>7, <1>9 DEF Decoded
  <2>3. /\ s = "HALT1" => Bit(i, 2) # 1 /\ Bit(i, 1) # 1
        /\ s = "IRET1" => Bit(i, 2) # 1 /\ Bit(i, 1) = 1
        /\ s = "WRPS1" => Bit(i, 2) = 1 /\ Bit(i, 1) # 1
        /\ s = "RDPS1" => Bit(i, 2) = 1 /\ Bit(i, 1) = 1
    BY <1>1, FeedsTable DEF D, halt1d, iret1d, wrps1d, rdps1d, SpecialD, IsSet
  <2>4. /\ Field3(i, 1) = 0 => SpecialState(i) = "HALT1"
        /\ Field3(i, 1) = 1 => SpecialState(i) = "IRET1"
        /\ Field3(i, 1) = 2 => SpecialState(i) = "WRPS1"
        /\ Field3(i, 1) = 3 => SpecialState(i) = "RDPS1"
        /\ Field3(i, 1) \notin {0, 1, 2, 3} => SpecialState(i) = "bad"
    BY DEF SpecialState
  <2>5. Field3(i, 1) \in {0, 1, 2, 3}
    BY <2>1, <2>4
  <2>6. s = SpecialState(i)
    BY <1>4, <2>2, <2>3, <2>4, <2>5
  <2>7. QED
    BY <1>1, <2>1, <2>6
<1>10. CASE Field3(i, 13) = 1
  <2>1. Decode(i) = "ARITH1"
    BY <1>10 DEF Decode
  <2>2. s = "ARITH1"
    BY <1>3, <1>7, <1>10 DEF Decoded
  <2>3. QED
    BY <1>1, <2>1, <2>2
<1>11. CASE Field3(i, 13) \in {2, 3}
  <2>1. Decode(i) = "STORE1"
    BY <1>11 DEF Decode
  <2>2. s = "STORE1"
    BY <1>3, <1>7, <1>11 DEF Decoded
  <2>3. QED
    BY <1>1, <2>1, <2>2
<1>12. CASE Field3(i, 13) = 4
  <2>1. Decode(i) = "LDA1"
    BY <1>12 DEF Decode
  <2>2. s = "LDA1"
    BY <1>3, <1>7, <1>12 DEF Decoded
  <2>3. QED
    BY <1>1, <2>1, <2>2
<1>13. CASE Field3(i, 13) \in {5, 6, 7}
  <2>1. Decode(i) = "LOAD1"
    BY <1>13 DEF Decode
  <2>2. s = "LOAD1"
    BY <1>3, <1>7, <1>13 DEF Decoded
  <2>3. QED
    BY <1>1, <2>1, <2>2
<1>14. Field3(i, 13) \in {0, 1, 2, 3, 4, 5, 6, 7}
  BY <1>3
<1>15. QED
  BY <1>8, <1>9, <1>10, <1>11, <1>12, <1>13, <1>14

(* A clock edge of the FPGA, by the state it ends. *)
LEMMA De0Regs ==
  ASSUME NEW s \in Flops, q = {s}, s # "RESET1", NEW i \in Word, De0TypeOK,
         NEW x, NEW intrq, De0Edge(i, x, intrq)
  PROVE  /\ s \in {"FETCH2", "IREQ5", "IRET2", "LOAD3"} => rq' = [rq EXCEPT ![7] = x.d]
         /\ s \in {"LDA1", "LOAD2", "RDPS1"} => rq' = [rq EXCEPT ![RegD(i)] = x.d]
         /\ s = "ARITH1" => rq' = IF RegD(i) # 7 THEN [rq EXCEPT ![RegD(i)] = x.d] ELSE rq
         /\ s = "BCC1" => rq' = IF pswbt(i) THEN [rq EXCEPT ![7] = x.d] ELSE rq
         /\ s \notin {"FETCH2", "IREQ5", "IRET2", "LOAD3", "LDA1", "LOAD2", "RDPS1", "ARITH1",
                      "BCC1"} => rq' = rq
<1>1. /\ GPRS_WED(i) <=> (s = "ARITH1" /\ RegD(i) # 7) \/ s \in {"LDA1", "LOAD2", "RDPS1"}
      /\ GPRS_WE7(pswbt(i)) <=>
           s \in {"FETCH2", "IREQ5", "IRET2", "LOAD3"} \/ (s = "BCC1" /\ pswbt(i))
  BY Alone, FieldBits DEF GPRS_WED, GPRS_WE7
<1>2. RegAt(i, 9) = RegD(i) /\ RegD(i) \in 0 .. 7
  BY Fields
<1>3. rq' = [r \in 0 .. 7 |->
                IF \/ GPRS_WED(i) /\ RegD(i) = r
                   \/ r = 7 /\ GPRS_WE7(pswbt(i))
                THEN x.d ELSE rq[r]]
  BY <1>2 DEF De0Edge
<1>4. rq' = [r \in 0 .. 7 |-> rq'[r]] /\ rq = [r \in 0 .. 7 |-> rq[r]]
  BY <1>3 DEF De0TypeOK
<1>5. \A r \in 0 .. 7 : rq'[r] = IF (GPRS_WED(i) /\ RegD(i) = r)
                                      \/ (r = 7 /\ GPRS_WE7(pswbt(i)))
                                   THEN x.d ELSE rq[r]
  BY <1>3
<1>6. ASSUME NEW t \in 0 .. 7, NEW w,
             \A r \in 0 .. 7 : rq'[r] = IF r = t THEN w ELSE rq[r]
      PROVE  rq' = [rq EXCEPT ![t] = w]
  BY <1>6, <1>4
<1>7. ASSUME \A r \in 0 .. 7 : rq'[r] = rq[r]
       PROVE  rq' = rq
  BY <1>4, <1>7
<1>8. CASE s \in {"FETCH2", "IREQ5", "IRET2", "LOAD3"}
  <2>1. ~GPRS_WED(i) /\ GPRS_WE7(pswbt(i))
    BY <1>1, <1>8
  <2>2. \A r \in 0 .. 7 : rq'[r] = IF r = 7 THEN x.d ELSE rq[r]
    BY <1>5, <2>1
  <2>3. QED
    BY <1>6, <1>8, <2>2
<1>9. CASE s \in {"LDA1", "LOAD2", "RDPS1"}
  <2>1. GPRS_WED(i) /\ ~GPRS_WE7(pswbt(i))
    BY <1>1, <1>9
  <2>2. \A r \in 0 .. 7 : rq'[r] = IF r = RegD(i) THEN x.d ELSE rq[r]
    BY <1>5, <2>1
  <2>3. QED
    BY <1>2, <1>6, <1>9, <2>2

<1>10. CASE s = "ARITH1"
  <2>1. ~GPRS_WE7(pswbt(i)) /\ (GPRS_WED(i) <=> RegD(i) # 7)
    BY <1>1, <1>10
  <2>2. CASE RegD(i) # 7
    <3>1. \A r \in 0 .. 7 : rq'[r] = IF r = RegD(i) THEN x.d ELSE rq[r]
      BY <1>5, <2>1, <2>2
    <3>2. QED
      BY <1>2, <1>6, <1>10, <2>2, <3>1
  <2>3. CASE RegD(i) = 7
    <3>1. \A r \in 0 .. 7 : rq'[r] = rq[r]
      BY <1>5, <2>1, <2>3
    <3>2. QED
      BY <1>10, <1>7, <2>3, <3>1
  <2>4. QED
    BY <2>2, <2>3
<1>11. CASE s = "BCC1"
  <2>1. ~GPRS_WED(i) /\ (GPRS_WE7(pswbt(i)) <=> pswbt(i))
    BY <1>1, <1>11
  <2>2. CASE pswbt(i)
    <3>1. \A r \in 0 .. 7 : rq'[r] = IF r = 7 THEN x.d ELSE rq[r]
      BY <1>5, <2>1, <2>2
    <3>2. QED
      BY <1>6, <1>11, <2>2, <3>1
  <2>3. CASE ~pswbt(i)
    <3>1. \A r \in 0 .. 7 : rq'[r] = rq[r]
      BY <1>5, <2>1, <2>3
    <3>2. QED
      BY <1>11, <1>7, <2>3, <3>1
  <2>4. QED
    BY <2>2, <2>3
<1>12. CASE s \notin {"FETCH2", "IREQ5", "IRET2", "LOAD3", "LDA1", "LOAD2", "RDPS1", "ARITH1",
                      "BCC1"}
  <2>1. ~GPRS_WED(i) /\ ~GPRS_WE7(pswbt(i))
    BY <1>1, <1>12
  <2>2. \A r \in 0 .. 7 : rq'[r] = rq[r]
    BY <1>5, <2>1
  <2>3. QED
    BY <1>12, <1>7, <2>2
<1>13. QED
  BY <1>8, <1>9, <1>10, <1>11, <1>12

LEMMA De0Flags ==
  ASSUME NEW s \in Flops, q = {s}, s # "RESET1", NEW i \in Word, De0TypeOK,
         NEW x, NEW intrq, De0Edge(i, x, intrq)
  PROVE  /\ irlat' = i
         /\ nzvc' = IF s \in {"IRET4", "WRPS1"} THEN FlagsIn(x.d)
                    ELSE IF s = "ARITH1" THEN FlagsOf(x) ELSE nzvc
         /\ \A n : q' = {n} =>
              ieff' = IF s = "IREQ4" \/ n \in {"RESET1", "IREQ4"} THEN FALSE
                      ELSE IF s \in {"IRET4", "WRPS1"} THEN IsSet(x.d, 15)
                      ELSE ieff
<1>1. nzvc' = IF s \in {"IRET4", "WRPS1"} THEN FlagsIn(x.d)
               ELSE IF s = "ARITH1" THEN FlagsOf(x) ELSE nzvc
  <2>1. (Ctl("PSW_WE") <=> s \in {"IRET4", "WRPS1"}) /\ (Ctl("PSW_ALUWE") <=> s = "ARITH1")
    BY Lines
  <2>2. nzvc' = IF Ctl("PSW_WE") THEN FlagsIn(x.d)
                ELSE IF Ctl("PSW_ALUWE") THEN FlagsOf(x) ELSE nzvc
    BY DEF De0Edge, FlagsIn, FlagsOf
  <2>3. QED
    BY <2>1, <2>2
<1>2. ASSUME NEW n, q' = {n}
       PROVE  ieff' = IF s = "IREQ4" \/ n \in {"RESET1", "IREQ4"} THEN FALSE
                      ELSE IF s \in {"IRET4", "WRPS1"} THEN IsSet(x.d, 15)
                      ELSE ieff
  <2>1. Ctl("PSW_WE") <=> s \in {"IRET4", "WRPS1"}
    BY Lines
  <2>2. Ieclr(q) <=> s = "IREQ4"
    BY DEF Ieclr, Microcode
  <2>3. Ieclr(q') <=> n \in {"RESET1", "IREQ4"}
    BY <1>2 DEF Ieclr, Microcode
  <2>4. ieff' = (~Ieclr(q) /\ ~Ieclr(q') /\ IF Ctl("PSW_WE") THEN IsSet(x.d, 15) ELSE ieff)
    BY DEF De0Edge
  <2>5. QED
    BY <2>1, <2>2, <2>3, <2>4 DEF IsSet, De0TypeOK
<1>3. irlat' = i
  BY DEF De0Edge
<1>4. QED
  BY <1>1, <1>2, <1>3

(* What the second switch of Shadow::clock computes, state by state. *)
LEMMA BeginIs ==
  ASSUME NEW s, NEW i, NEW r, NEW p, NEW old
  PROVE  /\ s \in {"FETCH1", "IREQ4"} => BeginAlu(s, i, r, p, old) = r[7]
         /\ s \in {"FETCH2", "LOAD3"} => BeginAlu(s, i, r, p, old) = AddW(r[7], 2)
         /\ s = "BCC1" => BeginAlu(s, i, r, p, old) = AddW(r[7], BrOffset(i))
         /\ s = "ARITH1" /\ ~BadAlu(i) =>
              BeginAlu(s, i, r, p, old) = ArithResult(i, r[RegA(i)], r[RegB(i)], p)
         /\ s \in {"STORE1", "LDA1", "LOAD1"} =>
              BeginAlu(s, i, r, p, old) = AddW(r[RegA(i)], LsOffset(i))
         /\ s = "STORE2" => BeginAlu(s, i, r, p, old) = r[RegD(i)]
         /\ s \in {"WRPS1", "HALT1"} => BeginAlu(s, i, r, p, old) = r[RegB(i)]
         /\ s \in {"RDPS1", "IREQ2"} => BeginAlu(s, i, r, p, old) = p
         /\ s \in {"IRET1", "IREQ3"} => BeginAlu(s, i, r, p, old) = 65532
         /\ s \in {"IRET3", "IREQ1"} => BeginAlu(s, i, r, p, old) = 65534
         /\ s = "IREQ5" => BeginAlu(s, i, r, p, old) = 2
         /\ s \in {"RESET0", "RESET1", "LOAD2", "IRET2", "IRET4"} =>
              BeginAlu(s, i, r, p, old) = old
         /\ s = "ARITH1" /\ BadAlu(i) => BeginAlu(s, i, r, p, old) = old
<1>1. s \in {"FETCH1", "IREQ4"} => BeginAlu(s, i, r, p, old) = r[7]
  BY DEF BeginAlu
<1>2. s \in {"FETCH2", "LOAD3"} => BeginAlu(s, i, r, p, old) = AddW(r[7], 2)
  BY DEF BeginAlu
<1>3. s = "BCC1" => BeginAlu(s, i, r, p, old) = AddW(r[7], BrOffset(i))
  BY DEF BeginAlu
<1>4. s = "ARITH1" /\ ~BadAlu(i) =>
        BeginAlu(s, i, r, p, old) = ArithResult(i, r[RegA(i)], r[RegB(i)], p)
  BY DEF BeginAlu, Arith
<1>5. s \in {"STORE1", "LDA1", "LOAD1"} =>
        BeginAlu(s, i, r, p, old) = AddW(r[RegA(i)], LsOffset(i))
  BY DEF BeginAlu, Address
<1>6. s = "STORE2" => BeginAlu(s, i, r, p, old) = r[RegD(i)]
  BY DEF BeginAlu
<1>7. s \in {"WRPS1", "HALT1"} => BeginAlu(s, i, r, p, old) = r[RegB(i)]
  BY DEF BeginAlu
<1>8. s \in {"RDPS1", "IREQ2"} => BeginAlu(s, i, r, p, old) = p
  BY DEF BeginAlu
<1>9. s \in {"IRET1", "IREQ3"} => BeginAlu(s, i, r, p, old) = 65532
  BY DEF BeginAlu
<1>10. s \in {"IRET3", "IREQ1"} => BeginAlu(s, i, r, p, old) = 65534
  BY DEF BeginAlu
<1>11. s = "IREQ5" => BeginAlu(s, i, r, p, old) = 2
  BY DEF BeginAlu
<1>12. s \in {"RESET0", "RESET1", "LOAD2", "IRET2", "IRET4"} =>
         BeginAlu(s, i, r, p, old) = old
  BY DEF BeginAlu
<1>13. s = "ARITH1" /\ BadAlu(i) => BeginAlu(s, i, r, p, old) = old
  BY DEF BeginAlu
<1>14. QED
  BY <1>1, <1>2, <1>3, <1>4, <1>5, <1>6, <1>7, <1>8, <1>9, <1>10, <1>11, <1>12, <1>13

(* The ALU shows a word at the beginning of every state, and the same one when the
   state looks at what it showed before. *)
LEMMA BeginType ==
  ASSUME NEW s \in Flops, NEW i \in Word, NEW r \in [0 .. 7 -> Word], NEW p \in Word,
         NEW old \in Word
  PROVE  BeginAlu(s, i, r, p, old) \in Word
<1> DEFINE out == BeginAlu(s, i, r, p, old)
<1>1. /\ RegA(i) \in 0 .. 7 /\ RegB(i) \in 0 .. 7 /\ RegD(i) \in 0 .. 7
      /\ BrOffset(i) \in Word /\ LsOffset(i) \in Word
  BY Fields, Offsets
<1>2. \A k \in 0 .. 7 : r[k] \in Word
  OBVIOUS
<1>3. 2 \in Word /\ 65532 \in Word /\ 65534 \in Word /\ 7 \in 0 .. 7
  BY WordIs
<1>4. CASE s \in {"FETCH1", "IREQ4", "STORE2", "WRPS1", "HALT1", "RDPS1", "IREQ2"}
  BY <1>1, <1>2, <1>3, <1>4, BeginIs
<1>5. CASE s \in {"FETCH2", "LOAD3", "BCC1", "STORE1", "LDA1", "LOAD1"}
  <2>1. \A x, y \in Word : AddW(x, y) \in Word
    BY AddWIs, WordIs
  <2>2. \/ out = AddW(r[7], 2) \/ out = AddW(r[7], BrOffset(i))
        \/ out = AddW(r[RegA(i)], LsOffset(i))
    BY <1>5, BeginIs
  <2>3. QED
    BY <1>1, <1>2, <1>3, <2>1, <2>2
<1>6. CASE s \in {"IRET1", "IREQ3", "IRET3", "IREQ1", "IREQ5", "RESET0", "RESET1", "LOAD2",
                  "IRET2", "IRET4"}
  BY <1>3, <1>6, BeginIs
<1>7. CASE s = "ARITH1" /\ BadAlu(i)
  BY <1>7, BeginIs
<1>8. CASE s = "ARITH1" /\ ~BadAlu(i)
  <2>1. out = ArithResult(i, r[RegA(i)], r[RegB(i)], p)
    BY <1>8, BeginIs
  <2>2. PICK c \in BOOLEAN : IsSet(p, 0) <=> c
    BY DEF IsSet
  <2>3. SameArith(i, r[RegA(i)], r[RegB(i)], c, p)
    BY <1>1, <1>2, <1>8, <2>2, AnyArithSame
  <2>4. QED
    BY <2>1, <2>3 DEF SameArith
<1>9. QED
  BY <1>4, <1>5, <1>6, <1>7, <1>8 DEF Flops

LEMMA BeginAgain ==
  ASSUME NEW s \in Flops, NEW i, NEW r, NEW p, NEW old, NEW new,
         new = BeginAlu(s, i, r, p, old)
  PROVE  new = BeginAlu(s, i, r, p, new)
<1>1. CASE s \in {"RESET0", "RESET1", "LOAD2", "IRET2", "IRET4"}
  BY <1>1, BeginIs
<1>2. CASE s = "ARITH1" /\ BadAlu(i)
  BY <1>2, BeginIs
<1>3. CASE s = "ARITH1" /\ ~BadAlu(i)
  BY <1>3, BeginIs
<1>4. CASE s \in Flops \ {"RESET0", "RESET1", "LOAD2", "IRET2", "IRET4", "ARITH1"}
  BY <1>4, BeginIs DEF Flops
<1>5. QED
  BY <1>1, <1>2, <1>3, <1>4

(* Both go to the same next state, whatever the registers hold: the sequencer needs
   no more of them than the instruction and IE. *)
LEMMA NextState ==
  ASSUME state \in Flops, q = {state}, NEW m, NEW i \in Word,
         i = (IF state = "FETCH2" THEN m ELSE ir),
         NEW irq \in BOOLEAN, ieff \in BOOLEAN, IsSet(psw, 15) <=> ieff,
         state \in {"RESET1", "IREQ5"} => ~ieff,
         state = "ARITH1" => (IsSet(LoadPsw(newpsw), 15) <=> ieff),
         PosedgeClock(i, irq, ieff), EndOfState(m, irq)
  PROVE  /\ q' = {state'} /\ state' \in Flops \ {"RESET0"}
         /\ state' = "RESET1" => state = "RESET0"
<1>1. /\ state \in Flops /\ q = {state}
      /\ i = (IF state = "FETCH2" THEN m ELSE ir) /\ i \in Word /\ ieff \in BOOLEAN
      /\ IsSet(psw, 15) <=> ieff
      /\ state \in {"RESET1", "IREQ5"} => ~ieff
      /\ state = "ARITH1" => (IsSet(LoadPsw(newpsw), 15) <=> ieff)
  OBVIOUS
<1>2. PosedgeClock(i, irq, ieff)
  OBVIOUS
<1>3. ASSUME NEW n \in DOMAIN Feeds, Feeds[n] = state PROVE q' = {n}
  BY <1>1, <1>2, <1>3, FedStep
<1>4. EndOfInst(irq) = IF irqpend(irq, ieff) THEN "IREQ1" ELSE "FETCH1"
  BY <1>1 DEF EndOfInst, IrqEnabled, irqpend
<1>5. ASSUME state \in LastCycle \union {"LOAD2"}
      PROVE  q' = {IF load3d(i) THEN "LOAD3"
                   ELSE IF irqpend(irq, ieff) THEN "IREQ1" ELSE "FETCH1"}
  BY <1>1, <1>2, <1>5, EndStep
<1>6. load3d(i) <=> state = "LOAD2" /\ LoadImmediate(ir)
  BY <1>1, Alone, FieldBits DEF load3d
<1>7. ASSUME state \in LastCycle \union {"LOAD2"},
             state' = IF state = "LOAD2" /\ LoadImmediate(ir) THEN "LOAD3" ELSE EndOfInst(irq)
      PROVE  q' = {state'} /\ state' \in {"LOAD3", "IREQ1", "FETCH1"}
  BY <1>4, <1>5, <1>6, <1>7
<1>8. CASE EndOnward
  <2>1. state \in {"RESET0", "FETCH1", "STORE1", "LOAD1", "IRET1", "IRET3", "IREQ1", "IREQ2", "IREQ4"}
    BY <1>1, <1>8 DEF EndOnward, Onward
  <2>2. /\ state' \in DOMAIN Feeds /\ Feeds[state'] = state
        /\ state' \in Flops \ {"RESET0"} /\ (state' = "RESET1" => state = "RESET0")
    BY <1>8, <2>1, FeedsTable DEF EndOnward, Onward, Flops
  <2>3. QED
    BY <1>3, <2>2
<1>9. CASE EndReset1
  <2>1. state = "RESET1" /\ state' = "FETCH1"
    BY <1>9 DEF EndReset1
  <2>2. ~irqpend(irq, ieff) /\ ~load3d(i)
    BY <1>1, <1>6, <2>1 DEF irqpend
  <2>3. q' = {"FETCH1"}
    BY <1>5, <2>1, <2>2 DEF LastCycle
  <2>4. QED
    BY <2>1, <2>3 DEF Flops
<1>10. CASE EndFetch2(m)
  <2>1. state = "FETCH2" /\ Decode(i) # "bad" /\ state' = Decode(i)
    BY <1>1, <1>10 DEF EndFetch2
  <2>2. q' = {Decode(i)} /\ Decode(i) \in Decoded
    BY <1>1, <1>2, <2>1, DecodeSame
  <2>3. QED
    BY <2>1, <2>2 DEF Decoded, Flops
<1>11. CASE EndBcc1(irq)
  BY <1>7, <1>11 DEF EndBcc1, LastCycle, Flops
<1>12. CASE EndArith1(irq)
  <2>1. state = "ARITH1" /\ psw' = LoadPsw(newpsw)
        /\ state' = IF irq /\ IrqEnabled(psw') THEN "IREQ1" ELSE "FETCH1"
    BY <1>12 DEF EndArith1
  <2>2. IrqEnabled(psw') <=> ieff
    BY <1>1, <2>1 DEF IrqEnabled
  <2>3. state' = EndOfInst(irq)
    BY <1>4, <2>1, <2>2 DEF irqpend
  <2>4. QED
    BY <1>7, <2>1, <2>3 DEF LastCycle, Flops
<1>13. CASE EndStore2OrHalt1(irq)
  BY <1>7, <1>13 DEF EndStore2OrHalt1, LastCycle, Flops
<1>14. CASE EndLda1OrRdps1(irq)
  BY <1>7, <1>14 DEF EndLda1OrRdps1, LastCycle, Flops
<1>15. CASE EndLoad2(m, irq)
  BY <1>7, <1>15 DEF EndLoad2, LastCycle, Flops
<1>16. CASE EndLoad3(irq)
  BY <1>7, <1>16 DEF EndLoad3, LastCycle, Flops
<1>17. CASE EndWrps1(irq)
  BY <1>7, <1>17 DEF EndWrps1, LastCycle, Flops
<1>18. CASE EndIret2(m)
  BY <1>3, <1>18, FeedsTable DEF EndIret2, Flops
<1>19. CASE EndIret4(m, irq)
  BY <1>7, <1>19 DEF EndIret4, LastCycle, Flops
<1>20. CASE EndIreq3
  BY <1>3, <1>20, FeedsTable DEF EndIreq3, Flops
<1>21. CASE EndIreq5
  <2>1. state = "IREQ5" /\ state' = "FETCH1"
    BY <1>21 DEF EndIreq5
  <2>2. ~irqpend(irq, ieff) /\ ~load3d(i)
    BY <1>1, <1>6, <2>1 DEF irqpend
  <2>3. q' = {"FETCH1"}
    BY <1>5, <2>1, <2>2 DEF LastCycle
  <2>4. QED
    BY <2>1, <2>3 DEF Flops
<1>22. QED
  BY <1>8, <1>9, <1>10, <1>11, <1>12, <1>13, <1>14, <1>15, <1>16, <1>17, <1>18, <1>19,
     <1>20, <1>21 DEF EndOfState

(* What Shadow::clock computes at the beginning of the next state. *)
LEMMA BeginStep ==
  ASSUME alu \in Word, newpsw \in Word, Begin,
         state' \in Flops, regs' \in [0 .. 7 -> Word], ir' \in Word, psw' \in Word
  PROVE  /\ alu' \in Word /\ newpsw' \in Word /\ fatal' \in BOOLEAN
         /\ alu' = BeginAlu(state', ir', regs', psw', alu')
         /\ ~fatal' /\ state' = "ARITH1" =>
              /\ ~BadAlu(ir')
              /\ newpsw' = Arith(ir', regs'[RegA(ir')], regs'[RegB(ir')], psw').psw
              /\ IsSet(newpsw', 15) <=> IsSet(psw', 15)
<1> DEFINE a == regs'[RegA(ir')]
           b == regs'[RegB(ir')]
<1>1. alu \in Word /\ newpsw \in Word
  OBVIOUS
<1>2. alu' = BeginAlu(state', ir', regs', psw', alu)
  BY DEF Begin
<1>3. alu' \in Word
  BY <1>1, <1>2, BeginType
<1>4. alu' = BeginAlu(state', ir', regs', psw', alu')
  BY <1>2, BeginAgain
<1>5. fatal' = (state' = "ARITH1" /\ BadAlu(ir'))
  BY DEF Begin
<1>6. newpsw' = IF state' = "ARITH1" /\ ~BadAlu(ir') THEN Arith(ir', a, b, psw').psw
                ELSE newpsw
  BY DEF Begin
<1>7. /\ newpsw' \in Word
      /\ state' = "ARITH1" /\ ~BadAlu(ir') => (IsSet(newpsw', 15) <=> IsSet(psw', 15))
  <2>1. CASE state' = "ARITH1" /\ ~BadAlu(ir')
    <3>1. a \in Word /\ b \in Word
      BY Fields
    <3>2. PICK c \in BOOLEAN : IsSet(psw', 0) <=> c
      BY DEF IsSet
    <3>3. /\ Arith(ir', a, b, psw').psw \in Word
          /\ IsSet(Arith(ir', a, b, psw').psw, 15) <=> IsSet(psw', 15)
      BY <2>1, <3>1, <3>2, ArithFlags
    <3>4. QED
      BY <1>6, <2>1, <3>3
  <2>2. CASE ~(state' = "ARITH1" /\ ~BadAlu(ir'))
    BY <1>1, <1>6, <2>2
  <2>3. QED
    BY <2>1, <2>2
<1>8. QED
  BY <1>3, <1>4, <1>5, <1>6, <1>7

(* The states Decode goes to, and so those a clock goes to. *)
LEMMA DecodeType ==
  ASSUME NEW m \in Word
  PROVE  Decode(m) \in Decoded \union {"bad"}
<1>1. Field3(m, 13) \in 0 .. 7
  BY FieldBits
<1>2. SpecialState(m) \in {"HALT1", "IRET1", "WRPS1", "RDPS1", "bad"}
  BY DEF SpecialState
<1>3. QED
  BY <1>1, <1>2 DEF Decode, Decoded

(* The sequencer takes data in the cycle after it has asked for them and gives
   them in the cycle after it has said so, and at no other time. *)
LEMMA Transfers ==
  ASSUME NEW m \in Word, NEW irq \in BOOLEAN, state \in Flops, EndOfState(m, irq)
  PROVE  /\ state' \in Flops
         /\ state' \in DataStates <=> state \in ReadStates
         /\ state' \in {"STORE2", "IREQ2", "IREQ4"} <=> state \in WriteStates
         /\ state' = "FETCH2" <=> state = "FETCH1"
         /\ state' = "IREQ4" <=> state = "IREQ3"
         /\ state' = "IREQ5" <=> state = "IREQ4"
         /\ state' = "RESET1" <=> state = "RESET0"
         /\ state' # "RESET0"
<1> DEFINE Goal == /\ state' \in Flops
                   /\ state' \in DataStates <=> state \in ReadStates
                   /\ state' \in {"STORE2", "IREQ2", "IREQ4"} <=> state \in WriteStates
                   /\ state' = "FETCH2" <=> state = "FETCH1"
                   /\ state' = "IREQ4" <=> state = "IREQ3"
                   /\ state' = "IREQ5" <=> state = "IREQ4"
                   /\ state' = "RESET1" <=> state = "RESET0"
                   /\ state' # "RESET0"
<1> SUFFICES Goal
  OBVIOUS
<1>1. ASSUME state' \in {"FETCH1", "IREQ1", "LOAD3"},
             state \notin {"RESET0", "FETCH1", "IREQ3", "IREQ4"} \union ReadStates \union WriteStates
      PROVE  Goal
  BY <1>1 DEF Flops, DataStates
<1>2. EndOfInst(irq) \in {"IREQ1", "FETCH1"}
  BY DEF EndOfInst
<1>3. CASE EndOnward
  BY <1>3 DEF EndOnward, Onward, Flops, DataStates, ReadStates, WriteStates
<1>4. CASE EndFetch2(m)
  <2>1. state = "FETCH2" /\ state' \in Decoded
    BY <1>4, DecodeType DEF EndFetch2
  <2>2. QED
    BY <2>1 DEF Decoded, Flops, DataStates, ReadStates, WriteStates
<1>5. CASE EndReset1
  BY <1>1, <1>5 DEF EndReset1, ReadStates, WriteStates
<1>6. CASE EndBcc1(irq)
  BY <1>1, <1>2, <1>6 DEF EndBcc1, ReadStates, WriteStates
<1>7. CASE EndArith1(irq)
  <2>1. state = "ARITH1" /\ state' \in {"IREQ1", "FETCH1"}
    BY <1>7 DEF EndArith1
  <2>2. QED
    BY <1>1, <2>1 DEF ReadStates, WriteStates
<1>8. CASE EndStore2OrHalt1(irq)
  BY <1>1, <1>2, <1>8 DEF EndStore2OrHalt1, ReadStates, WriteStates
<1>9. CASE EndLda1OrRdps1(irq)
  BY <1>1, <1>2, <1>9 DEF EndLda1OrRdps1, ReadStates, WriteStates
<1>10. CASE EndLoad2(m, irq)
  <2>1. state = "LOAD2" /\ state' \in {"LOAD3", "IREQ1", "FETCH1"}
    BY <1>2, <1>10 DEF EndLoad2
  <2>2. QED
    BY <1>1, <2>1 DEF ReadStates, WriteStates
<1>11. CASE EndLoad3(irq)
  BY <1>1, <1>2, <1>11 DEF EndLoad3, ReadStates, WriteStates
<1>12. CASE EndWrps1(irq)
  BY <1>1, <1>2, <1>12 DEF EndWrps1, ReadStates, WriteStates
<1>13. CASE EndIret2(m)
  BY <1>13 DEF EndIret2, Flops, DataStates, ReadStates, WriteStates
<1>14. CASE EndIret4(m, irq)
  BY <1>1, <1>2, <1>14 DEF EndIret4, ReadStates, WriteStates
<1>15. CASE EndIreq3
  BY <1>15 DEF EndIreq3, Flops, DataStates, ReadStates, WriteStates
<1>16. CASE EndIreq5
  BY <1>1, <1>16 DEF EndIreq5, ReadStates, WriteStates
<1> HIDE DEF Goal
<1>17. QED
  BY <1>3, <1>4, <1>5, <1>6, <1>7, <1>8, <1>9, <1>10, <1>11, <1>12, <1>13, <1>14, <1>15,
     <1>16 DEF EndOfState
-----------------------------------------------------------------------------
(* What one clock edge keeps, whatever the two machines have in common: words stay
   words, and the interrupt enable bit goes where the source puts it. *)
LEMMA AnyOrW == \A a, b : OrW(a, b) \in Word
<1> TAKE a, b
<1> DEFINE f == [i \in 0 .. 15 |-> Num(IsSet(a, i) \/ IsSet(b, i))]
<1>1. f \in [0 .. 15 -> {0, 1}]
  BY DEF Num
<1>2. OrW(a, b) = FromBits(f)
  BY DEF OrW
<1> HIDE DEF f
<1>3. QED
  BY <1>1, <1>2, FromBitsType

LEMMA AluWord ==
  ASSUME NEW a, NEW b, NEW cin, NEW add, NEW bonly, NEW irfc, NEW i
  PROVE  AluV(a, b, cin, add, bonly, irfc, i).d \in Word
<1> DEFINE
      Op(S)    == irfc /\ i % 16 \in S
      aena     == add \/ (irfc /\ IsSet(i, 3))
      bnot     == irfc /\ IsSet(i, 0)
      doaddsub == add \/ (irfc /\ IsSet(i, 2))
      x        == Gate(aena, a)
      y        == IF bnot THEN NotW(b) ELSE b
      rawcin   == Eor(Op({6, 7}) \/ (Op({14, 15}) /\ cin), bnot)
      sumlo    == (x % 32768) + (y % 32768) + Num(rawcin)
      sumhi    == Bit(x, 15) + Bit(y, 15) + Bit(sumlo, 15)
      sum      == 32768 * (sumhi % 2) + (sumlo % 32768)
      shrtop   == (IsSet(a, 15) /\ IsSet(i, 0)) \/ (cin /\ IsSet(i, 1))
      shr      == 32768 * Num(shrtop) + a \div 2
<1>1. AluV(a, b, cin, add, bonly, irfc, i).d =
        OrW(OrW(Gate(doaddsub, sum), Gate(Op({10}), XorW(x, b))),
            OrW(OrW(Gate(Op({9}), AndW(x, b)), Gate(bonly \/ Op({8}), OrW(x, b))),
                Gate(Op({0, 1, 2, 3}), shr)))
  BY SMT DEF AluV
<1> HIDE DEF Op, doaddsub, x, sum, shr
<1>2. QED
  BY <1>1, AnyOrW

LEMMA ArithTypes ==
  ASSUME NEW i, NEW a, NEW b, NEW c \in BOOLEAN
  PROVE  FlagsOf(ArithV(i, a, b, c)) \in Flags
<1> DEFINE x == ArithV(i, a, b, c)
           d == x.d
           l == IsSet(Low(i, a, b, c), 15)
           h == High(i, a, b, c) \div 2 = 1
<1>1. x.n = IsSet(d, 15) /\ x.z = (d = 0)
  BY ArithVZero
<1>2. x.v = IF IsSet(i, 2) THEN Eor(l, h) ELSE FALSE
  BY ArithVOverflow
<1>3. x.c = IF ~IsSet(i, 3) /\ ~IsSet(i, 2) THEN IsSet(a, 0)
            ELSE IF IsSet(i, 3) /\ IsSet(i, 2) THEN Eor(h, IsSet(i, 0)) ELSE c
  BY ArithVCarry
<1> HIDE DEF x, d, l, h
<1>4. x.n \in BOOLEAN /\ x.z \in BOOLEAN
  BY <1>1 DEF IsSet
<1>5. x.v \in BOOLEAN
  BY <1>2, Zenon DEF Eor
<1>6. x.c \in BOOLEAN
  BY <1>3, Zenon DEF Eor, IsSet
<1>7. FlagsOf(x) \in Flags
  BY <1>4, <1>5, <1>6 DEF FlagsOf, Flags
<1>8. QED
  BY <1>7 DEF x

LEMMA De0Keeps ==
  ASSUME NEW s \in Flops, q = {s}, De0TypeOK, NEW m \in Word, NEW irq, De0Clock(m, irq)
  PROVE  De0TypeOK'
<1> DEFINE i == IR(m)
           x == Alu(m)
           a == QA(i)
           b == alub(i, m)
           c == nzvc.c
<1>1. i \in Word /\ c \in BOOLEAN
  BY DEF IR, De0TypeOK, Flags
<1>2. x.d \in Word
  BY AluWord DEF Alu
<1>3. s = "ARITH1" => FlagsOf(x) \in Flags
  <2>1. x = AluV(a, b, c, Ctl("ALU_ADD"), ALU_BONLY, Ctl("ALU_IRFC"), i)
    BY DEF Alu
  <2> HIDE DEF i, x, a, b, c
  <2>2. ASSUME s = "ARITH1" PROVE FlagsOf(x) \in Flags
    <3>1. Ctl("ALU_ADD") = FALSE /\ ALU_BONLY = FALSE /\ Ctl("ALU_IRFC") = TRUE
      BY <2>2, Lines DEF Ctl, AnyOf, ALU_BONLY
    <3>2. x = ArithV(i, a, b, c)
      BY <2>1, <3>1 DEF ArithV
    <3>3. QED
      BY <1>1, <3>2, ArithTypes
  <2>3. QED
    BY <2>2
<1>4. De0Edge(i, x, irq)
  BY DEF De0Clock
<1> HIDE DEF i, x, a, b, c
<1>5. q' \subseteq Flops
  BY <1>4 DEF De0Edge, PosedgeClock
<1>6. irlat' \in Word
  BY <1>1, <1>4 DEF De0Edge
<1>7. rq' \in [0 .. 7 -> Word]
  <2>1. \A r \in 0 .. 7 : rq[r] \in Word
    BY DEF De0TypeOK
  <2>2. rq' = [r \in 0 .. 7 |-> IF \/ GPRS_WED(i) /\ RegAt(i, 9) = r
                                   \/ r = 7 /\ GPRS_WE7(pswbt(i))
                                THEN x.d ELSE rq[r]]
    BY <1>4 DEF De0Edge
  <2>3. QED
    BY <1>2, <2>1, <2>2
<1>8. ieff' \in BOOLEAN
  BY <1>4 DEF De0Edge
<1>9. nzvc' \in Flags
  <2>1. Ctl("PSW_ALUWE") <=> s = "ARITH1"
    BY Lines
  <2>2. nzvc' = IF Ctl("PSW_WE") THEN FlagsIn(x.d)
                ELSE IF Ctl("PSW_ALUWE") THEN FlagsOf(x) ELSE nzvc
    BY <1>4 DEF De0Edge, FlagsIn, FlagsOf
  <2>3. FlagsIn(x.d) \in Flags
    BY <1>2, LoadedPsw
  <2>4. QED
    BY <1>3, <2>1, <2>2, <2>3 DEF De0TypeOK
<1>10. QED
  BY <1>5, <1>6, <1>7, <1>8, <1>9 DEF De0TypeOK

(* WRPS1 and IRET4 pass a register and the word from memory through the ALU. *)
LEMMA PassesOn ==
  ASSUME NEW s \in {"WRPS1", "IRET4"}, q = {s}, De0TypeOK, NEW m \in Word
  PROVE  MD(m) = IF s = "IRET4" THEN m ELSE rq[RegB(irlat)]
<1> DEFINE i == IR(m)
           a == QA(i)
           b == alub(i, m)
           c == nzvc.c
<1>1. s \in Flops /\ i = irlat /\ i \in Word /\ c \in BOOLEAN /\ rq \in [0 .. 7 -> Word]
  <2>1. s \in Flops
    BY DEF Flops
  <2>2. ~Ctl("IR_WE")
    BY <2>1, Lines
  <2>3. QED
    BY <2>1, <2>2 DEF IR, De0TypeOK, Flags
<1>2. a \in Word
  BY <1>1, BusA
<1>3. b \in Word /\ b = IF s = "IRET4" THEN m ELSE rq[RegB(irlat)]
  BY <1>1, BusB
<1>4. MD(m) = AluV(a, b, c, Ctl("ALU_ADD"), ALU_BONLY, Ctl("ALU_IRFC"), i).d
  BY DEF MD, Alu
<1>5. Ctl("ALU_ADD") = FALSE /\ ALU_BONLY = TRUE /\ Ctl("ALU_IRFC") = FALSE
  BY <1>1, Lines DEF Ctl, AnyOf, ALU_BONLY
<1> HIDE DEF i, a, b, c
<1>6. MD(m) = OrW(b, 0)
  <2>1. AluV(a, b, c, FALSE, TRUE, FALSE, i).d = OrW(b, 0)
    <3>1. a \in Word /\ b \in Word /\ c \in BOOLEAN /\ i \in Word
      BY <1>1, <1>2, <1>3
    <3>2. QED
      BY <3>1, AluPasses
  <2>2. QED
    BY <1>4, <1>5, <2>1
<1>7. QED
  BY <1>3, <1>6, OrZero


(* LoadPsw copies the interrupt enable bit; the model's registers stay words and
   its own copy of that bit changes in six states only. *)
LEMMA LoadedBit ==
  ASSUME NEW w \in Word
  PROVE  LoadPsw(w) \in Word /\ (IsSet(LoadPsw(w), 15) <=> IsSet(w, 15))
<1>1. FlagsIn(w) \in Flags /\ LoadPsw(w) = PswOf(IsSet(w, 15), FlagsIn(w))
  BY LoadedPsw
<1>2. IsSet(w, 15) \in BOOLEAN
  BY DEF IsSet
<1> DEFINE f == FlagsIn(w)
           e == IsSet(w, 15)
<1> HIDE DEF f, e
<1>3. PswOf(e, f) \in Word /\ (IsSet(PswOf(e, f), 15) <=> e)
  BY <1>1, <1>2, PswBits DEF f, e
<1>4. QED
  BY <1>1, <1>3 DEF f, e

LEMMA TopCleared ==
  /\ 0 \in Word /\ ~IsSet(0, 15)
  /\ \A w \in Word : w % 32768 \in Word /\ ~IsSet(w % 32768, 15)
<1>1. 0 \in Word
  BY WordIs
<1>2. ASSUME NEW w \in Word PROVE w % 32768 \in Word /\ ~IsSet(w % 32768, 15)
  <2>1. w \in Int /\ 0 <= w /\ w < 65536
    BY WordIs
  <2>2. w % 32768 \in Int /\ 0 <= w % 32768 /\ w % 32768 < 32768
    BY <2>1
  <2>3. w % 32768 \in Word
    BY <2>2, WordIs
  <2>4. QED
    BY <2>2, <2>3, TopBit
<1>3. ~IsSet(0, 15)
  BY <1>1, TopBit
<1>4. QED
  BY <1>1, <1>2, <1>3


IeAfter(m) ==
    CASE state = "WRPS1" -> IsSet(alu, 15)
      [] state = "IRET4" -> IsSet(m, 15)
      [] state = "ARITH1" -> IsSet(newpsw, 15)
      [] state \in {"RESET1", "IREQ3"} -> FALSE
      [] OTHER -> IsSet(psw, 15)

LEMMA EndTypes ==
  ASSUME ShadowTypeOK, NEW m \in Word, NEW irq \in BOOLEAN, EndOfState(m, irq)
  PROVE  /\ ir' \in Word /\ regs' \in [0 .. 7 -> Word] /\ psw' \in Word
         /\ IsSet(psw', 15) <=> IeAfter(m)
         /\ ir' = IF state = "FETCH2" THEN m ELSE ir
         /\ state \in WriteStates \union {"FETCH1"} => regs' = regs
<1> DEFINE Status == psw' \in Word /\ (IsSet(psw', 15) <=> IeAfter(m))
           Latch == ir' = IF state = "FETCH2" THEN m ELSE ir
           File == /\ regs' \in [0 .. 7 -> Word]
                   /\ state \in WriteStates \union {"FETCH1"} => regs' = regs
<1>1. /\ state \in Flops /\ ir \in Word /\ regs \in [0 .. 7 -> Word]
      /\ psw \in Word /\ alu \in Word /\ newpsw \in Word
  BY DEF ShadowTypeOK, States, Flops
<1> SUFFICES Status /\ Latch /\ File
  BY <1>1
<1>2. ASSUME psw' = psw, state \notin {"WRPS1", "IRET4", "ARITH1", "RESET1", "IREQ3"}
      PROVE  Status
  BY <1>1, <1>2 DEF IeAfter
<1>3. ASSUME regs' = regs PROVE File
  BY <1>1, <1>3
<1>4. ASSUME NEW r \in 0 .. 7, NEW w \in Word, SetReg(r, w),
             state \notin WriteStates \union {"FETCH1"}
      PROVE  File
  BY <1>1, <1>4 DEF SetReg
<1>5. 7 \in 0 .. 7 /\ RegD(ir) \in 0 .. 7 /\ LoadedWord(ir, m) \in Word
  BY <1>1, Fields, Loaded
<1> HIDE DEF Status, File
<1>6. CASE EndOnward
  <2>1. state \notin {"WRPS1", "IRET4", "ARITH1", "RESET1", "IREQ3", "FETCH2"}
    BY <1>6 DEF EndOnward, Onward
  <2>2. QED
    BY <1>2, <1>3, <1>6, <2>1 DEF EndOnward
<1>7. CASE EndReset1
  <2>1. Status
    BY <1>7, LoadedBit, TopCleared DEF EndReset1, IeAfter, Status
  <2>2. File
    BY <1>4, <1>5, <1>7, TopCleared DEF EndReset1, WriteStates
  <2>3. QED
    BY <1>7, <2>1, <2>2 DEF EndReset1
<1>8. CASE EndFetch2(m)
  BY <1>1, <1>2, <1>4, <1>5, <1>8 DEF EndFetch2, WriteStates
<1>9. CASE EndBcc1(irq)
  BY <1>1, <1>2, <1>3, <1>4, <1>5, <1>9 DEF EndBcc1, WriteStates
<1>10. CASE EndArith1(irq)
  <2>1. Status
    <3>1. state = "ARITH1" /\ psw' = LoadPsw(newpsw)
      BY <1>10 DEF EndArith1
    <3>2. QED
      BY <1>1, <3>1, LoadedBit DEF IeAfter, Status
  <2>2. File
    BY <1>1, <1>3, <1>4, <1>5, <1>10 DEF EndArith1, WriteStates
  <2>3. QED
    BY <1>10, <2>1, <2>2 DEF EndArith1
<1>11. CASE EndStore2OrHalt1(irq)
  BY <1>2, <1>3, <1>11 DEF EndStore2OrHalt1
<1>12. CASE EndLda1OrRdps1(irq)
  BY <1>1, <1>2, <1>4, <1>5, <1>12 DEF EndLda1OrRdps1, WriteStates
<1>13. CASE EndLoad2(m, irq)
  BY <1>1, <1>2, <1>4, <1>5, <1>13 DEF EndLoad2, WriteStates
<1>14. CASE EndLoad3(irq)
  BY <1>1, <1>2, <1>4, <1>5, <1>14 DEF EndLoad3, WriteStates
<1>15. CASE EndWrps1(irq)
  <2>1. Status
    BY <1>1, <1>15, LoadedBit DEF EndWrps1, IeAfter, Status
  <2>2. QED
    BY <1>3, <1>15, <2>1 DEF EndWrps1
<1>16. CASE EndIret2(m)
  BY <1>1, <1>2, <1>4, <1>5, <1>16 DEF EndIret2, WriteStates
<1>17. CASE EndIret4(m, irq)
  <2>1. Status
    BY <1>1, <1>17, LoadedBit DEF EndIret4, IeAfter, Status
  <2>2. QED
    BY <1>3, <1>17, <2>1 DEF EndIret4
<1>18. CASE EndIreq3
  <2>1. Status
    BY <1>1, <1>18, TopCleared DEF EndIreq3, IeAfter, Status
  <2>2. QED
    BY <1>3, <1>18, <2>1 DEF EndIreq3
<1>19. CASE EndIreq5
  BY <1>1, <1>2, <1>4, <1>5, <1>19 DEF EndIreq5, WriteStates
<1> HIDE DEF Latch
<1>20. QED
  BY <1>6, <1>7, <1>8, <1>9, <1>10, <1>11, <1>12, <1>13, <1>14, <1>15, <1>16, <1>17,
     <1>18, <1>19 DEF EndOfState


LEMMA ClockKeeps ==
  ASSUME ShadowTypeOK, NEW m \in Word, NEW irq \in BOOLEAN, Clock(m, irq)
  PROVE  /\ ShadowTypeOK'
         /\ ~fatal' => EndOfState(m, irq) /\ Begin
         /\ state' = "FETCH2" => state \in {"FETCH1", "FETCH2"}
<1>1. /\ state \in Flops /\ ir \in Word /\ regs \in [0 .. 7 -> Word]
      /\ psw \in Word /\ alu \in Word /\ newpsw \in Word
  BY DEF ShadowTypeOK, States, Flops
<1>2. CASE EndOfState(m, irq) /\ Begin
  <2>1. ir' \in Word /\ regs' \in [0 .. 7 -> Word] /\ psw' \in Word
    BY <1>2, EndTypes
  <2>2. state' \in Flops /\ (state' = "FETCH2" <=> state = "FETCH1")
    BY <1>1, <1>2, Transfers
  <2>3. alu' \in Word /\ newpsw' \in Word /\ fatal' \in BOOLEAN
    BY <1>1, <1>2, <2>1, <2>2, BeginStep
  <2>4. state' \in States
    BY <2>2 DEF Flops, States
  <2>5. QED
    BY <1>2, <2>1, <2>2, <2>3, <2>4 DEF ShadowTypeOK
<1>3. CASE Puque(m)
  <2>1. /\ state = "FETCH2" /\ state' = state /\ fatal' = TRUE /\ ir' = m
        /\ psw' = psw /\ alu' = alu /\ newpsw' = newpsw
        /\ regs' = [regs EXCEPT ![7] = alu]
    BY <1>3 DEF Puque, SetReg
  <2>2. regs' \in [0 .. 7 -> Word]
    BY <1>1, <2>1
  <2>3. QED
    BY <1>1, <2>1, <2>2 DEF ShadowTypeOK
<1>4. QED
  BY <1>2, <1>3 DEF Clock
-----------------------------------------------------------------------------
(* The two processors together: they hold the same state, registers, status word
   and instruction, what the model computed at the beginning of the state is what
   the registers it was computed from still give, and IE is clear from IREQ4 on.
   m is the word on the MQ bus during the cycle. *)
Running ==
    /\ SameState
    /\ irlat = ir
    /\ state \notin {"RESET0", "RESET1"}
    /\ state \in {"IREQ4", "IREQ5"} => ~ieff
    /\ alu = BeginAlu(state, ir, regs, psw, alu)
    /\ state = "ARITH1" =>
         /\ ~BadAlu(ir)
         /\ newpsw = Arith(ir, regs[RegA(ir)], regs[RegB(ir)], psw).psw

Together == ShadowTypeOK /\ De0TypeOK /\ Running

(* What the two hold in common while the model has not stopped. *)
LEMMA InstrSame ==
  ASSUME Together, NEW m \in Word
  PROVE  /\ state \in Flops \ {"RESET0", "RESET1"} /\ q = {state}
         /\ rq = regs /\ rq \in [0 .. 7 -> Word]
         /\ irlat = ir /\ psw = PswOf(ieff, nzvc)
         /\ IR(m) = IF state = "FETCH2" THEN m ELSE ir
         /\ IR(m) \in Word /\ m \in Word
         /\ ieff \in BOOLEAN /\ nzvc \in Flags /\ nzvc.c \in BOOLEAN
         /\ IsSet(psw, 15) <=> ieff
         /\ IsSet(psw, 0) <=> nzvc.c
         /\ BranchTrue(ir, psw) <=> pswbt(ir)
<1>1. Running /\ ShadowTypeOK /\ De0TypeOK
  BY DEF Together
<1>2. state \in Flops \ {"RESET0", "RESET1"} /\ q = {state}
  BY <1>1 DEF Running, SameState, ShadowTypeOK, States, Flops
<1>3. rq = regs /\ irlat = ir /\ psw = PswOf(ieff, nzvc)
  BY <1>1 DEF Running, SameState
<1>4. rq \in [0 .. 7 -> Word] /\ ieff \in BOOLEAN /\ nzvc \in Flags /\ nzvc.c \in BOOLEAN
      /\ ir \in Word /\ psw \in Word
  BY <1>1 DEF De0TypeOK, ShadowTypeOK, Flags
<1>5. m \in Word
  OBVIOUS
<1>6. IR(m) = IF state = "FETCH2" THEN m ELSE ir
  BY <1>2, <1>3, Lines DEF IR
<1>7. /\ IsSet(psw, 15) <=> ieff
      /\ IsSet(psw, 3) <=> nzvc.n
      /\ IsSet(psw, 2) <=> nzvc.z
      /\ IsSet(psw, 1) <=> nzvc.v
      /\ IsSet(psw, 0) <=> nzvc.c
  BY <1>3, <1>4, PswBits
<1>8. BranchTrue(ir, psw) <=> pswbt(ir)
  BY <1>4, <1>7, SameBranch
<1>9. QED
  BY <1>2, <1>3, <1>4, <1>5, <1>6, <1>7, <1>8

Adding  == {"FETCH1", "FETCH2", "BCC1", "STORE1", "LDA1", "LOAD1", "IREQ4", "LOAD3"}
Passing == {"STORE2", "LOAD2", "WRPS1", "RDPS1", "IRET1", "IRET2", "IRET3", "IRET4", "HALT1",
            "IREQ1", "IREQ2", "IREQ3", "IREQ5"}

(* What the ALU of the FPGA shows in state s, from the registers of the FPGA alone:
   what Shadow::clock would compute from them, and what comes from memory in the
   states that read it.  m is the word on the MQ bus. *)
LEMMA AluShows ==
  ASSUME NEW s \in Flops \ {"RESET0", "RESET1"}, q = {s}, De0TypeOK, NEW m \in Word,
         s = "ARITH1" => ~BadAlu(irlat), NEW old
  PROVE  /\ IR(m) = IF s = "FETCH2" THEN m ELSE irlat
         /\ IR(m) \in Word
         /\ MD(m) \in Word
         /\ s = "LOAD2" => MD(m) = LoadedWord(irlat, m)
         /\ s \in {"IRET2", "IRET4"} => MD(m) = m
         /\ s \notin {"LOAD2", "IRET2", "IRET4"} =>
              MD(m) = BeginAlu(s, irlat, rq, PswOf(ieff, nzvc), old)
         /\ s = "ARITH1" =>
              Alu(m) = ArithV(irlat, rq[RegA(irlat)], rq[RegB(irlat)], nzvc.c)
<1> DEFINE i == IR(m)
           a == QA(i)
           b == alub(i, m)
           c == nzvc.c
           p == PswOf(ieff, nzvc)
<1>1. /\ s \in Flops /\ rq \in [0 .. 7 -> Word] /\ irlat \in Word /\ m \in Word
      /\ c \in BOOLEAN /\ p \in Word /\ (IsSet(p, 0) <=> c)
  BY PswBits DEF De0TypeOK, Flags
<1>2. i = (IF s = "FETCH2" THEN m ELSE irlat) /\ i \in Word
  BY <1>1, Lines DEF IR
<1>3. a \in Word /\ b \in Word
  BY <1>1, <1>2, BusA, BusB
<1>4. s \in Adding \union Passing \union {"ARITH1"}
  BY <1>1 DEF Flops, Adding, Passing
<1>5. Alu(m) = AluV(a, b, c, Ctl("ALU_ADD"), ALU_BONLY, Ctl("ALU_IRFC"), i)
  BY DEF Alu
<1> HIDE DEF i, a, b, c, p
<1>6. CASE s \in Adding
  <2>1. Ctl("ALU_ADD") = TRUE /\ ALU_BONLY = FALSE /\ Ctl("ALU_IRFC") = FALSE
    BY <1>1, <1>6, Lines DEF Adding, Ctl, AnyOf, ALU_BONLY
  <2>2. Alu(m) = AluV(a, b, c, TRUE, FALSE, FALSE, i)
    BY <1>5, <2>1
  <2>3. AluV(a, b, c, TRUE, FALSE, FALSE, i).d = AddW(a, b)
    <3>1. a \in Word /\ b \in Word /\ c \in BOOLEAN /\ i \in Word
      BY <1>1, <1>2, <1>3
    <3>2. QED
      BY <3>1, AluAdds
  <2>4. AddW(a, b) \in Word
    BY <1>3, AddWIs, WordIs
  <2>5. /\ s \in {"FETCH1", "IREQ4"} => a = rq[7] /\ b = 0
        /\ s \in {"FETCH2", "LOAD3"} => a = rq[7] /\ b = 2
        /\ s = "BCC1" => a = rq[7] /\ b = BrOffset(irlat)
        /\ s \in {"STORE1", "LDA1", "LOAD1"} => a = rq[RegA(irlat)] /\ b = LsOffset(irlat)
    BY <1>1, <1>2, BusA, BusB DEF a, b
  <2>6. rq[7] \in Word /\ AddW(rq[7], 0) = rq[7]
    <3>1. rq[7] \in Word
      BY <1>1
    <3>2. rq[7] \in Int /\ 0 <= rq[7] /\ rq[7] < 65536
      BY <3>1, WordIs
    <3>3. AddW(rq[7], 0) = (rq[7] + 0) % 65536
      BY DEF AddW, WordSize
    <3>4. QED
      BY <3>1, <3>2, <3>3
  <2>7. AddW(a, b) = BeginAlu(s, irlat, rq, p, old)
    BY <1>6, <2>5, <2>6, BeginIs DEF Adding
  <2>8. QED
    BY <1>2, <1>6, <2>2, <2>3, <2>4, <2>7 DEF Adding, MD, i, p
<1>7. CASE s \in Passing
  <2>1. Ctl("ALU_ADD") = FALSE /\ ALU_BONLY = TRUE /\ Ctl("ALU_IRFC") = FALSE
    BY <1>1, <1>7, Lines DEF Passing, Ctl, AnyOf, ALU_BONLY
  <2>2. Alu(m) = AluV(a, b, c, FALSE, TRUE, FALSE, i)
    BY <1>5, <2>1
  <2>3. AluV(a, b, c, FALSE, TRUE, FALSE, i).d = b
    <3>1. a \in Word /\ b \in Word /\ c \in BOOLEAN /\ i \in Word
      BY <1>1, <1>2, <1>3
    <3>2. AluV(a, b, c, FALSE, TRUE, FALSE, i).d = OrW(b, 0)
      BY <3>1, AluPasses
    <3>3. QED
      BY <3>1, <3>2, OrZero
  <2>4. /\ s = "STORE2" => b = rq[RegD(irlat)]
        /\ s = "LOAD2" => b = LoadedWord(irlat, m)
        /\ s \in {"WRPS1", "HALT1"} => b = rq[RegB(irlat)]
        /\ s \in {"RDPS1", "IREQ2"} => b = p
        /\ s \in {"IRET1", "IREQ3"} => b = 65532
        /\ s \in {"IRET3", "IREQ1"} => b = 65534
        /\ s \in {"IRET2", "IRET4"} => b = m
        /\ s = "IREQ5" => b = 2
    BY <1>1, <1>2, BusB DEF b, p
  <2>5. s \notin {"LOAD2", "IRET2", "IRET4"} => b = BeginAlu(s, irlat, rq, p, old)
    BY <1>7, <2>4, BeginIs DEF Passing
  <2>6. MD(m) = b
    BY <2>2, <2>3 DEF MD
  <2>7. QED
    BY <1>2, <1>3, <1>7, <2>4, <2>5, <2>6 DEF Passing, i, p
<1>8. CASE s = "ARITH1"
  <2>1. Ctl("ALU_ADD") = FALSE /\ ALU_BONLY = FALSE /\ Ctl("ALU_IRFC") = TRUE
    BY <1>1, <1>8, Lines DEF Ctl, AnyOf, ALU_BONLY
  <2>2. Alu(m) = AluV(a, b, c, FALSE, FALSE, TRUE, i)
    BY <1>5, <2>1
  <2>3. i = irlat /\ a = rq[RegA(irlat)] /\ b = rq[RegB(irlat)]
    BY <1>1, <1>2, <1>8, BusA, BusB DEF a, b
  <2>4. Alu(m) = ArithV(irlat, rq[RegA(irlat)], rq[RegB(irlat)], c)
    BY <2>2, <2>3 DEF ArithV
  <2>5. SameArith(irlat, rq[RegA(irlat)], rq[RegB(irlat)], c, p)
    BY <1>1, <1>2, <1>3, <1>8, <2>3, AnyArithSame
  <2>6. BeginAlu(s, irlat, rq, p, old) = ArithResult(irlat, rq[RegA(irlat)], rq[RegB(irlat)], p)
    BY <1>8, BeginIs
  <2>7. QED
    BY <1>2, <1>8, <2>4, <2>5, <2>6 DEF MD, SameArith, i, c, p
<1>9. QED
  BY <1>4, <1>6, <1>7, <1>8

(* The ALU of the FPGA shows what Shadow::clock computed for the state, and what
   comes from memory in the states that read it. *)
LEMMA AluSame ==
  ASSUME Together, NEW m \in Word
  PROVE  /\ MD(m) \in Word
         /\ state = "LOAD2" => MD(m) = LoadedWord(ir, m)
         /\ state \in {"IRET2", "IRET4"} => MD(m) = m
         /\ state \notin {"LOAD2", "IRET2", "IRET4"} => MD(m) = alu
         /\ state = "ARITH1" =>
              Alu(m) = ArithV(ir, regs[RegA(ir)], regs[RegB(ir)], nzvc.c)
<1>1. /\ state \in Flops \ {"RESET0", "RESET1"} /\ q = {state} /\ rq = regs
      /\ irlat = ir /\ psw = PswOf(ieff, nzvc) /\ m \in Word
  BY InstrSame
<1>2. De0TypeOK /\ alu = BeginAlu(state, ir, regs, psw, alu) /\ (state = "ARITH1" => ~BadAlu(ir))
  BY DEF Together, Running
<1>3. /\ MD(m) \in Word
      /\ state = "LOAD2" => MD(m) = LoadedWord(irlat, m)
      /\ state \in {"IRET2", "IRET4"} => MD(m) = m
      /\ state \notin {"LOAD2", "IRET2", "IRET4"} =>
              MD(m) = BeginAlu(state, irlat, rq, PswOf(ieff, nzvc), alu)
      /\ state = "ARITH1" =>
              Alu(m) = ArithV(irlat, rq[RegA(irlat)], rq[RegB(irlat)], nzvc.c)
  BY <1>1, <1>2, AluShows
<1>4. QED
  BY <1>1, <1>2, <1>3

(* The lines the table of de0/seq.v raises in each state. *)
Raised(s) == {c \in Controls : s \in Microcode[c]}

LEMMA RaisedIs ==
  /\ Raised("FETCH1") = {"ALU_ADD", "BMUX_CON_0", "GPRS_REA7", "MEM_READ"}
  /\ Raised("FETCH2") = {"ALU_ADD", "BMUX_CON_2", "GPRS_REA7", "IR_WE"}
  /\ Raised("BCC1") = {"ALU_ADD", "BMUX_IRBROF", "GPRS_REA7"}
  /\ Raised("ARITH1") = {"ALU_IRFC", "GPRS_REA", "GPRS_REB", "PSW_ALUWE"}
  /\ Raised("STORE1") = {"ALU_ADD", "BMUX_IRLSOF", "GPRS_REA", "MEM_WRITE"}
  /\ Raised("STORE2") = {"GPRS_RED2B"}
  /\ Raised("LDA1") = {"ALU_ADD", "BMUX_IRLSOF", "GPRS_REA"}
  /\ Raised("LOAD1") = {"ALU_ADD", "BMUX_IRLSOF", "GPRS_REA", "MEM_READ"}
  /\ Raised("LOAD2") = {"MEM_REB"}
  /\ Raised("LOAD3") = {"ALU_ADD", "BMUX_CON_2", "GPRS_REA7"}
  /\ Raised("WRPS1") = {"GPRS_REB", "PSW_WE"}
  /\ Raised("RDPS1") = {"PSW_REB"}
  /\ Raised("IRET1") = {"BMUX_CON__4", "MEM_READ"}
  /\ Raised("IRET2") = {"MEM_REB"}
  /\ Raised("IRET3") = {"BMUX_CON_2", "BMUX_CON__4", "MEM_READ"}
  /\ Raised("IRET4") = {"MEM_REB", "PSW_WE"}
  /\ Raised("HALT1") = {"GPRS_REB", "HALT"}
  /\ Raised("IREQ1") = {"BMUX_CON_2", "BMUX_CON__4", "MEM_WRITE"}
  /\ Raised("IREQ2") = {"PSW_REB"}
  /\ Raised("IREQ3") = {"BMUX_CON__4", "MEM_WRITE"}
  /\ Raised("IREQ4") = {"ALU_ADD", "BMUX_CON_0", "GPRS_REA7", "PSW_IECLR"}
  /\ Raised("IREQ5") = {"BMUX_CON_2"}
<1>1. Raised("FETCH1") = {"ALU_ADD", "BMUX_CON_0", "GPRS_REA7", "MEM_READ"}
  BY DEF Raised, Controls, Microcode
<1>2. Raised("FETCH2") = {"ALU_ADD", "BMUX_CON_2", "GPRS_REA7", "IR_WE"}
  BY DEF Raised, Controls, Microcode
<1>3. Raised("BCC1") = {"ALU_ADD", "BMUX_IRBROF", "GPRS_REA7"}
  BY DEF Raised, Controls, Microcode
<1>4. Raised("ARITH1") = {"ALU_IRFC", "GPRS_REA", "GPRS_REB", "PSW_ALUWE"}
  BY DEF Raised, Controls, Microcode
<1>5. Raised("STORE1") = {"ALU_ADD", "BMUX_IRLSOF", "GPRS_REA", "MEM_WRITE"}
  BY DEF Raised, Controls, Microcode
<1>6. Raised("STORE2") = {"GPRS_RED2B"}
  BY DEF Raised, Controls, Microcode
<1>7. Raised("LDA1") = {"ALU_ADD", "BMUX_IRLSOF", "GPRS_REA"}
  BY DEF Raised, Controls, Microcode
<1>8. Raised("LOAD1") = {"ALU_ADD", "BMUX_IRLSOF", "GPRS_REA", "MEM_READ"}
  BY DEF Raised, Controls, Microcode
<1>9. Raised("LOAD2") = {"MEM_REB"}
  BY DEF Raised, Controls, Microcode
<1>10. Raised("LOAD3") = {"ALU_ADD", "BMUX_CON_2", "GPRS_REA7"}
  BY DEF Raised, Controls, Microcode
<1>11. Raised("WRPS1") = {"GPRS_REB", "PSW_WE"}
  BY DEF Raised, Controls, Microcode
<1>12. Raised("RDPS1") = {"PSW_REB"}
  BY DEF Raised, Controls, Microcode
<1>13. Raised("IRET1") = {"BMUX_CON__4", "MEM_READ"}
  BY DEF Raised, Controls, Microcode
<1>14. Raised("IRET2") = {"MEM_REB"}
  BY DEF Raised, Controls, Microcode
<1>15. Raised("IRET3") = {"BMUX_CON_2", "BMUX_CON__4", "MEM_READ"}
  BY DEF Raised, Controls, Microcode
<1>16. Raised("IRET4") = {"MEM_REB", "PSW_WE"}
  BY DEF Raised, Controls, Microcode
<1>17. Raised("HALT1") = {"GPRS_REB", "HALT"}
  BY DEF Raised, Controls, Microcode
<1>18. Raised("IREQ1") = {"BMUX_CON_2", "BMUX_CON__4", "MEM_WRITE"}
  BY DEF Raised, Controls, Microcode
<1>19. Raised("IREQ2") = {"PSW_REB"}
  BY DEF Raised, Controls, Microcode
<1>20. Raised("IREQ3") = {"BMUX_CON__4", "MEM_WRITE"}
  BY DEF Raised, Controls, Microcode
<1>21. Raised("IREQ4") = {"ALU_ADD", "BMUX_CON_0", "GPRS_REA7", "PSW_IECLR"}
  BY DEF Raised, Controls, Microcode
<1>22. Raised("IREQ5") = {"BMUX_CON_2"}
  BY DEF Raised, Controls, Microcode
<1>23. QED
  BY <1>1, <1>2, <1>3, <1>4, <1>5, <1>6, <1>7, <1>8, <1>9, <1>10, <1>11, <1>12, <1>13, <1>14, <1>15, <1>16, <1>17, <1>18, <1>19, <1>20, <1>21, <1>22

(* Every control line the FPGA raises, and the ones check_c asks for: the same
   but for those it does not look at. *)
LEMMA ControlsOn ==
  ASSUME Together, NEW m \in Word
  PROVE  /\ ControlOn(m) =
              Raised(state)
              \union (IF state \in Passing THEN {"ALU_BONLY"} ELSE {})
              \union (IF state \in {"LOAD1", "LOAD2", "STORE1"} /\ ByteAccess(ir)
                      THEN {} ELSE {"MEM_WORD"})
              \union (IF state \in {"FETCH2", "IREQ5", "IRET2", "LOAD3"}
                         \/ (state = "BCC1" /\ BranchTrue(ir, psw))
                      THEN {"GPRS_WE7"} ELSE {})
              \union (IF state \in {"LDA1", "LOAD2", "RDPS1"}
                         \/ (state = "ARITH1" /\ RegD(ir) # 7)
                      THEN {"GPRS_WED"} ELSE {})
              \union (IF ieff THEN {"PSW_IE"} ELSE {})
              \union (IF pswbt(IR(m)) THEN {"PSW_BT"} ELSE {})
         /\ state = "BCC1" => (pswbt(IR(m)) <=> BranchTrue(ir, psw))
<1> DEFINE i == IR(m)
<1>1. /\ state \in Flops \ {"RESET0", "RESET1"} /\ q = {state}
      /\ i = (IF state = "FETCH2" THEN m ELSE ir) /\ i \in Word
      /\ BranchTrue(ir, psw) <=> pswbt(ir)
  BY InstrSame
<1>2. {c \in Controls : Ctl(c)} = Raised(state)
  BY <1>1, Alone DEF Raised, Ctl
<1>3. ALU_BONLY <=> state \in Passing
  BY <1>1, Lines DEF Passing, Flops
<1>4. MEM_WORD(i) <=> ~(state \in {"LOAD1", "LOAD2", "STORE1"} /\ ByteAccess(ir))
  BY <1>1, Alone DEF MEM_WORD, ByteAccess
<1>5. GPRS_WE7(pswbt(i)) <=> state \in {"FETCH2", "IREQ5", "IRET2", "LOAD3"}
                              \/ (state = "BCC1" /\ BranchTrue(ir, psw))
  BY <1>1, Alone DEF GPRS_WE7
<1>6. GPRS_WED(i) <=> state \in {"LDA1", "LOAD2", "RDPS1"}
                       \/ (state = "ARITH1" /\ RegD(ir) # 7)
  BY <1>1, Alone, FieldBits DEF GPRS_WED
<1>7. state = "BCC1" => (pswbt(i) <=> BranchTrue(ir, psw))
  BY <1>1
<1> HIDE DEF i
<1>8. QED
  BY <1>2, <1>3, <1>4, <1>5, <1>6, <1>7 DEF ControlOn, i

LEMMA ControlsChecked ==
  ASSUME Together, NEW m \in Word
  PROVE  ChecksC(m)
<1> DEFINE on == ControlOn(m)
<1>1. state \in Flops \ {"RESET0", "RESET1"} /\ (state \in {"IREQ4", "IREQ5"} => ~ieff)
  BY InstrSame DEF Together, Running
<1>2. on \ ControlIgnored = ControlExpected \ ControlIgnored
  <2>1. CASE state = "FETCH1"
    BY <1>1, <2>1, ControlsOn, RaisedIs
    DEF ControlExpected, ControlIgnored, WordChecked, WordExpected, ReadStates, WriteStates,
        Passing, AluAdd, LsAddr, Minus2, Minus4, FromMq, Word16
  <2>2. CASE state = "FETCH2"
    BY <1>1, <2>2, ControlsOn, RaisedIs
    DEF ControlExpected, ControlIgnored, WordChecked, WordExpected, ReadStates, WriteStates,
        Passing, AluAdd, LsAddr, Minus2, Minus4, FromMq, Word16
  <2>3. CASE state = "BCC1"
    BY <1>1, <2>3, ControlsOn, RaisedIs
    DEF ControlExpected, ControlIgnored, WordChecked, WordExpected, ReadStates, WriteStates,
        Passing, AluAdd, LsAddr, Minus2, Minus4, FromMq, Word16
  <2>4. CASE state = "ARITH1"
    BY <1>1, <2>4, ControlsOn, RaisedIs
    DEF ControlExpected, ControlIgnored, WordChecked, WordExpected, ReadStates, WriteStates,
        Passing, AluAdd, LsAddr, Minus2, Minus4, FromMq, Word16
  <2>5. CASE state = "STORE1"
    BY <1>1, <2>5, ControlsOn, RaisedIs
    DEF ControlExpected, ControlIgnored, WordChecked, WordExpected, ReadStates, WriteStates,
        Passing, AluAdd, LsAddr, Minus2, Minus4, FromMq, Word16
  <2>6. CASE state = "STORE2"
    BY <1>1, <2>6, ControlsOn, RaisedIs
    DEF ControlExpected, ControlIgnored, WordChecked, WordExpected, ReadStates, WriteStates,
        Passing, AluAdd, LsAddr, Minus2, Minus4, FromMq, Word16
  <2>7. CASE state = "LDA1"
    BY <1>1, <2>7, ControlsOn, RaisedIs
    DEF ControlExpected, ControlIgnored, WordChecked, WordExpected, ReadStates, WriteStates,
        Passing, AluAdd, LsAddr, Minus2, Minus4, FromMq, Word16
  <2>8. CASE state = "LOAD1"
    BY <1>1, <2>8, ControlsOn, RaisedIs
    DEF ControlExpected, ControlIgnored, WordChecked, WordExpected, ReadStates, WriteStates,
        Passing, AluAdd, LsAddr, Minus2, Minus4, FromMq, Word16
  <2>9. CASE state = "LOAD2"
    BY <1>1, <2>9, ControlsOn, RaisedIs
    DEF ControlExpected, ControlIgnored, WordChecked, WordExpected, ReadStates, WriteStates,
        Passing, AluAdd, LsAddr, Minus2, Minus4, FromMq, Word16
  <2>10. CASE state = "LOAD3"
    BY <1>1, <2>10, ControlsOn, RaisedIs
    DEF ControlExpected, ControlIgnored, WordChecked, WordExpected, ReadStates, WriteStates,
        Passing, AluAdd, LsAddr, Minus2, Minus4, FromMq, Word16
  <2>11. CASE state = "WRPS1"
    BY <1>1, <2>11, ControlsOn, RaisedIs
    DEF ControlExpected, ControlIgnored, WordChecked, WordExpected, ReadStates, WriteStates,
        Passing, AluAdd, LsAddr, Minus2, Minus4, FromMq, Word16
  <2>12. CASE state = "RDPS1"
    BY <1>1, <2>12, ControlsOn, RaisedIs
    DEF ControlExpected, ControlIgnored, WordChecked, WordExpected, ReadStates, WriteStates,
        Passing, AluAdd, LsAddr, Minus2, Minus4, FromMq, Word16
  <2>13. CASE state = "IRET1"
    BY <1>1, <2>13, ControlsOn, RaisedIs
    DEF ControlExpected, ControlIgnored, WordChecked, WordExpected, ReadStates, WriteStates,
        Passing, AluAdd, LsAddr, Minus2, Minus4, FromMq, Word16
  <2>14. CASE state = "IRET2"
    BY <1>1, <2>14, ControlsOn, RaisedIs
    DEF ControlExpected, ControlIgnored, WordChecked, WordExpected, ReadStates, WriteStates,
        Passing, AluAdd, LsAddr, Minus2, Minus4, FromMq, Word16
  <2>15. CASE state = "IRET3"
    BY <1>1, <2>15, ControlsOn, RaisedIs
    DEF ControlExpected, ControlIgnored, WordChecked, WordExpected, ReadStates, WriteStates,
        Passing, AluAdd, LsAddr, Minus2, Minus4, FromMq, Word16
  <2>16. CASE state = "IRET4"
    BY <1>1, <2>16, ControlsOn, RaisedIs
    DEF ControlExpected, ControlIgnored, WordChecked, WordExpected, ReadStates, WriteStates,
        Passing, AluAdd, LsAddr, Minus2, Minus4, FromMq, Word16
  <2>17. CASE state = "HALT1"
    BY <1>1, <2>17, ControlsOn, RaisedIs
    DEF ControlExpected, ControlIgnored, WordChecked, WordExpected, ReadStates, WriteStates,
        Passing, AluAdd, LsAddr, Minus2, Minus4, FromMq, Word16
  <2>18. CASE state = "IREQ1"
    BY <1>1, <2>18, ControlsOn, RaisedIs
    DEF ControlExpected, ControlIgnored, WordChecked, WordExpected, ReadStates, WriteStates,
        Passing, AluAdd, LsAddr, Minus2, Minus4, FromMq, Word16
  <2>19. CASE state = "IREQ2"
    BY <1>1, <2>19, ControlsOn, RaisedIs
    DEF ControlExpected, ControlIgnored, WordChecked, WordExpected, ReadStates, WriteStates,
        Passing, AluAdd, LsAddr, Minus2, Minus4, FromMq, Word16
  <2>20. CASE state = "IREQ3"
    BY <1>1, <2>20, ControlsOn, RaisedIs
    DEF ControlExpected, ControlIgnored, WordChecked, WordExpected, ReadStates, WriteStates,
        Passing, AluAdd, LsAddr, Minus2, Minus4, FromMq, Word16
  <2>21. CASE state = "IREQ4"
    BY <1>1, <2>21, ControlsOn, RaisedIs
    DEF ControlExpected, ControlIgnored, WordChecked, WordExpected, ReadStates, WriteStates,
        Passing, AluAdd, LsAddr, Minus2, Minus4, FromMq, Word16
  <2>22. CASE state = "IREQ5"
    BY <1>1, <2>22, ControlsOn, RaisedIs
    DEF ControlExpected, ControlIgnored, WordChecked, WordExpected, ReadStates, WriteStates,
        Passing, AluAdd, LsAddr, Minus2, Minus4, FromMq, Word16
  <2>23. QED
    BY <1>1, <2>1, <2>2, <2>3, <2>4, <2>5, <2>6, <2>7, <2>8, <2>9, <2>10, <2>11, <2>12, <2>13, <2>14, <2>15, <2>16, <2>17, <2>18, <2>19, <2>20, <2>21, <2>22 DEF Flops
<1>3. QED
  BY <1>2 DEF ChecksC

(* The memory pins, the operands, the result and the instruction. *)
LEMMA PinsChecked ==
  ASSUME Together, NEW m \in Word
  PROVE  ChecksG(m) /\ ChecksA(m) /\ ChecksB(m) /\ ChecksD(m) /\ ChecksI(m)
<1> DEFINE i == IR(m)
<1>1. /\ state \in Flops \ {"RESET0", "RESET1"} /\ q = {state}
      /\ rq = regs /\ rq \in [0 .. 7 -> Word] /\ psw = PswOf(ieff, nzvc)
      /\ i = (IF state = "FETCH2" THEN m ELSE ir) /\ i \in Word /\ m \in Word
  BY InstrSame
<1>2. De0TypeOK /\ alu = BeginAlu(state, ir, regs, psw, alu)
  BY DEF Together, Running
<1>3. MD(m) = AluExpected(m)
  <2>1. CASE state = "LOAD2"
    BY <2>1, AluSame DEF AluExpected
  <2>2. CASE state \in {"IRET2", "IRET4"}
    BY <2>2, AluSame DEF AluExpected
  <2>3. CASE state = "ARITH1"
    BY <2>3, AluSame DEF AluExpected
  <2>4. CASE state \notin {"LOAD2", "IRET2", "IRET4", "ARITH1"}
    <3>1. AluExpected(m) = BeginAlu(state, ir, regs, psw, alu)
      BY <1>1, <2>4 DEF AluExpected
    <3>2. QED
      BY <1>2, <2>4, <3>1, AluSame
  <2>5. QED
    BY <2>1, <2>2, <2>3, <2>4
<1>4. AChecked => QA(i) = AExpected
  BY <1>1, BusA DEF AChecked, AExpected
<1>5. alub(i, m) = BExpected(m)
  <2>1. CASE state \in {"FETCH1", "IREQ4"}
    BY <1>1, <1>2, <2>1, BusB DEF BExpected
  <2>2. CASE state \in {"FETCH2", "LOAD3", "IREQ5"}
    BY <1>1, <1>2, <2>2, BusB DEF BExpected
  <2>3. CASE state = "BCC1"
    BY <1>1, <1>2, <2>3, BusB DEF BExpected
  <2>4. CASE state \in {"STORE1", "LDA1", "LOAD1"}
    BY <1>1, <1>2, <2>4, BusB DEF BExpected
  <2>5. CASE state \in {"ARITH1", "HALT1", "WRPS1"}
    BY <1>1, <1>2, <2>5, BusB DEF BExpected
  <2>6. CASE state = "STORE2"
    BY <1>1, <1>2, <2>6, BusB DEF BExpected
  <2>7. CASE state = "LOAD2"
    BY <1>1, <1>2, <2>7, BusB DEF BExpected
  <2>8. CASE state \in {"IRET2", "IRET4"}
    BY <1>1, <1>2, <2>8, BusB DEF BExpected
  <2>9. CASE state \in {"IREQ2", "RDPS1"}
    BY <1>1, <1>2, <2>9, BusB DEF BExpected
  <2>10. CASE state \in {"IREQ1", "IRET3"}
    BY <1>1, <1>2, <2>10, BusB DEF BExpected
  <2>11. CASE state \in {"IREQ3", "IRET1"}
    BY <1>1, <1>2, <2>11, BusB DEF BExpected
  <2>12. QED
    BY <1>1, <2>1, <2>2, <2>3, <2>4, <2>5, <2>6, <2>7, <2>8, <2>9, <2>10, <2>11 DEF Flops
<1>6. /\ Ctl("HALT") = HaltExpected
      /\ Ctl("MEM_READ") = ReadExpected
      /\ Ctl("MEM_WRITE") = WriteExpected
  <2>1. /\ Ctl("HALT") <=> state = "HALT1"
        /\ Ctl("MEM_READ") <=> state \in {"FETCH1", "IRET1", "IRET3", "LOAD1"}
        /\ Ctl("MEM_WRITE") <=> state \in {"IREQ1", "IREQ3", "STORE1"}
    BY <1>1, Lines
  <2>2. Ctl("HALT") \in BOOLEAN /\ Ctl("MEM_READ") \in BOOLEAN /\ Ctl("MEM_WRITE") \in BOOLEAN
    BY DEF Ctl, AnyOf
  <2>3. QED
    BY <2>1, <2>2
    DEF HaltExpected, ReadExpected, WriteExpected, ReadStates, WriteStates
<1>7. WordChecked => MEM_WORD(i) = WordExpected
  <2>1. MEM_WORD(i) <=> ~(state \in {"LOAD1", "LOAD2", "STORE1"} /\ IsSet(i, 13))
    BY <1>1, Alone DEF MEM_WORD
  <2>2. WordChecked => (MEM_WORD(i) <=> WordExpected)
    BY <1>1, <2>1 DEF WordChecked, WordExpected, ByteAccess, ReadStates, WriteStates
  <2>3. QED
    BY <2>2 DEF MEM_WORD, WordExpected
<1>8. i = IExpected(m)
  BY <1>1 DEF IExpected
<1>9. QED
  BY <1>3, <1>4, <1>5, <1>6, <1>7, <1>8 DEF ChecksG, ChecksA, ChecksB, ChecksD, ChecksI

(* The status word ARITH1 loads is that of the flags the FPGA latches. *)
LEMMA ArithLoads ==
  ASSUME Together, NEW m \in Word, state = "ARITH1"
  PROVE  /\ FlagsOf(Alu(m)) \in Flags
         /\ LoadPsw(newpsw) = PswOf(ieff, FlagsOf(Alu(m)))
         /\ IsSet(LoadPsw(newpsw), 15) <=> ieff
<1> DEFINE a == regs[RegA(ir)]
           b == regs[RegB(ir)]
           c == nzvc.c
<1>1. /\ regs \in [0 .. 7 -> Word] /\ ieff \in BOOLEAN /\ c \in BOOLEAN
      /\ IsSet(psw, 15) <=> ieff
      /\ IsSet(psw, 0) <=> c
  BY InstrSame
<1>2. /\ ir \in Word /\ psw \in Word /\ ~BadAlu(ir)
      /\ newpsw = Arith(ir, a, b, psw).psw
  BY DEF Together, Running, ShadowTypeOK
<1>3. a \in Word /\ b \in Word
  BY <1>1, <1>2, Fields
<1>4. Alu(m) = ArithV(ir, a, b, c)
  BY AluSame
<1> HIDE DEF a, b, c
<1>5. /\ FlagsOf(ArithV(ir, a, b, c)) \in Flags
      /\ LoadPsw(Arith(ir, a, b, psw).psw) = PswOf(IsSet(psw, 15), FlagsOf(ArithV(ir, a, b, c)))
  BY <1>1, <1>2, <1>3, ArithFlags
<1>6. IsSet(psw, 15) = ieff
  BY <1>1 DEF IsSet
<1>7. LoadPsw(newpsw) = PswOf(ieff, FlagsOf(Alu(m)))
  BY <1>2, <1>4, <1>5, <1>6
<1>8. QED
  BY <1>1, <1>4, <1>5, <1>7, PswBits

(* Both go to the same next state. *)
LEMMA StateStep ==
  ASSUME Together, NEW m \in Word, NEW irq \in BOOLEAN, EndOfState(m, irq), De0Clock(m, irq)
  PROVE  q' = {state'} /\ state' \in Flops \ {"RESET0", "RESET1"}
<1> DEFINE i == IR(m)
<1>1. /\ state \in Flops \ {"RESET0", "RESET1"} /\ q = {state}
      /\ i = (IF state = "FETCH2" THEN m ELSE ir) /\ i \in Word /\ ieff \in BOOLEAN
      /\ IsSet(psw, 15) <=> ieff
  BY InstrSame
<1>2. PosedgeClock(i, irq, ieff)
  BY DEF De0Clock, De0Edge
<1>3. state = "IREQ5" => ~ieff
  BY DEF Together, Running
<1>4. state = "ARITH1" => (IsSet(LoadPsw(newpsw), 15) <=> ieff)
  BY ArithLoads
<1> HIDE DEF i
<1>5. QED
  BY <1>1, <1>2, <1>3, <1>4, NextState

(* Both write the same registers and latch the same instruction. *)
LEMMA RegsStep ==
  ASSUME Together, NEW m \in Word, NEW irq \in BOOLEAN, EndOfState(m, irq), De0Clock(m, irq)
  PROVE  /\ rq' = regs' /\ regs' \in [0 .. 7 -> Word]
         /\ irlat' = ir' /\ ir' \in Word
<1> DEFINE i == IR(m)
           d == MD(m)
<1>1. /\ state \in Flops \ {"RESET0", "RESET1"} /\ q = {state}
      /\ i = (IF state = "FETCH2" THEN m ELSE ir) /\ i \in Word /\ m \in Word
      /\ rq = regs /\ regs \in [0 .. 7 -> Word] /\ irlat = ir
      /\ BranchTrue(ir, psw) <=> pswbt(ir)
  BY InstrSame
<1>2. /\ d \in Word
      /\ state = "LOAD2" => d = LoadedWord(ir, m)
      /\ state \in {"IRET2", "IRET4"} => d = m
      /\ state \notin {"LOAD2", "IRET2", "IRET4"} => d = alu
  BY AluSame
<1>3. De0TypeOK /\ De0Edge(i, Alu(m), irq) /\ d = Alu(m).d
  BY DEF Together, De0Clock, MD
<1> HIDE DEF i, d
<1>4. /\ state \in {"FETCH2", "IREQ5", "IRET2", "LOAD3"} => rq' = [regs EXCEPT ![7] = d]
      /\ state \in {"LDA1", "LOAD2", "RDPS1"} => rq' = [regs EXCEPT ![RegD(i)] = d]
      /\ state = "ARITH1" => rq' = IF RegD(i) # 7 THEN [regs EXCEPT ![RegD(i)] = d] ELSE regs
      /\ state = "BCC1" => rq' = IF pswbt(i) THEN [regs EXCEPT ![7] = d] ELSE regs
      /\ state \notin {"FETCH2", "IREQ5", "IRET2", "LOAD3", "LDA1", "LOAD2", "RDPS1", "ARITH1",
                      "BCC1"} => rq' = regs
      /\ irlat' = i
  <2>1. irlat' = i
    BY <1>3 DEF De0Edge
  <2>2. state \in Flops /\ state # "RESET1"
    BY <1>1
  <2>3. /\ state \in {"FETCH2", "IREQ5", "IRET2", "LOAD3"} => rq' = [rq EXCEPT ![7] = Alu(m).d]
        /\ state \in {"LDA1", "LOAD2", "RDPS1"} => rq' = [rq EXCEPT ![RegD(i)] = Alu(m).d]
        /\ state = "ARITH1" =>
             rq' = IF RegD(i) # 7 THEN [rq EXCEPT ![RegD(i)] = Alu(m).d] ELSE rq
        /\ state = "BCC1" => rq' = IF pswbt(i) THEN [rq EXCEPT ![7] = Alu(m).d] ELSE rq
        /\ state \notin {"FETCH2", "IREQ5", "IRET2", "LOAD3", "LDA1", "LOAD2", "RDPS1",
                         "ARITH1", "BCC1"} => rq' = rq
    BY <1>1, <1>3, <2>2, De0Regs
  <2>4. QED
    BY <1>1, <1>3, <2>1, <2>3
<1>5. RegD(i) \in 0 .. 7
  BY <1>1, Fields
<1>6. rq' \in [0 .. 7 -> Word]
  BY <1>1, <1>2, <1>4, <1>5
<1>7. CASE EndOnward
  BY <1>1, <1>4, <1>7 DEF EndOnward, Onward
<1>8. CASE EndReset1
  BY <1>1, <1>8 DEF EndReset1
<1>9. CASE EndFetch2(m)
  BY <1>1, <1>2, <1>4, <1>9 DEF EndFetch2, SetReg
<1>10. CASE EndBcc1(irq)
  BY <1>1, <1>2, <1>4, <1>10 DEF EndBcc1, SetReg
<1>11. CASE EndArith1(irq)
  BY <1>1, <1>2, <1>4, <1>11 DEF EndArith1, SetReg
<1>12. CASE EndStore2OrHalt1(irq)
  BY <1>1, <1>4, <1>12 DEF EndStore2OrHalt1
<1>13. CASE EndLda1OrRdps1(irq)
  BY <1>1, <1>2, <1>4, <1>13 DEF EndLda1OrRdps1, SetReg
<1>14. CASE EndLoad2(m, irq)
  BY <1>1, <1>2, <1>4, <1>14 DEF EndLoad2, SetReg
<1>15. CASE EndLoad3(irq)
  BY <1>1, <1>2, <1>4, <1>15 DEF EndLoad3, SetReg
<1>16. CASE EndWrps1(irq)
  BY <1>1, <1>4, <1>16 DEF EndWrps1
<1>17. CASE EndIret2(m)
  BY <1>1, <1>2, <1>4, <1>17 DEF EndIret2, SetReg
<1>18. CASE EndIret4(m, irq)
  BY <1>1, <1>4, <1>18 DEF EndIret4
<1>19. CASE EndIreq3
  BY <1>1, <1>4, <1>19 DEF EndIreq3
<1>20. CASE EndIreq5
  BY <1>1, <1>2, <1>4, <1>20 DEF EndIreq5, SetReg
<1>21. QED
  BY <1>7, <1>8, <1>9, <1>10, <1>11, <1>12, <1>13, <1>14, <1>15, <1>16, <1>17, <1>18, <1>19,
     <1>20 DEF EndOfState

(* A number below 32768 is its own remainder, with or without 32768 added. *)
LEMMA BelowTop ==
  ASSUME NEW k \in Int, 0 <= k, k < 32768
  PROVE  /\ k % 32768 = k
         /\ (32768 + k) % 32768 = k
  OBVIOUS

LEMMA StatusSum ==
  ASSUME NEW e \in {0, 1}, NEW n \in {0, 1}, NEW z \in {0, 1}, NEW v \in {0, 1},
         NEW c \in {0, 1}
  PROVE  (32768 * e + 32752 + 8 * n + 4 * z + 2 * v + c) % 32768
         = 32768 * 0 + 32752 + 8 * n + 4 * z + 2 * v + c
<1> DEFINE k == 32752 + 8 * n + 4 * z + 2 * v + c
<1>1. k \in Int /\ 0 <= k /\ k < 32768
  OBVIOUS
<1>2. 32768 * 0 + 32752 + 8 * n + 4 * z + 2 * v + c = k
  OBVIOUS
<1>3. CASE e = 0
  <2>1. 32768 * e + 32752 + 8 * n + 4 * z + 2 * v + c = k
    BY <1>3
  <2> HIDE DEF k
  <2>2. k % 32768 = k
    BY <1>1, BelowTop
  <2>3. QED
    BY <1>2, <2>1, <2>2
<1>4. CASE e = 1
  <2>1. 32768 * e + 32752 + 8 * n + 4 * z + 2 * v + c = 32768 + k
    BY <1>4
  <2> HIDE DEF k
  <2>2. (32768 + k) % 32768 = k
    BY <1>1, BelowTop
  <2>3. QED
    BY <1>2, <2>1, <2>2
<1>5. QED
  BY <1>3, <1>4

(* IREQ3 clears IE and nothing else of the status word. *)
LEMMA ClearIE ==
  ASSUME NEW ie \in BOOLEAN, NEW off \in BOOLEAN, ~off, NEW f \in Flags
  PROVE  PswOf(ie, f) % 32768 = PswOf(off, f)
<1> DEFINE e == Num(ie)
           o == Num(off)
           n == Num(f.n)
           z == Num(f.z)
           v == Num(f.v)
           c == Num(f.c)
<1>1. /\ e \in {0, 1} /\ n \in {0, 1} /\ z \in {0, 1} /\ v \in {0, 1} /\ c \in {0, 1}
      /\ o = 0
  BY DEF Num
<1>2. /\ PswOf(ie, f) = 32768 * e + 32752 + 8 * n + 4 * z + 2 * v + c
      /\ PswOf(off, f) = 32768 * o + 32752 + 8 * n + 4 * z + 2 * v + c
  BY DEF PswOf
<1> DEFINE p == PswOf(ie, f)
           r == PswOf(off, f)
<1> HIDE DEF e, o, n, z, v, c, p, r
<1>3. (32768 * e + 32752 + 8 * n + 4 * z + 2 * v + c) % 32768
      = 32768 * 0 + 32752 + 8 * n + 4 * z + 2 * v + c
  BY <1>1, StatusSum
<1>4. /\ p = 32768 * e + 32752 + 8 * n + 4 * z + 2 * v + c
      /\ r = 32768 * o + 32752 + 8 * n + 4 * z + 2 * v + c
  BY <1>2 DEF p, r
<1>5. p % 32768 = r
  BY <1>1, <1>3, <1>4
<1>6. QED
  BY <1>5 DEF p, r

(* Both load the same status word. *)
LEMMA PswStep ==
  ASSUME Together, NEW m \in Word, NEW irq \in BOOLEAN, EndOfState(m, irq), De0Clock(m, irq)
  PROVE  /\ psw' = PswOf(ieff', nzvc') /\ psw' \in Word
         /\ ieff' \in BOOLEAN /\ nzvc' \in Flags
         /\ state' \in {"IREQ4", "IREQ5"} => ~ieff'
<1> DEFINE i == IR(m)
           d == MD(m)
           n == state'
<1>1. /\ state \in Flops \ {"RESET0", "RESET1"} /\ q = {state}
      /\ i \in Word /\ m \in Word /\ psw = PswOf(ieff, nzvc)
      /\ ieff \in BOOLEAN /\ nzvc \in Flags
  BY InstrSame
<1>2. /\ d \in Word
      /\ state = "IRET4" => d = m
      /\ state = "WRPS1" => d = alu
  BY AluSame
<1>3. De0TypeOK /\ De0Edge(i, Alu(m), irq) /\ d = Alu(m).d
      /\ (state = "IREQ4" => ~ieff)
  BY DEF Together, Running, De0Clock, MD
<1>4. q' = {n} /\ n \in Flops /\ n \notin {"RESET0", "RESET1"}
  BY StateStep
<1> HIDE DEF i, d
<1>5. /\ nzvc' = IF state \in {"IRET4", "WRPS1"} THEN FlagsIn(d)
                 ELSE IF state = "ARITH1" THEN FlagsOf(Alu(m)) ELSE nzvc
      /\ ieff' = IF state = "IREQ4" \/ n = "IREQ4" THEN FALSE
                 ELSE IF state \in {"IRET4", "WRPS1"} THEN IsSet(d, 15)
                 ELSE ieff
  <2>1. state \in Flops /\ state # "RESET1"
    BY <1>1
  <2>2. /\ nzvc' = IF state \in {"IRET4", "WRPS1"} THEN FlagsIn(Alu(m).d)
                   ELSE IF state = "ARITH1" THEN FlagsOf(Alu(m)) ELSE nzvc
        /\ \A x : q' = {x} =>
             ieff' = IF state = "IREQ4" \/ x \in {"RESET1", "IREQ4"} THEN FALSE
                     ELSE IF state \in {"IRET4", "WRPS1"} THEN IsSet(Alu(m).d, 15)
                     ELSE ieff
    BY <1>1, <1>3, <2>1, De0Flags
  <2>3. QED
    BY <1>3, <1>4, <2>2
<1>6. EndOfInst(irq) \in {"IREQ1", "FETCH1"}
  BY DEF EndOfInst
<1>7. \A w \in Word : /\ FlagsIn(w) \in Flags
                      /\ LoadPsw(w) = PswOf(IsSet(w, 15), FlagsIn(w))
                      /\ IsSet(w, 15) \in BOOLEAN
  BY LoadedPsw DEF IsSet
<1>8. ASSUME state \notin {"ARITH1", "IRET4", "WRPS1", "IREQ3"}, n # "IREQ4", psw' = psw,
             n = "IREQ5" => state = "IREQ4"
      PROVE  /\ psw' = PswOf(ieff', nzvc')
             /\ ieff' \in BOOLEAN /\ nzvc' \in Flags
             /\ n \in {"IREQ4", "IREQ5"} => ~ieff'
  BY <1>1, <1>3, <1>5, <1>8
<1> DEFINE Goal == /\ psw' = PswOf(ieff', nzvc')
                   /\ ieff' \in BOOLEAN /\ nzvc' \in Flags
                   /\ n \in {"IREQ4", "IREQ5"} => ~ieff'
<1> SUFFICES Goal
  BY PswBits
<1>9. CASE EndOnward
  <2>1. /\ state \notin {"ARITH1", "IRET4", "WRPS1", "IREQ3"} /\ n # "IREQ4" /\ psw' = psw
        /\ (n = "IREQ5" => state = "IREQ4")
    BY <1>1, <1>9 DEF EndOnward, Onward
  <2>2. QED
    BY <1>8, <2>1
<1>10. CASE EndFetch2(m)
  <2>1. /\ state = "FETCH2" /\ psw' = psw /\ n \in Decoded
    <3>1. q' = {n} /\ n = Decode(m) /\ Decode(m) # "bad" /\ state = "FETCH2" /\ psw' = psw
      BY <1>4, <1>10 DEF EndFetch2
    <3>2. i = m
      BY <3>1, InstrSame DEF i
    <3>3. PosedgeClock(i, irq, ieff)
      BY <1>3 DEF De0Edge
    <3>4. Decode(i) \in Decoded
      BY <1>1, <3>1, <3>2, <3>3, DecodeSame
    <3>5. QED
      BY <3>1, <3>2, <3>4
  <2>2. QED
    BY <1>8, <2>1 DEF Decoded
<1>11. CASE EndReset1
  BY <1>1, <1>11 DEF EndReset1
<1>12. CASE EndBcc1(irq)
  BY <1>6, <1>8, <1>12 DEF EndBcc1
<1>13. CASE EndArith1(irq)
  <2>1. state = "ARITH1" /\ psw' = LoadPsw(newpsw) /\ n \in {"IREQ1", "FETCH1"}
    BY <1>13 DEF EndArith1
  <2>2. ieff' = ieff /\ nzvc' = FlagsOf(Alu(m))
    BY <1>5, <2>1
  <2>3. QED
    BY <1>1, <2>1, <2>2, ArithLoads
<1>14. CASE EndStore2OrHalt1(irq)
  BY <1>6, <1>8, <1>14 DEF EndStore2OrHalt1
<1>15. CASE EndLda1OrRdps1(irq)
  BY <1>6, <1>8, <1>15 DEF EndLda1OrRdps1
<1>16. CASE EndLoad2(m, irq)
  BY <1>6, <1>8, <1>16 DEF EndLoad2
<1>17. CASE EndLoad3(irq)
  BY <1>6, <1>8, <1>17 DEF EndLoad3
<1>18. CASE EndWrps1(irq)
  <2>1. state = "WRPS1" /\ psw' = LoadPsw(d) /\ n \in {"IREQ1", "FETCH1"}
    BY <1>2, <1>6, <1>18 DEF EndWrps1
  <2>2. ieff' = IsSet(d, 15) /\ nzvc' = FlagsIn(d)
    BY <1>5, <2>1
  <2>3. QED
    BY <1>2, <1>7, <2>1, <2>2
<1>19. CASE EndIret2(m)
  BY <1>8, <1>19 DEF EndIret2
<1>20. CASE EndIret4(m, irq)
  <2>1. state = "IRET4" /\ psw' = LoadPsw(d) /\ n \in {"IREQ1", "FETCH1"}
    BY <1>2, <1>6, <1>20 DEF EndIret4
  <2>2. ieff' = IsSet(d, 15) /\ nzvc' = FlagsIn(d)
    BY <1>5, <2>1
  <2>3. QED
    BY <1>2, <1>7, <2>1, <2>2
<1>21. CASE EndIreq3
  <2>1. state = "IREQ3" /\ n = "IREQ4" /\ psw' = psw % 32768
    BY <1>21 DEF EndIreq3
  <2>2. ieff' = FALSE /\ nzvc' = nzvc
    BY <1>5, <2>1
  <2>3. /\ ieff' \in BOOLEAN /\ nzvc' \in Flags /\ ~ieff'
        /\ psw = PswOf(ieff, nzvc) /\ ieff \in BOOLEAN /\ nzvc \in Flags
    BY <1>1, <2>2
  <2>4. PswOf(ieff, nzvc) % 32768 = PswOf(ieff', nzvc)
    BY <2>3, ClearIE
  <2>5. psw' = PswOf(ieff', nzvc')
    BY <2>1, <2>2, <2>3, <2>4
  <2>6. QED
    BY <2>3, <2>5
<1>22. CASE EndIreq5
  BY <1>8, <1>22 DEF EndIreq5
<1>24. EndOfState(m, irq)
  OBVIOUS
<1> HIDE DEF Goal, n
<1>23. QED
  BY <1>24, <1>9, <1>10, <1>11, <1>12, <1>13, <1>14, <1>15, <1>16, <1>17, <1>18, <1>19,
     <1>20, <1>21, <1>22 DEF EndOfState
(* A clock edge keeps the two together unless the model refuses the instruction. *)
LEMMA TogetherStep ==
  ASSUME Together, NEW m \in Word, NEW irq \in BOOLEAN,
         EndOfState(m, irq), Begin, De0Clock(m, irq)
  PROVE  /\ ShadowTypeOK' /\ De0TypeOK'
         /\ ~fatal' => Running'
<1>1. q' = {state'} /\ state' \in Flops \ {"RESET0", "RESET1"}
  BY StateStep
<1>2. /\ rq' = regs' /\ regs' \in [0 .. 7 -> Word]
      /\ irlat' = ir' /\ ir' \in Word
  BY RegsStep
<1>3. /\ psw' = PswOf(ieff', nzvc') /\ psw' \in Word
      /\ ieff' \in BOOLEAN /\ nzvc' \in Flags
      /\ state' \in {"IREQ4", "IREQ5"} => ~ieff'
  BY PswStep
<1>4. /\ alu' \in Word /\ newpsw' \in Word /\ fatal' \in BOOLEAN
      /\ alu' = BeginAlu(state', ir', regs', psw', alu')
      /\ ~fatal' /\ state' = "ARITH1" =>
           /\ ~BadAlu(ir')
           /\ newpsw' = Arith(ir', regs'[RegA(ir')], regs'[RegB(ir')], psw').psw
  <2>1. alu \in Word /\ newpsw \in Word
    BY DEF Together, ShadowTypeOK
  <2>2. QED
    BY <1>1, <1>2, <1>3, <2>1, BeginStep
<1>5. ShadowTypeOK'
  BY <1>1, <1>2, <1>3, <1>4 DEF ShadowTypeOK, States, Flops
<1>6. De0TypeOK'
  BY <1>1, <1>2, <1>3 DEF De0TypeOK
<1>7. SameState'
  BY <1>1, <1>2, <1>3 DEF SameState
<1>8. ~fatal' => Running'
  BY <1>1, <1>2, <1>3, <1>4, <1>7 DEF Running
<1>9. QED
  BY <1>5, <1>6, <1>8

(* Only the states that take a word from memory look at it. *)
LEMMA OtherWord ==
  ASSUME NEW m, NEW w, NEW irq, EndOfState(m, irq), state \notin DataStates
  PROVE  EndOfState(w, irq)
  BY DEF EndOfState, EndFetch2, EndLoad2, EndIret2, EndIret4, DataStates

LEMMA OnlyDecoded ==
  ASSUME NEW m, NEW irq, EndOfState(m, irq), state # "FETCH2"
  PROVE  state' # "ARITH1"
<1>1. EndOfInst(irq) \in {"IREQ1", "FETCH1"}
  BY DEF EndOfInst
<1>2. QED
  BY <1>1 DEF EndOfState, EndOnward, Onward, EndReset1, EndFetch2, EndBcc1, EndArith1,
              EndStore2OrHalt1, EndLda1OrRdps1, EndLoad2, EndLoad3, EndWrps1, EndIret2, EndIret4,
              EndIreq3, EndIreq5
-----------------------------------------------------------------------------
(* What a rising edge does to the registers of the FPGA in state s, in the words
   of the processor model: w is the word on the MQ bus. *)
RegsEdge(s, w) ==
    /\ irlat' = IF s = "FETCH2" THEN w ELSE irlat
    /\ s \in {"FETCH2", "LOAD3"} => rq' = [rq EXCEPT ![7] = AddW(rq[7], 2)]
    /\ s = "BCC1" => rq' = IF BranchTrue(irlat, PswOf(ieff, nzvc))
                           THEN [rq EXCEPT ![7] = AddW(rq[7], BrOffset(irlat))] ELSE rq
    /\ s = "ARITH1" =>
         rq' = IF RegD(irlat) # 7
               THEN [rq EXCEPT ![RegD(irlat)] =
                       ArithResult(irlat, rq[RegA(irlat)], rq[RegB(irlat)], PswOf(ieff, nzvc))]
               ELSE rq
    /\ s = "LDA1" => rq' = [rq EXCEPT ![RegD(irlat)] = Address(irlat, rq)]
    /\ s = "RDPS1" => rq' = [rq EXCEPT ![RegD(irlat)] = PswOf(ieff, nzvc)]
    /\ s = "LOAD2" => rq' = [rq EXCEPT ![RegD(irlat)] = LoadedWord(irlat, w)]
    /\ s = "IRET2" => rq' = [rq EXCEPT ![7] = w]
    /\ s = "IREQ5" => rq' = [rq EXCEPT ![7] = 2]
    /\ s \notin {"FETCH2", "IREQ5", "IRET2", "LOAD3", "LDA1", "LOAD2", "RDPS1", "ARITH1",
                 "BCC1"} => rq' = rq

LEMMA EdgeRegs ==
  ASSUME NEW s \in Flops \ {"RESET0", "RESET1"}, q = {s}, De0TypeOK, NEW w \in Word,
         s = "ARITH1" => ~BadAlu(irlat), NEW irq, De0Clock(w, irq)
  PROVE  RegsEdge(s, w)
<1> DEFINE i == IR(w)
           d == MD(w)
           p == PswOf(ieff, nzvc)
<1>1. /\ i = (IF s = "FETCH2" THEN w ELSE irlat) /\ i \in Word
      /\ s = "LOAD2" => d = LoadedWord(irlat, w)
      /\ s \in {"IRET2", "IRET4"} => d = w
      /\ s \notin {"LOAD2", "IRET2", "IRET4"} => d = BeginAlu(s, irlat, rq, p, 0)
  BY AluShows
<1>2. De0Edge(i, Alu(w), irq) /\ d = Alu(w).d /\ s \in Flops /\ s # "RESET1"
  BY DEF De0Clock, MD
<1>3. s # "FETCH2" => i = irlat
  BY <1>1
<1>4. BranchTrue(irlat, p) <=> pswbt(irlat)
  <2>1. irlat \in Word /\ nzvc \in Flags /\ ieff \in BOOLEAN
    BY DEF De0TypeOK
  <2>2. QED
    BY <2>1, PswBits, SameBranch
<1>5. irlat' = i
  BY <1>2 DEF De0Edge
<1> HIDE DEF i, d
<1>6. /\ s \in {"FETCH2", "IREQ5", "IRET2", "LOAD3"} => rq' = [rq EXCEPT ![7] = d]
      /\ s \in {"LDA1", "LOAD2", "RDPS1"} => rq' = [rq EXCEPT ![RegD(i)] = d]
      /\ s = "ARITH1" => rq' = IF RegD(i) # 7 THEN [rq EXCEPT ![RegD(i)] = d] ELSE rq
      /\ s = "BCC1" => rq' = IF pswbt(i) THEN [rq EXCEPT ![7] = d] ELSE rq
      /\ s \notin {"FETCH2", "IREQ5", "IRET2", "LOAD3", "LDA1", "LOAD2", "RDPS1", "ARITH1",
                   "BCC1"} => rq' = rq
  BY <1>1, <1>2, De0Regs
<1> DEFINE old == 0
<1> HIDE DEF p, old
<1>7. /\ s \in {"FETCH2", "LOAD3"} => d = AddW(rq[7], 2)
      /\ s = "BCC1" => d = AddW(rq[7], BrOffset(irlat))
      /\ s = "ARITH1" => d = ArithResult(irlat, rq[RegA(irlat)], rq[RegB(irlat)], p)
      /\ s = "LDA1" => d = Address(irlat, rq)
      /\ s = "RDPS1" => d = p
      /\ s = "IREQ5" => d = 2
  BY <1>1, BeginIs DEF Address
<1>8. QED
  BY <1>1, <1>3, <1>4, <1>5, <1>6, <1>7 DEF p, RegsEdge

(* ... and to the status word: n is the state that follows. *)
PswEdge(s, w) ==
    PswOf(ieff', nzvc') =
      CASE s = "ARITH1" -> LoadPsw(Arith(irlat, rq[RegA(irlat)], rq[RegB(irlat)],
                                         PswOf(ieff, nzvc)).psw)
        [] s = "WRPS1" -> LoadPsw(rq[RegB(irlat)])
        [] s = "IRET4" -> LoadPsw(w)
        [] s = "IREQ3" -> PswOf(FALSE, nzvc)
        [] OTHER -> PswOf(ieff, nzvc)

LEMMA EdgePsw ==
  ASSUME NEW s \in Flops \ {"RESET0", "RESET1"}, q = {s}, De0TypeOK, NEW w \in Word,
         s = "ARITH1" => ~BadAlu(irlat), s = "IREQ4" => ~ieff, NEW irq, De0Clock(w, irq),
         NEW n, q' = {n}, n # "RESET1", n = "IREQ4" <=> s = "IREQ3"
  PROVE  PswEdge(s, w)
<1> DEFINE i == IR(w)
           d == MD(w)
           p == PswOf(ieff, nzvc)
           a == rq[RegA(irlat)]
           b == rq[RegB(irlat)]
           c == nzvc.c
<1>1. /\ i \in Word /\ d \in Word
      /\ s = "IRET4" => d = w
      /\ s = "ARITH1" => Alu(w) = ArithV(irlat, a, b, c)
      /\ s \notin {"LOAD2", "IRET2", "IRET4"} => d = BeginAlu(s, irlat, rq, p, 0)
  BY AluShows
<1>2. De0Edge(i, Alu(w), irq) /\ d = Alu(w).d /\ s \in Flops /\ s # "RESET1"
  BY DEF De0Clock, MD
<1> HIDE DEF i, d
<1>3. /\ nzvc' = IF s \in {"IRET4", "WRPS1"} THEN FlagsIn(d)
                 ELSE IF s = "ARITH1" THEN FlagsOf(Alu(w)) ELSE nzvc
      /\ ieff' = IF s = "IREQ4" \/ n = "IREQ4" THEN FALSE
                 ELSE IF s \in {"IRET4", "WRPS1"} THEN IsSet(d, 15)
                 ELSE ieff
  BY <1>1, <1>2, De0Flags
<1>4. CASE s = "ARITH1"
  <2>1. /\ irlat \in Word /\ a \in Word /\ b \in Word /\ c \in BOOLEAN /\ p \in Word
        /\ IsSet(p, 0) <=> c
        /\ ~BadAlu(irlat)
        /\ IsSet(p, 15) <=> ieff
        /\ ieff \in BOOLEAN
    BY <1>4, PswBits, Fields DEF De0TypeOK, Flags
  <2> HIDE DEF a, b, c, p
  <2>2. LoadPsw(Arith(irlat, a, b, p).psw) = PswOf(IsSet(p, 15), FlagsOf(ArithV(irlat, a, b, c)))
    BY <2>1, ArithFlags
  <2>3. IsSet(p, 15) = ieff
    BY <2>1 DEF IsSet
  <2>4. ieff' = ieff /\ nzvc' = FlagsOf(ArithV(irlat, a, b, c))
    BY <1>1, <1>3, <1>4
  <2>5. QED
    BY <1>4, <2>2, <2>3, <2>4 DEF a, b, p, PswEdge
<1>5. CASE s \in {"WRPS1", "IRET4"}
  <2>1. ieff' = IsSet(d, 15) /\ nzvc' = FlagsIn(d)
    BY <1>3, <1>5
  <2>2. s = "WRPS1" => d = b
    BY <1>1, BeginIs
  <2>3. LoadPsw(d) = PswOf(ieff', nzvc')
    BY <1>1, <2>1, LoadedPsw
  <2>4. QED
    BY <1>1, <1>5, <2>2, <2>3 DEF PswEdge
<1>6. CASE s = "IREQ3"
  BY <1>3, <1>6 DEF PswEdge
<1>7. CASE s \notin {"ARITH1", "WRPS1", "IRET4", "IREQ3"}
  <2>1. ieff' = ieff /\ nzvc' = nzvc
    BY <1>3, <1>7 DEF De0TypeOK
  <2>2. QED
    BY <1>7, <2>1 DEF PswEdge
<1>8. QED
  BY <1>4, <1>5, <1>6, <1>7
-----------------------------------------------------------------------------
(* What the processor and the model must have in common for whoever clocks them to
   stay in step with both: the state, the instruction, the interrupt enable bit.  The
   registers may differ, as they do until a program has loaded them. *)
Core ==
    /\ q = {state}
    /\ irlat = ir
    /\ IsSet(psw, 15) <=> ieff
    /\ state \in {"RESET0", "RESET1", "IREQ4", "IREQ5"} => ~ieff
    /\ alu = BeginAlu(state, ir, regs, psw, alu)
    /\ state = "ARITH1" => (IsSet(newpsw, 15) <=> ieff)

LEMMA CoreEdge ==
  ASSUME ShadowTypeOK, De0TypeOK, Core, NEW m \in Word, NEW w \in Word, NEW irq \in BOOLEAN,
         Clock(m, irq), ~fatal', De0Clock(w, irq),
         state \in {"FETCH2", "IRET4"} => w = m,
         state = "WRPS1" => MD(w) = alu
  PROVE  /\ ShadowTypeOK' /\ De0TypeOK' /\ Core'
         /\ EndOfState(m, irq)
<1> DEFINE i == IR(w)
           n == state'
           d == MD(w)
<1>1. /\ state \in Flops /\ q = {state} /\ ieff \in BOOLEAN /\ (IsSet(psw, 15) <=> ieff)
      /\ psw \in Word /\ alu \in Word /\ newpsw \in Word
      /\ state \in {"RESET0", "RESET1", "IREQ4", "IREQ5"} => ~ieff
      /\ state = "ARITH1" => (IsSet(newpsw, 15) <=> ieff)
  BY DEF ShadowTypeOK, De0TypeOK, Core, States, Flops
<1>2. i \in Word /\ i = IF state = "FETCH2" THEN m ELSE ir
  <2>1. Ctl("IR_WE") <=> state = "FETCH2"
    BY <1>1, Lines
  <2>2. QED
    BY <2>1 DEF IR, Core, ShadowTypeOK
<1>3. ShadowTypeOK' /\ EndOfState(m, irq) /\ Begin
  BY ClockKeeps
<1>4. De0TypeOK'
  BY <1>1, De0Keeps
<1>5. /\ n \in Flops
      /\ n = "IREQ4" <=> state = "IREQ3"
      /\ n = "IREQ5" <=> state = "IREQ4"
      /\ n = "RESET1" <=> state = "RESET0"
      /\ n # "RESET0"
  BY <1>1, <1>3, Transfers
<1>6. /\ psw' \in Word /\ regs' \in [0 .. 7 -> Word] /\ ir' \in Word
      /\ IsSet(psw', 15) <=> IeAfter(m)
      /\ ir' = IF state = "FETCH2" THEN m ELSE ir
  BY <1>3, EndTypes
<1>7. De0Edge(i, Alu(w), irq) /\ PosedgeClock(i, irq, ieff) /\ d = Alu(w).d
  BY DEF De0Clock, De0Edge, MD
<1> HIDE DEF i, n, d
<1>8. q' = {n}
  <2>1. state = "ARITH1" => (IsSet(LoadPsw(newpsw), 15) <=> ieff)
    BY <1>1, LoadedBit
  <2>2. state \in {"RESET1", "IREQ5"} => ~ieff
    BY <1>1
  <2>3. QED
    BY <1>1, <1>2, <1>3, <1>7, <2>1, <2>2, NextState DEF n
<1>9. irlat' = ir'
  BY <1>2, <1>6, <1>7 DEF De0Edge
<1>10. IsSet(psw', 15) <=> ieff'
  <2>1. CASE state = "RESET1"
    <3>1. Ieclr(q)
      BY <1>1, <2>1 DEF Ieclr, Microcode
    <3>2. ~ieff'
      BY <1>7, <3>1 DEF De0Edge
    <3>3. QED
      BY <1>6, <2>1, <3>2 DEF IeAfter
  <2>2. CASE state # "RESET1"
    <3>1. ieff' = IF state = "IREQ4" \/ n \in {"RESET1", "IREQ4"} THEN FALSE
                  ELSE IF state \in {"IRET4", "WRPS1"} THEN IsSet(d, 15)
                  ELSE ieff
      BY <1>1, <1>2, <1>7, <1>8, <2>2, De0Flags
    <3>2. state = "IRET4" => d = m
      BY <1>1, PassesOn DEF d
    <3>3. state = "WRPS1" => d = alu
      BY DEF d
    <3>4. QED
      BY <1>1, <1>5, <1>6, <2>2, <3>1, <3>2, <3>3 DEF IeAfter
  <2>3. QED
    BY <2>1, <2>2
<1>11. n \in {"RESET0", "RESET1", "IREQ4", "IREQ5"} => ~ieff'
  BY <1>1, <1>5, <1>6, <1>10 DEF IeAfter
<1>12. /\ alu' = BeginAlu(n, ir', regs', psw', alu')
       /\ n = "ARITH1" => (IsSet(newpsw', 15) <=> IsSet(psw', 15))
  BY <1>1, <1>3, <1>5, <1>6, BeginStep DEF n
<1>13. Core'
  BY <1>8, <1>9, <1>10, <1>11, <1>12 DEF Core, n
<1>14. QED
  BY <1>3, <1>4, <1>13

(* Where the sequencer goes after a step that raises the clock, by what the FPGA
   holds. *)
Lasting == {"BCC1", "ARITH1", "STORE2", "LDA1", "WRPS1", "RDPS1", "HALT1", "LOAD3", "IRET4"}

Follows ==
    /\ state \in DOMAIN Onward => state' = Onward[state]
    /\ state = "FETCH2" => /\ state' = Decode(irlat') /\ state' \in Decoded
                           /\ state' = "ARITH1" => ~BadAlu(irlat')
    /\ state \in Lasting => state' \in {"FETCH1", "IREQ1"}
    /\ state = "LOAD2" => IF LoadImmediate(irlat) THEN state' = "LOAD3"
                          ELSE state' \in {"FETCH1", "IREQ1"}
    /\ state = "IRET2" => state' = "IRET3"
    /\ state = "IREQ3" => state' = "IREQ4"
    /\ state \in {"RESET1", "IREQ5"} => state' = "FETCH1"
    /\ state' = "IREQ1" => ieff

LEMMA Following ==
  ASSUME ShadowTypeOK, Core, Core', NEW m \in Word, NEW irq \in BOOLEAN, Clock(m, irq), ~fatal',
         ieff \in BOOLEAN
  PROVE  Follows
<1>1. EndOfState(m, irq) /\ Begin
  BY ClockKeeps
<1>2. /\ irlat = ir /\ irlat' = ir'
      /\ IrqEnabled(psw) <=> ieff
      /\ state = "ARITH1" => (IsSet(newpsw, 15) <=> ieff)
      /\ psw \in Word /\ newpsw \in Word
  BY DEF Core, IrqEnabled, ShadowTypeOK
<1>3. state = "ARITH1" => (IrqEnabled(LoadPsw(newpsw)) <=> ieff)
  BY <1>2, LoadedBit DEF IrqEnabled
<1>4. EndOfInst(irq) = IF irq /\ ieff THEN "IREQ1" ELSE "FETCH1"
  BY <1>2 DEF EndOfInst
<1>5. state' = "ARITH1" => ~BadAlu(irlat')
  BY <1>1, <1>2 DEF Begin
<1>6. CASE EndOnward
  BY <1>6 DEF EndOnward, Onward, Follows, Lasting
<1>7. CASE EndReset1
  BY <1>7 DEF EndReset1, Onward, Follows, Lasting
<1>8. CASE EndFetch2(m)
  <2>1. state = "FETCH2" /\ state' = Decode(irlat') /\ state' = Decode(m) /\ Decode(m) # "bad"
    BY <1>2, <1>8 DEF EndFetch2
  <2>2. state' \in Decoded
    BY <2>1, DecodeType
  <2>3. QED
    BY <1>5, <2>1, <2>2 DEF Onward, Follows, Lasting, Decoded
<1>9. CASE EndArith1(irq)
  BY <1>3, <1>9 DEF EndArith1, Onward, Follows, Lasting
<1>10. CASE EndLoad2(m, irq)
  BY <1>2, <1>4, <1>10 DEF EndLoad2, Onward, Follows, Lasting
<1>11. CASE EndBcc1(irq) \/ EndStore2OrHalt1(irq) \/ EndLda1OrRdps1(irq) \/ EndLoad3(irq)
            \/ EndWrps1(irq) \/ EndIret4(m, irq)
  <2>1. state \in Lasting /\ state' = EndOfInst(irq)
    BY <1>11 DEF EndBcc1, EndStore2OrHalt1, EndLda1OrRdps1, EndLoad3, EndWrps1, EndIret4, Lasting
  <2>2. QED
    BY <1>4, <2>1 DEF Onward, Follows, Lasting
<1>12. CASE EndIret2(m)
  BY <1>12 DEF EndIret2, Onward, Follows, Lasting
<1>13. CASE EndIreq3 \/ EndIreq5
  BY <1>13 DEF EndIreq3, EndIreq5, Onward, Follows, Lasting
<1>14. QED
  BY <1>1, <1>6, <1>7, <1>8, <1>9, <1>10, <1>11, <1>12, <1>13 DEF EndOfState

(* The states of an instruction in progress whose program counter is past the
   opcode. *)
InProgress == Decoded \union {"STORE2", "LOAD2", "IRET2"}

(* The state the decoder started in. *)
Origin(s) == IF s = "STORE2" THEN "STORE1"
             ELSE IF s \in {"LOAD2", "LOAD3"} THEN "LOAD1"
             ELSE IF s \in {"IRET2", "IRET3", "IRET4"} THEN "IRET1" ELSE s
-----------------------------------------------------------------------------
(* Coming out of reset, whatever the registers hold. *)
LEMMA ResetAlu ==
  ASSUME q = {"RESET1"}, De0TypeOK, NEW m \in Word
  PROVE  MD(m) = 0
<1> DEFINE i == IR(m)
           c == nzvc.c
<1>1. i \in Word /\ c \in BOOLEAN /\ 0 \in Word /\ "RESET1" \in Flops
  BY TopCleared DEF IR, De0TypeOK, Flags, Flops
<1>2. rq \in [0 .. 7 -> Word]
  BY DEF De0TypeOK
<1>3. QA(i) = 0 /\ alub(i, m) = 0
  BY <1>1, <1>2, BusA, BusB
<1>4. Ctl("ALU_ADD") = FALSE /\ ALU_BONLY = TRUE /\ Ctl("ALU_IRFC") = FALSE
  BY <1>1, Lines DEF Ctl, AnyOf, ALU_BONLY
<1>5. Alu(m) = AluV(0, 0, c, FALSE, TRUE, FALSE, i)
  BY <1>3, <1>4 DEF Alu
<1> HIDE DEF i, c
<1>6. AluV(0, 0, c, FALSE, TRUE, FALSE, i).d = OrW(0, 0)
  BY <1>1, AluPasses
<1>7. QED
  BY <1>1, <1>5, <1>6, OrZero DEF MD

LEMMA ResetStep ==
  ASSUME state = "RESET1", q = {state}, De0TypeOK, ShadowTypeOK, NEW m \in Word, NEW irq,
         De0Clock(m, irq), NEW e, EndOfState(e, irq)
  PROVE  /\ \A r \in 0 .. 6 : rq'[r] = rq[r] /\ regs'[r] = regs[r]
         /\ rq'[7] = regs'[7]
         /\ psw' = PswOf(ieff', nzvc') /\ ~ieff'
         /\ state' = "FETCH1"
<1> DEFINE i == IR(m)
           d == MD(m)
<1>1. d = 0 /\ De0Edge(i, Alu(m), irq) /\ d = Alu(m).d
  BY ResetAlu DEF De0Clock, MD
<1>2. regs' = [regs EXCEPT ![7] = 0] /\ psw' = LoadPsw(0) /\ state' = "FETCH1"
  BY DEF EndOfState, EndOnward, Onward, EndReset1, EndFetch2, EndBcc1, EndArith1,
         EndStore2OrHalt1, EndLda1OrRdps1, EndLoad2, EndLoad3, EndWrps1, EndIret2, EndIret4,
         EndIreq3, EndIreq5, SetReg
<1> HIDE DEF i, d
<1>3. ~GPRS_WED(i) /\ GPRS_WE7(pswbt(i))
  BY Alone DEF GPRS_WED, GPRS_WE7, Flops
<1>4. rq' = [r \in 0 .. 7 |-> IF r = 7 THEN d ELSE rq[r]]
  BY <1>1, <1>3 DEF De0Edge
<1>5. ~ieff'
  BY <1>1 DEF De0Edge, Ieclr, Microcode
<1>6. nzvc' = FlagsIn(d)
  <2>1. Ctl("PSW_WE")
    BY Lines DEF Flops
  <2>2. QED
    BY <1>1, <2>1 DEF De0Edge, FlagsIn
<1>7. psw' = PswOf(ieff', nzvc')
  <2>1. 0 \in Word /\ ~IsSet(0, 15) /\ IsSet(0, 15) \in BOOLEAN /\ ieff' \in BOOLEAN
    BY <1>1, TopCleared DEF IsSet, De0Edge
  <2>2. LoadPsw(0) = PswOf(IsSet(0, 15), FlagsIn(0))
    BY <2>1, LoadedPsw
  <2>3. IsSet(0, 15) = ieff'
    BY <1>5, <2>1
  <2>4. QED
    BY <1>1, <1>2, <1>6, <2>2, <2>3
<1>8. \A r \in 0 .. 6 : rq'[r] = rq[r] /\ regs'[r] = regs[r]
  BY <1>2, <1>4 DEF ShadowTypeOK
<1>9. QED
  BY <1>1, <1>2, <1>4, <1>5, <1>7, <1>8 DEF ShadowTypeOK
-----------------------------------------------------------------------------
(* The register loads of -randmem: LoadOp(k) is LDW Rk,#. *)
LoadOp(k) == 49152 + 128 * k + 7 * 1024

LEMMA LoadOps ==
  ASSUME NEW k \in 0 .. 6, NEW i, i = LoadOp(k)
  PROVE  /\ i \in Word /\ Decode(i) = "LOAD1"
         /\ RegA(i) = 7 /\ RegD(i) = k /\ LsOffset(i) = 0
         /\ ~ByteAccess(i) /\ LoadImmediate(i)
<1>1. i \in Int /\ i = 56320 + 128 * k /\ k \in Int /\ 0 <= k /\ k <= 6
  BY DEF LoadOp
<1>2. i \in Word
  BY <1>1, WordIs
<1>3. Bit(i, 10) = 1 /\ Bit(i, 11) = 1 /\ Bit(i, 12) = 1
  <2>1. (i \div 1024) % 2 = 1 /\ (i \div 2048) % 2 = 1 /\ (i \div 4096) % 2 = 1
    BY <1>1
  <2>2. QED
    BY <2>1, Weights DEF Bit
<1>4. Bit(i, 13) = 0 /\ Bit(i, 14) = 1 /\ Bit(i, 15) = 1
  <2>1. (i \div 8192) % 2 = 0 /\ (i \div 16384) % 2 = 1 /\ (i \div 32768) % 2 = 1
    BY <1>1
  <2>2. QED
    BY <2>1, Weights DEF Bit
<1>5. Bit(i, 7) + 2 * Bit(i, 8) + 4 * Bit(i, 9) = k
  <2>1. k \in {0, 1, 2, 3, 4, 5, 6}
    BY <1>1
  <2>2. ((i \div 128) % 2) + 2 * ((i \div 256) % 2) + 4 * ((i \div 512) % 2) = k
    BY <1>1, <2>1
  <2>3. QED
    BY <2>2, Weights DEF Bit
<1>6. i % 128 = 0
  BY <1>1
<1>7. RegA(i) = 7 /\ RegD(i) = k /\ Field3(i, 13) = 6
  BY <1>3, <1>4, <1>5 DEF RegA, RegD, Field3
<1>8. LsOffset(i) = 0
  BY <1>6 DEF LsOffset, SextAt
<1>9. Decode(i) = "LOAD1"
  BY <1>7 DEF Decode
<1>10. ~ByteAccess(i)
  BY <1>4 DEF ByteAccess, IsSet
<1>11. LoadImmediate(i)
  BY <1>1, <1>6, <1>7 DEF LoadImmediate
<1>12. QED
  BY <1>2, <1>7, <1>8, <1>9, <1>10, <1>11

(* While a register is being loaded the two agree on R7 at least, and on the
   instruction, and no interrupt is enabled. *)
LoadStates == {"FETCH1", "FETCH2", "LOAD1", "LOAD2", "LOAD3"}

LoadingWith(k) ==
    /\ ShadowTypeOK /\ De0TypeOK
    /\ state \in LoadStates /\ q = {state}
    /\ irlat = ir /\ rq[7] = regs[7]
    /\ psw = PswOf(ieff, nzvc) /\ ~ieff
    /\ alu = BeginAlu(state, ir, regs, psw, alu)
    /\ state \in {"LOAD1", "LOAD2"} => ir = LoadOp(k)

LEMMA LoadAlu ==
  ASSUME NEW k \in 0 .. 6, LoadingWith(k), NEW m \in Word
  PROVE  /\ MD(m) = IF state = "LOAD2" THEN m ELSE alu
         /\ IR(m) = IF state = "FETCH2" THEN m ELSE ir
         /\ IR(m) \in Word
         /\ state \in {"FETCH1", "LOAD1"} => MEM_WORD(IR(m))
<1> DEFINE i == IR(m)
           a == QA(i)
           b == alub(i, m)
           c == nzvc.c
<1>1. /\ state \in Flops /\ q = {state} /\ state \in LoadStates /\ irlat = ir
      /\ rq \in [0 .. 7 -> Word] /\ c \in BOOLEAN /\ ir \in Word
      /\ rq[7] = regs[7] /\ De0TypeOK
  BY DEF LoadingWith, LoadStates, Flops, De0TypeOK, Flags, ShadowTypeOK
<1>2. /\ i \in Word
      /\ i = IF state = "FETCH2" THEN m ELSE ir
  BY <1>1, Lines DEF IR
<1>3. state \in {"LOAD1", "LOAD2"} =>
        RegA(ir) = 7 /\ LsOffset(ir) = 0 /\ ~ByteAccess(ir) /\ i = ir
  BY <1>2, LoadOps DEF LoadingWith
<1>4. a \in Word /\ b \in Word
  BY <1>1, <1>2, BusA, BusB
<1>5. Alu(m) = AluV(a, b, c, Ctl("ALU_ADD"), ALU_BONLY, Ctl("ALU_IRFC"), i)
  BY DEF Alu
<1>6. alu = BeginAlu(state, ir, regs, psw, alu)
  BY DEF LoadingWith
<1>7. state = "LOAD2" => LoadedWord(i, m) = m
  BY <1>3 DEF LoadedWord
<1>8. state \in {"FETCH1", "LOAD1"} => MEM_WORD(i)
  <2>1. CASE state = "FETCH1"
    BY <1>1, <2>1, Alone DEF MEM_WORD
  <2>2. CASE state = "LOAD1"
    BY <1>3, <2>2 DEF MEM_WORD, ByteAccess
  <2>3. QED
    BY <2>1, <2>2
<1>9. /\ state = "FETCH1" => a = regs[7] /\ b = 0
      /\ state \in {"FETCH2", "LOAD3"} => a = regs[7] /\ b = 2
      /\ state = "LOAD1" => a = regs[7] /\ b = 0
      /\ state = "LOAD2" => b = m
  BY <1>1, <1>2, <1>3, <1>7, BusA, BusB
<1> HIDE DEF i, a, b, c
<1>10. CASE state = "LOAD2"
  <2>1. Ctl("ALU_ADD") = FALSE /\ ALU_BONLY = TRUE /\ Ctl("ALU_IRFC") = FALSE
    BY <1>1, <1>10, Lines DEF Ctl, AnyOf, ALU_BONLY
  <2>2. Alu(m) = AluV(a, b, c, FALSE, TRUE, FALSE, i)
    BY <1>5, <2>1
  <2>3. AluV(a, b, c, FALSE, TRUE, FALSE, i).d = OrW(b, 0)
    <3>1. a \in Word /\ b \in Word /\ c \in BOOLEAN /\ i \in Word
      BY <1>1, <1>2, <1>4
    <3>2. QED
      BY ONLY <3>1, AluPasses
  <2>4. MD(m) = m
    BY <1>4, <1>9, <1>10, <2>2, <2>3, OrZero DEF MD
  <2>5. QED
    BY <1>2, <1>8, <1>10, <2>4 DEF i
<1>11. CASE state \in LoadStates \ {"LOAD2"}
  <2>1. Ctl("ALU_ADD") = TRUE /\ ALU_BONLY = FALSE /\ Ctl("ALU_IRFC") = FALSE
    BY <1>1, <1>11, Lines DEF Ctl, AnyOf, ALU_BONLY, LoadStates
  <2>2. Alu(m) = AluV(a, b, c, TRUE, FALSE, FALSE, i)
    BY <1>5, <2>1
  <2>3. AluV(a, b, c, TRUE, FALSE, FALSE, i).d = AddW(a, b)
    <3>1. a \in Word /\ b \in Word /\ c \in BOOLEAN /\ i \in Word
      BY <1>1, <1>2, <1>4
    <3>2. QED
      BY ONLY <3>1, AluAdds
  <2>4. AddW(regs[7], 0) = regs[7]
    <3>1. regs[7] \in Word
      BY <1>1
    <3>2. regs[7] \in Int /\ 0 <= regs[7] /\ regs[7] < 65536
      BY <3>1, WordIs
    <3>3. AddW(regs[7], 0) = (regs[7] + 0) % 65536
      BY DEF AddW, WordSize
    <3>4. QED
      BY <3>2, <3>3
  <2>5. /\ state = "FETCH1" => BeginAlu(state, ir, regs, psw, alu) = regs[7]
        /\ state \in {"FETCH2", "LOAD3"} => BeginAlu(state, ir, regs, psw, alu) = AddW(regs[7], 2)
        /\ state = "LOAD1" => BeginAlu(state, ir, regs, psw, alu)
                              = AddW(regs[RegA(ir)], LsOffset(ir))
    BY BeginIs
  <2>6. AddW(a, b) = BeginAlu(state, ir, regs, psw, alu)
    BY <1>3, <1>9, <1>11, <2>4, <2>5 DEF LoadStates
  <2>7. MD(m) = alu
    BY <1>6, <2>2, <2>3, <2>6 DEF MD
  <2>8. QED
    BY <1>2, <1>8, <1>11, <2>7 DEF i
<1>12. QED
  BY <1>1, <1>10, <1>11

LEMMA LoadStep ==
  ASSUME NEW k \in 0 .. 6, LoadingWith(k), NEW m \in Word, NEW irq \in BOOLEAN,
         De0Clock(m, irq), EndOfState(m, irq), state = "FETCH2" => m = LoadOp(k)
  PROVE  /\ psw' = PswOf(ieff', nzvc') /\ ~ieff'
         /\ state = "FETCH1" => state' = "FETCH2"
         /\ state = "FETCH2" => state' = "LOAD1" /\ ir' = LoadOp(k)
         /\ state = "LOAD1" => state' = "LOAD2"
         /\ state = "LOAD2" => state' = "LOAD3" /\ rq'[k] = regs'[k]
         /\ state = "LOAD3" => state' = "FETCH1"
         /\ state # "FETCH2" => ir' = ir
         /\ rq'[7] = regs'[7]
         /\ \A r \in 0 .. 6 : rq[r] = regs[r] => rq'[r] = regs'[r]
<1> DEFINE i == IR(m)
           d == MD(m)
<1>1. /\ state \in Flops \ {"RESET1"} /\ q = {state} /\ state \in LoadStates
      /\ rq \in [0 .. 7 -> Word] /\ regs \in [0 .. 7 -> Word]
      /\ rq[7] = regs[7] /\ De0TypeOK
      /\ psw = PswOf(ieff, nzvc) /\ ~ieff /\ ieff \in BOOLEAN /\ nzvc \in Flags
  BY DEF LoadingWith, LoadStates, Flops, De0TypeOK, ShadowTypeOK
<1>2. /\ d = IF state = "LOAD2" THEN m ELSE alu
      /\ i = IF state = "FETCH2" THEN m ELSE ir
      /\ i \in Word
  BY LoadAlu
<1>3. De0Edge(i, Alu(m), irq) /\ d = Alu(m).d
  BY DEF De0Clock, MD
<1>4. state = "FETCH2" => Decode(m) = "LOAD1"
  BY LoadOps
<1>5. state \in {"LOAD1", "LOAD2"} =>
        /\ ir = LoadOp(k) /\ i = ir
        /\ RegD(ir) = k /\ LoadImmediate(ir) /\ LoadedWord(ir, m) = m
  BY <1>2, LoadOps DEF LoadingWith, LoadedWord
<1>6. EndOfInst(irq) = "FETCH1"
  <2>1. ~IsSet(psw, 15)
    BY <1>1, PswBits
  <2>2. QED
    BY <2>1 DEF EndOfInst, IrqEnabled
<1> HIDE DEF i, d
<1>7. /\ state \in {"FETCH2", "LOAD3"} => rq' = [rq EXCEPT ![7] = d]
      /\ state = "LOAD2" => rq' = [rq EXCEPT ![k] = d]
      /\ state \in {"FETCH1", "LOAD1"} => rq' = rq
  <2>1. /\ state \in {"FETCH2", "LOAD3"} => rq' = [rq EXCEPT ![7] = Alu(m).d]
        /\ state = "LOAD2" => rq' = [rq EXCEPT ![RegD(i)] = Alu(m).d]
        /\ state \in {"FETCH1", "LOAD1"} => rq' = rq
    BY <1>1, <1>2, <1>3, De0Regs
  <2>2. QED
    BY <1>3, <1>5, <2>1
<1>8. /\ state = "FETCH1" => state' = "FETCH2" /\ regs' = regs
      /\ state = "FETCH2" => state' = "LOAD1" /\ regs' = [regs EXCEPT ![7] = alu] /\ ir' = m
      /\ state = "LOAD1" => state' = "LOAD2" /\ regs' = regs
      /\ state = "LOAD2" => state' = "LOAD3" /\ regs' = [regs EXCEPT ![k] = m]
      /\ state = "LOAD3" => state' = "FETCH1" /\ regs' = [regs EXCEPT ![7] = alu]
      /\ state # "FETCH2" => ir' = ir
      /\ psw' = psw
  BY <1>1, <1>4, <1>5, <1>6
     DEF LoadStates, EndOfState, EndOnward, Onward, EndReset1, EndFetch2, EndBcc1, EndArith1,
         EndStore2OrHalt1, EndLda1OrRdps1, EndLoad2, EndLoad3, EndWrps1, EndIret2, EndIret4,
         EndIreq3, EndIreq5, SetReg
<1>9. nzvc' = nzvc /\ ~ieff'
  <2>1. nzvc' = nzvc
    BY <1>1, <1>2, <1>3, De0Flags DEF LoadStates
  <2>2. ~Ctl("PSW_WE")
    BY <1>1, Lines DEF LoadStates
  <2>3. ieff' = (~Ieclr(q) /\ ~Ieclr(q') /\ ieff)
    BY <1>3, <2>2 DEF De0Edge
  <2>4. QED
    BY <1>1, <2>1, <2>3
<1>10. psw' = PswOf(ieff', nzvc')
  <2>1. ieff' \in BOOLEAN
    BY <1>3 DEF De0Edge
  <2>2. ieff' = ieff
    BY <1>1, <1>9, <2>1
  <2>3. QED
    BY <1>1, <1>8, <1>9, <2>2
<1>11. /\ rq'[7] = regs'[7]
       /\ \A r \in 0 .. 6 : rq[r] = regs[r] => rq'[r] = regs'[r]
       /\ state = "LOAD2" => rq'[k] = regs'[k]
  BY <1>1, <1>2, <1>7, <1>8 DEF LoadStates
<1>12. QED
  BY <1>4, <1>8, <1>9, <1>10, <1>11
-----------------------------------------------------------------------------
(* The invariant: until shadow.cc refuses an instruction the two run together. *)
LockInv ==
    /\ scene \in DOMAIN Scenes
    /\ ShadowTypeOK
    /\ De0TypeOK
    /\ mq \in MqOf(state)
    /\ ~fatal => Running

(* The words the memory and the registers can hold. *)
LEMMA LockMqWord ==
  ASSUME LockInv
  PROVE  mq \in Word /\ (state \notin DataStates => mq = 65535)
<1>1. /\ Scenes[scene].opcodes \subseteq Word /\ Scenes[scene].data \subseteq Word
      /\ mq \in MqOf(state)
  BY LockstepAssumption DEF LockInv
<1>2. 65535 \in Word
  BY WordIs
<1>3. CASE state = "FETCH2"
  BY <1>1, <1>3 DEF MqOf, DataStates
<1>4. CASE state \in DataStates /\ state # "FETCH2"
  BY <1>1, <1>4 DEF MqOf
<1>5. CASE state \notin DataStates
  BY <1>1, <1>2, <1>5 DEF MqOf, DataStates
<1>6. QED
  BY <1>3, <1>4, <1>5

LEMMA LockBothRun == ASSUME LockInv, ~fatal PROVE Together
  BY DEF LockInv, Together

(* The types alone are kept when the model refuses an instruction: the FPGA goes
   on, the model has called Shadow::puque and is not compared any more. *)
LEMMA LockRefusedStep ==
  ASSUME LockInv, ~fatal, NEW irq \in BOOLEAN, Puque(mq), De0Clock(mq, irq)
  PROVE  ShadowTypeOK' /\ De0TypeOK' /\ fatal' /\ state' = state
<1>1. ShadowTypeOK /\ De0TypeOK /\ state = "FETCH2"
  BY DEF LockInv, Puque
<1>2. mq \in Word
  BY LockMqWord
<1>3. ShadowTypeOK'
  BY <1>1, <1>2 DEF ShadowTypeOK, Puque, SetReg
<1>4. De0Edge(IR(mq), Alu(mq), irq) /\ MD(mq) \in Word /\ MD(mq) = Alu(mq).d
  BY <1>2, LockBothRun, AluSame DEF De0Clock, MD
<1>5. q = {"FETCH2"} /\ IR(mq) = mq
  BY <1>1, <1>2, LockBothRun, InstrSame
<1>6. rq' = [rq EXCEPT ![7] = Alu(mq).d]
  BY <1>1, <1>2, <1>4, <1>5, De0Regs DEF Flops
<1>7. rq' \in [0 .. 7 -> Word]
  BY <1>1, <1>4, <1>6 DEF De0TypeOK
<1>8. irlat' \in Word
  BY <1>1, <1>2, <1>4, <1>5 DEF De0Edge, De0TypeOK
<1>9. q' \subseteq Flops
  BY <1>4 DEF De0Edge, PosedgeClock
<1>10. ieff' \in BOOLEAN /\ nzvc' = nzvc
  <2>1. nzvc' = nzvc
    BY <1>1, <1>2, <1>4, <1>5, De0Flags DEF Flops
  <2>2. ~Ctl("PSW_WE")
    BY <1>5, Lines DEF Flops
  <2>3. ieff' = (~Ieclr(q) /\ ~Ieclr(q') /\ ieff)
    BY <1>4, <2>2 DEF De0Edge
  <2>4. QED
    BY <1>1, <2>1, <2>3 DEF De0TypeOK
<1>11. QED
  BY <1>1, <1>3, <1>7, <1>8, <1>9, <1>10 DEF De0TypeOK, Puque

LEMMA LockMqStep ==
  ASSUME scene' = scene, mq' \in MqOf(state')
  PROVE  mq' \in MqOf(state)'
  BY DEF MqOf, DataStates

LEMMA LockStep ==
  ASSUME LockInv, [LockNext]_lockVars
  PROVE  LockInv'
<1>1. CASE UNCHANGED lockVars
  BY <1>1 DEF LockInv, Running, SameState, lockVars, shadowVars, de0Vars, ShadowTypeOK, De0TypeOK, MqOf,
              IChecked
<1>2. CASE LockNext
  <2>1. /\ ~fatal /\ scene' = scene /\ mq' \in MqOf(state')
        /\ \E irq \in BOOLEAN : Clock(mq, irq) /\ De0Clock(mq, irq)
    BY <1>2 DEF LockNext
  <2>2. PICK irq \in BOOLEAN : Clock(mq, irq) /\ De0Clock(mq, irq)
    BY <2>1
  <2>3. scene' \in DOMAIN Scenes /\ mq' \in MqOf(state)'
    BY <2>1, LockMqStep DEF LockInv
  <2>4. CASE EndOfState(mq, irq) /\ Begin
    <3>1. Together /\ mq \in Word
      BY <2>1, LockBothRun, LockMqWord
    <3>2. ShadowTypeOK' /\ De0TypeOK' /\ (~fatal' => Running')
      BY <2>2, <2>4, <3>1, TogetherStep
    <3>3. QED
      BY <2>3, <3>2 DEF LockInv
  <2>5. CASE Puque(mq)
    <3>1. ShadowTypeOK' /\ De0TypeOK' /\ fatal'
      BY <2>1, <2>2, <2>5, LockRefusedStep
    <3>2. QED
      BY <2>3, <3>1 DEF LockInv
  <2>6. QED
    BY <2>2, <2>4, <2>5 DEF Clock
<1>3. QED
  BY <1>1, <1>2

(* raspictl starts the run in FETCH1 with the two agreeing on everything. *)
LEMMA LockStarts ==
  ASSUME LockInit
  PROVE  LockInv
<1>1. /\ state = "FETCH1" /\ q = {"FETCH1"} /\ scene \in DOMAIN Scenes
      /\ regs \in Scenes[scene].regfiles /\ rq = regs
      /\ ieff \in BOOLEAN /\ nzvc \in Scenes[scene].flags
      /\ psw = PswOf(ieff, nzvc) /\ ir = 0 /\ irlat = 0 /\ alu = regs[7]
      /\ newpsw = 0 /\ fatal = FALSE /\ mq \in MqOf(state)
  BY DEF LockInit
<1>2. regs \in [0 .. 7 -> Word] /\ nzvc \in Flags
  BY <1>1, LockstepAssumption
<1>3. 0 \in Word /\ psw \in Word /\ regs[7] \in Word
  BY <1>1, <1>2, PswBits, WordIs
<1>4. ShadowTypeOK
  BY <1>1, <1>2, <1>3 DEF ShadowTypeOK, States
<1>5. De0TypeOK
  BY <1>1, <1>2, <1>3 DEF De0TypeOK, Flops
<1>6. alu = BeginAlu(state, ir, regs, psw, alu)
  BY <1>1, BeginIs
<1>7. Running
  BY <1>1, <1>6 DEF Running, SameState
<1>8. QED
  BY <1>1, <1>4, <1>5, <1>7 DEF LockInv

LEMMA LockAlways == LockSpec => []LockInv
<1>1. LockInit => LockInv
  BY LockStarts
<1>2. LockInv /\ [LockNext]_lockVars => LockInv'
  BY LockStep
<1>3. QED
  BY <1>1, <1>2, PTL DEF LockSpec

-----------------------------------------------------------------------------
(* The states, registers and status words of the two stay of their types, and
   shadow.cc never steps to a state it does not name (driver/shadow.cc:387-546). *)
THEOREM LockstepTypes == LockSpec => [](ShadowTypeOK /\ De0TypeOK)
<1>1. LockInv => ShadowTypeOK /\ De0TypeOK
  BY DEF LockInv
<1>2. QED
  BY <1>1, LockAlways, PTL

(* Until the model refuses an instruction its state, registers and status word
   are those of the flip-flops of the FPGA, for every program, every word the
   memory sends and every interrupt (driver/shadow.cc:387-546 against de0/seq.v,
   gprs.v, psw.v). *)
THEOREM SameProcessor == LockSpec => []Agrees
<1>1. LockInv => Agrees
  BY DEF LockInv, Running, Agrees
<1>2. QED
  BY <1>1, LockAlways, PTL

(* Shadow::check never reports a difference: every pin it looks at, at the end of
   every cycle, is what it expects (driver/shadow.cc:60-358), for every program,
   every word the memory sends and every interrupt. *)
THEOREM CheckNeverFails == LockSpec => []CheckPasses
<1>1. LockInv => CheckPasses
  BY LockMqWord, LockBothRun, ControlsChecked, PinsChecked DEF CheckPasses, ChecksConnectors
<1>2. QED
  BY <1>1, LockAlways, PTL
=============================================================================
