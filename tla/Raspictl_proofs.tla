-------------------------- MODULE Raspictl_proofs --------------------------
(***************************************************************************)
(* For every program and command line, whatever the processor powers up    *)
(* with: raspictl stays in step with the processor it clocks, and what     *)
(* SETROSIZE and SETSTKLIM protect stays protected.  And, where the model  *)
(* knows the registers: the model agrees with the pins and registers of    *)
(* the processor, so that no -randmem run ends with a complaint.  And the  *)
(* whole executes the instruction set of Isa, for every program, every     *)
(* content of the registers at power up and every behaviour of the line    *)
(* clock.  Last, the thread of LineClock is the line clock of Raspictl.    *)
(***************************************************************************)
EXTENDS RaspictlHistory, Processor_proofs
-----------------------------------------------------------------------------
(* The memory: words stay words, and a store changes the bytes it names. *)
MemOK(m) == \A a \in DOMAIN m : a \in Word /\ a % 2 = 0 /\ m[a] \in Word

LEMMA WordAtType ==
  ASSUME MemOK(memory)
  PROVE  \A a : WordAt(a) \in Word /\ ByteAt(a) \in Word
<1>1. \A a : WordAt(a) \in Word
  BY TopCleared DEF WordAt, MemOK
<1>2. \A w \in Word : w % 256 \in Word /\ w \div 256 \in Word
  <2> TAKE w \in Word
  <2>1. w \in Int /\ 0 <= w /\ w < 65536
    BY WordIs
  <2>2. /\ w % 256 \in Int /\ 0 <= w % 256 /\ w % 256 < 65536
        /\ w \div 256 \in Int /\ 0 <= w \div 256 /\ w \div 256 < 65536
    BY <2>1
  <2>3. QED
    BY <2>2, WordIs
<1>3. QED
  BY <1>1, <1>2 DEF ByteAt

LEMMA SetWordStores ==
  ASSUME MemOK(memory), NEW a \in Word, a % 2 = 0, NEW w \in Word,
         memory' = SetWord(memory, a, w)
  PROVE  /\ MemOK(memory')
         /\ WordAt(a)' = w
         /\ \A b : b # a => WordAt(b)' = WordAt(b)
<1>1. /\ DOMAIN memory' = DOMAIN memory \union {a}
      /\ \A b \in DOMAIN memory' : memory'[b] = IF b = a THEN w ELSE memory[b]
  BY DEF SetWord
<1>2. MemOK(memory')
  BY <1>1 DEF MemOK
<1>3. WordAt(a)' = w
  BY <1>1 DEF WordAt
<1>4. \A b : b # a => WordAt(b)' = WordAt(b)
  BY <1>1 DEF WordAt
<1>5. QED
  BY <1>2, <1>3, <1>4

(* A word with another low or high byte. *)
WithLow(w, b)  == (w \div 256) * 256 + b
WithHigh(w, b) == 256 * b + (w % 256)

LEMMA Bytes ==
  ASSUME NEW w \in Word, NEW b \in 0 .. 255
  PROVE  /\ WithLow(w, b) \in Word /\ WithHigh(w, b) \in Word
         /\ WithLow(w, b) \div 256 = w \div 256
         /\ WithHigh(w, b) % 256 = w % 256
<1> DEFINE h == w \div 256
           l == w % 256
<1>1. h \in Int /\ 0 <= h /\ h < 256 /\ l \in Int /\ 0 <= l /\ l < 256
  <2>1. w \in Int /\ 0 <= w /\ w < 65536
    BY WordIs
  <2>2. QED
    BY <2>1
<1>2. b \in Int /\ 0 <= b /\ b < 256
  OBVIOUS
<1> HIDE DEF h, l
<1>3. /\ h * 256 + b \in Int /\ 0 <= h * 256 + b /\ h * 256 + b < 65536
      /\ 256 * b + l \in Int /\ 0 <= 256 * b + l /\ 256 * b + l < 65536
      /\ (h * 256 + b) \div 256 = h /\ (256 * b + l) % 256 = l
  BY <1>1, <1>2
<1>4. h * 256 + b \in Word /\ 256 * b + l \in Word
  BY <1>3, WordIs
<1>5. QED
  BY <1>3, <1>4 DEF h, l, WithLow, WithHigh


LEMMA SetWordKeeps ==
  ASSUME MemOK(memory), NEW a \in Word, a % 2 = 0, NEW w \in Word,
         memory' = SetWord(memory, a, w)
  PROVE  \A c \in Word : c \notin {a, a + 1} => ByteAt(c)' = ByteAt(c)
<1>1. \A b : b # a => WordAt(b)' = WordAt(b)
  BY SetWordStores
<1>2. ASSUME NEW c \in Word, c \notin {a, a + 1} PROVE ByteAt(c)' = ByteAt(c)
  <2>1. c \in Int /\ a \in Int
    BY WordIs
  <2>2. c # a /\ c - 1 # a
    BY <1>2, <2>1
  <2>3. QED
    BY <1>1, <2>2 DEF ByteAt
<1>3. QED
  BY <1>2

LEMMA SetByteStores ==
  ASSUME MemOK(memory), NEW a \in Word, NEW b \in 0 .. 255, memory' = SetByte(memory, a, b)
  PROVE  /\ MemOK(memory')
         /\ \A c \in Word : c # a => ByteAt(c)' = ByteAt(c)
<1>1. a \in Int /\ 0 <= a /\ a < 65536 /\ a % 2 \in {0, 1}
  BY WordIs
<1>2. CASE a % 2 = 0
  <2> DEFINE w == WordAt(a)
             u == WithLow(w, b)
  <2>1. w \in Word
    BY WordAtType
  <2> HIDE DEF w, u
  <2>2. u \in Word /\ u \div 256 = w \div 256
    BY <2>1, Bytes DEF u
  <2>3. memory' = SetWord(memory, a, u)
    BY <1>2 DEF SetByte, WithLow, WithHigh, w, u
  <2>4. MemOK(memory') /\ WordAt(a)' = u /\ \A c : c # a => WordAt(c)' = WordAt(c)
    BY <1>2, <2>2, <2>3, SetWordStores
  <2>5. ASSUME NEW c \in Word, c # a PROVE ByteAt(c)' = ByteAt(c)
    <3>1. CASE c % 2 = 0
      BY <2>4, <2>5, <3>1 DEF ByteAt
    <3>2. CASE c % 2 # 0 /\ c - 1 # a
      BY <2>4, <3>2 DEF ByteAt
    <3>3. CASE c % 2 # 0 /\ c - 1 = a
      <4>1. ByteAt(c) = w \div 256 /\ ByteAt(c)' = WordAt(a)' \div 256
        BY <3>3 DEF ByteAt, w
      <4>2. QED
        BY <2>2, <2>4, <4>1
    <3>4. QED
      BY <3>1, <3>2, <3>3
  <2>6. QED
    BY <2>4, <2>5
<1>3. CASE a % 2 = 1
  <2> DEFINE e == a - 1
             w == WordAt(e)
             u == WithHigh(w, b)
  <2>1. e \in Int /\ 0 <= e /\ e < 65536 /\ e % 2 = 0 /\ e # a
    BY <1>1, <1>3
  <2>2. e \in Word
    BY <2>1, WordIs
  <2>3. w \in Word
    BY WordAtType
  <2> HIDE DEF w, u
  <2>4. u \in Word /\ u % 256 = w % 256
    BY <2>3, Bytes DEF u
  <2>5. memory' = SetWord(memory, e, u)
    BY <1>3 DEF SetByte, WithLow, WithHigh, w, u
  <2>6. MemOK(memory') /\ WordAt(e)' = u /\ \A c : c # e => WordAt(c)' = WordAt(c)
    BY <2>1, <2>2, <2>4, <2>5, SetWordStores
  <2>7. ASSUME NEW c \in Word, c # a PROVE ByteAt(c)' = ByteAt(c)
    <3>1. CASE c % 2 = 0 /\ c # e
      BY <2>6, <3>1 DEF ByteAt
    <3>2. CASE c % 2 # 0
      <4>1. c \in Int
        BY WordIs
      <4>2. c - 1 # e
        BY <1>1, <2>7, <4>1
      <4>3. QED
        BY <2>6, <3>2, <4>2 DEF ByteAt
    <3>3. CASE c % 2 = 0 /\ c = e
      <4>1. ByteAt(c) = w % 256 /\ ByteAt(c)' = WordAt(e)' % 256
        BY <3>3 DEF ByteAt, w
      <4>2. QED
        BY <2>4, <2>6, <4>1
    <3>4. QED
      BY <3>1, <3>2, <3>3
  <2>8. QED
    BY <2>6, <2>7
<1>4. QED
  BY <1>1, <1>2, <1>3

-----------------------------------------------------------------------------
(* Where the host stands between two half cycles, against the cycle the processor
   is in; and that a stack pointer below the limit stops the host before the next
   fetch or store. *)
HostInv ==
    /\ pc = "top"     => ~pins.clk /\ ~pins.wdata /\ state \notin DataStates \union GiveStates
    /\ pc = "process" => /\ pins.clk
                         /\ sample.read <=> state \in DataStates
                         /\ sample.write <=> state \in GiveStates
    /\ pc = "send"    => ~pins.clk /\ pins.wdata /\ state \in DataStates
    /\ pc = "recv"    => /\ ~pins.clk /\ ~pins.wdata /\ state \in GiveStates
                         /\ ~OddWord(sample)
    /\ pc = "bottom"  => pins.clk /\ state \notin DataStates \union GiveStates
    /\ ~(sample.read /\ sample.write)

StackInv ==
    pc = "top" \/ (pc # "stopped" /\ state \in GiveStates \union {"FETCH2"}) => ~StackLow

RInv ==
    /\ TypeOK
    /\ pc # "stopped" => Core
    /\ HostInv
    /\ StackInv
    /\ pins.irq = syncintreq

Samples == [clk : BOOLEAN, irq : BOOLEAN, data : Word, word : BOOLEAN,
            halt : BOOLEAN, read : BOOLEAN, write : BOOLEAN]
Pins == [wdata : BOOLEAN, clk : BOOLEAN, irq : BOOLEAN, data : Word]

LEMMA MqType == \A p \in Pins : MQ(p) \in Word
<1>1. 65535 \in Word
  BY WordIs
<1>2. QED
  BY <1>1 DEF Pins, MQ

LEMMA GpioType ==
  ASSUME De0TypeOK, pins \in Pins
  PROVE  /\ readgpio \in Samples
         /\ readgpio.clk = pins.clk /\ readgpio.irq = pins.irq
         /\ readgpio.data = IF pins.wdata THEN pins.data ELSE MD(MQ(pins))
<1>1. \A m : MD(m) \in Word
  BY AluWord DEF MD, Alu
<1>2. \A c : Ctl(c) \in BOOLEAN
  BY DEF Ctl, AnyOf
<1>3. \A i : MEM_WORD(i) \in BOOLEAN
  BY DEF MEM_WORD
<1>4. QED
  BY <1>1, <1>2, <1>3 DEF readgpio, Samples, Pins


(* A step that lets Shadow::check pass and raises the clock. *)
Raises(s) ==
    /\ check(s)
    /\ Clock(s.data, s.irq)
    /\ ~fatal'
    /\ pins' \in Pins /\ pins'.irq = pins.irq /\ pins'.clk
    /\ pins.wdata => MQ(pins') = MQ(pins)
    /\ \E m \in {MQ(pins), MQ(pins')}, i \in {pins.irq, pins'.irq} : De0Clock(m, i)

LEMMA Raise ==
  ASSUME RInv, pc \in {"top", "send", "recv"}, Raises(readgpio)
  PROVE  /\ ShadowTypeOK' /\ De0TypeOK' /\ Core'
         /\ readgpio \in Samples
         /\ readgpio.irq = pins.irq
         /\ EndOfState(readgpio.data, pins.irq)
         /\ readgpio.read <=> state \in ReadStates
         /\ readgpio.write <=> state \in WriteStates
<1> DEFINE s == readgpio
<1>1. /\ ShadowTypeOK /\ De0TypeOK /\ Core /\ pins \in Pins
      /\ ~pins.clk /\ (pc = "send" <=> pins.wdata)
      /\ pc = "send" <=> state \in DataStates
  BY DEF RInv, TypeOK, HostInv, Pins, DataStates, GiveStates
<1>2. /\ s \in Samples /\ s.irq = pins.irq /\ ~s.clk
      /\ s.data = IF pins.wdata THEN pins.data ELSE MD(MQ(pins))
  BY <1>1, GpioType
<1>3. /\ check(s) /\ Clock(s.data, s.irq) /\ ~fatal'
      /\ pins' \in Pins /\ pins'.irq = pins.irq
      /\ pins.wdata => MQ(pins') = MQ(pins)
      /\ \E m \in {MQ(pins), MQ(pins')}, i \in {pins.irq, pins'.irq} : De0Clock(m, i)
  BY DEF Raises
<1> HIDE DEF s
<1>4. s.data \in Word /\ s.irq \in BOOLEAN /\ pins.irq \in BOOLEAN
  BY <1>1, <1>2 DEF Samples, Pins
<1>5. PICK w \in {MQ(pins), MQ(pins')} : De0Clock(w, pins.irq)
  BY <1>3
<1>6. w \in Word /\ MQ(pins) \in Word
  BY <1>1, <1>3, MqType
<1>7. state \in {"FETCH2", "IRET4"} => w = s.data
  BY <1>1, <1>2, <1>3, <1>5 DEF DataStates, MQ
<1>8. state = "WRPS1" => MD(w) = alu
  <2>1. ASSUME state = "WRPS1" PROVE MD(w) = alu
    <3>1. q = {state} /\ alu = BeginAlu(state, ir, regs, psw, alu)
      BY <1>1 DEF Core
    <3>2. s.data = AluExpected(s.data)
      BY <1>3, <2>1 DEF check, DataChecked, DataStates
    <3>3. AluExpected(s.data) = alu
      BY <2>1, <3>1 DEF AluExpected
    <3>4. s.data = MD(MQ(pins))
      BY <1>1, <1>2, <2>1 DEF DataStates
    <3>5. MD(w) = MD(MQ(pins))
      BY <1>1, <1>6, <2>1, <3>1, PassesOn
    <3>6. QED
      BY <3>2, <3>3, <3>4, <3>5
  <2>2. QED
    BY <2>1
<1>9. ShadowTypeOK' /\ De0TypeOK' /\ Core' /\ EndOfState(s.data, pins.irq)
  BY <1>1, <1>2, <1>3, <1>4, <1>5, <1>6, <1>7, <1>8, CoreEdge
<1>10. /\ s.read <=> state \in ReadStates
       /\ s.write <=> state \in WriteStates
  BY <1>3 DEF check, ReadExpected, WriteExpected
<1>11. QED
  BY <1>2, <1>9, <1>10 DEF s


(* The type invariant in the parts the steps change. *)
Places == {"top", "process", "send", "recv", "bottom", "stopped"}

HostTypes ==
    /\ MemOK(memory)
    /\ intreqreg \subseteq {"SCNINTREQ", "LINECLOCK", "RANDMEM"}
    /\ syncintreq \in BOOLEAN /\ lineclockrun \in BOOLEAN /\ lineclockset \in BOOLEAN
    /\ mr_syscall_rc \in Word /\ readonlysize \in Word /\ stacklimit \in Word
    /\ randinit \in 0 .. RandLoads /\ reads \in 0 .. MaxReads

Parts == /\ ShadowTypeOK /\ De0TypeOK
         /\ pc \in Places /\ sample \in Samples /\ pins \in Pins
         /\ HostTypes

LEMMA TypeParts == (TypeOK <=> Parts) /\ (TypeOK' <=> Parts')
<1>1. TypeOK <=> Parts
  BY DEF TypeOK, Parts, HostTypes, MemOK, Places, Samples, Pins
<1>2. TypeOK' <=> Parts'
  BY DEF TypeOK, Parts, HostTypes, MemOK, Places, Samples, Pins
<1>3. QED
  BY <1>1, <1>2

LEMMA HostKept ==
  ASSUME HostTypes, UNCHANGED hostVars, syncintreq' = syncintreq
  PROVE  HostTypes'
  BY DEF HostTypes, MemOK, hostVars

LEMMA ProcessorKept ==
  ASSUME UNCHANGED <<shadowVars, de0Vars>>
  PROVE  /\ ShadowTypeOK => ShadowTypeOK'
         /\ De0TypeOK => De0TypeOK'
         /\ Core => Core'
         /\ state' = state /\ regs' = regs
<1>1. /\ state' = state /\ ir' = ir /\ regs' = regs /\ psw' = psw /\ alu' = alu
      /\ newpsw' = newpsw /\ fatal' = fatal
      /\ q' = q /\ irlat' = irlat /\ rq' = rq /\ ieff' = ieff /\ nzvc' = nzvc
  BY DEF shadowVars, de0Vars
<1>2. Core => Core'
  BY <1>1 DEF Core
<1>3. ShadowTypeOK => ShadowTypeOK'
  BY <1>1 DEF ShadowTypeOK
<1>4. De0TypeOK => De0TypeOK'
  BY <1>1 DEF De0TypeOK
<1>5. QED
  BY <1>1, <1>2, <1>3, <1>4

(* A step of the host that leaves the processor as it is. *)
LEMMA Quiet ==
  ASSUME RInv, UNCHANGED <<shadowVars, de0Vars, options>>,
         pc' \in Places, sample' \in Samples, pins' \in Pins, HostTypes',
         pc # "stopped" \/ pc' = "stopped",
         HostInv', pins'.irq = syncintreq',
         pc' = "top" => ~StackLow, stacklimit' = stacklimit
  PROVE  RInv'
<1>1. /\ Parts /\ (pc # "stopped" => Core) /\ StackInv
  BY TypeParts DEF RInv
<1>2. ShadowTypeOK' /\ De0TypeOK' /\ (pc # "stopped" => Core') /\ state' = state /\ regs' = regs
  BY <1>1, ProcessorKept DEF Parts
<1>3. TypeOK'
  BY <1>2, TypeParts DEF Parts
<1>4. StackInv'
  BY <1>1, <1>2 DEF StackInv, StackLow
<1>5. QED
  BY <1>2, <1>3, <1>4 DEF RInv


(* What the three steps that raise the clock have in common. *)
LEMMA RaiseKeeps ==
  ASSUME RInv, pc \in {"top", "send", "recv"}, Raises(readgpio),
         syncintreq' = syncintreq, HostTypes', sample' \in Samples,
         ~(sample'.read /\ sample'.write),
         \/ pc = "top" /\ pc' = "process" /\ sample' = readgpio /\ stacklimit' = stacklimit
         \/ pc \in {"send", "recv"} /\ pc' \in {"bottom", "stopped"}
  PROVE  RInv'
<1> DEFINE s == readgpio
<1>1. /\ ShadowTypeOK' /\ De0TypeOK' /\ Core'
      /\ s \in Samples /\ s.irq = pins.irq
      /\ EndOfState(s.data, pins.irq)
      /\ s.read <=> state \in ReadStates
      /\ s.write <=> state \in WriteStates
  BY Raise
<1>2. Parts /\ StackInv /\ pins.irq = syncintreq /\ HostInv
  BY TypeParts DEF RInv
<1>3. pins' \in Pins /\ pins'.irq = pins.irq /\ pins'.clk
  BY DEF Raises
<1> HIDE DEF s
<1>4. s.data \in Word /\ pins.irq \in BOOLEAN
  BY <1>1, <1>2 DEF Parts, Samples, Pins
<1>5. ShadowTypeOK /\ state \in Flops
  BY <1>2 DEF Parts, ShadowTypeOK, States, Flops
<1>6. /\ state' \in DataStates <=> state \in ReadStates
      /\ state' \in GiveStates <=> state \in WriteStates
      /\ state' = "FETCH2" <=> state = "FETCH1"
  BY <1>1, <1>4, <1>5, Transfers DEF GiveStates
<1>7. state \in WriteStates \union {"FETCH1"} => regs' = regs
  BY <1>1, <1>4, <1>5, EndTypes
<1>8. pc' \in Places /\ TypeOK'
  <2>1. pc' \in Places
    BY DEF Places
  <2>2. QED
    BY <1>1, <1>3, <2>1, TypeParts DEF Parts
<1>9. HostInv' /\ StackInv'
  <2>1. CASE pc = "top" /\ pc' = "process" /\ sample' = s /\ stacklimit' = stacklimit
    <3>1. HostInv'
      BY <1>1, <1>3, <1>6, <2>1 DEF HostInv
    <3>2. StackInv'
      BY <1>2, <1>6, <1>7, <2>1 DEF StackInv, StackLow
    <3>3. QED
      BY <3>1, <3>2
  <2>2. CASE pc \in {"send", "recv"} /\ pc' \in {"bottom", "stopped"}
    <3>1. state \in DataStates \union GiveStates
      BY <1>2, <2>2 DEF HostInv
    <3>2. state' \notin DataStates \union GiveStates \union {"FETCH2"}
      BY <1>6, <3>1 DEF DataStates, GiveStates, ReadStates, WriteStates
    <3>3. HostInv'
      BY <1>3, <2>2, <3>2 DEF HostInv
    <3>4. StackInv'
      BY <2>2, <3>2 DEF StackInv
    <3>5. QED
      BY <3>3, <3>4
  <2>3. QED
    BY <2>1, <2>2 DEF s
<1>10. QED
  BY <1>1, <1>2, <1>3, <1>8, <1>9 DEF RInv


LEMMA TopRaises == ASSUME RInv, Top PROVE Raises(readgpio)
<1> DEFINE s == readgpio
<1>1. Parts /\ HostInv
  BY TypeParts DEF RInv
<1>2. /\ pc = "top" /\ pc' = "process" /\ sample' = s /\ syncintreq' = syncintreq
      /\ CheckAndRaise(s, state' = "FETCH2", ir)
  BY DEF Top
<1>3. ~pins.clk /\ ~pins.wdata
  BY <1>1, <1>2 DEF HostInv
<1>4. ir \in Word /\ 0 \in Word /\ syncintreq' \in BOOLEAN /\ (state' = "FETCH2") \in BOOLEAN
  BY <1>1, <1>2, TopCleared DEF Parts, ShadowTypeOK, HostTypes
<1>5. pins.irq = syncintreq
  BY DEF RInv
<1>6. /\ pins' = [wdata |-> state' = "FETCH2", clk |-> TRUE, irq |-> syncintreq',
                  data |-> IF state' = "FETCH2" THEN ir ELSE 0]
      /\ \E m \in {MQ(pins), MQ(pins')}, i \in {pins.irq, pins'.irq} : De0Clock(m, i)
  BY <1>2, <1>3 DEF CheckAndRaise, writegpio
<1>7. pins' \in Pins /\ pins'.irq = pins.irq /\ pins'.clk
  BY <1>2, <1>4, <1>5, <1>6 DEF Pins
<1>8. QED
  BY <1>2, <1>3, <1>6, <1>7 DEF CheckAndRaise, Raises

LEMMA TopKeeps == ASSUME RInv, Top, UNCHANGED options PROVE RInv'
<1> DEFINE s == readgpio
<1>1. Parts /\ HostInv
  BY TypeParts DEF RInv
<1>2. /\ pc = "top" /\ pc' = "process" /\ sample' = s /\ syncintreq' = syncintreq
      /\ UNCHANGED hostVars
  BY DEF Top
<1>3. HostTypes' /\ stacklimit' = stacklimit
  BY <1>1, <1>2, HostKept DEF Parts, hostVars
<1>4. s \in Samples
  BY <1>1, GpioType DEF Parts
<1>5. Raises(s)
  BY TopRaises
<1>6. ~(s.read /\ s.write)
  BY <1>2, <1>5, Raise DEF ReadStates, WriteStates
<1>7. QED
  BY <1>2, <1>3, <1>4, <1>5, <1>6, RaiseKeeps

LEMMA SendRaises == ASSUME RInv, Send PROVE Raises(readgpio)
<1>1. Parts /\ HostInv
  BY TypeParts DEF RInv
<1>2. /\ pc = "send" /\ syncintreq' = syncintreq
      /\ CheckAndRaise(readgpio, TRUE, pins.data)
  BY DEF Send
<1>3. ~pins.clk /\ pins.wdata
  BY <1>1, <1>2 DEF HostInv
<1>4. pins.data \in Word /\ syncintreq' \in BOOLEAN
  BY <1>1, <1>2 DEF Parts, Pins, HostTypes
<1>5. pins.irq = syncintreq
  BY DEF RInv
<1>6. /\ pins' = [wdata |-> TRUE, clk |-> TRUE, irq |-> syncintreq', data |-> pins.data]
      /\ \E m \in {MQ(pins), MQ(pins')}, i \in {pins.irq, pins'.irq} : De0Clock(m, i)
  BY <1>2, <1>3 DEF CheckAndRaise, writegpio
<1>7. pins' \in Pins /\ pins'.irq = pins.irq /\ pins'.clk /\ MQ(pins') = MQ(pins)
  BY <1>2, <1>3, <1>4, <1>5, <1>6 DEF Pins, MQ
<1>8. QED
  BY <1>2, <1>6, <1>7 DEF CheckAndRaise, Raises

LEMMA SendKeeps == ASSUME RInv, Send, UNCHANGED options PROVE RInv'
<1>1. Parts /\ HostInv
  BY TypeParts DEF RInv
<1>2. /\ pc = "send" /\ pc' = "bottom" /\ sample' = sample /\ syncintreq' = syncintreq
      /\ UNCHANGED hostVars
  BY DEF Send
<1>3. HostTypes'
  BY <1>1, <1>2, HostKept DEF Parts
<1>4. sample' \in Samples /\ ~(sample'.read /\ sample'.write)
  BY <1>1, <1>2 DEF Parts, HostInv
<1>5. QED
  BY <1>2, <1>3, <1>4, SendRaises, RaiseKeeps


LEMMA RecvRaises == ASSUME RInv, Recv PROVE Raises(readgpio)
<1>1. Parts /\ HostInv
  BY TypeParts DEF RInv
<1>2. /\ pc = "recv" /\ syncintreq' = syncintreq
      /\ CheckAndRaise(readgpio, FALSE, 0)
  BY DEF Recv
<1>3. ~pins.clk /\ ~pins.wdata
  BY <1>1, <1>2 DEF HostInv
<1>4. 0 \in Word /\ syncintreq' \in BOOLEAN /\ pins.irq = syncintreq
  BY <1>1, <1>2, TopCleared DEF Parts, HostTypes, RInv
<1>5. /\ pins' = [wdata |-> FALSE, clk |-> TRUE, irq |-> syncintreq', data |-> 0]
      /\ \E m \in {MQ(pins), MQ(pins')}, i \in {pins.irq, pins'.irq} : De0Clock(m, i)
  BY <1>2, <1>3 DEF CheckAndRaise, writegpio
<1>6. pins' \in Pins /\ pins'.irq = pins.irq /\ pins'.clk
  BY <1>2, <1>4, <1>5 DEF Pins
<1>7. QED
  BY <1>2, <1>3, <1>5, <1>6 DEF CheckAndRaise, Raises

(* The host calls and stores keep the types and spare the protected bytes. *)
Spared(c) == ByteAt(c)' = ByteAt(c)

LEMMA MemorySame == ASSUME memory' = memory PROVE \A c : Spared(c)
  BY DEF Spared, ByteAt, WordAt

LEMMA FailTypes ==
  ASSUME HostTypes, SyscallFail, UNCHANGED <<syncintreq, randinit, reads>>
  PROVE  /\ HostTypes'
         /\ \A c \in Word \ {ERRNO, ERRNO + 1} : Spared(c)
<1>1. ERRNO \in Word /\ ERRNO % 2 = 0 /\ 65536 - 38 \in Word /\ 65535 \in Word
  BY WordIs DEF ERRNO
<1>2. MemOK(memory) /\ memory' = SetWord(memory, ERRNO, 65536 - 38)
  BY DEF HostTypes, SyscallFail
<1>3. MemOK(memory')
  BY <1>1, <1>2, SetWordStores
<1>4. \A c \in Word \ {ERRNO, ERRNO + 1} : Spared(c)
  BY <1>1, <1>2, SetWordKeeps DEF Spared
<1>5. HostTypes'
  BY <1>1, <1>3 DEF HostTypes, SyscallFail, MemOK
<1>6. QED
  BY <1>4, <1>5

LEMMA IrqMaskType == IrqMask \in Word
<1> DEFINE a == "SCNINTREQ" \in intreqreg
           b == "LINECLOCK" \in intreqreg
           c == "RANDMEM" \in intreqreg
<1>1. IrqMask = Num(a) * 1 + Num(b) * 2 + Num(c) * 4
  BY DEF IrqMask
<1>2. Num(a) \in {0, 1} /\ Num(b) \in {0, 1} /\ Num(c) \in {0, 1}
  BY DEF Num
<1> HIDE DEF a, b, c
<1>3. IrqMask \in Int /\ 0 <= IrqMask /\ IrqMask < 65536
  BY <1>1, <1>2
<1>4. QED
  BY <1>3, WordIs

LEMMA SyscallTypes ==
  ASSUME HostTypes, NEW data \in Word, Syscall(data), UNCHANGED <<syncintreq, randinit, reads>>
  PROVE  /\ HostTypes' /\ pc' \in {"bottom", "stopped"}
         /\ \A c \in Word \ {ERRNO, ERRNO + 1} : Spared(c)
<1> DEFINE scn == readmemword(data)
           arg == readmemword(data + 2)
<1>1. arg \in Word /\ 0 \in Word
  BY WordAtType, TopCleared DEF readmemword, HostTypes
<1>2. \/ SyscallFail
      \/ ScnExit \/ ScnIntReq(arg) \/ ScnIrqAtNs(arg) \/ ScnIntAck
      \/ ScnSetRoSize(arg) \/ ScnSetStkLim(arg)
  BY DEF Syscall
<1> HIDE DEF arg
<1>3. ASSUME memory' = memory, HostTypes', pc' \in {"bottom", "stopped"}
      PROVE  /\ HostTypes' /\ pc' \in {"bottom", "stopped"}
             /\ \A c \in Word \ {ERRNO, ERRNO + 1} : Spared(c)
  BY <1>3, MemorySame
<1>4. CASE SyscallFail
  BY <1>4, FailTypes DEF SyscallFail
<1>5. CASE ScnExit
  BY <1>3, <1>5 DEF ScnExit, Stop, HostTypes, MemOK
<1>6. CASE ScnIntReq(arg)
  BY <1>3, <1>6 DEF ScnIntReq, SetRequest, HostTypes, MemOK
<1>7. CASE ScnIrqAtNs(arg)
  <2>1. TimeHasSeconds(arg) \in BOOLEAN /\ (lineclockrun \/ TimeGiven(arg)) \in BOOLEAN
    BY DEF TimeHasSeconds, TimeGiven
  <2>2. HostTypes'
    BY <1>1, <1>7, <2>1 DEF ScnIrqAtNs, SetTime, HostTypes, MemOK
  <2>3. QED
    BY <1>3, <1>7, <2>2 DEF ScnIrqAtNs, SetTime
<1>8. CASE ScnIntAck
  BY <1>3, <1>8, IrqMaskType DEF ScnIntAck, HostTypes, MemOK
<1>9. CASE ScnSetRoSize(arg)
  BY <1>1, <1>3, <1>9 DEF ScnSetRoSize, HostTypes, MemOK
<1>10. CASE ScnSetStkLim(arg)
  BY <1>1, <1>3, <1>10 DEF ScnSetStkLim, HostTypes, MemOK
<1>11. QED
  BY <1>2, <1>4, <1>5, <1>6, <1>7, <1>8, <1>9, <1>10


LEMMA WriteTypes ==
  ASSUME HostTypes, NEW addr \in Word, NEW data \in Word, WriteMemory(addr, data),
         sample.word => addr % 2 = 0, syncintreq' = syncintreq
  PROVE  /\ HostTypes' /\ pc' \in {"bottom", "stopped"} /\ stacklimit' = stacklimit
         /\ \A c \in Word : c < readonlysize => Spared(c)
<1>1. CASE addr < readonlysize
  <2>1. UNCHANGED hostVars /\ pc' = "stopped"
    BY <1>1 DEF WriteMemory, Stop
  <2>2. HostTypes' /\ memory' = memory /\ stacklimit' = stacklimit
    BY <2>1, HostKept DEF hostVars
  <2>3. QED
    BY <2>1, <2>2, MemorySame
<1>2. CASE ~(addr < readonlysize)
  <2>1. /\ memory' = IF sample.word THEN SetWord(memory, addr, data)
                     ELSE SetByte(memory, addr, data % 256)
        /\ pc' = "bottom"
        /\ UNCHANGED <<intreqreg, lineclockrun, lineclockset, mr_syscall_rc,
                       readonlysize, stacklimit, randinit, reads>>
    BY <1>2 DEF WriteMemory
  <2>2. MemOK(memory) /\ addr \in Int /\ readonlysize \in Int
    BY WordIs DEF HostTypes
  <2>3. data % 256 \in 0 .. 255
    <3>1. data \in Int
      BY WordIs
    <3>2. QED
      BY <3>1
  <2>4. MemOK(memory') /\ \A c \in Word : c < readonlysize => Spared(c)
    <3>1. \A c \in Word : c < readonlysize => c \notin {addr, addr + 1}
      <4> TAKE c \in Word
      <4>1. c \in Int
        BY WordIs
      <4>2. QED
        BY <1>2, <2>2, <4>1
    <3>2. CASE sample.word
      <4>1. memory' = SetWord(memory, addr, data) /\ addr % 2 = 0
        BY <2>1, <3>2
      <4>2. QED
        BY <2>2, <3>1, <4>1, SetWordStores, SetWordKeeps DEF Spared
    <3>3. CASE ~sample.word
      <4>1. memory' = SetByte(memory, addr, data % 256)
        BY <2>1, <3>3
      <4>2. QED
        BY <2>2, <2>3, <3>1, <4>1, SetByteStores DEF Spared
    <3>4. QED
      BY <3>2, <3>3
  <2>5. HostTypes'
    BY <2>1, <2>4 DEF HostTypes
  <2>6. QED
    BY <2>1, <2>4, <2>5
<1>3. QED
  BY <1>1, <1>2

(* A step of recvdata and the store or host call it makes. *)
LEMMA RecvKeeps ==
  ASSUME RInv, Recv, UNCHANGED options
  PROVE  /\ RInv'
         /\ \A c \in Word \ {ERRNO, ERRNO + 1} : c < readonlysize => Spared(c)
<1> DEFINE s == readgpio
<1>1. Parts /\ HostInv
  BY TypeParts DEF RInv
<1>2. /\ pc = "recv" /\ sample' = sample /\ syncintreq' = syncintreq
      /\ CheckAndRaise(s, FALSE, 0)
      /\ IF RandMem
         THEN /\ intreqreg' \in {{}, {"RANDMEM"}}
              /\ pc' = "bottom"
              /\ UNCHANGED <<memory, lineclockrun, lineclockset, mr_syscall_rc,
                             readonlysize, stacklimit, randinit, reads>>
         ELSE IF IsMagic(sample.data)
         THEN Syscall(s.data) /\ UNCHANGED <<randinit, reads>>
         ELSE WriteMemory(sample.data, s.data)
  BY DEF Recv
<1>3. s \in Samples /\ ~pins.clk /\ ~pins.wdata /\ ~OddWord(sample)
  BY <1>1, <1>2, GpioType DEF Parts, HostInv
<1>4. sample \in Samples /\ HostTypes
  BY <1>1 DEF Parts
<1>5. Raises(s)
  BY RecvRaises
<1>6. /\ HostTypes' /\ pc' \in {"bottom", "stopped"}
      /\ \A c \in Word \ {ERRNO, ERRNO + 1} : c < readonlysize => Spared(c)
  <2>1. s.data \in Word /\ sample.data \in Word
    BY <1>3, <1>4 DEF Samples
  <2> HIDE DEF s
  <2>2. CASE RandMem
    <3>1. HostTypes' /\ memory' = memory
      BY <1>2, <1>4, <2>2 DEF HostTypes, MemOK
    <3>2. QED
      BY <1>2, <2>2, <3>1, MemorySame
  <2>3. CASE ~RandMem /\ IsMagic(sample.data)
    BY <1>2, <1>4, <2>1, <2>3, SyscallTypes
  <2>4. CASE ~RandMem /\ ~IsMagic(sample.data)
    <3>1. sample.word => sample.data % 2 = 0
      <4>1. sample.data % 2 \in {0, 1}
        BY <2>1, WordIs
      <4>2. QED
        BY <1>3, <2>4, <4>1 DEF OddWord
    <3>2. WriteMemory(sample.data, s.data)
      BY <1>2, <2>4
    <3>3. QED
      BY <1>2, <1>4, <2>1, <3>1, <3>2, WriteTypes
  <2>5. QED
    BY <2>2, <2>3, <2>4
<1>7. sample' \in Samples /\ ~(sample'.read /\ sample'.write)
  BY <1>1, <1>2, <1>4 DEF HostInv
<1>8. RInv'
  BY <1>2, <1>5, <1>6, <1>7, RaiseKeeps
<1>9. QED
  BY <1>6, <1>8


(* The answer to a read is a word. *)
LEMMA AnswerType ==
  ASSUME HostTypes, sample \in Samples, NEW left \in 0 .. RandLoads,
         NEW data \in IF RandMem THEN RandAnswer(left) ELSE {MemoryAnswer(sample)}
  PROVE  data \in Word
<1>1. CASE RandMem
  <2>1. CASE randinit > 0 /\ left % 2 = 1
    <3> DEFINE k == (left - 1) \div 2
    <3>1. data = 49152 + 128 * k + 7 * 1024
      BY <1>1, <2>1 DEF RandAnswer
    <3>2. k \in Int /\ 0 <= k /\ k < 7
      BY <2>1 DEF RandLoads
    <3> HIDE DEF k
    <3>3. data \in Int /\ 0 <= data /\ data < 65536
      BY <3>1, <3>2
    <3>4. QED
      BY <3>3, WordIs
  <2>2. CASE ~(randinit > 0 /\ left % 2 = 1)
    BY <1>1, <2>2, RaspictlAssumption DEF RandAnswer
  <2>3. QED
    BY <2>1, <2>2
<1>2. CASE ~RandMem
  <2>1. data = MemoryAnswer(sample)
    BY <1>2
  <2>2. mr_syscall_rc \in Word /\ \A a : WordAt(a) \in Word /\ ByteAt(a) \in Word
    BY WordAtType DEF HostTypes
  <2>3. QED
    BY <2>1, <2>2 DEF MemoryAnswer
<1>3. QED
  BY <1>1, <1>2

LEMMA SendAnswerKeeps == ASSUME RInv, SendAnswer, UNCHANGED options PROVE RInv'
<1>1. Parts /\ HostInv /\ pins.irq = syncintreq
  BY TypeParts DEF RInv
<1>2. /\ pc = "process" /\ sample.read /\ pc' = "send" /\ syncintreq' = syncintreq
      /\ RandMem => reads < MaxReads
      /\ reads' = IF RandMem THEN reads + 1 ELSE reads
      /\ randinit' = CountDown(randinit)
      /\ UNCHANGED <<shadowVars, sample, memory, intreqreg, lineclockrun, lineclockset,
                     mr_syscall_rc, readonlysize, stacklimit>>
  BY DEF SendAnswer
<1>3. PICK data \in IF RandMem THEN RandAnswer(randinit') ELSE {MemoryAnswer(sample)} :
           writegpio(TRUE, FALSE, data)
  BY DEF SendAnswer
<1>4. HostTypes' /\ randinit' \in 0 .. RandLoads
  <2>1. randinit' \in 0 .. RandLoads
    BY <1>1, <1>2 DEF Parts, HostTypes, CountDown, RandLoads
  <2>2. reads' \in 0 .. MaxReads
    BY <1>1, <1>2, RaspictlAssumption DEF Parts, HostTypes
  <2>3. QED
    BY <1>1, <1>2, <2>1, <2>2 DEF Parts, HostTypes, MemOK
<1>5. data \in Word
  BY <1>1, <1>3, <1>4, AnswerType DEF Parts
<1>6. pins' = [wdata |-> TRUE, clk |-> FALSE, irq |-> syncintreq', data |-> data]
      /\ UNCHANGED de0Vars
  BY <1>3 DEF writegpio
<1>7. pins' \in Pins /\ ~pins'.clk /\ pins'.wdata /\ pins'.irq = syncintreq'
  BY <1>4, <1>5, <1>6 DEF Pins, HostTypes
<1>8. HostInv'
  BY <1>1, <1>2, <1>7 DEF HostInv, shadowVars
<1>9. sample' \in Samples /\ stacklimit' = stacklimit /\ pc' \in Places
  BY <1>1, <1>2 DEF Parts, Places
<1>10. QED
  BY <1>2, <1>4, <1>6, <1>7, <1>8, <1>9, Quiet

LEMMA AwaitDataKeeps == ASSUME RInv, AwaitData, UNCHANGED options PROVE RInv'
<1>1. Parts /\ HostInv /\ pins.irq = syncintreq
  BY TypeParts DEF RInv
<1>2. /\ pc = "process" /\ sample.write /\ ~OddWord(sample)
      /\ pc' = "recv" /\ syncintreq' = syncintreq
      /\ TurnRound
      /\ UNCHANGED <<shadowVars, sample, hostVars, options>>
  BY DEF AwaitData
<1>3. HostTypes'
  BY <1>1, <1>2, HostKept DEF Parts
<1>4. pins' = [wdata |-> FALSE, clk |-> FALSE, irq |-> syncintreq', data |-> 0]
      /\ UNCHANGED de0Vars
  BY <1>2 DEF TurnRound, writegpio
<1>5. pins' \in Pins /\ ~pins'.clk /\ ~pins'.wdata /\ pins'.irq = syncintreq'
  BY <1>3, <1>4, TopCleared DEF Pins, HostTypes
<1>6. HostInv'
  BY <1>1, <1>2, <1>5 DEF HostInv, shadowVars, OddWord, RandMem
<1>7. sample' \in Samples /\ stacklimit' = stacklimit /\ pc' \in Places
  BY <1>1, <1>2 DEF Parts, Places, hostVars
<1>8. QED
  BY <1>2, <1>3, <1>4, <1>5, <1>6, <1>7, Quiet

LEMMA BottomKeeps == ASSUME RInv, Bottom, UNCHANGED options PROVE RInv'
<1>1. Parts /\ HostInv /\ pins.irq = syncintreq
  BY TypeParts DEF RInv
<1>2. /\ pc = "bottom" \/ (pc = "process" /\ ~sample.read /\ ~sample.write)
      /\ ~StackLow
      /\ syncintreq' = IrqLevel
      /\ writegpio(FALSE, FALSE, 0)
      /\ pc' = "top"
      /\ UNCHANGED <<shadowVars, sample, hostVars>>
  BY DEF Bottom
<1>3. HostTypes'
  <2>1. syncintreq' \in BOOLEAN
    BY <1>2 DEF IrqLevel
  <2>2. QED
    BY <1>1, <1>2, <2>1 DEF Parts, HostTypes, MemOK, hostVars
<1>4. pins' = [wdata |-> FALSE, clk |-> FALSE, irq |-> syncintreq', data |-> 0]
      /\ UNCHANGED de0Vars
  BY <1>2 DEF writegpio
<1>5. pins' \in Pins /\ ~pins'.clk /\ ~pins'.wdata /\ pins'.irq = syncintreq'
  BY <1>3, <1>4, TopCleared DEF Pins, HostTypes
<1>6. HostInv'
  BY <1>1, <1>2, <1>5 DEF HostInv, shadowVars
<1>7. sample' \in Samples /\ stacklimit' = stacklimit /\ pc' \in Places
  BY <1>1, <1>2 DEF Parts, Places, hostVars
<1>8. QED
  BY <1>2, <1>3, <1>4, <1>5, <1>6, <1>7, Quiet

(* exit () and abort (), with the pins as they are. *)
LEMMA StopKeeps ==
  ASSUME RInv, Stop, UNCHANGED <<shadowVars, de0Vars, sample, pins, syncintreq, hostVars, options>>
  PROVE  RInv'
<1>1. Parts /\ HostInv /\ pins.irq = syncintreq
  BY TypeParts DEF RInv
<1>2. HostTypes'
  BY <1>1, HostKept DEF Parts
<1>3. /\ pc' = "stopped" /\ sample' = sample /\ pins' = pins /\ syncintreq' = syncintreq
      /\ stacklimit' = stacklimit
  BY DEF Stop, hostVars
<1>4. sample' \in Samples /\ pins' \in Pins /\ pins'.irq = syncintreq' /\ pc' \in Places
  BY <1>1, <1>3 DEF Parts, Places
<1>5. HostInv'
  BY <1>1, <1>3 DEF HostInv
<1>6. QED
  BY <1>2, <1>3, <1>4, <1>5, Quiet

LEMMA ShadowAbortKeeps ==
  ASSUME RInv, ShadowAbort, UNCHANGED options
  PROVE  RInv' /\ (state' = "FETCH2" => state \in {"FETCH1", "FETCH2"})
<1> DEFINE s == readgpio
<1>1. Parts /\ HostInv /\ pins.irq = syncintreq
  BY TypeParts DEF RInv
<1>2. /\ pc' = "stopped" /\ (IF check(s) THEN Clock(s.data, s.irq) ELSE UNCHANGED shadowVars)
      /\ UNCHANGED <<de0Vars, sample, pins, syncintreq, hostVars>>
  BY DEF ShadowAbort, CheckAborts, Stop
<1>3. s \in Samples
  BY <1>1, GpioType DEF Parts
<1> HIDE DEF s
<1>4. s.data \in Word /\ s.irq \in BOOLEAN
  BY <1>3 DEF Samples
<1>5. ShadowTypeOK' /\ (state' = "FETCH2" => state \in {"FETCH1", "FETCH2"})
  <2>1. CASE check(s)
    BY <1>1, <1>2, <1>4, <2>1, ClockKeeps DEF Parts
  <2>2. CASE ~check(s)
    BY <1>1, <1>2, <2>2 DEF shadowVars, ShadowTypeOK, Parts
  <2>3. QED
    BY <2>1, <2>2
<1>6. De0TypeOK'
  BY <1>1, <1>2 DEF Parts, De0TypeOK, de0Vars
<1>7. HostTypes'
  BY <1>1, <1>2, HostKept DEF Parts
<1>8. TypeOK'
  BY <1>1, <1>2, <1>5, <1>6, <1>7, TypeParts DEF Parts, Places
<1>9. HostInv' /\ StackInv' /\ pins'.irq = syncintreq' /\ pc' = "stopped"
  BY <1>1, <1>2 DEF HostInv, StackInv
<1>10. QED
  BY <1>5, <1>8, <1>9 DEF RInv

LEMMA LineClockKeeps ==
  ASSUME RInv, LineClockPost \/ LineClockEnd, UNCHANGED options
  PROVE  RInv'
<1>1. Parts /\ HostInv /\ pins.irq = syncintreq
  BY TypeParts DEF RInv
<1>2. /\ UNCHANGED others /\ pc # "stopped"
      /\ intreqreg' \in {intreqreg, intreqreg \union {"LINECLOCK"}}
      /\ lineclockrun' \in {lineclockset, FALSE} /\ lineclockset' = lineclockset
  BY DEF LineClockPost, LineClockEnd, PostRequest, ThreadEnds
<1>3. HostTypes'
  BY <1>1, <1>2 DEF Parts, HostTypes, MemOK, others
<1>4. /\ sample' \in Samples /\ pins' \in Pins /\ pins'.irq = syncintreq' /\ pc' \in Places
      /\ stacklimit' = stacklimit /\ pc' = pc /\ UNCHANGED <<shadowVars, de0Vars>>
  BY <1>1, <1>2 DEF Parts, others
<1>5. HostInv'
  BY <1>1, <1>2 DEF HostInv, others, shadowVars, OddWord, RandMem
<1>6. pc' = "top" => ~StackLow
  BY <1>4 DEF RInv, StackInv
<1>7. QED
  BY <1>2, <1>3, <1>4, <1>5, <1>6, Quiet

-----------------------------------------------------------------------------
LEMMA InitRInv == Init => RInv
<1> SUFFICES ASSUME Init PROVE RInv
  OBVIOUS
<1>1. 0 \in Word /\ ~IsSet(0, 15)
  BY TopCleared
<1>2. /\ state = "RESET0" /\ ir = 0 /\ regs = [r \in 0 .. 7 |-> 0] /\ psw = 0 /\ alu = 0
      /\ newpsw = 0 /\ fatal = FALSE
      /\ q = {"RESET0"} /\ rq \in PowerOn /\ irlat = 0 /\ ieff = FALSE
      /\ nzvc = [n |-> FALSE, z |-> FALSE, v |-> FALSE, c |-> FALSE]
  BY DEF Init, ShadowInit
<1>3. /\ pc = "top" /\ syncintreq = FALSE
      /\ sample = [clk |-> FALSE, irq |-> FALSE, data |-> 0, word |-> TRUE,
                   halt |-> FALSE, read |-> FALSE, write |-> FALSE]
      /\ pins = [wdata |-> FALSE, clk |-> FALSE, irq |-> FALSE, data |-> 0]
      /\ \E r \in Runs : options = r.options /\ memory = r.load
      /\ intreqreg = {} /\ lineclockrun = FALSE /\ lineclockset = FALSE
      /\ mr_syscall_rc = 0 /\ readonlysize = 0 /\ stacklimit = 0
      /\ randinit = (IF RandMem THEN RandLoads ELSE 0) /\ reads = 0
  BY DEF Init
<1>4. ShadowTypeOK
  BY <1>1, <1>2 DEF ShadowTypeOK, States
<1>5. De0TypeOK
  BY <1>1, <1>2, RaspictlAssumption DEF De0TypeOK, Flops, Flags
<1>6. HostTypes
  <2>1. MemOK(memory)
    <3>1. PICK r \in Runs : memory = r.load
      BY <1>3
    <3>2. MemOK(r.load)
      BY RaspictlAssumption DEF MemOK
    <3>3. QED
      BY <3>1, <3>2
  <2>2. randinit \in 0 .. RandLoads /\ reads \in 0 .. MaxReads
    BY <1>3, RaspictlAssumption DEF RandLoads
  <2>3. QED
    BY <1>1, <1>3, <2>1, <2>2 DEF HostTypes
<1>7. sample \in Samples /\ pins \in Pins /\ pc \in Places /\ pins.irq = syncintreq
  BY <1>1, <1>3 DEF Samples, Pins, Places
<1>8. TypeOK
  BY <1>4, <1>5, <1>6, <1>7, TypeParts DEF Parts
<1>9. Core
  <2>1. alu = BeginAlu(state, ir, regs, psw, alu)
    BY <1>2, BeginIs
  <2>2. QED
    BY <1>1, <1>2, <2>1 DEF Core
<1>10. HostInv
  BY <1>2, <1>3 DEF HostInv, DataStates, GiveStates
<1>11. StackInv
  BY <1>2, <1>3 DEF StackInv, StackLow
<1>12. QED
  BY <1>7, <1>8, <1>9, <1>10, <1>11 DEF RInv

LEMMA Inductive == RInv /\ [Next]_vars => RInv'
<1> SUFFICES ASSUME RInv, [Next]_vars PROVE RInv'
  OBVIOUS
<1>1. CASE UNCHANGED vars
  <2>1. Parts /\ HostInv /\ pins.irq = syncintreq /\ StackInv
    BY TypeParts DEF RInv
  <2>2. /\ UNCHANGED <<shadowVars, de0Vars, options>> /\ UNCHANGED hostVars
        /\ pc' = pc /\ sample' = sample /\ pins' = pins /\ syncintreq' = syncintreq
    BY <1>1 DEF vars
  <2>3. HostTypes' /\ stacklimit' = stacklimit
    BY <2>1, <2>2, HostKept DEF Parts, hostVars
  <2>4. HostInv'
    BY <2>1, <2>2 DEF HostInv, shadowVars, OddWord, RandMem
  <2>5. pc' = "top" => ~StackLow
    BY <2>1, <2>2 DEF StackInv
  <2>6. QED
    BY <2>1, <2>2, <2>3, <2>4, <2>5, Quiet DEF Parts
<1>2. CASE Next
  <2>1. UNCHANGED options
    BY <1>2 DEF Next
  <2>2. CASE HaltExit \/ OddWordAbort \/ StackAbort
    BY <2>1, <2>2, StopKeeps DEF HaltExit, OddWordAbort, StackAbort
  <2>3. CASE Top \/ Send \/ Recv
    BY <2>1, <2>3, TopKeeps, SendKeeps, RecvKeeps
  <2>4. CASE SendAnswer \/ AwaitData \/ Bottom
    BY <2>1, <2>4, SendAnswerKeeps, AwaitDataKeeps, BottomKeeps
  <2>5. CASE ShadowAbort
    BY <2>1, <2>5, ShadowAbortKeeps
  <2>6. CASE LineClockPost \/ LineClockEnd
    BY <2>1, <2>6, LineClockKeeps
  <2>7. QED
    BY <1>2, <2>2, <2>3, <2>4, <2>5, <2>6 DEF Next, Main
<1>3. QED
  BY <1>1, <1>2

LEMMA Invariant == Spec => []RInv
<1>1. Init => RInv
  BY InitRInv
<1>2. RInv /\ [Next]_vars => RInv'
  BY Inductive
<1>3. QED
  BY <1>1, <1>2, PTL DEF Spec

(* The host stays in step with the sequencer, whatever the processor powers up
   with and whatever is in memory: in every half cycle it sends, receives or
   waits as the processor's state requires (driver/raspictl.cc:340-342,
   1051-1101). *)
THEOREM HostStaysInStep == Spec => []InStep
<1>1. RInv => InStep
  BY DEF RInv, InStep, HostInStep, HostInv, Core
<1>2. QED
  BY <1>1, Invariant, PTL


(* One step spares the protected bytes, and with the stack pointer below the limit
   neither stores nor fetches. *)
LEMMA StoresNothing ==
  ASSUME RInv, [Next]_vars, ~Recv
  PROVE  memory' = memory
<1>1. CASE UNCHANGED vars
  BY <1>1 DEF vars, hostVars
<1>2. CASE Top \/ HaltExit \/ SendAnswer \/ Send \/ AwaitData
  BY <1>2 DEF Top, HaltExit, SendAnswer, Send, AwaitData, hostVars
<1>3. CASE OddWordAbort \/ Bottom \/ StackAbort \/ ShadowAbort
  BY <1>3 DEF OddWordAbort, Bottom, StackAbort, ShadowAbort, hostVars
<1>4. CASE LineClockPost \/ LineClockEnd
  BY <1>4 DEF LineClockPost, LineClockEnd, others
<1>5. QED
  BY <1>1, <1>2, <1>3, <1>4 DEF Next, Main

LEMMA SparesProtected ==
  ASSUME RInv, [Next]_vars
  PROVE  \A a \in (0 .. readonlysize - 1) \ {ERRNO, ERRNO + 1} : ByteAt(a)' = ByteAt(a)
<1>1. \A a \in 0 .. readonlysize - 1 : a \in Word /\ a < readonlysize
  <2>1. readonlysize \in Word
    BY TypeParts DEF RInv, Parts, HostTypes
  <2>2. readonlysize \in Int /\ 0 <= readonlysize /\ readonlysize < 65536
    BY <2>1, WordIs
  <2>3. ASSUME NEW a \in 0 .. readonlysize - 1 PROVE a \in Word /\ a < readonlysize
    <3>1. a \in Int /\ 0 <= a /\ a < readonlysize /\ a < 65536
      BY <2>2
    <3>2. QED
      BY <3>1, WordIs
  <2>4. QED
    BY <2>3
<1>2. CASE Recv
  <2>1. \A c \in Word \ {ERRNO, ERRNO + 1} : c < readonlysize => Spared(c)
    <3>1. CASE UNCHANGED options
      BY <1>2, <3>1, RecvKeeps
    <3>2. CASE ~UNCHANGED options
      BY <3>2, StoresNothing, MemorySame DEF Next, vars
    <3>3. QED
      BY <3>1, <3>2
  <2>2. QED
    BY <1>1, <2>1 DEF Spared
<1>3. CASE ~Recv
  BY <1>3, StoresNothing, MemorySame DEF Spared
<1>4. QED
  BY <1>2, <1>3

LEMMA GuardedStep ==
  ASSUME RInv, Next, regs[6] < stacklimit
  PROVE  memory' = memory /\ state' # "FETCH2"
<1>1. pc # "stopped"
  BY DEF Next, Main, Top, HaltExit, SendAnswer, Send, AwaitData, Recv, OddWordAbort, Bottom,
         StackAbort, ShadowAbort, LineClockPost, LineClockEnd
<1>2. Parts /\ HostInv /\ pc # "top" /\ state \notin GiveStates \union {"FETCH2"}
  BY <1>1, TypeParts DEF RInv, StackInv, StackLow
<1>3. ~Recv /\ ~Top /\ ~HaltExit /\ UNCHANGED options
  BY <1>2 DEF Recv, Top, HaltExit, HostInv, Next
<1>4. memory' = memory
  BY <1>3, StoresNothing
<1>5. state' # "FETCH2"
  <2>1. CASE SendAnswer \/ AwaitData \/ OddWordAbort \/ Bottom \/ StackAbort
    BY <1>2, <2>1 DEF SendAnswer, AwaitData, OddWordAbort, Bottom, StackAbort, shadowVars
  <2>2. CASE LineClockPost \/ LineClockEnd
    BY <1>2, <2>2 DEF LineClockPost, LineClockEnd, others, shadowVars
  <2>3. CASE ShadowAbort
    <3>1. pc \in {"send", "recv"}
      BY <1>2, <2>3 DEF ShadowAbort
    <3>2. state # "FETCH1"
      BY <1>2, <3>1 DEF HostInv, DataStates, GiveStates
    <3>3. QED
      BY <1>2, <1>3, <2>3, <3>2, ShadowAbortKeeps
  <2>4. CASE Send
    <3>1. UNCHANGED <<sample, hostVars>> /\ pc = "send" /\ pc' = "bottom"
      BY <2>4 DEF Send
    <3>2. RInv'
      BY <1>3, <2>4, SendKeeps
    <3>3. state' \notin DataStates
      BY <3>1, <3>2 DEF RInv, HostInv
    <3>4. QED
      BY <3>3 DEF DataStates
  <2>5. QED
    BY <1>3, <2>1, <2>2, <2>3, <2>4 DEF Next, Main
<1>6. QED
  BY <1>4, <1>5

(* What SETROSIZE protects keeps its contents, errno apart, and a program whose
   stack pointer is below the limit of SETSTKLIM neither fetches nor stores, for
   every program and every sequence of host calls (driver/raspictl.cc:430-448). *)
THEOREM GuardsHold == Spec => Guarded
<1>1. RInv /\ [Next]_vars =>
        [\A a \in (0 .. readonlysize - 1) \ {ERRNO, ERRNO + 1} :
            ByteAt(a)' = ByteAt(a)]_vars
  BY SparesProtected
<1>2. RInv /\ [Next]_vars =>
        [regs[6] < stacklimit => memory' = memory /\ state' # "FETCH2"]_vars
  BY GuardedStep
<1>3. Spec => ReadOnlyIntact
  BY <1>1, Invariant, PTL DEF Spec, ReadOnlyIntact
<1>4. Spec => StackGuard
  BY <1>2, Invariant, PTL DEF Spec, StackGuard
<1>5. QED
  BY <1>3, <1>4, PTL DEF Guarded


LEMMA SetupStep ==
  ASSUME RInv, Next, ~pins.clk, pins'.clk
  PROVE  /\ pins'.irq = pins.irq
         /\ AnyOf(DataStates) => pins.wdata /\ MQ(pins') = MQ(pins)
<1>1. /\ Parts /\ HostInv /\ pins.irq = syncintreq /\ (pc # "stopped" => q = {state})
      /\ pins.wdata \in BOOLEAN
  BY TypeParts DEF RInv, Core, Parts, Pins
<1>2. (Top \/ Send \/ Recv) /\ UNCHANGED options
  <2>1. ASSUME pins' = pins \/ pins'.clk = FALSE PROVE FALSE
    BY <2>1
  <2>2. ~(SendAnswer \/ AwaitData \/ Bottom)
    <3>1. ASSUME NEW w, NEW d, writegpio(w, FALSE, d) PROVE FALSE
      BY <2>1, <3>1 DEF writegpio
    <3>2. QED
      BY <3>1 DEF SendAnswer, AwaitData, TurnRound, Bottom
  <2>3. ~(HaltExit \/ OddWordAbort \/ StackAbort \/ ShadowAbort \/ LineClockPost \/ LineClockEnd)
    BY <2>1 DEF HaltExit, OddWordAbort, StackAbort, ShadowAbort, LineClockPost, LineClockEnd,
                others
  <2>4. QED
    BY <2>2, <2>3 DEF Next, Main
<1>3. pc \in {"top", "send", "recv"} /\ syncintreq' = syncintreq
  BY <1>2 DEF Top, Send, Recv
<1>4. AnyOf(DataStates) <=> state \in DataStates
  BY <1>1, <1>3 DEF AnyOf
<1>5. CASE Send
  <2>1. pins' = [wdata |-> TRUE, clk |-> TRUE, irq |-> syncintreq', data |-> pins.data]
    BY <1>5 DEF Send, CheckAndRaise, writegpio
  <2>2. pins.wdata
    BY <1>1, <1>5 DEF Send, HostInv
  <2>3. QED
    BY <1>1, <1>3, <2>1, <2>2 DEF MQ
<1>6. CASE Top \/ Recv
  <2>1. state \notin DataStates
    BY <1>1, <1>6 DEF Top, Recv, HostInv, DataStates, GiveStates
  <2>2. pins'.irq = syncintreq'
    BY <1>6 DEF Top, Recv, CheckAndRaise, writegpio
  <2>3. QED
    BY <1>1, <1>3, <1>4, <2>1, <2>2
<1>7. QED
  BY <1>2, <1>5, <1>6

(* The interrupt line and the data the processor takes are steady when the clock
   rises, so that it does not matter whether the edge sees the pins as they were
   or as they become (driver/raspictl.cc:1060-1066, 1075-1081). *)
THEOREM PinsAreSteady == Spec => SetupHold
<1>1. RInv /\ [Next]_vars =>
        [~pins.clk /\ pins'.clk =>
            /\ pins'.irq = pins.irq
            /\ AnyOf(DataStates) => pins.wdata /\ MQ(pins') = MQ(pins)]_vars
  BY SetupStep
<1>2. QED
  BY <1>1, Invariant, PTL DEF Spec, SetupHold
-----------------------------------------------------------------------------
(* The registers are known to the model: a -randmem run loads them first; in any
   other the processor has to power up with the zeroes the model starts with. *)
Known == RandMem \/ PowerOn \subseteq {[r \in 0 .. 7 |-> 0]}

(* While Rk is being loaded those above it agree already.  randinit counts the words
   of the loads that are still to be sent, two for each. *)
EqualFrom(k) == \A r \in k .. 6 : rq[r] = regs[r]

Resetting(k) == state \in {"RESET0", "RESET1"} /\ EqualFrom(k)

Loading(k) ==
    /\ state \in {"FETCH1", "FETCH2", "LOAD1", "LOAD2", "LOAD3"}
    /\ EqualFrom(k) /\ rq[7] = regs[7]
    /\ psw = PswOf(ieff, nzvc) /\ ~ieff

BeforeLoad(k) ==
    /\ randinit = 2 * k + 2
    /\ Loading(k + 1) /\ state \in {"FETCH1", "FETCH2", "LOAD3"}
    /\ state = "FETCH2" => pc = "process"
OpcodeSent(k) ==
    /\ randinit = 2 * k + 1
    /\ Loading(k + 1) /\ state \in {"FETCH2", "LOAD1", "LOAD2"}
    /\ IF state = "FETCH2" THEN pc = "send" /\ pins.data = LoadOp(k) ELSE ir = LoadOp(k)
    /\ state = "LOAD2" => pc = "process"
DataSent(k) ==
    /\ randinit = 2 * k
    /\ Loading(k + 1) /\ state = "LOAD2" /\ ir = LoadOp(k) /\ pc = "send"

(* The run is in reset, loads a register, or the two processors run together. *)
Mode ==
    \/ \E k \in 0 .. 7 : randinit = 2 * k /\ Resetting(k)
    \/ \E k \in 0 .. 6 : BeforeLoad(k) \/ OpcodeSent(k) \/ DataSent(k)
    \/ randinit = 0 /\ Running

KnownInv ==
    /\ RandMem => stacklimit = 0
    /\ randinit > 0 => RandMem
    /\ RandMemNeverAborts
    /\ pc # "stopped" => Mode
    /\ RandMem /\ pc = "send" /\ state = "FETCH2" => Defined(pins.data)

LEMMA LoadingIs ==
  ASSUME RInv, pc # "stopped", NEW k \in 0 .. 6,
         BeforeLoad(k) \/ OpcodeSent(k) \/ DataSent(k)
  PROVE  LoadingWith(k)
<1>1. ShadowTypeOK /\ De0TypeOK /\ Core
  BY TypeParts DEF RInv, Parts
<1>2. QED
  BY <1>1 DEF Core, BeforeLoad, OpcodeSent, DataSent, Loading, LoadingWith, LoadStates

(* The pins of the processor are those the model expects, in every cycle. *)
LEMMA PinsKnown ==
  ASSUME RInv, KnownInv, pc # "stopped", NEW m \in Word
  PROVE  /\ Ctl("HALT") = HaltExpected
         /\ Ctl("MEM_READ") = ReadExpected
         /\ Ctl("MEM_WRITE") = WriteExpected
         /\ WordChecked => MEM_WORD(IR(m)) = WordExpected
         /\ state \notin DataStates \union {"RESET0", "RESET1"} => MD(m) = alu
         /\ state = "RESET1" => MD(m) = 0
<1>1. /\ ShadowTypeOK /\ De0TypeOK /\ Core /\ Mode
      /\ state \in Flops /\ q = {state}
  BY TypeParts DEF RInv, Parts, KnownInv, Core, ShadowTypeOK, States, Flops
<1>2. /\ Ctl("HALT") = HaltExpected
      /\ Ctl("MEM_READ") = ReadExpected
      /\ Ctl("MEM_WRITE") = WriteExpected
  <2>1. \A c : Ctl(c) \in BOOLEAN
    BY DEF Ctl, AnyOf
  <2>2. QED
    BY <1>1, <2>1, Lines DEF HaltExpected, ReadExpected, WriteExpected, ReadStates, WriteStates
<1>3. CASE Running
  <2>1. Together
    BY <1>1, <1>3 DEF Together
  <2>2. ChecksG(m)
    BY <2>1, PinsChecked
  <2>3. state \notin {"LOAD2", "IRET2", "IRET4"} => MD(m) = alu
    BY <2>1, AluSame
  <2>4. state \notin {"RESET0", "RESET1"}
    BY <1>3 DEF Running
  <2>5. QED
    BY <1>2, <2>2, <2>3, <2>4 DEF ChecksG, DataStates
<1>4. CASE \E k \in 0 .. 6 : BeforeLoad(k) \/ OpcodeSent(k) \/ DataSent(k)
  <2>1. PICK k \in 0 .. 6 : LoadingWith(k)
    BY <1>4, LoadingIs
  <2>2. state \in LoadStates /\ (state \in {"LOAD1", "LOAD2"} => ~ByteAccess(ir))
    BY <2>1, LoadOps DEF LoadingWith
  <2>3. /\ state # "LOAD2" => MD(m) = alu
        /\ state \in {"FETCH1", "LOAD1"} => MEM_WORD(IR(m))
    BY <2>1, LoadAlu
  <2>4. WordChecked => state \in {"FETCH1", "LOAD1"}
    BY <2>2 DEF WordChecked, ReadStates, WriteStates, LoadStates
  <2>5. MEM_WORD(IR(m)) \in BOOLEAN /\ WordExpected \in BOOLEAN
    BY DEF MEM_WORD, WordExpected
  <2>6. WordChecked => MEM_WORD(IR(m)) = WordExpected
    BY <2>2, <2>3, <2>4, <2>5 DEF WordExpected
  <2>7. QED
    BY <1>2, <2>2, <2>3, <2>6 DEF LoadStates, DataStates
<1>5. CASE \E k \in 0 .. 7 : randinit = 2 * k /\ Resetting(k)
  <2>1. state \in {"RESET0", "RESET1"}
    BY <1>5 DEF Resetting
  <2>2. ~WordChecked
    BY <2>1 DEF WordChecked, ReadStates, WriteStates
  <2>3. state = "RESET1" => MD(m) = 0
    BY <1>1, ResetAlu
  <2>4. QED
    BY <1>2, <2>1, <2>2, <2>3
<1>6. QED
  BY <1>1, <1>3, <1>4, <1>5 DEF Mode

LEMMA CheckedKnown ==
  ASSUME RInv, KnownInv, pc \in {"top", "send", "recv"}
  PROVE  check(readgpio)
<1> DEFINE m == MQ(pins)
           s == readgpio
<1>1. /\ De0TypeOK /\ ShadowTypeOK /\ Core /\ pins \in Pins
      /\ ~pins.clk /\ (pins.wdata => state \in DataStates)
  BY TypeParts DEF RInv, Parts, HostInv
<1>2. m \in Word
  BY <1>1, MqType
<1>3. /\ s.clk = pins.clk /\ s.halt = Ctl("HALT") /\ s.read = Ctl("MEM_READ")
      /\ s.write = Ctl("MEM_WRITE") /\ s.word = MEM_WORD(IR(m))
      /\ s.data = IF pins.wdata THEN pins.data ELSE MD(m)
  BY DEF readgpio
<1> HIDE DEF m, s
<1>4. /\ Ctl("HALT") = HaltExpected
      /\ Ctl("MEM_READ") = ReadExpected
      /\ Ctl("MEM_WRITE") = WriteExpected
      /\ WordChecked => MEM_WORD(IR(m)) = WordExpected
      /\ state \notin DataStates \union {"RESET0", "RESET1"} => MD(m) = alu
      /\ state = "RESET1" => MD(m) = 0
  BY <1>2, PinsKnown
<1>5. DataChecked => s.data = AluExpected(s.data)
  <2>1. ASSUME DataChecked PROVE s.data = AluExpected(s.data)
    <3>1. state \notin DataStates \union {"RESET0"}
      BY <2>1 DEF DataChecked
    <3>2. s.data = MD(m)
      BY <1>1, <1>3, <3>1
    <3>3. CASE state = "RESET1"
      BY <1>4, <3>2, <3>3 DEF AluExpected
    <3>4. CASE state = "ARITH1"
      BY <1>4, <3>1, <3>2, <3>4 DEF AluExpected
    <3>5. CASE state \notin {"RESET1", "ARITH1"}
      <4>1. AluExpected(s.data) = BeginAlu(state, ir, regs, psw, alu)
        BY <3>1, <3>5 DEF AluExpected, DataStates
      <4>2. alu = BeginAlu(state, ir, regs, psw, alu)
        BY <1>1 DEF Core
      <4>3. s.data = alu
        BY <1>4, <3>1, <3>2, <3>5
      <4>4. QED
        BY ONLY <4>1, <4>2, <4>3
    <3>6. QED
      BY <3>3, <3>4, <3>5
  <2>2. QED
    BY <2>1
<1>6. check(s)
  BY <1>1, <1>3, <1>4, <1>5 DEF check
<1>7. QED
  BY <1>6 DEF s

(* The model and the processor agree again: the two run together from here on. *)
LEMMA Joined ==
  ASSUME ShadowTypeOK', De0TypeOK', Core', psw' = PswOf(ieff', nzvc'),
         \A r \in 0 .. 7 : rq'[r] = regs'[r],
         state' \notin {"RESET0", "RESET1", "ARITH1"}
  PROVE  Running'
<1>1. rq' \in [0 .. 7 -> Word] /\ regs' \in [0 .. 7 -> Word]
  BY DEF ShadowTypeOK, De0TypeOK
<1>2. rq' = regs'
  BY <1>1
<1>3. SameState'
  BY <1>2 DEF SameState, Core
<1>4. QED
  BY <1>3 DEF Running, Core

(* One edge of the clock. *)
LEMMA ModeEdge ==
  ASSUME RInv, KnownInv, pc \in {"top", "send", "recv"}, Raises(readgpio),
         randinit' = randinit,
         pc = "top" => pc' = "process", pc # "top" => pc' = "bottom"
  PROVE  Mode'
<1> DEFINE m == MQ(pins)
           s == readgpio
           n == state'
<1>1. /\ De0TypeOK /\ ShadowTypeOK /\ Core /\ pins \in Pins /\ Mode /\ HostInv
      /\ state \in Flops /\ q = {state} /\ randinit \in Nat
  BY TypeParts DEF RInv, Parts, HostTypes, KnownInv, ShadowTypeOK, States, Flops, Core
<1>2. /\ ShadowTypeOK' /\ De0TypeOK' /\ Core' /\ s \in Samples /\ s.irq = pins.irq
  BY Raise
<1>3. /\ s.data \in Word /\ s.irq \in BOOLEAN
      /\ s.data = IF pins.wdata THEN pins.data ELSE MD(m)
  BY <1>1, <1>2, GpioType DEF Samples
<1>4. /\ Clock(s.data, s.irq) /\ ~fatal' /\ pins' \in Pins
      /\ pins'.irq = pins.irq
      /\ pins.wdata => MQ(pins') = m
      /\ \E w \in {m, MQ(pins')}, i \in {pins.irq, pins'.irq} : De0Clock(w, i)
  BY DEF Raises
<1>5. EndOfState(s.data, s.irq) /\ Begin
  BY <1>1, <1>3, <1>4, ClockKeeps
<1>6. PICK w \in {m, MQ(pins')} : De0Clock(w, s.irq)
  BY <1>2, <1>4
<1>7. w \in Word
  BY <1>1, <1>4, <1>6, MqType
<1>8. /\ state \in DataStates <=> pc = "send"
      /\ pc = "recv" => state \in GiveStates
      /\ state \in DataStates => w = pins.data /\ w = s.data
  BY <1>1, <1>3, <1>4, <1>6 DEF HostInv, DataStates, GiveStates, MQ
<1>9. state \in {"FETCH1", "LOAD1", "LOAD3"} => pc = "top" /\ pc' = "process"
  BY <1>8 DEF DataStates, GiveStates
<1> HIDE DEF m, s
<1> DEFINE irq == s.irq
<1>10. EndOfState(w, irq) /\ irq \in BOOLEAN /\ De0Clock(w, irq)
  BY <1>3, <1>5, <1>6, <1>8, OtherWord
<1> HIDE DEF irq
<1>11. ASSUME psw' = PswOf(ieff', nzvc'), \A r \in 0 .. 7 : rq'[r] = regs'[r],
              n \notin {"RESET0", "RESET1", "ARITH1"}
       PROVE  Running'
  BY <1>2, <1>11, Joined
<1>12. CASE randinit = 0 /\ Running
  <2>1. Together
    BY <1>1, <1>12 DEF Together
  <2>2. Running'
    BY <1>4, <1>5, <1>7, <1>10, <2>1, TogetherStep
  <2>3. QED
    BY <1>12, <2>2 DEF Mode
<1>13. ASSUME NEW k \in 0 .. 7, randinit = 2 * k, Resetting(k) PROVE Mode'
  <2>1. CASE state = "RESET0"
    <3>1. n = "RESET1" /\ regs' = regs
      BY <1>10, <2>1
         DEF EndOfState, EndOnward, Onward, EndReset1, EndFetch2, EndBcc1, EndArith1,
             EndStore2OrHalt1, EndLda1OrRdps1, EndLoad2, EndLoad3, EndWrps1, EndIret2, EndIret4,
             EndIreq3, EndIreq5
    <3>2. rq' = rq
      <4>1. IR(w) \in Word
        BY <1>1, <1>7 DEF IR, De0TypeOK
      <4>2. De0Edge(IR(w), Alu(w), irq)
        BY <1>10 DEF De0Clock
      <4>3. QED
        BY <1>1, <2>1, <4>1, <4>2, De0Regs
    <3>3. Resetting(k)'
      BY <1>13, <3>1, <3>2 DEF Resetting, EqualFrom
    <3>4. QED
      BY <1>13, <3>3 DEF Mode
  <2>2. CASE state = "RESET1"
    <3>1. /\ \A r \in 0 .. 6 : rq'[r] = rq[r] /\ regs'[r] = regs[r]
          /\ rq'[7] = regs'[7]
          /\ psw' = PswOf(ieff', nzvc') /\ ~ieff'
          /\ n = "FETCH1"
      BY <1>1, <1>7, <1>10, <2>2, ResetStep
    <3>2. \A r \in k .. 6 : rq'[r] = regs'[r]
      <4>1. \A r \in k .. 6 : r \in 0 .. 6 /\ rq[r] = regs[r]
        BY <1>13 DEF Resetting, EqualFrom
      <4>2. QED
        BY <3>1, <4>1
    <3>3. CASE k = 0
      <4>1. \A r \in 0 .. 7 : rq'[r] = regs'[r]
        BY <3>1, <3>2, <3>3
      <4>2. Running'
        BY <1>11, <3>1, <4>1
      <4>3. QED
        BY <1>13, <3>3, <4>2 DEF Mode
    <3>4. CASE k # 0
      <4>1. PICK j \in 0 .. 6 : k = j + 1
        BY <3>4
      <4>2. BeforeLoad(j)'
        BY <1>13, <3>1, <3>2, <4>1 DEF BeforeLoad, Loading, EqualFrom
      <4>3. QED
        BY <4>2 DEF Mode
    <3>5. QED
      BY <3>3, <3>4
  <2>3. QED
    BY <1>13, <2>1, <2>2 DEF Resetting
<1>14. ASSUME NEW k \in 0 .. 6, BeforeLoad(k) \/ OpcodeSent(k) \/ DataSent(k) PROVE Mode'
  <2>1. LoadingWith(k)
    BY <1>14, LoadingIs
  <2>2. state = "FETCH2" => w = LoadOp(k)
    BY <1>8, <1>14 DEF BeforeLoad, OpcodeSent, DataSent, DataStates
  <2>3. /\ psw' = PswOf(ieff', nzvc') /\ ~ieff'
        /\ state = "FETCH1" => n = "FETCH2"
        /\ state = "FETCH2" => n = "LOAD1" /\ ir' = LoadOp(k)
        /\ state = "LOAD1" => n = "LOAD2"
        /\ state = "LOAD2" => n = "LOAD3" /\ rq'[k] = regs'[k]
        /\ state = "LOAD3" => n = "FETCH1"
        /\ state # "FETCH2" => ir' = ir
        /\ rq'[7] = regs'[7]
        /\ \A r \in 0 .. 6 : rq[r] = regs[r] => rq'[r] = regs'[r]
    BY <1>7, <1>10, <2>1, <2>2, LoadStep
  <2>4. \A r \in k + 1 .. 6 : rq'[r] = regs'[r]
    <3>1. \A r \in k + 1 .. 6 : r \in 0 .. 6 /\ rq[r] = regs[r]
      BY <1>14 DEF BeforeLoad, OpcodeSent, DataSent, Loading, EqualFrom
    <3>2. QED
      BY <2>3, <3>1
  <2>5. EqualFrom(k + 1)'
    BY <2>4 DEF EqualFrom
  <2>6. CASE BeforeLoad(k)
    <3>1. state \in {"FETCH1", "LOAD3"} /\ pc' = "process" /\ randinit = 2 * k + 2
      BY <1>8, <1>9, <2>6 DEF BeforeLoad, DataStates
    <3>2. BeforeLoad(k)'
      BY <2>3, <2>5, <3>1 DEF BeforeLoad, Loading
    <3>3. QED
      BY <3>2 DEF Mode
  <2>7. CASE OpcodeSent(k)
    <3>1. /\ randinit = 2 * k + 1
          /\ state = "FETCH2" \/ (state = "LOAD1" /\ ir = LoadOp(k) /\ pc' = "process")
      BY <1>8, <1>9, <2>7 DEF OpcodeSent, DataStates
    <3>2. OpcodeSent(k)'
      BY <2>3, <2>5, <3>1 DEF OpcodeSent, Loading
    <3>3. QED
      BY <3>2 DEF Mode
  <2>8. CASE DataSent(k)
    <3>1. state = "LOAD2" /\ n = "LOAD3" /\ randinit = 2 * k /\ rq'[k] = regs'[k]
      BY <2>3, <2>8 DEF DataSent
    <3>2. \A r \in k .. 6 : rq'[r] = regs'[r]
      BY <2>4, <3>1
    <3>3. CASE k = 0
      <4>1. \A r \in 0 .. 7 : rq'[r] = regs'[r]
        BY <2>3, <3>2, <3>3
      <4>2. Running'
        BY <1>11, <2>3, <3>1, <4>1
      <4>3. QED
        BY <3>1, <3>3, <4>2 DEF Mode
    <3>4. CASE k # 0
      <4>1. PICK j \in 0 .. 6 : k = j + 1
        BY <3>4
      <4>2. BeforeLoad(j)'
        BY <2>3, <3>1, <3>2, <4>1 DEF BeforeLoad, Loading, EqualFrom
      <4>3. QED
        BY <4>2 DEF Mode
    <3>5. QED
      BY <3>3, <3>4
  <2>9. QED
    BY <1>14, <2>6, <2>7, <2>8
<1>15. QED
  BY <1>1, <1>12, <1>13, <1>14 DEF Mode

(* A -randmem run sends no opcode that the model refuses. *)
LEMMA NeverFatal ==
  ASSUME RInv, KnownInv, RandMem, pc \in {"top", "send", "recv"},
         Clock(readgpio.data, readgpio.irq)
  PROVE  ~fatal'
<1> DEFINE s == readgpio
           d == s.data
           irq == s.irq
<1>1. state = "FETCH2" => Defined(d)
  <2>1. state = "FETCH2" => pc = "send" /\ pins.wdata
    BY DEF RInv, HostInv, DataStates, GiveStates
  <2>2. pins.wdata => d = pins.data
    BY DEF readgpio
  <2>3. QED
    BY <2>1, <2>2 DEF KnownInv
<1>2. Clock(d, irq)
  OBVIOUS
<1> HIDE DEF d, irq
<1>3. CASE EndOfState(d, irq) /\ Begin
  <2>1. fatal' = (state' = "ARITH1" /\ BadAlu(ir'))
    BY <1>3 DEF Begin
  <2>2. CASE state = "FETCH2"
    <3>1. ir' = d /\ state' = Decode(d)
      BY <1>3, <2>2
         DEF EndOfState, EndOnward, Onward, EndReset1, EndFetch2, EndBcc1, EndArith1,
             EndStore2OrHalt1, EndLda1OrRdps1, EndLoad2, EndLoad3, EndWrps1, EndIret2, EndIret4,
             EndIreq3, EndIreq5
    <3>2. QED
      BY <1>1, <2>1, <2>2, <3>1 DEF Defined
  <2>3. CASE state # "FETCH2"
    BY <1>3, <2>1, <2>3, OnlyDecoded
  <2>4. QED
    BY <2>2, <2>3
<1>4. CASE Puque(d)
  BY <1>1, <1>4 DEF Puque, Defined
<1>5. QED
  BY <1>2, <1>3, <1>4 DEF Clock

(* A step that raises the clock keeps to the modes. *)
LEMMA RaiseKnown ==
  ASSUME RInv, KnownInv, pc \in {"top", "send", "recv"}, Raises(readgpio),
         UNCHANGED <<randinit, options>>,
         pc = "top" => pc' = "process", pc # "top" => pc' \in {"bottom", "stopped"},
         RandMem => pc' # "stopped" /\ stacklimit' = stacklimit
  PROVE  KnownInv'
<1>1. pc' # "stopped" => Mode'
  BY ModeEdge
<1>2. pc' # "send"
  OBVIOUS
<1>3. /\ RandMem' <=> RandMem
      /\ HaltStop' <=> HaltStop
      /\ randinit' = randinit
  BY DEF RandMem, HaltStop
<1>4. QED
  BY <1>1, <1>2, <1>3 DEF KnownInv, RandMemNeverAborts

(* A step that neither clocks the processor nor answers it. *)
LEMMA QuietKnown ==
  ASSUME KnownInv, UNCHANGED <<shadowVars, de0Vars, randinit, stacklimit, options>>,
         (pc' = pc /\ pins' = pins) \/ state \notin {"FETCH2", "LOAD2"},
         pc' = "stopped" <=> pc = "stopped"
  PROVE  KnownInv'
<1>1. /\ state' = state /\ ir' = ir /\ regs' = regs /\ psw' = psw /\ alu' = alu
      /\ newpsw' = newpsw
      /\ q' = q /\ irlat' = irlat /\ rq' = rq /\ ieff' = ieff /\ nzvc' = nzvc
      /\ randinit' = randinit /\ stacklimit' = stacklimit
  BY DEF shadowVars, de0Vars
<1>2. Mode => Mode'
  <2>1. \A k : EqualFrom(k) => EqualFrom(k)'
    BY <1>1 DEF EqualFrom
  <2>2. ASSUME NEW k \in 0 .. 7, randinit = 2 * k /\ Resetting(k) PROVE Mode'
    <3>1. randinit' = 2 * k /\ Resetting(k)'
      BY <1>1, <2>1, <2>2 DEF Resetting
    <3>2. QED
      BY <3>1 DEF Mode
  <2>3. ASSUME NEW k \in 0 .. 6, BeforeLoad(k) \/ OpcodeSent(k) \/ DataSent(k) PROVE Mode'
    <3>1. Loading(k + 1) => Loading(k + 1)'
      BY <1>1, <2>1 DEF Loading
    <3>2. BeforeLoad(k) => BeforeLoad(k)'
      BY <1>1, <3>1 DEF BeforeLoad
    <3>3. OpcodeSent(k) => OpcodeSent(k)'
      BY <1>1, <3>1 DEF OpcodeSent
    <3>4. DataSent(k) => DataSent(k)'
      BY <1>1, <3>1 DEF DataSent
    <3>5. QED
      BY <2>3, <3>2, <3>3, <3>4 DEF Mode
  <2>4. ASSUME randinit = 0 /\ Running PROVE Mode'
    <3>1. Running'
      BY <1>1, <2>4 DEF Running, SameState
    <3>2. QED
      BY <1>1, <2>4, <3>1 DEF Mode
  <2>5. QED
    BY <2>2, <2>3, <2>4 DEF Mode
<1>3. (RandMem' <=> RandMem) /\ (HaltStop' <=> HaltStop)
  BY DEF RandMem, HaltStop
<1>4. QED
  BY <1>1, <1>2, <1>3 DEF KnownInv, RandMemNeverAborts

(* The end of a run that -randmem may come to. *)
LEMMA StopKnown ==
  ASSUME KnownInv, Stop, UNCHANGED <<randinit, stacklimit, options>>, RandMem => HaltStop
  PROVE  KnownInv'
<1>1. (RandMem' <=> RandMem) /\ (HaltStop' <=> HaltStop) /\ pc' = "stopped"
  BY DEF RandMem, HaltStop, Stop
<1>2. QED
  BY <1>1 DEF KnownInv, RandMemNeverAborts

(* An answer is counted down: it is the opcode or the data of the load that is
   due, or else anything, to processors that run together. *)
LEMMA AnswerKnown ==
  ASSUME RInv, KnownInv, SendAnswer, UNCHANGED options
  PROVE  KnownInv'
<1>1. /\ pc = "process" /\ sample.read /\ pc' = "send"
      /\ randinit' = CountDown(randinit)
      /\ UNCHANGED <<shadowVars, stacklimit>>
  BY DEF SendAnswer
<1>2. PICK data \in IF RandMem THEN RandAnswer(randinit') ELSE {MemoryAnswer(sample)} :
           writegpio(TRUE, FALSE, data)
  BY DEF SendAnswer
<1>3. pins'.data = data /\ UNCHANGED de0Vars
  BY <1>2 DEF writegpio
<1>4. /\ state' = state /\ ir' = ir /\ regs' = regs /\ psw' = psw /\ alu' = alu
      /\ newpsw' = newpsw
      /\ q' = q /\ irlat' = irlat /\ rq' = rq /\ ieff' = ieff /\ nzvc' = nzvc
      /\ stacklimit' = stacklimit
  BY <1>1, <1>3 DEF shadowVars, de0Vars
<1>5. state \in DataStates /\ Mode /\ randinit \in Nat
  BY <1>1, TypeParts DEF RInv, Parts, HostTypes, HostInv, KnownInv
<1>6. (RandMem' <=> RandMem) /\ (HaltStop' <=> HaltStop)
  BY DEF RandMem, HaltStop
<1>7. ASSUME NEW k \in 0 .. 6, BeforeLoad(k) \/ OpcodeSent(k) \/ DataSent(k)
      PROVE  /\ OpcodeSent(k)' \/ DataSent(k)'
             /\ RandMem /\ (state = "FETCH2" => data = LoadOp(k))
  <2>1. Loading(k + 1)'
    BY <1>4, <1>7 DEF BeforeLoad, OpcodeSent, DataSent, Loading, EqualFrom
  <2>2. RandMem
    BY <1>1, <1>7 DEF KnownInv, BeforeLoad, OpcodeSent, DataSent
  <2>3. CASE BeforeLoad(k)
    <3>1. state = "FETCH2" /\ randinit = 2 * k + 2 /\ randinit' = 2 * k + 1
      BY <1>1, <1>5, <2>3 DEF BeforeLoad, DataStates, CountDown
    <3>2. data = 49152 + 128 * ((2 * k + 1 - 1) \div 2) + 7 * 1024
      BY <1>2, <2>2, <3>1 DEF RandAnswer
    <3>3. (2 * k + 1 - 1) \div 2 = k
      OBVIOUS
    <3>4. data = LoadOp(k)
      BY <3>2, <3>3 DEF LoadOp
    <3>5. OpcodeSent(k)'
      BY <1>1, <1>3, <1>4, <2>1, <3>1, <3>4 DEF OpcodeSent
    <3>6. QED
      BY <2>2, <3>4, <3>5
  <2>4. CASE OpcodeSent(k)
    <3>1. /\ state = "LOAD2" /\ ir = LoadOp(k)
          /\ randinit = 2 * k + 1 /\ randinit' = 2 * k
      BY <1>1, <1>5, <2>4 DEF OpcodeSent, DataStates, CountDown
    <3>2. DataSent(k)'
      BY <1>1, <1>4, <2>1, <3>1 DEF DataSent
    <3>3. QED
      BY <2>2, <3>1, <3>2
  <2>5. CASE DataSent(k)
    BY <1>1, <2>5 DEF DataSent
  <2>6. QED
    BY <1>7, <2>3, <2>4, <2>5
<1>8. Mode'
  <2>1. CASE \E k \in 0 .. 6 : BeforeLoad(k) \/ OpcodeSent(k) \/ DataSent(k)
    BY <1>7, <2>1 DEF Mode
  <2>2. CASE randinit = 0 /\ Running
    <3>1. randinit' = 0 /\ Running'
      BY <1>1, <1>4, <2>2 DEF Running, SameState, CountDown
    <3>2. QED
      BY <3>1 DEF Mode
  <2>3. ~ \E k \in 0 .. 7 : randinit = 2 * k /\ Resetting(k)
    BY <1>5 DEF Resetting, DataStates
  <2>4. QED
    BY <1>5, <2>1, <2>2, <2>3 DEF Mode
<1>9. RandMem /\ state = "FETCH2" => Defined(data)
  <2>1. ASSUME RandMem, state = "FETCH2" PROVE Defined(data)
    <3>1. CASE \E k \in 0 .. 6 : BeforeLoad(k) \/ OpcodeSent(k) \/ DataSent(k)
      <4>1. PICK k \in 0 .. 6 : BeforeLoad(k) \/ OpcodeSent(k) \/ DataSent(k)
        BY <3>1
      <4>2. data = LoadOp(k)
        BY <1>7, <2>1, <4>1
      <4>3. Decode(data) = "LOAD1"
        BY <4>2, LoadOps
      <4>4. QED
        BY <4>3 DEF Defined
    <3>2. CASE randinit = 0
      <4>1. data \in RandOpcodes
        BY <1>2, <2>1, <3>2 DEF RandAnswer
      <4>2. QED
        BY <4>1, RaspictlAssumption
    <3>3. QED
      BY <1>5, <3>1, <3>2, <2>1 DEF Mode, Resetting
  <2>2. QED
    BY <2>1
<1>10. randinit' > 0 => randinit > 0
  BY <1>1, <1>5 DEF CountDown
<1>11. QED
  BY <1>1, <1>3, <1>4, <1>6, <1>8, <1>9, <1>10 DEF KnownInv, RandMemNeverAborts

LEMMA ShadowAbortKnown ==
  ASSUME RInv, KnownInv, ShadowAbort, UNCHANGED options
  PROVE  KnownInv'
<1>1. /\ pc \in {"top", "send", "recv"} /\ Stop /\ UNCHANGED hostVars
      /\ CheckAborts(readgpio)
  BY DEF ShadowAbort, CheckAborts
<1>2. ~RandMem
  <2>1. SUFFICES ASSUME RandMem PROVE FALSE
    OBVIOUS
  <2>2. check(readgpio)
    BY <1>1, CheckedKnown
  <2>3. Clock(readgpio.data, readgpio.irq) /\ fatal'
    BY <1>1, <2>2 DEF CheckAborts
  <2>4. QED
    BY <1>1, <2>1, <2>3, NeverFatal
<1>3. QED
  BY <1>1, <1>2, StopKnown DEF hostVars

LEMMA RecvKnown ==
  ASSUME RInv, KnownInv, Recv, UNCHANGED options
  PROVE  KnownInv'
<1>1. /\ pc = "recv" /\ CheckAndRaise(readgpio, FALSE, 0) /\ Raises(readgpio)
      /\ HostTypes /\ sample \in Samples
  BY RecvRaises, TypeParts DEF Recv, RInv, Parts
<1>2. /\ IF RandMem
         THEN pc' = "bottom" /\ UNCHANGED <<stacklimit, randinit>>
         ELSE IF IsMagic(sample.data)
         THEN Syscall(readgpio.data) /\ UNCHANGED <<randinit, reads>>
         ELSE WriteMemory(sample.data, readgpio.data)
      /\ syncintreq' = syncintreq
  BY DEF Recv
<1>3. randinit' = randinit /\ pc' \in {"bottom", "stopped"}
  <2>1. CASE RandMem
    BY <1>2, <2>1
  <2>2. CASE ~RandMem /\ IsMagic(sample.data)
    <3>1. readgpio.data \in Word
      BY <1>1, GpioType, TypeParts DEF RInv, Parts, Samples
    <3>2. QED
      BY <1>1, <1>2, <2>2, <3>1, SyscallTypes
  <2>3. CASE ~RandMem /\ ~IsMagic(sample.data)
    <3>1. WriteMemory(sample.data, readgpio.data)
      BY <1>2, <2>3
    <3>2. QED
      BY <3>1 DEF WriteMemory, Stop, hostVars
  <2>4. QED
    BY <2>1, <2>2, <2>3
<1>4. QED
  BY <1>1, <1>2, <1>3, RaiseKnown

(* The stack pointer is never below the limit of zero that -randmem leaves. *)
LEMMA StackAbortKnown ==
  ASSUME RInv, KnownInv, StackAbort, UNCHANGED options
  PROVE  KnownInv'
<1>1. Stop /\ UNCHANGED hostVars /\ regs[6] < stacklimit
  BY DEF StackAbort, StackLow
<1>2. regs[6] \in Word
  BY DEF RInv, TypeOK, ShadowTypeOK
<1>3. RandMem => stacklimit = 0
  BY DEF KnownInv
<1>4. ~RandMem
  BY <1>1, <1>2, <1>3, WordIs
<1>5. QED
  BY <1>1, <1>4, StopKnown DEF hostVars

LEMMA KnownStep ==
  ASSUME RInv, KnownInv, [Next]_vars
  PROVE  KnownInv'
<1>1. CASE UNCHANGED vars
  BY <1>1, QuietKnown DEF vars, hostVars
<1>2. CASE Next
  <2>1. UNCHANGED options
    BY <1>2 DEF Next
  <2>2. CASE Top
    <3>1. /\ pc = "top" /\ pc' = "process" /\ Raises(readgpio)
          /\ UNCHANGED <<randinit, stacklimit>>
      BY <2>2, TopRaises DEF Top, hostVars
    <3>2. QED
      BY <2>1, <3>1, RaiseKnown
  <2>3. CASE Send
    <3>1. /\ pc = "send" /\ pc' = "bottom" /\ Raises(readgpio)
          /\ UNCHANGED <<randinit, stacklimit>>
      BY <2>3, SendRaises DEF Send, hostVars
    <3>2. QED
      BY <2>1, <3>1, RaiseKnown
  <2>4. CASE Recv
    BY <2>1, <2>4, RecvKnown
  <2>5. CASE HaltExit \/ OddWordAbort
    <3>1. /\ Stop /\ UNCHANGED <<randinit, stacklimit>>
          /\ RandMem => HaltStop
      BY <2>5 DEF HaltExit, OddWordAbort, OddWord, hostVars
    <3>2. QED
      BY <2>1, <3>1, StopKnown
  <2>6. CASE StackAbort
    BY <2>1, <2>6, StackAbortKnown
  <2>7. CASE ShadowAbort
    BY <2>1, <2>7, ShadowAbortKnown
  <2>8. CASE SendAnswer
    BY <2>1, <2>8, AnswerKnown
  <2>9. CASE AwaitData
    <3>1. /\ UNCHANGED <<shadowVars, de0Vars, randinit, stacklimit>>
          /\ pc = "process" /\ pc' = "recv" /\ sample.write
      BY <2>9 DEF AwaitData, TurnRound, writegpio, hostVars
    <3>2. state \in GiveStates
      BY <3>1 DEF RInv, HostInv
    <3>3. QED
      BY <2>1, <3>1, <3>2, QuietKnown DEF GiveStates
  <2>10. CASE Bottom
    <3>1. /\ UNCHANGED <<shadowVars, de0Vars, randinit, stacklimit>>
          /\ pc = "bottom" \/ (pc = "process" /\ ~sample.read)
          /\ pc' = "top"
      BY <2>10 DEF Bottom, writegpio, hostVars
    <3>2. state \notin DataStates
      BY <3>1 DEF RInv, HostInv
    <3>3. QED
      BY <2>1, <3>1, <3>2, QuietKnown DEF DataStates
  <2>11. CASE LineClockPost \/ LineClockEnd
    <3>1. UNCHANGED <<shadowVars, de0Vars, pc, pins, randinit, stacklimit>>
      BY <2>11 DEF LineClockPost, LineClockEnd, others
    <3>2. QED
      BY <2>1, <3>1, QuietKnown
  <2>12. QED
    BY <1>2, <2>2, <2>3, <2>4, <2>5, <2>6, <2>7, <2>8, <2>9, <2>10, <2>11 DEF Next, Main
<1>3. QED
  BY <1>1, <1>2

LEMMA InitKnown == Init /\ Known => KnownInv
<1> SUFFICES ASSUME Init, Known PROVE KnownInv
  OBVIOUS
<1>1. /\ state = "RESET0" /\ regs = [r \in 0 .. 7 |-> 0] /\ rq \in PowerOn
      /\ pc = "top" /\ stacklimit = 0
      /\ randinit = IF RandMem THEN RandLoads ELSE 0
  BY DEF Init, ShadowInit
<1>2. CASE RandMem
  <2>1. randinit = 2 * 7 /\ Resetting(7)
    BY <1>1, <1>2 DEF RandLoads, Resetting, EqualFrom
  <2>2. QED
    BY <1>1, <1>2, <2>1 DEF KnownInv, RandMemNeverAborts, Mode
<1>3. CASE ~RandMem
  <2>1. rq = regs
    BY <1>1, <1>3 DEF Known
  <2>2. randinit = 2 * 0 /\ Resetting(0)
    BY <1>1, <1>3, <2>1 DEF Resetting, EqualFrom
  <2>3. QED
    BY <1>1, <1>3, <2>2 DEF KnownInv, RandMemNeverAborts, Mode
<1>4. QED
  BY <1>2, <1>3

LEMMA KnownInvariant == Spec => [](RInv /\ (Known => KnownInv))
<1>1. Init => RInv /\ (Known => KnownInv)
  BY InitRInv, InitKnown
<1>2. RInv /\ (Known => KnownInv) /\ [Next]_vars => (RInv /\ (Known => KnownInv))'
  <2>1. SUFFICES ASSUME RInv, Known => KnownInv, [Next]_vars
                 PROVE  RInv' /\ (Known' => KnownInv')
    OBVIOUS
  <2>2. options' = options
    BY <2>1 DEF Next, vars
  <2>3. Known' => Known
    BY <2>2 DEF Known, RandMem
  <2>4. QED
    BY <2>1, <2>3, Inductive, KnownStep
<1>3. QED
  BY <1>1, <1>2, PTL DEF Spec

(* A -randmem run never ends with a complaint, whatever the registers power up
   with and whatever opcodes and data it draws; and when its counted loads are
   done, board and model hold the same, and go on holding the same
   (driver/raspictl.cc:394-408, 473-514).  So they do in any other run of a
   processor that powers up with the zeroes of the model. *)
THEOREM RandMemIsSound == Spec => [](Known => RandMemSound)
<1>1. RInv /\ KnownInv => RandMemSound
  <2>1. SUFFICES ASSUME RInv, KnownInv PROVE AgreeOnceLoaded
    BY DEF KnownInv, RandMemSound
  <2>2. SUFFICES ASSUME pc = "top", state \notin {"RESET0", "RESET1"}
                 PROVE  /\ q = {state} /\ rq[7] = regs[7] /\ PswOf(ieff, nzvc) = psw
                        /\ RandMem /\ randinit = 0 => SameState
    BY DEF AgreeOnceLoaded
  <2>3. q = {state} /\ Mode
    BY <2>1, <2>2 DEF RInv, Core, KnownInv
  <2>4. CASE \E k \in 0 .. 6 : BeforeLoad(k) \/ OpcodeSent(k) \/ DataSent(k)
    BY <2>2, <2>3, <2>4 DEF BeforeLoad, OpcodeSent, DataSent, Loading
  <2>5. CASE Running
    BY <2>3, <2>5 DEF Running, SameState
  <2>6. QED
    BY <2>2, <2>3, <2>4, <2>5 DEF Mode, Resetting
<1>2. (RInv /\ (Known => KnownInv)) => (Known => RandMemSound)
  BY <1>1
<1>3. QED
  BY <1>2, KnownInvariant, PTL

(* The pins of the processor never make Shadow::check abort: what it drives in a
   half cycle is what the model says it should drive (driver/shadow.cc:547-760). *)
THEOREM PinsPassCheck ==
  Spec => [](Known /\ pc \in {"top", "send", "recv"} => check(readgpio))
<1>1. (RInv /\ (Known => KnownInv))
        => (Known /\ pc \in {"top", "send", "recv"} => check(readgpio))
  BY CheckedKnown
<1>2. QED
  BY <1>1, KnownInvariant, PTL

(* A program runs without the hardware as it runs with it: the pins that NohwLib
   makes up from the model are those the processor drives, in every half cycle in
   which the main loop looks at them (driver/nohwlib.cc:39-47,
   driver/shadow.cc:817-870). *)
THEOREM NohwIsTheSame == Spec => [](Known => NohwSame)
<1>1. RInv /\ KnownInv => NohwSame
  <2> DEFINE m == MQ(pins)
             s == readgpio
  <2>1. SUFFICES ASSUME RInv, KnownInv, pc \in {"top", "send", "recv"}
                 PROVE  /\ s.halt = ShadowDrives.halt
                        /\ s.read = ShadowDrives.read
                        /\ s.write = ShadowDrives.write
                        /\ s.read \/ s.write => s.word = ShadowDrives.word
                        /\ s.read \/ s.write \/ pc = "recv" => s.data = ShadowDrives.data
    BY DEF NohwSame
  <2>2. /\ pins \in Pins
        /\ pins.wdata => state \in DataStates
        /\ pc = "recv" => state \in GiveStates
    BY <2>1, TypeParts DEF RInv, Parts, HostInv
  <2>3. m \in Word
    BY <2>2, MqType
  <2>4. /\ s.halt = Ctl("HALT") /\ s.read = Ctl("MEM_READ") /\ s.write = Ctl("MEM_WRITE")
        /\ s.word = MEM_WORD(IR(m))
        /\ s.data = IF pins.wdata THEN pins.data ELSE MD(m)
    BY DEF readgpio
  <2> HIDE DEF m, s
  <2>5. /\ Ctl("HALT") = HaltExpected
        /\ Ctl("MEM_READ") = ReadExpected
        /\ Ctl("MEM_WRITE") = WriteExpected
        /\ WordChecked => MEM_WORD(IR(m)) = WordExpected
        /\ state \notin DataStates \union {"RESET0", "RESET1"} => MD(m) = alu
    BY <2>1, <2>3, PinsKnown
  <2>6. /\ s.halt = ShadowDrives.halt
        /\ s.read = ShadowDrives.read
        /\ s.write = ShadowDrives.write
    BY <2>4, <2>5
       DEF ShadowDrives, HaltExpected, ReadExpected, WriteExpected, ReadStates, WriteStates,
           ReadsInNohw
  <2>7. ASSUME s.read \/ s.write PROVE s.word = ShadowDrives.word
    <3>1. state \in ReadStates \union WriteStates
      BY <2>4, <2>5, <2>7 DEF ReadExpected, WriteExpected
    <3>2. s.word = WordExpected
      BY <2>4, <2>5, <3>1 DEF WordChecked
    <3>3. QED
      BY <3>1, <3>2 DEF WordExpected, ByteAccess, ShadowDrives, ReadStates, WriteStates
  <2>8. ASSUME s.read \/ s.write \/ pc = "recv" PROVE s.data = ShadowDrives.data
    <3>1. state \notin DataStates \union {"RESET0", "RESET1"}
      BY <2>2, <2>4, <2>5, <2>8
         DEF ReadExpected, WriteExpected, ReadStates, WriteStates, DataStates, GiveStates
    <3>2. s.data = alu
      BY <2>2, <2>4, <2>5, <3>1
    <3>3. QED
      BY <3>2 DEF ShadowDrives
  <2>9. QED
    BY <2>6, <2>7, <2>8
<1>2. (RInv /\ (Known => KnownInv)) => (Known => NohwSame)
  BY <1>1
<1>3. QED
  BY <1>2, KnownInvariant, PTL
-----------------------------------------------------------------------------

(***************************************************************************)
(* The instruction set.  The invariant the refinement needs is Executing:  *)
(* it says how far the instruction in progress has got, in terms of the    *)
(* registers it started from, and what memory was asked for and answered.  *)
(* The parts: what an edge does in each state (RaiseEdge), the invariant   *)
(* (ExecNext), the operators of Isa in the words of the processor model    *)
(* (Same...), the instructions (...Form), and the steps one by one: those  *)
(* that take effect (...Next) and those that do not show (...Unseen).      *)
(***************************************************************************)

(* A step that raises the clock, by what it does to the processor. *)
Edge ==
    /\ q = {state} /\ q' = {state'} /\ state \in Flops /\ Follows
    /\ \E w \in Word : RegsEdge(state, w) /\ PswEdge(state, w)
                       /\ (state \in DataStates => w = pins.data)

LEMMA RaiseEdge ==
  ASSUME RInv, pc \in {"top", "send", "recv"}, Raises(readgpio),
         state \notin {"RESET0", "RESET1"}, state = "ARITH1" => ~BadAlu(irlat)
  PROVE  /\ Edge /\ Core' /\ De0TypeOK'
         /\ readgpio.read <=> state \in ReadStates
         /\ readgpio.write <=> state \in WriteStates
<1> DEFINE s == readgpio
<1>1. /\ ShadowTypeOK /\ De0TypeOK /\ Core /\ pins \in Pins
      /\ state \in DataStates => pins.wdata
  <2>1. ShadowTypeOK /\ De0TypeOK /\ Core /\ pins \in Pins
    BY DEF RInv, TypeOK, Pins
  <2>2. state \in DataStates => pc = "send"
    BY DEF RInv, HostInv, DataStates, GiveStates
  <2>3. QED
    BY <2>1, <2>2 DEF RInv, HostInv
<1>2. /\ De0TypeOK' /\ Core' /\ s \in Samples /\ s.irq = pins.irq
      /\ s.read <=> state \in ReadStates
      /\ s.write <=> state \in WriteStates
  BY Raise
<1>3. /\ Clock(s.data, s.irq) /\ ~fatal' /\ pins' \in Pins /\ pins'.irq = pins.irq
      /\ pins.wdata => MQ(pins') = MQ(pins)
      /\ \E m \in {MQ(pins), MQ(pins')}, i \in {pins.irq, pins'.irq} : De0Clock(m, i)
  BY DEF Raises
<1> HIDE DEF s
<1>4. s.data \in Word /\ s.irq \in BOOLEAN /\ pins.irq \in BOOLEAN /\ ieff \in BOOLEAN
  BY <1>1, <1>2 DEF Samples, Pins, De0TypeOK
<1>5. Follows
  BY <1>1, <1>2, <1>3, <1>4, Following
<1>6. PICK w \in {MQ(pins), MQ(pins')} : De0Clock(w, pins.irq)
  BY <1>3
<1>7. w \in Word /\ (state \in DataStates => w = pins.data)
  BY <1>1, <1>3, <1>6, MqType DEF MQ
<1>8. /\ state \in Flops \ {"RESET0", "RESET1"} /\ q = {state} /\ q' = {state'}
      /\ state = "IREQ4" => ~ieff
  BY <1>1, <1>2 DEF Core, ShadowTypeOK, States, Flops
<1>9. RegsEdge(state, w)
  BY <1>1, <1>6, <1>7, <1>8, EdgeRegs
<1>10. state' # "RESET1" /\ (state' = "IREQ4" <=> state = "IREQ3")
  <2>1. EndOfState(s.data, s.irq)
    BY <1>1, <1>3, <1>4, ClockKeeps
  <2>2. QED
    BY <1>4, <1>8, <2>1, Transfers
<1>11. PswEdge(state, w)
  BY <1>1, <1>6, <1>7, <1>8, <1>10, EdgePsw
<1>12. QED
  BY <1>2, <1>5, <1>7, <1>8, <1>9, <1>11 DEF Edge, s

-----------------------------------------------------------------------------
(* The instruction in progress.  oldregs are the registers it started from, Past
   the same with the program counter past the opcode. *)
Past == [oldregs EXCEPT ![7] = AddW(oldregs[7], 2)]

(* The opcode is the word the program counter pointed to. *)
Fetched ==
    /\ irlat \in Word
    /\ ~IsMagic(oldregs[7]) => irlat = WordAt(oldregs[7])
    /\ Decode(irlat) = Origin(state)
    /\ state = "ARITH1" => ~BadAlu(irlat)

(* What a load finds. *)
LoadsFrom(i, r) ==
    LET a == Address(i, r)
    IN  LoadedWord(i, IF ByteAccess(i) THEN ByteAt(a) ELSE WordAt(a))

(* Where the status word is kept during an interrupt. *)
SavedPsw == 65534

(* The address given to memory, for the access that state s completes. *)
Asked(s) == IF s = "FETCH2" THEN rq[7]
            ELSE IF s \in {"STORE2", "LOAD2"} THEN Address(irlat, rq)
            ELSE IF s \in {"IRET2", "IREQ4"} THEN SavedPc ELSE SavedPsw

AtFetch == state \in {"FETCH1", "FETCH2"} => rq = oldregs
Within  == state \in InProgress => rq = Past
Opcode  == state \in InProgress \union {"LOAD3", "IRET3", "IRET4"} => Fetched
Immediate ==
    state = "LOAD3" =>
        /\ LoadImmediate(irlat)
        /\ rq = [Past EXCEPT ![RegD(irlat)] = rq[RegD(irlat)]]
        /\ ~IsMagic(Address(irlat, Past)) => rq[RegD(irlat)] = LoadsFrom(irlat, Past)
Returning == state \in {"IRET3", "IRET4"} => rq = [oldregs EXCEPT ![7] = WordAt(SavedPc)]
Access ==
    pc \in {"process", "send", "recv"} /\ state \in DataStates \union GiveStates =>
        /\ sample.data = Asked(state)
        /\ sample.word <=> ~(state \in {"LOAD2", "STORE2"} /\ ByteAccess(irlat))
Answer == pc = "send" => pins.data = MemoryAnswer(sample)

Exec ==
    /\ oldregs \in [0 .. 7 -> Word]
    /\ AtFetch /\ Within /\ Opcode /\ Immediate /\ Returning /\ Access /\ Answer

Executing == ~RandMem /\ pc # "stopped" => Exec

(* What memory gives in the states that take a word from it. *)
Gives ==
    /\ state = "FETCH2" /\ ~IsMagic(rq[7]) => pins.data = WordAt(rq[7])
    /\ state = "LOAD2" /\ ~IsMagic(Address(irlat, rq)) =>
         pins.data = IF ByteAccess(irlat) THEN ByteAt(Address(irlat, rq))
                     ELSE WordAt(Address(irlat, rq))
    /\ state = "IRET2" => pins.data = WordAt(SavedPc)
    /\ state = "IRET4" => pins.data = WordAt(SavedPsw)

LEMMA SavedWords == ~IsMagic(SavedPc) /\ ~IsMagic(SavedPsw)
  BY DEF IsMagic, MAGIC, SavedPc, SavedPsw

LEMMA Giving ==
  ASSUME pc = "send", Access, Answer
  PROVE  Gives
<1>1. pins.data = MemoryAnswer(sample)
  BY DEF Answer
<1>2. state \in DataStates => /\ sample.data = Asked(state)
                              /\ sample.word <=> ~(state \in {"LOAD2", "STORE2"} /\ ByteAccess(irlat))
  BY DEF Access
<1>3. ~IsMagic(sample.data) =>
        pins.data = IF sample.word THEN WordAt(sample.data) ELSE ByteAt(sample.data)
  BY <1>1 DEF MemoryAnswer
<1>4. CASE state = "FETCH2"
  BY <1>2, <1>3, <1>4 DEF Gives, Asked, DataStates
<1>5. CASE state = "LOAD2"
  BY <1>2, <1>3, <1>5 DEF Gives, Asked, DataStates
<1>6. CASE state \in {"IRET2", "IRET4"}
  BY <1>2, <1>3, <1>6, SavedWords DEF Gives, Asked, DataStates
<1>7. CASE state \notin {"FETCH2", "LOAD2", "IRET2", "IRET4"}
  BY <1>7 DEF Gives
<1>8. QED
  BY <1>4, <1>5, <1>6, <1>7

Progress == AtFetch /\ Within /\ Opcode /\ Immediate /\ Returning

LEMMA EdgeProgress ==
  ASSUME Edge, Progress, Gives, De0TypeOK, De0TypeOK', oldregs \in [0 .. 7 -> Word],
         oldregs' = IF state' = "FETCH1" THEN rq' ELSE oldregs,
         state \notin GiveStates \union {"RESET0", "RESET1"}, memory' = memory
  PROVE  Progress'
<1>1. PICK w \in Word : RegsEdge(state, w) /\ (state \in DataStates => w = pins.data)
  BY DEF Edge
<1>2. Follows /\ state \in Flops
  BY DEF Edge
<1>3. rq \in [0 .. 7 -> Word] /\ irlat \in Word /\ rq' \in [0 .. 7 -> Word] /\ irlat' \in Word
  BY DEF De0TypeOK
<1>4. \A a : WordAt(a)' = WordAt(a) /\ ByteAt(a)' = ByteAt(a)
  BY DEF ByteAt, WordAt
<1>5. CASE state = "FETCH1"
  <2>1. state' = "FETCH2" /\ rq' = rq /\ oldregs' = oldregs
    BY <1>1, <1>2, <1>5 DEF Follows, Onward, RegsEdge
  <2>2. QED
    BY <1>5, <2>1 DEF Progress, AtFetch, Within, Opcode, Immediate, Returning, InProgress, Decoded
<1>6. CASE state = "FETCH2"
  <2>1. /\ state' = Decode(irlat') /\ state' \in Decoded /\ (state' = "ARITH1" => ~BadAlu(irlat'))
        /\ irlat' = pins.data /\ rq' = [rq EXCEPT ![7] = AddW(rq[7], 2)]
        /\ rq = oldregs
    BY <1>1, <1>2, <1>6 DEF Follows, RegsEdge, Progress, AtFetch, DataStates
  <2>2. oldregs' = oldregs
    BY <2>1 DEF Decoded
  <2>3. rq' = Past'
    BY <2>1, <2>2 DEF Past
  <2>4. Fetched'
    <3>1. (~IsMagic(oldregs[7]) => irlat = WordAt(oldregs[7]))'
      BY <1>6, <2>1, <2>2 DEF Gives, WordAt, IsMagic
    <3>2. Origin(state') = state'
      BY <2>1 DEF Origin, Decoded
    <3>3. QED
      BY <1>3, <2>1, <3>1, <3>2 DEF Fetched
  <2>5. state' \notin {"FETCH1", "FETCH2", "LOAD3", "IRET3", "IRET4"}
    BY <2>1 DEF Decoded
  <2>6. QED
    BY <2>3, <2>4, <2>5 DEF Progress, AtFetch, Within, Opcode, Immediate, Returning
<1>7. ASSUME irlat' = irlat, oldregs' = oldregs, Fetched, Origin(state') = Origin(state),
             state' # "ARITH1"
      PROVE  Fetched'
  BY <1>7 DEF Fetched, IsMagic, WordAt
<1>8. CASE state \in {"STORE1", "LOAD1", "IRET1"}
  <2>1. /\ state' \in {"STORE2", "LOAD2", "IRET2"} /\ Origin(state') = Origin(state)
        /\ rq' = rq /\ irlat' = irlat
    BY <1>1, <1>2, <1>8 DEF Follows, Onward, RegsEdge, Origin
  <2>2. oldregs' = oldregs
    BY <2>1
  <2>3. rq = Past /\ Fetched
    BY <1>8 DEF Progress, Within, Opcode, InProgress, Decoded
  <2>4. rq' = Past'
    BY <2>1, <2>2, <2>3 DEF Past
  <2>5. Fetched'
    BY <1>7, <2>1, <2>2, <2>3
  <2>6. QED
    BY <2>1, <2>4, <2>5 DEF Progress, AtFetch, Within, Opcode, Immediate, Returning
<1>9. CASE state = "LOAD2" /\ LoadImmediate(irlat)
  <2>1. /\ state' = "LOAD3" /\ Origin(state') = Origin(state) /\ irlat' = irlat
        /\ rq' = [rq EXCEPT ![RegD(irlat)] = LoadedWord(irlat, pins.data)]
    BY <1>1, <1>2, <1>9 DEF Follows, RegsEdge, Origin, DataStates
  <2>2. oldregs' = oldregs
    BY <2>1
  <2>3. rq = Past /\ Fetched
    BY <1>9 DEF Progress, Within, Opcode, InProgress
  <2>4. Fetched'
    BY <1>7, <2>1, <2>2, <2>3
  <2>5. Past' = Past
    BY <2>2 DEF Past
  <2>6. RegD(irlat) \in 0 .. 7
    BY <1>3, Fields
  <2>7. /\ rq' = [Past EXCEPT ![RegD(irlat)] = LoadedWord(irlat, pins.data)]
        /\ rq'[RegD(irlat)] = LoadedWord(irlat, pins.data)
    BY <1>3, <2>1, <2>3, <2>6
  <2>8. ~IsMagic(Address(irlat, Past)) => LoadedWord(irlat, pins.data) = LoadsFrom(irlat, Past)
    BY <1>9, <2>3 DEF Gives, LoadsFrom
  <2>9. LoadsFrom(irlat, Past)' = LoadsFrom(irlat, Past)
    BY <1>4, <2>1, <2>5 DEF LoadsFrom
  <2>10. Immediate'
    BY <1>9, <2>1, <2>5, <2>7, <2>8, <2>9 DEF Immediate, IsMagic
  <2>11. QED
    BY <2>1, <2>4, <2>10 DEF Progress, AtFetch, Within, Opcode, Returning, InProgress, Decoded
<1>10. CASE state \in {"IRET2", "IRET3"}
  <2>1. /\ state' \in {"IRET3", "IRET4"} /\ Origin(state') = Origin(state) /\ irlat' = irlat
    BY <1>1, <1>2, <1>10 DEF Follows, Onward, RegsEdge, Origin
  <2>2. oldregs' = oldregs
    BY <2>1
  <2>3. Fetched
    BY <1>10 DEF Progress, Opcode, InProgress
  <2>4. Fetched'
    BY <1>7, <2>1, <2>2, <2>3
  <2>5. rq' = [oldregs EXCEPT ![7] = WordAt(SavedPc)]
    <3>1. CASE state = "IRET2"
      <4>1. rq' = [rq EXCEPT ![7] = WordAt(SavedPc)]
        BY <1>1, <3>1 DEF RegsEdge, Gives, DataStates
      <4>2. rq = Past
        BY <3>1 DEF Progress, Within, InProgress
      <4>3. QED
        BY <4>1, <4>2 DEF Past
    <3>2. CASE state = "IRET3"
      BY <1>1, <3>2 DEF RegsEdge, Progress, Returning
    <3>3. QED
      BY <1>10, <3>1, <3>2
  <2>6. Returning'
    BY <1>4, <2>2, <2>5 DEF Returning
  <2>7. QED
    BY <2>1, <2>4, <2>6 DEF Progress, AtFetch, Within, Opcode, Immediate, InProgress, Decoded
<1>11. CASE state' \in {"FETCH1", "IREQ1", "IREQ2", "IREQ3", "IREQ4", "IREQ5"}
  BY <1>11 DEF Progress, AtFetch, Within, Opcode, Immediate, Returning, InProgress, Decoded
<1>12. \/ state \in {"FETCH1", "FETCH2", "STORE1", "LOAD1", "IRET1", "IRET2", "IRET3"}
       \/ state = "LOAD2" /\ LoadImmediate(irlat)
       \/ state' \in {"FETCH1", "IREQ1", "IREQ2", "IREQ3", "IREQ4", "IREQ5"}
  BY <1>2 DEF Follows, Flops, Onward, Lasting, GiveStates
<1>13. QED
  BY <1>5, <1>6, <1>8, <1>9, <1>10, <1>11, <1>12

(* The address and the word line the host samples at the end of the cycle that asks
   for an access. *)
LEMMA AccessEdge ==
  ASSUME RInv, pc = "top", state \notin {"RESET0", "RESET1"},
         state = "ARITH1" => ~BadAlu(irlat), Edge, sample' = readgpio
  PROVE  Access'
<1> DEFINE m == MQ(pins)
           p == PswOf(ieff, nzvc)
<1>1. /\ De0TypeOK /\ pins \in Pins /\ ~pins.wdata /\ state \in Flops \ {"RESET0", "RESET1"}
      /\ q = {state}
  BY DEF RInv, TypeOK, Pins, HostInv, Edge
<1>2. m \in Word
  BY <1>1, MqType
<1>3. readgpio.data = MD(m) /\ readgpio.word = MEM_WORD(IR(m))
  BY <1>1 DEF readgpio
<1>4. /\ IR(m) = IF state = "FETCH2" THEN m ELSE irlat
      /\ state \notin {"LOAD2", "IRET2", "IRET4"} => MD(m) = BeginAlu(state, irlat, rq, p, 0)
  BY <1>1, <1>2, AluShows
<1>5. MEM_WORD(irlat) <=> ~(state \in {"LOAD1", "LOAD2", "STORE1"} /\ ByteAccess(irlat))
  BY <1>1, Alone DEF MEM_WORD, ByteAccess
<1> HIDE DEF m, p
<1>6. PICK w \in Word : RegsEdge(state, w)
  BY DEF Edge
<1>7. ASSUME state' \in DataStates \union GiveStates
      PROVE  /\ state \in ReadStates \union WriteStates
             /\ state \in {"FETCH1", "LOAD1", "IRET1", "IRET3", "STORE1", "IREQ1"} =>
                  state' = Onward[state]
             /\ state = "IREQ3" => state' = "IREQ4"
             /\ rq' = rq /\ irlat' = irlat
  <2>1. Follows /\ state \in Flops
    BY DEF Edge
  <2>2. /\ state \in ReadStates \union WriteStates
        /\ state \in {"FETCH1", "LOAD1", "IRET1", "IRET3", "STORE1", "IREQ1"} =>
                  state' = Onward[state]
        /\ state = "IREQ3" => state' = "IREQ4"
    BY <1>7, <2>1 DEF Follows, Onward, Lasting, Flops, DataStates, GiveStates, ReadStates,
                      WriteStates, Decoded
  <2>3. QED
    BY <1>6, <2>2 DEF RegsEdge, ReadStates, WriteStates
<1>8. ASSUME state' \in DataStates \union GiveStates
      PROVE  /\ sample'.data = Asked(state)'
             /\ sample'.word <=> ~(state' \in {"LOAD2", "STORE2"} /\ ByteAccess(irlat)')
  <2>1. CASE state = "FETCH1"
    <3>1. state' = "FETCH2" /\ rq' = rq
      BY <1>7, <1>8, <2>1 DEF Onward
    <3>2. MD(m) = rq[7]
      BY <1>4, <2>1, BeginIs
    <3>3. QED
      BY <1>3, <1>4, <1>5, <2>1, <3>1, <3>2 DEF Asked
  <2>2. CASE state \in {"LOAD1", "STORE1"}
    <3>1. state' \in {"LOAD2", "STORE2"} /\ rq' = rq /\ irlat' = irlat
      BY <1>7, <1>8, <2>2 DEF Onward
    <3>2. MD(m) = Address(irlat, rq)
      BY <1>4, <2>2, BeginIs DEF Address
    <3>3. QED
      BY <1>3, <1>4, <1>5, <2>2, <3>1, <3>2 DEF Asked, Address, ByteAccess
  <2>3. CASE state \in {"IRET1", "IREQ3"}
    <3>1. state' \in {"IRET2", "IREQ4"}
      BY <1>7, <1>8, <2>3 DEF Onward
    <3>2. MD(m) = SavedPc
      BY <1>4, <2>3, BeginIs DEF SavedPc
    <3>3. QED
      BY <1>3, <1>4, <1>5, <2>3, <3>1, <3>2 DEF Asked, SavedPc
  <2>4. CASE state \in {"IRET3", "IREQ1"}
    <3>1. state' \in {"IRET4", "IREQ2"}
      BY <1>7, <1>8, <2>4 DEF Onward
    <3>2. MD(m) = SavedPsw
      BY <1>4, <2>4, BeginIs DEF SavedPsw
    <3>3. QED
      BY <1>3, <1>4, <1>5, <2>4, <3>1, <3>2 DEF Asked, SavedPsw
  <2>5. QED
    BY <1>7, <1>8, <2>1, <2>2, <2>3, <2>4 DEF ReadStates, WriteStates
<1>9. QED
  BY <1>8 DEF Access, DataStates, GiveStates

LEMMA Recorded ==
  ASSUME Record, q = {state}, q' = {state'}, state = "FETCH1" => state' # "FETCH1"
  PROVE  oldregs' = IF state' = "FETCH1" THEN rq' ELSE oldregs
  BY DEF Record, Becomes

(* Coming out of reset. *)
LEMMA ResetExec ==
  ASSUME RInv, pc \in {"top", "send", "recv"}, Raises(readgpio), Record,
         state \in {"RESET0", "RESET1"}, oldregs \in [0 .. 7 -> Word], pc' # "send"
  PROVE  Exec'
<1>1. q = {state} /\ q' = {state'} /\ De0TypeOK'
  BY Raise DEF RInv, Core, HostInv
<1>2. EndOfState(readgpio.data, pins.irq)
  BY Raise
<1>3. state' \in {"RESET1", "FETCH1"}
  BY <1>2 DEF EndOfState, EndOnward, Onward, EndReset1, EndFetch2, EndBcc1, EndArith1,
      EndStore2OrHalt1, EndLda1OrRdps1, EndLoad2, EndLoad3, EndWrps1, EndIret2, EndIret4,
      EndIreq3, EndIreq5
<1>4. oldregs' = IF state' = "FETCH1" THEN rq' ELSE oldregs
  BY <1>1, Recorded
<1>5. oldregs' \in [0 .. 7 -> Word] /\ AtFetch'
  BY <1>1, <1>3, <1>4 DEF De0TypeOK, AtFetch
<1>6. QED
  BY <1>3, <1>5 DEF Exec, Within, Opcode, Immediate, Returning, Access, Answer, InProgress,
                    Decoded, DataStates, GiveStates

(* A step that raises the clock. *)
LEMMA RaiseExec ==
  ASSUME RInv, Exec, pc \in {"top", "send", "recv"}, Raises(readgpio), Record,
         \/ pc = "top" /\ pc' = "process" /\ sample' = readgpio /\ memory' = memory
         \/ pc = "send" /\ pc' = "bottom" /\ memory' = memory
         \/ pc = "recv" /\ pc' = "bottom"
  PROVE  Exec'
<1>1. CASE state \in {"RESET0", "RESET1"}
  BY <1>1, ResetExec DEF Exec
<1>2. CASE state \notin {"RESET0", "RESET1"}
  <2>1. state = "ARITH1" => ~BadAlu(irlat)
    BY DEF Exec, Opcode, InProgress, Decoded, Fetched
  <2>2. Edge /\ De0TypeOK' /\ De0TypeOK
    BY <1>2, <2>1, RaiseEdge DEF RInv, TypeOK
  <2>3. q = {state} /\ q' = {state'} /\ Follows /\ state \in Flops
    BY <2>2 DEF Edge
  <2>4. oldregs' = IF state' = "FETCH1" THEN rq' ELSE oldregs
    <3>1. state = "FETCH1" => state' # "FETCH1"
      BY <2>3 DEF Follows, Onward
    <3>2. QED
      BY <2>3, <3>1, Recorded
  <2>5. oldregs \in [0 .. 7 -> Word] /\ oldregs' \in [0 .. 7 -> Word]
    BY <2>2, <2>4 DEF Exec, De0TypeOK
  <2>6. Answer' /\ (pc # "top" => Access')
    BY DEF Answer, Access
  <2>7. CASE state \in GiveStates
    <3>1. state' \in {"FETCH1", "IREQ1", "IREQ3", "IREQ5"}
      BY <2>3, <2>7 DEF Follows, Onward, Lasting, GiveStates
    <3>2. pc # "top"
      BY <2>7 DEF RInv, HostInv
    <3>3. QED
      BY <2>4, <2>5, <2>6, <3>1, <3>2 DEF Exec, AtFetch, Within, Opcode, Immediate, Returning,
                                          InProgress, Decoded
  <2>8. CASE state \notin GiveStates
    <3>1. pc # "recv"
      BY <2>8 DEF RInv, HostInv
    <3>2. Gives
      <4>1. CASE pc = "send"
        BY <4>1, Giving DEF Exec
      <4>2. CASE pc = "top"
        BY <4>2 DEF Gives, RInv, HostInv, DataStates
      <4>3. QED
        BY <3>1, <4>1, <4>2
    <3>3. Progress'
      BY <1>2, <2>2, <2>4, <2>5, <2>8, <3>1, <3>2, EdgeProgress DEF Exec, Progress
    <3>4. Access'
      <4>1. CASE pc = "top"
        BY <1>2, <2>1, <2>2, <4>1, AccessEdge
      <4>2. QED
        BY <2>6, <4>1
    <3>5. QED
      BY <2>5, <2>6, <3>3, <3>4 DEF Exec, Progress
  <2>9. QED
    BY <2>7, <2>8
<1>3. QED
  BY <1>1, <1>2

(* A step that leaves the processor and memory alone. *)
LEMMA QuietExec ==
  ASSUME Exec, Record, state' = state, q' = q, irlat' = irlat, rq' = rq, memory' = memory,
         sample' = sample,
         pc' \in {"process", "send", "recv"} => pc \in {"process", "send", "recv"},
         Answer'
  PROVE  Exec'
<1>1. oldregs' = oldregs
  BY DEF Record, Becomes
<1>2. AtFetch' /\ Within' /\ Past' = Past
  BY <1>1 DEF Exec, AtFetch, Within, Past
<1>3. Fetched => Fetched'
  BY <1>1 DEF Fetched, IsMagic, WordAt
<1>4. Opcode'
  BY <1>3 DEF Exec, Opcode
<1>5. Immediate'
  <2>1. LoadsFrom(irlat, Past)' = LoadsFrom(irlat, Past)
    BY <1>2 DEF LoadsFrom, ByteAt, WordAt
  <2>2. QED
    BY <1>2, <2>1 DEF Exec, Immediate, IsMagic
<1>6. Returning'
  BY <1>1 DEF Exec, Returning, WordAt
<1>7. Access'
  BY DEF Exec, Access, Asked
<1>8. QED
  BY <1>1, <1>2, <1>4, <1>5, <1>6, <1>7 DEF Exec

(* Among the steps of a run without -randmem that goes on, these raise the clock ... *)
Raising ==
    /\ pc \in {"top", "send", "recv"} /\ Raises(readgpio)
    /\ \/ Top /\ pc = "top" /\ pc' = "process" /\ sample' = readgpio /\ memory' = memory
       \/ Send /\ pc = "send" /\ pc' = "bottom" /\ memory' = memory
       \/ Recv /\ pc = "recv" /\ pc' = "bottom"

(* ... and these leave the processor and memory alone. *)
Resting ==
    /\ state' = state /\ UNCHANGED de0Vars /\ memory' = memory /\ sample' = sample
    /\ pc' \in {"process", "send", "recv"} => pc \in {"process", "send", "recv"}
    /\ pc' = "send" => \/ pc = "send" /\ pins' = pins /\ mr_syscall_rc' = mr_syscall_rc
                       \/ pins'.data = MemoryAnswer(sample) /\ mr_syscall_rc' = mr_syscall_rc

LEMMA StepKinds ==
  ASSUME RInv, Next, ~RandMem, pc' # "stopped"
  PROVE  (Raising \/ Resting) /\ RandMem' = RandMem
<1>1. RandMem' = RandMem
  BY DEF Next, RandMem
<1> SUFFICES Raising \/ Resting
  BY <1>1
<1>2. CASE Top
  <2>1. pc = "top" /\ pc' = "process" /\ sample' = readgpio /\ memory' = memory
    BY <1>2 DEF Top, hostVars
  <2>2. QED
    BY <1>2, <2>1, TopRaises DEF Raising
<1>3. CASE Send
  <2>1. pc = "send" /\ pc' = "bottom" /\ memory' = memory
    BY <1>3 DEF Send, hostVars
  <2>2. QED
    BY <1>3, <2>1, SendRaises DEF Raising
<1>4. CASE Recv
  <2>1. pc = "recv" /\ pc' = "bottom"
    BY <1>4 DEF Recv, Syscall, SyscallFail, ScnExit, ScnIntReq, ScnIrqAtNs, ScnIntAck,
                ScnSetRoSize, ScnSetStkLim, WriteMemory, Stop
  <2>2. QED
    BY <1>4, <2>1, RecvRaises DEF Raising
<1>6. CASE SendAnswer
  <2>1. pc = "process" /\ pins.clk
    BY <1>6 DEF SendAnswer, RInv, HostInv
  <2>2. UNCHANGED <<shadowVars, sample, memory, mr_syscall_rc>>
    BY <1>6 DEF SendAnswer
  <2>3. writegpio(TRUE, FALSE, MemoryAnswer(sample))
    BY <1>6 DEF SendAnswer
  <2>4. UNCHANGED de0Vars /\ pins'.data = MemoryAnswer(sample)
    BY <2>3 DEF writegpio
  <2>5. QED
    BY <2>1, <2>2, <2>4 DEF Resting, shadowVars
<1>7. CASE AwaitData
  <2>1. pc = "process" /\ pc' = "recv" /\ UNCHANGED <<shadowVars, sample, hostVars>>
    BY <1>7 DEF AwaitData
  <2>2. UNCHANGED de0Vars
    BY <1>7 DEF AwaitData, TurnRound, writegpio
  <2>3. QED
    BY <2>1, <2>2 DEF Resting, shadowVars, hostVars
<1>8. CASE Bottom
  <2>1. pc' = "top" /\ UNCHANGED <<shadowVars, sample, hostVars>>
    BY <1>8 DEF Bottom
  <2>2. UNCHANGED de0Vars
    BY <1>8 DEF Bottom, writegpio
  <2>3. QED
    BY <2>1, <2>2 DEF Resting, shadowVars, hostVars
<1>9. CASE HaltExit \/ OddWordAbort \/ StackAbort \/ ShadowAbort
  BY <1>9 DEF HaltExit, OddWordAbort, StackAbort, ShadowAbort, CheckAborts, Stop
<1>10. CASE LineClockPost
  BY <1>10 DEF LineClockPost, others, Resting, shadowVars
<1>11. CASE LineClockEnd
  BY <1>11 DEF LineClockEnd, others, Resting, shadowVars
<1>12. QED
  BY <1>1, <1>2, <1>3, <1>4, <1>6, <1>7, <1>8, <1>9, <1>10, <1>11 DEF Next, Main

LEMMA ExecNext ==
  ASSUME RInv, Executing, HistNext
  PROVE  Executing'
<1> SUFFICES ASSUME (~RandMem)', pc' # "stopped" PROVE Exec'
  BY DEF Executing
<1>1. Next /\ Record
  BY DEF HistNext
<1>2. ~RandMem /\ pc # "stopped" /\ (Raising \/ Resting)
  <2>1. ~RandMem
    BY <1>1 DEF Next, RandMem
  <2>2. pc # "stopped"
    BY <1>1 DEF Next, Main, Top, HaltExit, SendAnswer, Send, AwaitData, Recv, OddWordAbort,
                Bottom, StackAbort, ShadowAbort, LineClockPost, LineClockEnd
  <2>3. QED
    BY <1>1, <2>1, <2>2, StepKinds
<1>3. Exec
  BY <1>2 DEF Executing
<1>4. CASE Raising
  BY <1>1, <1>3, <1>4, RaiseExec DEF Raising
<1>5. CASE Resting
  <2>1. Answer'
    BY <1>3, <1>5 DEF Resting, Exec, Answer, MemoryAnswer, WordAt, ByteAt
  <2>2. /\ state' = state /\ q' = q /\ irlat' = irlat /\ rq' = rq /\ memory' = memory
        /\ sample' = sample
        /\ pc' \in {"process", "send", "recv"} => pc \in {"process", "send", "recv"}
    BY <1>5 DEF Resting, de0Vars
  <2>3. QED
    BY <1>1, <1>3, <2>1, <2>2, QuietExec
<1>6. QED
  BY <1>2, <1>4, <1>5
-----------------------------------------------------------------------------

(* The operators that Isa takes from the processor model are those of Raspictl:
   the instances differ in the variables of the model, which none of these reads. *)
LEMMA WordOps ==
  /\ \A w, i : I!S!Bit(w, i) = Bit(w, i)
  /\ \A w, i : I!S!IsSet(w, i) <=> IsSet(w, i)
  /\ \A b : I!S!Num(b) = Num(b)
  /\ \A a, b : I!S!AddW(a, b) = AddW(a, b)
  /\ \A a : I!S!NotW(a) = NotW(a)
  /\ \A a : I!S!Signed(a) = Signed(a)
  /\ \A a, k : I!S!Field3(a, k) = Field3(a, k)
  /\ \A a, k : I!S!SextAt(a, k) = SextAt(a, k)
  /\ I!S!WordSize = WordSize
  BY DEF I!S!Bit, Bit, I!S!Pow2, Pow2, I!S!IsSet, IsSet, I!S!Num, Num, I!S!AddW, AddW,
         I!S!WordSize, WordSize, I!S!NotW, NotW, I!S!Signed, Signed, I!S!Field3, Field3,
         I!S!SextAt, SextAt

LEMMA BitOps ==
  \A a, b : /\ I!S!OrW(a, b) = OrW(a, b)
            /\ I!S!AndW(a, b) = AndW(a, b)
            /\ I!S!XorW(a, b) = XorW(a, b)
<1> TAKE a, b
<1>1. \A f : I!S!FromBits(f) = FromBits(f)
  BY DEF I!S!FromBits, FromBits
<1>2. [i \in 0 .. 15 |-> I!S!Num(I!S!IsSet(a, i) \/ I!S!IsSet(b, i))]
      = [i \in 0 .. 15 |-> Num(IsSet(a, i) \/ IsSet(b, i))]
  <2>1. \A i : I!S!Num(I!S!IsSet(a, i) \/ I!S!IsSet(b, i)) = Num(IsSet(a, i) \/ IsSet(b, i))
    BY WordOps DEF I!S!Num, Num
  <2>2. QED
    BY <2>1, Zenon
<1>3. [i \in 0 .. 15 |-> I!S!Bit(a, i) * I!S!Bit(b, i)] = [i \in 0 .. 15 |-> Bit(a, i) * Bit(b, i)]
  BY WordOps, Zenon
<1>4. [i \in 0 .. 15 |-> (I!S!Bit(a, i) + I!S!Bit(b, i)) % 2]
      = [i \in 0 .. 15 |-> (Bit(a, i) + Bit(b, i)) % 2]
  BY WordOps, Zenon
<1>5. I!S!OrW(a, b) = OrW(a, b)
  BY <1>1, <1>2, Zenon DEF I!S!OrW, OrW
<1>6. I!S!AndW(a, b) = AndW(a, b)
  BY <1>1, <1>3, Zenon DEF I!S!AndW, AndW
<1>7. I!S!XorW(a, b) = XorW(a, b)
  BY <1>1, <1>4, Zenon DEF I!S!XorW, XorW
<1>8. QED
  BY <1>5, <1>6, <1>7

LEMMA SameResult ==
  \A i, a, b, p : AluOp(i) \in 0 .. 15 /\ ~BadAlu(i) =>
      I!S!ArithResult(i, a, b, p) = ArithResult(i, a, b, p)
<1> SUFFICES ASSUME NEW i, NEW a, NEW b, NEW p, AluOp(i) \in 0 .. 15, ~BadAlu(i)
             PROVE  I!S!ArithResult(i, a, b, p) = ArithResult(i, a, b, p)
  OBVIOUS
<1>1. /\ I!S!AluOp(i) = AluOp(i) /\ I!S!CarryUsed(i, p) = CarryUsed(i, p)
      /\ I!S!Signed(a) = Signed(a) /\ I!S!Signed(b) = Signed(b)
  BY WordOps DEF I!S!CarryUsed, CarryUsed, I!S!AluOp, AluOp
<1>2. /\ I!S!AddW(b, 1) = AddW(b, 1) /\ I!S!NotW(b) = NotW(b)
      /\ I!S!OrW(a, b) = OrW(a, b) /\ I!S!AndW(a, b) = AndW(a, b) /\ I!S!XorW(a, b) = XorW(a, b)
      /\ I!S!Bit(p, 0) = Bit(p, 0) /\ I!S!WordSize = WordSize
  BY WordOps, BitOps
<1>3. AluOp(i) \in {0, 1, 2, 4, 5, 6, 7, 8, 9, 10, 12, 13, 14, 15}
  BY DEF BadAlu
<1>4. QED
  BY ONLY <1>1, <1>2, <1>3, SMT DEF I!S!ArithResult, ArithResult

LEMMA SameFlags ==
  \A i, a, b, p : /\ I!S!ArithOverflow(i, a, b, p) <=> ArithOverflow(i, a, b, p)
                  /\ I!S!ArithCarry(i, a, b, p) = ArithCarry(i, a, b, p)
  BY WordOps, BitOps DEF I!S!ArithOverflow, ArithOverflow, I!S!ArithCarry, ArithCarry,
         I!S!CarryUsed, CarryUsed, I!S!AluOp, AluOp, I!S!Overflow, Overflow

LEMMA SameArithOps ==
  \A i, a, b, p : AluOp(i) \in 0 .. 15 /\ ~BadAlu(i) =>
      I!S!Arith(i, a, b, p) = Arith(i, a, b, p)
<1> SUFFICES ASSUME NEW i, NEW a, NEW b, NEW p, AluOp(i) \in 0 .. 15, ~BadAlu(i)
             PROVE  I!S!Arith(i, a, b, p) = Arith(i, a, b, p)
  OBVIOUS
<1> DEFINE r == ArithResult(i, a, b, p)
           v == Num(ArithOverflow(i, a, b, p))
           c == ArithCarry(i, a, b, p)
           z == Num(r = 0)
           x == Bit(p, 15)
           y == Bit(r, 15)
<1>1. /\ I!S!ArithResult(i, a, b, p) = r
      /\ I!S!Num(I!S!ArithOverflow(i, a, b, p)) = v
      /\ I!S!ArithCarry(i, a, b, p) = c
      /\ I!S!Num(r = 0) = z /\ I!S!Bit(p, 15) = x /\ I!S!Bit(r, 15) = y
  BY WordOps, SameResult, SameFlags
<1> HIDE DEF r, v, c, z, x, y
<1>2. Arith(i, a, b, p) = [res |-> r, psw |-> 32768 * x + 8 * y + 4 * z + 2 * v + c]
  BY DEF Arith, r, v, c, z, x, y
<1>3. I!S!Arith(i, a, b, p) = [res |-> r, psw |-> 32768 * x + 8 * y + 4 * z + 2 * v + c]
  BY <1>1 DEF I!S!Arith
<1>4. QED
  BY <1>2, <1>3

LEMMA SameFields ==
  ASSUME NEW i \in Word
  PROVE  /\ I!S!RegA(i) = RegA(i) /\ I!S!RegB(i) = RegB(i) /\ I!S!RegD(i) = RegD(i)
         /\ I!S!LsOffset(i) = LsOffset(i) /\ I!S!BrOffset(i) = BrOffset(i)
         /\ I!S!Decode(i) = Decode(i)
         /\ I!S!BadAlu(i) <=> BadAlu(i)
         /\ I!S!ByteAccess(i) <=> ByteAccess(i)
         /\ I!S!LoadImmediate(i) <=> LoadImmediate(i)
         /\ \A w : I!S!LoadedWord(i, w) = LoadedWord(i, w)
         /\ \A p : I!S!BranchTrue(i, p) <=> BranchTrue(i, p)
<1>1. /\ I!S!RegA(i) = RegA(i) /\ I!S!RegB(i) = RegB(i) /\ I!S!RegD(i) = RegD(i)
      /\ I!S!LsOffset(i) = LsOffset(i) /\ I!S!BrOffset(i) = BrOffset(i)
      /\ I!S!BadAlu(i) <=> BadAlu(i)
      /\ I!S!ByteAccess(i) <=> ByteAccess(i)
  BY WordOps DEF I!S!RegA, RegA, I!S!RegB, RegB, I!S!RegD, RegD, I!S!LsOffset, LsOffset,
      I!S!BrOffset, BrOffset, I!S!BadAlu, BadAlu, I!S!AluOp, AluOp, I!S!ByteAccess, ByteAccess
<1>2. I!S!Decode(i) = Decode(i)
  <2>1. I!S!SpecialState(i) = SpecialState(i) /\ (I!S!Special(i) <=> Special(i))
    BY WordOps DEF I!S!Special, Special, I!S!SpecialState, SpecialState
  <2>2. I!S!Field3(i, 13) = Field3(i, 13)
    BY WordOps
  <2>3. Field3(i, 13) \in 0 .. 7
    BY FieldBits
  <2>4. QED
    BY <2>1, <2>2, <2>3 DEF I!S!Decode, Decode
<1>3. I!S!LoadImmediate(i) <=> LoadImmediate(i)
  BY <1>1 DEF I!S!LoadImmediate, LoadImmediate
<1>4. \A w : I!S!LoadedWord(i, w) = LoadedWord(i, w)
  BY <1>1, WordOps DEF I!S!LoadedWord, LoadedWord
<1>5. \A p : I!S!BranchTrue(i, p) <=> BranchTrue(i, p)
  BY WordOps DEF I!S!BranchTrue, BranchTrue, I!S!BranchBase, BranchBase
<1>6. QED
  BY <1>1, <1>2, <1>3, <1>4, <1>5

LEMMA SameStatus ==
  ASSUME NEW w
  PROVE  I!S!LoadPsw(w) = LoadPsw(w) /\ (I!S!IrqEnabled(w) <=> IrqEnabled(w))
  BY WordOps DEF I!S!LoadPsw, LoadPsw, I!S!IrqEnabled, IrqEnabled

LEMMA SameAdd == \A a, b : I!AddW(a, b) = AddW(a, b)
  BY DEF I!AddW, AddW, I!WordSize, WordSize

LEMMA SameWord == I!Word = Word
  BY DEF I!Word, Word, I!WordSize, WordSize
-----------------------------------------------------------------------------

(* The instructions of Isa in the words of this module.  Ahead are the registers
   with the program counter past the opcode. *)
Ahead == [IsaRegs EXCEPT ![7] = AddW(IsaRegs[7], 2)]

LEMMA AheadIs == I!R = Ahead
  BY SameAdd DEF I!R, I!Next_pc, Ahead

LEMMA MemoryViews ==
  ASSUME IsaMem = memory
  PROVE  /\ \A a : I!WordOf(a) = WordAt(a)
         /\ \A a : I!ByteOf(a) = ByteAt(a)
         /\ \A a, w : I!Stored(a, w) = SetWord(memory, a, w)
<1>1. \A a : I!WordOf(a) = WordAt(a)
  BY DEF I!WordOf, WordAt
<1>2. \A a : I!ByteOf(a) = ByteAt(a)
  BY <1>1 DEF I!ByteOf, ByteAt
<1>3. \A a, w : I!Stored(a, w) = SetWord(memory, a, w)
  BY DEF I!Stored, SetWord
<1>4. QED
  BY <1>1, <1>2, <1>3

LEMMA AtIoPort ==
  ASSUME NEW a \in Word
  PROVE  I!Even(a) = I!IoPort <=> IsMagic(a)
<1>1. a \in Int /\ 0 <= a /\ a < 65536
  BY WordIs
<1>2. a % 2 \in {0, 1} /\ a = 2 * (a \div 2) + (a % 2) /\ a \div 2 \in Int
  BY <1>1
<1>3. MAGIC \div 2 = 32760
  BY DEF MAGIC
<1>4. QED
  BY <1>1, <1>2, <1>3 DEF I!Even, I!IoPort, IsMagic

LEMMA BranchForm ==
  ASSUME NEW op \in Word, Decode(op) = "BCC1", IsaRegs \in [0 .. 7 -> Word],
         IsaRegs' = IF BranchTrue(op, IsaPsw)
                    THEN [Ahead EXCEPT ![7] = AddW(Ahead[7], BrOffset(op))]
                    ELSE Ahead,
         IsaPsw' = IsaPsw, IsaMem' = IsaMem
  PROVE  I!Branch(op)
<1>1. I!Next_pc = Ahead[7]
  BY SameAdd DEF I!Next_pc, Ahead
<1>2. QED
  BY <1>1, AheadIs, SameAdd, SameFields DEF I!Branch, I!Put, I!Advance

LEMMA ArithForm ==
  ASSUME NEW op \in Word, Decode(op) = "ARITH1", ~BadAlu(op),
         NEW a, a = Ahead[RegA(op)], NEW b, b = Ahead[RegB(op)],
         IsaRegs' = IF RegD(op) # 7 THEN [Ahead EXCEPT ![RegD(op)] = ArithResult(op, a, b, IsaPsw)]
                    ELSE Ahead,
         IsaPsw' = LoadPsw(Arith(op, a, b, IsaPsw).psw), IsaMem' = IsaMem
  PROVE  I!Arithmetic(op)
<1>1. AluOp(op) \in 0 .. 15
  <2>1. op \in Int
    BY WordIs
  <2>2. QED
    BY <2>1 DEF AluOp
<1>2. I!S!Arith(op, a, b, IsaPsw) = Arith(op, a, b, IsaPsw)
  BY <1>1, SameArithOps
<1>3. Arith(op, a, b, IsaPsw).res = ArithResult(op, a, b, IsaPsw)
  BY DEF Arith
<1>4. QED
  BY <1>2, <1>3, AheadIs, SameFields, SameStatus DEF I!Arithmetic, I!Put, I!Advance

LEMMA LoadAddressForm ==
  ASSUME NEW op \in Word, Decode(op) = "LDA1",
         IsaRegs' = [Ahead EXCEPT ![RegD(op)] = Address(op, Ahead)],
         IsaPsw' = IsaPsw, IsaMem' = IsaMem
  PROVE  I!LoadAddress(op)
  BY AheadIs, SameAdd, SameFields DEF I!LoadAddress, I!Put, I!Address, Address

LEMMA LoadForm ==
  ASSUME NEW op \in Word, Decode(op) = "LOAD1", IsaRegs \in [0 .. 7 -> Word],
         IsaMem = memory, NEW w,
         Address(op, Ahead) \in Word,
         ~IsMagic(Address(op, Ahead)) => w = LoadsFrom(op, Ahead),
         IsaRegs' = [IF LoadImmediate(op) THEN [Ahead EXCEPT ![7] = AddW(Ahead[7], 2)] ELSE Ahead
                     EXCEPT ![RegD(op)] = w],
         IsaPsw' = IsaPsw, IsaMem' = IsaMem
  PROVE  I!Load(op)
<1> DEFINE a == Address(op, Ahead)
           d == RegD(op)
<1>1. I!Address(op) = a
  BY AheadIs, SameAdd, SameFields DEF I!Address, Address
<1>2. (I!Even(a) = I!IoPort) <=> IsMagic(a)
  BY AtIoPort
<1>3. d \in 0 .. 7 /\ Ahead \in [0 .. 7 -> Word]
  <2>1. IsaRegs[7] \in Int /\ 2 \in Int
    BY WordIs
  <2>2. AddW(IsaRegs[7], 2) \in Word
    BY <2>1, AddWIs
  <2>3. d \in 0 .. 7
    BY Fields
  <2>4. QED
    BY <2>2, <2>3 DEF Ahead
<1>4. I!S!LoadedWord(op, IF I!S!ByteAccess(op) THEN I!ByteOf(a) ELSE I!WordOf(a))
      = LoadsFrom(op, Ahead)
  BY SameFields, MemoryViews DEF LoadsFrom
<1>5. IsaRegs'[d] = w
  BY <1>3
<1> DEFINE v == IF I!Even(a) = I!IoPort THEN IsaRegs'[d]
                ELSE I!S!LoadedWord(op, IF I!S!ByteAccess(op) THEN I!ByteOf(a) ELSE I!WordOf(a))
<1>6. v = w
  BY <1>2, <1>4, <1>5
<1>7. I!S!LoadImmediate(op) <=> LoadImmediate(op)
  BY SameFields
<1>8. IsaRegs' = [I!R EXCEPT ![7] = IF I!S!LoadImmediate(op) THEN I!AddW(I!R[7], 2) ELSE I!R[7],
                             ![d] = v]
  <2> HIDE DEF v, d
  <2>1. I!AddW(I!R[7], 2) = AddW(Ahead[7], 2)
    BY SameAdd, AheadIs
  <2>2. CASE LoadImmediate(op)
    BY <1>3, <1>6, <1>7, <2>1, <2>2, AheadIs DEF d
  <2>3. CASE ~LoadImmediate(op)
    <3>1. [Ahead EXCEPT ![7] = Ahead[7]] = Ahead
      BY <1>3
    <3>2. QED
      BY <1>3, <1>6, <1>7, <2>3, <3>1, AheadIs DEF d
  <2>4. QED
    BY <2>2, <2>3
<1>9. I!S!Decode(op) = "LOAD1" /\ I!S!RegD(op) = d
  BY SameFields
<1>10. QED
  BY <1>1, <1>8, <1>9 DEF I!Load

LEMMA HostCallForm ==
  ASSUME IsaMem = memory, NEW x \in Word, IsaMem' \in {memory, SetWord(memory, ERRNO, x)}
  PROVE  I!HostCall
<1>1. CASE IsaMem' = memory
  BY <1>1 DEF I!HostCall
<1>2. CASE IsaMem' = SetWord(memory, ERRNO, x)
  <2>1. I!IoErr = ERRNO
    BY DEF I!IoErr, ERRNO
  <2>2. IsaMem' = I!Stored(ERRNO, x)
    BY <1>2, MemoryViews
  <2>3. IsaMem'[ERRNO] = x
    BY <1>2 DEF SetWord
  <2>4. QED
    BY <2>1, <2>2, <2>3, SameWord DEF I!HostCall
<1>3. QED
  BY <1>1, <1>2

LEMMA ByteForm ==
  ASSUME IsaMem = memory, MemOK(memory), NEW a \in Word, NEW w \in Word,
         IsaMem' = SetByte(memory, a, w % 256)
  PROVE  I!StoreByte(a, w)
<1> DEFINE y == w % 256
           x == WordAt(a - 1) % 256
<1>1. a \in Int /\ a % 2 \in {0, 1} /\ w \in Int
  BY WordIs
<1>2. y \in Int /\ x \in Int
  <2>1. WordAt(a - 1) \in Int
    BY WordAtType, WordIs
  <2>2. QED
    BY <1>1, <2>1
<1> HIDE DEF x, y
<1>3. CASE a % 2 = 0
  <2>1. IsaMem' = SetWord(memory, a, (WordAt(a) \div 256) * 256 + y)
    BY <1>3 DEF SetByte, y
  <2>2. I!Even(a) = a
    BY <1>1, <1>3 DEF I!Even
  <2>3. QED
    BY <1>3, <2>1, <2>2, MemoryViews DEF I!StoreByte, y
<1>4. CASE a % 2 = 1
  <2>1. IsaMem' = SetWord(memory, a - 1, 256 * y + x)
    BY <1>4 DEF SetByte, x, y
  <2>2. I!Even(a) = a - 1 /\ a % 2 # 0
    BY <1>1, <1>4 DEF I!Even
  <2>3. 256 * y + x = x + 256 * y
    BY <1>2
  <2>4. IsaMem' = I!Stored(a - 1, x + 256 * y)
    BY <2>1, <2>3, MemoryViews
  <2>5. QED
    BY <2>2, <2>4, MemoryViews DEF I!StoreByte, x, y
<1>5. QED
  BY <1>1, <1>3, <1>4

LEMMA StoreForm ==
  ASSUME NEW op \in Word, Decode(op) = "STORE1", IsaMem = memory, MemOK(memory),
         NEW a \in Word, a = Address(op, Ahead), NEW w \in Word, w = Ahead[RegD(op)],
         IsaRegs' = Ahead, IsaPsw' = IsaPsw,
         IsMagic(a) => I!HostCall,
         ~IsMagic(a) => IsaMem' = IF ByteAccess(op) THEN SetByte(memory, a, w % 256)
                                  ELSE SetWord(memory, a, w)
  PROVE  I!Store(op)
<1>1. I!Address(op) = a /\ I!R[I!S!RegD(op)] = w
  BY AheadIs, SameAdd, SameFields DEF I!Address, Address
<1>2. (I!Even(a) = I!IoPort) <=> IsMagic(a)
  BY AtIoPort
<1>3. I!S!Decode(op) = "STORE1" /\ (I!S!ByteAccess(op) <=> ByteAccess(op))
  BY SameFields
<1>4. \/ I!Even(a) = I!IoPort /\ I!HostCall
      \/ I!Even(a) # I!IoPort /\ ~I!S!ByteAccess(op) /\ I!StoreWord(a, w)
      \/ I!Even(a) # I!IoPort /\ I!S!ByteAccess(op) /\ I!StoreByte(a, w)
  <2>1. CASE IsMagic(a)
    BY <1>2, <2>1
  <2>2. CASE ~IsMagic(a) /\ ByteAccess(op)
    BY <1>2, <1>3, <2>2, ByteForm
  <2>3. CASE ~IsMagic(a) /\ ~ByteAccess(op)
    BY <1>2, <1>3, <2>3, MemoryViews DEF I!StoreWord
  <2>4. QED
    BY <2>1, <2>2, <2>3
<1>5. QED
  BY <1>1, <1>3, <1>4, AheadIs DEF I!Store, I!Advance

LEMMA WritePswForm ==
  ASSUME NEW op \in Word, Decode(op) = "WRPS1", IsaRegs' = Ahead,
         IsaPsw' = LoadPsw(Ahead[RegB(op)]), IsaMem' = IsaMem
  PROVE  I!WritePsw(op)
  BY AheadIs, SameFields, SameStatus DEF I!WritePsw, I!Advance

LEMMA ReadPswForm ==
  ASSUME NEW op \in Word, Decode(op) = "RDPS1", IsaRegs' = [Ahead EXCEPT ![RegD(op)] = IsaPsw],
         IsaPsw' = IsaPsw, IsaMem' = IsaMem
  PROVE  I!ReadPsw(op)
  BY AheadIs, SameFields DEF I!ReadPsw, I!Put

LEMMA HaltForm ==
  ASSUME NEW op \in Word, Decode(op) = "HALT1", IsaRegs' = Ahead, IsaPsw' = IsaPsw,
         IsaMem' = IsaMem
  PROVE  I!Halt(op)
  BY AheadIs, SameFields DEF I!Halt, I!Advance

LEMMA IretForm ==
  ASSUME NEW op \in Word, Decode(op) = "IRET1", IsaMem = memory,
         IsaRegs' = [IsaRegs EXCEPT ![7] = WordAt(SavedPc)],
         IsaPsw' = LoadPsw(WordAt(SavedPsw)), IsaMem' = IsaMem
  PROVE  I!Iret(op)
<1>1. I!WordOf(I!SavedPc) = WordAt(SavedPc) /\ I!WordOf(I!SavedPsw) = WordAt(SavedPsw)
  <2>1. I!SavedPc = SavedPc /\ I!SavedPsw = SavedPsw
    BY DEF I!SavedPc, SavedPc, I!SavedPsw, SavedPsw
  <2>2. QED
    BY <2>1, MemoryViews
<1>2. I!S!LoadPsw(WordAt(SavedPsw)) = LoadPsw(WordAt(SavedPsw)) /\ I!S!Decode(op) = "IRET1"
  BY SameStatus, SameFields
<1>3. QED
  BY <1>1, <1>2 DEF I!Iret

(* One of these, for an opcode the program counter points to, is a step of Isa. *)
LEMMA InstructionForm ==
  ASSUME NEW op \in I!Opcodes,
         \/ I!Branch(op) \/ I!Arithmetic(op) \/ I!LoadAddress(op) \/ I!Store(op) \/ I!Load(op)
         \/ I!WritePsw(op) \/ I!ReadPsw(op) \/ I!Halt(op) \/ I!Iret(op),
         ~AnyOf({"IREQ1", "IREQ2"}),
         AnyOf({"IREQ1", "IREQ2"})' => IrqEnabled(IsaPsw)
  PROVE  I!Next
<1>1. AnyOf({"IREQ1", "IREQ2"})' \in BOOLEAN
  BY DEF AnyOf
<1>2. QED
  BY <1>1, SameStatus DEF I!Next, I!Instruction
-----------------------------------------------------------------------------

(* What Isa sees in state s of the sequencer, with registers r, memory m,
   and the registers o that the instruction started from. *)
ShownRegs(s, r, o) ==
    IF s \in {"RESET0", "RESET1"} THEN [r EXCEPT ![7] = 0]
    ELSE IF s \in {"FETCH1", "IREQ1", "IREQ2"} THEN r
    ELSE IF s \in {"IREQ3", "IREQ4", "IREQ5"} THEN [r EXCEPT ![7] = 2]
    ELSE o
ShownMem(s, m, r) == IF s \in {"IREQ3", "IREQ4"} THEN SetWord(m, SavedPc, r[7]) ELSE m

(* The status word as an interrupt entry leaves it. *)
Masked == PswOf(FALSE, nzvc)

LEMMA IsaPswIs ==
  IsaPsw = IF AnyOf({"RESET0", "RESET1"}) THEN 32752
           ELSE IF Entered THEN Masked ELSE PswOf(ieff, nzvc)
  BY DEF IsaPsw, Masked

LEMMA Shown ==
  ASSUME q = {state}
  PROVE  /\ IsaRegs = ShownRegs(state, rq, oldregs)
         /\ state \in {"RESET0", "RESET1"} => IsaPsw = 32752
         /\ state \in {"IREQ3", "IREQ4", "IREQ5"} => IsaPsw = Masked
         /\ state \notin {"RESET0", "RESET1", "IREQ3", "IREQ4", "IREQ5"} =>
              IsaPsw = PswOf(ieff, nzvc)
         /\ IsaMem = ShownMem(state, memory, rq)
         /\ AnyOf({"IREQ1", "IREQ2"}) <=> state \in {"IREQ1", "IREQ2"}
<1>1. \A T : AnyOf(T) <=> state \in T
  BY DEF AnyOf, On
<1>2. IsaRegs = ShownRegs(state, rq, oldregs)
  BY <1>1 DEF IsaRegs, Entered, ShownRegs
<1>3. /\ state \in {"RESET0", "RESET1"} => IsaPsw = 32752
      /\ state \in {"IREQ3", "IREQ4", "IREQ5"} => IsaPsw = Masked
      /\ state \notin {"RESET0", "RESET1", "IREQ3", "IREQ4", "IREQ5"} =>
            IsaPsw = PswOf(ieff, nzvc)
  <2>1. /\ state \in {"RESET0", "RESET1"} => AnyOf({"RESET0", "RESET1"})
        /\ state \notin {"RESET0", "RESET1"} => ~AnyOf({"RESET0", "RESET1"})
        /\ state \in {"IREQ3", "IREQ4", "IREQ5"} => Entered
        /\ state \notin {"IREQ3", "IREQ4", "IREQ5"} => ~Entered
        /\ state \in {"IREQ3", "IREQ4", "IREQ5"} => state \notin {"RESET0", "RESET1"}
    BY <1>1 DEF Entered
  <2>2. IsaPsw = IF AnyOf({"RESET0", "RESET1"}) THEN 32752
                   ELSE IF Entered THEN Masked ELSE PswOf(ieff, nzvc)
    BY IsaPswIs
  <2>3. QED
    BY <2>1, <2>2
<1>4. IsaMem = ShownMem(state, memory, rq)
  BY <1>1 DEF IsaMem, ShownMem
<1>5. QED
  BY <1>1, <1>2, <1>3, <1>4

LEMMA ShownNext ==
  ASSUME q' = {state'}
  PROVE  /\ IsaRegs' = ShownRegs(state', rq', oldregs')
         /\ state' \in {"RESET0", "RESET1"} => IsaPsw' = 32752
         /\ state' \in {"IREQ3", "IREQ4", "IREQ5"} => IsaPsw' = Masked'
         /\ state' \notin {"RESET0", "RESET1", "IREQ3", "IREQ4", "IREQ5"} =>
              IsaPsw' = PswOf(ieff', nzvc')
         /\ IsaMem' = ShownMem(state', memory', rq')
         /\ AnyOf({"IREQ1", "IREQ2"})' <=> state' \in {"IREQ1", "IREQ2"}
<1>1. \A T : AnyOf(T)' <=> state' \in T
  BY DEF AnyOf, On
<1>2. IsaRegs' = ShownRegs(state', rq', oldregs')
  BY <1>1 DEF IsaRegs, Entered, ShownRegs
<1>3. /\ state' \in {"RESET0", "RESET1"} => IsaPsw' = 32752
      /\ state' \in {"IREQ3", "IREQ4", "IREQ5"} => IsaPsw' = Masked'
      /\ state' \notin {"RESET0", "RESET1", "IREQ3", "IREQ4", "IREQ5"} =>
            IsaPsw' = PswOf(ieff', nzvc')
  <2>1. /\ state' \in {"RESET0", "RESET1"} => AnyOf({"RESET0", "RESET1"})'
        /\ state' \notin {"RESET0", "RESET1"} => ~AnyOf({"RESET0", "RESET1"})'
        /\ state' \in {"IREQ3", "IREQ4", "IREQ5"} => Entered'
        /\ state' \notin {"IREQ3", "IREQ4", "IREQ5"} => ~Entered'
        /\ state' \in {"IREQ3", "IREQ4", "IREQ5"} => state' \notin {"RESET0", "RESET1"}
    BY <1>1 DEF Entered
  <2>2. IsaPsw' = IF AnyOf({"RESET0", "RESET1"})' THEN 32752
                   ELSE IF Entered' THEN Masked' ELSE PswOf(ieff', nzvc')
    BY IsaPswIs DEF IsaPsw, Masked
  <2>3. QED
    BY <2>1, <2>2
<1>4. IsaMem' = ShownMem(state', memory', rq')
  BY <1>1 DEF IsaMem, ShownMem
<1>5. QED
  BY <1>1, <1>2, <1>3, <1>4

LEMMA MaskedIs ==
  ASSUME De0TypeOK
  PROVE  Masked = PswOf(ieff, nzvc) % 32768
<1>1. PICK off \in BOOLEAN : off = FALSE
  OBVIOUS
<1>2. PswOf(ieff, nzvc) % 32768 = PswOf(off, nzvc)
  BY <1>1, ClearIE DEF De0TypeOK, Flags
<1>3. Masked = PswOf(off, nzvc)
  BY <1>1, Zenon DEF Masked
<1>4. QED
  BY <1>2, <1>3

LEMMA MaskedNext ==
  ASSUME De0TypeOK'
  PROVE  Masked' = PswOf(ieff', nzvc') % 32768
<1>1. PICK off \in BOOLEAN : off = FALSE
  OBVIOUS
<1>2. PswOf(ieff', nzvc') % 32768 = PswOf(off, nzvc')
  BY <1>1, ClearIE DEF De0TypeOK, Flags
<1>3. Masked' = PswOf(off, nzvc')
  BY <1>1, Zenon DEF Masked
<1>4. QED
  BY <1>2, <1>3

(* The cycle in which an instruction takes effect. *)
Commits ==
    /\ state \in InProgress \union {"LOAD3", "IRET4"}
    /\ state' \in {"FETCH1", "IREQ1"}

LEMMA Commit ==
  ASSUME Edge, De0TypeOK, Fetched, Commits, oldregs \in [0 .. 7 -> Word]
  PROVE  /\ IsaRegs = oldregs /\ Ahead = Past
         /\ IsaRegs' = rq'
         /\ IsaPsw = PswOf(ieff, nzvc) /\ IsaPsw' = PswOf(ieff', nzvc')
         /\ IsaMem = memory /\ IsaMem' = memory'
         /\ irlat \in I!Opcodes /\ irlat \in Word
         /\ ~AnyOf({"IREQ1", "IREQ2"})
         /\ AnyOf({"IREQ1", "IREQ2"})' => IrqEnabled(IsaPsw)
<1>1. q = {state} /\ q' = {state'} /\ Follows
  BY DEF Edge
<1>2. /\ state \notin {"RESET0", "RESET1", "FETCH1", "IREQ1", "IREQ2", "IREQ3", "IREQ4", "IREQ5"}
      /\ state' \in {"FETCH1", "IREQ1"}
  BY DEF Commits, InProgress, Decoded
<1>3. /\ IsaRegs = oldregs /\ IsaMem = memory /\ ~AnyOf({"IREQ1", "IREQ2"})
      /\ IsaPsw = PswOf(ieff, nzvc)
  BY <1>1, <1>2, Shown DEF ShownRegs, ShownMem
<1>4. /\ IsaRegs' = rq' /\ IsaMem' = memory'
      /\ AnyOf({"IREQ1", "IREQ2"})' <=> state' = "IREQ1"
      /\ IsaPsw' = PswOf(ieff', nzvc')
  BY <1>1, <1>2, ShownNext DEF ShownRegs, ShownMem
<1>5. Ahead = Past
  BY <1>3 DEF Ahead, Past
<1>6. irlat \in I!Opcodes /\ irlat \in Word
  <2>1. irlat \in Word /\ (~IsMagic(oldregs[7]) => irlat = WordAt(oldregs[7]))
    BY DEF Fetched
  <2>2. oldregs[7] \in Word
    OBVIOUS
  <2>3. I!WordOf(IsaRegs[7]) = WordAt(oldregs[7]) /\ I!Word = Word
    BY <1>3, MemoryViews, SameWord
  <2>4. I!Even(IsaRegs[7]) = I!IoPort <=> IsMagic(oldregs[7])
    BY <1>3, <2>2, AtIoPort
  <2>5. I!Opcodes = IF I!Even(IsaRegs[7]) = I!IoPort THEN I!Word ELSE {I!WordOf(IsaRegs[7])}
    BY DEF I!Opcodes, I!Even
  <2>6. QED
    BY <2>1, <2>3, <2>4, <2>5
<1>7. state' = "IREQ1" => IrqEnabled(PswOf(ieff, nzvc))
  <2>1. IsSet(PswOf(ieff, nzvc), 15) <=> ieff
    BY PswBits DEF De0TypeOK
  <2>2. QED
    BY <1>1, <2>1 DEF Follows, IrqEnabled
<1>8. QED
  BY <1>3, <1>4, <1>5, <1>6, <1>7
-----------------------------------------------------------------------------

LEMMA PastType ==
  ASSUME oldregs \in [0 .. 7 -> Word]
  PROVE  Past \in [0 .. 7 -> Word]
<1>1. oldregs[7] \in Int /\ 2 \in Int
  BY WordIs
<1>2. AddW(oldregs[7], 2) \in Word
  BY <1>1, AddWIs
<1>3. QED
  BY <1>2 DEF Past

(* The instructions that end with the cycle the decoder starts them in. *)
LEMMA OneCycleNext ==
  ASSUME Edge, De0TypeOK, Fetched, Commits, oldregs \in [0 .. 7 -> Word], rq = Past,
         memory' = memory, state \in {"BCC1", "ARITH1", "LDA1", "WRPS1", "RDPS1", "HALT1"}
  PROVE  I!Next
<1>1. PICK w \in Word : RegsEdge(state, w) /\ PswEdge(state, w)
  BY DEF Edge
<1>2. /\ IsaRegs = oldregs /\ Ahead = rq /\ IsaRegs' = rq'
      /\ IsaPsw = PswOf(ieff, nzvc) /\ IsaPsw' = PswOf(ieff', nzvc')
      /\ IsaMem' = IsaMem /\ IsaRegs \in [0 .. 7 -> Word]
  BY Commit
<1>3. /\ irlat \in I!Opcodes /\ irlat \in Word /\ ~AnyOf({"IREQ1", "IREQ2"})
      /\ AnyOf({"IREQ1", "IREQ2"})' => IrqEnabled(IsaPsw)
  BY Commit
<1>4. Decode(irlat) = state /\ (state = "ARITH1" => ~BadAlu(irlat))
  BY DEF Fetched, Origin
<1>5. state \notin {"ARITH1", "WRPS1", "IRET4", "IREQ3"} => IsaPsw' = IsaPsw
  BY <1>1, <1>2 DEF PswEdge
<1>6. CASE state = "BCC1"
  <2>1. IsaRegs' = IF BranchTrue(irlat, IsaPsw)
                   THEN [Ahead EXCEPT ![7] = AddW(Ahead[7], BrOffset(irlat))]
                   ELSE Ahead
    BY <1>1, <1>2, <1>6 DEF RegsEdge
  <2>2. I!Branch(irlat)
    BY <1>2, <1>3, <1>4, <1>5, <1>6, <2>1, BranchForm
  <2>3. QED
    BY <1>3, <2>2, InstructionForm
<1>7. CASE state = "ARITH1"
  <2> DEFINE a == Ahead[RegA(irlat)]
             b == Ahead[RegB(irlat)]
  <2>1. IsaRegs' = IF RegD(irlat) # 7
                   THEN [Ahead EXCEPT ![RegD(irlat)] = ArithResult(irlat, a, b, IsaPsw)] ELSE Ahead
    BY <1>1, <1>2, <1>7 DEF RegsEdge
  <2>2. IsaPsw' = LoadPsw(Arith(irlat, a, b, IsaPsw).psw)
    BY <1>1, <1>2, <1>7 DEF PswEdge
  <2>3. I!Arithmetic(irlat)
    BY <1>2, <1>3, <1>4, <1>7, <2>1, <2>2, ArithForm
  <2>4. QED
    BY <1>3, <2>3, InstructionForm
<1>8. CASE state = "LDA1"
  <2>1. IsaRegs' = [Ahead EXCEPT ![RegD(irlat)] = Address(irlat, Ahead)]
    BY <1>1, <1>2, <1>8 DEF RegsEdge
  <2>2. I!LoadAddress(irlat)
    BY <1>2, <1>3, <1>4, <1>5, <1>8, <2>1, LoadAddressForm
  <2>3. QED
    BY <1>3, <2>2, InstructionForm
<1>9. CASE state = "WRPS1"
  <2>1. IsaRegs' = Ahead /\ IsaPsw' = LoadPsw(Ahead[RegB(irlat)])
    BY <1>1, <1>2, <1>9 DEF RegsEdge, PswEdge
  <2>2. I!WritePsw(irlat)
    BY <1>2, <1>3, <1>4, <1>9, <2>1, WritePswForm
  <2>3. QED
    BY <1>3, <2>2, InstructionForm
<1>10. CASE state = "RDPS1"
  <2>1. IsaRegs' = [Ahead EXCEPT ![RegD(irlat)] = IsaPsw]
    BY <1>1, <1>2, <1>10 DEF RegsEdge
  <2>2. I!ReadPsw(irlat)
    BY <1>2, <1>3, <1>4, <1>5, <1>10, <2>1, ReadPswForm
  <2>3. QED
    BY <1>3, <2>2, InstructionForm
<1>11. CASE state = "HALT1"
  <2>1. IsaRegs' = Ahead
    BY <1>1, <1>2, <1>11 DEF RegsEdge
  <2>2. I!Halt(irlat)
    BY <1>2, <1>3, <1>4, <1>5, <1>11, <2>1, HaltForm
  <2>3. QED
    BY <1>3, <2>2, InstructionForm
<1>12. QED
  BY <1>6, <1>7, <1>8, <1>9, <1>10, <1>11

(* Loads and the return from interrupts take a word from memory at their last edge. *)
LEMMA LoadNext ==
  ASSUME Edge, De0TypeOK, Fetched, Commits, oldregs \in [0 .. 7 -> Word], memory' = memory,
         \/ state = "LOAD2" /\ rq = Past /\ Gives
         \/ state = "LOAD3" /\ Immediate
  PROVE  I!Next
<1>1. PICK w \in Word : /\ RegsEdge(state, w) /\ PswEdge(state, w)
                        /\ state \in DataStates => w = pins.data
  BY DEF Edge
<1>2. /\ IsaRegs = oldregs /\ Ahead = Past /\ IsaRegs' = rq'
      /\ IsaPsw = PswOf(ieff, nzvc) /\ IsaPsw' = PswOf(ieff', nzvc')
      /\ IsaMem = memory /\ IsaMem' = IsaMem /\ IsaRegs \in [0 .. 7 -> Word]
  BY Commit
<1>3. /\ irlat \in I!Opcodes /\ irlat \in Word /\ ~AnyOf({"IREQ1", "IREQ2"})
      /\ AnyOf({"IREQ1", "IREQ2"})' => IrqEnabled(IsaPsw)
  BY Commit
<1>4. Decode(irlat) = "LOAD1"
  BY DEF Fetched, Origin
<1>5. IsaPsw' = IsaPsw
  BY <1>1, <1>2 DEF PswEdge
<1>6. Address(irlat, Ahead) \in Word
  <2>1. Past \in [0 .. 7 -> Word]
    BY PastType
  <2>2. RegA(irlat) \in 0 .. 7 /\ LsOffset(irlat) \in Word
    BY <1>3, Fields, Offsets
  <2>3. PICK p \in Int, o \in Int : p = Past[RegA(irlat)] /\ o = LsOffset(irlat)
    BY <2>1, <2>2, WordIs
  <2>4. AddW(p, o) \in Word
    BY AddWIs
  <2>5. QED
    BY <1>2, <2>3, <2>4 DEF Address
<1>7. CASE state = "LOAD2"
  <2>1. ~LoadImmediate(irlat)
    BY <1>7 DEF Edge, Follows, Commits
  <2>2. w = pins.data
    BY <1>1, <1>7 DEF DataStates
  <2>3. IsaRegs' = [IF LoadImmediate(irlat) THEN [Ahead EXCEPT ![7] = AddW(Ahead[7], 2)] ELSE Ahead
                    EXCEPT ![RegD(irlat)] = LoadedWord(irlat, w)]
    BY <1>1, <1>2, <1>7, <2>1 DEF RegsEdge
  <2>4. ~IsMagic(Address(irlat, Ahead)) => LoadedWord(irlat, w) = LoadsFrom(irlat, Ahead)
    BY <1>2, <1>7, <2>2 DEF Gives, LoadsFrom
  <2>5. I!Load(irlat)
    BY <1>2, <1>3, <1>4, <1>5, <1>6, <2>3, <2>4, LoadForm
  <2>6. QED
    BY <1>3, <2>5, InstructionForm
<1>8. CASE state = "LOAD3"
  <2> DEFINE d == RegD(irlat)
             x == rq[RegD(irlat)]
  <2>1. LoadImmediate(irlat) /\ d \in 0 .. 7 /\ d # 7
    BY <1>3, <1>8, Fields DEF Immediate, LoadImmediate
  <2>2. /\ rq = [Past EXCEPT ![d] = x]
        /\ ~IsMagic(Address(irlat, Past)) => x = LoadsFrom(irlat, Past)
    BY <1>8 DEF Immediate
  <2>3. rq' = [rq EXCEPT ![7] = AddW(rq[7], 2)]
    BY <1>1, <1>8 DEF RegsEdge
  <2>4. Past \in [0 .. 7 -> Word]
    BY PastType
  <2> HIDE DEF x, d
  <2>5. rq' = [[Past EXCEPT ![7] = AddW(Past[7], 2)] EXCEPT ![d] = x]
    BY <2>1, <2>2, <2>3, <2>4
  <2>6. IsaRegs' = [IF LoadImmediate(irlat) THEN [Ahead EXCEPT ![7] = AddW(Ahead[7], 2)] ELSE Ahead
                    EXCEPT ![RegD(irlat)] = x]
    BY <1>2, <2>1, <2>5 DEF d
  <2>7. I!Load(irlat)
    BY <1>2, <1>3, <1>4, <1>5, <1>6, <2>2, <2>6, LoadForm
  <2>8. QED
    BY <1>3, <2>7, InstructionForm
<1>9. QED
  BY <1>7, <1>8

LEMMA IretNext ==
  ASSUME Edge, De0TypeOK, Fetched, Commits, oldregs \in [0 .. 7 -> Word], memory' = memory,
         state = "IRET4", Gives, Returning
  PROVE  I!Next
<1>1. PICK w \in Word : /\ RegsEdge(state, w) /\ PswEdge(state, w)
                        /\ state \in DataStates => w = pins.data
  BY DEF Edge
<1>2. /\ IsaRegs = oldregs /\ IsaRegs' = rq' /\ IsaPsw' = PswOf(ieff', nzvc')
      /\ IsaMem = memory /\ IsaMem' = IsaMem
  BY Commit
<1>3. /\ irlat \in I!Opcodes /\ irlat \in Word /\ ~AnyOf({"IREQ1", "IREQ2"})
      /\ AnyOf({"IREQ1", "IREQ2"})' => IrqEnabled(IsaPsw)
  BY Commit
<1>4. Decode(irlat) = "IRET1"
  BY DEF Fetched, Origin
<1>5. w = WordAt(SavedPsw)
  BY <1>1 DEF Gives, DataStates
<1>6. IsaRegs' = [IsaRegs EXCEPT ![7] = WordAt(SavedPc)]
  BY <1>1, <1>2 DEF RegsEdge, Returning
<1>7. IsaPsw' = LoadPsw(WordAt(SavedPsw))
  BY <1>1, <1>2, <1>5 DEF PswEdge
<1>8. I!Iret(irlat)
  BY <1>2, <1>3, <1>4, <1>6, <1>7, IretForm
<1>9. QED
  BY <1>3, <1>8, InstructionForm

(* What a write of the processor does to memory, in a run that goes on. *)
LEMMA RecvStores ==
  ASSUME Recv, ~RandMem, pc' # "stopped"
  PROVE  /\ IsMagic(sample.data) =>
              \E x \in Word : memory' \in {memory, SetWord(memory, ERRNO, x)}
         /\ ~IsMagic(sample.data) =>
              memory' = IF sample.word THEN SetWord(memory, sample.data, readgpio.data)
                        ELSE SetByte(memory, sample.data, readgpio.data % 256)
<1> DEFINE s == readgpio
<1>1. IF IsMagic(sample.data) THEN Syscall(s.data) ELSE WriteMemory(sample.data, s.data)
  BY DEF Recv
<1> HIDE DEF s
<1>2. CASE IsMagic(sample.data)
  <2> SUFFICES \E x \in Word : memory' \in {memory, SetWord(memory, ERRNO, x)}
    BY <1>2
  <2>1. PICK x \in Word : x = 65536 - 38
    BY WordIs
  <2>2. CASE SyscallFail
    BY <2>1, <2>2 DEF SyscallFail
  <2>3. CASE ~SyscallFail
    <3>1. memory' = memory
      BY <1>1, <1>2, <2>3 DEF Syscall, ScnExit, ScnIntReq, ScnIrqAtNs, ScnIntAck, ScnSetRoSize,
                              ScnSetStkLim, Stop
    <3>2. QED
      BY <2>1, <3>1
  <2>4. QED
    BY <2>2, <2>3
<1>3. CASE ~IsMagic(sample.data)
  <2>1. memory' = IF sample.word THEN SetWord(memory, sample.data, s.data)
                  ELSE SetByte(memory, sample.data, s.data % 256)
    BY <1>1, <1>3 DEF WriteMemory, Stop
  <2>2. QED
    BY <1>3, <2>1 DEF s
<1>4. QED
  BY <1>2, <1>3

(* The word the processor gives while the data pins are its own. *)
LEMMA GivenWord ==
  ASSUME RInv, pc = "recv"
  PROVE  /\ state = "STORE2" => readgpio.data = rq[RegD(irlat)]
         /\ state = "IREQ2" => readgpio.data = PswOf(ieff, nzvc)
         /\ state \in {"IREQ4"} => readgpio.data = rq[7]
<1> DEFINE m == MQ(pins)
           p == PswOf(ieff, nzvc)
<1>1. /\ De0TypeOK /\ pins \in Pins /\ q = {state} /\ state \in GiveStates /\ ~pins.wdata
  BY DEF RInv, TypeOK, Pins, Core, HostInv
<1>2. m \in Word /\ readgpio.data = MD(m)
  BY <1>1, MqType, GpioType
<1>3. state \in Flops \ {"RESET0", "RESET1", "LOAD2", "IRET2", "IRET4", "ARITH1"}
  BY <1>1 DEF GiveStates, Flops
<1> HIDE DEF m, p
<1>4. MD(m) = BeginAlu(state, irlat, rq, p, 0)
  BY <1>1, <1>2, <1>3, AluShows DEF p
<1>5. /\ state = "STORE2" => BeginAlu(state, irlat, rq, p, 0) = rq[RegD(irlat)]
      /\ state = "IREQ2" => BeginAlu(state, irlat, rq, p, 0) = p
      /\ state = "IREQ4" => BeginAlu(state, irlat, rq, p, 0) = rq[7]
  BY BeginIs
<1>6. QED
  BY <1>2, <1>4, <1>5 DEF p

LEMMA StoreNext ==
  ASSUME RInv, Recv, ~RandMem, pc' # "stopped", Edge, Fetched, Commits,
         oldregs \in [0 .. 7 -> Word], rq = Past, Access, state = "STORE2"
  PROVE  I!Next
<1> DEFINE a == Address(irlat, Ahead)
           d == Ahead[RegD(irlat)]
<1>1. PICK v \in Word : RegsEdge(state, v) /\ PswEdge(state, v)
  BY DEF Edge
<1>2. De0TypeOK /\ MemOK(memory) /\ pc = "recv"
  BY DEF RInv, TypeOK, MemOK, Recv
<1>3. /\ IsaRegs = oldregs /\ Ahead = rq /\ IsaRegs' = rq'
      /\ IsaPsw = PswOf(ieff, nzvc) /\ IsaPsw' = PswOf(ieff', nzvc')
      /\ IsaMem = memory /\ IsaMem' = memory'
  BY <1>2, Commit
<1>4. /\ irlat \in I!Opcodes /\ irlat \in Word /\ ~AnyOf({"IREQ1", "IREQ2"})
      /\ AnyOf({"IREQ1", "IREQ2"})' => IrqEnabled(IsaPsw)
  BY <1>2, Commit
<1>5. Decode(irlat) = "STORE1"
  BY DEF Fetched, Origin
<1>6. /\ sample.data = a /\ (sample.word <=> ~ByteAccess(irlat)) /\ readgpio.data = d
      /\ a \in Word
  <2>1. sample.data = Address(irlat, rq) /\ (sample.word <=> ~ByteAccess(irlat))
    BY <1>2 DEF Access, Asked, GiveStates
  <2>2. readgpio.data = rq[RegD(irlat)]
    BY <1>2, GivenWord
  <2>3. sample.data \in Word
    BY DEF RInv, TypeOK
  <2>4. QED
    BY <1>3, <2>1, <2>2, <2>3
<1>7. d \in Word
  BY <1>2, <1>3, <1>4, Fields DEF De0TypeOK
<1>8. IsaRegs' = Ahead /\ IsaPsw' = IsaPsw
  BY <1>1, <1>3 DEF RegsEdge, PswEdge
<1>9. IsMagic(a) => I!HostCall
  <2> SUFFICES ASSUME IsMagic(a) PROVE I!HostCall
    OBVIOUS
  <2>1. PICK x \in Word : memory' \in {memory, SetWord(memory, ERRNO, x)}
    BY <1>6, RecvStores
  <2>2. IsaMem' \in {memory, SetWord(memory, ERRNO, x)}
    BY <1>3, <2>1
  <2>3. QED
    BY <1>3, <2>2, HostCallForm
<1>10. ~IsMagic(a) => IsaMem' = IF ByteAccess(irlat) THEN SetByte(memory, a, d % 256)
                                ELSE SetWord(memory, a, d)
  BY <1>3, <1>6, RecvStores
<1> HIDE DEF a, d
<1>11. I!Store(irlat)
  <2>1. a = Address(irlat, Ahead) /\ d = Ahead[RegD(irlat)]
    BY DEF a, d
  <2>2. a \in Word
    BY <1>6
  <2>3. QED
    BY <1>2, <1>3, <1>4, <1>5, <1>7, <1>8, <1>9, <1>10, <2>1, <2>2, StoreForm
<1>12. QED
  BY <1>4, <1>11, InstructionForm

(* The entry of an interrupt has happened when the status word is written. *)
LEMMA InterruptNext ==
  ASSUME RInv, Recv, ~RandMem, pc' # "stopped", Edge, De0TypeOK', Access, state = "IREQ2"
  PROVE  I!Next
<1> DEFINE p == PswOf(ieff, nzvc)
<1>1. PICK v \in Word : RegsEdge(state, v) /\ PswEdge(state, v)
  BY DEF Edge
<1>2. q = {state} /\ q' = {state'} /\ state' = "IREQ3" /\ pc = "recv"
  BY DEF Edge, Follows, Onward, Recv
<1>3. rq' = rq /\ PswOf(ieff', nzvc') = p
  BY <1>1 DEF RegsEdge, PswEdge
<1>4. sample.data = SavedPsw /\ sample.word /\ readgpio.data = p
  <2>1. sample.data = SavedPsw /\ sample.word
    BY <1>2 DEF Access, Asked, GiveStates
  <2>2. QED
    BY <1>2, <2>1, GivenWord
<1>5. memory' = SetWord(memory, SavedPsw, p)
  BY <1>4, RecvStores, SavedWords
<1>6. IsaRegs = rq /\ IsaPsw = p /\ IsaMem = memory /\ AnyOf({"IREQ1", "IREQ2"})
  BY <1>2, Shown DEF ShownRegs, ShownMem
<1>7. /\ IsaRegs' = [rq' EXCEPT ![7] = 2] /\ IsaMem' = SetWord(memory', SavedPc, rq'[7])
      /\ IsaPsw' = Masked' /\ ~AnyOf({"IREQ1", "IREQ2"})'
  BY <1>2, ShownNext DEF ShownRegs, ShownMem
<1>8. IsaPsw' = p % 32768
  BY <1>3, <1>7, MaskedNext
<1> HIDE DEF p
<1>9. I!SavedPc = SavedPc /\ I!SavedPsw = SavedPsw /\ SavedPc # SavedPsw
  BY DEF I!SavedPc, SavedPc, I!SavedPsw, SavedPsw
<1>10. IsaMem' = [a \in DOMAIN IsaMem \union {I!SavedPc, I!SavedPsw} |->
                    CASE a = I!SavedPsw -> IsaPsw
                      [] a = I!SavedPc -> IsaRegs[7]
                      [] OTHER -> IsaMem[a]]
  BY <1>3, <1>5, <1>6, <1>7, <1>9 DEF SetWord
<1>11. I!Interrupt
  BY <1>3, <1>6, <1>7, <1>8, <1>10 DEF I!Interrupt
<1>12. QED
  BY <1>11 DEF I!Next

LEMMA PswZero == LoadPsw(0) = 32752
<1>1. 0 \in Word /\ 0 \in Nat
  BY WordIs
<1>2. Bit(0, 15) = 0
  BY <1>1, Weights DEF Bit
<1>3. QED
  BY <1>2 DEF LoadPsw

LEMMA SameShown ==
  ASSUME IsaRegs' = IsaRegs, IsaPsw' = IsaPsw, IsaMem' = IsaMem,
         AnyOf({"IREQ1", "IREQ2"})' <=> AnyOf({"IREQ1", "IREQ2"})
  PROVE  UNCHANGED I!isaVars
<1>1. AnyOf({"IREQ1", "IREQ2"})' = AnyOf({"IREQ1", "IREQ2"})
  BY DEF AnyOf
<1>2. QED
  BY <1>1 DEF I!isaVars

(* Nothing shows while the processor comes out of reset ... *)
LEMMA ResetUnseen ==
  ASSUME RInv, pc \in {"top", "send", "recv"}, Raises(readgpio), state \in {"RESET0", "RESET1"},
         memory' = memory
  PROVE  UNCHANGED I!isaVars
<1>1. /\ q = {state} /\ q' = {state'} /\ De0TypeOK /\ De0TypeOK' /\ ShadowTypeOK
      /\ EndOfState(readgpio.data, pins.irq)
  BY Raise DEF RInv, TypeOK, Core, HostInv
<1>2. PICK m \in Word : De0Clock(m, pins.irq)
  <2>1. pins \in Pins
    BY DEF RInv, TypeOK, Pins
  <2>2. PICK m \in {MQ(pins), MQ(pins')} : De0Clock(m, pins.irq)
    BY DEF Raises
  <2>3. m \in Word
    BY <2>1, MqType DEF Raises
  <2>4. QED
    BY <2>2, <2>3
<1>3. /\ IsaRegs = [rq EXCEPT ![7] = 0] /\ IsaPsw = 32752 /\ IsaMem = memory
      /\ ~AnyOf({"IREQ1", "IREQ2"})
  BY <1>1, Shown DEF ShownRegs, ShownMem
<1>4. CASE state = "RESET0"
  <2>1. state' = "RESET1"
    BY <1>1, <1>4 DEF EndOfState, EndOnward, Onward, EndReset1, EndFetch2, EndBcc1, EndArith1,
           EndStore2OrHalt1, EndLda1OrRdps1, EndLoad2, EndLoad3, EndWrps1, EndIret2, EndIret4,
           EndIreq3, EndIreq5
  <2>2. rq' = rq
    <3>1. De0Edge(IR(m), Alu(m), pins.irq)
      BY <1>2 DEF De0Clock
    <3>2. IR(m) \in Word /\ "RESET0" \in Flops
      BY <1>1, <1>2 DEF IR, De0TypeOK, Flops
    <3>3. QED
      BY <1>1, <1>4, <3>1, <3>2, De0Regs
  <2>3. /\ IsaRegs' = [rq' EXCEPT ![7] = 0] /\ IsaPsw' = 32752 /\ IsaMem' = memory'
        /\ ~AnyOf({"IREQ1", "IREQ2"})'
    BY <1>1, <2>1, ShownNext DEF ShownRegs, ShownMem
  <2>4. QED
    BY <1>3, <2>2, <2>3, SameShown
<1>5. CASE state = "RESET1"
  <2>1. regs' = [regs EXCEPT ![7] = 0] /\ psw' = LoadPsw(0)
    BY <1>1, <1>5 DEF EndOfState, EndOnward, Onward, EndReset1, EndFetch2, EndBcc1, EndArith1,
           EndStore2OrHalt1, EndLda1OrRdps1, EndLoad2, EndLoad3, EndWrps1, EndIret2, EndIret4,
           EndIreq3, EndIreq5, SetReg
  <2>2. /\ \A r \in 0 .. 6 : rq'[r] = rq[r]
        /\ rq'[7] = regs'[7] /\ psw' = PswOf(ieff', nzvc') /\ state' = "FETCH1"
    BY <1>1, <1>2, <1>5, ResetStep
  <2>3. rq' = [rq EXCEPT ![7] = 0]
    BY <1>1, <2>1, <2>2 DEF De0TypeOK, ShadowTypeOK
  <2>4. /\ IsaRegs' = rq' /\ IsaPsw' = PswOf(ieff', nzvc') /\ IsaMem' = memory'
        /\ ~AnyOf({"IREQ1", "IREQ2"})'
    BY <1>1, <2>2, ShownNext DEF ShownRegs, ShownMem
  <2>5. QED
    BY <1>3, <2>1, <2>2, <2>3, <2>4, PswZero, SameShown
<1>6. QED
  BY <1>4, <1>5

(* ... nor in the cycles of an instruction before its last ... *)
LEMMA CycleUnseen ==
  ASSUME Edge, AtFetch, ~Commits, oldregs' = IF state' = "FETCH1" THEN rq' ELSE oldregs,
         memory' = memory,
         state \in InProgress \union {"FETCH1", "FETCH2", "LOAD3", "IRET3", "IRET4"}
  PROVE  UNCHANGED I!isaVars
<1>1. PICK w \in Word : RegsEdge(state, w) /\ PswEdge(state, w)
  BY DEF Edge
<1>2. q = {state} /\ q' = {state'} /\ Follows
  BY DEF Edge
<1>3. state' \in InProgress \union {"FETCH2", "LOAD3", "IRET3", "IRET4"}
  BY <1>2 DEF Commits, Follows, Onward, Lasting, InProgress, Decoded
<1>4. state \notin {"ARITH1", "WRPS1", "IRET4", "IREQ3"}
  BY <1>2 DEF Commits, Follows, Lasting, InProgress, Decoded
<1>5. PswOf(ieff', nzvc') = PswOf(ieff, nzvc)
  BY <1>1, <1>4 DEF PswEdge
<1>6. /\ IsaRegs = oldregs /\ IsaPsw = PswOf(ieff, nzvc) /\ IsaMem = memory
      /\ ~AnyOf({"IREQ1", "IREQ2"})
  <2>1. state \notin {"RESET0", "RESET1", "IREQ1", "IREQ2", "IREQ3", "IREQ4", "IREQ5"}
    BY DEF InProgress, Decoded
  <2>2. state = "FETCH1" => rq = oldregs
    BY DEF AtFetch
  <2>3. QED
    BY <1>2, <2>1, <2>2, Shown DEF ShownRegs, ShownMem
<1>7. /\ IsaRegs' = oldregs' /\ IsaPsw' = PswOf(ieff', nzvc') /\ IsaMem' = memory'
      /\ ~AnyOf({"IREQ1", "IREQ2"})'
  <2>1. state' \notin {"RESET0", "RESET1", "FETCH1", "IREQ1", "IREQ2", "IREQ3", "IREQ4", "IREQ5"}
    BY <1>3 DEF InProgress, Decoded
  <2>2. QED
    BY <1>2, <2>1, ShownNext DEF ShownRegs, ShownMem
<1>8. oldregs' = oldregs
  BY <1>3 DEF InProgress, Decoded
<1>9. QED
  BY <1>5, <1>6, <1>7, <1>8, SameShown

(* ... nor in the rest of an interrupt entry. *)
LEMMA EntryUnseen ==
  ASSUME Edge, De0TypeOK, De0TypeOK', Core,
         state \in {"IREQ1", "IREQ3", "IREQ4", "IREQ5"},
         memory' = IF state = "IREQ4" THEN SetWord(memory, SavedPc, rq[7]) ELSE memory
  PROVE  UNCHANGED I!isaVars
<1> DEFINE p == PswOf(ieff, nzvc)
<1>1. PICK w \in Word : RegsEdge(state, w) /\ PswEdge(state, w)
  BY DEF Edge
<1>2. q = {state} /\ q' = {state'}
  BY DEF Edge
<1>3. /\ state = "IREQ1" => state' = "IREQ2"
      /\ state = "IREQ3" => state' = "IREQ4"
      /\ state = "IREQ4" => state' = "IREQ5"
      /\ state = "IREQ5" => state' = "FETCH1"
  BY DEF Edge, Follows, Onward
<1>4. rq' = IF state = "IREQ5" THEN [rq EXCEPT ![7] = 2] ELSE rq
  BY <1>1 DEF RegsEdge
<1>5. /\ state # "IREQ3" => PswOf(ieff', nzvc') = p
      /\ state = "IREQ3" => PswOf(ieff', nzvc') = Masked
  BY <1>1 DEF PswEdge, Masked
<1>6. /\ Masked = p % 32768 /\ Masked' = PswOf(ieff', nzvc') % 32768
      /\ p \in Word
  BY MaskedIs, MaskedNext, PswBits DEF De0TypeOK, Flags
<1>7. state = "IREQ5" => p % 32768 = p
  <2>1. state = "IREQ5" => ~ieff
    BY DEF Core
  <2>2. QED
    BY <2>1, ClearIE DEF De0TypeOK, Flags
<1>8. /\ IsaRegs = IF state = "IREQ1" THEN rq ELSE [rq EXCEPT ![7] = 2]
      /\ IsaPsw = IF state = "IREQ1" THEN p ELSE Masked
      /\ IsaMem = IF state \in {"IREQ3", "IREQ4"} THEN SetWord(memory, SavedPc, rq[7]) ELSE memory
      /\ AnyOf({"IREQ1", "IREQ2"}) <=> state = "IREQ1"
  BY <1>2, Shown DEF ShownRegs, ShownMem
<1>9. /\ IsaRegs' = IF state \in {"IREQ1", "IREQ5"} THEN rq' ELSE [rq' EXCEPT ![7] = 2]
      /\ IsaPsw' = IF state \in {"IREQ1", "IREQ5"} THEN PswOf(ieff', nzvc') ELSE Masked'
      /\ IsaMem' = IF state = "IREQ3" THEN SetWord(memory', SavedPc, rq'[7]) ELSE memory'
      /\ AnyOf({"IREQ1", "IREQ2"})' <=> state = "IREQ1"
  BY <1>2, <1>3, ShownNext DEF ShownRegs, ShownMem
<1> HIDE DEF p
<1>10. IsaRegs' = IsaRegs
  BY <1>4, <1>8, <1>9
<1>11. IsaPsw' = IsaPsw
  <2>1. state = "IREQ3" => Masked' = Masked
    BY <1>5, <1>6, WordIs
  <2>2. QED
    BY <1>5, <1>6, <1>7, <1>8, <1>9, <2>1
<1>12. IsaMem' = IsaMem
  BY <1>4, <1>8, <1>9
<1>13. QED
  BY <1>8, <1>9, <1>10, <1>11, <1>12, SameShown

(* ... nor in the half cycles between. *)
LEMMA RestUnseen ==
  ASSUME RInv, Record, Resting \/ UNCHANGED histVars
  PROVE  UNCHANGED I!isaVars
<1>1. q' = q /\ rq' = rq /\ ieff' = ieff /\ nzvc' = nzvc /\ memory' = memory
  BY DEF Resting, de0Vars, histVars, vars, hostVars
<1>2. oldregs' = oldregs
  BY <1>1 DEF Record, Becomes
<1>3. \A T : AnyOf(T)' <=> AnyOf(T)
  BY <1>1 DEF AnyOf, On
<1>4. IsaRegs' = IsaRegs
  BY <1>1, <1>2, <1>3 DEF IsaRegs, Entered
<1>5. IsaPsw' = IsaPsw
  <2>1. IsaPsw' = IF AnyOf({"RESET0", "RESET1"})' THEN 32752
                  ELSE IF Entered' THEN Masked' ELSE PswOf(ieff', nzvc')
    BY DEF IsaPsw, Masked
  <2>2. Masked' = Masked /\ PswOf(ieff', nzvc') = PswOf(ieff, nzvc) /\ (Entered' <=> Entered)
    BY <1>1, <1>3 DEF Masked, Entered
  <2>3. QED
    BY <1>3, <2>1, <2>2, IsaPswIs
<1>6. IsaMem' = IsaMem
  BY <1>1, <1>3 DEF IsaMem, SetWord
<1>7. QED
  BY <1>3, <1>4, <1>5, <1>6, SameShown

(* Each step of a run that goes on is a step of Isa, or does not show. *)
LEMMA IsaStep ==
  ASSUME RInv, Executing, HistNext, ~RandMem, pc' # "stopped"
  PROVE  I!Next \/ UNCHANGED I!isaVars
<1>1. Next /\ Record
  BY DEF HistNext
<1>2. pc # "stopped" /\ (Raising \/ Resting)
  <2>1. pc # "stopped"
    BY <1>1 DEF Next, Main, Top, HaltExit, SendAnswer, Send, AwaitData, Recv, OddWordAbort,
                Bottom, StackAbort, ShadowAbort, LineClockPost, LineClockEnd
  <2>2. QED
    BY <1>1, <2>1, StepKinds
<1>3. Exec
  BY <1>2 DEF Executing
<1>4. CASE Resting
  BY <1>1, <1>4, RestUnseen
<1>5. CASE Raising /\ state \in {"RESET0", "RESET1"}
  <2>1. pc \in {"top", "send", "recv"} /\ Raises(readgpio) /\ memory' = memory
    BY <1>5 DEF Raising, RInv, HostInv, GiveStates
  <2>2. QED
    BY <1>5, <2>1, ResetUnseen
<1>6. CASE Raising /\ state \notin {"RESET0", "RESET1"}
  <2>1. state = "ARITH1" => ~BadAlu(irlat)
    BY <1>3 DEF Exec, Opcode, InProgress, Decoded, Fetched
  <2>2. Edge /\ De0TypeOK' /\ De0TypeOK /\ Core
    BY <1>2, <1>6, <2>1, RaiseEdge DEF RInv, TypeOK, Raising
  <2>3. q = {state} /\ q' = {state'} /\ Follows /\ state \in Flops
    BY <2>2 DEF Edge
  <2>4. oldregs' = IF state' = "FETCH1" THEN rq' ELSE oldregs
    <3>1. state = "FETCH1" => state' # "FETCH1"
      BY <2>3 DEF Follows, Onward
    <3>2. QED
      BY <1>1, <2>3, <3>1, Recorded
  <2>5. /\ oldregs \in [0 .. 7 -> Word] /\ AtFetch /\ Access
        /\ state \in InProgress => rq = Past
        /\ state \in InProgress \union {"LOAD3", "IRET3", "IRET4"} => Fetched
    BY <1>3 DEF Exec, Within, Opcode
  <2>6. CASE state \in GiveStates
    <3>1. Recv /\ pc = "recv"
      BY <1>6, <2>6 DEF Raising, RInv, HostInv, GiveStates, DataStates
    <3>2. CASE state = "STORE2"
      <4>1. Commits
        BY <2>3, <3>2 DEF Commits, InProgress, Follows, Lasting
      <4>2. QED
        BY <2>2, <2>5, <3>1, <3>2, <4>1, StoreNext DEF InProgress
    <3>3. CASE state = "IREQ2"
      BY <2>2, <2>5, <3>1, <3>3, InterruptNext
    <3>4. CASE state = "IREQ4"
      <4>1. sample.data = SavedPc /\ sample.word /\ readgpio.data = rq[7]
        BY <2>5, <3>1, <3>4, GivenWord DEF Access, Asked, GiveStates
      <4>2. memory' = SetWord(memory, SavedPc, rq[7])
        BY <3>1, <4>1, RecvStores, SavedWords
      <4>3. QED
        BY <2>2, <3>4, <4>2, EntryUnseen
    <3>5. QED
      BY <2>6, <3>2, <3>3, <3>4 DEF GiveStates
  <2>7. CASE state \notin GiveStates
    <3>1. pc # "recv" /\ memory' = memory
      BY <1>6, <2>7 DEF Raising, RInv, HostInv
    <3>2. state \in DataStates => Gives
      <4>1. state \in DataStates => pc = "send"
        BY <1>6 DEF Raising, RInv, HostInv, DataStates, GiveStates
      <4>2. QED
        BY <1>3, <4>1, Giving DEF Exec
    <3>3. CASE state \in {"IREQ1", "IREQ3", "IREQ5"}
      BY <2>2, <3>1, <3>3, EntryUnseen
    <3>4. CASE state \notin {"IREQ1", "IREQ3", "IREQ5"}
      <4>1. state \in InProgress \union {"FETCH1", "FETCH2", "LOAD3", "IRET3", "IRET4"}
        BY <1>6, <2>3, <2>7, <3>4 DEF Flops, InProgress, Decoded, GiveStates
      <4>2. CASE ~Commits
        BY <2>2, <2>4, <2>5, <3>1, <4>1, <4>2, CycleUnseen
      <4>3. CASE Commits
        <5>1. Fetched /\ state' \in {"FETCH1", "IREQ1"}
          BY <2>5, <4>3 DEF Commits
        <5>2. state \in {"BCC1", "ARITH1", "LDA1", "WRPS1", "RDPS1", "HALT1", "LOAD2", "LOAD3",
                         "IRET4"}
          BY <2>3, <2>7, <4>3 DEF Commits, Follows, Onward, InProgress, Decoded, GiveStates
        <5>3. CASE state \in {"BCC1", "ARITH1", "LDA1", "WRPS1", "RDPS1", "HALT1"}
          BY <2>2, <2>5, <3>1, <4>3, <5>1, <5>3, OneCycleNext DEF InProgress, Decoded
        <5>4. CASE state \in {"LOAD2", "LOAD3"}
          BY <1>3, <2>2, <2>5, <3>1, <3>2, <4>3, <5>1, <5>4, LoadNext
             DEF InProgress, DataStates, Exec
        <5>5. CASE state = "IRET4"
          BY <1>3, <2>2, <2>5, <3>1, <3>2, <4>3, <5>1, <5>5, IretNext DEF DataStates, Exec
        <5>6. QED
          BY <5>2, <5>3, <5>4, <5>5
      <4>4. QED
        BY <4>2, <4>3
    <3>5. QED
      BY <3>3, <3>4
  <2>8. QED
    BY <2>6, <2>7
<1>7. QED
  BY <1>2, <1>4, <1>5, <1>6

(* The computer starts as Isa starts. *)
LEMMA InitIsa == HistInit => Executing /\ (~RandMem => I!Init)
<1> SUFFICES ASSUME HistInit PROVE Executing /\ I!Init
  OBVIOUS
<1>1. Init /\ RInv /\ oldregs = [r \in 0 .. 7 |-> 0]
  BY InitRInv DEF HistInit
<1>2. q = {state} /\ state = "RESET0" /\ pc = "top" /\ rq \in [0 .. 7 -> Word]
  BY <1>1 DEF Init, RInv, Core, TypeOK, De0TypeOK
<1>3. 0 \in Word
  BY WordIs
<1>4. Exec
  BY <1>1, <1>2, <1>3 DEF Exec, AtFetch, Within, Opcode, Immediate, Returning, Access, Answer,
                          InProgress, Decoded
<1>5. /\ IsaRegs = [rq EXCEPT ![7] = 0] /\ IsaPsw = 32752 /\ IsaMem = memory
      /\ ~AnyOf({"IREQ1", "IREQ2"})
  BY <1>2, Shown DEF ShownRegs, ShownMem
<1>6. \E r \in Runs : memory = r.load
  BY <1>1 DEF Init
<1>7. IsaRegs \in [0 .. 7 -> I!Word] /\ IsaRegs[7] = 0
  BY <1>2, <1>3, <1>5, SameWord
<1>8. AnyOf({"IREQ1", "IREQ2"}) = FALSE
  BY <1>5 DEF AnyOf
<1>9. I!Init
  BY <1>5, <1>6, <1>7, <1>8 DEF I!Init
<1>10. QED
  BY <1>4, <1>9 DEF Executing

(* The computer executes its instruction set: as long as a run without -randmem
   goes on, its registers, status word and memory change as the instructions and
   interrupt entries of Isa change them, one at a time, and in no other way,
   though each takes several cycles and half-cycle transfers and the interrupt
   line may rise in any of them (driver/shadow.cc:387-548,
   driver/raspictl.cc:340-457, 1067-1118). *)
THEOREM ExecutesInstructions == HistSpec => ImplementsIsa
<1>1. HistInit => Init /\ Executing /\ (~RandMem => I!Init)
  BY InitIsa DEF HistInit
<1>2. [HistNext]_histVars => [Next]_vars
  BY DEF HistNext, histVars
<1>3. RInv /\ Executing /\ [HistNext]_histVars => Executing'
  <2>1. ASSUME Executing, UNCHANGED histVars PROVE Executing'
    <3>1. pc' = pc /\ options' = options /\ state' = state /\ q' = q /\ irlat' = irlat /\ rq' = rq
          /\ memory' = memory /\ sample' = sample /\ pins' = pins /\ mr_syscall_rc' = mr_syscall_rc
          /\ oldregs' = oldregs /\ interrupted' = interrupted
      BY <2>1 DEF histVars, vars, shadowVars, de0Vars, hostVars
    <3>2. Record
      BY <3>1 DEF Record, Becomes, On
    <3>3. Exec => Exec'
      <4>1. ASSUME Exec PROVE Answer'
        BY <3>1, <4>1 DEF Exec, Answer, MemoryAnswer, WordAt, ByteAt
      <4>2. QED
        BY <3>1, <3>2, <4>1, QuietExec
    <3>4. QED
      BY <2>1, <3>1, <3>3 DEF Executing, RandMem
  <2>2. QED
    BY <2>1, ExecNext
<1>4. RInv /\ Executing /\ [HistNext]_histVars =>
        [~RandMem /\ pc' # "stopped" => I!Next]_I!isaVars
  <2>1. ASSUME RInv, UNCHANGED histVars PROVE UNCHANGED I!isaVars
    <3>1. Record
      BY <2>1 DEF histVars, vars, de0Vars, Record, Becomes, On
    <3>2. QED
      BY <2>1, <3>1, RestUnseen
  <2>2. QED
    BY <2>1, IsaStep
<1>5. QED
  BY <1>1, <1>2, <1>3, <1>4, Invariant, PTL DEF HistSpec, Spec, ImplementsIsa
-----------------------------------------------------------------------------
(***************************************************************************)
(* The line clock thread.  Raspictl has two steps for it, LineClockPost    *)
(* and LineClockEnd; module LineClock has the threads, the condition       *)
(* variable with its time limit, and the clock.  Here the second is shown  *)
(* to implement what the first takes for granted.                          *)
(***************************************************************************)
CONSTANTS Threads, NsPerSec, MaxTime, MaxCalls
VARIABLES halted, thread, deadline, lineclockabs, now, calls

Timer == INSTANCE LineClock WITH main <- halted

irqVars == <<intreqreg, lineclockrun, lineclockset>>

(* All that the threads of Raspictl do to the requests, -randmem apart, which has
   no line clock. *)
IrqInit == intreqreg = {} /\ ~lineclockrun /\ ~lineclockset
IrqNext == \/ PostRequest \/ ThreadEnds
           \/ \E on \in BOOLEAN : SetRequest(on)
           \/ \E given, seconds \in BOOLEAN : (seconds => given) /\ SetTime(given, seconds)

(* At most one thread, with lineclockrun set, and it waits with a time limit, or
   has run into it, only while its request is not up. *)
OneThread ==
    /\ thread \in [Threads -> {"none", "created", "woken", "wait", "timedwait", "timedout"}]
    /\ lineclockrun \in BOOLEAN /\ lineclockabs \in Nat
    /\ \A t \in Threads : Timer!Live(t) =>
          /\ lineclockrun
          /\ \A s \in Threads : Timer!Live(s) => s = t
    /\ \A t \in Threads : thread[t] \in {"timedwait", "timedout"} => "LINECLOCK" \notin intreqreg

LEMMA LoopOneThread ==
  ASSUME OneThread, NEW t \in Threads, Timer!Live(t), NEW r, Timer!LoopWith(t, r),
         intreqreg' = r, UNCHANGED lineclockabs
  PROVE  OneThread' /\ lineclockrun' = Timer!Armed
<1>1. lineclockrun /\ \A s \in Threads : s # t => thread[s] = "none" /\ thread'[s] = "none"
  BY DEF OneThread, Timer!Live, Timer!LoopWith
<1>2. /\ thread'[t] = IF ~Timer!Armed THEN "none" ELSE IF "LINECLOCK" \in r THEN "wait" ELSE "timedwait"
      /\ lineclockrun' = Timer!Armed
  BY <1>1 DEF OneThread, Timer!LoopWith, Timer!Armed
<1>3. thread' \in [Threads -> {"none", "created", "woken", "wait", "timedwait", "timedout"}]
  BY DEF OneThread, Timer!LoopWith
<1>4. lineclockrun' \in BOOLEAN
  BY <1>2 DEF Timer!Armed
<1>5. QED
  BY <1>1, <1>2, <1>3, <1>4 DEF OneThread, Timer!Live

(* One step of the clock program is a step of the requests. *)
LEMMA ClockStep ==
  ASSUME NsPerSec \in Nat \ {0}, MaxTime \in Nat, OneThread, [Timer!ClockNext]_Timer!clockVars,
         lineclockset = Timer!Armed, (lineclockset = Timer!Armed)'
  PROVE  OneThread' /\ [IrqNext]_irqVars
<1> USE DEF Timer!Live, Timer!Waiting
<1>1. ASSUME NEW irqatns \in 0 .. MaxTime, Timer!IrqAtNs(irqatns) PROVE OneThread' /\ IrqNext
  <2>1. Timer!Woken \in [Threads -> {"none", "created", "woken", "timedout"}]
        /\ \A t \in Threads : Timer!Woken[t] = "none" <=> thread[t] = "none"
    BY DEF OneThread, Timer!Woken
  <2>2. /\ intreqreg' = intreqreg \ {"LINECLOCK"} /\ lineclockabs' = irqatns /\ irqatns \in Nat
        /\ lineclockrun' = (lineclockrun \/ irqatns # 0)
    <3>1. irqatns \in Nat
      OBVIOUS
    <3>2. QED
      BY <1>1, <3>1 DEF Timer!IrqAtNs, OneThread
  <2>3. OneThread'
    <3>1. CASE irqatns # 0 /\ ~lineclockrun
      <4>1. PICK t \in Threads : thread' = [Timer!Woken EXCEPT ![t] = "created"]
        BY <1>1, <3>1 DEF Timer!IrqAtNs
      <4>2. \A s \in Threads : Timer!Woken[s] = "none"
        BY <2>1, <3>1 DEF OneThread
      <4>3. QED
        BY <2>1, <2>2, <3>1, <4>1, <4>2 DEF OneThread
    <3>2. CASE ~(irqatns # 0 /\ ~lineclockrun)
      BY <1>1, <2>1, <2>2, <3>2 DEF OneThread, Timer!IrqAtNs
    <3>3. QED
      BY <3>1, <3>2
  <2>4. SetTime(irqatns # 0, irqatns >= NsPerSec)
    BY <2>2 DEF SetTime, Timer!Armed
  <2>5. irqatns >= NsPerSec => irqatns # 0
    BY <2>2
  <2>6. QED
    <3>1. (irqatns # 0) \in BOOLEAN /\ (irqatns >= NsPerSec) \in BOOLEAN
      OBVIOUS
    <3>2. QED
      BY <2>3, <2>4, <2>5, <3>1 DEF IrqNext
<1>2. ASSUME NEW code \in BOOLEAN, Timer!IntReq(code) PROVE OneThread' /\ IrqNext
  <2>1. SetRequest(code)
    BY <1>2 DEF Timer!IntReq, SetRequest, Timer!Armed
  <2>2. QED
    BY <1>2, <2>1 DEF Timer!IntReq, OneThread, IrqNext
<1>3. ASSUME UNCHANGED <<lineclockabs, lineclockrun, intreqreg>> PROVE UNCHANGED irqVars
  BY <1>3 DEF irqVars, Timer!Armed
<1>4. CASE Timer!Halt \/ Timer!HaltWoken \/ Timer!Tick \/ UNCHANGED Timer!clockVars
  <2>1. UNCHANGED <<thread, lineclockabs, lineclockrun, intreqreg>>
    BY <1>4 DEF Timer!Halt, Timer!HaltWoken, Timer!Tick, Timer!clockVars
  <2>2. QED
    BY <1>3, <2>1 DEF OneThread
<1>5. CASE Timer!Spurious
  <2>1. /\ UNCHANGED <<lineclockabs, lineclockrun, intreqreg>>
        /\ \/ thread' = thread
           \/ \E t \in Threads : thread[t] # "none" /\ thread' = [thread EXCEPT ![t] = "woken"]
    BY <1>5 DEF Timer!Spurious
  <2>2. QED
    BY <1>3, <2>1 DEF OneThread
<1>6. ASSUME NEW t \in Threads, Timer!Loop(t) PROVE OneThread' /\ [IrqNext]_irqVars
  <2>1. Timer!Live(t) /\ Timer!LoopWith(t, intreqreg) /\ UNCHANGED <<lineclockabs, intreqreg>>
    BY <1>6 DEF Timer!Loop
  <2>2. OneThread' /\ lineclockrun' = Timer!Armed
    BY <2>1, LoopOneThread
  <2>3. lineclockrun /\ lineclockset' = lineclockset
    BY <2>1 DEF OneThread, Timer!Armed
  <2>4. lineclockset => lineclockrun' = lineclockrun
    BY <2>2, <2>3
  <2>5. ~lineclockset => ThreadEnds
    BY <2>1, <2>2, <2>3 DEF ThreadEnds
  <2>6. QED
    BY <2>1, <2>2, <2>3, <2>4, <2>5 DEF IrqNext, irqVars
<1>7. ASSUME NEW t \in Threads, Timer!TimeOut(t) PROVE OneThread' /\ UNCHANGED irqVars
  <2>1. UNCHANGED <<lineclockabs, lineclockrun, intreqreg>>
        /\ thread[t] = "timedwait" /\ thread' = [thread EXCEPT ![t] = "timedout"]
    BY <1>7 DEF Timer!TimeOut
  <2>2. QED
    BY <1>3, <2>1 DEF OneThread
<1>8. ASSUME NEW t \in Threads, Timer!Post(t) PROVE OneThread' /\ IrqNext
  <2>1. /\ Timer!Live(t) /\ Timer!LoopWith(t, intreqreg') /\ UNCHANGED lineclockabs
        /\ intreqreg' = intreqreg \union {"LINECLOCK"} /\ thread[t] = "timedout"
    BY <1>8 DEF Timer!Post
  <2>2. OneThread' /\ lineclockrun' = Timer!Armed
    BY <2>1, LoopOneThread
  <2>3. lineclockrun /\ "LINECLOCK" \notin intreqreg /\ lineclockset' = lineclockset
    BY <2>1 DEF OneThread, Timer!Armed
  <2>4. PostRequest
    BY <2>1, <2>2, <2>3 DEF PostRequest
  <2>5. QED
    BY <2>2, <2>4 DEF IrqNext
<1>9. QED
  BY <1>1, <1>2, <1>3, <1>4, <1>5, <1>6, <1>7, <1>8 DEF Timer!ClockNext, Timer!Main, Timer!ThreadStep

(* A step of Raspictl is one, too. *)
LEMMA HostStep ==
  ASSUME [Next]_vars, ~RandMem
  PROVE  [IrqNext]_irqVars
<1>1. ASSUME UNCHANGED hostVars \/ UNCHANGED <<intreqreg, lineclockrun, lineclockset>>
      PROVE  UNCHANGED irqVars
  BY <1>1 DEF hostVars, irqVars
<1>2. CASE UNCHANGED vars
  BY <1>1, <1>2 DEF vars
<1>3. CASE Top \/ HaltExit \/ Send \/ AwaitData \/ OddWordAbort \/ Bottom \/ StackAbort \/ ShadowAbort
  BY <1>1, <1>3 DEF Top, HaltExit, Send, AwaitData, OddWordAbort, Bottom, StackAbort, ShadowAbort
<1>4. CASE SendAnswer
  BY <1>1, <1>4 DEF SendAnswer
<1>5. CASE LineClockPost \/ LineClockEnd
  BY <1>5 DEF LineClockPost, LineClockEnd, IrqNext
<1>6. CASE Recv
  <2>1. PICK data, addr : Syscall(data) \/ WriteMemory(addr, data)
    BY <1>6 DEF Recv
  <2>2. CASE WriteMemory(addr, data)
    BY <1>1, <2>2 DEF WriteMemory
  <2>3. CASE Syscall(data)
    <3> DEFINE arg == readmemword(data + 2)
    <3>1. \/ SyscallFail
          \/ ScnExit \/ ScnIntReq(arg) \/ ScnIrqAtNs(arg) \/ ScnIntAck
          \/ ScnSetRoSize(arg) \/ ScnSetStkLim(arg)
      BY <2>3 DEF Syscall
    <3> HIDE DEF arg
    <3>2. CASE SyscallFail \/ ScnExit \/ ScnIntAck \/ ScnSetRoSize(arg) \/ ScnSetStkLim(arg)
      BY <1>1, <3>2 DEF SyscallFail, ScnExit, ScnIntAck, ScnSetRoSize, ScnSetStkLim
    <3>3. CASE ScnIntReq(arg)
      <4>1. (arg # 0) \in BOOLEAN
        OBVIOUS
      <4>2. QED
        BY <3>3, <4>1 DEF ScnIntReq, IrqNext
    <3>4. CASE ScnIrqAtNs(arg)
      <4>1. TimeGiven(arg) \in BOOLEAN /\ TimeHasSeconds(arg) \in BOOLEAN
        BY DEF TimeGiven, TimeHasSeconds
      <4>2. TimeHasSeconds(arg) => TimeGiven(arg)
        <5>1. ASSUME NEW w, w = 0 PROVE ~(w > 15258) /\ w # 15258
          BY <5>1
        <5>2. ASSUME TimeHasSeconds(arg)
              PROVE  arg # 0 /\ \E k \in 1 .. 3 : PairAt(arg + 2 * k) # 0
          BY <5>1, <5>2 DEF TimeHasSeconds
        <5>3. QED
          BY <5>2 DEF TimeGiven
      <4>3. QED
        BY <3>4, <4>1, <4>2 DEF ScnIrqAtNs, IrqNext
    <3>5. QED
      BY <3>1, <3>2, <3>3, <3>4
  <2>4. QED
    BY <2>1, <2>2, <2>3
<1>7. QED
  BY <1>2, <1>3, <1>4, <1>5, <1>6 DEF Next, Main

(* The line clock thread does what Raspictl lets it do, and no more.  IrqNext is all
   that Raspictl has happen to the requests, as long as it is not run with -randmem;
   and with lineclockset for a lineclockabs of a second or more, every behaviour of
   the clock program, with its threads, time limits, missed and late wakeups, is one
   in which the requests change by IrqNext (driver/raspictl.cc:570-578, 634-661,
   1025-1047). *)
THEOREM LineClockAsModelled ==
  ASSUME NsPerSec \in Nat \ {0}, MaxTime \in Nat
  PROVE  /\ Spec => IrqInit /\ [][~RandMem => IrqNext]_irqVars
         /\ Timer!ClockSpec /\ [](lineclockset = Timer!Armed) => IrqInit /\ [][IrqNext]_irqVars
<1>1. Timer!ClockInit /\ lineclockset = Timer!Armed => IrqInit /\ OneThread
  <2> SUFFICES ASSUME Timer!ClockInit, lineclockset = Timer!Armed PROVE IrqInit /\ OneThread
    OBVIOUS
  <2>1. /\ thread = [t \in Threads |-> "none"] /\ lineclockabs = 0
        /\ lineclockrun = FALSE /\ intreqreg = {}
    BY DEF Timer!ClockInit
  <2>2. lineclockset = FALSE
    <3>1. ~ (0 >= NsPerSec)
      OBVIOUS
    <3>2. Timer!Armed = FALSE
      BY <2>1, <3>1 DEF Timer!Armed
    <3>3. QED
      BY <3>2, Zenon
  <2>3. OneThread
    BY <2>1 DEF OneThread, Timer!Live
  <2>4. QED
    BY <2>1, <2>2, <2>3 DEF IrqInit
<1>2. OneThread /\ [Timer!ClockNext]_Timer!clockVars /\ lineclockset = Timer!Armed
            /\ (lineclockset = Timer!Armed)' => OneThread' /\ [IrqNext]_irqVars
  BY ClockStep
<1>3. Init => IrqInit
  BY DEF Init, IrqInit
<1>4. [Next]_vars => [~RandMem => IrqNext]_irqVars
  BY HostStep
<1>5. QED
  BY <1>1, <1>2, <1>3, <1>4, PTL DEF Timer!ClockSpec, Spec
=============================================================================
