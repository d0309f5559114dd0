-------------------------- MODULE ControlStatusProofs --------------------------
(***************************************************************************)
(* For every set of panels and every latency of the crossing: counters     *)
(* lose nothing at a rebase; and where the host spaces its writes by the   *)
(* crossing, strobes fire as they were written and a sticky bit stays set  *)
(* until a clear that names it lands.                                      *)
(***************************************************************************)
EXTENDS ControlStatus, TLAPS

----------------------------------------------------------------------------
(* Counters: arithmetic modulo their width.                                *)

(* A number is its quotient and its remainder.                             *)
LEMMA Euclid ==
  ASSUME NEW a \in Int, NEW m \in Nat \ {0}
  PROVE  /\ a \div m \in Int /\ a % m \in 0..m-1
         /\ a = m * (a \div m) + (a % m)
  OBVIOUS

(* Whatever multiple of the modulus is added, the remainder is the same.   *)
LEMMA Remainder ==
  ASSUME NEW q \in Int, NEW m \in Nat \ {0}, NEW r \in 0..m-1
  PROVE  (q * m + r) % m = r
  OBVIOUS

(* Reducing a term of a sum first does not change the sum's remainder.     *)
LEMMA ReducedTerm ==
  ASSUME NEW a \in Int, NEW b \in Int, NEW m \in Nat \ {0}
  PROVE  ((a % m) + b) % m = (a + b) % m
<1> DEFINE q == a \div m
           c == (a % m) + b
<1>1. /\ q \in Int /\ a % m \in Int /\ c \in Int
      /\ a + b = m * q + c
  BY Euclid
<1>2. /\ c \div m \in Int /\ c % m \in 0..m-1
      /\ c = m * (c \div m) + (c % m)
  BY <1>1, Euclid
<1> HIDE DEF q, c
<1>3. a + b = (q + (c \div m)) * m + (c % m)
  BY <1>1, <1>2
<1>4. (a + b) % m = c % m
  <2> DEFINE p == q + (c \div m)
  <2>1. p \in Int
    BY <1>1, <1>2
  <2> HIDE DEF p
  <2>2. (p * m + (c % m)) % m = c % m
    BY <1>2, <2>1, Remainder
  <2> QED BY <1>3, <2>2 DEF p
<1> QED BY <1>4 DEF c
----------------------------------------------------------------------------
(* One crossing, whatever it carries.                                      *)

(* A sampled crossing, field by field.                                     *)
LEMMA SampleFields ==
  ASSUME NEW T, NEW x \in CrossType(T), NEW t \in BOOLEAN
  PROVE  LET x1 == Sample(x, t)
         IN /\ x1 \in CrossType(T)
            /\ x1.mask = x.mask /\ x1.toggle = x.toggle /\ x1.seen = t
            /\ x1.pulse[1] = (t # x.seen)
            /\ \A i \in 2..TickLatency : x1.pulse[i] = x.pulse[i-1]
<1> DEFINE pulse == [i \in 1..TickLatency |-> IF i = 1 THEN t # x.seen ELSE x.pulse[i-1]]
<1>1. /\ x.pulse \in [1..TickLatency -> BOOLEAN] /\ x.mask \in SUBSET T
      /\ x.toggle \in BOOLEAN /\ x.seen \in BOOLEAN
  BY DEF CrossType
<1>2. \A i \in 2..TickLatency : i - 1 \in 1..TickLatency
  BY LatencyAssumption
<1>3. \A i \in 1..TickLatency : pulse[i] \in BOOLEAN
  <2> SUFFICES ASSUME NEW i \in 1..TickLatency PROVE pulse[i] \in BOOLEAN
    OBVIOUS
  <2>1. CASE i = 1
    BY <2>1
  <2>2. CASE i # 1
    <3>1. i \in 2..TickLatency
      BY <2>2, LatencyAssumption
    <3> QED BY <1>1, <1>2, <2>2, <3>1
  <2> QED BY <2>1, <2>2
<1>4. 1 \in 1..TickLatency
  BY LatencyAssumption
<1>5. \A i \in 2..TickLatency : i \in 1..TickLatency /\ i # 1
  BY LatencyAssumption
<1>6. pulse \in [1..TickLatency -> BOOLEAN]
  BY <1>3
<1>7. pulse[1] = (t # x.seen) /\ \A i \in 2..TickLatency : pulse[i] = x.pulse[i-1]
  BY <1>4, <1>5, Zenon
<1> HIDE DEF pulse
<1>8. Sample(x, t) = [x EXCEPT !.seen = t, !.pulse = pulse]
  BY DEF Sample, pulse
<1> QED BY <1>1, <1>6, <1>7, <1>8 DEF CrossType

(* An edge of the panel's clock takes the strobe one stage further.        *)
LEMMA SampleInStep ==
  ASSUME NEW T, NEW x \in CrossType(T), NEW mask \in SUBSET T, NEW strobe \in BOOLEAN,
         NEW t \in BOOLEAN, t = x.toggle \/ t = x.seen,
         InStep(strobe, mask, x)
  PROVE  /\ InStep(strobe, mask, Sample(x, t))
         /\ UnderWay(strobe, Sample(x, t)) <=> UnderWay(strobe, x) /\ ~Landed(x)
<1> DEFINE L == TickLatency
           y == Sample(x, t)
<1>1. /\ y.mask = x.mask /\ y.toggle = x.toggle /\ y.seen = t
      /\ y.pulse[1] = (t # x.seen)
      /\ \A i \in 2..L : y.pulse[i] = x.pulse[i-1]
  BY SampleFields
<1>2. L \in Nat /\ 1 \in 1..L /\ L \in 1..L
  BY LatencyAssumption
<1>3. \A i \in 1..L : i = 1 \/ (i \in 2..L /\ i - 1 \in 1..L)
  BY <1>2
<1>4. \A i \in 1..L : i = L \/ (i + 1 \in 2..L /\ i + 1 \in 1..L /\ (i + 1) - 1 = i)
  BY <1>2
<1>5. /\ x.toggle \in BOOLEAN /\ x.seen \in BOOLEAN
      /\ \A i \in 1..L : x.pulse[i] \in BOOLEAN
  BY DEF CrossType
<1> HIDE DEF y, L
<1> QED BY <1>1, <1>2, <1>3, <1>4, <1>5 DEF InStep, UnderWay, AtRest, Landed, L, y

(* What is read of a word that does not change is the word.                *)
LEMMA TornStill ==
  ASSUME NEW s, NEW r \in Torn(s, s) PROVE r = s
  BY DEF Torn

(* What is read of a word that changes is made of bits of both.            *)
LEMMA TornType ==
  ASSUME NEW T, NEW a \in SUBSET T, NEW b \in SUBSET T, NEW r \in Torn(a, b)
  PROVE  r \in SUBSET T
  BY DEF Torn
----------------------------------------------------------------------------
(* The panel's parameters.                                                 *)
LEMMA PanelFacts ==
  ASSUME panel \in Panels
  PROVE  panel.counter_mod \in Nat \ {0} /\ panel.direct \in BOOLEAN
  BY PanelsAssumption

(* Ticks of one word are ticks of the panel.                               *)
LEMMA OneWordType ==
  ASSUME NEW s, OneWord(s) PROVE s \in SUBSET Outputs
  BY DEF OneWord, Outputs, Words

(* A write, register by register.                                          *)
LEMMA WrittenFields ==
  ASSUME Registers, NEW w, w = NoWrite \/ Legal(w)
  PROVE  /\ Written(w) \in [mask : SUBSET Outputs, strobe : BOOLEAN, clear : SUBSET Inputs,
                            clear_strobe : BOOLEAN, base : Counters, control : SUBSET panel.control]
         /\ Written(w).strobe = (w.reg = "TICK_OUT")
         /\ Written(w).clear_strobe = (w.reg = "STICKY_CLEAR")
         /\ Written(w).mask = IF w.reg = "TICK_OUT" THEN w.value ELSE shell.mask
         /\ Written(w).clear = IF w.reg = "STICKY_CLEAR" THEN w.value ELSE shell.clear
         /\ Written(w).base = IF w.reg = "COUNTER_CLEAR"
                              THEN [t \in Inputs |-> IF t \in w.value THEN Crossed[t] ELSE shell.base[t]]
                              ELSE shell.base
<1>1. Crossed \in Counters /\ shell.base \in Counters
  BY DEF Registers, Crossed
<1>2. CASE w = NoWrite
  BY <1>2 DEF Registers, Written, NoWrite, Strobes
<1>3. CASE w.reg = "TICK_OUT" /\ OneWord(w.value)
  BY <1>3, OneWordType DEF Registers, Written, Strobes, MaskOf
<1>4. CASE w.reg = "STICKY_CLEAR" /\ w.value \subseteq Inputs
  BY <1>4 DEF Registers, Written, Strobes, MaskOf
<1>5. CASE w.reg = "COUNTER_CLEAR" /\ w.value \subseteq Inputs
  <2>1. [t \in Inputs |-> IF t \in w.value THEN Crossed[t] ELSE shell.base[t]] \in Counters
    BY <1>1 DEF Counters
  <2> QED BY <1>5, <2>1 DEF Registers, Written, Strobes, Rebase
<1>6. CASE w.reg = "CONTROL" /\ w.value \subseteq panel.control
  BY <1>6 DEF Registers, Written, Strobes
<1> QED BY <1>2, <1>3, <1>4, <1>5, <1>6 DEF Legal

(* The panel is what it is: its ticks and counters do not change.          *)
LEMMA Rigid ==
  ASSUME UNCHANGED panel
  PROVE  /\ Inputs' = Inputs /\ Outputs' = Outputs /\ Counters' = Counters
         /\ \A w : Legal(w)' <=> Legal(w)
         /\ \A s : OneWord(s)' <=> OneWord(s)
<1>1. Inputs' = Inputs /\ Outputs' = Outputs
  BY DEF Inputs, Outputs, Words
<1>2. Counters' = Counters
  BY <1>1 DEF Counters
<1>3. \A s : OneWord(s)' <=> OneWord(s)
  BY DEF OneWord, Words
<1> QED BY <1>1, <1>2, <1>3 DEF Legal
----------------------------------------------------------------------------
(* What the edges of the clocks do, whichever comes.                       *)

(* A write on the bus is one of the call's.                                *)
LEMMA WriteFacts ==
  ASSUME IInv, NEW w \in Writes, MayWrite(w)
  PROVE  /\ w = NoWrite \/ Legal(w)
         /\ Spaced /\ ~panel.direct /\ w # NoWrite =>
              /\ ~UnderWay(shell.strobe, out_x)
              /\ ~UnderWay(shell.clear_strobe, clr_x)
         /\ w = NoWrite => w.reg = "none"
  BY DEF IInv, Registers, Writes, MayWrite, UnderWay, NoWrite

(* Every counter, rebased or not, shows the events since its base.         *)
LEMMA CountStep ==
  ASSUME IInv, NEW w, NEW events \in SUBSET Inputs, IsDue(w, events), UNCHANGED panel,
         w.reg = "COUNTER_CLEAR" => w.value \subseteq Inputs,
         \A t \in Inputs :
           shell'.base[t] = IF w.reg = "COUNTER_CLEAR" /\ t \in w.value
                            THEN Crossed[t] ELSE shell.base[t],
         \A t \in Inputs :
           core'.counter[t] = IF t \in events THEN Count(core.counter[t]) ELSE core.counter[t]
  PROVE  CountsSinceBase' /\ due' \in Counters
<1> DEFINE M == panel.counter_mod
           base(t) == IF w.reg = "COUNTER_CLEAR" /\ t \in w.value THEN Crossed[t] ELSE shell.base[t]
           e(t) == IF t \in events THEN 1 ELSE 0
<1>1. M \in Nat \ {0}
  BY PanelFacts DEF IInv, Registers
<1>2. /\ Crossed \in Counters /\ shell.base \in Counters
      /\ core.counter \in Counters /\ due \in Counters
  BY DEF IInv, Registers, Crossed
<1>3. \A t \in Inputs : /\ core.counter[t] \in 0..M-1 /\ base(t) \in 0..M-1
                        /\ due[t] = (core.counter[t] - shell.base[t]) % M
  BY <1>2 DEF Counters, IInv, CountsSinceBase
<1>4. due' = [t \in Inputs |->
                (((core.counter[t] - base(t)) % M) + e(t)) % M]
  BY <1>3 DEF IsDue
<1>5. ASSUME NEW t \in Inputs
      PROVE  /\ due'[t] = (core'.counter[t] - shell'.base[t]) % M
             /\ due'[t] \in 0..M-1
  <2> DEFINE c == core.counter[t]
             b == base(t)
  <2>1. c \in 0..M-1 /\ b \in 0..M-1 /\ shell'.base[t] = b
    BY <1>3
  <2>2. due'[t] = (((c - b) % M) + e(t)) % M
    BY <1>4
  <2>3. core'.counter[t] = IF t \in events THEN (c + 1) % M ELSE c
    BY DEF Count
  <2>e. e(t) \in Int
    OBVIOUS
  <2>i. c - b \in Int /\ c + 1 \in Int /\ -b \in Int
    BY <1>1, <2>1
  <2>s. (c - b) + e(t) \in Int
    BY <2>e, <2>i
  <2> HIDE DEF c, b, e, M
  <2>4. due'[t] = ((c - b) + e(t)) % M
    BY <1>1, <2>e, <2>i, <2>2, ReducedTerm
  <2>5. CASE t \in events
    <3>1. ((c + 1) % M) + (-b) = core'.counter[t] - b
      BY <1>1, <2>1, <2>3, <2>5
    <3>2. (((c + 1) % M) + (-b)) % M = ((c + 1) + (-b)) % M
      BY <1>1, <2>i, ReducedTerm
    <3>3. (c + 1) + (-b) = (c - b) + e(t)
      BY <2>1, <2>5 DEF e
    <3>4. ((c - b) + e(t)) % M \in 0..M-1
      BY <1>1, <2>s, Euclid
    <3> QED BY <2>1, <2>4, <3>1, <3>2, <3>3, <3>4
  <2>6. CASE t \notin events
    <3>1. (c - b) + e(t) = core'.counter[t] - b
      BY <1>1, <2>1, <2>3, <2>6 DEF e
    <3>2. ((c - b) + e(t)) % M \in 0..M-1
      BY <1>1, <2>s, Euclid
    <3> QED BY <2>1, <2>4, <3>1, <3>2
  <2> QED BY <2>5, <2>6
<1> QED BY <1>4, <1>5, Rigid DEF CountsSinceBase, Counters

(* The panel's edge: ticks fire as they are owed, a clear takes the bits   *)
(* it names.                                                               *)
LEMMA CoreStep ==
  ASSUME IInv, Spaced, UNCHANGED panel,
         NEW strobe \in BOOLEAN, NEW mask, NEW clear_strobe \in BOOLEAN, NEW clear,
         NEW events \in SUBSET Inputs,
         CoreEdge(strobe, mask, clear_strobe, clear, events),
         strobe => UnderWay(shell.strobe, out_x) /\ mask = shell.mask,
         clear_strobe => UnderWay(shell.clear_strobe, clr_x) /\ clear = shell.clear
  PROVE  FiresAsWritten' /\ StickyUntilNamed' /\ WordsNeverTogether'
<1>1. strobe => owed = <<mask>>
  BY DEF IInv, OutputsInStep
<1>2. clear_strobe => named = clear
  BY DEF IInv, ClearsInStep
<1>3. FiresAsWritten'
  BY <1>1 DEF CoreEdge, FiresAsWritten, TicksFor
<1>4. StickyUntilNamed'
  BY <1>2 DEF CoreEdge, StickyUntilNamed, SetWins, IInv
<1>5. OneWord(core'.tick_out)
  BY DEF CoreEdge, TicksFor, IInv, OneWord
<1> QED BY <1>3, <1>4, <1>5, Rigid DEF WordsNeverTogether

(* The core's registers stay in their types.                               *)
LEMMA CoreType ==
  ASSUME IInv, NEW strobe, NEW mask, NEW clear_strobe, NEW clear,
         NEW events \in SUBSET Inputs,
         CoreEdge(strobe, mask, clear_strobe, clear, events),
         strobe => mask \in SUBSET Outputs
  PROVE  /\ core' \in [tick_out : SUBSET Outputs, sticky : SUBSET Inputs, counter : Counters]
         /\ \A t \in Inputs :
              core'.counter[t] = IF t \in events THEN Count(core.counter[t]) ELSE core.counter[t]
<1>1. /\ core.counter \in Counters /\ core.sticky \in SUBSET Inputs
  BY DEF IInv, Registers
<1>2. \A n \in Nat : Count(n) \in 0..panel.counter_mod-1
  BY PanelFacts DEF Count, IInv, Registers
<1>3. core'.counter \in Counters
  BY <1>1, <1>2 DEF CoreEdge, Counters
<1>4. core'.tick_out \in SUBSET Outputs
  BY DEF CoreEdge, TicksFor
<1>5. core'.sticky \in SUBSET Inputs
  BY <1>1 DEF CoreEdge, SetWins
<1> QED BY <1>3, <1>4, <1>5 DEF CoreEdge

(* The history of strobes is a sequence of masks.                          *)
LEMMA OwedType ==
  ASSUME IInv, NEW w, w = NoWrite \/ Legal(w), NEW landed, Owes(w, landed)
  PROVE  owed' \in Seq(SUBSET Outputs)
<1>1. w.reg = "TICK_OUT" => w.value \in SUBSET Outputs
  BY OneWordType DEF Legal, NoWrite
<1>2. owed \in Seq(SUBSET Outputs)
  BY DEF IInv, Registers
<1> QED BY <1>1, <1>2 DEF Owes

----------------------------------------------------------------------------
(* The inductive invariant, action by action.                              *)
LEMMA InitIInv == Init => IInv
<1> SUFFICES ASSUME Init PROVE IInv
  OBVIOUS
<1>1. panel.counter_mod \in Nat \ {0} /\ TickLatency \in Nat \ {0}
  BY PanelFacts, LatencyAssumption DEF Init
<1>2. Zero \in Counters
  BY <1>1 DEF Zero, Counters
<1>3. Registers
  <2>1. CrossInit \in CrossType(Outputs) /\ CrossInit \in CrossType(Inputs)
    BY DEF CrossInit, CrossType
  <2>2. /\ up.counter \in [1..2 -> Counters]
        /\ core \in [tick_out : SUBSET Outputs, sticky : SUBSET Inputs, counter : Counters]
    BY <1>2 DEF Init
  <2>3. owed \in Seq(SUBSET Outputs) /\ due \in Counters
    BY <1>2 DEF Init
  <2>4. shell \in [mask : SUBSET Outputs, strobe : BOOLEAN, clear : SUBSET Inputs,
                  clear_strobe : BOOLEAN, base : Counters, control : SUBSET panel.control]
    BY <1>2 DEF Init
  <2> QED BY <2>1, <2>2, <2>3, <2>4 DEF Init, Registers
<1>4. AtRest(out_x) /\ AtRest(clr_x) /\ ~shell.strobe /\ ~shell.clear_strobe
  BY DEF Init, CrossInit, AtRest
<1>5. /\ out_x.toggle = out_x.seen /\ clr_x.toggle = clr_x.seen
      /\ \A i \in 1..TickLatency : ~out_x.pulse[i] /\ ~clr_x.pulse[i]
  BY <1>4 DEF AtRest
<1>6. OutputsInStep /\ ClearsInStep
  BY <1>4, <1>5 DEF OutputsInStep, ClearsInStep, InStep, UnderWay, Init
<1>7. CountsSinceBase
  <2>1. \A t \in Inputs : due[t] = 0 /\ core.counter[t] = 0 /\ shell.base[t] = 0
    BY DEF Init, Zero
  <2> QED BY <1>1, <2>1 DEF CountsSinceBase
<1>8. OneWord(shell.mask) /\ WordsNeverTogether
  BY DEF Init, OneWord, WordsNeverTogether
<1>9. FiresAsWritten /\ StickyUntilNamed
  BY DEF Init, FiresAsWritten, StickyUntilNamed
<1> QED BY <1>3, <1>4, <1>6, <1>7, <1>8, <1>9 DEF IInv, WiredAtRest

(* The host's clock: a write starts, or the one before is launched.        *)
LEMMA HostClockStep ==
  ASSUME IInv, HostClock, UNCHANGED panel
  PROVE  IInv'
<1> PICK w \in Writes : HostEdge(w) /\ Owes(w, FALSE) /\ Names(w, FALSE) /\ IsDue(w, {})
  BY DEF HostClock, Asked
<1>1. /\ w = NoWrite \/ Legal(w)
      /\ Spaced /\ w # NoWrite => /\ ~UnderWay(shell.strobe, out_x)
                                  /\ ~UnderWay(shell.clear_strobe, clr_x)
      /\ w = NoWrite => w.reg = "none"
  BY WriteFacts DEF HostEdge, HostClock
<1>2. shell' = Written(w)
  BY DEF HostEdge
<1>3. /\ shell' \in [mask : SUBSET Outputs, strobe : BOOLEAN, clear : SUBSET Inputs,
                     clear_strobe : BOOLEAN, base : Counters, control : SUBSET panel.control]
      /\ shell'.strobe = (w.reg = "TICK_OUT")
      /\ shell'.clear_strobe = (w.reg = "STICKY_CLEAR")
      /\ shell'.mask = IF w.reg = "TICK_OUT" THEN w.value ELSE shell.mask
      /\ shell'.clear = IF w.reg = "STICKY_CLEAR" THEN w.value ELSE shell.clear
      /\ shell'.base = IF w.reg = "COUNTER_CLEAR"
                       THEN [t \in Inputs |-> IF t \in w.value THEN Crossed[t] ELSE shell.base[t]]
                       ELSE shell.base
  BY <1>1, <1>2, WrittenFields DEF IInv
<1>4. /\ Registers /\ out_x \in CrossType(Outputs) /\ clr_x \in CrossType(Inputs)
      /\ shell.strobe \in BOOLEAN /\ shell.mask \in SUBSET Outputs
      /\ shell.clear_strobe \in BOOLEAN /\ shell.clear \in SUBSET Inputs
      /\ shell'.strobe \in BOOLEAN /\ shell'.mask \in SUBSET Outputs
      /\ shell'.clear_strobe \in BOOLEAN /\ shell'.clear \in SUBSET Inputs
  BY <1>3 DEF IInv, Registers
<1>5. /\ out_x' = Launch(out_x, shell.mask, shell.strobe)
      /\ clr_x' = Launch(clr_x, shell.clear, shell.clear_strobe)
      /\ core' = core /\ fired' = fired /\ pending' = pending /\ ~panel.direct
  BY DEF HostClock
<1>6. out_x' \in CrossType(Outputs) /\ clr_x' \in CrossType(Inputs)
  BY <1>4, <1>5 DEF CrossType, Launch, Registers
<1>7. CountsSinceBase' /\ due' \in Counters
  <2>1. \A t \in Inputs :
           shell'.base[t] = IF w.reg = "COUNTER_CLEAR" /\ t \in w.value
                            THEN Crossed[t] ELSE shell.base[t]
    BY <1>3
  <2>2. w.reg = "COUNTER_CLEAR" => w.value \subseteq Inputs
    BY <1>1 DEF Legal
  <2> QED BY <1>5, <2>1, <2>2, CountStep, Z3
<1>8. Registers'
  <2>1. up'.counter \in [1..2 -> Counters]
    BY DEF IInv, Registers, HostClock, CrossUp
  <2>2. \A v \in todo' : Legal(v)
    BY DEF IInv, Registers, HostEdge
  <2>3. owed' \in Seq(SUBSET Outputs)
    BY <1>1, OwedType
  <2>4. accessing' \in BOOLEAN
    BY DEF HostEdge
  <2> QED BY <1>3, <1>4, <1>5, <1>6, <1>7, <2>1, <2>2, <2>3, <2>4, Rigid DEF Registers, CrossType
<1>9. OneWord(shell'.mask)
  BY <1>1, <1>3 DEF IInv, Legal
<1>10. ASSUME Spaced
       PROVE  OutputsInStep' /\ ClearsInStep'
  <2> DEFINE way == UnderWay(shell.strobe, out_x)
             clearing == UnderWay(shell.clear_strobe, clr_x)
  <2>1. /\ shell'.strobe => ~way
        /\ shell'.strobe \/ shell'.mask = shell.mask
        /\ shell'.clear_strobe => ~clearing
        /\ shell'.clear_strobe \/ shell'.clear = shell.clear
        /\ InStep(shell.strobe, shell.mask, out_x)
        /\ InStep(shell.clear_strobe, shell.clear, clr_x)
    BY <1>1, <1>3, <1>5, <1>10 DEF IInv, OutputsInStep, ClearsInStep, NoWrite
  <2>2. /\ InStep(shell'.strobe, shell'.mask, out_x')
        /\ UnderWay(shell'.strobe, out_x') <=> way \/ shell'.strobe
    BY <1>4, <1>5, <2>1 DEF CrossType, InStep, UnderWay, AtRest, Launch
  <2>3. /\ InStep(shell'.clear_strobe, shell'.clear, clr_x')
        /\ UnderWay(shell'.clear_strobe, clr_x') <=> clearing \/ shell'.clear_strobe
    BY <1>4, <1>5, <2>1 DEF CrossType, InStep, UnderWay, AtRest, Launch
  <2>4. owed' = IF UnderWay(shell'.strobe, out_x') THEN <<shell'.mask>> ELSE <<>>
    <3>1. owed = IF way THEN <<shell.mask>> ELSE <<>>
      BY <1>10 DEF IInv, OutputsInStep
    <3>2. owed' = IF w.reg = "TICK_OUT" THEN Append(owed, w.value) ELSE owed
      BY DEF Owes
    <3>3. Append(<<>>, w.value) = <<w.value>>
      OBVIOUS
    <3> HIDE DEF way
    <3> QED BY <1>3, <2>1, <2>2, <3>1, <3>2, <3>3
  <2>5. named' = IF UnderWay(shell'.clear_strobe, clr_x') THEN shell'.clear ELSE {}
    <3>1. named = IF clearing THEN shell.clear ELSE {}
      BY <1>10 DEF IInv, ClearsInStep
    <3>2. named' = IF w.reg = "STICKY_CLEAR" THEN named \union w.value ELSE named
      BY DEF Names
    <3> HIDE DEF clearing
    <3> QED BY <1>3, <2>1, <2>3, <3>1, <3>2
  <2> QED BY <2>2, <2>3, <2>4, <2>5 DEF OutputsInStep, ClearsInStep
<1>11. ASSUME Spaced
       PROVE  FiresAsWritten' /\ StickyUntilNamed' /\ WordsNeverTogether'
  BY <1>5, <1>11, Rigid DEF IInv, FiresAsWritten, StickyUntilNamed, WordsNeverTogether
<1> QED BY <1>5, <1>7, <1>8, <1>9, <1>10, <1>11, Rigid DEF IInv, WiredAtRest

(* The panel's clock: what is under way goes one stage on, and lands.      *)
LEMMA CoreClockStep ==
  ASSUME IInv, CoreClock, UNCHANGED panel
  PROVE  IInv'
<1> PICK events \in SUBSET Inputs :
      /\ CoreEdge(Landed(out_x), out_x.mask, Landed(clr_x), clr_x.mask, events)
      /\ Asked(NoWrite, Landed(out_x), Landed(clr_x), events)
  BY DEF CoreClock
<1>1. /\ Registers /\ out_x \in CrossType(Outputs) /\ clr_x \in CrossType(Inputs)
      /\ shell.strobe \in BOOLEAN /\ shell.mask \in SUBSET Outputs
      /\ shell.clear_strobe \in BOOLEAN /\ shell.clear \in SUBSET Inputs
      /\ out_x.mask \in SUBSET Outputs /\ Landed(out_x) \in BOOLEAN /\ Landed(clr_x) \in BOOLEAN
      /\ out_x.toggle \in BOOLEAN /\ clr_x.toggle \in BOOLEAN
  BY LatencyAssumption DEF IInv, Registers, CrossType, Landed
<1>2. /\ out_x' = Sample(out_x, out_x.toggle) /\ clr_x' = Sample(clr_x, clr_x.toggle)
      /\ shell' = shell /\ accessing' = accessing /\ up' = up /\ todo' = todo
      /\ ~panel.direct
  BY DEF CoreClock
<1>3. out_x' \in CrossType(Outputs) /\ clr_x' \in CrossType(Inputs)
  BY <1>1, <1>2, SampleFields
<1>4. /\ core' \in [tick_out : SUBSET Outputs, sticky : SUBSET Inputs, counter : Counters]
      /\ \A t \in Inputs :
           core'.counter[t] = IF t \in events THEN Count(core.counter[t]) ELSE core.counter[t]
  BY <1>1, CoreType
<1>5. CountsSinceBase' /\ due' \in Counters
  <2>1. IsDue(NoWrite, events) /\ NoWrite.reg # "COUNTER_CLEAR"
    BY DEF Asked, NoWrite
  <2> QED BY <1>2, <1>4, <2>1, CountStep, Z3
<1>6. Registers'
  <2>1. owed' \in Seq(SUBSET Outputs)
    BY OwedType DEF Asked
  <2> QED BY <1>1, <1>2, <1>3, <1>4, <1>5, <2>1, Rigid DEF Registers, CrossType
<1>7. ASSUME Spaced
      PROVE  OutputsInStep' /\ ClearsInStep'
  <2> DEFINE way == UnderWay(shell.strobe, out_x)
             clearing == UnderWay(shell.clear_strobe, clr_x)
  <2>1. /\ InStep(shell.strobe, shell.mask, out_x)
        /\ InStep(shell.clear_strobe, shell.clear, clr_x)
        /\ owed = IF way THEN <<shell.mask>> ELSE <<>>
        /\ named = IF clearing THEN shell.clear ELSE {}
    BY <1>7 DEF IInv, OutputsInStep, ClearsInStep
  <2>2. /\ InStep(shell'.strobe, shell'.mask, out_x')
        /\ UnderWay(shell'.strobe, out_x') <=> way /\ ~Landed(out_x)
    BY <1>1, <1>2, <2>1, SampleInStep, Z3
  <2>3. /\ InStep(shell'.clear_strobe, shell'.clear, clr_x')
        /\ UnderWay(shell'.clear_strobe, clr_x') <=> clearing /\ ~Landed(clr_x)
    BY <1>1, <1>2, <2>1, SampleInStep, Z3
  <2>4. /\ owed' = IF Landed(out_x) /\ owed # <<>> THEN Tail(owed) ELSE owed
        /\ named' = IF Landed(clr_x) THEN {} ELSE named
    BY DEF Asked, Owes, Names, NoWrite
  <2> HIDE DEF way, clearing
  <2>5. owed' = IF UnderWay(shell'.strobe, out_x') THEN <<shell'.mask>> ELSE <<>>
    BY <1>2, <2>1, <2>2, <2>4
  <2>6. named' = IF UnderWay(shell'.clear_strobe, clr_x') THEN shell'.clear ELSE {}
    BY <1>2, <2>1, <2>3, <2>4
  <2> QED BY <2>2, <2>3, <2>5, <2>6 DEF OutputsInStep, ClearsInStep
<1>8. ASSUME Spaced
      PROVE  FiresAsWritten' /\ StickyUntilNamed' /\ WordsNeverTogether'
  <2>1. /\ Landed(out_x) => ~AtRest(out_x)
        /\ Landed(clr_x) => ~AtRest(clr_x)
    BY LatencyAssumption DEF Landed, AtRest
  <2>2. /\ Landed(out_x) => UnderWay(shell.strobe, out_x) /\ out_x.mask = shell.mask
        /\ Landed(clr_x) => UnderWay(shell.clear_strobe, clr_x) /\ clr_x.mask = shell.clear
    BY <1>8, <2>1 DEF IInv, OutputsInStep, ClearsInStep, InStep, UnderWay
  <2> QED BY <1>1, <1>8, <2>2, CoreStep, Z3
<1>9. OneWord(shell'.mask)
  BY <1>2 DEF IInv
<1> QED BY <1>2, <1>5, <1>6, <1>7, <1>8, <1>9, Rigid DEF IInv, WiredAtRest

(* Both clocks: a strobe is launched, and its toggle read before or after  *)
(* it changed; no mask changes while a strobe that needs it lands.         *)
LEMMA BothClocksStep ==
  ASSUME IInv, BothClocks, UNCHANGED panel
  PROVE  IInv'
<1> DEFINE out == Launch(out_x, shell.mask, shell.strobe)
           clr == Launch(clr_x, shell.clear, shell.clear_strobe)
<1> PICK w \in Writes, events \in SUBSET Inputs,
         mask \in Torn(out_x.mask, out.mask), clear \in Torn(clr_x.mask, clr.mask),
         t \in {out_x.toggle, out.toggle}, u \in {clr_x.toggle, clr.toggle} :
      /\ HostEdge(w)
      /\ CoreEdge(Landed(out_x), mask, Landed(clr_x), clear, events)
      /\ Asked(w, Landed(out_x), Landed(clr_x), events)
      /\ out_x' = Sample(out, t) /\ clr_x' = Sample(clr, u)
  BY DEF BothClocks
<1>1. /\ w = NoWrite \/ Legal(w)
      /\ Spaced /\ w # NoWrite => /\ ~UnderWay(shell.strobe, out_x)
                                  /\ ~UnderWay(shell.clear_strobe, clr_x)
      /\ w = NoWrite => w.reg = "none"
  BY WriteFacts DEF HostEdge, BothClocks
<1>2. /\ shell' = Written(w) /\ ~panel.direct
  BY DEF HostEdge, BothClocks
<1>3. /\ shell' \in [mask : SUBSET Outputs, strobe : BOOLEAN, clear : SUBSET Inputs,
                     clear_strobe : BOOLEAN, base : Counters, control : SUBSET panel.control]
      /\ shell'.strobe = (w.reg = "TICK_OUT")
      /\ shell'.clear_strobe = (w.reg = "STICKY_CLEAR")
      /\ shell'.mask = IF w.reg = "TICK_OUT" THEN w.value ELSE shell.mask
      /\ shell'.clear = IF w.reg = "STICKY_CLEAR" THEN w.value ELSE shell.clear
      /\ shell'.base = IF w.reg = "COUNTER_CLEAR"
                       THEN [i \in Inputs |-> IF i \in w.value THEN Crossed[i] ELSE shell.base[i]]
                       ELSE shell.base
  BY <1>1, <1>2, WrittenFields DEF IInv
<1>4. /\ Registers /\ out_x \in CrossType(Outputs) /\ clr_x \in CrossType(Inputs)
      /\ shell.strobe \in BOOLEAN /\ shell.mask \in SUBSET Outputs
      /\ shell.clear_strobe \in BOOLEAN /\ shell.clear \in SUBSET Inputs
      /\ shell'.strobe \in BOOLEAN /\ shell'.mask \in SUBSET Outputs
      /\ shell'.clear_strobe \in BOOLEAN /\ shell'.clear \in SUBSET Inputs
      /\ out_x.mask \in SUBSET Outputs
      /\ out_x.toggle \in BOOLEAN /\ clr_x.toggle \in BOOLEAN
      /\ Landed(out_x) \in BOOLEAN /\ Landed(clr_x) \in BOOLEAN
  BY <1>3, LatencyAssumption DEF IInv, Registers, CrossType, Landed
<1>5. /\ out \in CrossType(Outputs) /\ clr \in CrossType(Inputs)
      /\ out.mask = shell.mask /\ clr.mask = shell.clear
      /\ out.toggle \in BOOLEAN /\ clr.toggle \in BOOLEAN
  BY <1>4 DEF CrossType, Launch
<1>6. out_x' \in CrossType(Outputs) /\ clr_x' \in CrossType(Inputs)
  <2>1. t \in BOOLEAN /\ u \in BOOLEAN
    BY <1>4, <1>5
  <2> QED BY <1>5, <2>1, SampleFields
<1>7. mask \in SUBSET Outputs
  BY <1>4, <1>5, TornType
<1>8. /\ core' \in [tick_out : SUBSET Outputs, sticky : SUBSET Inputs, counter : Counters]
      /\ \A i \in Inputs :
           core'.counter[i] = IF i \in events THEN Count(core.counter[i]) ELSE core.counter[i]
  BY <1>4, <1>7, CoreType
<1>9. CountsSinceBase' /\ due' \in Counters
  <2>1. \A i \in Inputs :
           shell'.base[i] = IF w.reg = "COUNTER_CLEAR" /\ i \in w.value
                            THEN Crossed[i] ELSE shell.base[i]
    BY <1>3
  <2>2. w.reg = "COUNTER_CLEAR" => w.value \subseteq Inputs
    BY <1>1 DEF Legal
  <2>3. IsDue(w, events)
    BY DEF Asked
  <2> QED BY <1>8, <2>1, <2>2, <2>3, CountStep, Z3
<1>10. Registers'
  <2>1. up'.counter \in [1..2 -> Counters]
    BY DEF IInv, Registers, BothClocks, CrossUp
  <2>2. \A v \in todo' : Legal(v)
    BY DEF IInv, Registers, HostEdge
  <2>3. owed' \in Seq(SUBSET Outputs)
    BY <1>1, OwedType DEF Asked
  <2>4. accessing' \in BOOLEAN
    BY DEF HostEdge
  <2> QED BY <1>3, <1>4, <1>6, <1>8, <1>9, <2>1, <2>2, <2>3, <2>4, Rigid DEF Registers, CrossType
<1>11. OneWord(shell'.mask)
  BY <1>1, <1>3 DEF IInv, Legal
<1>12. ASSUME Spaced
       PROVE  /\ InStep(shell.strobe, shell.mask, out_x)
              /\ InStep(shell.clear_strobe, shell.clear, clr_x)
              /\ owed = IF UnderWay(shell.strobe, out_x) THEN <<shell.mask>> ELSE <<>>
              /\ named = IF UnderWay(shell.clear_strobe, clr_x) THEN shell.clear ELSE {}
  BY <1>12 DEF IInv, OutputsInStep, ClearsInStep
<1>15. /\ t \in BOOLEAN /\ (t = out_x.toggle \/ t = out.toggle) /\ out_x' = Sample(out, t)
       /\ u \in BOOLEAN /\ (u = clr_x.toggle \/ u = clr.toggle) /\ clr_x' = Sample(clr, u)
       /\ out = Launch(out_x, shell.mask, shell.strobe)
       /\ clr = Launch(clr_x, shell.clear, shell.clear_strobe)
  BY <1>4, <1>5
<1> HIDE DEF out, clr
<1>13. ASSUME Spaced
       PROVE  OutputsInStep' /\ ClearsInStep'
  <2> DEFINE way == UnderWay(shell.strobe, out_x)
             clearing == UnderWay(shell.clear_strobe, clr_x)
  <2>1. /\ shell'.strobe => ~way
        /\ shell'.strobe \/ shell'.mask = shell.mask
        /\ shell'.clear_strobe => ~clearing
        /\ shell'.clear_strobe \/ shell'.clear = shell.clear
    BY <1>1, <1>3, <1>13 DEF NoWrite
  <2>2. /\ InStep(shell'.strobe, shell'.mask, out_x')
        /\ UnderWay(shell'.strobe, out_x') <=> (way /\ ~Landed(out_x)) \/ shell'.strobe
    <3>1. /\ InStep(shell'.strobe, shell'.mask, out)
          /\ UnderWay(shell'.strobe, out) <=> way \/ shell'.strobe
          /\ out.seen = out_x.seen /\ Landed(out) = Landed(out_x)
          /\ t = out.toggle \/ t = out.seen
          /\ shell'.strobe => ~Landed(out)
      BY <1>4, <1>12, <1>13, <1>15, <2>1, LatencyAssumption
      DEF CrossType, InStep, UnderWay, AtRest, Launch, Landed
    <3>2. /\ InStep(shell'.strobe, shell'.mask, out_x')
          /\ UnderWay(shell'.strobe, out_x') <=> UnderWay(shell'.strobe, out) /\ ~Landed(out)
      <4>1. /\ out \in CrossType(Outputs) /\ shell'.mask \in SUBSET Outputs
            /\ shell'.strobe \in BOOLEAN /\ t \in BOOLEAN
            /\ out_x' = Sample(out, t)
        BY <1>4, <1>5, <1>15
      <4> QED BY <3>1, <4>1, SampleInStep
    <3> HIDE DEF way
    <3> QED BY <3>1, <3>2
  <2>3. /\ InStep(shell'.clear_strobe, shell'.clear, clr_x')
        /\ UnderWay(shell'.clear_strobe, clr_x') <=> (clearing /\ ~Landed(clr_x)) \/ shell'.clear_strobe
    <3>1. /\ InStep(shell'.clear_strobe, shell'.clear, clr)
          /\ UnderWay(shell'.clear_strobe, clr) <=> clearing \/ shell'.clear_strobe
          /\ clr.seen = clr_x.seen /\ Landed(clr) = Landed(clr_x)
          /\ u = clr.toggle \/ u = clr.seen
          /\ shell'.clear_strobe => ~Landed(clr)
      BY <1>4, <1>12, <1>13, <1>15, <2>1, LatencyAssumption
      DEF CrossType, InStep, UnderWay, AtRest, Launch, Landed
    <3>2. /\ InStep(shell'.clear_strobe, shell'.clear, clr_x')
          /\ UnderWay(shell'.clear_strobe, clr_x') <=> UnderWay(shell'.clear_strobe, clr) /\ ~Landed(clr)
      <4>1. /\ clr \in CrossType(Inputs) /\ shell'.clear \in SUBSET Inputs
            /\ shell'.clear_strobe \in BOOLEAN /\ u \in BOOLEAN
            /\ clr_x' = Sample(clr, u)
        BY <1>4, <1>5, <1>15
      <4> QED BY <3>1, <4>1, SampleInStep
    <3> HIDE DEF clearing
    <3> QED BY <3>1, <3>2
  <2>4. LET left == IF Landed(out_x) /\ owed # <<>> THEN Tail(owed) ELSE owed
        IN owed' = IF w.reg = "TICK_OUT" THEN Append(left, w.value) ELSE left
    BY DEF Asked, Owes
  <2>5. LET open == IF Landed(clr_x) THEN {} ELSE named
        IN named' = IF w.reg = "STICKY_CLEAR" THEN open \union w.value ELSE open
    BY DEF Asked, Names
  <2> HIDE DEF way, clearing
  <2>6. owed' = IF UnderWay(shell'.strobe, out_x') THEN <<shell'.mask>> ELSE <<>>
    <3>1. owed = IF way THEN <<shell.mask>> ELSE <<>>
      BY <1>12, <1>13 DEF way
    <3>2. Append(<<>>, w.value) = <<w.value>> /\ Tail(<<shell.mask>>) = <<>>
      OBVIOUS
    <3> QED BY <1>3, <2>1, <2>2, <2>4, <3>1, <3>2
  <2>7. named' = IF UnderWay(shell'.clear_strobe, clr_x') THEN shell'.clear ELSE {}
    <3>1. named = IF clearing THEN shell.clear ELSE {}
      BY <1>12, <1>13 DEF clearing
    <3> QED BY <1>3, <2>1, <2>3, <2>5, <3>1
  <2> QED BY <2>2, <2>3, <2>6, <2>7 DEF OutputsInStep, ClearsInStep
<1>14. ASSUME Spaced
       PROVE  FiresAsWritten' /\ StickyUntilNamed' /\ WordsNeverTogether'
  <2>1. /\ Landed(out_x) => ~AtRest(out_x)
        /\ Landed(clr_x) => ~AtRest(clr_x)
    BY LatencyAssumption DEF Landed, AtRest
  <2>2. /\ Landed(out_x) => UnderWay(shell.strobe, out_x) /\ out_x.mask = shell.mask
        /\ Landed(clr_x) => UnderWay(shell.clear_strobe, clr_x) /\ clr_x.mask = shell.clear
    BY <1>12, <1>14, <2>1 DEF InStep, UnderWay
  <2>3. /\ Landed(out_x) => mask = shell.mask
        /\ Landed(clr_x) => clear = shell.clear
    BY <1>5, <2>2, TornStill
  <2> QED BY <1>4, <1>14, <2>2, <2>3, CoreStep, Z3
<1> QED BY <1>2, <1>9, <1>10, <1>11, <1>13, <1>14, Rigid DEF IInv, WiredAtRest

(* One clock for both halves: a strobe lands one clock after its write.    *)
LEMMA OneClockStep ==
  ASSUME IInv, OneClock, UNCHANGED panel
  PROVE  IInv'
<1> PICK w \in Writes, events \in SUBSET Inputs :
      /\ HostEdge(w)
      /\ CoreEdge(shell.strobe, shell.mask, shell.clear_strobe, shell.clear, events)
      /\ Asked(w, shell.strobe, shell.clear_strobe, events)
  BY DEF OneClock
<1>1. /\ w = NoWrite \/ Legal(w)
      /\ w = NoWrite => w.reg = "none"
  BY WriteFacts DEF HostEdge
<1>2. /\ shell' = Written(w) /\ panel.direct
      /\ out_x' = out_x /\ clr_x' = clr_x /\ up' = up
  BY DEF HostEdge, OneClock
<1>3. /\ shell' \in [mask : SUBSET Outputs, strobe : BOOLEAN, clear : SUBSET Inputs,
                     clear_strobe : BOOLEAN, base : Counters, control : SUBSET panel.control]
      /\ shell'.strobe = (w.reg = "TICK_OUT")
      /\ shell'.clear_strobe = (w.reg = "STICKY_CLEAR")
      /\ shell'.mask = IF w.reg = "TICK_OUT" THEN w.value ELSE shell.mask
      /\ shell'.clear = IF w.reg = "STICKY_CLEAR" THEN w.value ELSE shell.clear
      /\ shell'.base = IF w.reg = "COUNTER_CLEAR"
                       THEN [i \in Inputs |-> IF i \in w.value THEN Crossed[i] ELSE shell.base[i]]
                       ELSE shell.base
  BY <1>1, <1>2, WrittenFields DEF IInv
<1>4. /\ Registers /\ out_x \in CrossType(Outputs) /\ clr_x \in CrossType(Inputs)
      /\ shell.strobe \in BOOLEAN /\ shell.mask \in SUBSET Outputs
      /\ shell.clear_strobe \in BOOLEAN
      /\ AtRest(out_x) /\ AtRest(clr_x)
  BY <1>2 DEF IInv, Registers, WiredAtRest
<1>5. /\ core' \in [tick_out : SUBSET Outputs, sticky : SUBSET Inputs, counter : Counters]
      /\ \A i \in Inputs :
           core'.counter[i] = IF i \in events THEN Count(core.counter[i]) ELSE core.counter[i]
  BY <1>4, CoreType
<1>6. CountsSinceBase' /\ due' \in Counters
  <2>1. \A i \in Inputs :
           shell'.base[i] = IF w.reg = "COUNTER_CLEAR" /\ i \in w.value
                            THEN Crossed[i] ELSE shell.base[i]
    BY <1>3
  <2>2. w.reg = "COUNTER_CLEAR" => w.value \subseteq Inputs
    BY <1>1 DEF Legal
  <2>3. IsDue(w, events)
    BY DEF Asked
  <2> QED BY <1>5, <2>1, <2>2, <2>3, CountStep, Z3
<1>7. Registers'
  <2>1. \A v \in todo' : Legal(v)
    BY DEF IInv, Registers, HostEdge
  <2>2. owed' \in Seq(SUBSET Outputs)
    BY <1>1, OwedType DEF Asked
  <2>3. accessing' \in BOOLEAN
    BY DEF HostEdge
  <2> QED BY <1>2, <1>3, <1>4, <1>5, <1>6, <2>1, <2>2, <2>3, Rigid DEF Registers, CrossType
<1>8. OneWord(shell'.mask)
  BY <1>1, <1>3 DEF IInv, Legal
<1>9. ASSUME Spaced
      PROVE  /\ InStep(shell.strobe, shell.mask, out_x)
             /\ InStep(shell.clear_strobe, shell.clear, clr_x)
             /\ owed = IF shell.strobe THEN <<shell.mask>> ELSE <<>>
             /\ named = IF shell.clear_strobe THEN shell.clear ELSE {}
  BY <1>4, <1>9 DEF IInv, OutputsInStep, ClearsInStep, UnderWay
<1>10. ASSUME Spaced
       PROVE  OutputsInStep' /\ ClearsInStep'
  <2>1. /\ InStep(shell'.strobe, shell'.mask, out_x)
        /\ InStep(shell'.clear_strobe, shell'.clear, clr_x)
    BY <1>4, <1>9, <1>10 DEF InStep, AtRest
  <2>2. /\ UnderWay(shell'.strobe, out_x) <=> shell'.strobe
        /\ UnderWay(shell'.clear_strobe, clr_x) <=> shell'.clear_strobe
    BY <1>4 DEF UnderWay
  <2>3. owed' = IF UnderWay(shell'.strobe, out_x) THEN <<shell'.mask>> ELSE <<>>
    <3>1. LET left == IF shell.strobe /\ owed # <<>> THEN Tail(owed) ELSE owed
          IN owed' = IF w.reg = "TICK_OUT" THEN Append(left, w.value) ELSE left
      BY DEF Asked, Owes
    <3>2. Append(<<>>, w.value) = <<w.value>> /\ Tail(<<shell.mask>>) = <<>>
      OBVIOUS
    <3> QED BY <1>3, <1>9, <1>10, <2>2, <3>1, <3>2
  <2>4. named' = IF UnderWay(shell'.clear_strobe, clr_x) THEN shell'.clear ELSE {}
    <3>1. LET open == IF shell.clear_strobe THEN {} ELSE named
          IN named' = IF w.reg = "STICKY_CLEAR" THEN open \union w.value ELSE open
      BY DEF Asked, Names
    <3> QED BY <1>3, <1>9, <1>10, <2>2, <3>1
  <2> QED BY <1>2, <2>1, <2>3, <2>4 DEF OutputsInStep, ClearsInStep
<1>11. ASSUME Spaced
       PROVE  FiresAsWritten' /\ StickyUntilNamed' /\ WordsNeverTogether'
  <2>1. /\ shell.strobe => UnderWay(shell.strobe, out_x)
        /\ shell.clear_strobe => UnderWay(shell.clear_strobe, clr_x)
    BY DEF UnderWay
  <2> QED BY <1>4, <1>11, <2>1, CoreStep, Z3
<1> QED BY <1>2, <1>4, <1>6, <1>7, <1>8, <1>10, <1>11, Rigid DEF IInv, WiredAtRest

(* A call changes nothing but the writes it leaves to be made, each of     *)
(* which names ticks of one word.                                          *)
LEMMA CallStep ==
  ASSUME IInv, Strobe \/ Reset \/ Control \/ Poll \/ Acknowledge, UNCHANGED panel
  PROVE  IInv'
<1>1. ASSUME NEW names, NEW w \in Masks("TICK_OUT", panel.tick_out, names)
      PROVE  Legal(w)
  BY DEF Masks, Legal, OneWord, Words
<1>2. ASSUME NEW names, NEW reg \in {"STICKY_CLEAR", "COUNTER_CLEAR"},
             NEW w \in Masks(reg, panel.tick_in, names)
      PROVE  Legal(w)
  BY DEF Masks, Legal, Inputs, Words
<1>3. \A w \in todo' : Legal(w)
  <2>1. CASE Strobe
    BY <1>1, <2>1 DEF Strobe, Call
  <2>2. CASE Reset
    BY <1>2, <2>2 DEF Reset, Call
  <2>3. CASE Control
    BY <2>3 DEF Control, Call, Legal
  <2>4. CASE Poll
    BY <2>4 DEF Poll, IInv, Registers
  <2>5. CASE Acknowledge
    BY <1>2, <2>5 DEF Acknowledge, Call
  <2> QED BY <2>1, <2>2, <2>3, <2>4, <2>5
<1>4. UNCHANGED <<hardware, history>>
  BY DEF Strobe, Reset, Control, Poll, Acknowledge, Call
<1> QED BY <1>3, <1>4, Rigid
    DEF IInv, hardware, history, Registers, CrossType, WiredAtRest, CountsSinceBase, OutputsInStep,
        ClearsInStep, FiresAsWritten, StickyUntilNamed, WordsNeverTogether

(* Every step keeps the invariant.                                         *)
LEMMA NextIInv == IInv /\ [Next]_vars => IInv'
<1> SUFFICES ASSUME IInv, [Next]_vars PROVE IInv'
  OBVIOUS
<1>1. CASE Next
  BY <1>1, HostClockStep, CoreClockStep, BothClocksStep, OneClockStep, CallStep DEF Next
<1>2. CASE UNCHANGED vars
  BY <1>2, Rigid
  DEF vars, hardware, history, IInv, Registers, CrossType, WiredAtRest, CountsSinceBase, OutputsInStep,
      ClearsInStep, FiresAsWritten, StickyUntilNamed, WordsNeverTogether
<1> QED BY <1>1, <1>2

(* The invariant holds of every run.                                       *)
THEOREM PanelInStep == Spec => []IInv
<1>1. Init => IInv
  BY InitIInv
<1>2. IInv /\ [Next]_vars => IInv'
  BY NextIInv
<1> QED BY <1>1, <1>2, PTL DEF Spec

(* For every panel, any latency and however fast the host writes: what a   *)
(* counter shows and what is still on its way to the host are the events   *)
(* since the rebase, so the driver's reset loses none of those it has not  *)
(* seen (driver.py reset(), shell's COUNTER_CLEAR).                        *)
THEOREM RebaseLosesNothing == Spec => []RebaseKeepsInFlight
<1>1. IInv => RebaseKeepsInFlight
  <2> SUFFICES ASSUME IInv, NEW t \in Inputs
               PROVE  (Visible(t) + (core.counter[t] - Crossed[t])) % panel.counter_mod = due[t]
    BY DEF RebaseKeepsInFlight
  <2> DEFINE c == core.counter[t]
             x == Crossed[t]
             b == shell.base[t]
             m == panel.counter_mod
  <2>1. m \in Nat \ {0}
    BY PanelFacts DEF IInv, Registers
  <2>2. c \in 0..m-1 /\ x \in 0..m-1 /\ b \in 0..m-1
    BY DEF IInv, Registers, Crossed, Counters
  <2>3. due[t] = (c - b) % m /\ Visible(t) = (x - b) % m
    BY DEF IInv, CountsSinceBase, Visible
  <2> HIDE DEF c, x, b, m
  <2>4. x - b \in Int /\ c - x \in Int
    BY <2>1, <2>2
  <2>5. (((x - b) % m) + (c - x)) % m = ((x - b) + (c - x)) % m
    BY <2>1, <2>4, ReducedTerm
  <2>6. (x - b) + (c - x) = c - b
    BY <2>1, <2>2
  <2>7. (Visible(t) + (c - x)) % m = due[t]
    BY <2>3, <2>5, <2>6
  <2> QED BY <2>7 DEF c, x, m
<1> QED BY <1>1, PanelInStep, PTL

(* Where the host leaves a strobe the time to cross, what fires is what    *)
(* was written: all of a mask's ticks in one cycle of the panel's clock,   *)
(* once, and never the ticks of two words together, though the two clocks  *)
(* tick in any order and a mask is read while it changes.                  *)
THEOREM StrobesFireAsWritten ==
  ASSUME Spaced
  PROVE  Spec => []StrobesAsWritten
<1>1. IInv => StrobesAsWritten
  <2> SUFFICES ASSUME IInv PROVE TypeOK /\ FiresAsWritten /\ WordsNeverTogether
    BY DEF StrobesAsWritten
  <2>1. TypeOK
    BY DEF IInv, Registers, TypeOK, Counters
  <2> QED BY <2>1 DEF IInv
<1> QED BY <1>1, PanelInStep, PTL

(* Under the same spacing, a sticky bit is set exactly while it has an     *)
(* event no clear naming it has landed on.                                 *)
THEOREM StickyStaysSet ==
  ASSUME Spaced
  PROVE  Spec => []StickyUntilNamed
<1>1. IInv => StickyUntilNamed
  BY DEF IInv
<1> QED BY <1>1, PanelInStep, PTL
=============================================================================
