------------------------- MODULE WireFormatsProofs -------------------------
(***************************************************************************)
(* What one side writes the other reads, for every set of well-formed       *)
(* inputs: a sample at any state of the codec, frames and packets of any    *)
(* number and contents, every report, every prompt and every answer.        *)
(*                                                                          *)
(* The state is one input, so each property is a statement about every      *)
(* input of a kind.  A decoder that the code writes as a loop is a function *)
(* on the steps of the loop; the set of the numbers it is right at holds 0  *)
(* and is closed under + 1, and a function with that recursion exists (the  *)
(* section on induction), so that nothing below depends on how many frames, *)
(* packets, items or options there are.                                     *)
(*   Samples    the bits of a code are the three comparisons made for it.   *)
(*   Frames     the window holds the numbers seen at most 63 behind the     *)
(*              highest, so a frame is taken just when it is new.           *)
(*   Fragments  the buffer is the part of the packet that came so far.      *)
(*   Packets    the framer is empty or within one packet of the stream, at  *)
(*              every byte and across every cut.                            *)
(*   CBOR       a head is read as it was written whatever follows it; so is *)
(*              an item, a layout of items, an envelope and a prompt.       *)
(***************************************************************************)
EXTENDS WireFormats, SequenceTheorems, NaturalsInduction, WellFoundedInduction, TLAPS

(* What is put through the formats is none or one of the inputs.           *)
InputInv == input = NoInput \/ input \in Inputs

(* No other kind of step exists.                                           *)
LEMMA InputInvariant == Spec => []InputInv
<1>1. Init => InputInv
  BY DEF Init, InputInv
<1>2. InputInv /\ [Next]_input => InputInv'
  BY DEF InputInv, Next, Takes
<1> QED
  BY <1>1, <1>2, PTL DEF Spec

(* An input of a kind is well-formed.                                      *)
LEMMA KindIsWellFormed ==
  ASSUME InputInv, input.kind # "none"
  PROVE  WellFormed(input)
  BY InputsAssumption DEF InputInv, NoInput

-----------------------------------------------------------------------------
(* IMA-ADPCM: four bits are the four decisions that made them.             *)

(* The bits of a code.                                                     *)
LEMMA CodeBits ==
  ASSUME NEW s \in {0, 8}, NEW f \in {0, 4}, NEW t \in {0, 2}, NEW o \in {0, 1}
  PROVE  LET code == s + f + t + o
         IN /\ code \in 0..15
            /\ (code >= 8) <=> (s = 8)
            /\ (code % 2 = 1) <=> (o = 1)
            /\ ((code \div 2) % 2 = 1) <=> (t = 2)
            /\ ((code \div 4) % 2 = 1) <=> (f = 4)
  OBVIOUS

(* Every step size is a number.                                            *)
LEMMA StepSizes == StepTable \in [1..89 -> Nat]
  BY SMTT(30) DEF StepTable

(* After each code the decoder is where the encoder is (encode_nibble and  *)
(* decodeNibble), whatever the sample and the state before it.             *)
LEMMA DecoderFollows ==
  ASSUME NEW sample \in Int, NEW c \in [predictor : Int, index : 0..88]
  PROVE  LET e == Encoded(sample, c)
             d == Decoded(e.code, c)
         IN e.code \in 0..15 /\ d.predictor = e.predictor /\ d.index = e.index
<1> DEFINE step == StepTable[c.index + 1]
           far == IF sample < c.predictor THEN c.predictor - sample ELSE sample - c.predictor
           four == far >= step
           d1 == IF four THEN far - step ELSE far
           two == d1 >= step \div 2
           d2 == IF two THEN d1 - step \div 2 ELSE d1
           one == d2 >= step \div 4
           s == IF sample < c.predictor THEN 8 ELSE 0
           f == IF four THEN 4 ELSE 0
           t == IF two THEN 2 ELSE 0
           o == IF one THEN 1 ELSE 0
           code == s + f + t + o
           e == Encoded(sample, c)
           d == Decoded(e.code, c)
           encoded == step \div 8 + (IF four THEN step ELSE 0) + (IF two THEN step \div 2 ELSE 0)
                      + (IF one THEN step \div 4 ELSE 0)
           decoded == step \div 8 + (IF code % 2 = 1 THEN step \div 4 ELSE 0)
                      + (IF (code \div 2) % 2 = 1 THEN step \div 2 ELSE 0)
                      + (IF (code \div 4) % 2 = 1 THEN step ELSE 0)
<1>1. e.code = code /\ code \in 0..15
  BY CodeBits DEF Encoded
<1>2. step \in Nat
  BY StepSizes
<1>3. /\ (code % 2 = 1) <=> one
      /\ ((code \div 2) % 2 = 1) <=> two
      /\ ((code \div 4) % 2 = 1) <=> four
  BY CodeBits
<1>4. decoded = encoded
  <2> HIDE DEF step, four, two, one, code
  <2> QED
    BY <1>2, <1>3
<1>5. d.predictor = Sample(IF code >= 8 THEN c.predictor - decoded ELSE c.predictor + decoded)
  BY <1>1 DEF Decoded
<1>6. e.predictor = Sample(IF code >= 8 THEN c.predictor - encoded ELSE c.predictor + encoded)
  BY DEF Encoded
<1>7. d.index = e.index
  <2>1. e.index = NextIndex(c.index, code)
    BY Zenon DEF Encoded
  <2>2. d.index = NextIndex(c.index, e.code)
    BY Zenon DEF Decoded
  <2> QED
    BY <1>1, <2>1, <2>2, Zenon
<1>8. d.predictor = e.predictor
  <2> HIDE DEF code, decoded, encoded, d, e
  <2> QED
    BY <1>4, <1>5, <1>6
<1> QED
  BY <1>1, <1>7, <1>8, Zenon

(* After each code the decoder is where the encoder is.                    *)
THEOREM CodecAlwaysInStep == Spec => []CodecInStep
<1>1. InputInv => CodecInStep
  <2> SUFFICES ASSUME InputInv, input.kind = "sample" PROVE CodecInStep
    BY DEF CodecInStep
  <2>1. input.sample \in Int /\ input.codec \in [predictor : Int, index : 0..88]
    BY KindIsWellFormed DEF WellFormed, Int16
  <2> QED
    BY <2>1, DecoderFollows DEF CodecInStep
<1> QED
  BY <1>1, InputInvariant, PTL

-----------------------------------------------------------------------------
(* Induction and recursion over the numbers.                               *)

(* A set of numbers that is not empty has a least one.                     *)
LEMMA Least ==
  ASSUME NEW T, T \subseteq Nat, T # {}
  PROVE  \E n \in T : \A k \in T : n <= k
<1>1. PICK n \in T : \A k \in T : <<k, n>> \notin OpToRel(<, Nat)
  BY WFMin, NatLessThanWellFounded, Zenon
<1>2. ASSUME NEW k \in T
      PROVE  n <= k
  <2>1. k \in Nat /\ n \in Nat
    OBVIOUS
  <2>2. ~(k < n)
    BY <1>1, <2>1, Zenon DEF OpToRel
  <2> QED
    BY <2>1, <2>2
<1> QED
  BY <1>2

(* A set of numbers that has 0 and every next one has all.                 *)
LEMMA AllNumbers ==
  ASSUME NEW T, 0 \in T, \A k \in Nat : k \in T => k + 1 \in T
  PROVE  \A k \in Nat : k \in T
<1> SUFFICES ASSUME Nat \ T # {} PROVE FALSE
  OBVIOUS
<1>1. PICK n \in Nat \ T : \A k \in Nat \ T : n <= k
  BY Least, Zenon
<1>2. n # 0
  BY <1>1
<1>3. n - 1 \in Nat /\ ~(n <= n - 1) /\ (n - 1) + 1 = n
  BY <1>1, <1>2
<1>4. n - 1 \in T
  BY <1>1, <1>3
<1> QED
  BY <1>1, <1>3, <1>4

-----------------------------------------------------------------------------
(* Reading a layout.                                                       *)

(* What is read after the k-th item of a layout.                           *)
ReadOn(p, item, widths) ==
  LET x == ReadItem(item, widths, p.rest)
  IN IF ~p.ok THEN p ELSE [ok |-> x.ok, got |-> Append(p.got, x.got), rest |-> x.rest]
Reads(r, n, layout, widths, s) ==
  r = [k \in 0..n |-> IF k = 0 THEN [ok |-> TRUE, got |-> <<>>, rest |-> s]
                       ELSE ReadOn(r[k - 1], layout[k], widths)]

(* The recursion of Read has a solution of any length.                     *)
LEMMA ReadsExist ==
  ASSUME NEW layout, NEW widths, NEW s
  PROVE  \A n \in Nat : \E r : Reads(r, n, layout, widths, s)
<1> DEFINE T == {n \in Nat : \E r : Reads(r, n, layout, widths, s)}
           base == [ok |-> TRUE, got |-> <<>>, rest |-> s]
<1>1. 0 \in T
  <2>1. Reads([k \in 0..0 |-> base], 0, layout, widths, s)
    BY DEF Reads
  <2> QED
    BY <2>1
<1>2. ASSUME NEW n \in Nat, n \in T PROVE n + 1 \in T
  <2>1. PICK g : Reads(g, n, layout, widths, s)
    BY <1>2
  <2> DEFINE h == [k \in 0..n + 1 |->
                     IF k = n + 1 THEN ReadOn(g[n], layout[n + 1], widths) ELSE g[k]]
  <2>2. \A k \in 0..n + 1 :
          h[k] = IF k = 0 THEN base ELSE ReadOn(h[k - 1], layout[k], widths)
    <3> TAKE k \in 0..n + 1
    <3>1. CASE k = n + 1
      BY <3>1
    <3>2. CASE k # n + 1
      <4>1. k \in 0..n
        BY <3>2
      <4>2. g[k] = IF k = 0 THEN base ELSE ReadOn(g[k - 1], layout[k], widths)
        BY <2>1, <4>1 DEF Reads
      <4> QED
        BY <3>2, <4>1, <4>2
    <3> QED
      BY <3>1, <3>2
  <2>3. Reads(h, n + 1, layout, widths, s)
    BY <2>2 DEF Reads
  <2> QED
    BY <2>3
<1> HIDE DEF T
<1>3. \A n \in Nat : n \in T
  BY <1>1, <1>2, AllNumbers
<1> QED
  BY <1>3 DEF T

(* Read is the end of such a solution.                                     *)
LEMMA ReadIsReads ==
  ASSUME NEW layout, NEW widths, NEW s, Len(layout) \in Nat
  PROVE  \E r : Reads(r, Len(layout), layout, widths, s)
               /\ Read(layout, widths, s) = r[Len(layout)]
<1> DEFINE r == CHOOSE r : Reads(r, Len(layout), layout, widths, s)
<1>1. Reads(r, Len(layout), layout, widths, s)
  BY ReadsExist, Zenon
<1>2. Read(layout, widths, s) = r[Len(layout)]
  BY Zenon DEF Read, Reads, ReadOn
<1> QED
  BY <1>1, <1>2

-----------------------------------------------------------------------------
(* The window of the numbers seen.                                         *)
Frame == [session : Nat, number : Nat]
Distances == {d \in Nat : d < 64}
Windows == [session : Nat, highest : Nat, seen : SUBSET Distances, taken : Seq(Frame)]

(* The frames of a session follow each other.                              *)
Contiguous(frames) ==
  \A a, b, c \in 1..Len(frames) :
    a <= b /\ b <= c /\ frames[a].session = frames[c].session =>
      frames[b].session = frames[c].session

(* What the window knows after the first k frames.                         *)
Knows(w, k, frames) ==
  /\ w.session = frames[k].session
  /\ \E j \in 1..k : frames[j].session = w.session /\ frames[j].number = w.highest
  /\ \A j \in 1..k : frames[j].session = w.session => frames[j].number <= w.highest
  /\ \A d \in Distances :
       d \in w.seen <=>
         \E j \in 1..k : frames[j].session = w.session /\ frames[j].number + d = w.highest

(* The frame is new, and among the 64 up to the highest.                   *)
IsNew(n, frames) ==
  LET f == frames[n]
      before == {frames[k] : k \in 1..n - 1}
  IN f \notin before /\ \A g \in before : g.session = f.session => g.number < f.number + Window

(* The same by the places of the frames.                                   *)
LEMMA NewMeans ==
  ASSUME NEW frames, NEW k \in Nat
  PROVE  IsNew(k + 1, frames) <=>
           /\ \A j \in 1..k : frames[j] # frames[k + 1]
           /\ \A j \in 1..k : frames[j].session = frames[k + 1].session =>
                frames[j].number < frames[k + 1].number + 64
<1>1. (k + 1) - 1 = k
  OBVIOUS
<1>2. {frames[j] : j \in 1..(k + 1) - 1} = {frames[j] : j \in 1..k}
  BY <1>1
<1> QED
  BY <1>2, Zenon DEF IsNew, Window

(* A frame of another session starts the window anew.                      *)
LEMMA AnotherSession ==
  ASSUME NEW frames \in Seq(Frame), Contiguous(frames),
         NEW k \in Nat, k + 1 <= Len(frames), NEW w \in Windows,
         k # 0 => Knows(w, k, frames),
         w.session # frames[k + 1].session
  PROVE  LET v == ReplayAccepts(w, frames[k + 1])
         IN /\ v \in Windows /\ Knows(v, k + 1, frames)
            /\ v.taken # w.taken /\ IsNew(k + 1, frames)
<1> DEFINE f == frames[k + 1]
           v == ReplayAccepts(w, f)
<1>1. f \in Frame /\ Len(frames) \in Nat
  OBVIOUS
<1>2. v = [session |-> f.session, highest |-> f.number, seen |-> {0},
           taken |-> Append(w.taken, f)]
  BY DEF ReplayAccepts, Windows
<1>3. \A j \in 1..k : frames[j].session # f.session
  <2> SUFFICES ASSUME NEW j \in 1..k, frames[j].session = f.session PROVE FALSE
    OBVIOUS
  <2>1. j \in 1..Len(frames) /\ k \in 1..Len(frames) /\ k + 1 \in 1..Len(frames)
        /\ j <= k /\ k <= k + 1
    BY <1>1
  <2>2. frames[k].session = f.session
    BY <2>1 DEF Contiguous
  <2> QED
    BY <2>1, <2>2 DEF Knows
<1>4. v \in Windows
  <2>1. {0} \in SUBSET Distances
    BY DEF Distances
  <2>2. Append(w.taken, f) \in Seq(Frame) /\ f.session \in Nat /\ f.number \in Nat
    BY <1>1 DEF Frame, Windows
  <2> QED
    BY <1>2, <2>1, <2>2 DEF Windows
<1>5. Knows(v, k + 1, frames)
  <2>1. k + 1 \in 1..k + 1 /\ \A j \in 1..k + 1 : j = k + 1 \/ j \in 1..k
    OBVIOUS
  <2>2. v.session = f.session /\ v.highest = f.number /\ v.seen = {0} /\ f.number \in Nat
    BY <1>1, <1>2 DEF Frame
  <2>3. frames[k + 1] = f /\ f.number + 0 = f.number
    BY <2>2
  <2> HIDE DEF v, f
  <2>4. \A j \in 1..k + 1 : frames[j].session = f.session => frames[j] = f
    BY <1>3, <2>1, <2>3
  <2>5. ASSUME NEW d \in Distances
        PROVE  d \in v.seen <=> \E j \in 1..k + 1 :
                 frames[j].session = v.session /\ frames[j].number + d = v.highest
    <3>1. d # 0 => f.number + d # f.number
      BY <2>2 DEF Distances
    <3> QED
      BY <2>1, <2>2, <2>3, <2>4, <3>1
  <2>6. \A j \in 1..k + 1 : frames[j].session = v.session => frames[j].number <= v.highest
    BY <2>2, <2>4
  <2> QED
    BY <2>1, <2>2, <2>3, <2>5, <2>6 DEF Knows
<1>6. v.taken # w.taken
  <2>1. w.taken \in Seq(Frame) /\ v.taken = Append(w.taken, f)
    BY <1>2 DEF Windows
  <2>2. Len(v.taken) = Len(w.taken) + 1 /\ Len(w.taken) \in Nat
    BY <1>1, <2>1, AppendProperties
  <2> QED
    BY <2>2
<1>7. IsNew(k + 1, frames)
  <2>1. (k + 1) - 1 = k
    OBVIOUS
  <2>2. frames[k + 1] \notin {frames[j] : j \in 1..k}
    BY <1>3, Zenon DEF f
  <2>3. \A j \in 1..k : frames[j].session # frames[k + 1].session
    BY <1>3, Zenon DEF f
  <2> QED
    BY <2>1, <2>2, <2>3 DEF IsNew
<1> QED
  BY <1>4, <1>5, <1>6, <1>7

(* A higher number of the session moves the window.                        *)
LEMMA HigherNumber ==
  ASSUME NEW frames \in Seq(Frame),
         NEW k \in Nat, k + 1 <= Len(frames), NEW w \in Windows,
         Knows(w, k, frames), k # 0,
         w.session = frames[k + 1].session, frames[k + 1].number > w.highest
  PROVE  LET v == ReplayAccepts(w, frames[k + 1])
         IN /\ v \in Windows /\ Knows(v, k + 1, frames)
            /\ v.taken # w.taken /\ IsNew(k + 1, frames)
<1> DEFINE f == frames[k + 1]
           v == ReplayAccepts(w, f)
           shift == f.number - w.highest
           seen == {0} \cup {d + shift : d \in {x \in w.seen : x + shift < Window}}
<1>1. f \in Frame /\ Len(frames) \in Nat /\ k + 1 \in 1..k + 1 /\ frames[k + 1] = f
  OBVIOUS
<1>2. v = [session |-> f.session, highest |-> f.number, seen |-> seen,
           taken |-> Append(w.taken, f)]
  BY DEF ReplayAccepts, Windows
<1>0. f.number > w.highest /\ w.session = f.session
  OBVIOUS
<1> HIDE DEF f, v
<1>3. /\ f.number \in Nat /\ w.highest \in Nat /\ shift \in Nat \ {0}
      /\ w.seen \subseteq Distances /\ f.number = w.highest + shift
  <2>1. f.number \in Nat
    BY <1>1 DEF Frame
  <2>2. w.highest \in Nat /\ w.seen \subseteq Distances
    BY DEF Windows
  <2>3. \A a, b \in Nat : a > b => a - b \in Nat \ {0} /\ a = b + (a - b)
    OBVIOUS
  <2> QED
    BY <1>0, <2>1, <2>2, <2>3
<1>4. \A j \in 1..k : frames[j] \in Frame /\ frames[j].number \in Nat
  <2> TAKE j \in 1..k
  <2>1. j \in 1..Len(frames)
    BY <1>1
  <2>2. frames[j] \in Frame
    BY <2>1, ElementOfSeq
  <2> QED
    BY <2>2 DEF Frame
<1>5. \A d \in Distances : d \in seen <=> d = 0 \/ (d - shift \in w.seen)
  <2> TAKE d \in Distances
  <2>1. d \in seen <=> d = 0 \/ \E x \in w.seen : x + shift < 64 /\ d = x + shift
    BY DEF Window
  <2> HIDE DEF seen, shift
  <2>2. \A x \in Distances : (x + shift < 64 /\ d = x + shift) <=> d - shift = x
    BY <1>3 DEF Distances
  <2> QED
    BY <1>3, <2>1, <2>2
<1>6. seen \subseteq Distances
  <2>1. \A d \in seen : d = 0 \/ \E x \in Distances : x + shift < 64 /\ d = x + shift
    BY <1>3 DEF Window
  <2> HIDE DEF seen, shift
  <2>2. ASSUME NEW x \in Distances, x + shift < 64 PROVE x + shift \in Distances
    <3>1. \A a, b \in Nat : a + b \in Nat
      OBVIOUS
    <3> QED
      BY <1>3, <2>2, <3>1 DEF Distances
  <2>3. 0 \in Distances
    BY DEF Distances
  <2> QED
    BY <2>1, <2>2, <2>3
<1> HIDE DEF seen, shift
<1>7. v \in Windows
  <2>1. Append(w.taken, f) \in Seq(Frame) /\ f.session \in Nat
    BY <1>1 DEF Frame, Windows
  <2> QED
    BY <1>2, <1>3, <1>6, <2>1 DEF Windows
<1>8. Knows(v, k + 1, frames)
  <2>1. \A j \in 1..k + 1 : j = k + 1 \/ j \in 1..k
    OBVIOUS
  <2>2. v.session = f.session /\ v.highest = f.number /\ v.seen = seen /\ w.session = f.session
    BY <1>0, <1>2
  <2>3. \A j \in 1..k : frames[j].session = f.session => frames[j].number < f.number
    <3>1. \A j \in 1..k : frames[j].session = f.session => frames[j].number <= w.highest
      BY <1>0 DEF Knows
    <3> SUFFICES ASSUME NEW j \in 1..k, frames[j].session = f.session
                 PROVE  frames[j].number < f.number
      OBVIOUS
    <3>3. frames[j].number \in Nat
      BY <1>4
    <3>4. frames[j].number <= w.highest
      BY <3>1
    <3> QED
      BY <1>0, <1>3, <3>3, <3>4
  <2>4. \A j \in 1..k + 1 : frames[j].session = v.session => frames[j].number <= v.highest
    <3> SUFFICES ASSUME NEW j \in 1..k + 1, frames[j].session = f.session
                 PROVE  frames[j].number <= f.number
      BY <2>2
    <3>1. CASE j = k + 1
      BY <1>1, <1>3, <3>1
    <3>2. CASE j \in 1..k
      BY <1>3, <1>4, <2>3, <3>2
    <3> QED
      BY <2>1, <3>1, <3>2
  <2>5. ASSUME NEW d \in Distances
        PROVE  d \in v.seen <=> \E j \in 1..k + 1 :
                 frames[j].session = v.session /\ frames[j].number + d = v.highest
    <3>1. CASE d = 0
      <4>1. f.number + 0 = f.number
        BY <1>3
      <4> QED
        BY <1>1, <1>5, <2>2, <3>1, <4>1
    <3>2. CASE d # 0
      <4>1. ~(frames[k + 1].number + d = f.number)
        BY <1>1, <1>3, <3>2 DEF Distances
      <4>2. (\E j \in 1..k + 1 : frames[j].session = v.session /\ frames[j].number + d = v.highest)
              <=> \E j \in 1..k : frames[j].session = w.session /\ frames[j].number + d = f.number
        <5>1. \A j \in 1..k : j \in 1..k + 1
          OBVIOUS
        <5> QED
          BY <2>1, <2>2, <4>1, <5>1
      <4>3. \A j \in 1..k : (frames[j].number + d = f.number)
                             <=> (frames[j].number + (d - shift) = w.highest)
        <5>2. d \in Nat
          BY DEF Distances
        <5> HIDE DEF shift
        <5>4. \A x, y, z, s, n \in Nat : x = y + s => ((n + z = x) <=> (n + (z - s) = y))
          OBVIOUS
        <5>5. f.number \in Nat /\ w.highest \in Nat /\ shift \in Nat
              /\ f.number = w.highest + shift
          BY <1>3
        <5>1. \A n \in Nat : (n + d = f.number) <=> (n + (d - shift) = w.highest)
          BY <5>2, <5>4, <5>5
        <5> TAKE j \in 1..k
        <5>3. frames[j].number \in Nat
          BY <1>4
        <5> QED
          BY <5>1, <5>3, Zenon
      <4>4. CASE d < shift
        <5>1. d - shift \notin w.seen
          BY <1>3, <4>4 DEF Distances
        <5>2. \A j \in 1..k : frames[j].session = w.session => frames[j].number + d # f.number
          <6>1. \A j \in 1..k : frames[j].session = w.session => frames[j].number <= w.highest
            BY DEF Knows
          <6> SUFFICES ASSUME NEW j \in 1..k, frames[j].session = w.session
                       PROVE  frames[j].number + d # f.number
            OBVIOUS
          <6>2. frames[j].number \in Nat /\ frames[j].number <= w.highest
            BY <1>4, <6>1
          <6> QED
            BY <1>3, <4>4, <6>2 DEF Distances
        <5> QED
          BY <1>5, <2>2, <3>2, <4>2, <5>1, <5>2
      <4>5. CASE d >= shift
        <5>1. d - shift \in Distances
          BY <1>3, <4>5 DEF Distances
        <5>2. d - shift \in w.seen <=> \E j \in 1..k :
                frames[j].session = w.session /\ frames[j].number + (d - shift) = w.highest
          BY <5>1 DEF Knows
        <5> QED
          BY <1>5, <2>2, <3>2, <4>2, <4>3, <5>2
      <4> QED
        BY <1>3, <4>4, <4>5 DEF Distances
    <3> QED
      BY <3>1, <3>2
  <2> QED
    BY <1>1, <2>1, <2>2, <2>4, <2>5 DEF Knows
<1>9. v.taken # w.taken
  <2>1. w.taken \in Seq(Frame) /\ v.taken = Append(w.taken, f)
    BY <1>2 DEF Windows
  <2>2. Len(v.taken) = Len(w.taken) + 1 /\ Len(w.taken) \in Nat
    BY <1>1, <2>1, AppendProperties
  <2> QED
    BY <2>2
<1>10. IsNew(k + 1, frames)
  <2>0. \A j \in 1..k : frames[j].session = f.session => frames[j].number <= w.highest
    BY <1>0 DEF Knows
  <2>1. \A n \in Nat : n <= w.highest => n # f.number /\ n < f.number + 64
    BY <1>0, <1>3
  <2>2. \A j \in 1..k : frames[j] # f
    BY <1>4, <2>0, <2>1
  <2>3. \A j \in 1..k : frames[j].session = f.session => frames[j].number < f.number + 64
    BY <1>4, <2>0, <2>1
  <2> QED
    BY <2>2, <2>3, NewMeans, Zenon DEF f
<1> QED
  BY <1>7, <1>8, <1>9, <1>10 DEF v, f

(* A number that is not higher is taken when its bit is not set.           *)
LEMMA LowerNumber ==
  ASSUME NEW frames \in Seq(Frame),
         NEW k \in Nat, k + 1 <= Len(frames), NEW w \in Windows,
         Knows(w, k, frames), k # 0,
         w.session = frames[k + 1].session, ~(frames[k + 1].number > w.highest)
  PROVE  LET v == ReplayAccepts(w, frames[k + 1])
         IN /\ v \in Windows /\ Knows(v, k + 1, frames)
            /\ (v.taken # w.taken <=> IsNew(k + 1, frames))
<1> DEFINE f == frames[k + 1]
           v == ReplayAccepts(w, f)
           distance == w.highest - f.number
           taken == [w EXCEPT !.seen = @ \cup {distance}, !.taken = Append(@, f)]
<1>1. f \in Frame /\ Len(frames) \in Nat /\ k + 1 \in 1..k + 1 /\ frames[k + 1] = f
      /\ w.session = f.session /\ ~(f.number > w.highest)
  OBVIOUS
<1>2. v = IF distance >= Window \/ distance \in w.seen THEN w ELSE taken
  BY <1>1 DEF ReplayAccepts
<1> HIDE DEF f, v
<1>3. /\ f.number \in Nat /\ w.highest \in Nat /\ distance \in Nat
      /\ w.seen \subseteq Distances /\ f.number + distance = w.highest
  <2>1. f.number \in Nat
    BY <1>1 DEF Frame
  <2>2. w.highest \in Nat /\ w.seen \subseteq Distances
    BY DEF Windows
  <2>3. \A a, b \in Nat : ~(a > b) => b - a \in Nat /\ a + (b - a) = b
    OBVIOUS
  <2> QED
    BY <1>1, <2>1, <2>2, <2>3
<1> HIDE DEF distance
<1>4. \A j \in 1..k : frames[j] \in Frame /\ frames[j].number \in Nat
  <2> TAKE j \in 1..k
  <2>1. j \in 1..Len(frames)
    BY <1>1
  <2>2. frames[j] \in Frame
    BY <2>1, ElementOfSeq
  <2> QED
    BY <2>2 DEF Frame
<1>5. (\A j \in 1..k + 1 : j = k + 1 \/ j \in 1..k) /\ (\A j \in 1..k : j \in 1..k + 1)
  OBVIOUS
(* The bit of the distance says whether the number was seen.               *)
<1>6. ASSUME distance \in Distances
      PROVE  distance \in w.seen <=> \E j \in 1..k : frames[j] = f
  <2>1. distance \in w.seen <=>
          \E j \in 1..k : frames[j].session = w.session /\ frames[j].number + distance = w.highest
    BY <1>6 DEF Knows
  <2>2. ASSUME NEW j \in 1..k
        PROVE  frames[j] = f <=>
                 frames[j].session = w.session /\ frames[j].number + distance = w.highest
    <3>1. frames[j] \in Frame /\ frames[j].number \in Nat
      BY <1>4
    <3>2. (frames[j].number + distance = w.highest) <=> frames[j].number = f.number
      BY <1>3, <3>1
    <3>3. \A x, y \in Frame : x = y <=> x.session = y.session /\ x.number = y.number
      BY SMTT(30) DEF Frame
    <3>4. frames[j] = f <=> frames[j].session = f.session /\ frames[j].number = f.number
      BY <1>1, <3>1, <3>3, Zenon
    <3> QED
      BY <1>1, <3>2, <3>4
  <2> QED
    BY <2>1, <2>2
(* The distance says whether it is among the 64.                           *)
<1>7. distance \in Distances <=>
        \A j \in 1..k : frames[j].session = f.session => frames[j].number < f.number + 64
  <2>1. ASSUME distance \in Distances, NEW j \in 1..k, frames[j].session = f.session
        PROVE  frames[j].number < f.number + 64
    <3>1. frames[j].number <= w.highest
      BY <1>1, <2>1 DEF Knows
    <3>2. frames[j].number \in Nat
      BY <1>4
    <3>3. distance < 64
      BY <2>1 DEF Distances
    <3> QED
      BY <1>3, <3>1, <3>2, <3>3
  <2>2. ASSUME distance \notin Distances
        PROVE  \E j \in 1..k : frames[j].session = f.session /\ ~(frames[j].number < f.number + 64)
    <3>1. PICK j \in 1..k : frames[j].session = w.session /\ frames[j].number = w.highest
      BY DEF Knows
    <3>2. distance >= 64
      BY <1>3, <2>2 DEF Distances
    <3>3. ~(w.highest < f.number + 64)
      BY <1>3, <3>2
    <3> QED
      BY <1>1, <3>1, <3>3
  <2> QED
    BY <2>1, <2>2
<1>8. IsNew(k + 1, frames) <=> distance \in Distances /\ distance \notin w.seen
  <2>1. IsNew(k + 1, frames) <=> (\A j \in 1..k : frames[j] # f) /\ distance \in Distances
    BY <1>1, <1>7, NewMeans
  <2> QED
    BY <1>6, <2>1
<1>9. distance >= Window <=> distance \notin Distances
  BY <1>3 DEF Distances, Window
<1>10. CASE distance \notin Distances \/ distance \in w.seen
  <2>1. v = w
    BY <1>2, <1>9, <1>10
  <2>2. \E j \in 1..k : frames[j].session = w.session /\ frames[j].number = w.highest
    BY DEF Knows
  <2>3. \A j \in 1..k + 1 : frames[j].session = w.session => frames[j].number <= w.highest
    <3> SUFFICES ASSUME NEW j \in 1..k + 1, frames[j].session = w.session
                 PROVE  frames[j].number <= w.highest
      OBVIOUS
    <3>1. CASE j = k + 1
      BY <1>1, <1>3, <3>1
    <3>2. CASE j \in 1..k
      BY <3>2 DEF Knows
    <3> QED
      BY <1>5, <3>1, <3>2
  <2>4. ASSUME NEW d \in Distances
        PROVE  d \in w.seen <=> \E j \in 1..k + 1 :
                 frames[j].session = w.session /\ frames[j].number + d = w.highest
    <3>1. d \in w.seen <=> \E j \in 1..k :
                 frames[j].session = w.session /\ frames[j].number + d = w.highest
      BY DEF Knows
    <3>2. frames[k + 1].number + d = w.highest => d = distance
      BY <1>1, <1>3 DEF Distances
    <3>3. frames[k + 1].number + d = w.highest => d \in w.seen
      BY <1>10, <3>2
    <3> QED
      BY <1>5, <3>1, <3>3
  <2>5. Knows(w, k + 1, frames)
    BY <1>1, <1>5, <2>2, <2>3, <2>4 DEF Knows
  <2> QED
    BY <1>8, <1>10, <2>1, <2>5 DEF v, f
<1>11. CASE distance \in Distances /\ distance \notin w.seen
  <2>1. v = taken
    BY <1>2, <1>9, <1>11
  <2>2. v \in Windows
    <3>1. Append(w.taken, f) \in Seq(Frame)
      BY <1>1 DEF Windows
    <3>2. w.seen \cup {distance} \in SUBSET Distances
      BY <1>3, <1>11
    <3> QED
      BY <2>1, <3>1, <3>2 DEF Windows
  <2>3. /\ v.session = w.session /\ v.highest = w.highest
        /\ v.seen = w.seen \cup {distance} /\ v.taken = Append(w.taken, f)
    BY <2>1 DEF Windows
  <2>4. \E j \in 1..k : frames[j].session = w.session /\ frames[j].number = w.highest
    BY DEF Knows
  <2>5. \A j \in 1..k + 1 : frames[j].session = w.session => frames[j].number <= w.highest
    <3> SUFFICES ASSUME NEW j \in 1..k + 1, frames[j].session = w.session
                 PROVE  frames[j].number <= w.highest
      OBVIOUS
    <3>1. CASE j = k + 1
      BY <1>1, <1>3, <3>1
    <3>2. CASE j \in 1..k
      BY <3>2 DEF Knows
    <3> QED
      BY <1>5, <3>1, <3>2
  <2>6. ASSUME NEW d \in Distances
        PROVE  d \in w.seen \cup {distance} <=> \E j \in 1..k + 1 :
                 frames[j].session = w.session /\ frames[j].number + d = w.highest
    <3>1. d \in w.seen <=> \E j \in 1..k :
                 frames[j].session = w.session /\ frames[j].number + d = w.highest
      BY DEF Knows
    <3>2. (frames[k + 1].number + d = w.highest) <=> d = distance
      BY <1>1, <1>3 DEF Distances
    <3> QED
      BY <1>1, <1>5, <3>1, <3>2
  <2>7. Knows(v, k + 1, frames)
    BY <1>1, <1>5, <2>3, <2>4, <2>5, <2>6 DEF Knows
  <2>8. v.taken # w.taken
    <3>1. w.taken \in Seq(Frame) /\ v.taken = Append(w.taken, f)
      BY <2>3 DEF Windows
    <3>2. Len(v.taken) = Len(w.taken) + 1 /\ Len(w.taken) \in Nat
      BY <1>1, <3>1, AppendProperties
    <3> QED
      BY <3>2
  <2> QED
    BY <1>8, <1>11, <2>2, <2>7, <2>8 DEF v, f
<1> QED
  BY <1>10, <1>11

(* The first frame is taken, also when its session is the 0 of the reset.  *)
LEMMA FirstFrame ==
  ASSUME NEW frames \in Seq(Frame), Contiguous(frames), 1 <= Len(frames)
  PROVE  LET v == ReplayAccepts(FreshWindow, frames[1])
         IN /\ v \in Windows /\ Knows(v, 1, frames)
            /\ v.taken # FreshWindow.taken /\ IsNew(1, frames)
<1> DEFINE f == frames[1]
           w == FreshWindow
           v == ReplayAccepts(w, f)
<1>1. w \in Windows
  BY DEF Windows, FreshWindow
<1>2. f \in Frame /\ f.session \in Nat /\ f.number \in Nat /\ Len(frames) \in Nat
  <2>1. 1 \in 1..Len(frames) /\ Len(frames) \in Nat
    OBVIOUS
  <2>2. f \in Frame
    BY <2>1, ElementOfSeq
  <2> HIDE DEF f
  <2> QED
    BY <2>1, <2>2 DEF Frame
<1>3. CASE f.session # 0
  BY <1>1, <1>3, AnotherSession DEF FreshWindow
<1>4. CASE f.session = 0
  <2>1. v = [session |-> 0, highest |-> f.number, seen |-> {0}, taken |-> <<f>>]
    <3> HIDE DEF f
    <3>0. w = [session |-> 0, highest |-> 0, seen |-> {}, taken |-> <<>>]
          /\ Append(w.taken, f) = <<f>>
      BY DEF FreshWindow
    <3>1. CASE f.number > 0
      <4>1. v = [w EXCEPT !.highest = f.number, !.taken = Append(@, f),
                   !.seen = {0} \cup {d + (f.number - w.highest) :
                                       d \in {x \in @ : x + (f.number - w.highest) < Window}}]
        BY <1>4, <3>0, <3>1 DEF ReplayAccepts
      <4>2. {d + (f.number - w.highest) :
               d \in {x \in w.seen : x + (f.number - w.highest) < Window}} = {}
        BY <3>0
      <4>3. v = [w EXCEPT !.highest = f.number, !.taken = <<f>>, !.seen = {0} \cup {}]
        BY <3>0, <4>1, <4>2
      <4> QED
        BY <3>0, <4>3
    <3>2. CASE f.number = 0
      <4>1. w.highest - f.number = 0 /\ 0 \notin w.seen /\ ~(0 >= Window)
        BY <3>0, <3>2 DEF Window
      <4>2. v = [w EXCEPT !.seen = @ \cup {0}, !.taken = Append(@, f)]
        BY <1>4, <3>0, <3>2, <4>1 DEF ReplayAccepts
      <4>3. v = [w EXCEPT !.seen = {0}, !.taken = <<f>>]
        BY <3>0, <4>2
      <4> QED
        BY <3>0, <3>2, <4>3
    <3> QED
      BY <1>2, <3>1, <3>2
  <2> HIDE DEF v
  <2>2. v \in Windows
    <3>1. <<f>> \in Seq(Frame) /\ {0} \in SUBSET Distances
      BY <1>2 DEF Distances
    <3> HIDE DEF f
    <3> QED
      BY <1>2, <2>1, <3>1 DEF Windows
  <2>3. \A j \in 1..1 : j = 1
    OBVIOUS
  <2>4. v.session = f.session /\ v.highest = f.number /\ v.seen = {0} /\ v.taken = <<f>>
    BY <1>4, <2>1
  <2>5. ASSUME NEW d \in Distances
        PROVE  d \in v.seen <=> \E j \in 1..1 :
                 frames[j].session = v.session /\ frames[j].number + d = v.highest
    <3>1. (f.number + d = f.number) <=> d = 0
      BY <1>2 DEF Distances
    <3>2. 1 \in 1..1
      OBVIOUS
    <3> QED
      BY <2>3, <2>4, <3>1, <3>2
  <2>6. f.number <= f.number /\ 1 \in 1..1
    BY <1>2
  <2>7. Knows(v, 1, frames)
    BY <2>3, <2>4, <2>5, <2>6 DEF Knows
  <2>8. v.taken # w.taken
    BY <2>4 DEF FreshWindow
  <2>9. IsNew(1, frames)
    <3>1. 0 + 1 = 1 /\ \A j \in 1..0 : FALSE
      OBVIOUS
    <3>2. IsNew(0 + 1, frames)
      BY <3>1, NewMeans
    <3> QED
      BY <3>1, <3>2
  <2> QED
    BY <2>2, <2>7, <2>8, <2>9 DEF v
<1> QED
  BY <1>3, <1>4

(* The windows after each of the first n frames.                           *)
Wins(w, n, frames) ==
  w = [k \in 0..n |-> IF k = 0 THEN FreshWindow ELSE ReplayAccepts(w[k - 1], frames[k])]

(* There are some for any number of frames.                                *)
LEMMA WinsExist ==
  ASSUME NEW frames
  PROVE  \A n \in Nat : \E w : Wins(w, n, frames)
<1> DEFINE T == {n \in Nat : \E w : Wins(w, n, frames)}
<1>1. 0 \in T
  <2>1. Wins([k \in 0..0 |-> FreshWindow], 0, frames)
    BY DEF Wins
  <2> QED
    BY <2>1
<1>2. ASSUME NEW n \in Nat, n \in T PROVE n + 1 \in T
  <2>1. PICK g : Wins(g, n, frames)
    BY <1>2
  <2> DEFINE h == [k \in 0..n + 1 |->
                     IF k = n + 1 THEN ReplayAccepts(g[n], frames[n + 1]) ELSE g[k]]
  <2>2. \A k \in 0..n + 1 : h[k] = IF k = 0 THEN FreshWindow ELSE ReplayAccepts(h[k - 1], frames[k])
    <3> TAKE k \in 0..n + 1
    <3>1. CASE k = n + 1
      BY <3>1
    <3>2. CASE k # n + 1
      <4>1. k \in 0..n
        BY <3>2
      <4>2. g[k] = IF k = 0 THEN FreshWindow ELSE ReplayAccepts(g[k - 1], frames[k])
        BY <2>1, <4>1 DEF Wins
      <4> QED
        BY <3>2, <4>1, <4>2
    <3> QED
      BY <3>1, <3>2
  <2>3. Wins(h, n + 1, frames)
    BY <2>2 DEF Wins
  <2> QED
    BY <2>3
<1> HIDE DEF T
<1>3. \A n \in Nat : n \in T
  BY <1>1, <1>2, AllNumbers
<1> QED
  BY <1>3 DEF T

(* One frame more.                                                         *)
LEMMA OneFrameMore ==
  ASSUME NEW frames \in Seq(Frame), Contiguous(frames), NEW k \in Nat, k + 1 <= Len(frames),
         NEW w, IF k = 0 THEN w = FreshWindow ELSE w \in Windows /\ Knows(w, k, frames)
  PROVE  LET v == ReplayAccepts(w, frames[k + 1])
         IN /\ v \in Windows /\ Knows(v, k + 1, frames)
            /\ (v.taken # w.taken <=> IsNew(k + 1, frames))
<1>1. CASE k = 0
  <2>1. k + 1 = 1
    BY <1>1
  <2> QED
    BY <1>1, <2>1, FirstFrame
<1>2. CASE k # 0 /\ w.session # frames[k + 1].session
  BY <1>2, AnotherSession
<1>3. CASE k # 0 /\ w.session = frames[k + 1].session /\ frames[k + 1].number > w.highest
  BY <1>3, HigherNumber
<1>4. CASE k # 0 /\ w.session = frames[k + 1].session /\ ~(frames[k + 1].number > w.highest)
  BY <1>4, LowerNumber
<1> QED
  BY <1>1, <1>2, <1>3, <1>4

(* A number is taken exactly when it is new and among the 64.              *)
LEMMA TakenWhenNew ==
  ASSUME NEW frames \in Seq(Frame), Contiguous(frames), NEW w, Wins(w, Len(frames), frames)
  PROVE  \A n \in 1..Len(frames) : w[n].taken # w[n - 1].taken <=> IsNew(n, frames)
<1>0. Len(frames) \in Nat
  OBVIOUS
<1>1. /\ w[0] = FreshWindow
      /\ \A k \in Nat : k + 1 <= Len(frames) => w[k + 1] = ReplayAccepts(w[k], frames[k + 1])
  <2>1. \A k \in 0..Len(frames) :
          w[k] = IF k = 0 THEN FreshWindow ELSE ReplayAccepts(w[k - 1], frames[k])
    BY Zenon DEF Wins
  <2>2. ASSUME NEW k \in Nat, k + 1 <= Len(frames)
        PROVE  w[k + 1] = ReplayAccepts(w[k], frames[k + 1])
    <3>1. k + 1 \in 0..Len(frames) /\ k + 1 # 0 /\ (k + 1) - 1 = k
      BY <1>0, <2>2
    <3> QED
      BY <2>1, <3>1
  <2> QED
    BY <1>0, <2>1, <2>2
<1> DEFINE Good(k) == IF k = 0 THEN w[k] = FreshWindow ELSE w[k] \in Windows /\ Knows(w[k], k, frames)
           T == {k \in Nat : k <= Len(frames) => Good(k)}
<1>2. 0 \in T
  BY <1>1
<1>3. ASSUME NEW k \in Nat, k \in T PROVE k + 1 \in T
  <2> SUFFICES ASSUME k + 1 <= Len(frames) PROVE Good(k + 1)
    OBVIOUS
  <2>1. k <= Len(frames) /\ k + 1 # 0
    BY <1>0
  <2>2. Good(k)
    BY <1>3, <2>1
  <2>3. w[k + 1] \in Windows /\ Knows(w[k + 1], k + 1, frames)
    BY <1>1, <2>2, OneFrameMore
  <2> QED
    BY <2>1, <2>3
<1> HIDE DEF T
<1>4. \A k \in Nat : k \in T
  BY <1>2, <1>3, AllNumbers
<1> SUFFICES ASSUME NEW n \in 1..Len(frames)
             PROVE  w[n].taken # w[n - 1].taken <=> IsNew(n, frames)
  OBVIOUS
<1> DEFINE k == n - 1
<1>5. k \in Nat /\ k + 1 = n /\ k + 1 <= Len(frames) /\ k <= Len(frames)
  BY <1>0
<1>6. Good(k)
  BY <1>4, <1>5 DEF T
<1> HIDE DEF k
<1>7. w[k + 1].taken # w[k].taken <=> IsNew(k + 1, frames)
  BY <1>1, <1>5, <1>6, OneFrameMore
<1> QED
  BY <1>5, <1>7 DEF k

(* In every session.                                                       *)
LEMMA NumbersAreTakenOnce == InputInv => NumbersTakenOnce
<1> SUFFICES ASSUME InputInv, input.kind = "numbers" PROVE NumbersTakenOnce
  BY DEF NumbersTakenOnce
<1> DEFINE frames == input.frames
           w == CHOOSE w : Wins(w, Len(frames), frames)
<1>1. WellFormed(input)
  BY KindIsWellFormed
<1>2. frames \in Seq(Frame) /\ Contiguous(frames)
  BY <1>1, Zenon DEF WellFormed, Frame, Contiguous
<1>3. Len(frames) \in Nat
  BY <1>2
<1>4. Wins(w, Len(frames), frames)
  BY <1>3, WinsExist, Zenon
<1>5. \A n \in 1..Len(frames) : w[n].taken # w[n - 1].taken <=> IsNew(n, frames)
  BY <1>2, <1>4, TakenWhenNew
<1> QED
  BY <1>5, Zenon DEF NumbersTakenOnce, IsNew, Wins

-----------------------------------------------------------------------------
(* The fragments of a packet.                                              *)
Wires == Seq(Wire)
Reassemblers ==
  [frame : Nat, expected : Nat, count : Nat, buffer : Wires, packets : Seq(Wires)]
Packets == {p \in Wires : Len(p) \in 1..MaxPacket}

(* One of the two sides takes a fragment.                                  *)
Takers == {"device", "mac"}
Takes1(side, r, f) == IF side = "device" THEN Accepts(r, f) ELSE MacAccepts(r, f)

(* n fragments of a packet have come after the packets done.               *)
Progress(r, p, frame, n, done) ==
  LET count == FragmentCount(Len(p))
  IN /\ r \in Reassemblers
     /\ n = 0 => r.packets = done
     /\ n = count => r.packets = Append(done, p)
     /\ n \in 1..count - 1 =>
          /\ r.frame = frame /\ r.expected = n /\ r.count = count
          /\ r.buffer = SubSeq(p, 1, n * Chunk) /\ r.packets = done

(* As many fragments as it takes, and none without a byte.                 *)
LEMMA EnoughFragments ==
  ASSUME NEW length \in 1..MaxPacket
  PROVE  LET count == FragmentCount(length)
         IN /\ count \in Nat \ {0}
            /\ (count - 1) * Chunk < length /\ length <= count * Chunk
<1>1. length \in Nat /\ length # 0 /\ length <= 512
  BY DEF MaxPacket
<1>2. FragmentCount(length) = (length + 238) \div 239 /\ Chunk = 239
  BY <1>1 DEF FragmentCount, Chunk, GattLimit, FrameHeader
<1>3. \A n \in Nat \ {0} : LET c == (n + 238) \div 239
                          IN c \in Nat \ {0} /\ (c - 1) * 239 < n /\ n <= c * 239
  OBVIOUS
<1> QED
  BY <1>1, <1>2, <1>3

(* What the (n + 1)-th fragment carries, and where it ends.                *)
Ends(p, n) == IF n + 1 = FragmentCount(Len(p)) THEN Len(p) ELSE (n + 1) * Chunk
Carries(f, p, frame, n) ==
  /\ f.frame = frame /\ f.index = n /\ f.count = FragmentCount(Len(p))
  /\ f.data = SubSeq(p, n * Chunk + 1, Ends(p, n)) /\ f.data \in Wires /\ f.data # <<>>
  /\ FragmentCount(Len(p)) \in Nat \ {0} /\ n * Chunk \in Nat
  /\ Ends(p, n) \in Nat /\ n * Chunk < Ends(p, n) /\ Ends(p, n) <= Len(p)
  /\ SubSeq(p, 1, n * Chunk) \in Wires /\ Len(SubSeq(p, 1, n * Chunk)) = n * Chunk
  /\ Len(f.data) = Ends(p, n) - n * Chunk
  /\ SubSeq(p, 1, n * Chunk) \o f.data = SubSeq(p, 1, Ends(p, n))

(* Every fragment carries that.                                            *)
LEMMA FragmentParts ==
  ASSUME NEW p \in Packets, NEW frame \in Nat, NEW n \in Nat, n < FragmentCount(Len(p))
  PROVE  Carries(Fragments(p, frame)[n + 1], p, frame, n)
<1> DEFINE f == Fragments(p, frame)[n + 1]
           count == FragmentCount(Len(p))
           end == Ends(p, n)
           at == n * Chunk
<1>1. p \in Wires /\ Len(p) \in 1..MaxPacket /\ Len(p) \in Nat
  BY DEF Packets, Wires
<1>2. count \in Nat \ {0} /\ (count - 1) * Chunk < Len(p) /\ Len(p) <= count * Chunk
  BY <1>1, EnoughFragments
<1>3. Chunk = 239
  BY DEF Chunk, GattLimit, FrameHeader
<1>4. \A c, l \in Nat : n < c /\ (c - 1) * 239 < l /\ l <= c * 239 =>
        /\ n * 239 < l /\ (n + 1 = c => Min2((n + 1) * 239, l) = l)
        /\ (n + 1 # c => (n + 1) * 239 <= l /\ Min2((n + 1) * 239, l) = (n + 1) * 239)
  BY DEF Min2
<1>5. at < Len(p) /\ Min2((n + 1) * Chunk, Len(p)) = end /\ end <= Len(p) /\ at < end
      /\ at \in Nat /\ end \in Nat
  <2> HIDE DEF count
  <2>1. n < count
    BY DEF count
  <2>2. (count - 1) * 239 < Len(p) /\ Len(p) <= count * 239 /\ count \in Nat
    BY <1>2, <1>3
  <2>3. /\ n * 239 < Len(p) /\ (n + 1 = count => Min2((n + 1) * 239, Len(p)) = Len(p))
        /\ n + 1 # count => /\ (n + 1) * 239 <= Len(p)
                            /\ Min2((n + 1) * 239, Len(p)) = (n + 1) * 239
    BY <1>1, <1>4, <2>1, <2>2
  <2>4. n * 239 < (n + 1) * 239 /\ n * 239 \in Nat /\ (n + 1) * 239 \in Nat
    OBVIOUS
  <2>5. CASE n + 1 = count
    BY <1>1, <1>3, <2>3, <2>4, <2>5 DEF count, Ends
  <2>6. CASE n + 1 # count
    BY <1>1, <1>3, <2>3, <2>4, <2>6 DEF count, Ends
  <2> QED
    BY <2>5, <2>6
<1>6. f = [frame |-> frame, index |-> (n + 1) - 1, count |-> count,
           data |-> SubSeq(p, ((n + 1) - 1) * Chunk + 1, Min2((n + 1) * Chunk, Len(p)))]
  <2>1. n + 1 \in 1..count
    BY <1>2
  <2> QED
    BY <2>1, Zenon DEF Fragments
<1>7. f.frame = frame /\ f.index = n /\ f.count = count /\ f.data = SubSeq(p, at + 1, end)
  <2>1. (n + 1) - 1 = n
    OBVIOUS
  <2> HIDE DEF f
  <2> QED
    BY <1>5, <1>6, <2>1
<1> HIDE DEF f, count, end, at
<1>8. SubSeq(p, at + 1, end) \in Wires /\ Len(SubSeq(p, at + 1, end)) = end - at
  <2>1. \A i \in at + 1..end : p[i] \in Wire
    BY <1>1, <1>5 DEF Wires
  <2> QED
    BY <1>5, <2>1, SubSeqProperties DEF Wires
<1>9. SubSeq(p, 1, at) \in Wires /\ Len(SubSeq(p, 1, at)) = at
  <2>1. \A i \in 1..at : p[i] \in Wire
    BY <1>1, <1>5 DEF Wires
  <2> QED
    BY <1>5, <2>1, SubSeqProperties DEF Wires
<1>10. SubSeq(p, 1, at) \o SubSeq(p, at + 1, end) = SubSeq(p, 1, end)
  <2>1. 1 \in 1..Len(p) + 1 /\ at \in 1 - 1..Len(p) /\ end \in at..Len(p)
    BY <1>1, <1>5
  <2> QED
    BY <1>1, <2>1, ConcatAdjacentSubSeq DEF Wires
<1>11. f.data # <<>>
  <2>1. Len(<<>>) = 0 /\ end - at # 0
    BY <1>5
  <2>2. Len(f.data) # 0
    BY <1>7, <1>8, <2>1
  <2> QED
    BY <2>1, <2>2
<1> QED
  BY <1>2, <1>5, <1>7, <1>8, <1>9, <1>10, <1>11 DEF f, count, end, at, Carries

(* What a side is after it: it has all bytes so far, and at the end the    *)
(* packet.                                                                 *)
Took(t, r, p, frame, n, done) ==
  LET count == FragmentCount(Len(p))
  IN /\ t \in Reassemblers
     /\ t.frame = frame /\ t.expected = n + 1 /\ t.count = count
     /\ n + 1 # count => t.buffer = SubSeq(p, 1, (n + 1) * Chunk)
     /\ t.buffer # <<>>
     /\ t.packets = IF n + 1 = count THEN Append(done, p) ELSE done
     /\ r.packets = done

(* One fragment more on the device.                                        *)
LEMMA DeviceTakes ==
  ASSUME NEW p \in Packets, NEW frame \in Nat, NEW n \in Nat, n < FragmentCount(Len(p)),
         NEW done, NEW r, Progress(r, p, frame, n, done)
  PROVE  Took(Accepts(r, Fragments(p, frame)[n + 1]), r, p, frame, n, done)
<1> DEFINE f == Fragments(p, frame)[n + 1]
           count == FragmentCount(Len(p))
           end == Ends(p, n)
           s == IF f.index = 0
                THEN [r EXCEPT !.frame = f.frame, !.expected = 0, !.count = f.count, !.buffer = <<>>]
                ELSE r
           t == [s EXCEPT !.buffer = @ \o f.data, !.expected = @ + 1]
           u == Accepts(r, f)
<1>1. /\ f.frame = frame /\ f.index = n /\ f.count = count
      /\ f.data = SubSeq(p, n * Chunk + 1, end) /\ f.data \in Wires /\ f.data # <<>>
      /\ count \in Nat \ {0} /\ n * Chunk \in Nat /\ n * Chunk < end /\ end <= Len(p)
      /\ end \in Nat
      /\ SubSeq(p, 1, n * Chunk) \in Wires /\ Len(SubSeq(p, 1, n * Chunk)) = n * Chunk
      /\ Len(f.data) = end - n * Chunk
      /\ SubSeq(p, 1, n * Chunk) \o f.data = SubSeq(p, 1, end)
  <2>1. Carries(f, p, frame, n)
    BY FragmentParts
  <2> HIDE DEF f
  <2> QED
    BY <2>1 DEF Carries
<1>2. u = IF s.frame # f.frame \/ s.count # f.count \/ s.expected # f.index
             \/ Len(s.buffer) + Len(f.data) > MaxPacket
          THEN [s EXCEPT !.buffer = <<>>]
          ELSE IF t.expected = t.count THEN [t EXCEPT !.packets = Append(@, t.buffer)] ELSE t
  BY DEF Accepts
<1>3. r \in Reassemblers /\ r.packets = done /\ n < count
  BY <1>1 DEF Progress
<1> HIDE DEF f, u
<1>4. p \in Wires /\ Len(p) \in Nat /\ Len(p) <= MaxPacket /\ MaxPacket = 512
  <2>1. p \in Wires /\ Len(p) \in 1..MaxPacket
    BY DEF Packets
  <2>2. MaxPacket = 512
    BY DEF MaxPacket
  <2>3. \A m \in Nat : \A x \in 1..m : x \in Nat /\ x <= m
    OBVIOUS
  <2>4. MaxPacket \in Nat
    BY <2>2
  <2>5. Len(p) \in Nat /\ Len(p) <= MaxPacket
    BY <2>1, <2>3, <2>4, Zenon
  <2> QED
    BY <2>1, <2>2, <2>5, Zenon
<1>5. /\ s \in Reassemblers /\ s.frame = frame /\ s.expected = n /\ s.count = count
      /\ s.buffer = SubSeq(p, 1, n * Chunk) /\ s.packets = done
  <2>1. CASE n = 0
    <3>1. s = [r EXCEPT !.frame = frame, !.expected = 0, !.count = count, !.buffer = <<>>]
      BY <1>1, <2>1
    <3>2. 0 * Chunk = 0
      BY DEF Chunk, GattLimit, FrameHeader
    <3>3. SubSeq(p, 1, 0) = <<>>
      BY SubSeqEmpty
    <3>4. <<>> \in Wires
      BY DEF Wires
    <3> HIDE DEF count, s
    <3> QED
      BY <1>1, <1>3, <2>1, <3>1, <3>2, <3>3, <3>4 DEF Reassemblers
  <2>2. CASE n # 0
    <3>1. s = r
      BY <1>1, <2>2
    <3>2. n \in 1..count - 1
      BY <1>1, <1>3, <2>2
    <3> QED
      BY <1>3, <3>1, <3>2 DEF Progress
  <2> QED
    BY <2>1, <2>2
<1> HIDE DEF s, count
<1>6. Len(s.buffer) + Len(f.data) = end
  <2>1. \A a, b \in Nat : a + (b - a) = b
    OBVIOUS
  <2> HIDE DEF end
  <2> QED
    BY <1>1, <1>5, <2>1
<1>7. u = IF t.expected = t.count THEN [t EXCEPT !.packets = Append(@, t.buffer)] ELSE t
  <2>1. ~(end > MaxPacket)
    <3> HIDE DEF end
    <3> QED
      BY <1>1, <1>4
  <2> HIDE DEF end
  <2> QED
    BY <1>1, <1>2, <1>5, <1>6, <2>1
<1>8. /\ t \in Reassemblers /\ t.frame = frame /\ t.count = count /\ t.packets = done
      /\ t.expected = n + 1 /\ t.buffer = SubSeq(p, 1, end)
  <2>1. s.buffer \o f.data \in Wires /\ s.expected + 1 \in Nat
    <3>1. s.buffer \in Wires /\ s.expected \in Nat
      BY <1>5 DEF Reassemblers
    <3>2. f.data \in Seq(Wire) /\ s.buffer \in Seq(Wire)
      BY <1>1, <3>1 DEF Wires
    <3>3. s.buffer \o f.data \in Seq(Wire)
      BY <3>2, ConcatProperties
    <3> QED
      BY <3>1, <3>3 DEF Wires
  <2>2. t \in Reassemblers /\ t.frame = s.frame /\ t.count = s.count /\ t.packets = s.packets
        /\ t.expected = s.expected + 1 /\ t.buffer = s.buffer \o f.data
    BY <1>5, <2>1 DEF Reassemblers
  <2> QED
    BY <1>1, <1>5, <2>2
<1> HIDE DEF t
<1>9. t.buffer # <<>>
  <2>1. f.data \in Seq(Wire) /\ s.buffer \in Seq(Wire)
    <3>1. f.data \in Wires /\ s.buffer \in Wires
      BY <1>1, <1>5 DEF Reassemblers
    <3> QED
      BY <3>1 DEF Wires
  <2>2. t.buffer = s.buffer \o f.data
    BY <1>1, <1>5, <1>8
  <2> QED
    BY <1>1, <2>1, <2>2, ConcatEqualIffEmpty
<1>10. CASE n + 1 = count
  <2>1. u = [t EXCEPT !.packets = Append(@, t.buffer)]
    BY <1>7, <1>8, <1>10
  <2>2. SubSeq(p, 1, end) = p
    <3>1. end = Len(p) /\ p \in Seq(Wire)
      BY <1>4, <1>10 DEF Wires, Ends, count
    <3> QED
      BY <3>1, SubSeqFull
  <2>3. Append(t.packets, t.buffer) \in Seq(Wires) /\ t.packets \in Seq(Wires)
    <3>1. t.packets \in Seq(Wires) /\ t.buffer \in Wires
      BY <1>8 DEF Reassemblers
    <3> QED
      BY <3>1, AppendProperties
  <2>4. u \in Reassemblers /\ u.frame = t.frame /\ u.count = t.count /\ u.expected = t.expected
        /\ u.buffer = t.buffer /\ u.packets = Append(t.packets, t.buffer)
    BY <1>8, <2>1, <2>3 DEF Reassemblers
  <2> QED
    BY <1>3, <1>8, <1>9, <1>10, <2>2, <2>4 DEF u, f, count, Took
<1>11. CASE n + 1 # count
  <2>1. u = t
    BY <1>7, <1>8, <1>11
  <2>2. end = (n + 1) * Chunk
    BY <1>11 DEF Ends, count
  <2> QED
    BY <1>3, <1>8, <1>9, <1>11, <2>1, <2>2 DEF u, f, count, Took
<1> QED
  BY <1>10, <1>11

(* One fragment more on either side; the Mac forgets what it completed.    *)
LEMMA SideTakes ==
  ASSUME NEW side \in Takers, NEW p \in Packets, NEW frame \in Nat,
         NEW n \in Nat, n < FragmentCount(Len(p)),
         NEW done, NEW r, Progress(r, p, frame, n, done)
  PROVE  Progress(Takes1(side, r, Fragments(p, frame)[n + 1]), p, frame, n + 1, done)
<1> DEFINE f == Fragments(p, frame)[n + 1]
           count == FragmentCount(Len(p))
           t == Accepts(r, f)
<1>1. /\ t \in Reassemblers
      /\ t.frame = frame /\ t.expected = n + 1 /\ t.count = count
      /\ n + 1 # count => t.buffer = SubSeq(p, 1, (n + 1) * Chunk)
      /\ t.buffer # <<>>
      /\ t.packets = IF n + 1 = count THEN Append(done, p) ELSE done
      /\ r.packets = done
  <2>1. Took(t, r, p, frame, n, done)
    BY DeviceTakes
  <2> HIDE DEF t
  <2> QED
    BY <2>1 DEF Took
<1>2. r \in Reassemblers /\ done \in Seq(Wires) /\ count \in Nat
  <2>1. r \in Reassemblers
    BY DEF Progress
  <2>2. Len(p) \in 1..MaxPacket
    BY DEF Packets
  <2> QED
    BY <1>1, <2>1, <2>2, EnoughFragments DEF Reassemblers
<1> HIDE DEF t, f
<1>3. Progress(t, p, frame, n + 1, done)
  <2> HIDE DEF count
  <2>1. n + 1 # 0 /\ (n + 1 \in 1..count - 1 => n + 1 # count)
    BY <1>2
  <2> USE DEF count
  <2> QED
    BY <1>1, <2>1 DEF Progress
<1>4. CASE side = "device"
  BY <1>3, <1>4 DEF Takes1, t, f
<1>5. CASE side = "mac"
  <2> DEFINE fresh == [FreshReassembler EXCEPT !.packets = r.packets]
             m == MacAccepts(r, f)
  <2>1. m = IF t.packets # r.packets THEN [fresh EXCEPT !.packets = t.packets]
            ELSE IF t.buffer = <<>> /\ f.data # <<>> THEN fresh ELSE t
    BY DEF MacAccepts, t
  <2> HIDE DEF m
  <2>2. CASE n + 1 = count
    <3>1. Append(done, p) # done
      <4>1. p \in Wires
        BY DEF Packets
      <4>2. Len(Append(done, p)) = Len(done) + 1 /\ Len(done) \in Nat
        BY <1>2, <4>1, AppendProperties
      <4> QED
        BY <4>2
    <3>2. m = [fresh EXCEPT !.packets = t.packets]
      BY <1>1, <2>1, <2>2, <3>1
    <3>3. t.packets \in Seq(Wires)
      BY <1>1 DEF Reassemblers
    <3>4. m = [frame |-> 0, expected |-> 0, count |-> 0, buffer |-> <<>>, packets |-> t.packets]
      BY <3>2 DEF FreshReassembler
    <3>5. m \in Reassemblers /\ m.packets = t.packets
      <4>1. <<>> \in Wires
        BY DEF Wires
      <4> QED
        BY <3>3, <3>4, <4>1 DEF Reassemblers
    <3>6. n + 1 # 0 /\ ~(n + 1 \in 1..count - 1)
      <4> HIDE DEF count
      <4> QED
        BY <1>2, <2>2
    <3>7. Progress(m, p, frame, n + 1, done)
      BY <1>1, <2>2, <3>5, <3>6 DEF Progress
    <3> QED
      BY <1>5, <3>7 DEF Takes1, m, f
  <2>3. CASE n + 1 # count
    <3>1. m = t
      BY <1>1, <2>1, <2>3
    <3> QED
      BY <1>3, <1>5, <3>1 DEF Takes1, m, f
  <2> QED
    BY <2>2, <2>3
<1> QED
  BY <1>4, <1>5 DEF Takers

(* The states of a side after each of the fragments.                       *)
RunsUpto(side, r, n, F) ==
  r = [k \in 0..n |-> IF k = 0 THEN FreshReassembler ELSE Takes1(side, r[k - 1], F[k])]
Runs(side, r, F) == RunsUpto(side, r, Len(F), F)
RunsDevice(r, F) ==
  r = [k \in 0..Len(F) |-> IF k = 0 THEN FreshReassembler ELSE Accepts(r[k - 1], F[k])]
RunsMac(r, F) ==
  r = [k \in 0..Len(F) |-> IF k = 0 THEN FreshReassembler ELSE MacAccepts(r[k - 1], F[k])]

(* There are some for any fragments.                                       *)
LEMMA RunsExist ==
  ASSUME NEW side, NEW F, Len(F) \in Nat
  PROVE  \E r : Runs(side, r, F)
<1> DEFINE T == {n \in Nat : \E r : RunsUpto(side, r, n, F)}
<1>1. 0 \in T
  <2>1. RunsUpto(side, [k \in 0..0 |-> FreshReassembler], 0, F)
    BY DEF RunsUpto
  <2> QED
    BY <2>1
<1>2. ASSUME NEW n \in Nat, n \in T PROVE n + 1 \in T
  <2>1. PICK g : RunsUpto(side, g, n, F)
    BY <1>2
  <2> DEFINE h == [k \in 0..n + 1 |->
                     IF k = n + 1 THEN Takes1(side, g[n], F[n + 1]) ELSE g[k]]
  <2>2. \A k \in 0..n + 1 :
          h[k] = IF k = 0 THEN FreshReassembler ELSE Takes1(side, h[k - 1], F[k])
    <3> TAKE k \in 0..n + 1
    <3>1. CASE k = n + 1
      BY <3>1
    <3>2. CASE k # n + 1
      <4>1. k \in 0..n
        BY <3>2
      <4>2. g[k] = IF k = 0 THEN FreshReassembler ELSE Takes1(side, g[k - 1], F[k])
        BY <2>1, <4>1 DEF RunsUpto
      <4> QED
        BY <3>2, <4>1, <4>2
    <3> QED
      BY <3>1, <3>2
  <2>3. RunsUpto(side, h, n + 1, F)
    BY <2>2 DEF RunsUpto
  <2> QED
    BY <2>3
<1> HIDE DEF T
<1>3. \A n \in Nat : n \in T
  BY <1>1, <1>2, AllNumbers
<1> QED
  BY <1>3 DEF T, Runs

(* The packets of Reassembled are those of the last state.                 *)
LEMMA ReassembledIsRun ==
  ASSUME NEW F, Len(F) \in Nat
  PROVE  /\ \E r : Runs("device", r, F) /\ Reassembled(Accepts, F) = r[Len(F)].packets
         /\ \E r : Runs("mac", r, F) /\ Reassembled(MacAccepts, F) = r[Len(F)].packets
<1> DEFINE d == CHOOSE r : RunsDevice(r, F)
           m == CHOOSE r : RunsMac(r, F)
<1>1. \A r : (Runs("device", r, F) <=> RunsDevice(r, F)) /\ (Runs("mac", r, F) <=> RunsMac(r, F))
  BY DEF Runs, RunsUpto, RunsDevice, RunsMac, Takes1
<1>2. (\E r : Runs("device", r, F)) /\ (\E r : Runs("mac", r, F))
  BY RunsExist
<1>3. RunsDevice(d, F) /\ RunsMac(m, F)
  BY <1>1, <1>2, Zenon
<1>4. Reassembled(Accepts, F) = d[Len(F)].packets
  BY Zenon DEF Reassembled, RunsDevice
<1>5. Reassembled(MacAccepts, F) = m[Len(F)].packets
  BY Zenon DEF Reassembled, RunsMac
<1> HIDE DEF d, m
<1> QED
  BY <1>1, <1>3, <1>4, <1>5, Zenon

(* A side makes progress with the first stop fragments of a packet that    *)
(* come after the first "from" of all fragments.                           *)
LEMMA RunProgress ==
  ASSUME NEW side \in Takers, NEW F, Len(F) \in Nat, NEW r, Runs(side, r, F),
         NEW p \in Packets, NEW frame \in Nat, NEW from \in Nat, NEW stop \in Nat,
         stop <= FragmentCount(Len(p)), from + stop <= Len(F),
         \A k \in 1..stop : F[from + k] = Fragments(p, frame)[k],
         r[from] \in Reassemblers
  PROVE  \A n \in 0..stop : Progress(r[from + n], p, frame, n, r[from].packets)
<1> DEFINE done == r[from].packets
           count == FragmentCount(Len(p))
           T == {n \in Nat : n <= stop => Progress(r[from + n], p, frame, n, done)}
<1>1. count \in Nat \ {0}
  <2>1. Len(p) \in 1..MaxPacket
    BY DEF Packets
  <2> QED
    BY <2>1, EnoughFragments
<1>2. 0 \in T
  <2>1. from + 0 = from
    OBVIOUS
  <2> HIDE DEF count
  <2>2. 0 # count /\ ~(0 \in 1..count - 1)
    BY <1>1
  <2> USE DEF count
  <2>3. Progress(r[from], p, frame, 0, done)
    BY <2>2 DEF Progress
  <2> QED
    BY <2>1, <2>3
<1>3. ASSUME NEW n \in Nat, n \in T PROVE n + 1 \in T
  <2> SUFFICES ASSUME n + 1 <= stop PROVE Progress(r[from + (n + 1)], p, frame, n + 1, done)
    OBVIOUS
  <2> HIDE DEF count, done
  <2>1. n < count /\ n <= stop
    <3>1. stop <= count
      BY DEF count
    <3> QED
      BY <1>1, <3>1
  <2>2. Progress(r[from + n], p, frame, n, done)
    BY <1>3, <2>1
  <2>3. r[from + (n + 1)] = Takes1(side, r[from + n], Fragments(p, frame)[n + 1])
    <3>1. from + (n + 1) \in 0..Len(F) /\ from + (n + 1) # 0 /\ (from + (n + 1)) - 1 = from + n
      OBVIOUS
    <3>2. n + 1 \in 1..stop
      OBVIOUS
    <3>3. \A k \in 0..Len(F) :
            r[k] = IF k = 0 THEN FreshReassembler ELSE Takes1(side, r[k - 1], F[k])
      BY Zenon DEF Runs, RunsUpto
    <3>4. F[from + (n + 1)] = Fragments(p, frame)[n + 1]
      BY <3>2
    <3> QED
      BY <3>1, <3>3, <3>4
  <2>4. n < FragmentCount(Len(p))
    BY <2>1 DEF count
  <2> QED
    BY <2>2, <2>3, <2>4, SideTakes
<1> HIDE DEF T
<1>4. \A n \in Nat : n \in T
  BY <1>2, <1>3, AllNumbers
<1> QED
  BY <1>4 DEF T

(* The fragments of a packet are a sequence.                               *)
LEMMA FragmentsAreSeq ==
  ASSUME NEW p \in Packets, NEW frame
  PROVE  /\ FragmentCount(Len(p)) \in Nat \ {0}
         /\ Fragments(p, frame) \in Seq(Range(Fragments(p, frame)))
         /\ Len(Fragments(p, frame)) = FragmentCount(Len(p))
         /\ DOMAIN Fragments(p, frame) = 1..FragmentCount(Len(p))
<1> DEFINE count == FragmentCount(Len(p))
           F == Fragments(p, frame)
<1>1. count \in Nat \ {0}
  <2>1. Len(p) \in 1..MaxPacket
    BY DEF Packets
  <2> QED
    BY <2>1, EnoughFragments
<1>2. F = [i \in 1..count |-> F[i]]
  BY Zenon DEF Fragments
<1> HIDE DEF F, count
<1>3. DOMAIN F = 1..count
  BY <1>2
<1>4. \A i \in 1..count : F[i] \in Range(F)
  BY <1>3, Zenon DEF Range
<1>5. F \in Seq(Range(F)) /\ Len(F) = count
  BY <1>1, <1>2, <1>3, <1>4
<1> QED
  BY <1>1, <1>3, <1>5 DEF F, count

(* A packet alone arrives.                                                 *)
LEMMA PacketArrives ==
  ASSUME NEW p \in Packets, NEW frame \in Nat
  PROVE  /\ Reassembled(Accepts, Fragments(p, frame)) = <<p>>
         /\ Reassembled(MacAccepts, Fragments(p, frame)) = <<p>>
<1> DEFINE F == Fragments(p, frame)
           count == FragmentCount(Len(p))
<1>1. Len(F) = count /\ count \in Nat \ {0}
  BY FragmentsAreSeq
<1>2. Append(<<>>, p) = <<p>>
  OBVIOUS
<1>3. ASSUME NEW side \in Takers, NEW r, Runs(side, r, F)
      PROVE  r[Len(F)].packets = <<p>>
  <2> HIDE DEF F, count
  <2>1. r[0] = FreshReassembler
    <3>1. 0 \in 0..Len(F)
      BY <1>1
    <3> QED
      BY <1>3, <3>1 DEF Runs, RunsUpto
  <2>2. FreshReassembler \in Reassemblers /\ FreshReassembler.packets = <<>>
    BY DEF FreshReassembler, Reassemblers, Wires
  <2>3. \A n \in 0..count : Progress(r[0 + n], p, frame, n, r[0].packets)
    <3>1. count <= FragmentCount(Len(p)) /\ 0 + count <= Len(F) /\ 0 \in Nat
      BY <1>1 DEF count
    <3>2. \A k \in 1..count : F[0 + k] = Fragments(p, frame)[k]
      BY DEF F
    <3>3. Len(F) \in Nat /\ count \in Nat /\ r[0] \in Reassemblers
      BY <1>1, <2>1, <2>2
    <3> QED
      BY <1>3, <3>1, <3>2, <3>3, RunProgress
  <2>4. 0 + count = count /\ count \in 0..count
    BY <1>1
  <2>5. Progress(r[count], p, frame, count, <<>>)
    BY <2>1, <2>2, <2>3, <2>4
  <2>6. r[count].packets = Append(<<>>, p)
    BY <2>5 DEF Progress, count
  <2> QED
    BY <1>1, <1>2, <2>6
<1>4. /\ \E r : Runs("device", r, F) /\ Reassembled(Accepts, F) = r[Len(F)].packets
      /\ \E r : Runs("mac", r, F) /\ Reassembled(MacAccepts, F) = r[Len(F)].packets
  <2>1. Len(F) \in Nat
    BY <1>1
  <2> QED
    BY <2>1, ReassembledIsRun
<1>5. "device" \in Takers /\ "mac" \in Takers
  BY DEF Takers
<1> HIDE DEF F
<1>6. Reassembled(Accepts, F) = <<p>> /\ Reassembled(MacAccepts, F) = <<p>>
  BY <1>3, <1>4, <1>5
<1> QED
  BY <1>6 DEF F

(* To append to one.                                                       *)
LEMMA AppendOne ==
  ASSUME NEW a, NEW b
  PROVE  Append(<<a>>, b) = <<a, b>>
<1> DEFINE S == {a, b}
           s == Append(<<a>>, b)
           t == <<a, b>>
<1>1. <<a>> \in Seq(S) /\ b \in S /\ t \in Seq(S) /\ Len(<<a>>) = 1 /\ <<a>>[1] = a
  OBVIOUS
<1>2. t[1] = a /\ t[2] = b /\ Len(t) = 2
  OBVIOUS
<1>3. s \in Seq(S) /\ Len(s) = 2 /\ s[1] = a /\ s[2] = b
  <2> HIDE DEF S
  <2> QED
    BY <1>1, AppendProperties
<1>4. \A i \in 1..2 : i = 1 \/ i = 2
  OBVIOUS
<1> HIDE DEF s, t, S
<1>5. s = t
  BY <1>1, <1>2, <1>3, <1>4, SeqEqual
<1> QED
  BY <1>5 DEF s, t

(* Of a packet cut short nothing arrives, and the next one does.           *)
LEMMA SecondArrives ==
  ASSUME NEW first \in Packets, NEW second \in Packets,
         NEW cut \in 0..FragmentCount(Len(first))
  PROVE  LET sent == SubSeq(Fragments(first, 1), 1, cut) \o Fragments(second, 2)
             whole == IF cut = FragmentCount(Len(first)) THEN <<first, second>> ELSE <<second>>
         IN Reassembled(Accepts, sent) = whole /\ Reassembled(MacAccepts, sent) = whole
<1> DEFINE A == Fragments(first, 1)
           B == Fragments(second, 2)
           C == SubSeq(A, 1, cut)
           F == C \o B
           whole == IF cut = FragmentCount(Len(first)) THEN <<first, second>> ELSE <<second>>
           ca == FragmentCount(Len(first))
           cb == FragmentCount(Len(second))
<1>1. A \in Seq(Range(A)) /\ Len(A) = ca /\ ca \in Nat \ {0}
  BY FragmentsAreSeq
<1>2. B \in Seq(Range(B)) /\ Len(B) = cb /\ cb \in Nat \ {0}
  BY FragmentsAreSeq
<1>3. cut \in Nat /\ cut <= ca
  BY <1>1
<1> HIDE DEF A, B, ca, cb
<1>4. C \in Seq(Range(A)) /\ Len(C) = cut /\ \A k \in 1..cut : C[k] = A[k]
  <2>1. \A i \in 1..cut : A[i] \in Range(A)
    BY <1>1, <1>3
  <2> QED
    BY <1>1, <1>3, <2>1, SubSeqProperties
<1> HIDE DEF C
<1>5. /\ Len(F) = cut + cb
      /\ \A k \in 1..cut : F[k] = A[k]
      /\ \A k \in 1..cb : F[cut + k] = B[k]
  <2> DEFINE S == Range(A) \cup Range(B)
  <2>1. C \in Seq(S) /\ B \in Seq(S)
    BY <1>2, <1>4
  <2> HIDE DEF S
  <2>2. /\ Len(F) = Len(C) + Len(B)
        /\ \A i \in 1..Len(C) + Len(B) : F[i] = IF i <= Len(C) THEN C[i] ELSE B[i - Len(C)]
    BY <2>1, ConcatProperties
  <2>3. ASSUME NEW k \in 1..cut PROVE F[k] = A[k]
    BY <1>2, <1>3, <1>4, <2>2, <2>3
  <2>4. ASSUME NEW k \in 1..cb PROVE F[cut + k] = B[k]
    <3>1. cut + k \in 1..cut + cb /\ ~(cut + k <= cut) /\ (cut + k) - cut = k
      BY <1>2, <1>3
    <3> QED
      BY <1>2, <1>4, <2>2, <3>1
  <2> QED
    BY <1>2, <1>4, <2>2, <2>3, <2>4
<1> HIDE DEF F
<1>6. ASSUME NEW side \in Takers, NEW r, Runs(side, r, F)
      PROVE  r[Len(F)].packets = whole
  <2>1. r[0] = FreshReassembler
    <3>1. 0 \in 0..Len(F)
      BY <1>2, <1>3, <1>5
    <3> QED
      BY <1>6, <3>1 DEF Runs, RunsUpto
  <2>2. FreshReassembler \in Reassemblers /\ FreshReassembler.packets = <<>>
    BY DEF FreshReassembler, Reassemblers, Wires
  <2>3. Len(F) \in Nat /\ 0 + cut <= Len(F) /\ cut + cb <= Len(F)
    BY <1>2, <1>3, <1>5
  <2>4. Progress(r[cut], first, 1, cut, <<>>)
    <3>1. \A k \in 1..cut : F[0 + k] = Fragments(first, 1)[k]
      BY <1>3, <1>5 DEF A
    <3>2. cut <= FragmentCount(Len(first)) /\ 0 \in Nat /\ r[0] \in Reassemblers /\ 1 \in Nat
      BY <1>3, <2>1, <2>2 DEF ca
    <3>3. \A n \in 0..cut : Progress(r[0 + n], first, 1, n, r[0].packets)
      BY <1>3, <1>6, <2>3, <3>1, <3>2, RunProgress
    <3>4. cut \in 0..cut /\ 0 + cut = cut
      BY <1>3
    <3> QED
      BY <2>1, <2>2, <3>3, <3>4
  <2>5. r[cut] \in Reassemblers /\ r[cut].packets = IF cut = ca THEN <<first>> ELSE <<>>
    <3>1. cut = 0 \/ cut = ca \/ cut \in 1..ca - 1
      BY <1>1, <1>3
    <3>2. Append(<<>>, first) = <<first>> /\ ~(ca = 0) /\ (cut \in 1..ca - 1 => cut # ca)
      BY <1>1, <1>3
    <3> QED
      BY <2>4, <3>1, <3>2 DEF Progress, ca
  <2>6. Progress(r[cut + cb], second, 2, cb, r[cut].packets)
    <3>1. cb <= FragmentCount(Len(second)) /\ cb \in Nat /\ 2 \in Nat
      BY <1>2 DEF cb
    <3>2. \A k \in 1..cb : F[cut + k] = Fragments(second, 2)[k]
      BY <1>5 DEF B
    <3>3. \A n \in 0..cb : Progress(r[cut + n], second, 2, n, r[cut].packets)
      BY <1>3, <1>6, <2>3, <2>5, <3>1, <3>2, RunProgress
    <3>4. cb \in 0..cb
      BY <1>2
    <3> QED
      BY <3>3, <3>4
  <2>7. r[cut + cb].packets = Append(r[cut].packets, second)
    BY <2>6 DEF Progress, cb
  <2>8. Append(<<first>>, second) = <<first, second>> /\ Append(<<>>, second) = <<second>>
    BY AppendOne
  <2> QED
    BY <1>5, <2>5, <2>7, <2>8 DEF ca
<1>7. /\ \E r : Runs("device", r, F) /\ Reassembled(Accepts, F) = r[Len(F)].packets
      /\ \E r : Runs("mac", r, F) /\ Reassembled(MacAccepts, F) = r[Len(F)].packets
  <2>1. Len(F) \in Nat
    BY <1>2, <1>3, <1>5
  <2> QED
    BY <2>1, ReassembledIsRun
<1>8. "device" \in Takers /\ "mac" \in Takers
  BY DEF Takers
<1>9. Reassembled(Accepts, F) = whole /\ Reassembled(MacAccepts, F) = whole
  BY <1>6, <1>7, <1>8
<1> QED
  BY <1>9 DEF F, C, A, B

-----------------------------------------------------------------------------
(* The packets of a stream.                                                *)
StreamPackets == {p \in Strings : Len(p) \in 1..MaxWifiPacket}
Framed(p) == <<Len(p) \div 256, Len(p) % 256>> \o p

(* A packet lies behind its length in the bytes s, from a on.              *)
LiesAt(s, a, p) ==
  /\ a \in Nat \ {0} /\ a + 1 + Len(p) <= Len(s)
  /\ s[a] = Len(p) \div 256 /\ s[a + 1] = Len(p) % 256
  /\ \A i \in 1..Len(p) : s[a + 1 + i] = p[i]

(* A length that a packet may have fits two bytes.                         *)
LEMMA StreamLengths ==
  ASSUME NEW p \in StreamPackets
  PROVE  /\ p \in Strings /\ Len(p) \in Nat \ {0} /\ Len(p) < 65536
         /\ Len(p) \div 256 \in Byte /\ Len(p) % 256 \in Byte
         /\ 256 * (Len(p) \div 256) + (Len(p) % 256) = Len(p)
<1>1. p \in Strings /\ Len(p) \in 1..MaxWifiPacket
  BY DEF StreamPackets
<1>2. MaxWifiPacket = 826
  BY DEF MaxWifiPacket, WifiHeader, MaxWifiPayload, WifiTag
<1>3. \A m \in Nat : \A x \in 1..m : x \in Nat \ {0} /\ x <= m
  OBVIOUS
<1>4. MaxWifiPacket \in Nat
  BY <1>2
<1>5. Len(p) \in Nat \ {0} /\ Len(p) <= MaxWifiPacket
  BY <1>1, <1>3, <1>4, Zenon
<1>6. \A n \in Nat : n <= 826 => /\ n < 65536 /\ n \div 256 \in Byte /\ n % 256 \in Byte
                                 /\ 256 * (n \div 256) + (n % 256) = n
  BY DEF Byte
<1>7. Len(p) \in Nat /\ Len(p) <= 826
  BY <1>2, <1>5
<1> QED
  BY <1>1, <1>5, <1>6, <1>7

(* A packet in its frame.                                                  *)
LEMMA FramedBytes ==
  ASSUME NEW p \in StreamPackets
  PROVE  /\ Framed(p) \in Strings /\ Len(Framed(p)) = Len(p) + 2
         /\ Framed(p)[1] = Len(p) \div 256 /\ Framed(p)[2] = Len(p) % 256
         /\ \A i \in 1..Len(p) : Framed(p)[i + 2] = p[i]
<1> DEFINE h == <<Len(p) \div 256, Len(p) % 256>>
<1>1. p \in Seq(Byte) /\ Len(p) \in Nat \ {0}
  BY StreamLengths DEF Strings
<1>2. h \in Seq(Byte) /\ Len(h) = 2 /\ h[1] = Len(p) \div 256 /\ h[2] = Len(p) % 256
  BY StreamLengths
<1> HIDE DEF h
<1>3. /\ h \o p \in Seq(Byte) /\ Len(h \o p) = Len(h) + Len(p)
      /\ \A i \in 1..Len(h) + Len(p) : (h \o p)[i] = IF i <= Len(h) THEN h[i] ELSE p[i - Len(h)]
  <2>1. h \in Seq(Byte) /\ p \in Seq(Byte)
    BY <1>1, <1>2
  <2> QED
    BY <2>1, ConcatProperties
<1>4. (h \o p)[1] = h[1] /\ (h \o p)[2] = h[2] /\ Len(h \o p) = Len(p) + 2
  BY <1>1, <1>2, <1>3
<1>5. ASSUME NEW i \in 1..Len(p) PROVE (h \o p)[i + 2] = p[i]
  <2>1. i + 2 \in 1..2 + Len(p) /\ ~(i + 2 <= 2) /\ (i + 2) - 2 = i
    BY <1>1
  <2> QED
    BY <1>2, <1>3, <2>1
<1>6. Framed(p) = h \o p
  BY DEF Framed, h
<1> QED
  BY <1>2, <1>3, <1>4, <1>5, <1>6 DEF Strings

(* What lies in the first bytes still does when others follow.             *)
LEMMA LiesBefore ==
  ASSUME NEW s \in Strings, NEW t \in Strings, NEW a, NEW p \in StreamPackets, LiesAt(s, a, p)
  PROVE  LiesAt(s \o t, a, p)
<1>1. s \in Seq(Byte) /\ t \in Seq(Byte) /\ Len(s) \in Nat /\ Len(t) \in Nat
  BY DEF Strings
<1>2. /\ Len(s \o t) = Len(s) + Len(t)
      /\ \A i \in 1..Len(s) + Len(t) : (s \o t)[i] = IF i <= Len(s) THEN s[i] ELSE t[i - Len(s)]
  BY <1>1, ConcatProperties
<1>3. a \in Nat \ {0} /\ a + 1 + Len(p) <= Len(s) /\ Len(p) \in Nat
  BY StreamLengths DEF LiesAt
<1>4. \A i \in Nat \ {0} : i <= Len(s) => (s \o t)[i] = s[i]
  BY <1>1, <1>2
<1>5. a <= Len(s) /\ a + 1 <= Len(s) /\ a + 1 \in Nat \ {0} /\ a + 1 + Len(p) <= Len(s \o t)
  BY <1>1, <1>2, <1>3
<1>6. ASSUME NEW i \in 1..Len(p) PROVE (s \o t)[a + 1 + i] = p[i]
  <2>1. a + 1 + i \in Nat \ {0} /\ a + 1 + i <= Len(s)
    BY <1>1, <1>3
  <2> QED
    BY <1>4, <2>1 DEF LiesAt
<1> QED
  BY <1>3, <1>4, <1>5, <1>6 DEF LiesAt

(* A frame that follows other bytes lies behind them.                      *)
LEMMA LiesAfter ==
  ASSUME NEW s \in Strings, NEW p \in StreamPackets
  PROVE  LiesAt(s \o Framed(p), Len(s) + 1, p)
<1> DEFINE t == Framed(p)
           a == Len(s) + 1
<1>1. /\ s \in Seq(Byte) /\ t \in Seq(Byte) /\ Len(s) \in Nat /\ Len(p) \in Nat
      /\ Len(t) = Len(p) + 2
      /\ t[1] = Len(p) \div 256 /\ t[2] = Len(p) % 256 /\ \A i \in 1..Len(p) : t[i + 2] = p[i]
  BY FramedBytes, StreamLengths DEF Strings
<1> HIDE DEF t
<1>2. /\ Len(s \o t) = Len(s) + Len(t)
      /\ \A i \in 1..Len(s) + Len(t) : (s \o t)[i] = IF i <= Len(s) THEN s[i] ELSE t[i - Len(s)]
  <2>1. s \in Seq(Byte) /\ t \in Seq(Byte)
    BY <1>1
  <2> QED
    BY <2>1, ConcatProperties
<1>3. \A i \in 1..Len(p) + 2 : (s \o t)[Len(s) + i] = t[i]
  <2> TAKE i \in 1..Len(p) + 2
  <2>1. Len(s) + i \in 1..Len(s) + Len(t) /\ ~(Len(s) + i <= Len(s)) /\ (Len(s) + i) - Len(s) = i
    BY <1>1
  <2> QED
    BY <1>2, <2>1
<1>4. (s \o t)[a] = t[1] /\ (s \o t)[a + 1] = t[2]
  <2>1. 1 \in 1..Len(p) + 2 /\ 2 \in 1..Len(p) + 2 /\ a + 1 = Len(s) + 2
    BY <1>1
  <2> QED
    BY <1>3, <2>1
<1>5. ASSUME NEW i \in 1..Len(p) PROVE (s \o t)[a + 1 + i] = p[i]
  <2>1. i + 2 \in 1..Len(p) + 2 /\ a + 1 + i = Len(s) + (i + 2)
    BY <1>1
  <2> QED
    BY <1>1, <1>3, <2>1
<1>6. a \in Nat \ {0} /\ a + 1 + Len(p) <= Len(s \o t)
  BY <1>1, <1>2
<1>7. LiesAt(s \o t, a, p)
  BY <1>1, <1>4, <1>5, <1>6 DEF LiesAt
<1> QED
  BY <1>7 DEF t

(* The first, the first two, ... of a sequence of sequences, one after the *)
(* other.                                                                  *)
Flats(f, n, F) == f = [i \in 1..n |-> IF i = 1 THEN F[i] ELSE f[i - 1] \o F[i]]

(* There are some.                                                         *)
LEMMA FlatsExist ==
  ASSUME NEW F
  PROVE  \A n \in Nat : \E f : Flats(f, n, F)
<1> DEFINE T == {n \in Nat : \E f : Flats(f, n, F)}
<1>1. 0 \in T
  <2>1. Flats([i \in 1..0 |-> <<>>], 0, F)
    BY DEF Flats
  <2> QED
    BY <2>1
<1>2. ASSUME NEW n \in Nat, n \in T PROVE n + 1 \in T
  <2>1. PICK g : Flats(g, n, F)
    BY <1>2
  <2> DEFINE h == [i \in 1..n + 1 |-> IF i = n + 1 THEN IF i = 1 THEN F[i] ELSE g[n] \o F[n + 1]
                                     ELSE g[i]]
  <2>2. \A i \in 1..n + 1 : h[i] = IF i = 1 THEN F[i] ELSE h[i - 1] \o F[i]
    <3> TAKE i \in 1..n + 1
    <3>1. CASE i = n + 1
      <4>1. CASE n = 0
        BY <3>1, <4>1
      <4>2. CASE n # 0
        <5>1. n \in 1..n + 1 /\ i - 1 = n /\ n # n + 1 /\ i # 1
          BY <3>1, <4>2
        <5>2. h[n] = g[n]
          BY <5>1
        <5> QED
          BY <3>1, <5>1, <5>2
      <4> QED
        BY <4>1, <4>2
    <3>2. CASE i # n + 1
      <4>1. i \in 1..n
        BY <3>2
      <4>2. g[i] = IF i = 1 THEN F[i] ELSE g[i - 1] \o F[i]
        BY <2>1, <4>1 DEF Flats
      <4> QED
        BY <3>2, <4>1, <4>2
    <3> QED
      BY <3>1, <3>2
  <2>3. Flats(h, n + 1, F)
    BY <2>2 DEF Flats
  <2> QED
    BY <2>3
<1> HIDE DEF T
<1>3. \A n \in Nat : n \in T
  BY <1>1, <1>2, AllNumbers
<1> QED
  BY <1>3 DEF T

(* FlattenSeq gives the last of them.                                      *)
LEMMA FlattenIsFlats ==
  ASSUME NEW F, Len(F) \in Nat, Len(F) # 0
  PROVE  \E f : Flats(f, Len(F), F) /\ FlattenSeq(F) = f[Len(F)]
<1> DEFINE f == CHOOSE f : Flats(f, Len(F), F)
<1>1. Flats(f, Len(F), F)
  BY FlatsExist, Zenon
<1>2. FlattenSeq(F) = f[Len(F)]
  BY Zenon DEF FlattenSeq, Flats
<1> HIDE DEF f
<1> QED
  BY <1>1, <1>2

(* What the sequences up to the n-th come to, and nothing before the first.*)
Flattens(g, F, n, S) ==
  /\ g[0] = <<>> /\ FlattenSeq(F) = g[n]
  /\ \A i \in Nat : i <= n => g[i] \in Seq(S)
  /\ \A i \in Nat : i < n => g[i + 1] = g[i] \o F[i + 1]

(* There is that for any number of them.                                   *)
LEMMA FlattenSteps ==
  ASSUME NEW S, NEW F, NEW n \in Nat, Len(F) = n, \A i \in 1..n : F[i] \in Seq(S),
         n = 0 => F = <<>>
  PROVE  \E g : Flattens(g, F, n, S)
<1>1. CASE n = 0
  <2>1. FlattenSeq(F) = <<>>
    BY <1>1, Zenon DEF FlattenSeq
  <2> DEFINE g == [i \in {0} |-> <<>>]
  <2>2. g[0] = <<>> /\ <<>> \in Seq(S) /\ (\A i \in Nat : i <= 0 => i = 0) /\ \A i \in Nat : ~(i < 0)
    OBVIOUS
  <2> HIDE DEF g
  <2> QED
    BY <1>1, <2>1, <2>2 DEF Flattens
<1>2. CASE n # 0
  <2>1. PICK f : Flats(f, n, F) /\ FlattenSeq(F) = f[n]
    BY <1>2, FlattenIsFlats
  <2> DEFINE g == [i \in 0..n |-> IF i = 0 THEN <<>> ELSE f[i]]
  <2>2. g[0] = <<>> /\ g[n] = f[n] /\ \A i \in 1..n : g[i] = f[i]
    BY <1>2
  <2> HIDE DEF g
  <2>3. \A i \in 1..n : f[i] = IF i = 1 THEN F[i] ELSE f[i - 1] \o F[i]
    BY <2>1, Zenon DEF Flats
  <2>4. ASSUME NEW i \in Nat, i < n PROVE g[i + 1] = g[i] \o F[i + 1]
    <3>1. i + 1 \in 1..n /\ (i + 1) - 1 = i
      BY <2>4
    <3>2. CASE i = 0
      <4>1. <<>> \o F[1] = F[1]
        BY <3>1, <3>2, ConcatEmptySeq
      <4> QED
        BY <2>2, <2>3, <3>1, <3>2, <4>1
    <3>3. CASE i # 0
      <4>1. i \in 1..n /\ i + 1 # 1
        BY <2>4, <3>3
      <4>2. f[i + 1] = f[i] \o F[i + 1]
        BY <2>3, <3>1, <4>1
      <4>3. g[i + 1] = f[i + 1] /\ g[i] = f[i]
        BY <2>2, <3>1, <4>1
      <4> QED
        BY <4>2, <4>3
    <3> QED
      BY <3>2, <3>3
  <2> DEFINE T == {i \in Nat : i <= n => g[i] \in Seq(S)}
  <2>5. 0 \in T
    <3>1. <<>> \in Seq(S)
      OBVIOUS
    <3> QED
      BY <2>2, <3>1
  <2>6. ASSUME NEW i \in Nat, i \in T PROVE i + 1 \in T
    <3> SUFFICES ASSUME i + 1 <= n PROVE g[i + 1] \in Seq(S)
      OBVIOUS
    <3>1. i < n /\ i <= n /\ i + 1 \in 1..n
      OBVIOUS
    <3>2. g[i] \in Seq(S) /\ F[i + 1] \in Seq(S)
      BY <2>6, <3>1
    <3>3. g[i] \o F[i + 1] \in Seq(S)
      BY <3>2, ConcatProperties
    <3> QED
      BY <2>4, <3>1, <3>3
  <2> HIDE DEF T
  <2>7. \A i \in Nat : i \in T
    BY <2>5, <2>6, AllNumbers
  <2>8. \A i \in Nat : i <= n => g[i] \in Seq(S)
    BY <2>7 DEF T
  <2> QED
    BY <2>1, <2>2, <2>4, <2>8 DEF Flattens
<1> QED
  BY <1>1, <1>2

(* The k-th packet lies from at[k - 1] to at[k] in the bytes of a stream.  *)
Laid(at, P, s) ==
  /\ at[0] = 1 /\ at[Len(P)] = Len(s) + 1
  /\ \A k \in Nat : k <= Len(P) => at[k] \in Nat \ {0}
  /\ \A k \in Nat : k < Len(P) =>
       LiesAt(s, at[k], P[k + 1]) /\ at[k + 1] = at[k] + 2 + Len(P[k + 1])

(* The bytes of a stream are its packets one after the other.              *)
LEMMA StreamIsLaid ==
  ASSUME NEW P \in Seq(StreamPackets)
  PROVE  TcpBytes(P) \in Strings /\ \E at : Laid(at, P, TcpBytes(P))
<1> DEFINE N == Len(P)
           F == [i \in 1..N |-> Framed(P[i])]
           s == TcpBytes(P)
<1>0. N \in Nat /\ \A i \in 1..N : P[i] \in StreamPackets
  OBVIOUS
<1> HIDE DEF N
<1>1. s = FlattenSeq(F)
  BY Zenon DEF TcpBytes, Framed, N
<1>2. \A i \in 1..N : F[i] = Framed(P[i])
  OBVIOUS
<1>3. Len(F) = N /\ (N = 0 => F = <<>>)
  BY <1>0
<1>4. \A i \in 1..N : F[i] \in Seq(Byte)
  <2> TAKE i \in 1..N
  <2>1. Framed(P[i]) \in Strings
    BY <1>0, FramedBytes
  <2> QED
    BY <1>2, <2>1 DEF Strings
<1> HIDE DEF F, s
<1>4a. PICK g : Flattens(g, F, N, Byte)
  BY <1>0, <1>3, <1>4, FlattenSteps
<1>5. /\ g[0] = <<>> /\ FlattenSeq(F) = g[N]
      /\ \A i \in Nat : i <= N => g[i] \in Seq(Byte)
      /\ \A i \in Nat : i < N => g[i + 1] = g[i] \o F[i + 1]
  BY <1>4a DEF Flattens
<1> DEFINE at == [k \in 0..N |-> Len(g[k]) + 1]
<1>6. \A k \in Nat : k <= N => at[k] = Len(g[k]) + 1 /\ Len(g[k]) \in Nat /\ g[k] \in Strings
  <2> SUFFICES ASSUME NEW k \in Nat, k <= N
               PROVE  at[k] = Len(g[k]) + 1 /\ Len(g[k]) \in Nat /\ g[k] \in Strings
    OBVIOUS
  <2>1. k \in 0..N
    BY <1>0
  <2>2. g[k] \in Seq(Byte)
    BY <1>5
  <2> QED
    BY <2>1, <2>2 DEF Strings
<1> HIDE DEF at
<1>7. ASSUME NEW k \in Nat, k < N
      PROVE  /\ k <= N /\ k + 1 <= N /\ P[k + 1] \in StreamPackets
             /\ g[k + 1] = g[k] \o Framed(P[k + 1])
             /\ LiesAt(g[k + 1], at[k], P[k + 1]) /\ at[k + 1] = at[k] + 2 + Len(P[k + 1])
  <2>1. k <= N /\ k + 1 <= N /\ k + 1 \in 1..N
    BY <1>0, <1>7
  <2>2. P[k + 1] \in StreamPackets
    BY <1>0, <2>1
  <2>3. g[k + 1] = g[k] \o Framed(P[k + 1])
    BY <1>2, <1>5, <1>7, <2>1
  <2>4. g[k] \in Strings /\ at[k] = Len(g[k]) + 1 /\ Len(g[k]) \in Nat
        /\ at[k + 1] = Len(g[k + 1]) + 1
    BY <1>6, <2>1
  <2>5. LiesAt(g[k + 1], at[k], P[k + 1])
    BY <2>2, <2>3, <2>4, LiesAfter
  <2>6. Len(g[k + 1]) = Len(g[k]) + Len(Framed(P[k + 1]))
    <3>1. g[k] \in Seq(Byte) /\ Framed(P[k + 1]) \in Seq(Byte)
      BY <2>2, <2>4, FramedBytes DEF Strings
    <3> QED
      BY <2>3, <3>1, ConcatProperties
  <2>7. Len(Framed(P[k + 1])) = Len(P[k + 1]) + 2 /\ Len(P[k + 1]) \in Nat
    BY <2>2, FramedBytes, StreamLengths
  <2>8. at[k + 1] = at[k] + 2 + Len(P[k + 1])
    <3>1. \A a, b \in Nat : (a + (b + 2)) + 1 = (a + 1) + 2 + b
      OBVIOUS
    <3>2. at[k + 1] = (Len(g[k]) + (Len(P[k + 1]) + 2)) + 1
      BY <2>4, <2>6, <2>7, Zenon
    <3>3. at[k + 1] = (Len(g[k]) + 1) + 2 + Len(P[k + 1])
      BY <2>4, <2>7, <3>1, <3>2, Zenon
    <3> QED
      BY <2>4, <3>3, Zenon
  <2> QED
    BY <2>1, <2>2, <2>3, <2>5, <2>8
<1> DEFINE T == {n \in Nat : n <= N => \A k \in Nat : k < n => LiesAt(g[n], at[k], P[k + 1])}
<1>8. 0 \in T
  OBVIOUS
<1>9. ASSUME NEW n \in Nat, n \in T PROVE n + 1 \in T
  <2> SUFFICES ASSUME n + 1 <= N, NEW k \in Nat, k < n + 1
               PROVE  LiesAt(g[n + 1], at[k], P[k + 1])
    OBVIOUS
  <2>1. n < N /\ n <= N
    BY <1>0
  <2>2. CASE k = n
    BY <1>7, <2>1, <2>2
  <2>3. CASE k # n
    <3>1. k < n /\ k < N
      BY <1>0, <2>3
    <3>2. LiesAt(g[n], at[k], P[k + 1])
      BY <1>9, <2>1, <3>1
    <3>3. g[n] \in Strings /\ g[n + 1] = g[n] \o Framed(P[n + 1]) /\ P[n + 1] \in StreamPackets
          /\ P[k + 1] \in StreamPackets
      BY <1>6, <1>7, <2>1, <3>1
    <3>4. Framed(P[n + 1]) \in Strings
      BY <3>3, FramedBytes
    <3> QED
      BY <3>2, <3>3, <3>4, LiesBefore
  <2> QED
    BY <2>2, <2>3
<1> HIDE DEF T
<1>10. \A n \in Nat : n \in T
  BY <1>8, <1>9, AllNumbers
<1>11. \A k \in Nat : k < N => LiesAt(g[N], at[k], P[k + 1])
  <2>1. N <= N
    BY <1>0
  <2> QED
    BY <1>0, <1>10, <2>1 DEF T
<1>12. s = g[N] /\ s \in Strings /\ at[N] = Len(s) + 1
  <2>1. N <= N
    BY <1>0
  <2> QED
    BY <1>0, <1>1, <1>5, <1>6, <2>1
<1>13. at[0] = 1
  <2>1. 0 <= N /\ Len(<<>>) = 0
    BY <1>0
  <2>2. at[0] = Len(g[0]) + 1
    BY <1>6, <2>1
  <2> QED
    BY <1>5, <2>1, <2>2
<1>14. \A k \in Nat : k <= N => at[k] \in Nat \ {0}
  BY <1>6
<1>15. Laid(at, P, s)
  BY <1>7, <1>11, <1>12, <1>13, <1>14 DEF Laid, N
<1> QED
  BY <1>12, <1>15 DEF s

(* The packets of a stream lie one behind the other.                       *)
LEMMA LaidGrows ==
  ASSUME NEW P \in Seq(StreamPackets), NEW s, NEW at, Laid(at, P, s), NEW j \in Nat
  PROVE  \A n \in Nat : j + n <= Len(P) => at[j + n] >= at[j] + n
<1> DEFINE T == {n \in Nat : j + n <= Len(P) => at[j + n] >= at[j] + n}
<1>0. Len(P) \in Nat
  OBVIOUS
<1>1. 0 \in T
  <2>1. j + 0 = j /\ (j <= Len(P) => at[j] \in Nat)
    BY DEF Laid
  <2> QED
    BY <2>1
<1>2. ASSUME NEW n \in Nat, n \in T PROVE n + 1 \in T
  <2> SUFFICES ASSUME j + (n + 1) <= Len(P) PROVE at[j + (n + 1)] >= at[j] + (n + 1)
    OBVIOUS
  <2>1. j + n \in Nat /\ j + n < Len(P) /\ j + n <= Len(P) /\ j + (n + 1) = (j + n) + 1
        /\ j <= Len(P) /\ (j + n) + 1 \in 1..Len(P)
    BY <1>0
  <2>2. at[j + n] >= at[j] + n
    BY <1>2, <2>1
  <2>3. at[(j + n) + 1] = at[j + n] + 2 + Len(P[(j + n) + 1])
    BY <2>1 DEF Laid
  <2>4. at[j] \in Nat /\ at[j + n] \in Nat
    BY <2>1 DEF Laid
  <2>5. Len(P[(j + n) + 1]) \in Nat
    <3>1. P[(j + n) + 1] \in StreamPackets
      BY <2>1, ElementOfSeq
    <3> QED
      BY <3>1, StreamLengths
  <2> QED
    BY <2>1, <2>2, <2>3, <2>4, <2>5, SMTT(30)
<1> HIDE DEF T
<1>3. \A n \in Nat : n \in T
  BY <1>1, <1>2, AllNumbers
<1> QED
  BY <1>3 DEF T

(* The last packet that starts among the first y bytes, or behind them.    *)
LEMMA LastStart ==
  ASSUME NEW P \in Seq(StreamPackets), NEW s, NEW at, Laid(at, P, s),
         NEW j \in Nat, j <= Len(P), NEW y \in Nat, at[j] <= y + 1
  PROVE  \E m \in Nat : /\ j + m <= Len(P) /\ at[j + m] <= y + 1
                        /\ j + m = Len(P) \/ at[(j + m) + 1] > y + 1
<1> DEFINE T == {n \in Nat : j + n <= Len(P) /\ (j + n = Len(P) \/ at[(j + n) + 1] > y + 1)}
<1>0. Len(P) \in Nat
  OBVIOUS
<1>1. T \subseteq Nat /\ T # {}
  <2>1. Len(P) - j \in Nat /\ j + (Len(P) - j) = Len(P)
    BY <1>0
  <2>2. Len(P) - j \in T
    BY <1>0, <2>1
  <2> QED
    BY <2>2
<1>2. PICK m \in T : \A k \in T : m <= k
  BY <1>1, Least, Zenon
<1>3. m \in Nat /\ j + m <= Len(P) /\ (j + m = Len(P) \/ at[(j + m) + 1] > y + 1)
  BY <1>2
<1>4. at[j + m] <= y + 1
  <2>1. CASE m = 0
    <3>1. j + m = j
      BY <2>1
    <3> QED
      BY <3>1
  <2>2. CASE m # 0
    <3>1. m - 1 \in Nat /\ ~(m <= m - 1) /\ j + (m - 1) <= Len(P) /\ j + (m - 1) # Len(P)
          /\ (j + (m - 1)) + 1 = j + m
      BY <1>0, <1>3, <2>2
    <3>2. m - 1 \notin T
      BY <1>2, <3>1
    <3>3. ~(at[(j + (m - 1)) + 1] > y + 1)
      BY <3>1, <3>2
    <3>4. at[j + m] \in Nat
      <4>1. j + m \in Nat
        BY <1>3
      <4> QED
        BY <1>3, <4>1 DEF Laid
    <3> QED
      BY <3>1, <3>3, <3>4
  <2> QED
    BY <2>1, <2>2
<1> HIDE DEF T
<1> QED
  BY <1>3, <1>4

(* Where the packets start in what the framer has.                         *)
NextStart(a, s) ==
  IF a = 0 \/ a + 1 > Len(s) THEN 0
  ELSE LET next == a + 2 + LengthAt(s, a)
       IN IF next > Len(s) + 1 THEN 0 ELSE next
Starts(f, n, s) == f = [k \in 0..n |-> IF k = 0 THEN 1 ELSE NextStart(f[k - 1], s)]

(* There are such starts.                                                  *)
LEMMA StartsExist ==
  ASSUME NEW s
  PROVE  \A n \in Nat : \E f : Starts(f, n, s)
<1> DEFINE T == {n \in Nat : \E f : Starts(f, n, s)}
<1>1. 0 \in T
  <2>1. Starts([k \in 0..0 |-> 1], 0, s)
    BY DEF Starts
  <2> QED
    BY <2>1
<1>2. ASSUME NEW n \in Nat, n \in T PROVE n + 1 \in T
  <2>1. PICK g : Starts(g, n, s)
    BY <1>2
  <2> DEFINE h == [k \in 0..n + 1 |-> IF k = n + 1 THEN NextStart(g[n], s) ELSE g[k]]
  <2>2. \A k \in 0..n + 1 : h[k] = IF k = 0 THEN 1 ELSE NextStart(h[k - 1], s)
    <3> TAKE k \in 0..n + 1
    <3>1. CASE k = n + 1
      BY <3>1
    <3>2. CASE k # n + 1
      <4>1. k \in 0..n
        BY <3>2
      <4>2. g[k] = IF k = 0 THEN 1 ELSE NextStart(g[k - 1], s)
        BY <2>1, <4>1 DEF Starts
      <4> QED
        BY <3>2, <4>1, <4>2
    <3> QED
      BY <3>1, <3>2
  <2>3. Starts(h, n + 1, s)
    BY <2>2 DEF Starts
  <2> QED
    BY <2>3
<1> HIDE DEF T
<1>3. \A n \in Nat : n \in T
  BY <1>1, <1>2, AllNumbers
<1> QED
  BY <1>3 DEF T

(* What the framer makes of the bytes s, whole packets of which start at f.*)
Gets(r, s, f, whole) ==
  IF \E n \in 0..whole : f[n] + 1 <= Len(s) /\ LengthAt(s, f[n]) \notin 1..MaxWifiPacket
  THEN [r EXCEPT !.buffer = <<>>]
  ELSE [buffer |-> SubSeq(s, f[whole], Len(s)),
        packets |-> r.packets \o [n \in 1..whole |-> SubSeq(s, f[n - 1] + 2, f[n] - 1)]]
Whole(f, s) == CHOOSE n \in 0..Len(s) : f[n] # 0 /\ (n = Len(s) \/ f[n + 1] = 0)

(* FramerTakes finds them.                                                 *)
LEMMA FramerGets ==
  ASSUME NEW r, NEW chunk, NEW s, s = r.buffer \o chunk, Len(s) \in Nat
  PROVE  /\ Starts(PacketStarts(s), Len(s), s)
         /\ FramerTakes(r, chunk) = Gets(r, s, PacketStarts(s), Whole(PacketStarts(s), s))
<1> DEFINE f == CHOOSE f : Starts(f, Len(s), s)
<1>1. Starts(f, Len(s), s)
  BY StartsExist, Zenon
<1>2. PacketStarts(s) = f
  BY Zenon DEF PacketStarts, Starts, NextStart
<1>3. FramerTakes(r, chunk) = Gets(r, s, PacketStarts(s), Whole(PacketStarts(s), s))
  BY Zenon DEF FramerTakes, Gets, Whole
<1> HIDE DEF f
<1> QED
  BY <1>1, <1>2, <1>3

(* The bytes from b to y of a stream, and where packets start in them: the *)
(* m packets after the first j are whole.                                  *)
Within(P, S, at, j, m, y, s) ==
  /\ P \in Seq(StreamPackets) /\ S \in Strings /\ Laid(at, P, S)
  /\ j \in Nat /\ m \in Nat /\ y \in Nat /\ y <= Len(S)
  /\ j + m <= Len(P) /\ at[j] <= y + 1 /\ at[j + m] <= y + 1
  /\ j + m = Len(P) \/ at[(j + m) + 1] > y + 1
  /\ s = SubSeq(S, at[j], y)

(* These bytes, one by one.                                                *)
LEMMA WithinBytes ==
  ASSUME NEW P, NEW S, NEW at, NEW j, NEW m, NEW y, NEW s, Within(P, S, at, j, m, y, s)
  PROVE  /\ at[j] \in Nat \ {0} /\ s \in Strings
         /\ Len(s) \in Nat /\ Len(s) = (y + 1) - at[j]
         /\ \A i \in Nat \ {0} : i <= Len(s) => s[i] = S[(at[j] + i) - 1]
<1> DEFINE b == at[j]
<1>1. S \in Seq(Byte) /\ y \in Nat /\ y <= Len(S) /\ s = SubSeq(S, b, y) /\ b <= y + 1
  BY DEF Within, Strings
<1>2. b \in Nat \ {0}
  <2>1. Len(P) \in Nat /\ j \in Nat /\ m \in Nat /\ j + m <= Len(P)
    BY DEF Within
  <2>2. j <= Len(P)
    BY <2>1
  <2> QED
    BY <2>1, <2>2 DEF Within, Laid
<1> HIDE DEF b
<1>3. \A i \in b..y : S[i] \in Byte
  BY <1>1, <1>2
<1>4. /\ s \in Seq(Byte) /\ Len(s) = IF b <= y THEN y - b + 1 ELSE 0
      /\ \A i \in 1..y - b + 1 : s[i] = S[b + i - 1]
  BY <1>1, <1>2, <1>3, SubSeqProperties
<1>5. Len(s) = (y + 1) - b /\ Len(s) \in Nat
  BY <1>1, <1>2, <1>4
<1>6. ASSUME NEW i \in Nat \ {0}, i <= Len(s) PROVE s[i] = S[(b + i) - 1]
  <2>1. i \in 1..y - b + 1 /\ b + i - 1 = (b + i) - 1
    BY <1>1, <1>2, <1>5, <1>6
  <2> QED
    BY <1>4, <2>1
<1> QED
  BY <1>2, <1>4, <1>5, <1>6 DEF b, Strings

(* Where a packet of the stream starts, as the framer counts.              *)
Place(at, j, k) == (at[k] - at[j]) + 1

(* A packet of the stream of which the length is there.                    *)
LEMMA LengthIsThere ==
  ASSUME NEW P, NEW S, NEW at, NEW j, NEW m, NEW y, NEW s, Within(P, S, at, j, m, y, s),
         NEW k \in Nat, j <= k, k < Len(P), Place(at, j, k) + 1 <= Len(s)
  PROVE  /\ P[k + 1] \in StreamPackets
         /\ LengthAt(s, Place(at, j, k)) = Len(P[k + 1])
<1> DEFINE b == at[j]
           a == Place(at, j, k)
           p == P[k + 1]
<1>1. /\ b \in Nat \ {0} /\ Len(s) \in Nat
      /\ \A i \in Nat \ {0} : i <= Len(s) => s[i] = S[(b + i) - 1]
  BY WithinBytes
<1>2. P \in Seq(StreamPackets) /\ Laid(at, P, S) /\ j \in Nat
  BY DEF Within
<1>3. p \in StreamPackets
  <2>1. k + 1 \in 1..Len(P)
    BY <1>2
  <2> QED
    BY <1>2, <2>1, ElementOfSeq
<1>4. at[k] \in Nat /\ at[k] >= b
  <2>1. Len(P) \in Nat /\ k <= Len(P) /\ k - j \in Nat /\ j + (k - j) = k
    BY <1>2
  <2>2. at[j + (k - j)] >= at[j] + (k - j)
    BY <1>2, <2>1, LaidGrows
  <2>3. at[k] \in Nat
    BY <1>2, <2>1 DEF Laid
  <2> QED
    BY <1>1, <2>1, <2>2, <2>3
<1>5. S[at[k]] = Len(p) \div 256 /\ S[at[k] + 1] = Len(p) % 256
  BY <1>2, ZenonT(40) DEF Laid, LiesAt
<1> HIDE DEF b, p
<1>6. a \in Nat \ {0} /\ a + 1 \in Nat \ {0} /\ a <= Len(s) /\ a + 1 <= Len(s)
      /\ (b + a) - 1 = at[k] /\ (b + (a + 1)) - 1 = at[k] + 1
  <2>1. a = (at[k] - b) + 1
    BY DEF Place, b
  <2> HIDE DEF a
  <2>2. a + 1 <= Len(s)
    BY DEF a
  <2>3. \A x, z \in Nat : x >= z => LET c == (x - z) + 1
                                   IN c \in Nat \ {0} /\ (z + c) - 1 = x /\ (z + (c + 1)) - 1 = x + 1
    OBVIOUS
  <2>4. a \in Nat \ {0} /\ (b + a) - 1 = at[k] /\ (b + (a + 1)) - 1 = at[k] + 1
    BY <1>1, <1>4, <2>1, <2>3
  <2>5. a + 1 \in Nat \ {0} /\ a <= Len(s)
    BY <1>1, <2>2, <2>4
  <2> QED
    BY <2>2, <2>4, <2>5
<1> HIDE DEF a
<1>7. s[a] = Len(p) \div 256 /\ s[a + 1] = Len(p) % 256
  BY <1>1, <1>5, <1>6
<1>8. 256 * (Len(p) \div 256) + (Len(p) % 256) = Len(p)
  BY <1>3, StreamLengths
<1>9. LengthAt(s, a) = Len(p)
  BY <1>7, <1>8, Zenon DEF LengthAt
<1> QED
  BY <1>3, <1>9 DEF a, p

(* The whole packets are found, ...                                        *)
LEMMA FoundStarts ==
  ASSUME NEW P, NEW S, NEW at, NEW j, NEW m, NEW y, NEW s, Within(P, S, at, j, m, y, s),
         NEW f, Starts(f, Len(s), s)
  PROVE  \A n \in Nat : n <= m => n <= Len(s) /\ f[n] = Place(at, j, j + n)
<1>1. /\ at[j] \in Nat \ {0} /\ Len(s) \in Nat /\ Len(s) = (y + 1) - at[j]
  BY WithinBytes
<1>2. /\ P \in Seq(StreamPackets) /\ Len(P) \in Nat /\ Laid(at, P, S)
      /\ j \in Nat /\ m \in Nat /\ y \in Nat
      /\ j + m <= Len(P) /\ at[j + m] <= y + 1
  BY DEF Within
<1>3. \A n \in Nat : n <= Len(s) => f[n] = IF n = 0 THEN 1 ELSE NextStart(f[n - 1], s)
  <2> TAKE n \in Nat
  <2> SUFFICES ASSUME n <= Len(s) PROVE f[n] = IF n = 0 THEN 1 ELSE NextStart(f[n - 1], s)
    OBVIOUS
  <2>1. n \in 0..Len(s)
    BY <1>1
  <2> QED
    BY <2>1 DEF Starts
(* Each of them starts among the bytes, and there are as many at least.    *)
<1>4. ASSUME NEW n \in Nat, n <= m
      PROVE  /\ at[j + n] \in Nat /\ at[j + n] >= at[j] + n /\ at[j + n] <= y + 1 /\ n <= Len(s)
  <2>1. j + n \in Nat /\ j + n <= Len(P) /\ m - n \in Nat /\ (j + n) + (m - n) = j + m
    BY <1>2, <1>4
  <2>2. at[j + n] >= at[j] + n
    BY <1>2, <2>1, LaidGrows
  <2>3. at[(j + n) + (m - n)] >= at[j + n] + (m - n)
    BY <1>2, <2>1, LaidGrows
  <2>4. at[j + n] \in Nat /\ at[j + m] \in Nat
    BY <1>2, <2>1 DEF Laid
  <2>5. at[j + n] <= y + 1
    BY <1>2, <2>1, <2>3, <2>4
  <2> QED
    BY <1>1, <1>2, <2>2, <2>4, <2>5
<1> DEFINE T == {n \in Nat : n <= m => f[n] = Place(at, j, j + n)}
<1>5. 0 \in T
  <2>1. j + 0 = j /\ (at[j] - at[j]) + 1 = 1 /\ 0 <= Len(s)
    BY <1>1, <1>2
  <2> QED
    BY <1>3, <2>1 DEF Place
<1>6. ASSUME NEW n \in Nat, n \in T PROVE n + 1 \in T
  <2> SUFFICES ASSUME n + 1 <= m PROVE f[n + 1] = Place(at, j, j + (n + 1))
    OBVIOUS
  <2> DEFINE k == j + n
             a == Place(at, j, k)
             c == Place(at, j, k + 1)
  <2>1. k \in Nat /\ j <= k /\ k < Len(P) /\ n <= m /\ k + 1 = j + (n + 1)
        /\ n + 1 \in Nat /\ n + 1 # 0 /\ (n + 1) - 1 = n
    BY <1>2
  <2>2. f[n] = a /\ n + 1 <= Len(s) /\ at[j + (n + 1)] <= y + 1 /\ at[j + (n + 1)] \in Nat
        /\ at[j + n] \in Nat /\ at[j + n] >= at[j]
    <3>1. at[j + n] >= at[j] + n /\ at[j + n] \in Nat
      BY <1>4, <2>1
    <3>2. at[j + n] >= at[j]
      BY <1>1, <3>1
    <3> QED
      BY <1>4, <1>6, <2>1, <3>1, <3>2
  <2> HIDE DEF k
  <2>3. at[k + 1] = at[k] + 2 + Len(P[k + 1]) /\ P[k + 1] \in StreamPackets
    <3>1. k + 1 \in 1..Len(P)
      BY <1>2, <2>1
    <3>2. P[k + 1] \in StreamPackets
      BY <1>2, <3>1, ElementOfSeq
    <3> QED
      BY <1>2, <2>1, <3>2 DEF Laid
  <2>4. Len(P[k + 1]) \in Nat \ {0}
    BY <2>3, StreamLengths
  <2>5. at[k] \in Nat /\ at[k] >= at[j] /\ at[k + 1] <= y + 1 /\ at[k + 1] \in Nat
    <3>1. at[k] = at[j + n] /\ at[k + 1] = at[j + (n + 1)]
      BY <2>1 DEF k
    <3> QED
      BY <2>2, <3>1
  <2>6. /\ a # 0 /\ a + 1 <= Len(s) /\ c = a + 2 + Len(P[k + 1])
        /\ ~(a + 1 > Len(s)) /\ ~(c > Len(s) + 1)
    <3> DEFINE l == Len(P[k + 1])
               b == at[j]
               x == at[k]
    <3>1. a = (x - b) + 1 /\ c = ((x + 2 + l) - b) + 1
      BY <2>3 DEF Place
    <3>2. b \in Nat \ {0} /\ x \in Nat /\ x >= b /\ l \in Nat \ {0} /\ x + 2 + l <= y + 1
          /\ y \in Nat /\ Len(s) = (y + 1) - b
      BY <1>1, <1>2, <2>3, <2>4, <2>5
    <3> HIDE DEF l, b, x, a, c
    <3>3. a \in Nat \ {0} /\ c = a + 2 + l
      BY <3>1, <3>2
    <3>4. a + 1 <= Len(s) /\ ~(a + 1 > Len(s)) /\ ~(c > Len(s) + 1)
      BY <3>1, <3>2
    <3> QED
      BY <3>3, <3>4 DEF l
  <2>7. LengthAt(s, a) = Len(P[k + 1])
    BY <2>1, <2>6, LengthIsThere
  <2>8. f[n + 1] = NextStart(a, s)
    BY <1>3, <2>1, <2>2
  <2> HIDE DEF a, c
  <2>9. NextStart(a, s) = c
    <3>1. a + 2 + LengthAt(s, a) = c
      BY <2>6, <2>7, Zenon
    <3> QED
      BY <2>6, <3>1, Zenon DEF NextStart
  <2> QED
    BY <2>1, <2>8, <2>9 DEF c
<1> HIDE DEF T
<1>7. \A n \in Nat : n \in T
  BY <1>5, <1>6, AllNumbers
<1> QED
  BY <1>4, <1>7 DEF T

(* ... and no other.                                                       *)
LEMMA NoOtherStarts ==
  ASSUME NEW P, NEW S, NEW at, NEW j, NEW m, NEW y, NEW s, Within(P, S, at, j, m, y, s),
         NEW f, Starts(f, Len(s), s)
  PROVE  \A n \in Nat : m < n /\ n <= Len(s) => f[n] = 0
<1>1. /\ at[j] \in Nat \ {0} /\ Len(s) \in Nat /\ Len(s) = (y + 1) - at[j]
  BY WithinBytes
<1>2. /\ P \in Seq(StreamPackets) /\ Len(P) \in Nat /\ Laid(at, P, S)
      /\ j \in Nat /\ m \in Nat /\ y \in Nat /\ y <= Len(S) /\ Len(S) \in Nat
      /\ j + m <= Len(P) /\ at[j + m] <= y + 1
      /\ j + m = Len(P) \/ at[(j + m) + 1] > y + 1
  BY DEF Within, Strings
<1>3. \A n \in Nat : n + 1 <= Len(s) => f[n + 1] = NextStart(f[n], s)
  <2> TAKE n \in Nat
  <2> SUFFICES ASSUME n + 1 <= Len(s) PROVE f[n + 1] = NextStart(f[n], s)
    OBVIOUS
  <2>1. n + 1 \in 0..Len(s) /\ n + 1 # 0 /\ (n + 1) - 1 = n
    BY <1>1
  <2> QED
    BY <2>1 DEF Starts
<1> DEFINE k == j + m
           a == Place(at, j, k)
<1>4. f[m] = a /\ m \in Nat /\ m <= Len(s)
  <2>1. m <= m
    BY <1>2
  <2> QED
    BY <1>2, <2>1, FoundStarts
<1>5. k \in Nat /\ j <= k /\ k <= Len(P) /\ at[k] \in Nat /\ at[k] >= at[j]
  <2>1. k \in Nat /\ j <= k /\ k <= Len(P)
    BY <1>2
  <2>2. at[k] \in Nat /\ at[k] >= at[j] + m
    BY <1>2, <2>1, LaidGrows DEF Laid
  <2> HIDE DEF k
  <2>3. at[k] >= at[j]
    BY <1>1, <1>2, <2>2
  <2> QED
    BY <2>1, <2>2, <2>3
<1>6. NextStart(a, s) = 0
  <2>1. CASE k = Len(P)
    <3>1. at[k] = Len(S) + 1 /\ at[k] <= y + 1
      BY <1>2, <2>1 DEF Laid
    <3> HIDE DEF k
    <3>2. a = Len(s) + 1
      <4>1. at[k] = y + 1
        BY <1>2, <3>1
      <4> QED
        BY <1>1, <1>2, <4>1 DEF Place
    <3> HIDE DEF a
    <3>3. a + 1 > Len(s)
      BY <1>1, <3>2
    <3> QED
      BY <3>3 DEF NextStart
  <2>2. CASE k # Len(P) /\ a + 1 <= Len(s)
    <3>1. k < Len(P) /\ at[k + 1] > y + 1
      BY <1>2, <1>5, <2>2
    <3>2. LengthAt(s, a) = Len(P[k + 1]) /\ P[k + 1] \in StreamPackets
      BY <1>5, <2>2, <3>1, LengthIsThere
    <3>3. at[k + 1] = at[k] + 2 + Len(P[k + 1])
      BY <1>2, <1>5, <3>1 DEF Laid
    <3>4. Len(P[k + 1]) \in Nat
      BY <3>2, StreamLengths
    <3> DEFINE l == Len(P[k + 1])
               b == at[j]
               x == at[k]
    <3>5. a = (x - b) + 1 /\ x + 2 + l > y + 1 /\ b \in Nat \ {0} /\ x \in Nat /\ x >= b
          /\ l \in Nat /\ y \in Nat /\ Len(s) = (y + 1) - b /\ LengthAt(s, a) = l
      BY <1>1, <1>2, <1>5, <3>1, <3>2, <3>3, <3>4 DEF Place
    <3> HIDE DEF l, b, x, a, k
    <3>6. a + 2 + l > Len(s) + 1
      BY <3>5
    <3> QED
      BY <3>5, <3>6 DEF NextStart
  <2>3. CASE ~(a + 1 <= Len(s))
    <3>1. a \in Nat
      <4> HIDE DEF k
      <4> QED
        BY <1>1, <1>5 DEF Place
    <3> HIDE DEF a
    <3>2. a + 1 > Len(s)
      BY <1>1, <2>3, <3>1
    <3> QED
      BY <3>2 DEF NextStart
  <2> QED
    BY <2>1, <2>2, <2>3
<1> HIDE DEF k, a
<1> DEFINE T == {n \in Nat : (m + 1) + n <= Len(s) => f[(m + 1) + n] = 0}
<1>7. 0 \in T
  <2>1. (m + 1) + 0 = m + 1
    BY <1>2
  <2> QED
    BY <1>2, <1>3, <1>4, <1>6, <2>1
<1>8. ASSUME NEW n \in Nat, n \in T PROVE n + 1 \in T
  <2> SUFFICES ASSUME (m + 1) + (n + 1) <= Len(s) PROVE f[(m + 1) + (n + 1)] = 0
    OBVIOUS
  <2>1. (m + 1) + (n + 1) = ((m + 1) + n) + 1 /\ (m + 1) + n <= Len(s) /\ (m + 1) + n \in Nat
    BY <1>1, <1>2
  <2>2. f[(m + 1) + n] = 0
    BY <1>8, <2>1
  <2>3. f[((m + 1) + n) + 1] = NextStart(0, s)
    BY <1>3, <2>1, <2>2
  <2>4. NextStart(0, s) = 0
    BY DEF NextStart
  <2> QED
    BY <2>1, <2>3, <2>4
<1> HIDE DEF T
<1>9. \A n \in Nat : n \in T
  BY <1>7, <1>8, AllNumbers
<1> SUFFICES ASSUME NEW n \in Nat, m < n, n <= Len(s) PROVE f[n] = 0
  OBVIOUS
<1>10. n - (m + 1) \in Nat /\ (m + 1) + (n - (m + 1)) = n
  BY <1>2
<1>11. n - (m + 1) \in T
  BY <1>9, <1>10
<1> QED
  BY <1>10, <1>11 DEF T

(* So many whole packets are counted.                                      *)
LEMMA WholeIs ==
  ASSUME NEW P, NEW S, NEW at, NEW j, NEW m, NEW y, NEW s, Within(P, S, at, j, m, y, s),
         NEW f, Starts(f, Len(s), s)
  PROVE  Whole(f, s) = m
<1>1. m \in Nat /\ Len(s) \in Nat
  BY WithinBytes DEF Within
<1>2. \A n \in Nat : n <= m => n <= Len(s) /\ f[n] # 0
  <2> SUFFICES ASSUME NEW n \in Nat, n <= m PROVE n <= Len(s) /\ f[n] # 0
    OBVIOUS
  <2>1. n <= Len(s) /\ f[n] = Place(at, j, j + n)
    BY FoundStarts
  <2>2. at[j] \in Nat /\ at[j + n] \in Nat /\ at[j + n] >= at[j] + n
    <3>1. P \in Seq(StreamPackets) /\ Laid(at, P, S) /\ j \in Nat /\ j + n \in Nat /\ j + n <= Len(P)
          /\ j <= Len(P)
      <4>1. j \in Nat /\ m \in Nat /\ j + m <= Len(P) /\ Len(P) \in Nat
        BY DEF Within
      <4> QED
        BY <4>1 DEF Within
    <3> QED
      BY <3>1, LaidGrows DEF Laid
  <2>3. Place(at, j, j + n) # 0
    BY <2>2 DEF Place
  <2> QED
    BY <2>1, <2>3
<1>3. \A n \in Nat : m < n /\ n <= Len(s) => f[n] = 0
  BY NoOtherStarts
<1>4. m \in 0..Len(s) /\ f[m] # 0 /\ (m = Len(s) \/ f[m + 1] = 0)
  <2>1. m <= m /\ m <= Len(s)
    BY <1>1, <1>2
  <2>2. m # Len(s) => f[m + 1] = 0
    <3>1. m # Len(s) => m + 1 \in Nat /\ m < m + 1 /\ m + 1 <= Len(s)
      BY <1>1, <2>1
    <3> QED
      BY <1>3, <3>1
  <2> QED
    BY <1>1, <1>2, <2>1, <2>2
<1>5. ASSUME NEW n \in 0..Len(s), f[n] # 0, n = Len(s) \/ f[n + 1] = 0
      PROVE  n = m
  <2>1. n \in Nat /\ n <= Len(s)
    BY <1>1
  <2>2. ~(m < n)
    BY <1>3, <1>5, <2>1
  <2>3. ~(n < m)
    <3>1. n < m => n + 1 \in Nat /\ n + 1 <= m /\ n # Len(s)
      BY <1>1, <1>4, <2>1
    <3> QED
      BY <1>2, <1>5, <3>1
  <2> QED
    BY <1>1, <2>1, <2>2, <2>3
<1> QED
  BY <1>4, <1>5, Zenon DEF Whole

(* No length is refused.                                                   *)
LEMMA LengthsAreRight ==
  ASSUME NEW P, NEW S, NEW at, NEW j, NEW m, NEW y, NEW s, Within(P, S, at, j, m, y, s),
         NEW f, Starts(f, Len(s), s), NEW n \in Nat, n <= m, f[n] + 1 <= Len(s)
  PROVE  LengthAt(s, f[n]) \in 1..MaxWifiPacket
<1> DEFINE k == j + n
<1>1. f[n] = Place(at, j, k)
  BY FoundStarts
<1>2. /\ P \in Seq(StreamPackets) /\ Len(P) \in Nat /\ Laid(at, P, S)
      /\ j \in Nat /\ m \in Nat /\ j + m <= Len(P) /\ y \in Nat /\ y <= Len(S) /\ Len(S) \in Nat
  BY DEF Within, Strings
<1>3. k \in Nat /\ j <= k /\ k <= Len(P)
  BY <1>2
<1>4. k < Len(P)
  <2> SUFFICES ASSUME k = Len(P) PROVE FALSE
    BY <1>2, <1>3
  <2>1. at[k] = Len(S) + 1
    BY <1>2 DEF Laid
  <2>2. at[j] \in Nat /\ Len(s) = (y + 1) - at[j]
    BY WithinBytes
  <2>3. f[n] = ((Len(S) + 1) - at[j]) + 1
    BY <1>1, <2>1, Zenon DEF Place
  <2> QED
    BY <1>2, <2>2, <2>3
<1>5. LengthAt(s, f[n]) = Len(P[k + 1]) /\ P[k + 1] \in StreamPackets
  <2>1. Place(at, j, k) + 1 <= Len(s)
    BY <1>1
  <2> HIDE DEF k
  <2> QED
    BY <1>1, <1>3, <1>4, <2>1, LengthIsThere
<1> QED
  BY <1>5 DEF StreamPackets

(* A whole packet is one of the stream's.                                  *)
LEMMA PacketIs ==
  ASSUME NEW P, NEW S, NEW at, NEW j, NEW m, NEW y, NEW s, Within(P, S, at, j, m, y, s),
         NEW f, Starts(f, Len(s), s), NEW n \in Nat, n + 1 <= m
  PROVE  SubSeq(s, f[n] + 2, f[n + 1] - 1) = P[(j + n) + 1]
<1> DEFINE k == j + n
           p == P[k + 1]
           a == Place(at, j, k)
           l == Len(p)
<1>1. f[n] = a /\ f[n + 1] = Place(at, j, k + 1) /\ n + 1 <= Len(s)
  <2>1. m \in Nat /\ j \in Nat
    BY DEF Within
  <2>2. n <= m /\ n + 1 \in Nat /\ j + (n + 1) = k + 1
    BY <2>1
  <2>3. f[n + 1] = Place(at, j, j + (n + 1)) /\ n + 1 <= Len(s) /\ f[n] = Place(at, j, j + n)
    BY <2>2, FoundStarts
  <2> QED
    BY <2>2, <2>3
<1>2. /\ P \in Seq(StreamPackets) /\ Len(P) \in Nat /\ Laid(at, P, S)
      /\ j \in Nat /\ m \in Nat /\ j + m <= Len(P) /\ y \in Nat /\ y <= Len(S) /\ S \in Strings
  BY DEF Within
<1>3. k \in Nat /\ j <= k /\ k < Len(P) /\ k + 1 \in 1..Len(P) /\ k + 1 <= Len(P) /\ k <= Len(P)
      /\ k + 1 = j + (n + 1) /\ j <= Len(P)
  BY <1>2
<1>4. p \in StreamPackets /\ p \in Strings /\ l \in Nat \ {0}
  <2>1. p \in StreamPackets
    BY <1>2, <1>3, ElementOfSeq
  <2> QED
    BY <2>1, StreamLengths
<1>5. /\ at[k] \in Nat /\ at[j] \in Nat \ {0} /\ at[k] >= at[j]
      /\ at[k + 1] = at[k] + 2 + l /\ at[k + 1] <= y + 1
      /\ \A i \in 1..l : S[at[k] + 1 + i] = p[i]
  <2>1. at[k] \in Nat /\ at[j] \in Nat \ {0} /\ at[k + 1] \in Nat /\ at[j + m] \in Nat
    <3>1. k + 1 \in Nat /\ j + m \in Nat
      BY <1>2
    <3> QED
      BY <1>2, <1>3, <3>1 DEF Laid
  <2>2. at[k] >= at[j] + n
    BY <1>2, <1>3, LaidGrows
  <2>3. at[k + 1] <= y + 1
    <3>1. m - (n + 1) \in Nat /\ (k + 1) + (m - (n + 1)) = j + m /\ k + 1 \in Nat
      BY <1>2, <1>3
    <3>2. at[(k + 1) + (m - (n + 1))] >= at[k + 1] + (m - (n + 1))
      BY <1>2, <3>1, LaidGrows
    <3>3. at[j + m] <= y + 1
      BY DEF Within
    <3>4. at[j + m] >= at[k + 1] + (m - (n + 1))
      BY <3>1, <3>2
    <3> HIDE DEF k
    <3> QED
      BY <1>2, <2>1, <3>1, <3>3, <3>4
  <2>4. at[k + 1] = at[k] + 2 + l /\ \A i \in 1..l : S[at[k] + 1 + i] = p[i]
    BY <1>2, <1>3, ZenonT(40) DEF Laid, LiesAt
  <2>5. at[k] >= at[j]
    <3> HIDE DEF k
    <3> QED
      BY <2>1, <2>2
  <2> QED
    BY <2>1, <2>3, <2>4, <2>5
<1>6. /\ at[j] \in Nat \ {0} /\ s \in Seq(Byte) /\ Len(s) \in Nat /\ Len(s) = (y + 1) - at[j]
      /\ \A i \in Nat \ {0} : i <= Len(s) => s[i] = S[(at[j] + i) - 1]
  BY WithinBytes DEF Strings
<1> HIDE DEF k, p, l
<1>7. a \in Nat \ {0} /\ f[n + 1] = a + 2 + l /\ (a + 1) + l <= Len(s)
      /\ (at[j] + a) - 1 = at[k]
  <2> DEFINE b == at[j]
             x == at[k]
  <2>1. a = (x - b) + 1 /\ f[n + 1] = ((x + 2 + l) - b) + 1
    BY <1>1, <1>5 DEF Place
  <2>2. b \in Nat \ {0} /\ x \in Nat /\ x >= b /\ l \in Nat \ {0} /\ x + 2 + l <= y + 1
        /\ y \in Nat /\ Len(s) = (y + 1) - b
    BY <1>2, <1>4, <1>5, <1>6
  <2> HIDE DEF a, b, x
  <2>3. a \in Nat \ {0} /\ f[n + 1] = a + 2 + l /\ (b + a) - 1 = x
    BY <2>1, <2>2
  <2>4. (a + 1) + l <= Len(s)
    BY <2>1, <2>2
  <2> QED
    BY <2>3, <2>4 DEF b, x
<1> HIDE DEF a
<1> DEFINE q == SubSeq(s, a + 2, (a + 1) + l)
<1>8. ASSUME NEW i \in 1..l PROVE s[(a + 1) + i] = p[i] /\ (a + 1) + i \in 1..Len(s)
  <2>1. (a + 1) + i \in Nat \ {0} /\ (a + 1) + i <= Len(s)
        /\ (at[j] + ((a + 1) + i)) - 1 = at[k] + 1 + i
    <3>1. i \in Nat \ {0} /\ i <= l /\ a \in Nat \ {0} /\ l \in Nat /\ (a + 1) + l <= Len(s)
      BY <1>4, <1>7
    <3>2. (a + 1) + i \in Nat \ {0} /\ (a + 1) + i <= Len(s)
      BY <1>6, <3>1
    <3>3. \A b, x, c, d \in Nat : (b + c) - 1 = x => (b + ((c + 1) + d)) - 1 = x + 1 + d
      OBVIOUS
    <3>4. (at[j] + ((a + 1) + i)) - 1 = at[k] + 1 + i
      BY <1>5, <1>7, <3>1, <3>3
    <3> QED
      BY <3>2, <3>4
  <2>2. s[(a + 1) + i] = S[at[k] + 1 + i]
    BY <1>6, <2>1
  <2> QED
    BY <1>5, <1>6, <2>1, <2>2
<1>9. q \in Seq(Byte) /\ Len(q) = l /\ \A i \in 1..l : q[i] = s[(a + 1) + i]
  <2>1. a + 2 \in Int /\ (a + 1) + l \in Int /\ a + 2 <= (a + 1) + l
        /\ ((a + 1) + l) - (a + 2) + 1 = l
    BY <1>4, <1>7
  <2>2. \A i \in a + 2..(a + 1) + l : s[i] \in Byte
    BY <1>4, <1>6, <1>7
  <2>3. /\ q \in Seq(Byte) /\ Len(q) = l
        /\ \A i \in 1..l : q[i] = s[(a + 2) + i - 1]
    BY <2>1, <2>2, SubSeqProperties
  <2>4. \A i \in 1..l : (a + 2) + i - 1 = (a + 1) + i
    BY <1>4, <1>7
  <2> QED
    BY <2>3, <2>4
<1> HIDE DEF q
<1>10. q = p
  <2>1. p \in Seq(Byte) /\ Len(p) = l
    BY <1>4 DEF Strings, l
  <2>2. \A i \in 1..l : q[i] = p[i]
    BY <1>8, <1>9
  <2> QED
    BY <1>9, <2>1, <2>2, SeqEqual
<1>11. f[n] + 2 = a + 2 /\ f[n + 1] - 1 = (a + 1) + l
  <2>1. \A c, d \in Nat : (c + 2 + d) - 1 = (c + 1) + d
    OBVIOUS
  <2>2. f[n] = a
    BY <1>1 DEF a, k
  <2> QED
    BY <1>4, <1>7, <2>1, <2>2
<1> QED
  BY <1>10, <1>11 DEF q, p, k

(* What the framer gets out of the bytes up to y.                          *)
LEMMA GetsWhole ==
  ASSUME NEW P, NEW S, NEW at, NEW j, NEW m, NEW y, NEW s, Within(P, S, at, j, m, y, s),
         NEW f, Starts(f, Len(s), s), NEW r, r.packets = SubSeq(P, 1, j)
  PROVE  /\ Gets(r, s, f, m).buffer = SubSeq(S, at[j + m], y)
         /\ Gets(r, s, f, m).packets = SubSeq(P, 1, j + m)
<1>1. /\ P \in Seq(StreamPackets) /\ Len(P) \in Nat /\ Laid(at, P, S)
      /\ j \in Nat /\ m \in Nat /\ j + m <= Len(P) /\ y \in Nat /\ y <= Len(S)
      /\ S \in Seq(Byte) /\ s = SubSeq(S, at[j], y) /\ at[j + m] <= y + 1
  BY DEF Within, Strings
<1>2. /\ at[j] \in Nat \ {0} /\ s \in Seq(Byte) /\ Len(s) \in Nat /\ Len(s) = (y + 1) - at[j]
  BY WithinBytes DEF Strings
<1> DEFINE packet == [n \in 1..m |-> SubSeq(s, f[n - 1] + 2, f[n] - 1)]
<1>3. Gets(r, s, f, m) = [buffer |-> SubSeq(s, f[m], Len(s)), packets |-> r.packets \o packet]
  <2>1. ~\E n \in 0..m : f[n] + 1 <= Len(s) /\ LengthAt(s, f[n]) \notin 1..MaxWifiPacket
    <3> SUFFICES ASSUME NEW n \in 0..m, f[n] + 1 <= Len(s)
                 PROVE  LengthAt(s, f[n]) \in 1..MaxWifiPacket
      OBVIOUS
    <3>1. n \in Nat /\ n <= m
      BY <1>1
    <3> QED
      BY <3>1, LengthsAreRight
  <2> QED
    BY <2>1, Zenon DEF Gets
<1> HIDE DEF packet
<1>4. SubSeq(s, f[m], Len(s)) = SubSeq(S, at[j + m], y)
  <2> DEFINE b == at[j]
             x == at[j + m]
  <2>1. f[m] = (x - b) + 1 /\ x \in Nat /\ x >= b
    <3>1. m <= m /\ j <= Len(P) /\ j + m \in Nat
      BY <1>1
    <3>2. f[m] = Place(at, j, j + m)
      <4>1. \A n \in Nat : n <= m => n <= Len(s) /\ f[n] = Place(at, j, j + n)
        BY FoundStarts
      <4> QED
        BY <1>1, <3>1, <4>1
    <3>3. at[j + m] >= at[j] + m /\ at[j + m] \in Nat
      BY <1>1, <3>1, LaidGrows DEF Laid
    <3>4. at[j + m] >= at[j]
      BY <1>1, <1>2, <3>3
    <3> QED
      BY <3>2, <3>3, <3>4 DEF Place
  <2>2. b \in Nat \ {0} /\ Len(s) = (y + 1) - b /\ x <= y + 1 /\ s = SubSeq(S, b, y)
    BY <1>1, <1>2
  <2> HIDE DEF b, x
  <2>3. CASE x = y + 1
    <3>1. f[m] \in Int /\ Len(s) \in Int /\ Len(s) < f[m] /\ x \in Int /\ y \in Int /\ y < x
      BY <1>1, <2>1, <2>2, <2>3
    <3>2. SubSeq(s, f[m], Len(s)) = <<>> /\ SubSeq(S, x, y) = <<>>
      BY <3>1, SubSeqEmpty
    <3> QED
      BY <3>2 DEF x
  <2>4. CASE x # y + 1
    <3> DEFINE c == (x - b) + 1
               d == (y + 1) - b
    <3>1. /\ b \in 1..Len(S) /\ y \in 1..Len(S) /\ c \in 1..y - b + 1 /\ d \in 1..y - b + 1
          /\ b + c - 1 = x /\ b + d - 1 = y
      BY <1>1, <2>1, <2>2, <2>4
    <3> HIDE DEF c, d
    <3>2. SubSeq(SubSeq(S, b, y), c, d) = SubSeq(S, b + c - 1, b + d - 1)
      BY <1>1, <3>1, SubSeqOfSubSeq
    <3> QED
      BY <2>1, <2>2, <3>1, <3>2 DEF c, d, x
  <2> QED
    BY <2>3, <2>4
<1>5. packet = SubSeq(P, j + 1, j + m)
  <2> DEFINE q == SubSeq(P, j + 1, j + m)
  <2>1. \A i \in j + 1..j + m : P[i] \in StreamPackets
    BY <1>1, ElementOfSeq
  <2>2. j + 1 \in Int /\ j + m \in Int /\ (j + m) - (j + 1) + 1 = m
        /\ (IF j + 1 <= j + m THEN (j + m) - (j + 1) + 1 ELSE 0) = m
    BY <1>1
  <2>3. /\ q \in Seq(StreamPackets) /\ Len(q) = m
        /\ \A i \in 1..m : q[i] = P[j + 1 + i - 1]
    BY <2>1, <2>2, SubSeqProperties
  <2> HIDE DEF q
  <2>4. \A n \in 1..m : packet[n] = q[n]
    <3> TAKE n \in 1..m
    <3>1. n - 1 \in Nat /\ (n - 1) + 1 <= m /\ (n - 1) + 1 = n /\ (j + (n - 1)) + 1 = j + 1 + n - 1
      BY <1>1
    <3>2. SubSeq(s, f[n - 1] + 2, f[(n - 1) + 1] - 1) = P[(j + (n - 1)) + 1]
      BY <3>1, PacketIs
    <3>3. packet[n] = SubSeq(s, f[n - 1] + 2, f[n] - 1)
      BY DEF packet
    <3>4. q[n] = P[j + 1 + n - 1]
      BY <2>3
    <3> QED
      BY <3>1, <3>2, <3>3, <3>4
  <2>5. packet = [n \in 1..m |-> packet[n]]
    BY DEF packet
  <2>6. packet \in Seq(StreamPackets) /\ Len(packet) = m
    <3>1. \A n \in 1..m : q[n] \in StreamPackets
      BY <2>3, ElementOfSeq
    <3>2. \A n \in 1..m : packet[n] \in StreamPackets
      BY <2>4, <3>1
    <3>3. m \in Nat /\ packet \in [1..m -> StreamPackets]
      BY <1>1, <2>5, <3>2, Zenon
    <3> QED
      BY <3>3
  <2>7. packet = q
    BY <2>3, <2>4, <2>6, SeqEqual
  <2> QED
    BY <2>7 DEF q
<1>6. SubSeq(P, 1, j) \o SubSeq(P, j + 1, j + m) = SubSeq(P, 1, j + m)
  <2>1. 1 \in 1..Len(P) + 1 /\ j \in 1 - 1..Len(P) /\ j + m \in j..Len(P)
    BY <1>1
  <2> QED
    BY <1>1, <2>1, ConcatAdjacentSubSeq
<1>7. /\ Gets(r, s, f, m).buffer = SubSeq(s, f[m], Len(s))
      /\ Gets(r, s, f, m).packets = r.packets \o packet
  <2> DEFINE b == SubSeq(s, f[m], Len(s))
             q == r.packets \o packet
  <2>1. Gets(r, s, f, m) = [buffer |-> b, packets |-> q]
    BY <1>3
  <2> HIDE DEF b, q
  <2>2. Gets(r, s, f, m).buffer = b /\ Gets(r, s, f, m).packets = q
    BY <2>1
  <2> QED
    BY <2>2 DEF b, q
<1> QED
  BY <1>4, <1>5, <1>6, <1>7

(* After the first x bytes of the stream the framer has returned j packets *)
(* and keeps the bytes behind them.                                        *)
FramerAt(r, P, S, at, j, x) ==
  /\ j \in Nat /\ j <= Len(P) /\ x \in Nat /\ x <= Len(S) /\ at[j] <= x + 1
  /\ r.buffer = SubSeq(S, at[j], x) /\ r.packets = SubSeq(P, 1, j)

(* A read brings it to y, and at the end of the stream nothing is missing. *)
LEMMA FramerStep ==
  ASSUME NEW P \in Seq(StreamPackets), NEW S \in Strings, NEW at, Laid(at, P, S),
         NEW r, NEW j, NEW x, FramerAt(r, P, S, at, j, x),
         NEW y \in Nat, x <= y, y <= Len(S)
  PROVE  \E k : /\ FramerAt(FramerTakes(r, SubSeq(S, x + 1, y)), P, S, at, k, y)
                /\ y = Len(S) => k = Len(P)
<1>1. /\ j \in Nat /\ j <= Len(P) /\ x \in Nat /\ x <= Len(S) /\ at[j] <= x + 1
      /\ r.buffer = SubSeq(S, at[j], x) /\ r.packets = SubSeq(P, 1, j)
      /\ S \in Seq(Byte) /\ Len(S) \in Nat /\ Len(P) \in Nat
  BY DEF FramerAt, Strings
<1>2. at[j] \in Nat \ {0} /\ at[j] <= y + 1
  <2>1. at[j] \in Nat \ {0}
    BY <1>1 DEF Laid
  <2> QED
    BY <1>1, <2>1
<1>3. PICK m \in Nat : /\ j + m <= Len(P) /\ at[j + m] <= y + 1
                       /\ j + m = Len(P) \/ at[(j + m) + 1] > y + 1
  BY <1>1, <1>2, LastStart
<1> DEFINE s == SubSeq(S, at[j], y)
           f == PacketStarts(s)
           t == FramerTakes(r, SubSeq(S, x + 1, y))
<1>4. Within(P, S, at, j, m, y, s)
  BY <1>1, <1>2, <1>3 DEF Within
<1>5. s = r.buffer \o SubSeq(S, x + 1, y)
  <2>1. at[j] \in 1..Len(S) + 1 /\ x \in at[j] - 1..Len(S) /\ y \in x..Len(S)
    BY <1>1, <1>2
  <2>2. SubSeq(S, at[j], x) \o SubSeq(S, x + 1, y) = SubSeq(S, at[j], y)
    BY <1>1, <2>1, ConcatAdjacentSubSeq
  <2> QED
    BY <1>1, <2>2
<1> HIDE DEF s, t
<1>6. Len(s) \in Nat
  BY <1>4, WithinBytes
<1>7. Starts(f, Len(s), s) /\ t = Gets(r, s, f, Whole(f, s))
  BY <1>5, <1>6, FramerGets DEF t
<1> HIDE DEF f
<1>8. t = Gets(r, s, f, m)
  BY <1>4, <1>7, WholeIs
<1>9. t.buffer = SubSeq(S, at[j + m], y) /\ t.packets = SubSeq(P, 1, j + m)
  <2>1. Starts(f, Len(s), s) /\ r.packets = SubSeq(P, 1, j)
    BY <1>1, <1>7
  <2>2. /\ Gets(r, s, f, m).buffer = SubSeq(S, at[j + m], y)
        /\ Gets(r, s, f, m).packets = SubSeq(P, 1, j + m)
    BY <1>4, <2>1, GetsWhole
  <2> QED
    BY <1>8, <2>2
<1>10. FramerAt(t, P, S, at, j + m, y)
  BY <1>1, <1>3, <1>9 DEF FramerAt
<1>11. y = Len(S) => j + m = Len(P)
  <2> SUFFICES ASSUME y = Len(S), j + m # Len(P) PROVE FALSE
    OBVIOUS
  <2> DEFINE k == (j + m) + 1
  <2>1. k \in Nat /\ k <= Len(P) /\ Len(P) - k \in Nat /\ k + (Len(P) - k) = Len(P)
    BY <1>1, <1>3
  <2>2. at[k] > y + 1
    BY <1>3
  <2> HIDE DEF k
  <2>3. at[k + (Len(P) - k)] >= at[k] + (Len(P) - k)
    BY <2>1, LaidGrows
  <2>4. at[Len(P)] = Len(S) + 1 /\ at[k] \in Nat
    BY <2>1 DEF Laid
  <2>5. Len(S) + 1 >= at[k] + (Len(P) - k)
    BY <2>1, <2>3, <2>4
  <2>6. \A c, d, z \in Nat : z + 1 >= c + d => ~(c > z + 1)
    BY SMTT(30)
  <2>7. ~(at[k] > Len(S) + 1)
    BY <1>1, <2>1, <2>4, <2>5, <2>6
  <2> QED
    BY <2>2, <2>7
<1> QED
  BY <1>10, <1>11 DEF t

(* All packets of a stream arrive, wherever its reads end.                 *)
LEMMA StreamArrives ==
  ASSUME NEW P \in Seq(StreamPackets), NEW cut \in Nat, NEW cut2 \in Nat, cut <= cut2
  PROVE  LET s == TcpBytes(P)
             a == Min2(cut, Len(s)) b == Min2(cut2, Len(s))
             one == FramerTakes(FreshFramer, SubSeq(s, 1, a))
             two == FramerTakes(one, SubSeq(s, a + 1, b))
             three == FramerTakes(two, SubSeq(s, b + 1, Len(s)))
         IN three.packets = P
<1> DEFINE s == TcpBytes(P)
           a == Min2(cut, Len(s))
           b == Min2(cut2, Len(s))
           one == FramerTakes(FreshFramer, SubSeq(s, 1, a))
           two == FramerTakes(one, SubSeq(s, a + 1, b))
           three == FramerTakes(two, SubSeq(s, b + 1, Len(s)))
<1>1. s \in Strings /\ \E at : Laid(at, P, s)
  BY StreamIsLaid
<1> HIDE DEF s
<1>2. PICK at : Laid(at, P, s)
  BY <1>1
<1>3. Len(s) \in Nat /\ Len(P) \in Nat
  BY <1>1 DEF Strings
<1>4. a \in Nat /\ b \in Nat /\ 0 <= a /\ a <= b /\ b <= Len(s) /\ a <= Len(s)
      /\ Len(s) <= Len(s) /\ 0 <= Len(P) /\ 0 <= Len(s)
  BY <1>3 DEF Min2
<1> HIDE DEF a, b
<1>5. FramerAt(FreshFramer, P, s, at, 0, 0)
  <2>1. at[0] = 1 /\ SubSeq(s, 1, 0) = <<>> /\ SubSeq(P, 1, 0) = <<>>
    BY <1>2, SubSeqEmpty DEF Laid
  <2> QED
    BY <1>3, <1>4, <2>1 DEF FramerAt, FreshFramer
<1>6. PICK i : FramerAt(FramerTakes(FreshFramer, SubSeq(s, 0 + 1, a)), P, s, at, i, a)
  BY <1>1, <1>2, <1>4, <1>5, FramerStep
<1>7. FramerAt(one, P, s, at, i, a)
  <2>1. 0 + 1 = 1
    OBVIOUS
  <2> QED
    BY <1>6, <2>1
<1> HIDE DEF one
<1>8. PICK j : FramerAt(two, P, s, at, j, b)
  BY <1>1, <1>2, <1>4, <1>7, FramerStep
<1> HIDE DEF two
<1>9. PICK k : FramerAt(three, P, s, at, k, Len(s)) /\ k = Len(P)
  BY <1>1, <1>2, <1>3, <1>4, <1>8, FramerStep
<1> HIDE DEF three
<1>10. three.packets = SubSeq(P, 1, Len(P))
  BY <1>9 DEF FramerAt
<1>11. three.packets = P
  BY <1>10, SubSeqFull
<1> QED
  BY <1>11 DEF three, two, one, a, b, s

(* Over BLE and over Wi-Fi.                                                *)
LEMMA PacketsComeWhole == InputInv => PacketsArriveWhole
<1>1. ASSUME InputInv, input.kind = "ble", NEW accept \in {"device", "mac"}
      PROVE  LET sent == SubSeq(Fragments(input.first, 1), 1, input.cut)
                         \o Fragments(input.second, 2)
                 whole == IF input.cut = FragmentCount(Len(input.first))
                          THEN <<input.first, input.second>> ELSE <<input.second>>
             IN whole = IF accept = "device" THEN Reassembled(Accepts, sent)
                        ELSE Reassembled(MacAccepts, sent)
  <2>1. WellFormed(input)
    BY <1>1, KindIsWellFormed
  <2>2. input.first \in Packets /\ input.second \in Packets
        /\ input.cut \in 0..FragmentCount(Len(input.first))
    <3>1. /\ input.first \in Strings /\ Len(input.first) \in 1..MaxPacket
          /\ input.second \in Strings /\ Len(input.second) \in 1..MaxPacket
          /\ input.cut \in 0..FragmentCount(Len(input.first))
      BY <1>1, <2>1, Zenon DEF WellFormed
    <3>2. \A x \in Strings : x \in Wires
      BY SeqMonotonic DEF Strings, Wires, Wire
    <3> QED
      BY <3>1, <3>2, Zenon DEF Packets
  <2> QED
    BY <2>2, SecondArrives
<1>2. ASSUME InputInv, input.kind = "tcp"
      PROVE  LET s == TcpBytes(input.packets)
                 a == Min2(input.cut, Len(s)) b == Min2(input.cut2, Len(s))
                 one == FramerTakes(FreshFramer, SubSeq(s, 1, a))
                 two == FramerTakes(one, SubSeq(s, a + 1, b))
                 three == FramerTakes(two, SubSeq(s, b + 1, Len(s)))
             IN three.packets = input.packets
  <2>1. WellFormed(input)
    BY <1>2, KindIsWellFormed
  <2>2. /\ input.packets \in Seq(Strings)
        /\ \A k \in 1..Len(input.packets) : Len(input.packets[k]) \in 1..MaxWifiPacket
        /\ input.cut \in Nat /\ input.cut2 \in Nat /\ input.cut <= input.cut2
    BY <1>2, <2>1, Zenon DEF WellFormed
  <2>3. input.packets \in Seq(StreamPackets)
    <3>1. \A k \in 1..Len(input.packets) : input.packets[k] \in StreamPackets
      BY <2>2, ElementOfSeq DEF StreamPackets
    <3>2. Len(input.packets) \in Nat
          /\ input.packets = [k \in 1..Len(input.packets) |-> input.packets[k]]
      BY <2>2
    <3> QED
      BY <3>1, <3>2
  <2> QED
    BY <2>2, <2>3, StreamArrives
<1> QED
  BY <1>1, <1>2, Zenon DEF PacketsArriveWhole

(* What is sent over a link arrives whole, and once: the invariant of the  *)
(* runs, for packets, cuts, reads and numbers of any values.               *)
THEOREM EveryPacketArrivesOnce == Spec => []PacketsArriveOnce
<1>1. InputInv => PacketsArriveOnce
  BY PacketsComeWhole, NumbersAreTakenOnce DEF PacketsArriveOnce
<1> QED
  BY <1>1, InputInvariant, PTL

-----------------------------------------------------------------------------
(* The heads of CBOR.                                                      *)
Majors == {0, 2, 3, 4, 5}

(* A word is a sequence of eight bytes.                                    *)
LEMMA WordIsSeq ==
  ASSUME NEW u \in Word
  PROVE  u \in Seq(Byte) /\ Len(u) = 8 /\ \A i \in 1..8 : u[i] \in Byte
<1>1. \A m \in Nat : \A f \in [1..m -> Byte] : f \in Seq(Byte) /\ Len(f) = m
  OBVIOUS
<1>2. 8 \in Nat /\ u \in [1..8 -> Byte]
  BY DEF Word
<1>3. \A i \in 1..8 : u[i] \in Byte
  BY <1>2, Zenon
<1> QED
  BY <1>1, <1>2, <1>3, Zenon

(* The numbers of two bytes.                                               *)
Numbers16 == {n \in Nat : n < 65536}

(* A number is its eight bytes.                                            *)
LEMMA NumberBytes ==
  ASSUME NEW n \in Numbers16
  PROVE  /\ U(n) \in Word /\ U(n) \in Word32 /\ Fits(U(n), 2)
         /\ U(n)[7] = n \div 256 /\ U(n)[8] = n % 256
         /\ U(n)[7] * 256 + U(n)[8] = n
         /\ n < 256 => Fits(U(n), 1) /\ U(n)[8] = n
<1>1. \A x \in Nat : x < 65536 =>
        /\ x \div 16777216 = 0 /\ (x \div 65536) % 256 = 0 /\ (x \div 256) % 256 = x \div 256
        /\ x \div 256 \in Byte /\ x % 256 \in Byte /\ (x \div 256) * 256 + (x % 256) = x
        /\ (x < 256 => x \div 256 = 0 /\ x % 256 = x)
  BY DEF Byte
<1> DEFINE a == n \div 256
           b == n % 256
<1>0. n \in Nat /\ n < 65536
  BY DEF Numbers16
<1>2. U(n) = <<0, 0, 0, 0, 0, 0, a, b>>
  BY <1>0, <1>1 DEF U
<1>3. a \in Byte /\ b \in Byte /\ a * 256 + b = n /\ (n < 256 => a = 0 /\ b = n)
  BY <1>0, <1>1
<1> HIDE DEF a, b
<1> DEFINE u == U(n)
<1>4. 0 \in Byte
  BY DEF Byte
<1>5. /\ u[1] = 0 /\ u[2] = 0 /\ u[3] = 0 /\ u[4] = 0 /\ u[5] = 0 /\ u[6] = 0
      /\ u[7] = a /\ u[8] = b
  BY <1>2
<1>6. u \in Word
  BY <1>2, <1>3, <1>4 DEF Word
<1> HIDE DEF u
<1>7. (\A i \in 1..8 - 2 : i = 1 \/ i = 2 \/ i = 3 \/ i = 4 \/ i = 5 \/ i = 6)
      /\ (\A i \in 1..8 - 1 : i = 1 \/ i = 2 \/ i = 3 \/ i = 4 \/ i = 5 \/ i = 6 \/ i = 7)
      /\ (\A i \in 1..8 - 4 : i = 1 \/ i = 2 \/ i = 3 \/ i = 4)
  OBVIOUS
<1>8. Fits(u, 2) /\ Fits(u, 4) /\ (n < 256 => Fits(u, 1))
  BY <1>3, <1>5, <1>7 DEF Fits
<1> QED
  BY <1>3, <1>5, <1>6, <1>8 DEF u, a, b, Word32

(* Numbers with the same bytes are the same.                               *)
LEMMA SameNumber ==
  ASSUME NEW m \in Numbers16, NEW n \in Numbers16, U(m) = U(n)
  PROVE  m = n
<1>1. U(m)[7] * 256 + U(m)[8] = m
  BY NumberBytes
<1>2. U(n)[7] * 256 + U(n)[8] = n
  BY NumberBytes
<1>3. U(m)[7] * 256 + U(m)[8] = n
  BY <1>2, Zenon
<1> QED
  BY <1>1, <1>3

(* The least width that a value fits.                                      *)
WidthOf(u) == CHOOSE w \in Widths : Fits(u, w) /\ \A v \in Widths : v < w => ~Fits(u, v)

(* There is one, and the code says which it is.                            *)
LEMMA LeastWidth ==
  ASSUME NEW u
  PROVE  /\ WidthOf(u) \in Widths /\ Fits(u, WidthOf(u))
         /\ \A v \in Widths : v < WidthOf(u) => ~Fits(u, v)
<1>1. \E w \in Widths : Fits(u, w) /\ \A v \in Widths : v < w => ~Fits(u, v)
  <2>1. Fits(u, 8)
    BY DEF Fits
  <2>2. CASE Fits(u, 1)
    BY <2>2 DEF Widths
  <2>3. CASE ~Fits(u, 1) /\ Fits(u, 2)
    BY <2>3 DEF Widths
  <2>4. CASE ~Fits(u, 1) /\ ~Fits(u, 2) /\ Fits(u, 4)
    BY <2>4 DEF Widths
  <2>5. CASE ~Fits(u, 1) /\ ~Fits(u, 2) /\ ~Fits(u, 4)
    BY <2>1, <2>5 DEF Widths
  <2> QED
    BY <2>2, <2>3, <2>4, <2>5
<1> QED
  BY <1>1, Zenon DEF WidthOf

(* The bytes behind a head of width k say the value.                       *)
LEMMA LowBytes ==
  ASSUME NEW u \in Word, NEW k \in Widths, Fits(u, k)
  PROVE  /\ Low(u, k) \in Seq(Byte) /\ Len(Low(u, k)) = k
         /\ [i \in 1..8 - k |-> 0] \o Low(u, k) = u
<1> DEFINE z == [i \in 1..8 - k |-> 0]
           l == Low(u, k)
<1>1. k \in Nat /\ 1 <= k /\ k <= 8
  BY DEF Widths
<1>2. u \in Seq(Byte) /\ Len(u) = 8 /\ \A i \in 1..8 : u[i] \in Byte
  BY WordIsSeq
<1>3. z \in Seq(Byte) /\ Len(z) = 8 - k /\ \A i \in 1..8 - k : z[i] = 0
  <2>1. 0 \in Byte
    BY DEF Byte
  <2> QED
    BY <1>1, <2>1
<1>4. l \in Seq(Byte) /\ Len(l) = k /\ \A i \in 1..k : l[i] = u[(8 - k) + i]
  <2>1. 9 - k \in Int /\ 8 \in Int /\ 9 - k <= 8 /\ 8 - (9 - k) + 1 = k
    BY <1>1
  <2>2. \A i \in 9 - k..8 : u[i] \in Byte
    BY <1>1, <1>2
  <2>3. /\ SubSeq(u, 9 - k, 8) \in Seq(Byte) /\ Len(SubSeq(u, 9 - k, 8)) = k
        /\ \A i \in 1..k : SubSeq(u, 9 - k, 8)[i] = u[(9 - k) + i - 1]
    BY <2>1, <2>2, SubSeqProperties
  <2>4. \A i \in 1..k : (9 - k) + i - 1 = (8 - k) + i
    BY <1>1
  <2> QED
    BY <2>3, <2>4 DEF Low
<1> HIDE DEF z, l
<1>5. /\ z \o l \in Seq(Byte) /\ Len(z \o l) = Len(z) + Len(l)
      /\ \A i \in 1..Len(z) + Len(l) : (z \o l)[i] = IF i <= Len(z) THEN z[i] ELSE l[i - Len(z)]
  BY <1>3, <1>4, ConcatProperties
<1>6. Len(z) + Len(l) = 8
  BY <1>1, <1>3, <1>4
<1>7. \A i \in 1..8 : (z \o l)[i] = u[i]
  <2> TAKE i \in 1..8
  <2>1. (z \o l)[i] = IF i <= 8 - k THEN z[i] ELSE l[i - (8 - k)]
    BY <1>3, <1>5, <1>6
  <2>2. CASE i <= 8 - k
    <3>1. i \in 1..8 - k
      BY <1>1, <2>2
    <3>2. u[i] = 0
      BY <3>1 DEF Fits
    <3> QED
      BY <1>3, <2>1, <2>2, <3>1, <3>2
  <2>3. CASE ~(i <= 8 - k)
    <3>1. i - (8 - k) \in 1..k /\ (8 - k) + (i - (8 - k)) = i
      BY <1>1, <2>3
    <3> QED
      BY <1>4, <2>1, <2>3, <3>1
  <2> QED
    BY <2>2, <2>3
<1>8. z \o l = u
  BY <1>2, <1>5, <1>6, <1>7, SeqEqual
<1> QED
  BY <1>4, <1>8 DEF z, l

(* The middle and the end of three sequences one after the other.          *)
LEMMA ConcatParts ==
  ASSUME NEW S, NEW a \in Seq(S), NEW b \in Seq(S), NEW c \in Seq(S)
  PROVE  LET s == a \o (b \o c)
         IN /\ s \in Seq(S) /\ Len(s) = Len(a) + Len(b) + Len(c)
            /\ \A i \in 1..Len(a) : s[i] = a[i]
            /\ \A i \in 1..Len(b) : s[Len(a) + i] = b[i]
            /\ SubSeq(s, Len(a) + 1, Len(a) + Len(b)) = b
            /\ SubSeq(s, Len(a) + Len(b) + 1, Len(s)) = c
<1> DEFINE t == b \o c
           s == a \o t
           m == Len(a)
           n == Len(b)
           o == Len(c)
<1>1. /\ t \in Seq(S) /\ Len(t) = n + o
      /\ \A i \in 1..n + o : t[i] = IF i <= n THEN b[i] ELSE c[i - n]
  BY ConcatProperties
<1>2. m \in Nat /\ n \in Nat /\ o \in Nat
  OBVIOUS
<1> HIDE DEF t
<1>3. /\ s \in Seq(S) /\ Len(s) = m + (n + o)
      /\ \A i \in 1..m + (n + o) : s[i] = IF i <= m THEN a[i] ELSE t[i - m]
  <2>1. a \in Seq(S) /\ t \in Seq(S)
    BY <1>1
  <2>2. /\ s \in Seq(S) /\ Len(s) = Len(a) + Len(t)
        /\ \A i \in 1..Len(a) + Len(t) : s[i] = IF i <= Len(a) THEN a[i] ELSE t[i - Len(a)]
    BY <2>1, ConcatProperties
  <2> HIDE DEF s
  <2>3. Len(t) = n + o
    BY <1>1
  <2> QED
    BY <2>2, <2>3
<1> HIDE DEF s, m, n, o
<1>4. \A i \in 1..m : s[i] = a[i]
  BY <1>2, <1>3
<1>5. ASSUME NEW i \in 1..n + o PROVE s[m + i] = t[i]
  <2>1. m + i \in 1..m + (n + o) /\ ~(m + i <= m) /\ (m + i) - m = i
    BY <1>2
  <2> QED
    BY <1>3, <2>1
<1>6. \A i \in 1..n : s[m + i] = b[i]
  BY <1>1, <1>2, <1>5
<1>7. ASSUME NEW i \in 1..o PROVE s[(m + n) + i] = c[i]
  <2>1. n + i \in 1..n + o /\ ~(n + i <= n) /\ (n + i) - n = i /\ m + (n + i) = (m + n) + i
    BY <1>2
  <2>2. s[m + (n + i)] = t[n + i]
    BY <1>5, <2>1
  <2> QED
    BY <1>1, <2>1, <2>2
<1>8. ASSUME NEW x \in Nat, NEW q \in Seq(S), x + Len(q) <= Len(s),
             \A i \in 1..Len(q) : s[x + i] = q[i]
      PROVE  SubSeq(s, x + 1, x + Len(q)) = q
  <2> DEFINE z == SubSeq(s, x + 1, x + Len(q))
  <2>1. Len(q) \in Nat /\ Len(s) \in Nat
    BY <1>3
  <2>2. \A i \in x + 1..x + Len(q) : s[i] \in S
    <3> TAKE i \in x + 1..x + Len(q)
    <3>1. i \in 1..Len(s)
      BY <1>8, <2>1
    <3> QED
      BY <1>3, <3>1, ElementOfSeq
  <2>3. x + 1 \in Int /\ x + Len(q) \in Int /\ (x + Len(q)) - (x + 1) + 1 = Len(q)
        /\ (IF x + 1 <= x + Len(q) THEN (x + Len(q)) - (x + 1) + 1 ELSE 0) = Len(q)
    BY <2>1
  <2>4. z \in Seq(S) /\ Len(z) = Len(q) /\ \A i \in 1..Len(q) : z[i] = s[(x + 1) + i - 1]
    BY <2>2, <2>3, SubSeqProperties
  <2> HIDE DEF z
  <2>5. \A i \in 1..Len(q) : z[i] = q[i]
    <3> TAKE i \in 1..Len(q)
    <3>1. (x + 1) + i - 1 = x + i
      OBVIOUS
    <3> QED
      BY <1>8, <2>4, <3>1
  <2>6. z = q
    BY <2>4, <2>5, SeqEqual
  <2> QED
    BY <2>6 DEF z
<1>9. SubSeq(s, m + 1, m + n) = b
  <2>1. m + Len(b) <= Len(s) /\ \A i \in 1..Len(b) : s[m + i] = b[i]
    BY <1>2, <1>3, <1>6 DEF n
  <2>2. SubSeq(s, m + 1, m + Len(b)) = b
    BY <1>2, <1>8, <2>1
  <2> QED
    BY <2>2 DEF n
<1>10. SubSeq(s, m + n + 1, Len(s)) = c
  <2>1. (m + n) + Len(c) <= Len(s) /\ (\A i \in 1..Len(c) : s[(m + n) + i] = c[i]) /\ m + n \in Nat
    BY <1>2, <1>3, <1>7 DEF o
  <2>2. SubSeq(s, (m + n) + 1, (m + n) + Len(c)) = c
    BY <1>8, <2>1
  <2>3. (m + n) + Len(c) = Len(s) /\ (m + n) + 1 = m + n + 1
    BY <1>2, <1>3 DEF o
  <2> QED
    BY <2>2, <2>3
<1>11. Len(s) = m + n + o
  BY <1>2, <1>3
<1> QED
  BY <1>3, <1>4, <1>6, <1>9, <1>10, <1>11 DEF s, t, m, n, o

(* A byte is a number, and one of those of two bytes.                      *)
LEMMA ByteIsNumber ==
  \A x \in Byte : x \in Nat /\ x < 256 /\ x \in Numbers16
<1>1. \A x \in Byte : x \in Nat /\ x < 256
  BY DEF Byte
<1>2. \A x \in Nat : x < 256 => x \in Numbers16
  BY DEF Numbers16
<1> QED
  BY <1>1, <1>2

(* A value of one byte is that number.                                     *)
LEMMA OneByte ==
  ASSUME NEW u \in Word, Fits(u, 1)
  PROVE  u[8] \in Byte /\ u = U(u[8])
<1> DEFINE n == u[8]
           v == U(n)
<1>1. u \in Seq(Byte) /\ Len(u) = 8 /\ n \in Byte
  BY WordIsSeq
<1>2. n \in Numbers16 /\ n < 256
  BY <1>1, ByteIsNumber
<1>3. v \in Word /\ Fits(v, 1) /\ v[8] = n
  BY <1>2, NumberBytes
<1> HIDE DEF v, n
<1>4. v \in Seq(Byte) /\ Len(v) = 8
  BY <1>3, WordIsSeq
<1>5. \A i \in 1..8 : i \in 1..8 - 1 \/ i = 8
  OBVIOUS
<1>6. \A i \in 1..8 : u[i] = v[i]
  BY <1>3, <1>5 DEF Fits, n
<1>7. u = v
  BY <1>1, <1>4, <1>6, SeqEqual
<1> QED
  BY <1>1, <1>7 DEF v, n

(* What a head says in its first byte.                                     *)
LEMMA HeadByte ==
  ASSUME NEW major \in Majors, NEW c \in {n \in Nat : n < 32}
  PROVE  /\ 32 * major + c \in Byte
         /\ (32 * major + c) \div 32 = major /\ (32 * major + c) % 32 = c
<1>1. \A m, n \in Nat : m <= 5 /\ n < 32 =>
        /\ 32 * m + n \in Byte /\ (32 * m + n) \div 32 = m /\ (32 * m + n) % 32 = n
  BY DEF Byte
<1>2. major \in Nat /\ major <= 5
  BY DEF Majors
<1>3. c \in Nat /\ c < 32
  OBVIOUS
<1> QED
  BY <1>1, <1>2, <1>3

(* The codes of the widths.                                                *)
LEMMA Codes ==
  /\ \A k \in Widths : Code(k) \in {n \in Nat : n < 32} /\ ~(Code(k) <= 23) /\ k \in Nat \ {0}
  /\ \A k, v \in Widths : Code(k) = Code(v) => k = v
<1>1. Code(1) = 24 /\ Code(2) = 25 /\ Code(4) = 26 /\ Code(8) = 27
  BY DEF Code
<1> QED
  BY <1>1 DEF Widths

(* The head that is written is read, and what is behind it is left.        *)
LEMMA HeadIsRead ==
  ASSUME NEW major \in Majors, NEW u \in Word, NEW widths, widths \subseteq Widths,
         WidthOf(u) \in widths, NEW S, Byte \subseteq S, NEW t \in Seq(S)
  PROVE  /\ Major(major, u) \in Seq(Byte)
         /\ Len(Major(major, u)) \in Nat \ {0}
         /\ ReadHead(major, widths, Major(major, u) \o t) = [ok |-> TRUE, got |-> u, rest |-> t]
<1>1. CASE Fits(u, 1) /\ u[8] <= 23
  <2> DEFINE h == 32 * major + u[8]
             s == <<h>> \o t
  <2>1. Major(major, u) = <<h>>
    BY <1>1 DEF Major
  <2>2. u[8] \in {n \in Nat : n < 32} /\ U(u[8]) = u
    <3>1. u[8] \in Byte /\ u = U(u[8])
      BY <1>1, OneByte
    <3>2. u[8] \in Nat /\ u[8] <= 23
      BY <1>1, <3>1, ByteIsNumber
    <3>3. u[8] \in {n \in Nat : n < 32}
      BY <3>2
    <3> QED
      BY <3>1, <3>3
  <2>3. h \in Byte /\ h \div 32 = major /\ h % 32 = u[8]
    BY <2>2, HeadByte
  <2> HIDE DEF h
  <2>4. <<h>> \in Seq(Byte) /\ <<h>> \in Seq(S) /\ Len(<<h>>) = 1 /\ <<h>>[1] = h
    BY <2>3
  <2>5. s # <<>> /\ s[1] = h /\ Tail(s) = t
    <3>1. <<>> \in Seq(S) /\ Len(<<>>) = 0 /\ <<h>> \o <<>> = <<h>>
      BY <2>4, ConcatEmptySeq
    <3>2. s \in Seq(S) /\ Len(s) = 1 + Len(t) /\ s[1] = <<h>>[1] /\ Len(t) \in Nat
      BY <2>4, ConcatProperties
    <3>3. s # <<>>
      BY <3>1, <3>2
    <3>4. /\ Tail(s) \in Seq(S) /\ Len(Tail(s)) = Len(s) - 1
          /\ \A i \in 1..Len(Tail(s)) : Tail(s)[i] = s[i + 1]
      BY <3>2, <3>3, HeadTailProperties
    <3>5. \A i \in 1..Len(t) : s[i + 1] = t[i]
      <4> TAKE i \in 1..Len(t)
      <4>1. i + 1 \in 1..1 + Len(t) /\ ~(i + 1 <= 1) /\ (i + 1) - 1 = i
        OBVIOUS
      <4>2. \A k \in 1..1 + Len(t) : s[k] = IF k <= 1 THEN <<h>>[k] ELSE t[k - 1]
        BY <2>4, ConcatProperties
      <4> QED
        BY <4>1, <4>2
    <3>6. Len(Tail(s)) = Len(t) /\ \A i \in 1..Len(t) : Tail(s)[i] = t[i]
      BY <3>2, <3>4, <3>5
    <3>7. Tail(s) = t
      BY <3>4, <3>6, SeqEqual
    <3> QED
      BY <2>4, <3>2, <3>3, <3>7
  <2> HIDE DEF s
  <2>6. ReadHead(major, widths, s) = [ok |-> TRUE, got |-> u, rest |-> t]
    BY <1>1, <2>2, <2>3, <2>5 DEF ReadHead
  <2> QED
    BY <2>1, <2>4, <2>6 DEF s
<1>2. CASE ~(Fits(u, 1) /\ u[8] <= 23)
  <2> DEFINE k == WidthOf(u)
             c == Code(k)
             h == 32 * major + c
             l == Low(u, k)
             s == (<<h>> \o l) \o t
             r == <<h>> \o (l \o t)
  <2>1. Major(major, u) = <<h>> \o l
    BY <1>2, Zenon DEF Major, WidthOf
  <2>2. k \in Widths /\ Fits(u, k) /\ k \in widths
    BY LeastWidth
  <2> HIDE DEF k
  <2>3. c \in {n \in Nat : n < 32} /\ ~(c <= 23) /\ k \in Nat \ {0}
    BY <2>2, Codes
  <2>4. h \in Byte /\ h \div 32 = major /\ h % 32 = c
    BY <2>3, HeadByte
  <2>5. l \in Seq(Byte) /\ Len(l) = k /\ [i \in 1..8 - k |-> 0] \o l = u
    BY <2>2, LowBytes
  <2> HIDE DEF h, c, l
  <2>6. <<h>> \in Seq(Byte) /\ <<h>> \in Seq(S) /\ Len(<<h>>) = 1 /\ <<h>>[1] = h
    BY <2>4
  <2>7. l \in Seq(S)
    BY <2>5, SeqMonotonic
  <2>8. s = r
    BY <2>6, <2>7, ConcatAssociative
  <2>9. /\ r \in Seq(S) /\ Len(r) = 1 + k + Len(t) /\ r[1] = h
        /\ SubSeq(r, 1 + 1, 1 + k) = l /\ SubSeq(r, 1 + k + 1, Len(r)) = t
    <3>1. /\ r \in Seq(S) /\ Len(r) = Len(<<h>>) + Len(l) + Len(t)
          /\ \A i \in 1..Len(<<h>>) : r[i] = <<h>>[i]
          /\ SubSeq(r, Len(<<h>>) + 1, Len(<<h>>) + Len(l)) = l
          /\ SubSeq(r, Len(<<h>>) + Len(l) + 1, Len(r)) = t
      BY <2>6, <2>7, ConcatParts
    <3> HIDE DEF r
    <3>2. r[1] = h
      BY <2>6, <3>1
    <3> QED
      BY <2>5, <2>6, <3>1, <3>2
  <2> HIDE DEF s, r
  <2>10. /\ s # <<>> /\ s[1] = h /\ Len(s) > k
         /\ SubSeq(s, 2, k + 1) = l /\ SubSeq(s, k + 2, Len(s)) = t
    <3>1. 1 + 1 = 2 /\ 1 + k = k + 1 /\ 1 + k + 1 = k + 2 /\ Len(t) \in Nat /\ Len(<<>>) = 0
      BY <2>3
    <3>2. Len(s) > k /\ Len(s) # 0
      BY <2>3, <2>8, <2>9, <3>1
    <3> QED
      BY <2>8, <2>9, <3>1, <3>2
  <2>11. (CHOOSE w \in widths : Code(w) = s[1] % 32) = k
    <3>1. \A w \in widths : Code(w) = c => w = k
      BY <2>2, Codes DEF c
    <3> QED
      BY <2>2, <2>4, <2>10, <3>1 DEF c
  <2>12. \E w \in widths : Code(w) = s[1] % 32 /\ Len(s) > w
    BY <2>2, <2>4, <2>10 DEF c
  <2>13. ReadHead(major, widths, s)
         = [ok |-> TRUE, got |-> [i \in 1..8 - k |-> 0] \o SubSeq(s, 2, k + 1),
            rest |-> SubSeq(s, k + 2, Len(s))]
    <3>1. ~(s = <<>> \/ s[1] \div 32 # major) /\ ~(s[1] % 32 <= 23)
      BY <2>3, <2>4, <2>10
    <3> QED
      BY <2>11, <2>12, <3>1, Zenon DEF ReadHead
  <2>14. ReadHead(major, widths, s) = [ok |-> TRUE, got |-> u, rest |-> t]
    BY <2>5, <2>10, <2>13
  <2>15. <<h>> \o l \in Seq(Byte) /\ Len(<<h>> \o l) = 1 + k
    BY <2>5, <2>6, ConcatProperties
  <2>16. 1 + k \in Nat \ {0}
    BY <2>3
  <2> QED
    BY <2>1, <2>14, <2>15, <2>16 DEF s
<1> QED
  BY <1>1, <1>2

(* A value of one byte is written as the Mac writes its reports.           *)
LEMMA ShortIsHead ==
  ASSUME NEW n \in Byte
  PROVE  /\ Short(n) = Major(UInt, U(n)) /\ WidthOf(U(n)) = 1
         /\ U(n) \in Word /\ Fits(U(n), 1) /\ U(n)[8] = n
<1> DEFINE u == U(n)
<1>1. n \in Nat /\ n < 256 /\ n \in Numbers16
  BY ByteIsNumber
<1>2. u \in Word /\ Fits(u, 1) /\ u[8] = n
  BY <1>1, NumberBytes
<1> HIDE DEF u
<1>3. WidthOf(u) = 1
  <2>1. WidthOf(u) \in Widths /\ \A v \in Widths : v < WidthOf(u) => ~Fits(u, v)
    BY LeastWidth
  <2>2. 1 \in Widths /\ \A w \in Widths : w = 1 \/ 1 < w
    BY DEF Widths
  <2> QED
    BY <1>2, <2>1, <2>2
<1>4. Short(n) = Major(UInt, u)
  <2>1. CASE n <= 23
    <3>1. 32 * UInt + u[8] = n
      BY <1>1, <1>2 DEF UInt
    <3>2. Major(UInt, u) = <<n>>
      BY <1>2, <2>1, <3>1 DEF Major
    <3> QED
      BY <2>1, <3>2 DEF Short
  <2>2. CASE ~(n <= 23)
    <3>1. Major(UInt, u) = <<32 * UInt + Code(1)>> \o Low(u, 1)
      BY <1>2, <1>3, <2>2, Zenon DEF Major, WidthOf
    <3>2. 32 * UInt + Code(1) = 24
      BY DEF UInt, Code
    <3>3. Low(u, 1) = <<n>>
      <4>1. Low(u, 1) \in Seq(Byte) /\ Len(Low(u, 1)) = 1
        BY <1>2, LowBytes DEF Widths
      <4>2. u \in Seq(Byte) /\ Len(u) = 8 /\ u[8] \in Byte
        BY <1>2, WordIsSeq
      <4>3. SubSeq(u, 8, 8)[1] = u[(8 + 1) - 1]
        <5>1. 8 \in Int /\ 8 - 8 + 1 = 1 /\ \A i \in 8..8 : u[i] \in Byte
          BY <4>2
        <5>2. \A i \in 1..1 : SubSeq(u, 8, 8)[i] = u[8 + i - 1]
          BY <5>1, SubSeqProperties
        <5> QED
          BY <5>2
      <4>4. 9 - 1 = 8 /\ (8 + 1) - 1 = 8
        OBVIOUS
      <4>5. Low(u, 1)[1] = n
        BY <1>2, <4>3, <4>4 DEF Low
      <4> QED
        BY <4>1, <4>5
    <3>4. <<24>> \o <<n>> = <<24, n>>
      <4>1. <<24>> \in Seq(Nat) /\ <<n>> \in Seq(Nat) /\ <<24, n>> \in Seq(Nat)
        BY <1>1
      <4>2. Len(<<24>>) = 1 /\ Len(<<n>>) = 1 /\ Len(<<24, n>>) = 2 /\ <<24>>[1] = 24
            /\ <<n>>[1] = n /\ <<24, n>>[1] = 24 /\ <<24, n>>[2] = n
        OBVIOUS
      <4>3. /\ <<24>> \o <<n>> \in Seq(Nat) /\ Len(<<24>> \o <<n>>) = 1 + 1
            /\ \A i \in 1..1 + 1 :
                 (<<24>> \o <<n>>)[i] = IF i <= 1 THEN <<24>>[i] ELSE <<n>>[i - 1]
        BY <4>1, <4>2, ConcatProperties
      <4>4. /\ Len(<<24>> \o <<n>>) = 2
            /\ (<<24>> \o <<n>>)[1] = 24 /\ (<<24>> \o <<n>>)[2] = n
        BY <4>2, <4>3
      <4>5. \A i \in 1..2 : (<<24>> \o <<n>>)[i] = <<24, n>>[i]
        BY <4>2, <4>4
      <4> QED
        BY <4>1, <4>2, <4>3, <4>4, <4>5, SeqEqual, ZenonT(40)
    <3> QED
      BY <2>2, <3>1, <3>2, <3>3, <3>4 DEF Short
  <2> QED
    BY <2>1, <2>2
<1> QED
  BY <1>2, <1>3, <1>4 DEF u

(* What a reader makes of one.                                             *)
LEMMA ShortIsRead ==
  ASSUME NEW n \in Byte, NEW t \in Seq(Byte), NEW widths, widths \subseteq Widths, 1 \in widths
  PROVE  /\ ReadItem(UInt, widths, Short(n) \o t) = [ok |-> TRUE, got |-> U(n), rest |-> t]
         /\ Short(n) \in Seq(Byte) /\ Len(Short(n)) \in Nat \ {0}
         /\ Short(n) \o t \in Seq(Byte)
<1> DEFINE u == U(n)
           h == ReadHead(UInt, widths, Short(n) \o t)
<1>1. Short(n) = Major(UInt, u) /\ WidthOf(u) = 1 /\ u \in Word
  BY ShortIsHead
<1>2. UInt \in Majors /\ UInt # Plain /\ UInt \notin {Raw, Str}
  BY DEF UInt, Majors, Plain, Raw, Str
<1> HIDE DEF u
<1>3. /\ h = [ok |-> TRUE, got |-> u, rest |-> t]
      /\ Short(n) \in Seq(Byte) /\ Len(Short(n)) \in Nat \ {0}
  BY <1>1, <1>2, HeadIsRead
<1> HIDE DEF h
<1>4. h.ok
  BY <1>3
<1>5. ReadItem(UInt, widths, Short(n) \o t) = h
  BY <1>2, <1>4, Zenon DEF ReadItem, h
<1>6. Short(n) \o t \in Seq(Byte)
  BY <1>3, ConcatProperties
<1> QED
  BY <1>3, <1>5, <1>6 DEF u

(* The items of a layout one after the other: q[k] is what is left for the *)
(* k-th, and v[k] is what is got for it.                                   *)
Steps(layout, n, widths, v, q) ==
  \A k \in 1..n :
    ReadItem(layout[k], widths, q[k]) = [ok |-> TRUE, got |-> v[k], rest |-> q[k + 1]]

(* What a layout reads is what its items get.                              *)
LEMMA LayoutIsRead ==
  ASSUME NEW n \in Nat, NEW layout, Len(layout) = n, NEW widths, NEW V,
         NEW v \in Seq(V), Len(v) = n, NEW q, Steps(layout, n, widths, v, q)
  PROVE  Read(layout, widths, q[1]) = [ok |-> TRUE, got |-> v, rest |-> q[n + 1]]
<1> DEFINE at(k) == [ok |-> TRUE, got |-> SubSeq(v, 1, k), rest |-> q[k + 1]]
<1>1. PICK r : /\ Reads(r, n, layout, widths, q[1])
               /\ Read(layout, widths, q[1]) = r[n]
  BY ReadIsReads, ZenonT(40)
<1>2. \A k \in 0..n : r[k] = IF k = 0 THEN [ok |-> TRUE, got |-> <<>>, rest |-> q[1]]
                             ELSE ReadOn(r[k - 1], layout[k], widths)
  BY <1>1, Zenon DEF Reads
<1>3. SubSeq(v, 1, 0) = <<>> /\ SubSeq(v, 1, n) = v
  BY SubSeqEmpty, SubSeqFull
<1>4. ASSUME NEW k \in Nat, k < n
      PROVE  SubSeq(v, 1, k + 1) = Append(SubSeq(v, 1, k), v[k + 1])
  BY <1>4
<1>5. ASSUME NEW k \in Nat, k < n, r[k] = at(k) PROVE r[k + 1] = at(k + 1)
  <2>1. k + 1 \in 0..n /\ k + 1 \in 1..n /\ k + 1 # 0 /\ (k + 1) - 1 = k
    BY <1>5
  <2>2. r[k + 1] = ReadOn(at(k), layout[k + 1], widths)
    BY <1>2, <1>5, <2>1
  <2>3. at(k).ok /\ at(k).got = SubSeq(v, 1, k) /\ at(k).rest = q[k + 1]
    OBVIOUS
  <2>4. ReadItem(layout[k + 1], widths, q[k + 1])
        = [ok |-> TRUE, got |-> v[k + 1], rest |-> q[(k + 1) + 1]]
    BY <2>1 DEF Steps
  <2> HIDE DEF at
  <2>5. ReadOn(at(k), layout[k + 1], widths)
        = [ok |-> TRUE, got |-> Append(SubSeq(v, 1, k), v[k + 1]), rest |-> q[(k + 1) + 1]]
    BY <2>3, <2>4 DEF ReadOn
  <2> QED
    BY <1>4, <1>5, <2>2, <2>5 DEF at
<1> DEFINE T == {k \in Nat : k <= n => r[k] = at(k)}
<1>6. 0 \in T
  <2>1. 0 \in 0..n /\ 0 + 1 = 1
    OBVIOUS
  <2>2. r[0] = [ok |-> TRUE, got |-> <<>>, rest |-> q[1]]
    BY <1>2, <2>1
  <2> QED
    BY <1>3, <2>1, <2>2
<1>7. ASSUME NEW k \in Nat, k \in T PROVE k + 1 \in T
  <2> SUFFICES ASSUME k + 1 <= n PROVE r[k + 1] = at(k + 1)
    OBVIOUS
  <2>1. k < n /\ k <= n
    OBVIOUS
  <2> HIDE DEF at
  <2> QED
    BY <1>5, <1>7, <2>1
<1> HIDE DEF T, at
<1>8. \A k \in Nat : k \in T
  BY <1>6, <1>7, AllNumbers
<1>9. r[n] = at(n)
  <2>1. n \in T /\ n <= n
    BY <1>8
  <2> QED
    BY <2>1 DEF T
<1> QED
  BY <1>1, <1>3, <1>9 DEF at

(* Two sequences one behind the other are told apart again.                *)
LEMMA ConcatTwo ==
  ASSUME NEW S, NEW a \in Seq(S), NEW b \in Seq(S)
  PROVE  /\ a \o b \in Seq(S) /\ Len(a \o b) = Len(a) + Len(b)
         /\ \A i \in 1..Len(a) : (a \o b)[i] = a[i]
         /\ SubSeq(a \o b, 1, Len(a)) = a
         /\ SubSeq(a \o b, Len(a) + 1, Len(a \o b)) = b
<1> DEFINE s == <<>> \o (a \o b)
<1>1. <<>> \in Seq(S) /\ Len(<<>>) = 0 /\ Len(a) \in Nat /\ Len(b) \in Nat
  OBVIOUS
<1>2. a \o b \in Seq(S) /\ Len(a \o b) = Len(a) + Len(b)
      /\ \A i \in 1..Len(a) + Len(b) : (a \o b)[i] = IF i <= Len(a) THEN a[i] ELSE b[i - Len(a)]
  BY ConcatProperties
<1>3. s = a \o b
  BY <1>2, ConcatEmptySeq
<1>4. /\ SubSeq(s, Len(<<>>) + 1, Len(<<>>) + Len(a)) = a
      /\ SubSeq(s, Len(<<>>) + Len(a) + 1, Len(s)) = b
  BY <1>1, ConcatParts
<1> HIDE DEF s
<1>5. Len(<<>>) + 1 = 1 /\ Len(<<>>) + Len(a) = Len(a)
      /\ Len(<<>>) + Len(a) + 1 = Len(a) + 1
  BY <1>1
<1>6. SubSeq(s, 1, Len(a)) = a /\ SubSeq(s, Len(a) + 1, Len(s)) = b
  BY <1>4, <1>5
<1>7. \A i \in 1..Len(a) : (a \o b)[i] = a[i]
  <2> TAKE i \in 1..Len(a)
  <2>1. i \in 1..Len(a) + Len(b) /\ i <= Len(a)
    BY <1>1
  <2> QED
    BY <1>2, <2>1
<1> QED
  BY <1>2, <1>3, <1>6, <1>7

(* A pair is one behind the other.                                         *)
LEMMA Pairs ==
  ASSUME NEW S, NEW a \in S, NEW b \in S
  PROVE  <<a>> \in Seq(S) /\ <<a, b>> \in Seq(S) /\ <<a>> \o <<b>> = <<a, b>>
<1>1. <<a>> \in Seq(S) /\ <<b>> \in Seq(S) /\ <<a, b>> \in Seq(S)
  OBVIOUS
<1>2. Len(<<a>>) = 1 /\ Len(<<b>>) = 1 /\ Len(<<a, b>>) = 2 /\ <<a>>[1] = a
      /\ <<b>>[1] = b /\ <<a, b>>[1] = a /\ <<a, b>>[2] = b
  OBVIOUS
<1> DEFINE x == <<a>> \o <<b>>
<1>3. x \in Seq(S) /\ Len(x) = 1 + 1
      /\ \A i \in 1..1 + 1 : x[i] = IF i <= 1 THEN <<a>>[i] ELSE <<b>>[i - 1]
  BY <1>1, <1>2, ConcatProperties
<1> HIDE DEF x
<1>4. Len(x) = 2 /\ x[1] = a /\ x[2] = b
  BY <1>2, <1>3
<1>5. \A i \in 1..2 : x[i] = <<a, b>>[i]
  BY <1>2, <1>4
<1> QED
  BY <1>1, <1>2, <1>3, <1>4, <1>5, SeqEqual DEF x

(* Values of one byte, one after the other.                                *)
LEMMA ShortsAreRead ==
  ASSUME NEW n \in Nat, NEW b, NEW q, NEW widths, widths \subseteq Widths, 1 \in widths,
         \A k \in 1..n : b[k] \in Byte /\ q[k + 1] \in Seq(Byte) /\ q[k] = Short(b[k]) \o q[k + 1]
  PROVE  Read(UInts(n), widths, q[1])
         = [ok |-> TRUE, got |-> [k \in 1..n |-> U(b[k])], rest |-> q[n + 1]]
<1> DEFINE v == [k \in 1..n |-> U(b[k])]
           layout == UInts(n)
<1>1. \A k \in 1..n : U(b[k]) \in Word
  BY ShortIsHead
<1>2. v \in Seq(Word) /\ Len(v) = n /\ \A k \in 1..n : v[k] = U(b[k])
  BY <1>1
<1>3. Len(layout) = n /\ \A k \in 1..n : layout[k] = UInt
  BY DEF UInts
<1> HIDE DEF v, layout
<1>4. Steps(layout, n, widths, v, q)
  <2> SUFFICES ASSUME NEW k \in 1..n
               PROVE  ReadItem(layout[k], widths, q[k])
                      = [ok |-> TRUE, got |-> v[k], rest |-> q[k + 1]]
    BY DEF Steps
  <2>1. b[k] \in Byte /\ q[k + 1] \in Seq(Byte) /\ q[k] = Short(b[k]) \o q[k + 1]
    OBVIOUS
  <2>2. ReadItem(UInt, widths, Short(b[k]) \o q[k + 1])
        = [ok |-> TRUE, got |-> U(b[k]), rest |-> q[k + 1]]
    BY <2>1, ShortIsRead, Zenon
  <2>3. layout[k] = UInt /\ v[k] = U(b[k])
    BY <1>2, <1>3
  <2> QED
    BY <2>1, <2>2, <2>3
<1>5. Read(layout, widths, q[1]) = [ok |-> TRUE, got |-> v, rest |-> q[n + 1]]
  BY <1>2, <1>3, <1>4, LayoutIsRead
<1> QED
  BY <1>5 DEF v, layout

-----------------------------------------------------------------------------
(* The reports of the Mac.                                                 *)

(* A state the device takes from the Mac.                                  *)
LEMMA StatesTaken ==
  ASSUME NEW state \in 0..Running
  PROVE  /\ state \in Byte /\ state <= 23
         /\ U(state) \in {U(n) : n \in (0..Running) \ {Listening}} <=> state # Listening
<1>1. \A n \in 0..Running : n \in Byte /\ n <= 23
  BY DEF Running, Byte
<1>2. \A n \in 0..Running : n \in Numbers16
  BY <1>1, ByteIsNumber
<1>3. \A n \in 0..Running : U(n) = U(state) => n = state
  BY <1>2, SameNumber
<1> QED
  BY <1>1, <1>3

(* Three sequences, joined from either side.                               *)
Regroups(a, b, c) == (a \o b) \o c = a \o (b \o c)

(* The two are the same.                                                   *)
LEMMA Regroup ==
  ASSUME NEW S, NEW a \in Seq(S), NEW b \in Seq(S), NEW c \in Seq(S)
  PROVE  Regroups(a, b, c)
  BY ConcatAssociative DEF Regroups

(* The same parts put together from the other end.                         *)
SixLeft(a, b, c, d, e, f) == ((((a \o b) \o c) \o d) \o e) \o f
SixRight(a, b, c, d, e, f) == a \o (b \o (c \o (d \o (e \o f))))

(* They come to the same.                                                  *)
LEMMA SixParts ==
  ASSUME NEW S, NEW a \in Seq(S), NEW b \in Seq(S), NEW c \in Seq(S), NEW d \in Seq(S),
         NEW e \in Seq(S), NEW f \in Seq(S)
  PROVE  SixLeft(a, b, c, d, e, f) = SixRight(a, b, c, d, e, f)
<1> DEFINE p1 == a \o b
           p2 == p1 \o c
           p3 == p2 \o d
           q4 == e \o f
           q3 == d \o q4
           q2 == c \o q3
<1>1. p1 \in Seq(S) /\ q4 \in Seq(S)
  BY ConcatProperties
<1>2. p1 \o q2 = a \o (b \o q2)
  <2>1. q3 \in Seq(S)
    BY <1>1, ConcatProperties
  <2> HIDE DEF q3
  <2>2. q2 \in Seq(S)
    BY <2>1, ConcatProperties
  <2> HIDE DEF q2
  <2>3. Regroups(a, b, q2)
    BY <2>2, Regroup
  <2> QED
    BY <2>3, Zenon DEF p1, Regroups
<1> HIDE DEF p1
<1>3. p2 \in Seq(S)
  BY <1>1, ConcatProperties
<1>4. p2 \o q3 = p1 \o q2
  <2>1. q3 \in Seq(S)
    BY <1>1, ConcatProperties
  <2> HIDE DEF q3
  <2>2. Regroups(p1, c, q3)
    BY <1>1, <2>1, Regroup
  <2> QED
    BY <2>2, Zenon DEF p2, q2, Regroups
<1> HIDE DEF p2, q2
<1>5. p3 \in Seq(S) /\ p3 \o q4 = p2 \o q3
  <2> HIDE DEF q4
  <2>1. p3 \in Seq(S)
    BY <1>3, ConcatProperties
  <2>2. Regroups(p2, d, q4)
    BY <1>1, <1>3, Regroup
  <2> QED
    BY <2>1, <2>2, Zenon DEF p3, q3, Regroups
<1> HIDE DEF p3, q3
<1>6. (p3 \o e) \o f = p3 \o q4
  <2>1. p3 \in Seq(S)
    BY <1>5
  <2>2. Regroups(p3, e, f)
    BY <2>1, Regroup
  <2> QED
    BY <2>2, Zenon DEF q4, Regroups
<1> QED
  BY <1>2, <1>4, <1>5, <1>6, Zenon DEF p1, p2, p3, q2, q3, q4, SixLeft, SixRight

(* What Activity makes of its two reads.                                   *)
Acts(s, one, all) ==
  IF Len(s) < 3 THEN Refused
  ELSE IF s[1] \notin {161, 164} \/ s[2] # 0 \/ ~one.ok THEN Refused
  ELSE IF one.got[1] \notin {U(n) : n \in (0..Running) \ {Listening}} THEN Refused
  ELSE IF s[1] = 161
  THEN IF ~Ended(one) THEN Refused
       ELSE [state |-> one.got[1][8], active |-> 0, attention |-> 0, completed |-> 0]
  ELSE IF ~Ended(all) THEN Refused
  ELSE IF \E k \in 1..3 : all.got[2 * k] # U(k) \/ ~Fits(all.got[2 * k + 1], 1) THEN Refused
  ELSE [state |-> all.got[1][8], active |-> all.got[3][8], attention |-> all.got[5][8],
        completed |-> all.got[7][8]]

(* Activity is that, of these two.                                         *)
LEMMA ActivityActs ==
  ASSUME NEW s
  PROVE  Activity(s) = Acts(s, Read(UInts(1), PayloadWidths, SubSeq(s, 3, Len(s))),
                            Read(UInts(7), PayloadWidths, SubSeq(s, 3, Len(s))))
BY Zenon DEF Activity, Acts

(* The activity and its three counts.                                      *)
LEMMA ActivityIsTaken ==
  ASSUME NEW r \in [state : 0..Running, active : Byte, attention : Byte, completed : Byte]
  PROVE  Activity(ActivityBytes(r)) = IF r.state = Listening THEN Refused ELSE r
<1> DEFINE st == r.state
           A == Short(r.active)
           B == Short(r.attention)
           C == Short(r.completed)
           b == <<st, 1, r.active, 2, r.attention, 3, r.completed>>
           q8 == <<>>
           q7 == C \o q8
           q6 == <<3>> \o q7
           q5 == B \o q6
           q4 == <<2>> \o q5
           q3 == A \o q4
           q2 == <<1>> \o q3
           q1 == <<st>> \o q2
           q == <<q1, q2, q3, q4, q5, q6, q7, q8>>
           p0 == <<164, 0, st, 1>>
           p1 == p0 \o A
           p2 == p1 \o <<2>>
           p3 == p2 \o B
           p4 == p3 \o <<3>>
           s == ActivityBytes(r)
<1>1. /\ st \in 0..Running /\ r.active \in Byte /\ r.attention \in Byte /\ r.completed \in Byte
      /\ r = [state |-> st, active |-> r.active, attention |-> r.attention,
              completed |-> r.completed]
  OBVIOUS
<1>2. 0 \in Byte /\ 1 \in Byte /\ 2 \in Byte /\ 3 \in Byte /\ 164 \in Byte
  BY DEF Byte
<1>3. st \in Byte /\ st <= 23
  BY <1>1, StatesTaken
<1>4. Short(1) = <<1>> /\ Short(2) = <<2>> /\ Short(3) = <<3>> /\ Short(st) = <<st>>
  BY <1>3 DEF Short
<1>5. A \in Seq(Byte) /\ B \in Seq(Byte) /\ C \in Seq(Byte)
  <2>1. <<>> \in Seq(Byte) /\ 1 \in Widths /\ PayloadWidths \subseteq Widths /\ 1 \in PayloadWidths
    BY DEF Widths, PayloadWidths
  <2> QED
    BY <1>1, <2>1, ShortIsRead
<1>6. /\ <<1>> \in Seq(Byte) /\ <<2>> \in Seq(Byte) /\ <<3>> \in Seq(Byte) /\ <<st>> \in Seq(Byte)
      /\ <<164, 0>> \in Seq(Byte) /\ <<st, 1>> \in Seq(Byte) /\ <<164, 0, st, 1>> \in Seq(Byte)
      /\ Len(<<164, 0>>) = 2 /\ <<164, 0>>[1] = 164 /\ <<164, 0>>[2] = 0
  BY <1>2, <1>3
<1> HIDE DEF A, B, C, st
<1>7. /\ q8 \in Seq(Byte) /\ q7 \in Seq(Byte) /\ q6 \in Seq(Byte) /\ q5 \in Seq(Byte)
      /\ q4 \in Seq(Byte) /\ q3 \in Seq(Byte) /\ q2 \in Seq(Byte) /\ q1 \in Seq(Byte)
  <2>1. q8 \in Seq(Byte)
    OBVIOUS
  <2>2. q7 \in Seq(Byte)
    BY <1>5, <2>1, ConcatProperties
  <2> HIDE DEF q7
  <2>3. q6 \in Seq(Byte)
    BY <1>6, <2>2, ConcatProperties
  <2> HIDE DEF q6
  <2>4. q5 \in Seq(Byte)
    BY <1>5, <2>3, ConcatProperties
  <2> HIDE DEF q5
  <2>5. q4 \in Seq(Byte)
    BY <1>6, <2>4, ConcatProperties
  <2> HIDE DEF q4
  <2>6. q3 \in Seq(Byte)
    BY <1>5, <2>5, ConcatProperties
  <2> HIDE DEF q3
  <2>7. q2 \in Seq(Byte)
    BY <1>6, <2>6, ConcatProperties
  <2> HIDE DEF q2
  <2>8. q1 \in Seq(Byte)
    BY <1>6, <2>7, ConcatProperties
  <2> QED
    BY <2>1, <2>2, <2>3, <2>4, <2>5, <2>6, <2>7, <2>8
<1>8. s = <<164, 0>> \o q1
  <2>1. s = p4 \o C
    BY Zenon DEF ActivityBytes, A, B, C, st
  <2>2. p0 = <<164, 0>> \o <<st, 1>>
    OBVIOUS
  <2>3. <<st, 1>> = <<st>> \o <<1>>
    BY <1>2, <1>3, Pairs
  <2>4. q7 = C
    BY <1>5, ConcatEmptySeq
  <2> HIDE DEF q7, p0
  <2>5. s = p0 \o q3
    <3>1. s = SixLeft(p0, A, <<2>>, B, <<3>>, C)
      BY <2>1, Zenon DEF SixLeft
    <3>2. SixRight(p0, A, <<2>>, B, <<3>>, C) = p0 \o q3
      BY <2>4, Zenon DEF SixRight
    <3>3. ASSUME NEW x \in Seq(Byte), NEW y \in Seq(Byte), NEW z \in Seq(Byte)
          PROVE  SixLeft(x, A, y, B, z, C) = SixRight(x, A, y, B, z, C)
      BY <1>5, SixParts
    <3> HIDE DEF q3, s
    <3>4. SixLeft(p0, A, <<2>>, B, <<3>>, C) = SixRight(p0, A, <<2>>, B, <<3>>, C)
      BY <1>6, <3>3, Zenon DEF p0
    <3> QED
      BY <3>1, <3>2, <3>4, Zenon
  <2> HIDE DEF q3
  <2>6. p0 \o q3 = <<164, 0>> \o (<<st, 1>> \o q3)
    BY <1>6, <1>7, <2>2
  <2>7. <<st, 1>> \o q3 = <<st>> \o (<<1>> \o q3)
    BY <1>6, <1>7, <2>3
  <2> QED
    BY <2>5, <2>6, <2>7
<1> HIDE DEF s
<1>9. /\ Len(s) >= 3 /\ s[1] = 164 /\ s[2] = 0 /\ SubSeq(s, 3, Len(s)) = q1
  <2>1. Len(q1) >= 1
    <3>1. Len(q1) = Len(<<st>>) + Len(q2) /\ Len(<<st>>) = 1 /\ Len(q2) \in Nat
      BY <1>6, <1>7, ConcatProperties
    <3> QED
      BY <3>1
  <2> HIDE DEF q1
  <2>2. /\ Len(s) = Len(<<164, 0>>) + Len(q1)
        /\ \A i \in 1..Len(<<164, 0>>) : s[i] = <<164, 0>>[i]
        /\ SubSeq(s, Len(<<164, 0>>) + 1, Len(s)) = q1
    BY <1>6, <1>7, <1>8, ConcatTwo
  <2>3. \A i \in 1..2 : s[i] = <<164, 0>>[i]
    BY <1>6, <2>2
  <2>4. Len(<<164, 0>>) + 1 = 3 /\ Len(q1) \in Nat
    BY <1>6, <1>7
  <2>5. SubSeq(s, 3, Len(s)) = q1
    BY <2>2, <2>4
  <2>6. s[1] = 164 /\ s[2] = 0
    BY <1>6, <2>3
  <2>7. Len(s) >= 3
    BY <1>6, <2>1, <2>2, <2>4
  <2> QED
    BY <2>5, <2>6, <2>7
<1>10. /\ 1 \in Widths /\ PayloadWidths \subseteq Widths /\ 1 \in PayloadWidths
  BY DEF Widths, PayloadWidths
<1>11. /\ q[1] = q1 /\ q[2] = q2 /\ q[3] = q3 /\ q[4] = q4 /\ q[5] = q5 /\ q[6] = q6
       /\ q[7] = q7 /\ q[8] = q8
       /\ b[1] = st /\ b[2] = 1 /\ b[3] = r.active /\ b[4] = 2 /\ b[5] = r.attention
       /\ b[6] = 3 /\ b[7] = r.completed
  <2> HIDE DEF q1, q2, q3, q4, q5, q6, q7, q8
  <2> QED
    OBVIOUS
<1>12. q1 = Short(st) \o q2 /\ q2 = Short(1) \o q3 /\ q3 = Short(r.active) \o q4
       /\ q4 = Short(2) \o q5 /\ q5 = Short(r.attention) \o q6
       /\ q6 = Short(3) \o q7 /\ q7 = Short(r.completed) \o q8
  BY <1>4 DEF A, B, C
<1>13. q8 = <<>>
  OBVIOUS
<1> HIDE DEF q1, q2, q3, q4, q5, q6, q7, q8, q, b
<1>14. \A k \in 1..7 :
         b[k] \in Byte /\ q[k + 1] \in Seq(Byte) /\ q[k] = Short(b[k]) \o q[k + 1]
  <2>1. \A k \in 1..7 : k = 1 \/ k = 2 \/ k = 3 \/ k = 4 \/ k = 5 \/ k = 6 \/ k = 7
    OBVIOUS
  <2>2. 1 + 1 = 2 /\ 2 + 1 = 3 /\ 3 + 1 = 4 /\ 4 + 1 = 5 /\ 5 + 1 = 6 /\ 6 + 1 = 7 /\ 7 + 1 = 8
    OBVIOUS
  <2> QED
    BY <1>1, <1>2, <1>3, <1>7, <1>11, <1>12, <2>1, <2>2, ZenonT(40)
<1> DEFINE all == Read(UInts(7), PayloadWidths, q1)
           one == Read(UInts(1), PayloadWidths, q1)
           g == [k \in 1..7 |-> U(b[k])]
           o == [k \in 1..1 |-> U(b[k])]
<1>15. all = [ok |-> TRUE, got |-> g, rest |-> <<>>]
  <2>1. 7 \in Nat /\ 7 + 1 = 8
    OBVIOUS
  <2>2. Read(UInts(7), PayloadWidths, q[1]) = [ok |-> TRUE, got |-> g, rest |-> q[7 + 1]]
    BY <1>10, <1>14, <2>1, ShortsAreRead, ZenonT(40)
  <2> HIDE DEF g
  <2> QED
    BY <1>11, <1>13, <2>1, <2>2
<1>16. one = [ok |-> TRUE, got |-> o, rest |-> q2]
  <2>1. 1 \in Nat /\ 1 + 1 = 2
    OBVIOUS
  <2>2. \A k \in 1..1 :
          b[k] \in Byte /\ q[k + 1] \in Seq(Byte) /\ q[k] = Short(b[k]) \o q[k + 1]
    <3>1. \A k \in 1..1 : k \in 1..7
      OBVIOUS
    <3> QED
      BY <1>14, <3>1, Zenon
  <2>3. Read(UInts(1), PayloadWidths, q[1]) = [ok |-> TRUE, got |-> o, rest |-> q[1 + 1]]
    BY <1>10, <2>1, <2>2, ShortsAreRead, ZenonT(40)
  <2> HIDE DEF o
  <2> QED
    BY <1>11, <2>1, <2>3
<1>17. /\ o[1] = U(st) /\ g[1] = U(st) /\ g[2] = U(1) /\ g[3] = U(r.active) /\ g[4] = U(2)
       /\ g[5] = U(r.attention) /\ g[6] = U(3) /\ g[7] = U(r.completed)
  BY <1>11
<1> HIDE DEF all, one, g, o
<1>18. /\ g[1][8] = st /\ g[3][8] = r.active /\ g[5][8] = r.attention /\ g[7][8] = r.completed
       /\ Fits(g[3], 1) /\ Fits(g[5], 1) /\ Fits(g[7], 1)
  BY <1>1, <1>3, <1>17, ShortIsHead
<1>19. ~\E k \in 1..3 : g[2 * k] # U(k) \/ ~Fits(g[2 * k + 1], 1)
  <2>1. \A k \in 1..3 : k = 1 \/ k = 2 \/ k = 3
    OBVIOUS
  <2>2. 2 * 1 = 2 /\ 2 * 2 = 4 /\ 2 * 3 = 6 /\ 2 + 1 = 3 /\ 4 + 1 = 5 /\ 6 + 1 = 7
    OBVIOUS
  <2> QED
    BY <1>17, <1>18, <2>1, <2>2
<1>20. /\ one.ok /\ all.ok /\ all.rest = <<>> /\ all.got = g /\ one.got = o
  BY <1>15, <1>16
<1>21. /\ s[1] \in {161, 164} /\ s[2] = 0 /\ s[1] # 161 /\ ~(Len(s) < 3)
  <2>1. \A n \in {164} : n \in {161, 164} /\ n # 161
    OBVIOUS
  <2>2. Len(s) \in Nat
    <3>1. s \in Seq(Byte)
      BY <1>6, <1>7, <1>8, ConcatProperties
    <3> QED
      BY <3>1
  <2> QED
    BY <1>9, <2>1, <2>2
<1>22. Activity(s) = IF U(st) \notin {U(n) : n \in (0..Running) \ {Listening}} THEN Refused
                     ELSE [state |-> g[1][8], active |-> g[3][8], attention |-> g[5][8],
                           completed |-> g[7][8]]
  <2>1. Activity(s) = Acts(s, one, all)
    BY <1>9, ActivityActs DEF one, all
  <2>2. Ended(all) /\ one.got[1] = U(st)
    BY <1>17, <1>20 DEF Ended
  <2>3. Acts(s, one, all)
        = IF one.got[1] \notin {U(n) : n \in (0..Running) \ {Listening}} THEN Refused
          ELSE [state |-> all.got[1][8], active |-> all.got[3][8],
                attention |-> all.got[5][8], completed |-> all.got[7][8]]
    <3>1. ~\E k \in 1..3 : all.got[2 * k] # U(k) \/ ~Fits(all.got[2 * k + 1], 1)
      BY <1>19, <1>20
    <3> QED
      BY <1>20, <1>21, <2>2, <3>1 DEF Acts
  <2> QED
    BY <1>20, <2>1, <2>2, <2>3, Zenon
<1>23. Activity(s) = IF st = Listening THEN Refused
                     ELSE [state |-> st, active |-> r.active, attention |-> r.attention,
                           completed |-> r.completed]
  BY <1>1, <1>18, <1>22, StatesTaken, Zenon
<1> QED
  BY <1>1, <1>23, Zenon DEF s, st

(* A state alone.                                                          *)
LEMMA StateIsTaken ==
  ASSUME NEW state \in 0..Running
  PROVE  Activity(StateBytes(state))
         = IF state = Listening THEN Refused
           ELSE [state |-> state, active |-> 0, attention |-> 0, completed |-> 0]
<1> DEFINE s == StateBytes(state)
           b == <<state>>
           q == <<<<state>>, <<>>>>
           one == Read(UInts(1), PayloadWidths, SubSeq(s, 3, Len(s)))
           all == Read(UInts(7), PayloadWidths, SubSeq(s, 3, Len(s)))
           o == [k \in 1..1 |-> U(b[k])]
<1>1. state \in Byte /\ state <= 23
  BY StatesTaken
<1>2. s = <<161, 0, state>>
  BY DEF StateBytes
<1>3. Len(s) = 3 /\ s[1] = 161 /\ s[2] = 0
  BY <1>2
<1>4. SubSeq(s, 3, Len(s)) = <<state>>
  <2>1. s[3] = state /\ 3 \in Int /\ 3 - 3 + 1 = 1 /\ \A i \in 3..3 : s[i] \in Byte
    BY <1>1, <1>2
  <2> DEFINE z == SubSeq(s, 3, 3)
  <2>2. z \in Seq(Byte) /\ Len(z) = 1 /\ \A i \in 1..1 : z[i] = s[3 + i - 1]
    BY <2>1, SubSeqProperties
  <2> HIDE DEF z
  <2>3. z[1] = state
    BY <2>1, <2>2
  <2>4. z = <<state>>
    BY <2>2, <2>3
  <2> QED
    BY <1>3, <2>4 DEF z
<1>5. /\ 1 \in Widths /\ PayloadWidths \subseteq Widths /\ 1 \in PayloadWidths
  BY DEF Widths, PayloadWidths
<1>6. q[1] = <<state>> /\ q[2] = <<>> /\ b[1] = state /\ <<>> \in Seq(Byte)
      /\ <<state>> \in Seq(Byte)
  BY <1>1
<1>7. Short(state) \o <<>> = <<state>>
  <2>1. Short(state) = <<state>>
    BY <1>1 DEF Short
  <2> QED
    BY <1>6, <2>1, ConcatEmptySeq
<1> HIDE DEF q, b, s
<1>8. \A k \in 1..1 :
        b[k] \in Byte /\ q[k + 1] \in Seq(Byte) /\ q[k] = Short(b[k]) \o q[k + 1]
  <2>1. (\A k \in 1..1 : k = 1) /\ 1 + 1 = 2
    OBVIOUS
  <2> QED
    BY <1>1, <1>6, <1>7, <2>1
<1>9. one = [ok |-> TRUE, got |-> o, rest |-> <<>>]
  <2>1. 1 \in Nat /\ 1 + 1 = 2
    OBVIOUS
  <2>2. Read(UInts(1), PayloadWidths, q[1]) = [ok |-> TRUE, got |-> o, rest |-> q[1 + 1]]
    BY <1>5, <1>8, <2>1, ShortsAreRead, ZenonT(40)
  <2> HIDE DEF o
  <2> QED
    BY <1>4, <1>6, <2>1, <2>2
<1>10. o[1] = U(state) /\ U(state)[8] = state
  BY <1>1, <1>6, ShortIsHead
<1> HIDE DEF one, all, o
<1>11. one.ok /\ Ended(one) /\ one.got[1] = U(state)
  BY <1>9, <1>10 DEF Ended
<1>12. Activity(s) = Acts(s, one, all)
  BY ActivityActs DEF one, all
<1>13. s[1] \in {161, 164} /\ ~(Len(s) < 3)
  BY <1>3
<1>14. Acts(s, one, all)
       = IF U(state) \notin {U(n) : n \in (0..Running) \ {Listening}} THEN Refused
         ELSE [state |-> U(state)[8], active |-> 0, attention |-> 0, completed |-> 0]
  BY <1>3, <1>11, <1>13 DEF Acts
<1>15. Acts(s, one, all)
       = IF state = Listening THEN Refused
         ELSE [state |-> state, active |-> 0, attention |-> 0, completed |-> 0]
  BY <1>10, <1>14, StatesTaken, Zenon
<1> QED
  BY <1>12, <1>15, Zenon DEF s

(* How long a value of one byte is.                                        *)
LEMMA ShortLength ==
  ASSUME NEW n \in Byte
  PROVE  Len(Short(n)) = IF n <= 23 THEN 1 ELSE 2
<1>1. Len(<<n>>) = 1 /\ Len(<<24, n>>) = 2
  OBVIOUS
<1> QED
  BY <1>1 DEF Short

(* What Quota makes of its read.                                           *)
Quotas(s, r) ==
  IF Len(s) < 7 THEN Refused
  ELSE IF s[1] # 162 \/ ~Ended(r) THEN Refused
  ELSE IF r.got[1] # U(0) \/ r.got[3] # U(1) \/ ~Fits(r.got[2], 1) \/ ~Fits(r.got[4], 1)
  THEN Refused
  ELSE [five |-> r.got[2][8], week |-> r.got[4][8]]

(* A quota is taken when both of its values take two bytes.                *)
LEMMA QuotaIsTaken ==
  ASSUME NEW five \in Byte, NEW week \in Byte
  PROVE  Quota(QuotaBytes(five, week))
         = IF five > 23 /\ week > 23 THEN [five |-> five, week |-> week] ELSE Refused
<1> DEFINE A == Short(five)
           B == Short(week)
           b == <<0, five, 1, week>>
           q5 == <<>>
           q4 == B \o q5
           q3 == <<1>> \o q4
           q2 == A \o q3
           q1 == <<0>> \o q2
           q == <<q1, q2, q3, q4, q5>>
           s == QuotaBytes(five, week)
           r == Read(UInts(4), PayloadWidths, Tail(s))
           g == [k \in 1..4 |-> U(b[k])]
<1>1. 0 \in Byte /\ 1 \in Byte /\ 162 \in Byte
  BY DEF Byte
<1>2. /\ 1 \in Widths /\ PayloadWidths \subseteq Widths /\ 1 \in PayloadWidths
  BY DEF Widths, PayloadWidths
<1>3. A \in Seq(Byte) /\ B \in Seq(Byte)
  <2>1. <<>> \in Seq(Byte)
    OBVIOUS
  <2> QED
    BY <1>2, <2>1, ShortIsRead
<1>4. Short(0) = <<0>> /\ Short(1) = <<1>>
  BY DEF Short
<1>5. /\ <<0>> \in Seq(Byte) /\ <<1>> \in Seq(Byte) /\ <<162, 0>> \in Seq(Byte)
      /\ <<162>> \in Seq(Byte) /\ Len(<<162>>) = 1 /\ <<162>>[1] = 162
      /\ Len(<<0>>) = 1 /\ Len(<<1>>) = 1
  BY <1>1
<1>6. /\ Len(A) \in 1..2 /\ (Len(A) = 2 <=> five > 23)
      /\ Len(B) \in 1..2 /\ (Len(B) = 2 <=> week > 23)
  BY ShortLength, ByteIsNumber
<1> HIDE DEF A, B
<1>7. q5 \in Seq(Byte) /\ q4 \in Seq(Byte) /\ q3 \in Seq(Byte) /\ q2 \in Seq(Byte)
      /\ q1 \in Seq(Byte) /\ Len(q1) = Len(A) + Len(B) + 2
  <2>1. q5 \in Seq(Byte) /\ q4 = B
    BY <1>3, ConcatEmptySeq
  <2> HIDE DEF q5, q4
  <2>2. q3 \in Seq(Byte) /\ Len(q3) = 1 + Len(B)
    BY <1>3, <1>5, <2>1, ConcatProperties
  <2> HIDE DEF q3
  <2>3. q2 \in Seq(Byte) /\ Len(q2) = Len(A) + Len(q3)
    BY <1>3, <2>2, ConcatProperties
  <2> HIDE DEF q2
  <2>4. q1 \in Seq(Byte) /\ Len(q1) = 1 + Len(q2)
    BY <1>5, <2>3, ConcatProperties
  <2> HIDE DEF q1
  <2>5. Len(q1) = Len(A) + Len(B) + 2
    BY <1>6, <2>2, <2>3, <2>4
  <2> QED
    BY <1>3, <2>1, <2>2, <2>3, <2>4, <2>5
<1>8. s = <<162>> \o q1
  <2>1. s = ((<<162, 0>> \o A) \o <<1>>) \o B
    BY Zenon DEF QuotaBytes, A, B
  <2>2. q4 = B
    BY <1>3, ConcatEmptySeq
  <2> DEFINE one == <<1>>
             two == <<162, 0>>
             zero == <<0>>
             lead == <<162>>
  <2>3. two = lead \o zero
    OBVIOUS
  <2>4. one \in Seq(Byte) /\ two \in Seq(Byte) /\ zero \in Seq(Byte) /\ lead \in Seq(Byte)
    BY <1>5
  <2>5. s = ((two \o A) \o one) \o B /\ q1 = zero \o (A \o (one \o B))
    BY <2>1, <2>2
  <2> HIDE DEF one, two, zero, lead, s, q1
  <2> DEFINE two_A == two \o A
             one_B == one \o B
             rest == A \o one_B
  <2>6. two_A \in Seq(Byte) /\ one_B \in Seq(Byte)
    BY <1>3, <2>4, ConcatProperties
  <2> HIDE DEF two_A, one_B
  <2>7. rest \in Seq(Byte)
    BY <1>3, <2>6, ConcatProperties
  <2> HIDE DEF rest
  <2>8. Regroups(two_A, one, B) /\ Regroups(two, A, one_B) /\ Regroups(lead, zero, rest)
    BY <1>3, <2>4, <2>6, <2>7, Regroup
  <2>9. s = lead \o q1
    BY <2>3, <2>5, <2>8, Zenon DEF two_A, one_B, rest, Regroups
  <2> QED
    BY <2>9 DEF lead
<1>9. /\ q[1] = q1 /\ q[2] = q2 /\ q[3] = q3 /\ q[4] = q4 /\ q[5] = q5
      /\ b[1] = 0 /\ b[2] = five /\ b[3] = 1 /\ b[4] = week
  <2> HIDE DEF q1, q2, q3, q4, q5
  <2> QED
    OBVIOUS
<1>10. q1 = Short(0) \o q2 /\ q2 = Short(five) \o q3 /\ q3 = Short(1) \o q4
       /\ q4 = Short(week) \o q5 /\ q5 = <<>>
  BY <1>4 DEF A, B
<1> HIDE DEF q, q1, q2, q3, q4, q5, b, s
<1>11. Len(s) = Len(A) + Len(B) + 3 /\ s[1] = 162 /\ Tail(s) = q1
  <2>1. Len(A) \in Nat /\ Len(B) \in Nat
    BY <1>6
  <2>2. /\ s \in Seq(Byte) /\ Len(s) = 1 + Len(q1)
        /\ \A i \in 1..1 + Len(q1) : s[i] = IF i <= 1 THEN <<162>>[i] ELSE q1[i - 1]
    BY <1>5, <1>7, <1>8, ConcatProperties
  <2>3. Len(s) = Len(A) + Len(B) + 3
    BY <1>7, <2>1, <2>2
  <2>4. s # <<>>
    BY <2>1, <2>2, <2>3
  <2>5. s[1] = 162
    BY <1>5, <1>7, <2>1, <2>2, SMTT(30)
  <2>6. Tail(s) = q1
    <3>1. /\ Tail(s) \in Seq(Byte) /\ Len(Tail(s)) = Len(s) - 1
          /\ \A i \in 1..Len(Tail(s)) : Tail(s)[i] = s[i + 1]
      BY <2>2, <2>4, HeadTailProperties
    <3>2. Len(Tail(s)) = Len(q1) /\ Len(q1) \in Nat
      BY <1>7, <2>1, <2>2, <3>1
    <3>3. ASSUME NEW i \in 1..Len(q1) PROVE Tail(s)[i] = q1[i]
      <4>1. i + 1 \in 1..1 + Len(q1) /\ ~(i + 1 <= 1) /\ (i + 1) - 1 = i
        BY <3>2
      <4> QED
        BY <2>2, <3>1, <3>2, <4>1
    <3> QED
      BY <1>7, <3>1, <3>2, <3>3, SeqEqual
  <2> QED
    BY <2>3, <2>5, <2>6
<1>12. \A k \in 1..4 :
         b[k] \in Byte /\ q[k + 1] \in Seq(Byte) /\ q[k] = Short(b[k]) \o q[k + 1]
  <2>1. \A k \in 1..4 : k = 1 \/ k = 2 \/ k = 3 \/ k = 4
    OBVIOUS
  <2>2. 1 + 1 = 2 /\ 2 + 1 = 3 /\ 3 + 1 = 4 /\ 4 + 1 = 5
    OBVIOUS
  <2> QED
    BY <1>1, <1>7, <1>9, <1>10, <2>1, <2>2
<1>13. r = [ok |-> TRUE, got |-> g, rest |-> <<>>]
  <2>1. 4 \in Nat /\ 4 + 1 = 5
    OBVIOUS
  <2>2. Read(UInts(4), PayloadWidths, q[1]) = [ok |-> TRUE, got |-> g, rest |-> q[4 + 1]]
    BY <1>2, <1>12, <2>1, ShortsAreRead, ZenonT(40)
  <2> HIDE DEF g
  <2> QED
    BY <1>9, <1>10, <1>11, <2>1, <2>2
<1>14. g[1] = U(0) /\ g[2] = U(five) /\ g[3] = U(1) /\ g[4] = U(week)
  BY <1>9
<1> HIDE DEF r, g
<1>15. Ended(r) /\ r.got[1] = U(0) /\ r.got[3] = U(1) /\ Fits(r.got[2], 1) /\ Fits(r.got[4], 1)
       /\ r.got[2][8] = five /\ r.got[4][8] = week
  BY <1>13, <1>14, ShortIsHead DEF Ended
<1>16. Quota(s) = Quotas(s, r)
  BY Zenon DEF Quota, Quotas, r
<1>17. Quotas(s, r) = IF Len(s) < 7 THEN Refused ELSE [five |-> five, week |-> week]
  BY <1>11, <1>15 DEF Quotas
<1>18. Len(s) < 7 <=> ~(five > 23 /\ week > 23)
  <2>1. \A x, y \in 1..2 : x + y + 3 < 7 <=> ~(x = 2 /\ y = 2)
    OBVIOUS
  <2>2. Len(A) + Len(B) + 3 < 7 <=> ~(Len(A) = 2 /\ Len(B) = 2)
    BY <1>6, <2>1
  <2> QED
    BY <1>6, <1>11, <2>2, ZenonT(40)
<1> QED
  BY <1>16, <1>17, <1>18 DEF s

(* The first two of three bytes.                                           *)
LEMMA FirstTwo ==
  ASSUME NEW a \in Byte, NEW b \in Byte, NEW c \in Byte
  PROVE  SubSeq(<<a, b, c>>, 1, 2) = <<a, b>>
<1> DEFINE s == <<a, b, c>>
           z == SubSeq(s, 1, 2)
<1>1. s[1] = a /\ s[2] = b /\ (\A i \in 1..2 : i = 1 \/ i = 2) /\ 2 - 1 + 1 = 2
  OBVIOUS
<1>2. \A i \in 1..2 : s[i] \in Byte
  BY <1>1
<1>3. z \in Seq(Byte) /\ Len(z) = 2 /\ \A i \in 1..2 : z[i] = s[1 + i - 1]
  BY <1>1, <1>2, SubSeqProperties
<1>4. \A i \in 1..2 : 1 + i - 1 = i
  OBVIOUS
<1> HIDE DEF z
<1>5. z[1] = a /\ z[2] = b
  BY <1>1, <1>3, <1>4
<1>6. z = <<a, b>>
  BY <1>3, <1>5
<1> QED
  BY <1>6 DEF z

(* The heartbeat and the two kinds of a task's end.                        *)
LEMMA SmallOnesAreTaken ==
  /\ \A fresh \in BOOLEAN : Heartbeat(HeartbeatBytes(fresh)) = [fresh |-> fresh]
  /\ \A task \in {0, 1} : TaskEvent(TaskEventBytes(task)) = [kind |-> task]
<1>1. 161 \in Byte /\ 0 \in Byte /\ 1 \in Byte /\ Yes \in Byte /\ No \in Byte /\ Yes # No
  BY DEF Byte, Yes, No
<1>2. ASSUME NEW fresh \in BOOLEAN
      PROVE  Heartbeat(HeartbeatBytes(fresh)) = [fresh |-> fresh]
  <2> DEFINE x == IF fresh THEN Yes ELSE No
             s == <<161, 0, x>>
  <2>1. HeartbeatBytes(fresh) = s
    BY DEF HeartbeatBytes
  <2>2. x \in {Yes, No} /\ x \in Byte /\ (x = Yes <=> fresh)
    BY <1>1
  <2> HIDE DEF x
  <2>3. Len(s) = 3 /\ s[3] = x
    OBVIOUS
  <2>4. SubSeq(s, 1, 2) = <<161, 0>>
    BY <1>1, <2>2, FirstTwo
  <2> HIDE DEF s
  <2>5. Heartbeat(s) = [fresh |-> x = Yes]
    BY <2>2, <2>3, <2>4 DEF Heartbeat
  <2>6. (x = Yes) = fresh
    BY <2>2
  <2> QED
    BY <2>1, <2>5, <2>6
<1>3. ASSUME NEW task \in {0, 1}
      PROVE  TaskEvent(TaskEventBytes(task)) = [kind |-> task]
  <2> DEFINE s == <<161, 0, task>>
  <2>1. TaskEventBytes(task) = s
    BY DEF TaskEventBytes
  <2>2. Len(s) = 3 /\ s[3] = task /\ task \in Byte /\ task <= 1
    BY <1>1
  <2>3. SubSeq(s, 1, 2) = <<161, 0>>
    BY <1>1, <2>2, FirstTwo
  <2> HIDE DEF s
  <2> QED
    BY <2>1, <2>2, <2>3 DEF TaskEvent
<1> QED
  BY <1>2, <1>3

(* Sixteen bits are signed when they are read as they were written.        *)
LEMMA SignedBytes ==
  ASSUME NEW t \in Int16
  PROVE  LET hi == (t % 65536) \div 256
             lo == t % 256
         IN hi \in Byte /\ lo \in Byte /\ Signed(256 * hi + lo) = t
<1>1. t \in Int /\ -32768 <= t /\ t <= 32767
  BY DEF Int16
<1> DEFINE hi == (t % 65536) \div 256
           lo == t % 256
           raw == IF t < 0 THEN t + 65536 ELSE t
<1>2. t % 65536 = raw
  BY <1>1
<1>3. raw \in Nat /\ raw < 65536
  BY <1>1
<1>4. t % 256 = raw % 256
  BY <1>1
<1> HIDE DEF raw
<1>5. \A r \in Nat : r < 65536 =>
        /\ r \div 256 \in Nat /\ r \div 256 < 256 /\ r % 256 \in Nat /\ r % 256 < 256
        /\ 256 * (r \div 256) + (r % 256) = r
  OBVIOUS
<1>6. \A n \in Nat : n < 256 => n \in Byte
  BY DEF Byte
<1>7. hi = raw \div 256 /\ lo = raw % 256
  BY <1>2, <1>4
<1> HIDE DEF hi, lo
<1>8. hi \in Byte /\ lo \in Byte /\ 256 * hi + lo = raw
  BY <1>3, <1>5, <1>6, <1>7
<1>9. Signed(raw) = t
  BY <1>1 DEF Signed, raw
<1> QED
  BY <1>8, <1>9 DEF hi, lo

(* The weather.                                                            *)
LEMMA WeatherIsTaken ==
  ASSUME NEW w \in [tenths : Int16, code : Byte, city : Strings],
         Len(w.city) \in 1..CityCapacity - 1
  PROVE  Weather(WeatherBytes(w)) = w
<1> DEFINE hi == (w.tenths % 65536) \div 256
           lo == w.tenths % 256
           n == Len(w.city)
           c == w.code
           h == <<1, hi, lo, c, n>>
           s == h \o w.city
<1>1. w.tenths \in Int16 /\ c \in Byte /\ w.city \in Seq(Byte)
      /\ w = [tenths |-> w.tenths, code |-> c, city |-> w.city]
  BY DEF Strings
<1>2. hi \in Byte /\ lo \in Byte /\ Signed(256 * hi + lo) = w.tenths
  BY <1>1, SignedBytes
<1>3. 1 \in Byte /\ n \in Byte /\ n \in Nat /\ n # 0 /\ ~(n >= CityCapacity) /\ n >= 1
  <2>1. \A x \in 1..CityCapacity - 1 :
          x \in Byte /\ x \in Nat /\ x # 0 /\ ~(x >= CityCapacity) /\ x >= 1
    BY DEF Byte, CityCapacity
  <2>2. 1 \in 1..CityCapacity - 1
    BY DEF CityCapacity
  <2> QED
    BY <2>1, <2>2
<1>4. WeatherBytes(w) = s
  BY DEF WeatherBytes
<1> HIDE DEF hi, lo, n, c
<1>5. h \in Seq(Byte) /\ Len(h) = 5 /\ h[1] = 1 /\ h[2] = hi /\ h[3] = lo /\ h[4] = c /\ h[5] = n
  BY <1>1, <1>2, <1>3
<1> HIDE DEF h
<1>6. /\ Len(s) = Len(h) + n /\ (\A i \in 1..Len(h) : s[i] = h[i])
      /\ SubSeq(s, Len(h) + 1, Len(s)) = w.city
  <2> DEFINE city == w.city
  <2>1. city \in Seq(Byte) /\ h \in Seq(Byte) /\ s = h \o city /\ n = Len(city)
    BY <1>1, <1>5 DEF n
  <2> HIDE DEF city, s
  <2>2. /\ Len(s) = Len(h) + Len(city) /\ (\A i \in 1..Len(h) : s[i] = h[i])
        /\ SubSeq(s, Len(h) + 1, Len(s)) = city
    BY <2>1, ConcatTwo
  <2> QED
    BY <2>1, <2>2 DEF city
<1> HIDE DEF s
<1>7. /\ Len(s) = 5 + n /\ s[1] = 1 /\ s[2] = hi /\ s[3] = lo /\ s[4] = c /\ s[5] = n
      /\ SubSeq(s, 6, Len(s)) = w.city
  <2>1. 5 + 1 = 6 /\ \A i \in 1..5 : s[i] = h[i]
    BY <1>5, <1>6
  <2> QED
    BY <1>5, <1>6, <2>1
<1>8. ~(Len(s) < 6) /\ Len(s) = n + 5
  BY <1>3, <1>7
<1>9. Weather(s) = [tenths |-> Signed(256 * s[2] + s[3]), code |-> s[4], city |-> SubSeq(s, 6, Len(s))]
  BY <1>3, <1>7, <1>8 DEF Weather
<1>10. Weather(s) = [tenths |-> w.tenths, code |-> c, city |-> w.city]
  BY <1>2, <1>7, <1>9, Zenon
<1> QED
  BY <1>1, <1>4, <1>10, Zenon

(* The settings of the weather.                                            *)
LEMMA SettingsAreTaken ==
  ASSUME NEW c \in [enabled : BOOLEAN, celsius : BOOLEAN, minutes : {15, 30, 60}]
  PROVE  WeatherConfig(WeatherConfigBytes(c)) = c
<1> DEFINE x == IF c.enabled THEN 1 ELSE 0
           y == IF c.celsius THEN 1 ELSE 0
           m == c.minutes
           s == <<1, x, y, m>>
<1>1. /\ c.enabled \in BOOLEAN /\ c.celsius \in BOOLEAN /\ m \in {15, 30, 60}
      /\ c = [enabled |-> c.enabled, celsius |-> c.celsius, minutes |-> m]
  OBVIOUS
<1>2. WeatherConfigBytes(c) = s
  BY DEF WeatherConfigBytes
<1>3. x \in {0, 1} /\ y \in {0, 1} /\ (x = 1) = c.enabled /\ (y = 1) = c.celsius
  BY <1>1
<1> HIDE DEF x, y, m
<1>4. Len(s) = 4 /\ s[1] = 1 /\ s[2] = x /\ s[3] = y /\ s[4] = m
  OBVIOUS
<1> HIDE DEF s
<1>5. WeatherConfig(s) = [enabled |-> s[2] = 1, celsius |-> s[3] = 1, minutes |-> s[4]]
  BY <1>1, <1>3, <1>4 DEF WeatherConfig
<1> QED
  BY <1>1, <1>2, <1>3, <1>4, <1>5, ZenonT(40)

(* Where four sequences lie one after the other.                           *)
Joined(a, b, c, d) == ((a \o b) \o c) \o d
LiesIn(s, a, b, c, d) ==
  LET n == Len(a) + Len(b)
  IN /\ Len(s) = n + Len(c) + Len(d)
     /\ \A i \in 1..Len(a) : s[i] = a[i]
     /\ SubSeq(s, 1, Len(a)) = a
     /\ SubSeq(s, Len(a) + 1, n) = b
     /\ SubSeq(s, n + 1, n + Len(c)) = c
     /\ SubSeq(s, n + Len(c) + 1, Len(s)) = d

(* Each of them is where it is looked for.                                 *)
LEMMA JoinedParts ==
  ASSUME NEW S, NEW a \in Seq(S), NEW b \in Seq(S), NEW c \in Seq(S), NEW d \in Seq(S)
  PROVE  LiesIn(Joined(a, b, c, d), a, b, c, d)
<1> DEFINE ab == a \o b
           cd == c \o d
           bcd == b \o cd
           s == ab \o cd
<1>1. ab \in Seq(S) /\ cd \in Seq(S) /\ Len(ab) = Len(a) + Len(b) /\ Len(cd) = Len(c) + Len(d)
  BY ConcatProperties
<1>2. (a \o b) \o cd = a \o (b \o cd)
  <2> HIDE DEF cd
  <2>1. cd \in Seq(S)
    BY <1>1
  <2> QED
    BY <2>1
<1>3. Joined(a, b, c, d) = s
  <2>1. (ab \o c) \o d = ab \o (c \o d)
    <3>1. ab \in Seq(S)
      BY <1>1
    <3> HIDE DEF ab
    <3> QED
      BY <3>1
  <2> QED
    BY <2>1, Zenon DEF Joined
<1> HIDE DEF ab
<1>4. /\ Len(s) = Len(ab) + Len(c) + Len(d)
      /\ SubSeq(s, Len(ab) + 1, Len(ab) + Len(c)) = c
      /\ SubSeq(s, Len(ab) + Len(c) + 1, Len(s)) = d
  <2>1. ab \in Seq(S)
    BY <1>1
  <2>2. LET z == ab \o (c \o d)
        IN /\ Len(z) = Len(ab) + Len(c) + Len(d)
           /\ SubSeq(z, Len(ab) + 1, Len(ab) + Len(c)) = c
           /\ SubSeq(z, Len(ab) + Len(c) + 1, Len(z)) = d
    BY <2>1, ConcatParts, SMTT(30)
  <2> QED
    BY <2>2, Zenon
<1> HIDE DEF cd
<1>5. s = a \o (b \o cd)
  BY <1>2 DEF ab
<1> HIDE DEF s
<1>6. /\ SubSeq(a \o (b \o cd), Len(a) + 1, Len(a) + Len(b)) = b
      /\ \A i \in 1..Len(a) : (a \o (b \o cd))[i] = a[i]
  BY <1>1, ConcatParts, SMTT(30)
<1>7. SubSeq(a \o bcd, 1, Len(a)) = a
  <2>1. bcd \in Seq(S)
    BY <1>1, ConcatProperties
  <2> HIDE DEF bcd
  <2> QED
    BY <2>1, ConcatTwo
<1>8. SubSeq(s, 1, Len(a)) = a /\ SubSeq(s, Len(a) + 1, Len(a) + Len(b)) = b
      /\ \A i \in 1..Len(a) : s[i] = a[i]
  BY <1>5, <1>6, <1>7, Zenon
<1> QED
  BY <1>1, <1>3, <1>4, <1>8, Zenon DEF LiesIn

(* A function on the first numbers is a sequence.                          *)
LEMMA FunctionIsSeq ==
  ASSUME NEW S, NEW n \in Nat, NEW f \in [1..n -> S]
  PROVE  f \in Seq(S) /\ Len(f) = n
OBVIOUS

(* The profile of a host.                                                  *)
LEMMA ProfileIsTaken ==
  ASSUME NEW h \in [id : Strings, name : Strings, capabilities : Byte, secret : [1..32 -> Byte]],
         ProfileBytes(h) # Refused
  PROVE  Profile(ProfileBytes(h)) = h
<1> DEFINE c == h.capabilities
           id == h.id
           name == h.name
           secret == h.secret
           m == Len(id)
           n == Len(name)
           magic == <<67, 67, 80, 50, 1>>
           head == <<67, 67, 80, 50, 1, c, m, n>>
           s == ((head \o secret) \o id) \o name
<1>1. /\ c \in Byte /\ id \in Seq(Byte) /\ name \in Seq(Byte) /\ secret \in [1..32 -> Byte]
      /\ h = [id |-> id, name |-> name, capabilities |-> c, secret |-> secret]
  BY DEF Strings
<1>2. m \in 1..48 /\ n \in 1..64 /\ ProfileBytes(h) = s
  <2>1. CASE m \in 1..48 /\ n \in 1..64
    BY <2>1, Zenon DEF ProfileBytes
  <2>2. CASE ~(m \in 1..48 /\ n \in 1..64)
    <3>1. ProfileBytes(h) = Refused
      BY <2>2, Zenon DEF ProfileBytes
    <3> QED
      BY <3>1
  <2> QED
    BY <2>1, <2>2
<1>3. secret \in Seq(Byte) /\ Len(secret) = 32
  <2>1. 32 \in Nat /\ secret \in [1..32 -> Byte]
    BY <1>1
  <2> HIDE DEF secret
  <2> QED
    BY <2>1, FunctionIsSeq
<1>4. m \in Byte /\ n \in Byte /\ m \in Nat /\ n \in Nat /\ m >= 1 /\ n >= 1
  <2>1. \A x \in 1..64 : x \in Byte /\ x \in Nat /\ x >= 1
    BY DEF Byte
  <2>2. \A x \in 1..48 : x \in 1..64
    OBVIOUS
  <2> QED
    BY <1>2, <2>1, <2>2, Zenon
<1> HIDE DEF c, id, name, secret, m, n
<1>5. magic \in Seq(Byte) /\ Len(magic) = 5 /\ head \in Seq(Byte) /\ Len(head) = 8
  <2>1. 67 \in Byte /\ 80 \in Byte /\ 50 \in Byte /\ 1 \in Byte
    BY DEF Byte
  <2> QED
    BY <1>1, <1>4, <2>1
<1>6. /\ head[6] = c /\ head[7] = m /\ head[8] = n
      /\ head[1] = magic[1] /\ head[2] = magic[2] /\ head[3] = magic[3] /\ head[4] = magic[4]
      /\ head[5] = magic[5]
  OBVIOUS
<1> HIDE DEF magic, head
<1>7. LiesIn(s, head, secret, id, name)
  <2>1. s = Joined(head, secret, id, name)
    BY DEF Joined
  <2>2. head \in Seq(Byte) /\ secret \in Seq(Byte) /\ id \in Seq(Byte) /\ name \in Seq(Byte)
    BY <1>1, <1>3, <1>5
  <2> HIDE DEF s
  <2> QED
    BY <2>1, <2>2, JoinedParts
<1> HIDE DEF s
<1>8. /\ Len(s) = 8 + 32 + m + n
      /\ \A i \in 1..8 : s[i] = head[i]
      /\ SubSeq(s, 8 + 1, 8 + 32) = secret
      /\ SubSeq(s, (8 + 32) + 1, (8 + 32) + m) = id
      /\ SubSeq(s, (8 + 32) + m + 1, Len(s)) = name
  BY <1>3, <1>5, <1>7, Zenon DEF LiesIn, m, n
<1>9. 8 + 32 = 40 /\ 8 + 1 = 9 /\ 40 + 1 = 41 /\ 40 + m + 1 = 41 + m
  BY <1>4
<1>11. /\ Len(s) = 40 + m + n /\ (\A i \in 1..8 : s[i] = head[i]) /\ SubSeq(s, 9, 40) = secret
  BY <1>8, <1>9
<1>12. /\ SubSeq(s, 41, 40 + m) = id /\ SubSeq(s, 41 + m, Len(s)) = name
  BY <1>8, <1>9
<1>13. SubSeq(s, 1, 5) = magic
  <2>1. /\ \A i \in 1..5 : i \in 1..8 /\ 1 + i - 1 = i
        /\ \A i \in 1..5 : i = 1 \/ i = 2 \/ i = 3 \/ i = 4 \/ i = 5
    OBVIOUS
  <2>2. \A i \in 1..5 : s[i] = magic[i]
    BY <1>6, <1>11, <2>1
  <2>3. \A i \in 1..5 : s[i] \in Byte
    BY <1>5, <2>2, ElementOfSeq
  <2>4. /\ SubSeq(s, 1, 5) \in Seq(Byte) /\ Len(SubSeq(s, 1, 5)) = 5
        /\ \A i \in 1..5 : SubSeq(s, 1, 5)[i] = s[1 + i - 1]
    BY <2>3, SubSeqProperties
  <2>5. \A i \in 1..5 : SubSeq(s, 1, 5)[i] = magic[i]
    BY <2>1, <2>2, <2>4
  <2> QED
    BY <1>5, <2>4, <2>5, SeqEqual
<1>14. s[6] = c /\ s[7] = m /\ s[8] = n
  <2>1. 6 \in 1..8 /\ 7 \in 1..8 /\ 8 \in 1..8
    OBVIOUS
  <2> QED
    BY <1>6, <1>11, <2>1
<1>15. Len(s) # 32 /\ ~(Len(s) < ProfileHeader) /\ Len(s) = ProfileHeader + s[7] + s[8]
  BY <1>4, <1>11, <1>14 DEF ProfileHeader
<1>16. Profile(s) = [capabilities |-> s[6], secret |-> SubSeq(s, 9, 40),
                     id |-> SubSeq(s, 41, 40 + s[7]), name |-> SubSeq(s, 41 + s[7], Len(s))]
  <2>1. SubSeq(s, 1, 5) = <<67, 67, 80, 50, 1>>
    BY <1>13 DEF magic
  <2>2. s[7] \in 1..48 /\ s[8] \in 1..64
    BY <1>2, <1>14
  <2> QED
    BY <1>15, <2>1, <2>2, Zenon DEF Profile
<1>17. Profile(s) = [capabilities |-> c, secret |-> secret, id |-> id, name |-> name]
  BY <1>11, <1>12, <1>14, <1>16, Zenon
<1>18. h = [capabilities |-> c, secret |-> secret, id |-> id, name |-> name]
  BY <1>1
<1> QED
  BY <1>2, <1>17, <1>18, Zenon

(* Every report is taken for what the Mac said.                            *)
LEMMA ReportsAreTaken == InputInv => ReportsReachDevice
<1> SUFFICES ASSUME InputInv PROVE ReportsReachDevice
  OBVIOUS
<1>1. ASSUME input.kind # "none" PROVE WellFormed(input)
  BY <1>1, KindIsWellFormed
<1>2. ASSUME input.kind = "activity"
      PROVE  Activity(ActivityBytes(input.report))
             = IF input.report.state = Listening THEN Refused ELSE input.report
  <2>1. input.report \in
          [state : 0..Running, active : Byte, attention : Byte, completed : Byte]
    BY <1>1, <1>2, Zenon DEF WellFormed
  <2> QED
    BY <2>1, ActivityIsTaken, Zenon
<1>3. ASSUME input.kind = "state"
      PROVE  Activity(StateBytes(input.state))
             = IF input.state = Listening THEN Refused
               ELSE [state |-> input.state, active |-> 0, attention |-> 0, completed |-> 0]
  <2>1. input.state \in 0..Running
    BY <1>1, <1>3, Zenon DEF WellFormed
  <2> QED
    BY <2>1, StateIsTaken, Zenon
<1>4. ASSUME input.kind = "quota"
      PROVE  Quota(QuotaBytes(input.five, input.week))
             = IF input.five > 23 /\ input.week > 23
               THEN [five |-> input.five, week |-> input.week] ELSE Refused
  <2>1. input.five \in Byte /\ input.week \in Byte
    BY <1>1, <1>4, Zenon DEF WellFormed
  <2> QED
    BY <2>1, QuotaIsTaken, Zenon
<1>5. ASSUME input.kind = "heartbeat"
      PROVE  Heartbeat(HeartbeatBytes(input.fresh)) = [fresh |-> input.fresh]
  <2>1. input.fresh \in BOOLEAN
    BY <1>1, <1>5, Zenon DEF WellFormed
  <2> QED
    BY <2>1, SmallOnesAreTaken, Zenon
<1>6. ASSUME input.kind = "task"
      PROVE  TaskEvent(TaskEventBytes(input.task)) = [kind |-> input.task]
  <2>1. input.task \in {0, 1}
    BY <1>1, <1>6, Zenon DEF WellFormed
  <2> QED
    BY <2>1, SmallOnesAreTaken, Zenon
<1>7. ASSUME input.kind = "weather"
      PROVE  Weather(WeatherBytes(input.report)) = input.report
  <2>1. /\ input.report \in [tenths : Int16, code : Byte, city : Strings]
        /\ Len(input.report.city) \in 1..CityCapacity - 1
    BY <1>1, <1>7, Zenon DEF WellFormed
  <2> QED
    BY <2>1, WeatherIsTaken, Zenon
<1>8. ASSUME input.kind = "settings"
      PROVE  WeatherConfig(WeatherConfigBytes(input.report)) = input.report
  <2>1. input.report \in [enabled : BOOLEAN, celsius : BOOLEAN, minutes : {15, 30, 60}]
    BY <1>1, <1>8, Zenon DEF WellFormed
  <2> QED
    BY <2>1, SettingsAreTaken, Zenon
<1>9. ASSUME input.kind = "profile", ProfileBytes(input.host) # Refused
      PROVE  Profile(ProfileBytes(input.host)) = input.host
  <2>1. input.host \in
          [id : Strings, name : Strings, capabilities : Byte, secret : [1..32 -> Byte]]
    BY <1>1, <1>9, Zenon DEF WellFormed
  <2> QED
    BY <1>9, <2>1, ProfileIsTaken, Zenon
<1> QED
  BY <1>2, <1>3, <1>4, <1>5, <1>6, <1>7, <1>8, <1>9, Zenon DEF ReportsReachDevice

(* The device takes every report for what the Mac said, whatever its values*)
(* are, and refuses the two kinds that ReportsReachDevice names.           *)
THEOREM EveryReportReachesDevice == Spec => []ReportsReachDevice
BY ReportsAreTaken, InputInvariant, PTL

-----------------------------------------------------------------------------
(* Items of any width.                                                     *)

(* What is read of an item, when it is followed by t.                      *)
Gets1(item, widths, s, got, t) ==
  ReadItem(item, widths, s) = [ok |-> TRUE, got |-> got, rest |-> t]

(* How many bytes follow a head.                                           *)
LEMMA WidthBounds ==
  ASSUME NEW u \in Word
  PROVE  /\ WidthOf(u) \in Widths
         /\ Fits(u, 4) => WidthOf(u) \in PromptWidths
         /\ Fits(u, 2) => WidthOf(u) \in PayloadWidths
         /\ Fits(u, 1) => WidthOf(u) = 1
<1>1. WidthOf(u) \in Widths /\ \A v \in Widths : v < WidthOf(u) => ~Fits(u, v)
  BY LeastWidth
<1>2. \A w, v \in Widths : ~(v < w) =>
        /\ v = 4 => w \in PromptWidths
        /\ v = 2 => w \in PayloadWidths
        /\ v = 1 => w = 1
  BY DEF Widths, PromptWidths, PayloadWidths
<1>3. 4 \in Widths /\ 2 \in Widths /\ 1 \in Widths
  BY DEF Widths
<1> HIDE DEF WidthOf
<1>4. \A v \in Widths : Fits(u, v) => ~(v < WidthOf(u))
  BY <1>1
<1> QED
  BY <1>1, <1>2, <1>3, <1>4, Zenon

(* A value is read.                                                        *)
LEMMA ValueIsRead ==
  ASSUME NEW major \in {UInt, Array, Map}, NEW u \in Word, NEW widths, widths \subseteq Widths,
         WidthOf(u) \in widths, NEW t \in Wires
  PROVE  /\ Gets1(major, widths, Major(major, u) \o t, u, t)
         /\ Major(major, u) \in Wires /\ Major(major, u) \o t \in Wires
<1> DEFINE m == Major(major, u)
           h == ReadHead(major, widths, m \o t)
<1>1. major \in Majors /\ major # Plain /\ major \notin {Raw, Str}
  BY DEF UInt, Array, Map, Majors, Plain, Raw, Str
<1>2. Byte \subseteq Wire /\ t \in Seq(Wire)
  BY DEF Wire, Wires
<1>3. /\ h = [ok |-> TRUE, got |-> u, rest |-> t] /\ m \in Seq(Byte)
  BY <1>1, <1>2, HeadIsRead
<1>4. m \in Seq(Wire)
  BY <1>2, <1>3, SeqMonotonic
<1> HIDE DEF m, h
<1>5. h.ok
  BY <1>3
<1>6. ReadItem(major, widths, m \o t) = h
  BY <1>1, <1>5, Zenon DEF ReadItem, h
<1>7. m \o t \in Seq(Wire)
  BY <1>2, <1>4, ConcatProperties
<1> QED
  BY <1>3, <1>4, <1>6, <1>7 DEF m, Wires, Gets1

(* A string, or raw bytes, are read with their length.                     *)
LEMMA StringIsRead ==
  ASSUME NEW major \in {Raw, Str}, NEW d \in Wires, Len(d) \in Numbers16,
         NEW widths, widths \subseteq Widths, WidthOf(U(Len(d))) \in widths, NEW t \in Wires
  PROVE  /\ Gets1(major, widths, Major(major, U(Len(d))) \o (d \o t), d, t)
         /\ Major(major, U(Len(d))) \in Wires /\ d \o t \in Wires
         /\ Major(major, U(Len(d))) \o (d \o t) \in Wires
<1> DEFINE u == U(Len(d))
           m == Major(major, u)
           r == d \o t
           h == ReadHead(major, widths, m \o r)
           n == h.got[7] * 256 + h.got[8]
<1>1. major \in Majors /\ major # Plain
  BY DEF UInt, Array, Map, Majors, Plain, Raw, Str
<1>2. Byte \subseteq Wire /\ t \in Seq(Wire) /\ d \in Seq(Wire) /\ Len(d) \in Nat
  BY DEF Wire, Wires
<1>3. u \in Word /\ Fits(u, 2) /\ u[7] * 256 + u[8] = Len(d)
  BY NumberBytes
<1>4. r \in Seq(Wire) /\ Len(r) = Len(d) + Len(t)
      /\ SubSeq(r, 1, Len(d)) = d /\ SubSeq(r, Len(d) + 1, Len(r)) = t
  BY <1>2, ConcatTwo
<1> HIDE DEF u, r
<1>5. /\ h = [ok |-> TRUE, got |-> u, rest |-> r] /\ m \in Seq(Byte)
  BY <1>1, <1>2, <1>3, <1>4, HeadIsRead, SMTT(30) DEF u
<1>6. m \in Seq(Wire)
  BY <1>2, <1>5, SeqMonotonic
<1> HIDE DEF m, h
<1>7. h.ok /\ h.got = u /\ h.rest = r
  BY <1>5
<1>8. n = Len(d)
  BY <1>3, <1>7
<1> HIDE DEF n
<1>9. ~(n > Len(h.rest))
  <2>1. Len(t) \in Nat
    BY <1>2
  <2> QED
    BY <1>2, <1>4, <1>7, <1>8, <2>1
<1>10. ReadItem(major, widths, m \o r)
       = [ok |-> TRUE, got |-> SubSeq(h.rest, 1, n), rest |-> SubSeq(h.rest, n + 1, Len(h.rest))]
  BY <1>1, <1>3, <1>7, <1>9, Zenon DEF ReadItem, h, n
<1>11. ReadItem(major, widths, m \o r) = [ok |-> TRUE, got |-> d, rest |-> t]
  BY <1>4, <1>7, <1>8, <1>10
<1>12. m \o r \in Seq(Wire)
  BY <1>4, <1>6, ConcatProperties
<1> QED
  BY <1>4, <1>6, <1>11, <1>12 DEF m, r, u, Wires, Gets1

(* A byte that is not CBOR's is itself.                                    *)
LEMMA PlainIsRead ==
  ASSUME NEW x \in Wire, NEW widths, NEW t \in Wires
  PROVE  /\ Gets1(Plain, widths, <<x>> \o t, x, t)
         /\ <<x>> \in Wires /\ <<x>> \o t \in Wires
<1> DEFINE s == <<x>> \o t
<1>1. t \in Seq(Wire) /\ <<x>> \in Seq(Wire) /\ Len(<<x>>) = 1 /\ <<x>>[1] = x
  BY DEF Wires
<1>2. s \in Seq(Wire) /\ Len(s) = 1 + Len(t) /\ Len(t) \in Nat
      /\ \A i \in 1..1 : s[i] = <<x>>[i]
  BY <1>1, ConcatTwo
<1>3. SubSeq(s, 1 + 1, Len(s)) = t
  BY <1>1, ConcatTwo
<1> HIDE DEF s
<1>4. s # <<>> /\ s[1] = x
  BY <1>1, <1>2
<1>5. Tail(s) = t
  <2>1. Tail(s) = SubSeq(s, 2, Len(s))
    BY <1>2, <1>4
  <2> QED
    BY <1>3, <2>1
<1>6. ReadItem(Plain, widths, s) = [ok |-> TRUE, got |-> x, rest |-> t]
  BY <1>4, <1>5, Zenon DEF ReadItem
<1> QED
  BY <1>1, <1>2, <1>6 DEF s, Gets1, Wires

(* How long a head is.                                                     *)
LEMMA HeadLength ==
  ASSUME NEW major \in Majors, NEW u \in Word
  PROVE  /\ Len(Major(major, u)) \in Nat /\ Len(Major(major, u)) <= 9
         /\ Fits(u, 4) => Len(Major(major, u)) <= 5
         /\ Fits(u, 2) => Len(Major(major, u)) <= 3
         /\ Fits(u, 1) => Len(Major(major, u)) <= 2
         /\ Fits(u, 1) /\ u[8] <= 23 => Len(Major(major, u)) = 1
<1> DEFINE k == WidthOf(u)
           c == Code(k)
           h == 32 * major + c
           n == Len(Major(major, u))
<1>1. CASE Fits(u, 1) /\ u[8] <= 23
  <2>1. Major(major, u) = <<32 * major + u[8]>>
    BY <1>1 DEF Major
  <2>2. \A x : Len(<<x>>) = 1
    OBVIOUS
  <2>3. n = 1
    BY <2>1, <2>2
  <2> HIDE DEF n
  <2> QED
    BY <2>3 DEF n
<1>2. CASE ~(Fits(u, 1) /\ u[8] <= 23)
  <2>1. Major(major, u) = <<h>> \o Low(u, k)
    BY <1>2, Zenon DEF Major, WidthOf
  <2>2. /\ k \in Widths /\ (Fits(u, 4) => k \in PromptWidths)
        /\ (Fits(u, 2) => k \in PayloadWidths) /\ (Fits(u, 1) => k = 1)
    BY WidthBounds
  <2>3. Fits(u, k)
    BY LeastWidth
  <2> HIDE DEF k
  <2>4. c \in {x \in Nat : x < 32}
    BY <2>2, Codes
  <2>5. h \in Byte
    BY <2>4, HeadByte
  <2> HIDE DEF c, h
  <2>6. Low(u, k) \in Seq(Byte) /\ Len(Low(u, k)) = k
    BY <2>2, <2>3, LowBytes
  <2>7. <<h>> \in Seq(Byte) /\ Len(<<h>>) = 1
    BY <2>5
  <2>8. Len(<<h>> \o Low(u, k)) = 1 + k
    BY <2>6, <2>7, ConcatProperties
  <2>9. n = 1 + k
    BY <2>1, <2>8
  <2> HIDE DEF n
  <2>10. k \in Nat /\ k <= 8 /\ (k \in PromptWidths => k <= 4) /\ (k \in PayloadWidths => k <= 2)
    BY <2>2 DEF Widths, PromptWidths, PayloadWidths
  <2>11. n \in Nat /\ n <= 9 /\ (Fits(u, 4) => n <= 5) /\ (Fits(u, 2) => n <= 3)
         /\ (Fits(u, 1) => n <= 2)
    BY <2>2, <2>9, <2>10
  <2> QED
    BY <1>2, <2>11 DEF n
<1> QED
  BY <1>1, <1>2

(* A part is moved from one side to the other.                             *)
Moves(l, a, q) == (l \o a) \o q = l \o (a \o q) /\ Len(l \o a) = Len(l) + Len(a)

(* Sequences of bytes and tags do so, and stay sequences of them.          *)
LEMMA PartMoves ==
  ASSUME NEW l \in Wires, NEW a \in Wires, NEW q \in Wires
  PROVE  Moves(l, a, q) /\ l \o a \in Wires /\ a \o q \in Wires
<1>1. (l \o a) \o q = l \o (a \o q)
  BY DEF Wires
<1>2. l \o a \in Seq(Wire) /\ a \o q \in Seq(Wire) /\ Len(l \o a) = Len(l) + Len(a)
  BY ConcatProperties DEF Wires
<1> QED
  BY <1>1, <1>2, Zenon DEF Wires, Moves

(* Six parts, and what is behind them.                                     *)
SixMove(a, b, c, d, e, f, t) ==
  /\ SixLeft(a, b, c, d, e, f) \o t = SixRight(a, b, c, d, e, f \o t)
  /\ SixLeft(a, b, c, d, e, f) \in Wires
  /\ Len(SixLeft(a, b, c, d, e, f)) = Len(a) + Len(b) + Len(c) + Len(d) + Len(e) + Len(f)

(* They move as one does.                                                  *)
LEMMA SixThen ==
  ASSUME NEW a \in Wires, NEW b \in Wires, NEW c \in Wires, NEW d \in Wires, NEW e \in Wires,
         NEW f \in Wires, NEW t \in Wires
  PROVE  SixMove(a, b, c, d, e, f, t)
<1> DEFINE l2 == a \o b
           l3 == l2 \o c
           l4 == l3 \o d
           l5 == l4 \o e
           l6 == l5 \o f
           q6 == f \o t
           q5 == e \o q6
           q4 == d \o q5
           q3 == c \o q4
           q2 == b \o q3
<1>1. q6 \in Wires
  BY PartMoves
<1> HIDE DEF q6
<1>2. q5 \in Wires
  BY <1>1, PartMoves
<1> HIDE DEF q5
<1>3. q4 \in Wires
  BY <1>2, PartMoves
<1> HIDE DEF q4
<1>4. q3 \in Wires
  BY <1>3, PartMoves
<1> HIDE DEF q3
<1>5. q2 \in Wires
  BY <1>4, PartMoves
<1> HIDE DEF q2
<1>6. l2 \in Wires /\ Moves(a, b, q3)
  BY <1>4, PartMoves
<1> HIDE DEF l2
<1>7. l3 \in Wires /\ Moves(l2, c, q4)
  BY <1>3, <1>6, PartMoves
<1> HIDE DEF l3
<1>8. l4 \in Wires /\ Moves(l3, d, q5)
  BY <1>2, <1>7, PartMoves
<1> HIDE DEF l4
<1>9. l5 \in Wires /\ Moves(l4, e, q6)
  BY <1>1, <1>8, PartMoves
<1> HIDE DEF l5
<1>10. l6 \in Wires /\ Moves(l5, f, t)
  BY <1>9, PartMoves
<1> HIDE DEF l6
<1>11. l6 \o t = a \o q2
  <2>1. l6 \o t = l5 \o q6
    BY <1>10, Zenon DEF Moves, l6, q6
  <2>2. l5 \o q6 = l4 \o q5
    BY <1>9, Zenon DEF Moves, l5, q5
  <2>3. l4 \o q5 = l3 \o q4
    BY <1>8, Zenon DEF Moves, l4, q4
  <2>4. l3 \o q4 = l2 \o q3
    BY <1>7, Zenon DEF Moves, l3, q3
  <2>5. l2 \o q3 = a \o q2
    BY <1>6, Zenon DEF Moves, l2, q2
  <2> QED
    BY <2>1, <2>2, <2>3, <2>4, <2>5, Zenon
<1>12. Len(l6) = Len(a) + Len(b) + Len(c) + Len(d) + Len(e) + Len(f)
  <2>1. Len(l2) = Len(a) + Len(b)
    BY <1>6, Zenon DEF Moves, l2
  <2>2. Len(l3) = Len(l2) + Len(c)
    BY <1>7, Zenon DEF Moves, l3
  <2>3. Len(l4) = Len(l3) + Len(d)
    BY <1>8, Zenon DEF Moves, l4
  <2>4. Len(l5) = Len(l4) + Len(e)
    BY <1>9, Zenon DEF Moves, l5
  <2>5. Len(l6) = Len(l5) + Len(f)
    BY <1>10, Zenon DEF Moves, l6
  <2> QED
    BY <2>1, <2>2, <2>3, <2>4, <2>5
<1>13. SixLeft(a, b, c, d, e, f) = l6
  BY Zenon DEF SixLeft, l2, l3, l4, l5, l6
<1>14. SixRight(a, b, c, d, e, f \o t) = a \o q2
  BY Zenon DEF SixRight, q2, q3, q4, q5, q6
<1> QED
  BY <1>10, <1>11, <1>12, <1>13, <1>14, Zenon DEF SixMove

-----------------------------------------------------------------------------
(* The envelope is read as it was sealed.                                  *)
Envelopes == [version : Word, sequence : Word, type : Word, time : Word, payload : Strings]

(* The body of an envelope e with t behind it, from the other end.         *)
FromTime(e, t) ==
  Num(3) \o (Major(UInt, e.time) \o (Num(4) \o (Major(Raw, U(Len(e.payload))) \o (e.payload \o t))))
FromType(e, t) == Num(2) \o (Major(UInt, e.type) \o FromTime(e, t))
FromSequence(e, t) == Num(1) \o (Major(UInt, e.sequence) \o FromType(e, t))
FromVersion(e, t) == Num(0) \o (Major(UInt, e.version) \o FromSequence(e, t))

(* A number below 24 is one byte.                                          *)
LEMMA SmallNumber ==
  ASSUME NEW n \in 0..23
  PROVE  Num(n) \in Wires /\ Len(Num(n)) = 1 /\ U(n) \in Word /\ WidthOf(U(n)) = 1
<1>1. n \in Byte /\ n <= 23
  BY DEF Byte
<1>2. U(n) \in Word /\ Fits(U(n), 1) /\ U(n)[8] = n /\ WidthOf(U(n)) = 1
  BY <1>1, ShortIsHead
<1>3. UInt \in Majors /\ UInt \in {UInt, Array, Map} /\ Widths \subseteq Widths /\ 1 \in Widths
  BY DEF UInt, Majors, Widths
<1> DEFINE u == U(n)
<1> HIDE DEF u
<1>4. u \in Word /\ Fits(u, 1) /\ u[8] <= 23 /\ WidthOf(u) = 1
  BY <1>1, <1>2 DEF u
<1>5. Len(Major(UInt, u)) = 1
  BY <1>3, <1>4, HeadLength
<1>6. <<>> \in Wires
  BY DEF Wires
<1>7. Major(UInt, u) \in Wires
  BY <1>3, <1>4, <1>6, ValueIsRead
<1> QED
  BY <1>2, <1>5, <1>7 DEF u, Num

(* The head of any value is a sequence of bytes.                           *)
LEMMA HeadIsWire ==
  ASSUME NEW major \in Majors, NEW u \in Word
  PROVE  Major(major, u) \in Wires
<1>1. WidthOf(u) \in Widths /\ Byte \subseteq Wire /\ <<>> \in Seq(Wire)
  BY LeastWidth DEF Wire
<1>2. Major(major, u) \in Seq(Byte)
  BY <1>1, HeadIsRead
<1> QED
  BY <1>1, <1>2, SeqMonotonic DEF Wires

(* The parts of the body.                                                  *)
LEMMA BodyParts ==
  ASSUME NEW e \in Envelopes, Len(e.payload) \in Numbers16, NEW t \in Wires
  PROVE  /\ Body(e) \in Wires /\ Body(e) \o t = FromVersion(e, t)
         /\ Len(Body(e)) = 5 + Len(Major(UInt, e.version)) + Len(Major(UInt, e.sequence))
                           + Len(Major(UInt, e.type)) + Len(Major(UInt, e.time))
                           + Len(Major(Raw, U(Len(e.payload)))) + Len(e.payload)
<1> DEFINE a1 == Num(0)
           a2 == Major(UInt, e.version)
           a3 == Num(1)
           a4 == Major(UInt, e.sequence)
           a5 == Num(2)
           a6 == Major(UInt, e.type)
           a7 == Num(3)
           a8 == Major(UInt, e.time)
           a9 == Num(4)
           a10 == Major(Raw, U(Len(e.payload)))
           a11 == e.payload
           front == SixLeft(a1, a2, a3, a4, a5, a6)
           y == a7 \o (a8 \o (a9 \o (a10 \o (a11 \o t))))
<1>1. Body(e) = SixLeft(front, a7, a8, a9, a10, a11)
  BY Zenon DEF Body, SixLeft
<1>2. /\ e.version \in Word /\ e.sequence \in Word /\ e.type \in Word /\ e.time \in Word
      /\ U(Len(e.payload)) \in Word /\ UInt \in Majors /\ Raw \in Majors
  BY NumberBytes DEF Envelopes, UInt, Raw, Majors
<1>3. /\ a2 \in Wires /\ a4 \in Wires /\ a6 \in Wires /\ a8 \in Wires /\ a10 \in Wires
  BY <1>2, HeadIsWire
<1>4. /\ a1 \in Wires /\ a3 \in Wires /\ a5 \in Wires /\ a7 \in Wires /\ a9 \in Wires
      /\ Len(a1) = 1 /\ Len(a3) = 1 /\ Len(a5) = 1 /\ Len(a7) = 1 /\ Len(a9) = 1
  BY SmallNumber
<1>5. a11 \in Wires
  <2>1. Byte \subseteq Wire /\ e.payload \in Seq(Byte)
    BY DEF Wire, Envelopes, Strings
  <2> QED
    BY <2>1, SeqMonotonic DEF Wires
<1>6. FromVersion(e, t) = SixRight(a1, a2, a3, a4, a5, a6 \o y)
  BY Zenon DEF FromVersion, FromSequence, FromType, FromTime, SixRight
<1>7. SixRight(front, a7, a8, a9, a10, a11 \o t) = front \o y
  BY Zenon DEF SixRight
<1>8. y \in Wires
  <2>1. a11 \o t \in Wires
    BY <1>5, PartMoves
  <2> DEFINE z1 == a11 \o t
             z2 == a10 \o z1
             z3 == a9 \o z2
             z4 == a8 \o z3
  <2> HIDE DEF a7, a8, a9, a10, a11
  <2> HIDE DEF z1
  <2>2. z2 \in Wires
    BY <1>3, <2>1, PartMoves DEF z1
  <2> HIDE DEF z2
  <2>3. z3 \in Wires
    BY <1>4, <2>2, PartMoves
  <2> HIDE DEF z3
  <2>4. z4 \in Wires
    BY <1>3, <2>3, PartMoves
  <2> HIDE DEF z4
  <2>5. a7 \o z4 \in Wires
    BY <1>4, <2>4, PartMoves
  <2> QED
    BY <2>5, Zenon DEF z1, z2, z3, z4
<1> HIDE DEF a1, a2, a3, a4, a5, a6, a7, a8, a9, a10, a11, y
<1>9. /\ front \o y = SixRight(a1, a2, a3, a4, a5, a6 \o y) /\ front \in Wires
      /\ Len(front) = Len(a1) + Len(a2) + Len(a3) + Len(a4) + Len(a5) + Len(a6)
  <2>1. SixMove(a1, a2, a3, a4, a5, a6, y)
    BY <1>3, <1>4, <1>8, SixThen
  <2> QED
    BY <2>1, Zenon DEF SixMove
<1> HIDE DEF front
<1>10. LET s == SixLeft(front, a7, a8, a9, a10, a11)
       IN /\ s \o t = SixRight(front, a7, a8, a9, a10, a11 \o t) /\ s \in Wires
          /\ Len(s) = Len(front) + Len(a7) + Len(a8) + Len(a9) + Len(a10) + Len(a11)
  <2>1. SixMove(front, a7, a8, a9, a10, a11, t)
    BY <1>3, <1>4, <1>5, <1>9, SixThen
  <2> QED
    BY <2>1, Zenon DEF SixMove
<1>11. Body(e) \in Wires /\ Body(e) \o t = FromVersion(e, t)
  BY <1>1, <1>6, <1>7, <1>9, <1>10, Zenon
<1>12. /\ Len(a2) \in Nat /\ Len(a4) \in Nat /\ Len(a6) \in Nat /\ Len(a8) \in Nat
       /\ Len(a10) \in Nat /\ Len(a11) \in Nat
  BY <1>3, <1>5 DEF Wires
<1>13. Len(Body(e)) = Len(front) + Len(a7) + Len(a8) + Len(a9) + Len(a10) + Len(a11)
  BY <1>1, <1>10, Zenon
<1>14. Len(Body(e)) = 5 + Len(a2) + Len(a4) + Len(a6) + Len(a8) + Len(a10) + Len(a11)
  BY <1>4, <1>9, <1>12, <1>13
<1> QED
  BY <1>11, <1>14, Zenon DEF a2, a4, a6, a8, a10, a11

(* Parts that are bytes make bytes.                                        *)
LEMMA SixBytes ==
  ASSUME NEW a \in Strings, NEW b \in Strings, NEW c \in Strings, NEW d \in Strings,
         NEW e \in Strings, NEW f \in Strings
  PROVE  SixLeft(a, b, c, d, e, f) \in Strings
<1>1. \A x, y \in Strings : x \o y \in Strings
  BY ConcatProperties DEF Strings
<1> DEFINE l2 == a \o b
           l3 == l2 \o c
           l4 == l3 \o d
           l5 == l4 \o e
<1>2. l2 \in Strings
  BY <1>1, Zenon
<1> HIDE DEF l2
<1>3. l3 \in Strings
  BY <1>1, <1>2, Zenon
<1> HIDE DEF l3
<1>4. l4 \in Strings
  BY <1>1, <1>3, Zenon
<1> HIDE DEF l4
<1>5. l5 \in Strings
  BY <1>1, <1>4, Zenon
<1> HIDE DEF l5
<1>6. l5 \o f \in Strings
  BY <1>1, <1>5, Zenon
<1> QED
  BY <1>6, Zenon DEF SixLeft, l2, l3, l4, l5

(* A head is bytes.                                                        *)
LEMMA HeadIsBytes ==
  ASSUME NEW major \in Majors, NEW u \in Word
  PROVE  Major(major, u) \in Strings
<1>1. WidthOf(u) \in Widths /\ <<>> \in Seq(Byte)
  BY LeastWidth
<1> QED
  BY <1>1, HeadIsRead DEF Strings

(* What the tag covers.                                                    *)
Unsigned1(e) == Major(Map, U(5)) \o Body(e)

(* A tag is sixteen of them, and what it covers is bytes.                  *)
LEMMA TagIsWire ==
  ASSUME NEW e \in Envelopes, Len(e.payload) \in Numbers16
  PROVE  /\ Tag(Key, Unsigned1(e)) \in Wires /\ Len(Tag(Key, Unsigned1(e))) = 16
<1> DEFINE a1 == Num(0)
           a2 == Major(UInt, e.version)
           a3 == Num(1)
           a4 == Major(UInt, e.sequence)
           a5 == Num(2)
           a6 == Major(UInt, e.type)
           a7 == Num(3)
           a8 == Major(UInt, e.time)
           a9 == Num(4)
           a10 == Major(Raw, U(Len(e.payload)))
           a11 == e.payload
           front == SixLeft(a1, a2, a3, a4, a5, a6)
           m == Major(Map, U(5))
<1>1. Body(e) = SixLeft(front, a7, a8, a9, a10, a11)
  BY Zenon DEF Body, SixLeft
<1>2. /\ e.version \in Word /\ e.sequence \in Word /\ e.type \in Word /\ e.time \in Word
      /\ U(Len(e.payload)) \in Word /\ UInt \in Majors /\ Raw \in Majors /\ Map \in Majors
  BY NumberBytes DEF Envelopes, UInt, Raw, Map, Majors
<1>3. U(0) \in Word /\ U(1) \in Word /\ U(2) \in Word /\ U(3) \in Word /\ U(4) \in Word
      /\ U(5) \in Word
  BY SmallNumber
<1>4. /\ a1 \in Strings /\ a2 \in Strings /\ a3 \in Strings /\ a4 \in Strings /\ a5 \in Strings
      /\ a6 \in Strings /\ a7 \in Strings /\ a8 \in Strings /\ a9 \in Strings /\ a10 \in Strings
      /\ m \in Strings
  BY <1>2, <1>3, HeadIsBytes DEF Num
<1>5. a11 \in Strings
  BY DEF Envelopes
<1> HIDE DEF a1, a2, a3, a4, a5, a6, a7, a8, a9, a10, a11, m
<1>6. front \in Strings
  BY <1>4, SixBytes
<1> HIDE DEF front
<1>7. Body(e) \in Strings
  <2>1. SixLeft(front, a7, a8, a9, a10, a11) \in Strings
    BY <1>4, <1>5, <1>6, SixBytes
  <2> QED
    BY <1>1, <2>1, Zenon
<1>8. m \o Body(e) \in Strings
  BY <1>4, <1>7, ConcatProperties DEF Strings
<1> DEFINE s == Unsigned1(e)
<1>9. s \in Strings
  BY <1>8 DEF Unsigned1, m
<1> HIDE DEF s
<1>10. <<Key, s>> \in Wire
  BY <1>9 DEF Wire
<1>11. 16 \in Nat /\ [i \in 1..16 |-> <<Key, s>>] \in [1..16 -> Wire]
  BY <1>10
<1>12. Tag(Key, s) \in Seq(Wire) /\ Len(Tag(Key, s)) = 16
  BY <1>11, FunctionIsSeq DEF Tag
<1> QED
  BY <1>12 DEF s, Wires

(* The parts of what is sealed.                                            *)
FromTag(e) == Num(5) \o (Major(Raw, U(16)) \o (Tag(Key, Unsigned1(e)) \o <<>>))

(* A sealed envelope is its unsigned parts and the tag behind them.        *)
LEMMA SealedParts ==
  ASSUME NEW e \in Envelopes, Len(e.payload) \in Numbers16
  PROVE  /\ Sealed(e, Key) = Major(Map, U(6)) \o FromVersion(e, FromTag(e))
         /\ Sealed(e, Key) \in Wires /\ FromTag(e) \in Wires
         /\ Len(Sealed(e, Key)) = Len(Body(e)) + 19
<1> DEFINE m == Major(Map, U(6))
           b == Body(e)
           n == Num(5)
           r == Major(Raw, U(16))
           t == Tag(Key, Unsigned1(e))
<1>1. Sealed(e, Key) = (((m \o b) \o n) \o r) \o t
  BY Zenon DEF Sealed, Unsigned1
<1>2. m \in Wires /\ Len(m) = 1 /\ r \in Wires /\ Len(r) = 1
  <2>1. Map \in Majors /\ Raw \in Majors
    BY DEF Map, Raw, Majors
  <2>2. 6 \in Byte /\ 16 \in Byte /\ 6 <= 23 /\ 16 <= 23
    BY DEF Byte
  <2>3. \A k \in Byte : k <= 23 => U(k) \in Word /\ Fits(U(k), 1) /\ U(k)[8] <= 23
    BY ShortIsHead
  <2>4. U(6) \in Word /\ Fits(U(6), 1) /\ U(6)[8] <= 23
    BY <2>2, <2>3
  <2>5. U(16) \in Word /\ Fits(U(16), 1) /\ U(16)[8] <= 23
    BY <2>2, <2>3
  <2>6. \A u \in Word : Fits(u, 1) /\ u[8] <= 23 =>
          \A j \in Majors : Major(j, u) \in Wires /\ Len(Major(j, u)) = 1
    BY HeadLength, HeadIsWire
  <2> QED
    BY <2>1, <2>4, <2>5, <2>6, Zenon
<1>3. n \in Wires /\ Len(n) = 1
  BY SmallNumber
<1>4. t \in Wires /\ Len(t) = 16
  BY TagIsWire
<1>5. <<>> \in Wires /\ Len(<<>>) = 0
  BY DEF Wires
<1>6. b \in Wires /\ Len(b) \in Nat
  <2>1. b \in Wires
    BY <1>5, BodyParts
  <2> HIDE DEF b
  <2> QED
    BY <2>1 DEF Wires
<1> HIDE DEF m, b, n, r, t
<1>7. SixMove(<<>>, m, b, n, r, t, <<>>)
  BY <1>2, <1>3, <1>4, <1>5, <1>6, SixThen
<1>8. <<>> \o m = m
  BY <1>2, ConcatEmptySeq DEF Wires
<1>9. SixLeft(<<>>, m, b, n, r, t) = Sealed(e, Key)
  BY <1>1, <1>8, Zenon DEF SixLeft
<1>10. Sealed(e, Key) \in Wires /\ Len(Sealed(e, Key)) = Len(b) + 19
  <2>1. Sealed(e, Key) \in Wires
        /\ Len(Sealed(e, Key)) = Len(<<>>) + Len(m) + Len(b) + Len(n) + Len(r) + Len(t)
    BY <1>7, <1>9, Zenon DEF SixMove
  <2> QED
    BY <1>2, <1>3, <1>4, <1>5, <1>6, <2>1
<1>11. FromTag(e) = n \o (r \o (t \o <<>>)) /\ FromTag(e) \in Wires
  <2>1. t \o <<>> \in Wires
    BY <1>4, <1>5, PartMoves
  <2> DEFINE z == t \o <<>>
  <2> HIDE DEF z
  <2>2. r \o z \in Wires
    BY <1>2, <2>1, PartMoves DEF z
  <2> DEFINE w == r \o z
  <2> HIDE DEF w
  <2>3. n \o w \in Wires
    BY <1>3, <2>2, PartMoves DEF w
  <2>4. FromTag(e) = n \o w
    BY Zenon DEF FromTag, n, r, t, z, w
  <2> QED
    BY <2>3, <2>4, Zenon DEF w, z
<1>12. b \o FromTag(e) = FromVersion(e, FromTag(e))
  BY <1>11, BodyParts DEF b
<1>13. Sealed(e, Key) \o <<>> = Sealed(e, Key)
  BY <1>10, ConcatEmptySeq DEF Wires
<1>14. Sealed(e, Key) = <<>> \o (m \o (b \o FromTag(e)))
  <2>1. Sealed(e, Key) \o <<>> = SixRight(<<>>, m, b, n, r, t \o <<>>)
    BY <1>7, <1>9, Zenon DEF SixMove
  <2> QED
    BY <1>11, <1>13, <2>1, Zenon DEF SixRight
<1>15. <<>> \o (m \o (b \o FromTag(e))) = m \o (b \o FromTag(e))
  <2>1. b \o FromTag(e) \in Wires
    BY <1>6, <1>11, PartMoves
  <2> DEFINE z == b \o FromTag(e)
  <2> HIDE DEF z
  <2>2. m \o z \in Wires
    BY <1>2, <2>1, PartMoves DEF z
  <2> DEFINE w == m \o z
  <2> HIDE DEF w
  <2>3. <<>> \o w = w
    BY <2>2, ConcatEmptySeq DEF Wires, w
  <2> QED
    BY <2>3, Zenon DEF w, z
<1>16. Sealed(e, Key) = m \o FromVersion(e, FromTag(e))
  BY <1>12, <1>14, <1>15, Zenon
<1> QED
  BY <1>10, <1>11, <1>16, Zenon DEF m, b

(* The thirteen items of an envelope.                                      *)
LEMMA EnvelopeItems ==
  /\ Len(EnvelopeLayout) = 13 /\ EnvelopeLayout[1] = Map
  /\ \A k \in 2..10 : EnvelopeLayout[k] = UInt
  /\ EnvelopeLayout[11] = Raw /\ EnvelopeLayout[12] = UInt /\ EnvelopeLayout[13] = Raw
<1> DEFINE a == <<Map>>
           b == UInts(9)
           c == <<Raw, UInt, Raw>>
           ab == a \o b
<1>1. a \in Seq(Nat) /\ Len(a) = 1 /\ c \in Seq(Nat) /\ Len(c) = 3
  BY DEF Map, Raw, UInt
<1>2. b \in Seq(Nat) /\ Len(b) = 9 /\ \A i \in 1..9 : b[i] = UInt
  BY DEF UInts, UInt
<1>3. a[1] = Map /\ c[1] = Raw /\ c[2] = UInt /\ c[3] = Raw
  OBVIOUS
<1> HIDE DEF a, b, c
<1>4. /\ ab \in Seq(Nat) /\ Len(ab) = 10
      /\ \A i \in 1..10 : ab[i] = IF i <= 1 THEN a[i] ELSE b[i - 1]
  <2>1. a \in Seq(Nat) /\ b \in Seq(Nat)
    BY <1>1, <1>2
  <2>2. /\ ab \in Seq(Nat) /\ Len(ab) = Len(a) + Len(b)
        /\ \A i \in 1..Len(a) + Len(b) : ab[i] = IF i <= Len(a) THEN a[i] ELSE b[i - Len(a)]
    BY <2>1, ConcatProperties
  <2>3. Len(a) = 1 /\ Len(b) = 9 /\ 1 + 9 = 10
    BY <1>1, <1>2
  <2> HIDE DEF ab
  <2> QED
    BY <2>2, <2>3
<1>5. ab[1] = Map /\ \A i \in 2..10 : ab[i] = UInt
  <2>1. 1 \in 1..10 /\ 1 <= 1
    OBVIOUS
  <2>2. \A i \in 2..10 : i \in 1..10 /\ ~(i <= 1) /\ i - 1 \in 1..9
    OBVIOUS
  <2> HIDE DEF ab
  <2>3. ab[1] = a[1] /\ a[1] = Map
    BY <1>3, <1>4, <2>1
  <2>4. \A i \in 2..10 : ab[i] = UInt
    BY <1>2, <1>4, <2>2
  <2> QED
    BY <2>3, <2>4
<1> HIDE DEF ab
<1>6. /\ Len(ab \o c) = 13
      /\ \A i \in 1..13 : (ab \o c)[i] = IF i <= 10 THEN ab[i] ELSE c[i - 10]
  <2>1. ab \in Seq(Nat) /\ c \in Seq(Nat)
    BY <1>1, <1>4
  <2>2. /\ Len(ab \o c) = Len(ab) + Len(c)
        /\ \A i \in 1..Len(ab) + Len(c) :
             (ab \o c)[i] = IF i <= Len(ab) THEN ab[i] ELSE c[i - Len(ab)]
    BY <2>1, ConcatProperties
  <2>3. Len(ab) = 10 /\ Len(c) = 3 /\ 10 + 3 = 13
    BY <1>1, <1>4
  <2> QED
    BY <2>2, <2>3
<1>7. /\ 1 \in 1..13 /\ 1 <= 10 /\ \A i \in 2..10 : i \in 1..13 /\ i <= 10
      /\ 11 \in 1..13 /\ ~(11 <= 10) /\ 11 - 10 = 1
      /\ 12 \in 1..13 /\ ~(12 <= 10) /\ 12 - 10 = 2
      /\ 13 \in 1..13 /\ ~(13 <= 10) /\ 13 - 10 = 3
  OBVIOUS
<1>8. EnvelopeLayout = ab \o c
  BY DEF EnvelopeLayout, ab, a, b, c
<1> QED
  BY <1>3, <1>5, <1>6, <1>7, <1>8, ZenonT(40)

(* What is read of a sealed envelope.                                      *)
EnvelopeGot(e) ==
  <<U(6), U(0), e.version, U(1), e.sequence, U(2), e.type, U(3), e.time, U(4), e.payload,
    U(5), Tag(Key, Unsigned1(e))>>

(* Each item is got as it was written.                                     *)
LEMMA EnvelopeIsRead ==
  ASSUME NEW e \in Envelopes, Len(e.payload) \in Numbers16
  PROVE  Read(EnvelopeLayout, Widths, Sealed(e, Key))
         = [ok |-> TRUE, got |-> EnvelopeGot(e), rest |-> <<>>]
<1> DEFINE T == Tag(Key, Unsigned1(e))
           q14 == <<>>
           q13 == Major(Raw, U(16)) \o (T \o q14)
           q12 == Num(5) \o q13
           q11 == Major(Raw, U(Len(e.payload))) \o (e.payload \o q12)
           q10 == Num(4) \o q11
           q9 == Major(UInt, e.time) \o q10
           q8 == Num(3) \o q9
           q7 == Major(UInt, e.type) \o q8
           q6 == Num(2) \o q7
           q5 == Major(UInt, e.sequence) \o q6
           q4 == Num(1) \o q5
           q3 == Major(UInt, e.version) \o q4
           q2 == Num(0) \o q3
           q1 == Major(Map, U(6)) \o q2
           q == <<q1, q2, q3, q4, q5, q6, q7, q8, q9, q10, q11, q12, q13, q14>>
           v == EnvelopeGot(e)
<1>1. Sealed(e, Key) = q1
  BY SealedParts, Zenon DEF FromVersion, FromSequence, FromType, FromTime, FromTag
<1>2. /\ e.version \in Word /\ e.sequence \in Word /\ e.type \in Word /\ e.time \in Word
      /\ e.payload \in Wires
  <2>1. Byte \subseteq Wire /\ e.payload \in Seq(Byte)
    BY DEF Wire, Envelopes, Strings
  <2>2. e.payload \in Wires
    BY <2>1, SeqMonotonic DEF Wires
  <2> QED
    BY <2>2 DEF Envelopes
<1>3. T \in Wires /\ Len(T) = 16 /\ 16 \in Numbers16
  BY TagIsWire DEF Numbers16
<1>4. \A u \in Word : WidthOf(u) \in Widths
  BY LeastWidth
<1>5. Widths \subseteq Widths /\ UInt \in {UInt, Array, Map} /\ Map \in {UInt, Array, Map}
      /\ Raw \in {Raw, Str}
  OBVIOUS
<1>6. /\ U(0) \in Word /\ U(1) \in Word /\ U(2) \in Word /\ U(3) \in Word /\ U(4) \in Word
      /\ U(5) \in Word /\ U(6) \in Word
  BY SmallNumber
<1>7. U(16) \in Word /\ U(Len(e.payload)) \in Word
  BY <1>3, NumberBytes
<1>8. ASSUME NEW u \in Word, NEW t \in Wires
      PROVE  Gets1(UInt, Widths, Major(UInt, u) \o t, u, t) /\ Major(UInt, u) \o t \in Wires
  BY <1>4, <1>5, ValueIsRead
<1> HIDE DEF T
<1>9. ASSUME NEW d \in Wires, Len(d) \in Numbers16, U(Len(d)) \in Word, NEW t \in Wires
      PROVE  /\ Gets1(Raw, Widths, Major(Raw, U(Len(d))) \o (d \o t), d, t)
             /\ Major(Raw, U(Len(d))) \o (d \o t) \in Wires
  BY <1>4, <1>5, <1>9, StringIsRead
<1>14. q14 \in Wires
  BY DEF Wires
<1> HIDE DEF q14
<1>13. Gets1(Raw, Widths, q13, T, q14) /\ q13 \in Wires
  <2>1. Len(T) \in Numbers16 /\ U(Len(T)) \in Word /\ U(Len(T)) = U(16)
    BY <1>3, <1>7
  <2>2. Gets1(Raw, Widths, Major(Raw, U(Len(T))) \o (T \o q14), T, q14)
        /\ Major(Raw, U(Len(T))) \o (T \o q14) \in Wires
    BY <1>3, <1>9, <1>14, <2>1
  <2> QED
    BY <2>1, <2>2, Zenon
<1> HIDE DEF q13
<1>12. Gets1(UInt, Widths, q12, U(5), q13) /\ q12 \in Wires
  BY <1>6, <1>8, <1>13, Zenon DEF Num
<1> HIDE DEF q12
<1>11. Gets1(Raw, Widths, q11, e.payload, q12) /\ q11 \in Wires
  BY <1>2, <1>7, <1>9, <1>12, Zenon
<1> HIDE DEF q11
<1>30. Gets1(UInt, Widths, q10, U(4), q11) /\ q10 \in Wires
  BY <1>6, <1>8, <1>11, Zenon DEF Num
<1> HIDE DEF q10
<1>29. Gets1(UInt, Widths, q9, e.time, q10) /\ q9 \in Wires
  BY <1>2, <1>8, <1>30, Zenon
<1> HIDE DEF q9
<1>28. Gets1(UInt, Widths, q8, U(3), q9) /\ q8 \in Wires
  BY <1>6, <1>8, <1>29, Zenon DEF Num
<1> HIDE DEF q8
<1>27. Gets1(UInt, Widths, q7, e.type, q8) /\ q7 \in Wires
  BY <1>2, <1>8, <1>28, Zenon
<1> HIDE DEF q7
<1>26. Gets1(UInt, Widths, q6, U(2), q7) /\ q6 \in Wires
  BY <1>6, <1>8, <1>27, Zenon DEF Num
<1> HIDE DEF q6
<1>25. Gets1(UInt, Widths, q5, e.sequence, q6) /\ q5 \in Wires
  BY <1>2, <1>8, <1>26, Zenon
<1> HIDE DEF q5
<1>24. Gets1(UInt, Widths, q4, U(1), q5) /\ q4 \in Wires
  BY <1>6, <1>8, <1>25, Zenon DEF Num
<1> HIDE DEF q4
<1>23. Gets1(UInt, Widths, q3, e.version, q4) /\ q3 \in Wires
  BY <1>2, <1>8, <1>24, Zenon
<1> HIDE DEF q3
<1>22. Gets1(UInt, Widths, q2, U(0), q3) /\ q2 \in Wires
  BY <1>6, <1>8, <1>23, Zenon DEF Num
<1> HIDE DEF q2
<1>21. Gets1(Map, Widths, q1, U(6), q2)
  BY <1>4, <1>5, <1>6, <1>22, ValueIsRead
<1> HIDE DEF q1
<1>41. v \in Seq(Word \cup Wires) /\ Len(v) = 13
  <2> DEFINE V == Word \cup Wires
  <2>1. /\ U(6) \in V /\ U(0) \in V /\ e.version \in V /\ U(1) \in V /\ e.sequence \in V
        /\ U(2) \in V /\ e.type \in V /\ U(3) \in V /\ e.time \in V /\ U(4) \in V
        /\ e.payload \in V /\ U(5) \in V /\ T \in V
    BY <1>2, <1>3, <1>6
  <2> HIDE DEF V
  <2>2. v \in Seq(V) /\ Len(v) = 13
    BY <2>1 DEF EnvelopeGot, T
  <2> QED
    BY <2>2 DEF V
<1>42. /\ v[1] = U(6) /\ v[2] = U(0) /\ v[3] = e.version /\ v[4] = U(1) /\ v[5] = e.sequence
       /\ v[6] = U(2) /\ v[7] = e.type /\ v[8] = U(3) /\ v[9] = e.time /\ v[10] = U(4)
       /\ v[11] = e.payload /\ v[12] = U(5) /\ v[13] = T
  BY DEF EnvelopeGot, T
<1>43. /\ q[1] = q1 /\ q[2] = q2 /\ q[3] = q3 /\ q[4] = q4 /\ q[5] = q5 /\ q[6] = q6
       /\ q[7] = q7 /\ q[8] = q8 /\ q[9] = q9 /\ q[10] = q10 /\ q[11] = q11 /\ q[12] = q12
       /\ q[13] = q13 /\ q[14] = q14
  OBVIOUS
<1> HIDE DEF v, q
<1> DEFINE l == EnvelopeLayout
           P(k) == ReadItem(l[k], Widths, q[k]) = [ok |-> TRUE, got |-> v[k], rest |-> q[k + 1]]
<1>44. /\ l[1] = Map /\ l[2] = UInt /\ l[3] = UInt /\ l[4] = UInt /\ l[5] = UInt /\ l[6] = UInt
       /\ l[7] = UInt /\ l[8] = UInt /\ l[9] = UInt /\ l[10] = UInt /\ l[11] = Raw
       /\ l[12] = UInt /\ l[13] = Raw /\ Len(l) = 13
  BY EnvelopeItems
<1> HIDE DEF l
<1>45. /\ 1 + 1 = 2 /\ 2 + 1 = 3 /\ 3 + 1 = 4 /\ 4 + 1 = 5 /\ 5 + 1 = 6 /\ 6 + 1 = 7
       /\ 7 + 1 = 8 /\ 8 + 1 = 9 /\ 9 + 1 = 10 /\ 10 + 1 = 11 /\ 11 + 1 = 12 /\ 12 + 1 = 13
       /\ 13 + 1 = 14
  OBVIOUS
<1>46. P(1) /\ P(2) /\ P(3) /\ P(4)
  BY <1>21, <1>22, <1>23, <1>24, <1>42, <1>43, <1>44, <1>45, Zenon DEF Gets1
<1>47. P(5) /\ P(6) /\ P(7) /\ P(8)
  BY <1>25, <1>26, <1>27, <1>28, <1>42, <1>43, <1>44, <1>45, Zenon DEF Gets1
<1>48. P(9) /\ P(10) /\ P(11) /\ P(12) /\ P(13)
  BY <1>29, <1>30, <1>11, <1>12, <1>13, <1>42, <1>43, <1>44, <1>45, Zenon DEF Gets1
<1> HIDE DEF P
<1>49. \A k \in 1..13 : P(k)
  <2>1. \A k \in 1..13 : k = 1 \/ k = 2 \/ k = 3 \/ k = 4 \/ k = 5 \/ k = 6 \/ k = 7 \/ k = 8
                         \/ k = 9 \/ k = 10 \/ k = 11 \/ k = 12 \/ k = 13
    OBVIOUS
  <2> QED
    BY <1>46, <1>47, <1>48, <2>1, Zenon
<1>50. Steps(l, 13, Widths, v, q)
  BY <1>49, Zenon DEF Steps, P
<1>51. Read(l, Widths, q[1]) = [ok |-> TRUE, got |-> v, rest |-> q[13 + 1]]
  <2> DEFINE V == Word \cup Wires
             n == 13
  <2>1. n \in Nat /\ Len(l) = n
    BY <1>44
  <2>2. v \in Seq(V) /\ Len(v) = n
    BY <1>41
  <2> HIDE DEF V, n
  <2>3. Steps(l, n, Widths, v, q)
    BY <1>50 DEF n
  <2>4. Read(l, Widths, q[1]) = [ok |-> TRUE, got |-> v, rest |-> q[n + 1]]
    BY <2>1, <2>2, <2>3, LayoutIsRead
  <2> QED
    BY <2>4, Zenon DEF n
<1>52. Read(l, Widths, q1) = [ok |-> TRUE, got |-> v, rest |-> q14]
  BY <1>43, <1>45, <1>51, Zenon
<1> QED
  BY <1>1, <1>52, Zenon DEF l, v, q14

(* An envelope of a known version and type opens with the key that sealed  *)
(* it, and is what was sealed.                                             *)
LEMMA EnvelopeIsOpened ==
  ASSUME NEW e \in Envelopes, Len(e.payload) \in Numbers16,
         e.version = U(1), Fits(e.sequence, 4), e.type \in {U(t) : t \in MessageTypes}
  PROVE  Envelope(Sealed(e, Key), Key) = e
<1> DEFINE s == Sealed(e, Key)
           r == Read(EnvelopeLayout, Widths, s)
           g == EnvelopeGot(e)
           T == Tag(Key, Unsigned1(e))
<1>1. Envelope(s, Key) = EnvelopeFrom(r, Key)
  BY Zenon DEF Envelope, EnvelopeWidths
<1>2. r = [ok |-> TRUE, got |-> g, rest |-> <<>>]
  BY EnvelopeIsRead, Zenon
<1> HIDE DEF r, s
<1>3. Ended(r) /\ r.got = g
  BY <1>2 DEF Ended
<1>4. Len(T) = 16
  BY TagIsWire
<1>5. /\ g[1] = U(6) /\ g[2] = U(0) /\ g[3] = e.version /\ g[4] = U(1) /\ g[5] = e.sequence
      /\ g[6] = U(2) /\ g[7] = e.type /\ g[8] = U(3) /\ g[9] = e.time /\ g[10] = U(4)
      /\ g[11] = e.payload /\ g[12] = U(5) /\ g[13] = T
  BY DEF EnvelopeGot
<1> HIDE DEF g
<1>6. EnvelopeOf(g) = e
  BY <1>5 DEF EnvelopeOf, Envelopes
<1>7. \A k \in 0..4 : g[2 * k + 2] = U(k)
  <2>1. \A k \in 0..4 : k = 0 \/ k = 1 \/ k = 2 \/ k = 3 \/ k = 4
    OBVIOUS
  <2>2. /\ 2 * 0 + 2 = 2 /\ 2 * 1 + 2 = 4 /\ 2 * 2 + 2 = 6 /\ 2 * 3 + 2 = 8 /\ 2 * 4 + 2 = 10
    OBVIOUS
  <2> QED
    BY <1>5, <2>1, <2>2, Zenon
<1>8. g[13] = Tag(Key, Major(Map, U(5)) \o Body(e)) /\ Len(g[13]) = 16
  BY <1>4, <1>5, Zenon DEF Unsigned1
<1>9. EnvelopeFrom(r, Key) = e
  BY <1>3, <1>5, <1>6, <1>7, <1>8, Zenon DEF EnvelopeFrom
<1> QED
  BY <1>1, <1>9 DEF s

-----------------------------------------------------------------------------
(* Prompts and answers begin alike: a map of two, the number of the prompt, *)
(* and a value.                                                             *)
Five(a, b, c, d, e) == (((a \o b) \o c) \o d) \o e
Begin(id, last, w) == Five(Major(Map, U(2)), Num(0), Major(UInt, id), Num(1), Major(last, w))
BeginGot(id, w) == <<U(2), U(0), id, U(1), w>>
BeginLayout(layout, last) ==
  /\ Len(layout) = 5 /\ layout[1] = Map /\ layout[2] = UInt /\ layout[3] = UInt
  /\ layout[4] = UInt /\ layout[5] = last

(* How long five parts are.                                                *)
LEMMA FiveLength ==
  ASSUME NEW a \in Wires, NEW b \in Wires, NEW c \in Wires, NEW d \in Wires, NEW e \in Wires
  PROVE  /\ Five(a, b, c, d, e) \in Wires
         /\ Len(Five(a, b, c, d, e)) = Len(a) + Len(b) + Len(c) + Len(d) + Len(e)
<1> DEFINE l2 == a \o b
           l3 == l2 \o c
           l4 == l3 \o d
           l5 == l4 \o e
<1>1. \A x, y \in Wires : x \o y \in Wires /\ Len(x \o y) = Len(x) + Len(y)
  BY ConcatProperties DEF Wires
<1>2. l2 \in Wires /\ Len(l2) = Len(a) + Len(b)
  BY <1>1, Zenon
<1> HIDE DEF l2
<1>3. l3 \in Wires /\ Len(l3) = Len(l2) + Len(c)
  BY <1>1, <1>2, Zenon
<1> HIDE DEF l3
<1>4. l4 \in Wires /\ Len(l4) = Len(l3) + Len(d)
  BY <1>1, <1>3, Zenon
<1> HIDE DEF l4
<1>5. l5 \in Wires /\ Len(l5) = Len(l4) + Len(e)
  BY <1>1, <1>4, Zenon
<1> HIDE DEF l5
<1>6. Five(a, b, c, d, e) = l5
  BY Zenon DEF Five, l2, l3, l4, l5
<1> QED
  BY <1>2, <1>3, <1>4, <1>5, <1>6

(* The beginning is read as it was written.                                *)
LEMMA BeginIsRead ==
  ASSUME NEW layout, NEW last \in {UInt, Array}, BeginLayout(layout, last),
         NEW id \in Word32, NEW w \in Word, WidthOf(w) \in PromptWidths, NEW t \in Wires
  PROVE  Read(layout, PromptWidths, Begin(id, last, w) \o t)
         = [ok |-> TRUE, got |-> BeginGot(id, w), rest |-> t]
<1> DEFINE q6 == t
           q5 == Major(last, w) \o q6
           q4 == Num(1) \o q5
           q3 == Major(UInt, id) \o q4
           q2 == Num(0) \o q3
           q1 == Major(Map, U(2)) \o q2
           q == <<q1, q2, q3, q4, q5, q6>>
           v == BeginGot(id, w)
<1>1. /\ UInt \in Majors /\ Map \in Majors /\ last \in Majors
      /\ last \in {UInt, Array, Map} /\ UInt \in {UInt, Array, Map} /\ Map \in {UInt, Array, Map}
  BY DEF UInt, Array, Map, Majors
<1>2. id \in Word /\ WidthOf(id) \in PromptWidths /\ PromptWidths \subseteq Widths
  <2>1. id \in Word /\ Fits(id, 4)
    BY DEF Word32
  <2>2. PromptWidths \subseteq Widths
    BY DEF PromptWidths, Widths
  <2> QED
    BY <2>1, <2>2, WidthBounds
<1>3. /\ U(0) \in Word /\ U(1) \in Word /\ U(2) \in Word
      /\ WidthOf(U(0)) = 1 /\ WidthOf(U(1)) = 1 /\ WidthOf(U(2)) = 1
  BY SmallNumber
<1>4. /\ U(0) \in Word /\ U(1) \in Word /\ U(2) \in Word
      /\ WidthOf(U(0)) \in PromptWidths /\ WidthOf(U(1)) \in PromptWidths
      /\ WidthOf(U(2)) \in PromptWidths
  <2>1. 1 \in PromptWidths
    BY DEF PromptWidths
  <2> HIDE DEF WidthOf
  <2> QED
    BY <1>3, <2>1
<1>5. ASSUME NEW major \in {UInt, Array, Map}, NEW u \in Word, WidthOf(u) \in PromptWidths,
             NEW z \in Wires
      PROVE  /\ Gets1(major, PromptWidths, Major(major, u) \o z, u, z)
             /\ Major(major, u) \o z \in Wires
  BY <1>2, <1>5, ValueIsRead
<1>6. Begin(id, last, w) \o t = q1
  <2>1. /\ Major(Map, U(2)) \in Wires /\ Num(0) \in Wires /\ Major(UInt, id) \in Wires
        /\ Num(1) \in Wires /\ Major(last, w) \in Wires
    BY <1>1, <1>2, <1>3, HeadIsWire DEF Num
  <2> DEFINE a == Major(Map, U(2))
             b == Num(0)
             c == Major(UInt, id)
             d == Num(1)
             e == Major(last, w)
  <2> HIDE DEF a, b, c, d, e
  <2>2. a \in Seq(Wire) /\ b \in Seq(Wire) /\ c \in Seq(Wire) /\ d \in Seq(Wire)
        /\ e \in Seq(Wire) /\ t \in Seq(Wire)
    BY <2>1 DEF a, b, c, d, e, Wires
  <2>3. SixLeft(a, b, c, d, e, t) = SixRight(a, b, c, d, e, t)
    BY <2>2, SixParts
  <2>4. Begin(id, last, w) \o t = SixLeft(a, b, c, d, e, t)
    BY Zenon DEF Begin, Five, SixLeft, a, b, c, d, e
  <2>5. SixRight(a, b, c, d, e, t) = q1
    BY Zenon DEF SixRight, a, b, c, d, e
  <2> QED
    BY <2>3, <2>4, <2>5, Zenon
<1>15. Gets1(last, PromptWidths, q5, w, q6) /\ q5 \in Wires
  BY <1>1, <1>5
<1> HIDE DEF q5
<1>14. Gets1(UInt, PromptWidths, q4, U(1), q5) /\ q4 \in Wires
  BY <1>1, <1>4, <1>5, <1>15, Zenon DEF Num
<1> HIDE DEF q4
<1>13. Gets1(UInt, PromptWidths, q3, id, q4) /\ q3 \in Wires
  BY <1>1, <1>2, <1>5, <1>14, Zenon
<1> HIDE DEF q3
<1>12. Gets1(UInt, PromptWidths, q2, U(0), q3) /\ q2 \in Wires
  BY <1>1, <1>4, <1>5, <1>13, Zenon DEF Num
<1> HIDE DEF q2
<1>11. Gets1(Map, PromptWidths, q1, U(2), q2)
  BY <1>1, <1>4, <1>5, <1>12, Zenon
<1> HIDE DEF q1, q6
<1>21. v \in Seq(Word) /\ Len(v) = 5
  BY <1>2, <1>3 DEF BeginGot
<1>22. v[1] = U(2) /\ v[2] = U(0) /\ v[3] = id /\ v[4] = U(1) /\ v[5] = w
  BY DEF BeginGot
<1>23. q[1] = q1 /\ q[2] = q2 /\ q[3] = q3 /\ q[4] = q4 /\ q[5] = q5 /\ q[6] = q6
  OBVIOUS
<1> HIDE DEF v, q
<1> DEFINE n == 5
           P(k) == ReadItem(layout[k], PromptWidths, q[k])
                   = [ok |-> TRUE, got |-> v[k], rest |-> q[k + 1]]
<1>24. 1 + 1 = 2 /\ 2 + 1 = 3 /\ 3 + 1 = 4 /\ 4 + 1 = 5 /\ 5 + 1 = 6
  OBVIOUS
<1>25. P(1) /\ P(2) /\ P(3) /\ P(4) /\ P(5)
  BY <1>11, <1>12, <1>13, <1>14, <1>15, <1>22, <1>23, <1>24, Zenon DEF Gets1, BeginLayout
<1> HIDE DEF P
<1>26. \A k \in 1..n : P(k)
  <2>1. \A k \in 1..n : k = 1 \/ k = 2 \/ k = 3 \/ k = 4 \/ k = 5
    OBVIOUS
  <2> QED
    BY <1>25, <2>1, Zenon
<1>27. n \in Nat /\ Len(layout) = n /\ Len(v) = n /\ q[n + 1] = q6
  BY <1>21, <1>23, <1>24 DEF BeginLayout
<1> HIDE DEF n
<1>28. Steps(layout, n, PromptWidths, v, q)
  BY <1>26, Zenon DEF Steps, P
<1>29. Read(layout, PromptWidths, q[1]) = [ok |-> TRUE, got |-> v, rest |-> q[n + 1]]
  BY <1>21, <1>27, <1>28, LayoutIsRead
<1> QED
  BY <1>6, <1>23, <1>27, <1>29, Zenon DEF v, q6

(* Where the elements of two sequences are when one follows the other.     *)
JoinedAt(a, b, m, n, s) ==
  /\ Len(s) = m + n
  /\ \A i \in 1..m : s[i] = a[i]
  /\ \A i \in 1..n : s[m + i] = b[i]

(* They are where they are expected.                                       *)
LEMMA JoinedElements ==
  ASSUME NEW S, NEW m \in Nat, NEW n \in Nat, NEW a \in Seq(S), NEW b \in Seq(S),
         Len(a) = m, Len(b) = n
  PROVE  a \o b \in Seq(S) /\ JoinedAt(a, b, m, n, a \o b)
<1> DEFINE s == a \o b
<1>1. /\ s \in Seq(S) /\ Len(s) = m + n
      /\ \A i \in 1..m + n : s[i] = IF i <= m THEN a[i] ELSE b[i - m]
  BY ConcatProperties
<1> HIDE DEF s
<1>2. \A i \in 1..m : s[i] = a[i]
  BY <1>1
<1>3. \A i \in 1..n : s[m + i] = b[i]
  <2>1. \A i \in 1..n : m + i \in 1..m + n /\ ~(m + i <= m) /\ (m + i) - m = i
    OBVIOUS
  <2> QED
    BY <1>1, <2>1
<1> QED
  BY <1>1, <1>2, <1>3 DEF s, JoinedAt

(* The two layouts that begin so.                                          *)
LEMMA Beginnings ==
  /\ BeginLayout(<<Map>> \o UInts(4), UInt)
  /\ BeginLayout((<<Map>> \o UInts(3)) \o <<Array>>, Array)
<1> DEFINE a == <<Map>>
           b == UInts(4)
           c == UInts(3)
           d == <<Array>>
           ac == a \o c
<1>1. a \in Seq(Nat) /\ Len(a) = 1 /\ a[1] = Map /\ d \in Seq(Nat) /\ Len(d) = 1 /\ d[1] = Array
  BY DEF Map, Array
<1>2. b \in Seq(Nat) /\ Len(b) = 4 /\ \A i \in 1..4 : b[i] = UInt
  BY DEF UInts, UInt
<1>3. c \in Seq(Nat) /\ Len(c) = 3 /\ \A i \in 1..3 : c[i] = UInt
  BY DEF UInts, UInt
<1> HIDE DEF a, b, c, d
<1>4. /\ 1 + 1 = 2 /\ 1 + 2 = 3 /\ 1 + 3 = 4 /\ 1 + 4 = 5 /\ 4 + 1 = 5
       /\ 1 \in 1..1 /\ 1 \in 1..4 /\ 2 \in 1..4 /\ 3 \in 1..4 /\ 4 \in 1..4
       /\ 1 \in 1..3 /\ 2 \in 1..3 /\ 3 \in 1..3 /\ 1 \in Nat /\ 3 \in Nat /\ 4 \in Nat
  OBVIOUS
<1>5. /\ Len(a \o b) = 5 /\ (a \o b)[1] = a[1] /\ (a \o b)[2] = b[1] /\ (a \o b)[3] = b[2]
      /\ (a \o b)[4] = b[3] /\ (a \o b)[5] = b[4]
  <2>1. JoinedAt(a, b, 1, 4, a \o b)
    BY <1>1, <1>2, <1>4, JoinedElements
  <2> QED
    BY <1>4, <2>1, Zenon DEF JoinedAt
<1>6. /\ ac \in Seq(Nat) /\ Len(ac) = 4 /\ ac[1] = a[1] /\ ac[2] = c[1] /\ ac[3] = c[2]
      /\ ac[4] = c[3]
  <2>1. ac \in Seq(Nat) /\ JoinedAt(a, c, 1, 3, ac)
    BY <1>1, <1>3, <1>4, JoinedElements
  <2> QED
    BY <1>4, <2>1, Zenon DEF JoinedAt
<1> HIDE DEF ac
<1>7. /\ Len(ac \o d) = 5 /\ (ac \o d)[1] = ac[1] /\ (ac \o d)[2] = ac[2] /\ (ac \o d)[3] = ac[3]
      /\ (ac \o d)[4] = ac[4] /\ (ac \o d)[5] = d[1]
  <2>1. JoinedAt(ac, d, 4, 1, ac \o d)
    BY <1>1, <1>6, <1>4, JoinedElements
  <2> QED
    BY <1>4, <2>1, Zenon DEF JoinedAt
<1>8. b[1] = UInt /\ b[2] = UInt /\ b[3] = UInt /\ b[4] = UInt
      /\ c[1] = UInt /\ c[2] = UInt /\ c[3] = UInt
  BY <1>2, <1>3
<1>9. BeginLayout(a \o b, UInt)
  BY <1>1, <1>5, <1>8, Zenon DEF BeginLayout
<1>10. BeginLayout(ac \o d, Array)
  BY <1>1, <1>6, <1>7, <1>8, Zenon DEF BeginLayout
<1> QED
  BY <1>9, <1>10 DEF a, b, ac, c, d

(* Five parts that are bytes make bytes.                                   *)
LEMMA FiveBytes ==
  ASSUME NEW a \in Strings, NEW b \in Strings, NEW c \in Strings, NEW d \in Strings,
         NEW e \in Strings
  PROVE  Five(a, b, c, d, e) \in Strings
<1>1. \A x, y \in Strings : x \o y \in Strings
  BY ConcatProperties DEF Strings
<1> DEFINE l2 == a \o b
           l3 == l2 \o c
           l4 == l3 \o d
<1>2. l2 \in Strings
  BY <1>1, Zenon
<1> HIDE DEF l2
<1>3. l3 \in Strings
  BY <1>1, <1>2, Zenon
<1> HIDE DEF l3
<1>4. l4 \in Strings
  BY <1>1, <1>3, Zenon
<1> HIDE DEF l4
<1>5. l4 \o e \in Strings
  BY <1>1, <1>4, Zenon
<1> QED
  BY <1>5, Zenon DEF Five, l2, l3, l4

(* The beginning is bytes, and few.                                        *)
LEMMA BeginBytes ==
  ASSUME NEW last \in {UInt, Array}, NEW id \in Word32, NEW w \in Word, Fits(w, 1)
  PROVE  /\ Begin(id, last, w) \in Strings /\ Begin(id, last, w) \in Wires
         /\ Len(Begin(id, last, w)) \in Nat /\ Len(Begin(id, last, w)) <= 11
<1> DEFINE a == Major(Map, U(2))
           b == Num(0)
           c == Major(UInt, id)
           d == Num(1)
           e == Major(last, w)
<1>1. UInt \in Majors /\ Map \in Majors /\ last \in Majors /\ id \in Word /\ Fits(id, 4)
  BY DEF UInt, Array, Map, Majors, Word32
<1>2. U(0) \in Word /\ U(1) \in Word /\ U(2) \in Word /\ Fits(U(2), 1)
  <2>1. 2 \in Byte
    BY DEF Byte
  <2> QED
    BY <2>1, SmallNumber, ShortIsHead
<1>3. a \in Strings /\ b \in Strings /\ c \in Strings /\ d \in Strings /\ e \in Strings
  BY <1>1, <1>2, HeadIsBytes DEF Num
<1>4. a \in Wires /\ b \in Wires /\ c \in Wires /\ d \in Wires /\ e \in Wires
  BY <1>1, <1>2, HeadIsWire DEF Num
<1>5. Len(a) \in Nat /\ Len(a) <= 2
  BY <1>1, <1>2, HeadLength
<1>6. Len(b) = 1 /\ Len(d) = 1
  BY SmallNumber
<1>7. Len(c) \in Nat /\ Len(c) <= 5
  BY <1>1, HeadLength
<1>8. Len(e) \in Nat /\ Len(e) <= 2
  BY <1>1, HeadLength
<1>9. Begin(id, last, w) = Five(a, b, c, d, e)
  BY Zenon DEF Begin
<1> HIDE DEF a, b, c, d, e
<1>10. Five(a, b, c, d, e) \in Strings
  BY <1>3, FiveBytes
<1>11. Five(a, b, c, d, e) \in Wires
       /\ Len(Five(a, b, c, d, e)) = Len(a) + Len(b) + Len(c) + Len(d) + Len(e)
  BY <1>4, FiveLength
<1>12. Len(Five(a, b, c, d, e)) \in Nat /\ Len(Five(a, b, c, d, e)) <= 11
  BY <1>5, <1>6, <1>7, <1>8, <1>11
<1> QED
  BY <1>9, <1>10, <1>11, <1>12

(* What Selection makes of what it has read.                               *)
SelectionFrom(r) ==
  IF /\ Ended(r) /\ r.got[1] = U(2) /\ r.got[2] = U(0) /\ Fits(r.got[3], 4)
     /\ r.got[4] = U(1) /\ Fits(r.got[5], 1)
  THEN [id |-> r.got[3], index |-> r.got[5][8]] ELSE Refused

(* An answer is read as it was given.                                      *)
LEMMA SelectionIsRead ==
  ASSUME NEW id \in Word32, NEW index \in Byte
  PROVE  /\ SelectionBytes(id, index) = Begin(id, UInt, U(index))
         /\ Selection(SelectionBytes(id, index)) = [id |-> id, index |-> index]
<1> DEFINE w == U(index)
           s == Begin(id, UInt, w)
           layout == <<Map>> \o UInts(4)
           r == Read(layout, PromptWidths, s)
           g == BeginGot(id, w)
<1>1. SelectionBytes(id, index) = s
  BY Zenon DEF SelectionBytes, Begin, Five, Num
<1>2. w \in Word /\ Fits(w, 1) /\ w[8] = index /\ WidthOf(w) = 1
  BY ShortIsHead
<1> HIDE DEF w
<1>3. WidthOf(w) \in PromptWidths
  <2>1. 1 \in PromptWidths
    BY DEF PromptWidths
  <2> HIDE DEF WidthOf
  <2> QED
    BY <1>2, <2>1
<1>4. UInt \in {UInt, Array} /\ <<>> \in Wires
  BY DEF Wires
<1>5. s \in Seq(Wire)
  BY <1>2, <1>4, BeginBytes DEF Wires
<1>6. BeginLayout(layout, UInt)
  BY Beginnings
<1> HIDE DEF s, layout
<1>7. s \o <<>> = s
  BY <1>5, ConcatEmptySeq
<1>8. Read(layout, PromptWidths, Begin(id, UInt, w) \o <<>>)
      = [ok |-> TRUE, got |-> g, rest |-> <<>>]
  <2> DEFINE t == <<>>
  <2>1. t \in Wires
    BY <1>4
  <2> HIDE DEF t, g
  <2>2. Read(layout, PromptWidths, Begin(id, UInt, w) \o t)
        = [ok |-> TRUE, got |-> BeginGot(id, w), rest |-> t]
    BY <1>2, <1>3, <1>4, <1>6, <2>1, BeginIsRead
  <2> QED
    BY <2>2, Zenon DEF t, g
<1>9. r = [ok |-> TRUE, got |-> g, rest |-> <<>>]
  BY <1>7, <1>8, Zenon DEF s
<1>10. Selection(s) = SelectionFrom(r)
  BY Zenon DEF Selection, SelectionFrom, layout, r
<1>11. g[1] = U(2) /\ g[2] = U(0) /\ g[3] = id /\ g[4] = U(1) /\ g[5] = w
  BY DEF BeginGot
<1> HIDE DEF r, g
<1>12. Ended(r) /\ r.got = g /\ Fits(id, 4)
  BY <1>9 DEF Ended, Word32
<1>13. SelectionFrom(r) = [id |-> id, index |-> index]
  BY <1>2, <1>11, <1>12, Zenon DEF SelectionFrom
<1> QED
  BY <1>1, <1>10, <1>13, Zenon DEF s, w

(* A control message opens as what was sealed, and is little longer than   *)
(* its payload.                                                            *)
LEMMA MessageIsOpened ==
  ASSUME NEW type \in MessageTypes, NEW number \in Word32, NEW s \in Strings,
         Len(s) <= MaxPrompt
  PROVE  LET e == Message(type, number, s)
         IN /\ e \in Envelopes /\ Sealed(e, Key) \in Wires
            /\ Len(Sealed(e, Key)) \in Nat \ {0} /\ Len(Sealed(e, Key)) <= Len(s) + 59
            /\ Envelope(Sealed(e, Key), Key) = e
<1> DEFINE e == Message(type, number, s)
           time == <<0, 0, 1, 150, 11, 22, 33, 44>>
           n == Len(s)
<1>1. number \in Word /\ Fits(number, 4)
  BY DEF Word32
<1>2. n \in Nat /\ n \in Numbers16
  <2>1. n \in Nat
    BY DEF Strings
  <2>2. \A x \in Nat : x <= MaxPrompt => x \in Numbers16
    BY DEF MaxPrompt, Numbers16
  <2> QED
    BY <2>1, <2>2
<1>3. time \in Word
  <2>1. 0 \in Byte /\ 1 \in Byte /\ 150 \in Byte /\ 11 \in Byte /\ 22 \in Byte /\ 33 \in Byte
        /\ 44 \in Byte
    BY DEF Byte
  <2> QED
    BY <2>1 DEF Word
<1>4. U(type) \in Word /\ U(type) \in {U(t) : t \in MessageTypes} /\ U(1) \in Word
  <2>1. \A t \in MessageTypes : t \in 0..23
    BY DEF MessageTypes
  <2>2. type \in 0..23 /\ 1 \in 0..23
    BY <2>1
  <2>3. \A x \in 0..23 : U(x) \in Word
    BY SmallNumber, Zenon
  <2> QED
    BY <2>2, <2>3, Zenon
<1> HIDE DEF time, n
<1>5. e = [version |-> U(1), sequence |-> number, type |-> U(type), time |-> time, payload |-> s]
  BY Zenon DEF Message, time
<1> HIDE DEF e
<1>6. /\ e.version = U(1) /\ e.sequence = number /\ e.type = U(type) /\ e.time = time
      /\ e.payload = s
  BY <1>5
<1>7. e \in Envelopes
  BY <1>1, <1>3, <1>4, <1>5 DEF Envelopes
<1>8. Len(e.payload) \in Numbers16 /\ Len(e.payload) = n
  BY <1>2, <1>6 DEF n
<1>9. Envelope(Sealed(e, Key), Key) = e
  BY <1>1, <1>4, <1>6, <1>7, <1>8, EnvelopeIsOpened
<1>10. Sealed(e, Key) \in Wires /\ Len(Sealed(e, Key)) = Len(Body(e)) + 19
  BY <1>7, <1>8, SealedParts
<1> DEFINE a == Major(UInt, e.version)
           b == Major(UInt, e.sequence)
           c == Major(UInt, e.type)
           d == Major(UInt, e.time)
           f == Major(Raw, U(Len(e.payload)))
<1>11. Len(Body(e)) = 5 + Len(a) + Len(b) + Len(c) + Len(d) + Len(f) + Len(e.payload)
  <2>1. <<>> \in Wires
    BY DEF Wires
  <2> QED
    BY <1>7, <1>8, <2>1, BodyParts
<1>12. UInt \in Majors /\ Raw \in Majors
  BY DEF UInt, Raw, Majors
<1>13. /\ Len(b) \in Nat /\ Len(b) <= 5 /\ Len(d) \in Nat /\ Len(d) <= 9
  BY <1>1, <1>3, <1>6, <1>12, HeadLength
<1>14. Fits(U(1), 1) /\ Fits(U(type), 1)
  <2>1. \A t \in 0..23 : t \in Byte
    BY DEF Byte
  <2>2. \A t \in MessageTypes : t \in 0..23
    BY DEF MessageTypes
  <2>3. 1 \in 0..23
    OBVIOUS
  <2> QED
    BY <2>1, <2>2, <2>3, ShortIsHead
<1>15. Len(a) \in Nat /\ Len(a) <= 2 /\ Len(c) \in Nat /\ Len(c) <= 2
  BY <1>4, <1>6, <1>12, <1>14, HeadLength
<1>16. Len(f) \in Nat /\ Len(f) <= 3
  <2>1. U(Len(e.payload)) \in Word /\ Fits(U(Len(e.payload)), 2)
    BY <1>8, NumberBytes
  <2> QED
    BY <1>12, <2>1, HeadLength
<1> HIDE DEF a, b, c, d, f
<1>17. Len(Sealed(e, Key)) \in Nat \ {0} /\ Len(Sealed(e, Key)) <= n + 59
  BY <1>2, <1>8, <1>10, <1>11, <1>13, <1>15, <1>16
<1> QED
  BY <1>7, <1>9, <1>10, <1>17 DEF e, n

(* What the user chose is what the Mac reads.                              *)
LEMMA AnswersReach ==
  ASSUME InputInv
  PROVE  AnswersReachMac
<1> SUFFICES ASSUME input.kind = "answer"
             PROVE  LET s == SelectionBytes(input.id, input.index)
                        packet == DeviceSeals(Message(9, input.number, s), Key)
                    IN /\ packet # Refused /\ Len(s) <= 16
                       /\ Envelope(packet, Key) = Message(9, input.number, s)
                       /\ Selection(s) = [id |-> input.id, index |-> input.index]
                       /\ Reassembled(MacAccepts, Fragments(packet, 1)) = <<packet>>
  BY Zenon DEF AnswersReachMac
<1> DEFINE s == SelectionBytes(input.id, input.index)
           e == Message(9, input.number, s)
           p == Sealed(e, Key)
           packet == DeviceSeals(e, Key)
<1>1. input.number \in Word32 /\ input.id \in Word32 /\ input.index \in Byte
  BY KindIsWellFormed, Zenon DEF WellFormed
<1>2. s = Begin(input.id, UInt, U(input.index))
      /\ Selection(s) = [id |-> input.id, index |-> input.index]
  BY <1>1, SelectionIsRead
<1>3. s \in Strings /\ Len(s) \in Nat /\ Len(s) <= 11
  <2>1. U(input.index) \in Word /\ Fits(U(input.index), 1) /\ UInt \in {UInt, Array}
    BY <1>1, ShortIsHead
  <2> QED
    BY <1>1, <1>2, <2>1, BeginBytes
<1> HIDE DEF s
<1>4. 9 \in MessageTypes /\ Len(s) <= MaxPrompt
  BY <1>3 DEF MessageTypes, MaxPrompt
<1>5. /\ p \in Wires /\ Len(p) \in Nat \ {0} /\ Len(p) <= Len(s) + 59
      /\ Envelope(p, Key) = e
  BY <1>1, <1>3, <1>4, MessageIsOpened
<1>6. e.version = U(1) /\ e.type \in {U(t) : t \in MessageTypes}
  BY <1>4 DEF Message
<1> HIDE DEF e, p
<1>7. Len(p) \in 1..MaxPacket /\ ~(Len(p) > DeviceOutput)
  <2> DEFINE n == Len(p)
             m == Len(s)
  <2>1. n \in Nat \ {0} /\ n <= m + 59 /\ m \in Nat /\ m <= 11
    BY <1>3, <1>5
  <2> HIDE DEF n, m
  <2>2. n \in 1..MaxPacket /\ ~(n > DeviceOutput)
    BY <2>1 DEF MaxPacket, DeviceOutput
  <2> QED
    BY <2>2 DEF n
<1>8. packet = p
  BY <1>6, <1>7, Zenon DEF DeviceSeals, p
<1>9. packet # Refused
  BY <1>5, <1>8, RefusedAssumption DEF Wires
<1>10. Reassembled(MacAccepts, Fragments(p, 1)) = <<p>>
  <2>1. p \in Packets /\ 1 \in Nat
    BY <1>5, <1>7 DEF Packets
  <2> QED
    BY <2>1, PacketArrives
<1>11. Len(s) <= 16
  BY <1>3
<1> QED
  BY <1>2, <1>5, <1>8, <1>9, <1>10, <1>11, Zenon DEF s, e

-----------------------------------------------------------------------------
(* The options of a prompt, one behind the other.                          *)

(* What is left before each of n sequences, with t behind them all.        *)
Rests(R, F, n, t, x) ==
  /\ R[n + 1] = t /\ R[1] = x
  /\ \A i \in Nat : i >= 1 /\ i <= n => R[i] = F[i] \o R[i + 1]
  /\ \A i \in Nat : i >= 1 /\ i <= n + 1 => R[i] \in Wires

(* One more sequence behind the others.                                    *)
LEMMA RestsGrow ==
  ASSUME NEW m \in Nat, NEW F, NEW t \in Wires, F[m + 1] \in Wires,
         NEW x, NEW R, Rests(R, F, m, F[m + 1] \o t, x)
  PROVE  \E Q : Rests(Q, F, m + 1, t, x)
<1> DEFINE Q == [i \in 1..m + 2 |-> IF i = m + 2 THEN t ELSE R[i]]
<1>1. /\ R[m + 1] = F[m + 1] \o t /\ R[1] = x
      /\ \A i \in Nat : i >= 1 /\ i <= m => R[i] = F[i] \o R[i + 1]
      /\ \A i \in Nat : i >= 1 /\ i <= m + 1 => R[i] \in Wires
  BY Zenon DEF Rests
<1>2. Q[m + 2] = t /\ \A i \in Nat : i >= 1 /\ i <= m + 1 => Q[i] = R[i]
  <2>1. m + 2 \in 1..m + 2
    OBVIOUS
  <2>2. \A i \in Nat : i >= 1 /\ i <= m + 1 => i \in 1..m + 2 /\ i # m + 2
    OBVIOUS
  <2> QED
    BY <2>1, <2>2
<1> HIDE DEF Q
<1>3. /\ (m + 1) + 1 = m + 2 /\ 1 \in Nat /\ 1 >= 1 /\ 1 <= m + 1
      /\ m + 1 \in Nat /\ m + 1 >= 1 /\ m + 1 <= m + 1
  OBVIOUS
<1>4. Q[1] = x
  BY <1>1, <1>2, <1>3, Zenon
<1>5. \A i \in Nat : i >= 1 /\ i <= m + 1 => Q[i] = F[i] \o Q[i + 1]
  <2> SUFFICES ASSUME NEW i \in Nat, i >= 1, i <= m + 1 PROVE Q[i] = F[i] \o Q[i + 1]
    OBVIOUS
  <2>1. Q[i] = R[i]
    BY <1>2
  <2>2. CASE i = m + 1
    BY <1>1, <1>2, <1>3, <2>1, <2>2, Zenon
  <2>3. CASE i # m + 1
    <3>1. i <= m /\ i + 1 \in Nat /\ i + 1 >= 1 /\ i + 1 <= m + 1
      BY <2>3
    <3>2. Q[i + 1] = R[i + 1]
      BY <1>2, <3>1
    <3>3. R[i] = F[i] \o R[i + 1]
      BY <1>1, <3>1
    <3> QED
      BY <2>1, <3>2, <3>3, Zenon
  <2> QED
    BY <2>2, <2>3
<1>6. \A i \in Nat : i >= 1 /\ i <= (m + 1) + 1 => Q[i] \in Wires
  <2>1. \A i \in Nat : i <= (m + 1) + 1 => i <= m + 1 \/ i = m + 2
    OBVIOUS
  <2> QED
    BY <1>1, <1>2, <2>1, Zenon
<1>7. Rests(Q, F, m + 1, t, x)
  BY <1>2, <1>3, <1>4, <1>5, <1>6, Zenon DEF Rests
<1> QED
  BY <1>7, Zenon

(* What is left is there for any number of them.                           *)
LEMMA RestsExist ==
  ASSUME NEW n \in Nat, NEW F, NEW g, Flattens(g, F, n, Wire), \A i \in 1..n : F[i] \in Wires
  PROVE  \E R : Rests(R, F, n, <<>>, FlattenSeq(F))
<1> DEFINE T == {m \in Nat : m <= n => \A t \in Wires : \E R : Rests(R, F, m, t, g[m] \o t)}
<1>1. /\ g[0] = <<>> /\ FlattenSeq(F) = g[n]
      /\ \A i \in Nat : i <= n => g[i] \in Wires
      /\ \A i \in Nat : i < n => g[i + 1] = g[i] \o F[i + 1]
  BY DEF Flattens, Wires
<1>2. 0 \in T
  <2> SUFFICES ASSUME NEW t \in Wires PROVE \E R : Rests(R, F, 0, t, g[0] \o t)
    BY Zenon
  <2> DEFINE R == [i \in {1} |-> t]
  <2>1. g[0] \o t = t
    <3>1. t \in Seq(Wire)
      BY DEF Wires
    <3> QED
      BY <1>1, <3>1, ConcatEmptySeq
  <2>2. R[1] = t
    OBVIOUS
  <2> HIDE DEF R
  <2>3. 0 + 1 = 1 /\ (\A i \in Nat : ~(i >= 1 /\ i <= 0))
        /\ \A i \in Nat : i >= 1 /\ i <= 0 + 1 => i = 1
    OBVIOUS
  <2>4. Rests(R, F, 0, t, g[0] \o t)
    BY <2>1, <2>2, <2>3, Zenon DEF Rests
  <2> QED
    BY <2>4, Zenon
<1>3. ASSUME NEW m \in Nat, m \in T PROVE m + 1 \in T
  <2> SUFFICES ASSUME m + 1 <= n, NEW t \in Wires
               PROVE  \E R : Rests(R, F, m + 1, t, g[m + 1] \o t)
    OBVIOUS
  <2> DEFINE f == F[m + 1]
  <2>1. m <= n /\ m < n /\ m + 1 \in 1..n
    OBVIOUS
  <2>2. f \in Wires /\ g[m] \in Wires /\ g[m + 1] = g[m] \o f
    BY <1>1, <2>1
  <2> HIDE DEF f
  <2>3. f \o t \in Wires /\ (g[m] \o f) \o t = g[m] \o (f \o t)
    <3>1. Moves(g[m], f, t) /\ f \o t \in Wires
      BY <2>2, PartMoves
    <3> QED
      BY <3>1, Zenon DEF Moves
  <2>4. PICK R : Rests(R, F, m, f \o t, g[m] \o (f \o t))
    BY <1>3, <2>1, <2>3, Zenon
  <2> QED
    BY <2>2, <2>3, <2>4, RestsGrow, Zenon DEF f
<1> HIDE DEF T
<1>4. n \in T
  BY <1>2, <1>3, AllNumbers
<1>5. <<>> \in Wires /\ n <= n /\ g[n] \in Seq(Wire)
  BY <1>1 DEF Wires
<1>6. g[n] \o <<>> = FlattenSeq(F)
  BY <1>1, <1>5, ConcatEmptySeq
<1> QED
  BY <1>4, <1>5, <1>6, Zenon DEF T

(* An option as it is written, and as it is read.                          *)
Options == [id : Strings, title : Strings, long : BOOLEAN]
Answer(o) == IF o.long THEN Yes ELSE No
OptionRests(o, t) ==
  LET r7 == <<Answer(o)>> \o t
      r6 == Num(2) \o r7
      r5 == Major(Str, U(Len(o.title))) \o (o.title \o r6)
      r4 == Num(1) \o r5
      r3 == Major(Str, U(Len(o.id))) \o (o.id \o r4)
      r2 == Num(0) \o r3
      r1 == Major(Map, U(3)) \o r2
  IN <<r1, r2, r3, r4, r5, r6, r7, t>>
OptionGot(o) == <<U(3), U(0), o.id, U(1), o.title, U(2), Answer(o)>>

(* The bytes of an option are sequences of bytes.                          *)
LEMMA OptionParts ==
  ASSUME NEW o \in Options, Len(o.id) <= 64, Len(o.title) <= TitleTight
  PROVE  /\ Major(Map, U(3)) \in Wires /\ Num(0) \in Wires /\ Num(1) \in Wires /\ Num(2) \in Wires
         /\ Major(Str, U(Len(o.id))) \in Wires /\ Major(Str, U(Len(o.title))) \in Wires
         /\ o.id \in Wires /\ o.title \in Wires /\ <<Answer(o)>> \in Wires
         /\ Len(o.id) \in Numbers16 /\ Len(o.title) \in Numbers16
         /\ Answer(o) \in {Yes, No} /\ Answer(o) \in Byte
         /\ (Answer(o) = Yes) = o.long
         /\ o.id \in Strings /\ o.title \in Strings
<1>1. o.id \in Seq(Byte) /\ o.title \in Seq(Byte) /\ o.long \in BOOLEAN
  BY DEF Options, Strings
<1>2. Len(o.id) \in Numbers16 /\ Len(o.title) \in Numbers16
  <2>1. Len(o.id) \in Nat /\ Len(o.title) \in Nat
    BY <1>1
  <2>2. \A n \in Nat : (n <= 64 => n \in Numbers16) /\ (n <= TitleTight => n \in Numbers16)
    BY DEF Numbers16, TitleTight
  <2> QED
    BY <2>1, <2>2
<1>3. o.id \in Wires /\ o.title \in Wires
  <2>1. Byte \subseteq Wire
    BY DEF Wire
  <2> QED
    BY <1>1, <2>1, SeqMonotonic DEF Wires
<1>4. Num(0) \in Wires /\ Num(1) \in Wires /\ Num(2) \in Wires /\ U(3) \in Word
  BY SmallNumber
<1>5. Map \in Majors /\ Str \in Majors
  BY DEF Map, Str, Majors
<1>6. U(Len(o.id)) \in Word /\ U(Len(o.title)) \in Word
  BY <1>2, NumberBytes
<1>7. /\ Major(Map, U(3)) \in Wires /\ Major(Str, U(Len(o.id))) \in Wires
      /\ Major(Str, U(Len(o.title))) \in Wires
  BY <1>4, <1>5, <1>6, HeadIsWire
<1>8. Answer(o) \in {Yes, No} /\ (Answer(o) = Yes) = o.long
  <2>1. Yes # No
    BY DEF Yes, No
  <2> QED
    BY <1>1, <2>1 DEF Answer
<1>9. Answer(o) \in Byte /\ <<Answer(o)>> \in Wires
  <2>1. Yes \in Byte /\ No \in Byte
    BY DEF Yes, No, Byte
  <2>2. Answer(o) \in Byte
    BY <1>8, <2>1
  <2> QED
    BY <2>2 DEF Wires, Wire
<1> QED
  BY <1>1, <1>2, <1>3, <1>4, <1>7, <1>8, <1>9, Zenon DEF Strings

(* An option followed by anything is read as it was written.               *)
OptionReads(o, t) ==
  \A k \in 1..7 :
    Gets1(OptionLayout[k], PromptWidths, OptionRests(o, t)[k], OptionGot(o)[k],
          OptionRests(o, t)[k + 1])

(* Each item of an option is got, and what is left follows the option.     *)
LEMMA OptionIsRead ==
  ASSUME NEW o \in Options, Len(o.id) <= 64, Len(o.title) <= TitleTight, NEW t \in Wires
  PROVE  OptionReads(o, t) /\ OptionRests(o, t)[8] = t
<1> DEFINE r8 == t
           r7 == <<Answer(o)>> \o r8
           r6 == Num(2) \o r7
           r5 == Major(Str, U(Len(o.title))) \o (o.title \o r6)
           r4 == Num(1) \o r5
           r3 == Major(Str, U(Len(o.id))) \o (o.id \o r4)
           r2 == Num(0) \o r3
           r1 == Major(Map, U(3)) \o r2
           q == OptionRests(o, t)
           v == OptionGot(o)
           l == OptionLayout
<1>1. q = <<r1, r2, r3, r4, r5, r6, r7, r8>>
  BY DEF OptionRests
<1>2. /\ Len(o.id) \in Numbers16 /\ Len(o.title) \in Numbers16
      /\ o.id \in Wires /\ o.title \in Wires /\ Answer(o) \in Wire
  <2>1. Byte \subseteq Wire
    BY DEF Wire
  <2> QED
    BY <2>1, OptionParts
<1>3. /\ UInt \in {UInt, Array, Map} /\ Map \in {UInt, Array, Map} /\ Str \in {Raw, Str}
      /\ PromptWidths \subseteq Widths /\ 1 \in PromptWidths
  BY DEF PromptWidths, Widths
<1>4. /\ U(0) \in Word /\ U(1) \in Word /\ U(2) \in Word /\ U(3) \in Word
      /\ WidthOf(U(0)) = 1 /\ WidthOf(U(1)) = 1 /\ WidthOf(U(2)) = 1 /\ WidthOf(U(3)) = 1
  BY SmallNumber
<1>5. \A n \in Numbers16 : U(n) \in Word /\ WidthOf(U(n)) \in PromptWidths
  <2>1. \A n \in Numbers16 : U(n) \in Word /\ Fits(U(n), 2)
    BY NumberBytes
  <2>2. PayloadWidths \subseteq PromptWidths
    BY DEF PayloadWidths, PromptWidths
  <2> HIDE DEF WidthOf
  <2>3. \A u \in Word : Fits(u, 2) => WidthOf(u) \in PayloadWidths
    BY WidthBounds
  <2> QED
    BY <2>1, <2>2, <2>3, Zenon
<1> HIDE DEF WidthOf
<1>6. ASSUME NEW major \in {UInt, Array, Map}, NEW u \in Word, WidthOf(u) = 1, NEW z \in Wires
      PROVE  /\ Gets1(major, PromptWidths, Major(major, u) \o z, u, z)
             /\ Major(major, u) \o z \in Wires
  <2>1. WidthOf(u) \in PromptWidths
    BY <1>3, <1>6
  <2> QED
    BY <1>3, <2>1, ValueIsRead
<1>7. ASSUME NEW d \in Wires, Len(d) \in Numbers16, NEW z \in Wires
      PROVE  /\ Gets1(Str, PromptWidths, Major(Str, U(Len(d))) \o (d \o z), d, z)
             /\ Major(Str, U(Len(d))) \o (d \o z) \in Wires
  <2>1. WidthOf(U(Len(d))) \in PromptWidths
    BY <1>5, <1>7
  <2> QED
    BY <1>3, <1>7, <2>1, StringIsRead
<1>17. Gets1(Plain, PromptWidths, r7, Answer(o), r8) /\ r7 \in Wires
  BY <1>2, PlainIsRead
<1> HIDE DEF r7
<1>16. Gets1(UInt, PromptWidths, r6, U(2), r7) /\ r6 \in Wires
  BY <1>3, <1>4, <1>6, <1>17, Zenon DEF Num
<1> HIDE DEF r6
<1>15. Gets1(Str, PromptWidths, r5, o.title, r6) /\ r5 \in Wires
  BY <1>2, <1>7, <1>16, Zenon
<1> HIDE DEF r5
<1>14. Gets1(UInt, PromptWidths, r4, U(1), r5) /\ r4 \in Wires
  BY <1>3, <1>4, <1>6, <1>15, Zenon DEF Num
<1> HIDE DEF r4
<1>13. Gets1(Str, PromptWidths, r3, o.id, r4) /\ r3 \in Wires
  BY <1>2, <1>7, <1>14, Zenon
<1> HIDE DEF r3
<1>12. Gets1(UInt, PromptWidths, r2, U(0), r3) /\ r2 \in Wires
  BY <1>3, <1>4, <1>6, <1>13, Zenon DEF Num
<1> HIDE DEF r2
<1>11. Gets1(Map, PromptWidths, r1, U(3), r2) /\ r1 \in Wires
  BY <1>3, <1>4, <1>6, <1>12, Zenon
<1> HIDE DEF r1, r8
<1>21. /\ q[1] = r1 /\ q[2] = r2 /\ q[3] = r3 /\ q[4] = r4 /\ q[5] = r5 /\ q[6] = r6
       /\ q[7] = r7 /\ q[8] = r8
  <2> HIDE DEF q
  <2> QED
    BY <1>1
<1>22. /\ v[1] = U(3) /\ v[2] = U(0) /\ v[3] = o.id /\ v[4] = U(1) /\ v[5] = o.title
       /\ v[6] = U(2) /\ v[7] = Answer(o)
  BY DEF OptionGot
<1>23. /\ l[1] = Map /\ l[2] = UInt /\ l[3] = Str /\ l[4] = UInt /\ l[5] = Str /\ l[6] = UInt
       /\ l[7] = Plain
  BY DEF OptionLayout
<1> DEFINE P(k) == Gets1(l[k], PromptWidths, q[k], v[k], q[k + 1])
<1> HIDE DEF q, v, l
<1>24. 1 + 1 = 2 /\ 2 + 1 = 3 /\ 3 + 1 = 4 /\ 4 + 1 = 5 /\ 5 + 1 = 6 /\ 6 + 1 = 7 /\ 7 + 1 = 8
  OBVIOUS
<1>25. P(1) /\ P(2) /\ P(3) /\ P(4)
  BY <1>11, <1>12, <1>13, <1>14, <1>21, <1>22, <1>23, <1>24, Zenon
<1>26. P(5) /\ P(6) /\ P(7)
  BY <1>15, <1>16, <1>17, <1>21, <1>22, <1>23, <1>24, Zenon
<1> HIDE DEF P
<1>27. \A k \in 1..7 : P(k)
  <2>1. \A k \in 1..7 : k = 1 \/ k = 2 \/ k = 3 \/ k = 4 \/ k = 5 \/ k = 6 \/ k = 7
    OBVIOUS
  <2> QED
    BY <1>25, <1>26, <2>1, Zenon
<1> QED
  BY <1>21, <1>27, Zenon DEF OptionReads, P, q, v, l, r8

(* The bytes of an option, with t behind them, begin what is left.         *)
LEMMA OptionFirst ==
  ASSUME NEW o \in Options, Len(o.id) <= 64, Len(o.title) <= TitleTight, NEW t \in Wires
  PROVE  OptionBytes(o) \in Wires /\ OptionRests(o, t)[1] = OptionBytes(o) \o t
<1> DEFINE a == Major(Map, U(3))
           b == Num(0)
           c == Major(Str, U(Len(o.id)))
           d == o.id
           e == Num(1)
           f == Major(Str, U(Len(o.title)))
           g == o.title
           h == Num(2)
           i == <<Answer(o)>>
           x6 == SixLeft(a, b, c, d, e, f)
           x7 == x6 \o g
           x8 == x7 \o h
           x9 == x8 \o i
           y9 == i \o t
           y8 == h \o y9
           y7 == g \o y8
<1>1. /\ a \in Wires /\ b \in Wires /\ c \in Wires /\ d \in Wires /\ e \in Wires /\ f \in Wires
      /\ g \in Wires /\ h \in Wires /\ i \in Wires
  BY OptionParts
<1>2. OptionBytes(o) = x9
  BY Zenon DEF OptionBytes, Answer, SixLeft
<1>3. OptionRests(o, t)[1] = SixRight(a, b, c, d, e, f \o y7)
  BY DEF OptionRests, SixRight
<1> HIDE DEF a, b, c, d, e, f, g, h, i
<1>4. y9 \in Wires
  BY <1>1, PartMoves
<1> HIDE DEF y9
<1>5. y8 \in Wires
  BY <1>1, <1>4, PartMoves
<1> HIDE DEF y8
<1>6. y7 \in Wires
  BY <1>1, <1>5, PartMoves
<1> HIDE DEF y7
<1>7. x6 \in Wires /\ x6 \o y7 = SixRight(a, b, c, d, e, f \o y7)
  <2>1. SixMove(a, b, c, d, e, f, y7)
    BY <1>1, <1>6, SixThen
  <2> QED
    BY <2>1, Zenon DEF SixMove
<1> HIDE DEF x6
<1>8. x7 \in Wires /\ Moves(x6, g, y8)
  BY <1>1, <1>5, <1>7, PartMoves
<1> HIDE DEF x7
<1>9. x8 \in Wires /\ Moves(x7, h, y9)
  BY <1>1, <1>4, <1>8, PartMoves
<1> HIDE DEF x8
<1>10. x9 \in Wires /\ Moves(x8, i, t)
  BY <1>1, <1>9, PartMoves
<1> HIDE DEF x9
<1>11. x9 \o t = x6 \o y7
  <2>1. x9 \o t = x8 \o y9
    BY <1>10, Zenon DEF Moves, x9, y9
  <2>2. x8 \o y9 = x7 \o y8
    BY <1>9, Zenon DEF Moves, x8, y8
  <2>3. x7 \o y8 = x6 \o y7
    BY <1>8, Zenon DEF Moves, x7, y7
  <2> QED
    BY <2>1, <2>2, <2>3, Zenon
<1> QED
  BY <1>2, <1>3, <1>7, <1>10, <1>11, Zenon

(* Which option the k-th item belongs to, and which of its seven it is.    *)
OptionOf(k) == ((k - 1) \div 7) + 1
PlaceOf(k) == ((k - 1) % 7) + 1
ItemOf(i, j) == 7 * (i - 1) + j

(* Where an item is.                                                       *)
LEMMA ItemPlaces ==
  ASSUME NEW n \in Nat
  PROVE  /\ \A k \in 1..7 * n : OptionOf(k) \in 1..n /\ PlaceOf(k) \in 1..7
         /\ \A i \in 1..n, j \in 1..7 :
              /\ ItemOf(i, j) \in 1..7 * n
              /\ OptionOf(ItemOf(i, j)) = i /\ PlaceOf(ItemOf(i, j)) = j
<1>1. \A x, d \in Nat : d < 7 => (7 * x + d) \div 7 = x /\ (7 * x + d) % 7 = d
  OBVIOUS
<1>2. \A x \in Nat : /\ x \div 7 \in Nat /\ x % 7 \in Nat /\ x % 7 < 7
                     /\ (x < 7 * n => x \div 7 < n)
  OBVIOUS
<1>3. ASSUME NEW k \in 1..7 * n PROVE OptionOf(k) \in 1..n /\ PlaceOf(k) \in 1..7
  <2>1. k - 1 \in Nat /\ k - 1 < 7 * n
    OBVIOUS
  <2> DEFINE x == k - 1
             a == x \div 7
             b == x % 7
  <2> HIDE DEF x
  <2>2. a \in Nat /\ b \in Nat /\ b < 7 /\ a < n
    BY <1>2, <2>1 DEF x
  <2> HIDE DEF a, b
  <2>3. a + 1 \in 1..n /\ b + 1 \in 1..7
    BY <2>2
  <2> QED
    BY <2>3 DEF OptionOf, PlaceOf, a, b, x
<1>4. ASSUME NEW i \in 1..n, NEW j \in 1..7
      PROVE  /\ ItemOf(i, j) \in 1..7 * n
             /\ OptionOf(ItemOf(i, j)) = i /\ PlaceOf(ItemOf(i, j)) = j
  <2> DEFINE x == i - 1
             d == j - 1
  <2>1. x \in Nat /\ d \in Nat /\ d < 7 /\ x + 1 = i /\ d + 1 = j /\ x < n
    OBVIOUS
  <2>2. ItemOf(i, j) - 1 = 7 * x + d
    BY DEF ItemOf
  <2>3. ItemOf(i, j) \in 1..7 * n
    BY DEF ItemOf
  <2> HIDE DEF x, d
  <2>4. (7 * x + d) \div 7 = x /\ (7 * x + d) % 7 = d
    BY <1>1, <2>1
  <2> QED
    BY <2>1, <2>2, <2>3, <2>4, Zenon DEF OptionOf, PlaceOf
<1> QED
  BY <1>3, <1>4

(* The item after the k-th.                                                *)
LEMMA NextItem ==
  ASSUME NEW n \in Nat, NEW k \in 1..7 * n
  PROVE  \/ /\ PlaceOf(k) < 7 /\ k # 7 * n
            /\ OptionOf(k + 1) = OptionOf(k) /\ PlaceOf(k + 1) = PlaceOf(k) + 1
         \/ /\ PlaceOf(k) = 7 /\ k # 7 * n /\ OptionOf(k) < n
            /\ OptionOf(k + 1) = OptionOf(k) + 1 /\ PlaceOf(k + 1) = 1
         \/ PlaceOf(k) = 7 /\ k = 7 * n /\ OptionOf(k) = n
<1> DEFINE x == k - 1
           a == x \div 7
           b == x % 7
<1>1. x \in Nat /\ x < 7 * n /\ (k + 1) - 1 = x + 1 /\ k = x + 1
  OBVIOUS
<1> HIDE DEF x
<1>2. a \in Nat /\ b \in Nat /\ b < 7 /\ x = 7 * a + b
  BY <1>1
<1> HIDE DEF a, b
<1>3. \A y, d \in Nat : d < 7 => (7 * y + d) \div 7 = y /\ (7 * y + d) % 7 = d
  OBVIOUS
<1>4. OptionOf(k) = a + 1 /\ PlaceOf(k) = b + 1
  BY DEF OptionOf, PlaceOf, a, b, x
<1>5. OptionOf(k + 1) = ((x + 1) \div 7) + 1 /\ PlaceOf(k + 1) = ((x + 1) % 7) + 1
  BY <1>1, Zenon DEF OptionOf, PlaceOf
<1>6. CASE b < 6
  <2>1. b + 1 \in Nat /\ b + 1 < 7 /\ x + 1 = 7 * a + (b + 1)
    BY <1>2, <1>6
  <2>2. (x + 1) \div 7 = a /\ (x + 1) % 7 = b + 1
    BY <1>2, <1>3, <2>1
  <2>3. k # 7 * n
    BY <1>1, <1>2, <1>6
  <2> QED
    BY <1>2, <1>4, <1>5, <1>6, <2>2, <2>3
<1>7. CASE b = 6
  <2>1. x + 1 = 7 * (a + 1) + 0 /\ a + 1 \in Nat /\ 0 \in Nat /\ 0 < 7
    BY <1>2, <1>7
  <2>2. (x + 1) \div 7 = a + 1 /\ (x + 1) % 7 = 0
    BY <1>3, <2>1
  <2>3. (k = 7 * n /\ a + 1 = n) \/ (k # 7 * n /\ a + 1 < n)
    BY <1>1, <1>2, <1>7
  <2>4. OptionOf(k) = a + 1 /\ PlaceOf(k) = 7 /\ OptionOf(k + 1) = (a + 1) + 1
        /\ PlaceOf(k + 1) = 1
    BY <1>4, <1>5, <1>7, <2>2
  <2> QED
    BY <2>3, <2>4, Zenon
<1> QED
  BY <1>2, <1>6, <1>7

(* What is read of the options of a prompt.                                *)
Tight(O) ==
  \A i \in 1..Len(O) : O[i] \in Options /\ Len(O[i].id) <= 64 /\ Len(O[i].title) <= TitleTight
OptionsBytes(O) == FlattenSeq([i \in 1..Len(O) |-> OptionBytes(O[i])])
OptionsLayout(n) == [k \in 1..7 * n |-> OptionLayout[((k - 1) % 7) + 1]]
OptionsGot(O) == [k \in 1..7 * Len(O) |-> OptionGot(O[OptionOf(k)])[PlaceOf(k)]]

(* Each is got as it was written.                                          *)
LEMMA OptionsAreRead ==
  ASSUME NEW n \in Nat \ {0}, NEW O, Len(O) = n, Tight(O)
  PROVE  /\ OptionsBytes(O) \in Wires
         /\ Read(OptionsLayout(n), PromptWidths, OptionsBytes(O))
            = [ok |-> TRUE, got |-> OptionsGot(O), rest |-> <<>>]
<1> DEFINE F == [i \in 1..n |-> OptionBytes(O[i])]
           m == 7 * n
           layout == OptionsLayout(n)
           v == OptionsGot(O)
<1>1. \A i \in 1..n :
        O[i] \in Options /\ Len(O[i].id) <= 64 /\ Len(O[i].title) <= TitleTight
  BY Zenon DEF Tight
<1>2. \A i \in 1..n : F[i] \in Wires /\ F[i] = OptionBytes(O[i])
  <2> SUFFICES ASSUME NEW i \in 1..n PROVE F[i] \in Wires /\ F[i] = OptionBytes(O[i])
    OBVIOUS
  <2>1. <<>> \in Wires
    BY DEF Wires
  <2>2. OptionBytes(O[i]) \in Wires
    BY <1>1, <2>1, OptionFirst
  <2> QED
    BY <2>2
<1>3. Len(F) = n /\ n # 0 /\ n \in Nat
  OBVIOUS
<1>4. OptionsBytes(O) = FlattenSeq(F)
  BY Zenon DEF OptionsBytes
<1> HIDE DEF F
<1>5. PICK R : Rests(R, F, n, <<>>, FlattenSeq(F))
  <2>1. \A i \in 1..n : F[i] \in Seq(Wire)
    BY <1>2 DEF Wires
  <2>2. PICK g : Flattens(g, F, n, Wire)
    BY <1>3, <2>1, FlattenSteps
  <2> QED
    BY <1>2, <1>3, <2>2, RestsExist
<1>6. /\ R[n + 1] = <<>> /\ R[1] = FlattenSeq(F)
      /\ \A i \in Nat : i >= 1 /\ i <= n => R[i] = F[i] \o R[i + 1]
      /\ \A i \in Nat : i >= 1 /\ i <= n + 1 => R[i] \in Wires
  BY <1>5, Zenon DEF Rests
<1> DEFINE Q(i) == OptionRests(O[i], R[i + 1])
<1>7. ASSUME NEW i \in 1..n
      PROVE  OptionReads(O[i], R[i + 1]) /\ Q(i)[8] = R[i + 1] /\ Q(i)[1] = R[i]
  <2>1. i \in Nat /\ i >= 1 /\ i <= n /\ i + 1 \in Nat /\ i + 1 >= 1 /\ i + 1 <= n + 1
    OBVIOUS
  <2>2. R[i + 1] \in Wires /\ R[i] = OptionBytes(O[i]) \o R[i + 1]
    BY <1>2, <1>6, <2>1
  <2> DEFINE t == R[i + 1]
             o == O[i]
  <2>3. t \in Wires /\ o \in Options /\ Len(o.id) <= 64 /\ Len(o.title) <= TitleTight
    BY <1>1, <2>2
  <2> HIDE DEF t, o
  <2>4. OptionReads(o, t) /\ OptionRests(o, t)[8] = t
    BY <2>3, OptionIsRead
  <2>5. OptionRests(o, t)[1] = OptionBytes(o) \o t
    BY <2>3, OptionFirst
  <2> QED
    BY <2>2, <2>4, <2>5, Zenon DEF o, t
<1> HIDE DEF Q
<1> DEFINE q == [k \in 1..m + 1 |-> IF k = m + 1 THEN <<>> ELSE Q(OptionOf(k))[PlaceOf(k)]]
<1>8. m \in Nat /\ m >= 7
  OBVIOUS
<1>9. \A k \in 1..m : q[k] = Q(OptionOf(k))[PlaceOf(k)] /\ k + 1 \in 1..m + 1
  BY <1>8
<1>10. q[m + 1] = <<>>
  BY <1>8
<1>11. \A k \in 1..m : layout[k] = OptionLayout[PlaceOf(k)]
  BY DEF OptionsLayout, PlaceOf
<1>12. Len(layout) = m /\ Len(v) = m
  BY <1>8 DEF OptionsLayout, OptionsGot
<1>13. \A k \in 1..m : v[k] = OptionGot(O[OptionOf(k)])[PlaceOf(k)]
  BY DEF OptionsGot
<1> DEFINE V == {v[k] : k \in 1..m}
<1>14. v \in Seq(V)
  <2>1. v \in [1..m -> V]
    BY DEF OptionsGot
  <2> HIDE DEF v, V
  <2>2. v \in [1..m -> V] /\ m \in Nat
    BY <1>8, <2>1
  <2> HIDE DEF m
  <2> QED
    BY <2>2, FunctionIsSeq
<1> HIDE DEF q, layout, v, V
<1>15. ASSUME NEW k \in 1..m PROVE q[k + 1] = Q(OptionOf(k))[PlaceOf(k) + 1]
  <2> DEFINE i == OptionOf(k)
             j == PlaceOf(k)
  <2>1. i \in 1..n
    BY <1>3, ItemPlaces
  <2>2. \/ j < 7 /\ k # m /\ OptionOf(k + 1) = i /\ PlaceOf(k + 1) = j + 1
        \/ j = 7 /\ k # m /\ i < n /\ OptionOf(k + 1) = i + 1 /\ PlaceOf(k + 1) = 1
        \/ j = 7 /\ k = m /\ i = n
    BY <1>3, NextItem
  <2> HIDE DEF i, j, m
  <2>3. k # m => k + 1 \in 1..m
    BY <1>8
  <2>4. k # m => q[k + 1] = Q(OptionOf(k + 1))[PlaceOf(k + 1)]
    BY <1>9, <2>3
  <2>5. CASE j < 7 /\ k # m /\ OptionOf(k + 1) = i /\ PlaceOf(k + 1) = j + 1
    BY <2>4, <2>5, Zenon DEF i, j
  <2>6. CASE j = 7 /\ k # m /\ i < n /\ OptionOf(k + 1) = i + 1 /\ PlaceOf(k + 1) = 1
    <3>1. i + 1 \in 1..n /\ j + 1 = 8
      BY <1>3, <2>1, <2>6
    <3>2. Q(i + 1)[1] = R[i + 1] /\ Q(i)[8] = R[i + 1]
      BY <1>7, <2>1, <3>1
    <3>3. q[k + 1] = Q(i + 1)[1]
      BY <2>4, <2>6, Zenon
    <3>4. q[k + 1] = Q(i)[j + 1]
      BY <3>1, <3>2, <3>3, Zenon
    <3> QED
      BY <3>4, Zenon DEF i, j
  <2>7. CASE j = 7 /\ k = m /\ i = n
    <3>1. j + 1 = 8
      BY <2>7
    <3>2. q[k + 1] = <<>> /\ R[i + 1] = <<>>
      BY <1>6, <1>10, <2>7, Zenon
    <3>3. Q(i)[8] = R[i + 1]
      BY <1>7, <2>1, Zenon
    <3>4. q[k + 1] = Q(i)[j + 1]
      BY <3>1, <3>2, <3>3, Zenon
    <3> QED
      BY <3>4, Zenon DEF i, j
  <2> QED
    BY <2>2, <2>5, <2>6, <2>7, Zenon
<1>16. Steps(layout, m, PromptWidths, v, q)
  <2> SUFFICES ASSUME NEW k \in 1..m
               PROVE  ReadItem(layout[k], PromptWidths, q[k])
                      = [ok |-> TRUE, got |-> v[k], rest |-> q[k + 1]]
    BY Zenon DEF Steps
  <2> DEFINE i == OptionOf(k)
             j == PlaceOf(k)
  <2>1. i \in 1..n /\ j \in 1..7
    BY <1>3, ItemPlaces
  <2>2. Gets1(OptionLayout[j], PromptWidths, Q(i)[j], OptionGot(O[i])[j], Q(i)[j + 1])
    BY <1>7, <2>1, Zenon DEF OptionReads, Q
  <2> QED
    BY <1>9, <1>11, <1>13, <1>15, <2>2, Zenon DEF Gets1
<1>17. q[1] = OptionsBytes(O)
  <2>1. 1 \in 1..m /\ 1 \in 1..n
    BY <1>3, <1>8
  <2>2. OptionOf(1) = 1 /\ PlaceOf(1) = 1
    BY DEF OptionOf, PlaceOf
  <2> DEFINE x == 1
  <2>5. x \in 1..m /\ OptionOf(x) = x /\ PlaceOf(x) = x
    BY <2>1, <2>2
  <2> HIDE DEF x
  <2>6. q[x] = Q(OptionOf(x))[PlaceOf(x)]
    BY <1>9, <2>5
  <2>7. q[x] = Q(x)[x]
    BY <2>5, <2>6, Zenon
  <2>3. q[1] = Q(1)[1]
    BY <2>7, Zenon DEF x
  <2>4. Q(1)[1] = R[1]
    BY <1>7, <2>1, Zenon
  <2> QED
    BY <1>4, <1>6, <2>3, <2>4, Zenon
<1>18. Read(layout, PromptWidths, q[1]) = [ok |-> TRUE, got |-> v, rest |-> q[m + 1]]
  <2>1. m \in Nat /\ Len(layout) = m /\ Len(v) = m
    BY <1>8, <1>12
  <2> HIDE DEF m
  <2> QED
    BY <1>14, <1>16, <2>1, LayoutIsRead
<1>19. OptionsBytes(O) \in Wires
  <2>1. 1 \in Nat /\ 1 >= 1 /\ 1 <= n + 1
    BY <1>3
  <2> QED
    BY <1>4, <1>6, <2>1
<1> QED
  BY <1>10, <1>17, <1>18, <1>19, Zenon DEF layout, v

(* What Prompt makes of its two reads.                                     *)
PromptFrom(h, r, n) ==
  IF ~h.ok THEN Refused
  ELSE IF /\ h.got[1] = U(2) /\ h.got[2] = U(0) /\ Fits(h.got[3], 4)
          /\ h.got[4] = U(1) /\ h.got[5] \in {U(c) : c \in 1..MaxOptions}
       THEN IF /\ Ended(r)
               /\ \A i \in 1..n :
                    /\ r.got[ItemOf(i, 1)] = U(3) /\ r.got[ItemOf(i, 2)] = U(0)
                    /\ r.got[ItemOf(i, 4)] = U(1) /\ r.got[ItemOf(i, 6)] = U(2)
                    /\ Len(r.got[ItemOf(i, 3)]) < IdentifierCapacity
                    /\ Len(r.got[ItemOf(i, 5)]) < TitleCapacity
                    /\ r.got[ItemOf(i, 7)] \in {Yes, No}
            THEN [id |-> h.got[3],
                  options |-> [i \in 1..n |-> [id |-> r.got[ItemOf(i, 3)],
                                               title |-> r.got[ItemOf(i, 5)],
                                               long |-> r.got[ItemOf(i, 7)] = Yes]]]
            ELSE Refused
       ELSE Refused

(* Prompt is that, of these two.                                           *)
PromptHead(s) == Read((<<Map>> \o UInts(3)) \o <<Array>>, PromptWidths, s)

(* The device's parser is the reading of a head and of its options.        *)
LEMMA PromptReads ==
  ASSUME NEW s, NEW h, h = PromptHead(s), NEW n, n = h.got[5][8]
  PROVE  Prompt(s) = PromptFrom(h, Read(OptionsLayout(n), PromptWidths, h.rest), n)
BY ZenonT(40) DEF Prompt, PromptFrom, PromptHead, OptionsLayout, ItemOf

(* The bytes of a prompt that is not refused.                              *)
Prompts == [id : Word32, options : Seq(Options)]

(* They are a head and the options behind it.                              *)
LEMMA PromptIsWritten ==
  ASSUME NEW p \in Prompts, PromptBytes(p) # Refused
  PROVE  LET n == Len(p.options)
             s == Begin(p.id, Array, U(n)) \o OptionsBytes(p.options)
         IN /\ PromptBytes(p) = s /\ n \in 1..8 /\ Tight(p.options) /\ Len(s) <= MaxPrompt
<1> DEFINE O == p.options
           n == Len(O)
           s == Begin(p.id, Array, U(n)) \o OptionsBytes(O)
           C == /\ n \in 1..8
                /\ \A o \in ToSet(O) : Len(o.id) <= 64 /\ Len(o.title) <= 80
                /\ Len(s) <= MaxPrompt
<1>1. PromptBytes(p) = IF C THEN s ELSE Refused
  BY Zenon DEF PromptBytes, Begin, Five, OptionsBytes
<1> HIDE DEF C
<1>2. C /\ PromptBytes(p) = s
  BY <1>1
<1>3. O \in Seq(Options)
  BY DEF Prompts
<1>4. Tight(O)
  <2>1. ASSUME NEW i \in 1..Len(O)
        PROVE  O[i] \in Options /\ Len(O[i].id) <= 64 /\ Len(O[i].title) <= TitleTight
    <3>1. O[i] \in Options /\ O[i] \in ToSet(O)
      <4> HIDE DEF O
      <4>1. O[i] \in Options
        BY <1>3, ElementOfSeq
      <4> QED
        BY <4>1 DEF ToSet
    <3> HIDE DEF O, n, s
    <3>2. \A o \in ToSet(O) : Len(o.id) <= 64 /\ Len(o.title) <= TitleTight
      BY <1>2, Zenon DEF C, TitleTight
    <3> QED
      BY <3>1, <3>2
  <2> QED
    BY <2>1, Zenon DEF Tight
<1> QED
  BY <1>2, <1>4, Zenon DEF C

(* The values of an option, among those that are got.                      *)
LEMMA OptionValues ==
  ASSUME NEW n \in Nat, NEW O, Len(O) = n, NEW i \in 1..n, NEW j \in 1..7
  PROVE  OptionsGot(O)[ItemOf(i, j)] = OptionGot(O[i])[j]
<1>1. /\ ItemOf(i, j) \in 1..7 * n
      /\ OptionOf(ItemOf(i, j)) = i /\ PlaceOf(ItemOf(i, j)) = j
  BY ItemPlaces
<1> DEFINE k == ItemOf(i, j)
           F(x) == OptionGot(O[OptionOf(x)])[PlaceOf(x)]
<1> HIDE DEF k, F
<1>2. k \in 1..7 * n
  BY <1>1 DEF k
<1>3. [x \in 1..7 * n |-> F(x)][k] = F(k)
  BY <1>2
<1>4. OptionsGot(O) = [x \in 1..7 * n |-> F(x)]
  BY Zenon DEF OptionsGot, F
<1> QED
  BY <1>1, <1>3, <1>4, Zenon DEF k, F

(* A prompt that is not refused is read as it was written.                 *)
LEMMA PromptIsRead ==
  ASSUME NEW p \in Prompts, PromptBytes(p) # Refused
  PROVE  /\ Prompt(PromptBytes(p)) = p
         /\ PromptBytes(p) \in Wires /\ Len(PromptBytes(p)) <= MaxPrompt
<1> DEFINE O == p.options
           n == Len(O)
           s == PromptBytes(p)
           w == U(n)
           t == OptionsBytes(O)
           h == PromptHead(s)
           r == Read(OptionsLayout(n), PromptWidths, t)
           g == OptionsGot(O)
<1>1. p.id \in Word32 /\ O \in Seq(Options) /\ p = [id |-> p.id, options |-> O]
  BY DEF Prompts
<1>2. s = Begin(p.id, Array, w) \o t /\ n \in 1..8 /\ Tight(O) /\ Len(s) <= MaxPrompt
  BY PromptIsWritten, Zenon
<1>3. n \in Nat \ {0} /\ n \in Byte /\ n \in 0..23
  <2>1. \A x \in 1..8 : x \in Nat \ {0} /\ x \in Byte /\ x \in 0..23
    BY DEF Byte
  <2> QED
    BY <1>2, <2>1
<1>4. t \in Wires /\ r = [ok |-> TRUE, got |-> g, rest |-> <<>>]
  <2> HIDE DEF g
  <2>1. Len(O) = n
    OBVIOUS
  <2> HIDE DEF n, O, t, r
  <2>2. OptionsBytes(O) \in Wires
        /\ Read(OptionsLayout(n), PromptWidths, OptionsBytes(O))
           = [ok |-> TRUE, got |-> OptionsGot(O), rest |-> <<>>]
    BY <1>2, <1>3, <2>1, OptionsAreRead
  <2> QED
    BY <2>2, Zenon DEF t, r, g
<1>5. w \in Word /\ Fits(w, 1) /\ w[8] = n /\ WidthOf(w) = 1
  BY <1>3, ShortIsHead
<1> HIDE DEF w, t
<1>6. WidthOf(w) \in PromptWidths
  <2>1. 1 \in PromptWidths
    BY DEF PromptWidths
  <2> HIDE DEF WidthOf
  <2> QED
    BY <1>5, <2>1
<1>7. s \in Wires
  <2>1. Begin(p.id, Array, w) \in Wires
    BY <1>1, <1>5, BeginBytes
  <2> QED
    BY <1>2, <1>4, <2>1, PartMoves
<1>8. h = [ok |-> TRUE, got |-> BeginGot(p.id, w), rest |-> t]
  <2> DEFINE layout == (<<Map>> \o UInts(3)) \o <<Array>>
             id == p.id
             last == Array
  <2>1. BeginLayout(layout, last) /\ last \in {UInt, Array} /\ id \in Word32
    BY <1>1, Beginnings
  <2>2. h = Read(layout, PromptWidths, Begin(id, last, w) \o t)
    BY <1>2, Zenon DEF PromptHead
  <2> HIDE DEF layout, id, last
  <2>3. Read(layout, PromptWidths, Begin(id, last, w) \o t)
        = [ok |-> TRUE, got |-> BeginGot(id, w), rest |-> t]
    BY <1>4, <1>5, <1>6, <2>1, BeginIsRead
  <2> HIDE DEF h
  <2> QED
    BY <2>2, <2>3, Zenon DEF id
<1> DEFINE b == BeginGot(p.id, w)
<1>9. b[1] = U(2) /\ b[2] = U(0) /\ b[3] = p.id /\ b[4] = U(1) /\ b[5] = w
  BY DEF BeginGot
<1> HIDE DEF b, r, g, s
<1>10. h.ok /\ h.got = b /\ h.rest = t
  <2> HIDE DEF h
  <2> QED
    BY <1>8 DEF b
<1> HIDE DEF h
<1>11. Prompt(s) = PromptFrom(h, r, n)
  <2>1. n = h.got[5][8]
    BY <1>5, <1>9, <1>10, Zenon
  <2>2. h = PromptHead(s)
    BY DEF h
  <2> HIDE DEF n
  <2>3. Prompt(s) = PromptFrom(h, Read(OptionsLayout(n), PromptWidths, h.rest), n)
    BY <2>1, <2>2, PromptReads
  <2> QED
    BY <1>10, <2>3, Zenon DEF r
<1>12. Ended(r) /\ r.got = g
  BY <1>4 DEF Ended
<1>13. w \in {U(c) : c \in 1..MaxOptions} /\ Fits(p.id, 4)
  <2>1. n \in 1..MaxOptions
    BY <1>2 DEF MaxOptions
  <2> HIDE DEF n
  <2>2. w \in {U(c) : c \in 1..MaxOptions}
    BY <2>1 DEF w
  <2> QED
    BY <1>1, <2>2 DEF Word32
<1>14. ASSUME NEW i \in 1..n
       PROVE  /\ g[ItemOf(i, 1)] = U(3) /\ g[ItemOf(i, 2)] = U(0)
              /\ g[ItemOf(i, 4)] = U(1) /\ g[ItemOf(i, 6)] = U(2)
              /\ g[ItemOf(i, 3)] = O[i].id /\ g[ItemOf(i, 5)] = O[i].title
              /\ Len(g[ItemOf(i, 3)]) < IdentifierCapacity
              /\ Len(g[ItemOf(i, 5)]) < TitleCapacity
              /\ g[ItemOf(i, 7)] \in {Yes, No} /\ (g[ItemOf(i, 7)] = Yes) = O[i].long
  <2> DEFINE o == O[i]
             v == OptionGot(o)
  <2>1. \A j \in 1..7 : g[ItemOf(i, j)] = v[j]
    <3>1. Len(O) = n /\ n \in Nat
      BY <1>3
    <3> HIDE DEF n, O
    <3> QED
      BY <3>1, OptionValues DEF g
  <2>2. 1 \in 1..7 /\ 2 \in 1..7 /\ 3 \in 1..7 /\ 4 \in 1..7 /\ 5 \in 1..7 /\ 6 \in 1..7 /\ 7 \in 1..7
    OBVIOUS
  <2>3. o \in Options /\ Len(o.id) <= 64 /\ Len(o.title) <= TitleTight
    BY <1>2, Zenon DEF Tight
  <2> HIDE DEF o, n
  <2>4. /\ v[1] = U(3) /\ v[2] = U(0) /\ v[3] = o.id /\ v[4] = U(1) /\ v[5] = o.title
        /\ v[6] = U(2) /\ v[7] = Answer(o)
    BY DEF OptionGot
  <2> HIDE DEF v
  <2>5. /\ Answer(o) \in {Yes, No} /\ (Answer(o) = Yes) = o.long
        /\ o.id \in Strings /\ o.title \in Strings
    BY <2>3, OptionParts
  <2>6. Len(o.id) < IdentifierCapacity /\ Len(o.title) < TitleCapacity
    <3>1. Len(o.id) \in Nat /\ Len(o.title) \in Nat
      BY <2>5 DEF Strings
    <3>2. \A x \in Nat : (x <= 64 => x < IdentifierCapacity) /\ (x <= TitleTight => x < TitleCapacity)
      BY DEF IdentifierCapacity, TitleCapacity, TitleTight
    <3> QED
      BY <2>3, <3>1, <3>2
  <2>7. /\ g[ItemOf(i, 1)] = U(3) /\ g[ItemOf(i, 2)] = U(0)
        /\ g[ItemOf(i, 4)] = U(1) /\ g[ItemOf(i, 6)] = U(2)
        /\ g[ItemOf(i, 3)] = o.id /\ g[ItemOf(i, 5)] = o.title /\ g[ItemOf(i, 7)] = Answer(o)
    BY <2>1, <2>2, <2>4, Zenon
  <2> QED
    BY <2>5, <2>6, <2>7, Zenon DEF o
<1> DEFINE Z == [i \in 1..n |-> [id |-> g[ItemOf(i, 3)], title |-> g[ItemOf(i, 5)],
                                 long |-> g[ItemOf(i, 7)] = Yes]]
<1>15. PromptFrom(h, r, n) = [id |-> p.id, options |-> Z]
  <2> HIDE DEF n
  <2> QED
    BY <1>9, <1>10, <1>12, <1>13, <1>14, Zenon DEF PromptFrom
<1>16. Z = O
  <2>1. O = [i \in 1..n |-> O[i]]
    BY <1>1
  <2>2. ASSUME NEW i \in 1..n
        PROVE  O[i] = [id |-> g[ItemOf(i, 3)], title |-> g[ItemOf(i, 5)],
                       long |-> g[ItemOf(i, 7)] = Yes]
    <3>1. O[i] \in Options
      BY <1>2, Zenon DEF Tight
    <3> DEFINE o == O[i]
    <3> HIDE DEF o
    <3>2. o = [id |-> o.id, title |-> o.title, long |-> o.long]
      BY <3>1 DEF Options, o
    <3>3. g[ItemOf(i, 3)] = o.id /\ g[ItemOf(i, 5)] = o.title /\ (g[ItemOf(i, 7)] = Yes) = o.long
      BY <1>14, Zenon DEF o
    <3> QED
      BY <3>2, <3>3, Zenon DEF o
  <2> QED
    BY <2>1, <2>2, Zenon
<1> QED
  BY <1>1, <1>2, <1>7, <1>11, <1>15, <1>16, Zenon DEF s

(* The bytes of a prompt are bytes.                                        *)
LEMMA OptionIsBytes ==
  ASSUME NEW o \in Options, Len(o.id) <= 64, Len(o.title) <= TitleTight
  PROVE  OptionBytes(o) \in Strings
<1> DEFINE a == Major(Map, U(3))
           b == Num(0)
           c == Major(Str, U(Len(o.id)))
           d == o.id
           e == Num(1)
           f == Major(Str, U(Len(o.title)))
           g == o.title
           h == Num(2)
           i == <<Answer(o)>>
           x6 == SixLeft(a, b, c, d, e, f)
<1>1. d \in Strings /\ g \in Strings /\ i \in Strings
  <2>1. Answer(o) \in Byte /\ o.id \in Strings /\ o.title \in Strings
    BY OptionParts
  <2> QED
    BY <2>1 DEF Strings
<1>2. Map \in Majors /\ Str \in Majors /\ UInt \in Majors
  BY DEF Map, Str, UInt, Majors
<1>3. /\ U(0) \in Word /\ U(1) \in Word /\ U(2) \in Word /\ U(3) \in Word
  BY SmallNumber
<1>4. U(Len(o.id)) \in Word /\ U(Len(o.title)) \in Word
  BY OptionParts, NumberBytes, ZenonT(40)
<1>5. /\ a \in Strings /\ b \in Strings /\ c \in Strings /\ e \in Strings /\ f \in Strings
      /\ h \in Strings
  BY <1>2, <1>3, <1>4, HeadIsBytes DEF Num
<1>6. OptionBytes(o) = ((x6 \o g) \o h) \o i
  BY Zenon DEF OptionBytes, Answer, SixLeft
<1> HIDE DEF a, b, c, d, e, f, g, h, i
<1>7. x6 \in Strings
  BY <1>1, <1>5, SixBytes
<1> HIDE DEF x6
<1>8. \A x, y \in Strings : x \o y \in Strings
  BY ConcatProperties DEF Strings
<1>9. x6 \o g \in Strings
  BY <1>1, <1>7, <1>8, Zenon
<1>10. (x6 \o g) \o h \in Strings
  BY <1>5, <1>8, <1>9, Zenon
<1>11. ((x6 \o g) \o h) \o i \in Strings
  BY <1>1, <1>8, <1>10, Zenon
<1> QED
  BY <1>6, <1>11, Zenon

(* So are those of all of its options, and those of the prompt.            *)
LEMMA PromptIsBytes ==
  ASSUME NEW p \in Prompts, PromptBytes(p) # Refused
  PROVE  PromptBytes(p) \in Strings
<1> DEFINE O == p.options
           n == Len(O)
           F == [i \in 1..n |-> OptionBytes(O[i])]
<1>1. p.id \in Word32 /\ n \in Nat
  BY DEF Prompts
<1>2. /\ PromptBytes(p) = Begin(p.id, Array, U(n)) \o OptionsBytes(O)
      /\ n \in 1..8 /\ Tight(O)
  BY PromptIsWritten, Zenon
<1>3. U(n) \in Word /\ Fits(U(n), 1)
  <2>1. \A x \in 1..8 : x \in Byte
    BY DEF Byte
  <2> QED
    BY <1>2, <2>1, ShortIsHead
<1>4. Begin(p.id, Array, U(n)) \in Strings
  BY <1>1, <1>3, BeginBytes
<1>5. \A i \in 1..n : F[i] \in Seq(Byte)
  <2> SUFFICES ASSUME NEW i \in 1..n PROVE F[i] \in Seq(Byte)
    OBVIOUS
  <2>1. O[i] \in Options /\ Len(O[i].id) <= 64 /\ Len(O[i].title) <= TitleTight
    BY <1>2, Zenon DEF Tight
  <2> DEFINE o == O[i]
  <2> HIDE DEF o
  <2>2. OptionBytes(o) \in Strings
    BY <2>1, OptionIsBytes DEF o
  <2> QED
    BY <2>2 DEF o, Strings
<1>6. OptionsBytes(O) = FlattenSeq(F)
  BY Zenon DEF OptionsBytes
<1> HIDE DEF n
<1>7. Len(F) = n /\ n # 0
  BY <1>1, <1>2
<1> HIDE DEF F
<1>8. PICK g : Flattens(g, F, n, Byte)
  BY <1>1, <1>5, <1>7, FlattenSteps
<1>9. FlattenSeq(F) \in Strings
  BY <1>1, <1>8 DEF Flattens, Strings
<1> QED
  BY <1>2, <1>4, <1>6, <1>9, ConcatProperties DEF Strings

(* A packet of the size of a control message crosses a Wi-Fi session.      *)
LEMMA FrameIsOpened ==
  ASSUME NEW packet \in Wires, Len(packet) <= MaxPacket
  PROVE  LET frame == WifiFrame(Control, 1, 0, packet, Key)
         IN frame # Refused /\ OpensFrame(frame, Control, 1, Key) = packet
<1> DEFINE frame == WifiFrame(Control, 1, 0, packet, Key)
           n == Len(packet)
           header == <<Control, 1, 0, n>>
           sealed == <<Key, <<1, 0>>, header, packet>>
           f == [header |-> header, sealed |-> sealed, length |-> WifiHeader + n + WifiTag]
<1>1. n \in Nat /\ n <= MaxPacket
  BY DEF Wires
<1> HIDE DEF n
<1>2. n \in WifiLengths(Control)
  BY <1>1 DEF WifiLengths, Control, Audio, MaxPacket, MaxWifiPayload
<1>3. frame = f
  BY <1>2, Zenon DEF WifiFrame, n
<1>4. header \in Seq(Nat) /\ <<1, 0>> \in Seq(Nat) /\ packet \in Seq(Wire)
  BY <1>1 DEF Control, Wires
<1>5. header[1] = Control /\ header[2] = 1 /\ header[4] = n
  OBVIOUS
<1>6. WifiHeader + n + WifiTag \in Nat /\ WifiHeader + n + WifiTag <= MaxWifiPacket
  BY <1>1 DEF WifiHeader, WifiTag, MaxWifiPacket, MaxWifiPayload, MaxPacket
<1> HIDE DEF header
<1>7. sealed \in {Key} \X Seq(Nat) \X Seq(Nat) \X Seq(Wire)
  BY <1>4
<1>8. sealed[1] = Key /\ sealed[3] = header /\ sealed[4] = packet
  OBVIOUS
<1> HIDE DEF sealed
<1>9. f \in [header : Seq(Nat), sealed : {Key} \X Seq(Nat) \X Seq(Nat) \X Seq(Wire), length : Nat]
  BY <1>4, <1>6, <1>7
<1>10. f # Refused
  BY <1>9, RefusedAssumption, Zenon
<1>11. f.header = header /\ f.sealed = sealed /\ f.length = WifiHeader + n + WifiTag
  OBVIOUS
<1> HIDE DEF f
<1>12. OpensFrame(f, Control, 1, Key) = packet
  BY <1>2, <1>5, <1>6, <1>8, <1>11, Zenon DEF OpensFrame
<1> QED
  BY <1>3, <1>10, <1>12, Zenon

(* A prompt the Mac encodes arrives whole on every way to the device.      *)
LEMMA PromptsReach ==
  ASSUME InputInv
  PROVE  PromptsReachDevice
<1> DEFINE s == PromptBytes(input.prompt)
           e == Message(5, input.number, s)
           packet == Sealed(e, Key)
           frame == WifiFrame(Control, 1, 0, packet, Key)
<1> SUFFICES ASSUME input.kind = "prompt", s # Refused
             PROVE  /\ Prompt(s) = input.prompt
                    /\ Reassembled(Accepts, Fragments(packet, 1)) = <<packet>>
                    /\ frame # Refused /\ OpensFrame(frame, Control, 1, Key) = packet
                    /\ DeviceOpens(packet, Key) = e
                    /\ LineLength(s) < UsbLine
  BY Zenon DEF PromptsReachDevice
<1>1. input.number \in Word32 /\ input.prompt \in Prompts
  BY KindIsWellFormed, Zenon DEF WellFormed, Prompts, Options
<1>2. Prompt(s) = input.prompt /\ Len(s) <= MaxPrompt
  BY <1>1, PromptIsRead
<1>3. s \in Strings
  BY <1>1, PromptIsBytes
<1> HIDE DEF s
<1> DEFINE m == Len(s)
           n == Len(packet)
<1>4. m \in Nat /\ m <= MaxPrompt
  BY <1>2, <1>3 DEF Strings
<1>5. 5 \in MessageTypes
  BY DEF MessageTypes
<1>6. /\ e \in Envelopes /\ packet \in Wires /\ n \in Nat \ {0} /\ n <= m + 59
      /\ Envelope(packet, Key) = e
  BY <1>1, <1>2, <1>3, <1>5, MessageIsOpened
<1>7. e.payload = s
  BY DEF Message
<1> HIDE DEF e, packet, m, n, frame
<1>8. n \in 1..MaxPacket /\ n <= MaxPacket /\ ~(n > MaxPacket)
  BY <1>4, <1>6 DEF MaxPacket, MaxPrompt
<1>9. Reassembled(Accepts, Fragments(packet, 1)) = <<packet>>
  <2>1. packet \in Packets /\ 1 \in Nat
    BY <1>6, <1>8 DEF Packets, n
  <2> QED
    BY <2>1, PacketArrives
<1>10. frame # Refused /\ OpensFrame(frame, Control, 1, Key) = packet
  <2>1. Len(packet) <= MaxPacket
    BY <1>8 DEF n
  <2> QED
    BY <1>6, <2>1, FrameIsOpened, Zenon DEF frame
<1>11. e # Refused
  BY <1>6, RefusedAssumption, Zenon DEF Envelopes
<1>12. ~(Len(e.payload) > MaxPayload)
  <2>1. Len(e.payload) = m
    BY <1>7 DEF m
  <2>2. ~(m > MaxPayload)
    BY <1>4 DEF MaxPrompt, MaxPayload
  <2> QED
    BY <2>1, <2>2
<1>13. DeviceOpens(packet, Key) = e
  <2>1. ~(Len(packet) > MaxPacket)
    BY <1>8 DEF n
  <2> QED
    BY <1>6, <1>11, <1>12, <2>1, Zenon DEF DeviceOpens
<1>14. LineLength(s) < UsbLine
  <2>1. 2 + 4 * ((m + 2) \div 3) < UsbLine
    BY <1>4 DEF MaxPrompt, UsbLine
  <2> QED
    BY <2>1 DEF LineLength, m
<1> QED
  BY <1>2, <1>9, <1>10, <1>13, <1>14, Zenon

(* Both halves of an approval cross, the prompt to the device and the      *)
(* answer to the Mac, whatever the prompt is that the Mac has encoded and  *)
(* whatever was chosen.                                                    *)
THEOREM EveryApprovalCrosses == Spec => []PromptsAndAnswersCross
<1>1. InputInv => PromptsAndAnswersCross
  BY PromptsReach, AnswersReach DEF PromptsAndAnswersCross
<1> QED
  BY <1>1, InputInvariant, PTL

=============================================================================
