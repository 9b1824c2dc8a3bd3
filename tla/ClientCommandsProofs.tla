------------------------ MODULE ClientCommandsProofs ------------------------
(***************************************************************************)
(* Proofs about ClientCommands for any messages, lengths and buffer sizes. *)
(***************************************************************************)
EXTENDS ClientCommands, SequenceTheorems, FiniteSetTheorems, TLAPS

LEMMA Sizes ==
  /\ RxMax \in Nat /\ RxMax >= 2
  /\ SkipBuf \in Nat /\ SkipBuf >= 1
  /\ \A m \in Message : /\ m.len \in Nat /\ m.mid \in Nat /\ m.magic \in BOOLEAN
                        /\ m.addr \in Address /\ m.val \in Nat
BY CommandsAssumption

-----------------------------------------------------------------------------
(***************************************************************************)
(* The stream: w is what is left on the wire of the messages l.            *)
(***************************************************************************)
Word == [msg : Nat, at : Nat]
Whole(l, n) == l[n].len + 2

\* A run of words up to the last one sent.  The words of one message follow
\* each other, whichever two are taken; so do the messages.
Stream(l, w) ==
  /\ l \in Seq(Message)
  /\ w \in Seq(Word)
  /\ \A i \in 1 .. Len(w) : /\ w[i].msg \in 1 .. Len(l)
                            /\ w[i].at \in 1 .. Whole(l, w[i].msg)
  /\ \A i, j \in 1 .. Len(w) :
       i <= j /\ w[i].at + (j - i) <= Whole(l, w[i].msg)
         => w[j] = [msg |-> w[i].msg, at |-> w[i].at + (j - i)]
  /\ \A i \in 1 .. Len(w) :
       i < Len(w) /\ w[i].at = Whole(l, w[i].msg)
         => w[i + 1] = [msg |-> w[i].msg + 1, at |-> 1]
  /\ Len(w) > 0 => w[Len(w)] = [msg |-> Len(l), at |-> Whole(l, Len(l))]

\* The receiver has the first g words of message m and all before them: what
\* the wire begins with is what comes next.
Cursor(l, w, m, g) ==
  /\ m \in 1 .. Len(l) + 1 /\ g \in Nat
  /\ IF m = Len(l) + 1 THEN g = 0 ELSE g <= Whole(l, m)
  /\ IF Len(w) = 0 THEN m = Len(l) + 1 \/ (m = Len(l) /\ g = Whole(l, m))
     ELSE /\ m <= Len(l)
          /\ w[1] = IF g < Whole(l, m) THEN [msg |-> m, at |-> g + 1]
                                       ELSE [msg |-> m + 1, at |-> 1]

LEMMA MessageType ==
  ASSUME NEW l \in Seq(Message), NEW n \in 1 .. Len(l)
  PROVE  /\ l[n] \in Message /\ l[n].len \in Nat /\ l[n].mid \in Nat
         /\ l[n].addr \in Address /\ l[n].val \in Nat
         /\ Whole(l, n) \in Nat /\ Whole(l, n) >= 2
<1>1. l[n] \in Message
  BY ElementOfSeq
<1> QED BY <1>1, Sizes DEF Whole

\* What recv() leaves on the wire, for every number of words it takes.
LEMMA Suffix ==
  ASSUME NEW l, NEW w, Stream(l, w), NEW k \in 1 .. Len(w)
  PROVE  LET v == SubSeq(w, k + 1, Len(w)) IN
           /\ Stream(l, v) /\ Len(v) = Len(w) - k
           /\ \A i \in 1 .. Len(v) : v[i] = w[i + k]
<1> DEFINE v == SubSeq(w, k + 1, Len(w))
<1>1. Len(w) \in Nat /\ \A i \in 1 .. Len(w) : w[i] \in Word
  BY LenProperties, ElementOfSeq DEF Stream
<1>2. /\ v \in Seq(Word)
      /\ Len(v) = IF k + 1 <= Len(w) THEN Len(w) - (k + 1) + 1 ELSE 0
      /\ \A i \in 1 .. Len(w) - (k + 1) + 1 : v[i] = w[(k + 1) + i - 1]
  <2>1. \A i \in k + 1 .. Len(w) : w[i] \in Word
    BY <1>1
  <2>2. k + 1 \in Int /\ Len(w) \in Int
    BY <1>1
  <2> QED BY <2>1, <2>2, SubSeqProperties
<1>3. Len(v) = Len(w) - k /\ Len(v) \in Nat
  BY <1>1, <1>2
<1>4. \A i \in 1 .. Len(v) : v[i] = w[i + k] /\ i + k \in 1 .. Len(w)
  BY <1>1, <1>2, <1>3
<1>5. Stream(l, v)
  <2> HIDE DEF v
  <2>1. \A i \in 1 .. Len(v) : v[i].msg \in 1 .. Len(l) /\ v[i].at \in 1 .. Whole(l, v[i].msg)
    BY <1>4 DEF Stream
  <2>2. ASSUME NEW i \in 1 .. Len(v), NEW j \in 1 .. Len(v),
               i <= j, v[i].at + (j - i) <= Whole(l, v[i].msg)
        PROVE  v[j] = [msg |-> v[i].msg, at |-> v[i].at + (j - i)]
    <3>1. /\ i + k \in 1 .. Len(w) /\ j + k \in 1 .. Len(w) /\ i + k <= j + k
          /\ (j + k) - (i + k) = j - i
      BY <1>1, <1>3, <1>4, <2>2
    <3>2. w[i + k].at + (j - i) <= Whole(l, w[i + k].msg)
            => w[j + k] = [msg |-> w[i + k].msg, at |-> w[i + k].at + (j - i)]
      BY <3>1 DEF Stream
    <3>3. v[i] = w[i + k] /\ v[j] = w[j + k]
      BY <1>4
    <3> QED BY <2>2, <3>2, <3>3
  <2>3. ASSUME NEW i \in 1 .. Len(v), i < Len(v), v[i].at = Whole(l, v[i].msg)
        PROVE  v[i + 1] = [msg |-> v[i].msg + 1, at |-> 1]
    <3>1. i + k \in 1 .. Len(w) /\ i + k < Len(w) /\ i + 1 \in 1 .. Len(v)
          /\ (i + 1) + k = (i + k) + 1
      BY <1>1, <1>3, <1>4, <2>3
    <3>2. w[i + k].at = Whole(l, w[i + k].msg)
            => w[(i + k) + 1] = [msg |-> w[i + k].msg + 1, at |-> 1]
      BY <3>1 DEF Stream
    <3>3. v[i] = w[i + k] /\ v[i + 1] = w[(i + k) + 1]
      BY <1>4, <3>1
    <3> QED BY <2>3, <3>2, <3>3
  <2>4. Len(v) > 0 => v[Len(v)] = [msg |-> Len(l), at |-> Whole(l, Len(l))]
    <3>1. Len(v) > 0 => Len(v) \in 1 .. Len(v) /\ Len(v) + k = Len(w) /\ Len(w) > 0
      BY <1>1, <1>3
    <3>2. Len(v) > 0 => v[Len(v)] = w[Len(w)]
      BY <1>4, <3>1
    <3> QED BY <3>1, <3>2 DEF Stream
  <2>5. l \in Seq(Message)
    BY DEF Stream
  <2> QED BY <1>2, <2>1, <2>2, <2>3, <2>4, <2>5 DEF Stream
<1> QED BY <1>3, <1>4, <1>5

\* The words recv() takes are the next ones of the message, and the cursor
\* moves by as many, while they are asked for within the message.
LEMMA Received ==
  ASSUME NEW l, NEW w, Stream(l, w), NEW k \in 1 .. Len(w),
         NEW m, NEW g, Cursor(l, w, m, g), g + k <= Whole(l, m)
  PROVE  /\ m \in 1 .. Len(l)
         /\ \A j \in 1 .. k : w[j] = [msg |-> m, at |-> g + j]
         /\ Cursor(l, SubSeq(w, k + 1, Len(w)), m, g + k)
<1> DEFINE v == SubSeq(w, k + 1, Len(w))
<1>1. Len(w) \in Nat /\ Len(w) > 0 /\ Len(l) \in Nat
  BY LenProperties DEF Stream
<1>2. Stream(l, v) /\ Len(v) = Len(w) - k /\ \A i \in 1 .. Len(v) : v[i] = w[i + k]
  BY Suffix
<1>3. m \in 1 .. Len(l) /\ g \in Nat
  BY <1>1 DEF Cursor
<1>4. Whole(l, m) \in Nat
  BY <1>3, MessageType DEF Stream
<1>5. w[1] = [msg |-> m, at |-> g + 1]
  BY <1>1, <1>3, <1>4 DEF Cursor
<1>6. ASSUME NEW j \in 1 .. k PROVE w[j] = [msg |-> m, at |-> g + j]
  <2>1. /\ 1 \in 1 .. Len(w) /\ j \in 1 .. Len(w) /\ 1 <= j
        /\ (g + 1) + (j - 1) = g + j /\ g + j <= Whole(l, m)
    BY <1>1, <1>3, <1>4
  <2> QED BY <2>1, <1>5 DEF Stream
<1>7. Cursor(l, v, m, g + k)
  <2> HIDE DEF v
  <2>1. w[k] = [msg |-> m, at |-> g + k]
    BY <1>6
  <2>2. CASE Len(v) = 0
    <3>1. k = Len(w)
      BY <1>1, <1>2, <2>2
    <3>2. m = Len(l) /\ g + k = Whole(l, m)
      BY <1>1, <2>1, <3>1 DEF Stream
    <3> QED BY <1>1, <1>3, <2>2, <3>2 DEF Cursor
  <2>3. CASE Len(v) # 0
    <3>1. k < Len(w) /\ 1 \in 1 .. Len(v) /\ v[1] = w[k + 1] /\ k + 1 \in 1 .. Len(w)
      BY <1>1, <1>2, <2>3
    <3>2. CASE g + k < Whole(l, m)
      <4>1. k <= k + 1 /\ (g + k) + ((k + 1) - k) = g + k + 1 /\ g + k + 1 <= Whole(l, m)
        BY <1>3, <1>4, <3>2
      <4>2. w[k + 1] = [msg |-> m, at |-> g + k + 1]
        BY <2>1, <3>1, <4>1 DEF Stream
      <4> QED BY <1>1, <1>3, <2>3, <3>1, <3>2, <4>2 DEF Cursor
    <3>3. CASE ~(g + k < Whole(l, m))
      <4>1. g + k = Whole(l, m)
        BY <1>3, <1>4, <3>3
      <4>2. w[k + 1] = [msg |-> m + 1, at |-> 1]
        BY <2>1, <3>1, <4>1 DEF Stream
      <4> QED BY <1>1, <1>3, <2>3, <3>1, <4>1, <4>2 DEF Cursor
    <3> QED BY <3>2, <3>3
  <2> QED BY <2>2, <2>3
<1> QED BY <1>3, <1>6, <1>7

\* The cursor at the end of a message is the cursor before the next.
LEMMA NextMessage ==
  ASSUME NEW l, NEW w, Stream(l, w), NEW m, m \in 1 .. Len(l),
         Cursor(l, w, m, Whole(l, m))
  PROVE  Cursor(l, w, m + 1, 0)
<1>1. Len(w) \in Nat /\ Len(l) \in Nat /\ Whole(l, m) \in Nat
  BY LenProperties, MessageType DEF Stream
<1>2. CASE Len(w) = 0
  BY <1>1, <1>2 DEF Cursor
<1>3. CASE Len(w) # 0
  <2>1. w[1] = [msg |-> m + 1, at |-> 1] /\ 1 \in 1 .. Len(w)
    BY <1>1, <1>3 DEF Cursor
  <2>2. m + 1 \in 1 .. Len(l)
    BY <2>1 DEF Stream
  <2>3. Whole(l, m + 1) \in Nat /\ Whole(l, m + 1) >= 2
    BY <2>2, MessageType DEF Stream
  <2> QED BY <1>1, <1>3, <2>1, <2>2, <2>3 DEF Cursor
<1> QED BY <1>2, <1>3

LEMMA WordsOfMessage ==
  ASSUME NEW n \in Nat, NEW len \in Nat
  PROVE  /\ Words(n, len) \in Seq(Word) /\ Len(Words(n, len)) = len + 2
         /\ \A j \in 1 .. len + 2 : Words(n, len)[j] = [msg |-> n, at |-> j]
<1>1. Words(n, len) \in [1 .. len + 2 -> Word]
  BY DEF Words, Word
<1>2. Words(n, len) \in Seq(Word)
  BY <1>1, SeqDef
<1>3. Len(Words(n, len)) \in Nat /\ 1 .. Len(Words(n, len)) = 1 .. len + 2
  BY <1>1, <1>2, LenProperties
<1> QED BY <1>2, <1>3 DEF Words

\* A message the client sends continues the stream and moves no cursor.
LEMMA Sent ==
  ASSUME NEW l, NEW w, Stream(l, w), NEW x \in Message
  PROVE  LET l1 == Append(l, x)
             w1 == w \o Words(Len(l) + 1, x.len)
         IN /\ Stream(l1, w1)
            /\ \A m, g : Cursor(l, w, m, g) => Cursor(l1, w1, m, g)
<1> DEFINE l1 == Append(l, x)
           s == Words(Len(l) + 1, x.len)
           w1 == w \o s
<1>1. /\ l \in Seq(Message) /\ Len(l) \in Nat
      /\ w \in Seq(Word) /\ Len(w) \in Nat /\ x.len \in Nat
  BY LenProperties, Sizes DEF Stream
<1>2. /\ l1 \in Seq(Message) /\ Len(l1) = Len(l) + 1
      /\ \A n \in 1 .. Len(l) : l1[n] = l[n]
      /\ l1[Len(l) + 1] = x
  BY <1>1, AppendProperties
<1>3. /\ s \in Seq(Word) /\ Len(s) = x.len + 2
      /\ \A j \in 1 .. x.len + 2 : s[j] = [msg |-> Len(l) + 1, at |-> j]
  <2>1. Len(l) + 1 \in Nat
    BY <1>1
  <2> QED BY <1>1, <2>1, WordsOfMessage
<1> HIDE DEF s
<1>4. /\ w1 \in Seq(Word) /\ Len(w1) = Len(w) + (x.len + 2)
      /\ \A i \in 1 .. Len(w) + (x.len + 2) :
           w1[i] = IF i <= Len(w) THEN w[i] ELSE s[i - Len(w)]
  <2>1. /\ w \o s \in Seq(Word) /\ Len(w \o s) = Len(w) + Len(s)
        /\ \A i \in 1 .. Len(w) + Len(s) :
             (w \o s)[i] = IF i <= Len(w) THEN w[i] ELSE s[i - Len(w)]
    BY <1>1, <1>3, ConcatProperties, ZenonT(30)
  <2>2. Len(s) = x.len + 2
    BY <1>3
  <2> HIDE DEF w1
  <2>3. w1 = w \o s
    BY DEF w1
  <2> QED BY <2>1, <2>2, <2>3
<1>5. /\ \A i \in 1 .. Len(w) : w1[i] = w[i] /\ i \in 1 .. Len(w1)
      /\ \A i \in Len(w) + 1 .. Len(w1) : w1[i] = [msg |-> Len(l) + 1, at |-> i - Len(w)]
  <2> HIDE DEF w1
  <2>1. ASSUME NEW i \in 1 .. Len(w) PROVE w1[i] = w[i] /\ i \in 1 .. Len(w1)
    BY <1>1, <1>4
  <2>2. ASSUME NEW i \in Len(w) + 1 .. Len(w1)
        PROVE  w1[i] = [msg |-> Len(l) + 1, at |-> i - Len(w)]
    <3>1. /\ i \in 1 .. Len(w) + (x.len + 2) /\ ~(i <= Len(w))
          /\ i - Len(w) \in 1 .. x.len + 2
      BY <1>1, <1>4
    <3>2. w1[i] = s[i - Len(w)]
      BY <1>4, <3>1
    <3> QED BY <1>3, <3>1, <3>2
  <2> QED BY <2>1, <2>2
<1>6. /\ \A n \in 1 .. Len(l) : Whole(l1, n) = Whole(l, n) /\ Whole(l, n) \in Nat
      /\ Whole(l1, Len(l) + 1) = x.len + 2
  BY <1>1, <1>2, MessageType DEF Whole
<1> HIDE DEF l1, w1
<1>7. \A i \in 1 .. Len(w) : /\ w[i].msg \in 1 .. Len(l) /\ w[i].at \in 1 .. Whole(l, w[i].msg)
  BY DEF Stream
<1>8. Len(w) > 0 => w[Len(w)] = [msg |-> Len(l), at |-> Whole(l, Len(l))]
  BY DEF Stream
<1>9. Stream(l1, w1)
  <2>1. ASSUME NEW i \in 1 .. Len(w1)
        PROVE  w1[i].msg \in 1 .. Len(l1) /\ w1[i].at \in 1 .. Whole(l1, w1[i].msg)
    <3>1. CASE i <= Len(w)
      <4>1. i \in 1 .. Len(w) /\ w1[i] = w[i]
        BY <1>1, <1>5, <3>1
      <4> QED BY <1>1, <1>2, <1>6, <1>7, <4>1
    <3>2. CASE ~(i <= Len(w))
      <4>1. i \in Len(w) + 1 .. Len(w1) /\ w1[i] = [msg |-> Len(l) + 1, at |-> i - Len(w)]
        BY <1>1, <1>4, <1>5, <3>2
      <4>2. i - Len(w) \in 1 .. x.len + 2
        <5>1. i \in Int /\ i > Len(w) /\ i <= Len(w) + (x.len + 2)
          BY <1>1, <1>4, <4>1
        <5> QED BY <1>1, <5>1
      <4>3. w1[i].msg = Len(l) + 1 /\ w1[i].at = i - Len(w)
        BY <4>1
      <4> QED BY <1>1, <1>2, <1>6, <4>2, <4>3
    <3> QED BY <3>1, <3>2
  <2>2. ASSUME NEW i \in 1 .. Len(w1), NEW j \in 1 .. Len(w1),
               i <= j, w1[i].at + (j - i) <= Whole(l1, w1[i].msg)
        PROVE  w1[j] = [msg |-> w1[i].msg, at |-> w1[i].at + (j - i)]
    <3>1. CASE j <= Len(w)
      <4>1. i \in 1 .. Len(w) /\ j \in 1 .. Len(w) /\ w1[i] = w[i] /\ w1[j] = w[j]
        BY <1>1, <1>5, <2>2, <3>1
      <4>2. Whole(l1, w[i].msg) = Whole(l, w[i].msg)
        BY <1>6, <1>7, <4>1
      <4> QED BY <2>2, <4>1, <4>2 DEF Stream
    <3>2. CASE i > Len(w)
      <4>1. i \in Len(w) + 1 .. Len(w1) /\ j \in Len(w) + 1 .. Len(w1)
        BY <1>1, <1>4, <2>2, <3>2
      <4>2. /\ w1[i] = [msg |-> Len(l) + 1, at |-> i - Len(w)]
            /\ w1[j] = [msg |-> Len(l) + 1, at |-> j - Len(w)]
        BY <1>5, <4>1
      <4>3. (i - Len(w)) + (j - i) = j - Len(w)
        BY <1>1, <1>4
      <4> QED BY <4>2, <4>3
    <3>3. CASE i <= Len(w) /\ j > Len(w)
      <4> DEFINE L == Len(w)
      <4>1. i \in 1 .. L /\ L \in 1 .. L /\ i <= L /\ w1[i] = w[i] /\ L \in Nat /\ j \in Nat
        BY <1>1, <1>4, <1>5, <3>3
      <4>2. /\ w[i].at \in Nat /\ Whole(l, w[i].msg) \in Nat
            /\ w[i].at + (j - i) <= Whole(l, w[i].msg)
        <5>1. w[i].msg \in 1 .. Len(l) /\ w[i].at \in 1 .. Whole(l, w[i].msg)
          BY <1>7, <4>1
        <5>2. Whole(l1, w[i].msg) = Whole(l, w[i].msg) /\ Whole(l, w[i].msg) \in Nat
          BY <1>6, <5>1
        <5>3. w[i].at + (j - i) <= Whole(l1, w[i].msg)
          BY <2>2, <4>1
        <5> QED BY <5>1, <5>2, <5>3
      <4>3. w[i].at + (L - i) <= Whole(l, w[i].msg)
        BY <3>3, <4>1, <4>2
      <4>4. w[L] = [msg |-> w[i].msg, at |-> w[i].at + (L - i)]
        BY <4>1, <4>3 DEF Stream
      <4>5. Len(l) = w[i].msg /\ Whole(l, w[i].msg) = w[i].at + (L - i)
        BY <1>8, <4>1, <4>4
      <4> QED BY <3>3, <4>1, <4>2, <4>5
    <3> QED BY <1>1, <2>2, <3>1, <3>2, <3>3
  <2>3. ASSUME NEW i \in 1 .. Len(w1), i < Len(w1), w1[i].at = Whole(l1, w1[i].msg)
        PROVE  w1[i + 1] = [msg |-> w1[i].msg + 1, at |-> 1]
    <3>1. CASE i < Len(w)
      <4>1. i \in 1 .. Len(w) /\ i + 1 \in 1 .. Len(w) /\ w1[i] = w[i] /\ w1[i + 1] = w[i + 1]
        BY <1>1, <1>5, <3>1
      <4>2. Whole(l1, w[i].msg) = Whole(l, w[i].msg)
        BY <1>6, <1>7, <4>1
      <4> QED BY <2>3, <3>1, <4>1, <4>2 DEF Stream
    <3>2. CASE i = Len(w)
      <4>1. /\ i \in 1 .. Len(w) /\ w1[i] = w[i] /\ w[i].msg = Len(l)
            /\ i + 1 \in Len(w) + 1 .. Len(w1) /\ (i + 1) - Len(w) = 1
        BY <1>1, <1>4, <1>5, <1>8, <3>2
      <4> QED BY <1>5, <4>1
    <3>3. CASE i > Len(w)
      <4>1. i \in Len(w) + 1 .. Len(w1) /\ w1[i] = [msg |-> Len(l) + 1, at |-> i - Len(w)]
        BY <1>1, <1>4, <1>5, <3>3
      <4>2. i - Len(w) = x.len + 2
        BY <1>6, <2>3, <4>1
      <4> QED BY <1>1, <1>4, <2>3, <4>1, <4>2
    <3> QED BY <1>1, <3>1, <3>2, <3>3
  <2>4. w1[Len(w1)] = [msg |-> Len(l1), at |-> Whole(l1, Len(l1))]
    <3>1. Len(w1) \in Len(w) + 1 .. Len(w1) /\ Len(w1) - Len(w) = x.len + 2
      BY <1>1, <1>4
    <3> QED BY <1>2, <1>5, <1>6, <3>1
  <2> QED BY <1>2, <1>4, <2>1, <2>2, <2>3, <2>4 DEF Stream
<1>10. ASSUME NEW m, NEW g, Cursor(l, w, m, g) PROVE Cursor(l1, w1, m, g)
  <2>1. Len(w1) > 0
    BY <1>1, <1>4
  <2>2. CASE m = Len(l) + 1
    <3>1. g = 0 /\ Len(w) = 0
      BY <1>1, <1>10, <2>2 DEF Cursor
    <3>2. w1[1] = [msg |-> m, at |-> 1]
      <4>1. 1 \in Len(w) + 1 .. Len(w1) /\ 1 - Len(w) = 1
        BY <1>1, <1>4, <3>1
      <4> QED BY <1>5, <2>2, <4>1
    <3> QED BY <1>1, <1>2, <1>6, <2>1, <2>2, <3>1, <3>2 DEF Cursor
  <2>3. CASE m # Len(l) + 1
    <3>1. m \in 1 .. Len(l) /\ g \in Nat /\ g <= Whole(l, m) /\ Whole(l1, m) = Whole(l, m)
          /\ Whole(l, m) \in Nat
      BY <1>1, <1>6, <1>10, <2>3 DEF Cursor
    <3>2. w1[1] = IF g < Whole(l, m) THEN [msg |-> m, at |-> g + 1]
                                     ELSE [msg |-> m + 1, at |-> 1]
      <4>1. CASE Len(w) = 0
        <5>1. m = Len(l) /\ g = Whole(l, m)
          BY <1>10, <2>3, <4>1 DEF Cursor
        <5>2. 1 \in Len(w) + 1 .. Len(w1) /\ 1 - Len(w) = 1
          BY <1>1, <1>4, <4>1
        <5> QED BY <1>5, <3>1, <5>1, <5>2
      <4>2. CASE Len(w) # 0
        <5>1. 1 \in 1 .. Len(w)
          BY <1>1, <4>2
        <5> QED BY <1>5, <1>10, <4>2, <5>1 DEF Cursor
      <4> QED BY <4>1, <4>2
    <3> QED BY <1>1, <1>2, <2>1, <3>1, <3>2 DEF Cursor
  <2> QED BY <2>2, <2>3
<1> QED BY <1>9, <1>10 DEF l1, s, w1

-----------------------------------------------------------------------------
(***************************************************************************)
(* The receive and skip loops.                                             *)
(***************************************************************************)
Inside == {"body", "chunk", "rest", "apply"}

\* Words of the message in progress that were received.
Got == CASE hpc = "head" -> 2 - need
         [] hpc = "body" -> (2 + Rlen) - need
         [] hpc = "chunk" -> ((2 + Announced.len) - left) + (SkipBuf - need)
         [] hpc = "rest" -> (2 + Announced.len) - need
         [] hpc = "apply" -> 2 + Announced.len
         [] OTHER -> 0

\* Where in the stream each loop is, by its own counters.
LoopInv ==
  /\ hpc = "head" => /\ need \in 0 .. 2
                     /\ hdr \in Seq(Word) /\ Len(hdr) = 2 - need
                     /\ \A j \in 1 .. Len(hdr) :
                          hdr[j] = [msg |-> handled + 1, at |-> j]
  /\ hpc \in Inside => handled < Len(log) /\ hdr[1].msg = handled + 1
  /\ hpc = "body" => need \in 0 .. Rlen
  /\ hpc = "chunk" => /\ left \in SkipBuf + 1 .. Announced.len - Rlen
                      /\ need \in 0 .. SkipBuf
  /\ hpc = "rest" => left \in 1 .. SkipBuf /\ need \in 0 .. left

FrameInv ==
  /\ Stream(log, wire)
  /\ hpc \in Inside \union {"head", "ended", "lost"}
  /\ hpc = "lost" => stalled
  /\ ~stalled => /\ handled \in 0 .. Len(log)
                 /\ hpc # "ended" => Cursor(log, wire, handled + 1, Got)
                 /\ LoopInv

\* The message in progress.
LEMMA InProgress ==
  ASSUME FrameInv, ~stalled, hpc \in Inside
  PROVE  /\ handled \in Nat /\ handled + 1 \in 1 .. Len(log) /\ Len(log) \in Nat
         /\ hdr[1].msg = handled + 1 /\ Announced = log[handled + 1]
         /\ Announced.len \in Nat /\ Whole(log, handled + 1) = Announced.len + 2
         /\ Rlen \in Nat /\ Rlen <= Announced.len /\ Rlen <= RxMax
<1>1. log \in Seq(Message) /\ Len(log) \in Nat
  BY LenProperties DEF FrameInv, Stream
<1>2. handled \in Nat /\ handled + 1 \in 1 .. Len(log) /\ hdr[1].msg = handled + 1
  BY <1>1 DEF FrameInv, LoopInv
<1>3. Announced = log[handled + 1]
  BY <1>2 DEF Announced
<1>4. Announced.len \in Nat /\ Whole(log, handled + 1) = Announced.len + 2
  BY <1>1, <1>2, <1>3, MessageType DEF Whole
<1> QED BY <1>1, <1>2, <1>3, <1>4, Sizes DEF Rlen

LEMMA FrameInit == Init => FrameInv
<1> SUFFICES ASSUME Init PROVE FrameInv
  OBVIOUS
<1>1. log = <<>> /\ wire = <<>> /\ hdr = <<>>
  BY DEF Init
<1>2. Len(<<>>) = 0 /\ <<>> \in Seq(Message) /\ <<>> \in Seq(Word)
  BY EmptySeq
<1>3. Stream(log, wire)
  BY <1>1, <1>2 DEF Stream
<1>4. Cursor(log, wire, 1, 0)
  BY <1>1, <1>2 DEF Cursor
<1> QED BY <1>1, <1>2, <1>3, <1>4 DEF Init, FrameInv, LoopInv, Got, Inside

\* A call of recv() within the message in progress.
LEMMA RecvFrame ==
  ASSUME FrameInv, ~stalled, NEW k, Recv(k), NEW g, Got = g, hpc # "ended",
         g + k <= Whole(log, handled + 1)
  PROVE  /\ k \in Nat /\ k >= 1 /\ k <= need /\ need' = need - k /\ g \in Nat
         /\ Stream(log, wire')
         /\ handled + 1 \in 1 .. Len(log)
         /\ \A j \in 1 .. k : wire[j] = [msg |-> handled + 1, at |-> g + j]
         /\ SubSeq(wire, 1, k) \in Seq(Word) /\ Len(SubSeq(wire, 1, k)) = k
         /\ \A j \in 1 .. k : SubSeq(wire, 1, k)[j] = [msg |-> handled + 1, at |-> g + j]
         /\ Cursor(log, wire', handled + 1, g + k)
<1>1. /\ Stream(log, wire) /\ Cursor(log, wire, handled + 1, g)
      /\ k \in 1 .. Len(wire) /\ k <= need /\ need' = need - k
      /\ wire' = SubSeq(wire, k + 1, Len(wire))
  BY DEF FrameInv, Recv, Inside
<1>2. wire \in Seq(Word) /\ Len(wire) \in Nat
  BY <1>1, LenProperties DEF Stream
<1>3. /\ handled + 1 \in 1 .. Len(log)
      /\ \A j \in 1 .. k : wire[j] = [msg |-> handled + 1, at |-> g + j]
      /\ Cursor(log, wire', handled + 1, g + k)
  BY <1>1, Received
<1>4. /\ SubSeq(wire, 1, k) \in Seq(Word) /\ Len(SubSeq(wire, 1, k)) = k
      /\ \A j \in 1 .. k : SubSeq(wire, 1, k)[j] = wire[j]
  <2>1. /\ \A i \in 1 .. k : wire[i] \in Word
        /\ 1 \in Int /\ k \in Int /\ 1 <= k
    BY <1>1, <1>2, ElementOfSeq
  <2>2. /\ SubSeq(wire, 1, k) \in Seq(Word)
        /\ Len(SubSeq(wire, 1, k)) = IF 1 <= k THEN k - 1 + 1 ELSE 0
        /\ \A i \in 1 .. k - 1 + 1 : SubSeq(wire, 1, k)[i] = wire[1 + i - 1]
    BY <2>1, SubSeqProperties
  <2> QED BY <2>1, <2>2
<1>5. k \in Nat /\ k >= 1 /\ Stream(log, wire')
  BY <1>1, <1>2, Suffix
<1>6. g \in Nat
  BY <1>1, <1>2 DEF Cursor
<1> QED BY <1>1, <1>3, <1>4, <1>5, <1>6

LEMMA RecvStream ==
  ASSUME FrameInv, NEW k, Recv(k)
  PROVE  Stream(log, wire')
BY Suffix DEF FrameInv, Recv

LEMMA SendFrame ==
  ASSUME FrameInv, NEW m \in Message, Send(m) PROVE FrameInv'
<1>1. /\ log' = Append(log, m) /\ wire' = wire \o Words(Len(log) + 1, m.len)
      /\ UNCHANGED <<hpc, need, hdr, left, handled, stalled>>
  BY DEF Send, rxVars
<1>2. /\ Stream(log, wire)' /\ \A n, g : Cursor(log, wire, n, g) => Cursor(log', wire', n, g)
  BY <1>1, Sent DEF FrameInv
<1>3. /\ log \in Seq(Message) /\ Len(log) \in Nat /\ Len(log') = Len(log) + 1
      /\ \A n \in 1 .. Len(log) : log'[n] = log[n]
  BY <1>1, LenProperties, AppendProperties DEF FrameInv, Stream
<1>4. ~stalled /\ hpc \in Inside => Announced' = Announced /\ Rlen' = Rlen
  <2> SUFFICES ASSUME ~stalled, hpc \in Inside PROVE Announced' = Announced /\ Rlen' = Rlen
    OBVIOUS
  <2>1. hdr[1].msg \in 1 .. Len(log)
    BY InProgress
  <2>2. Announced' = Announced
    BY <1>1, <1>3, <2>1 DEF Announced
  <2> QED BY <2>2 DEF Rlen
<1>5. ~stalled => Got' = Got
  BY <1>1, <1>4 DEF Got, FrameInv, Inside
<1>6. ~stalled => LoopInv'
  BY <1>1, <1>3, <1>4 DEF FrameInv, LoopInv, Inside
<1> QED BY <1>1, <1>2, <1>3, <1>5, <1>6 DEF FrameInv, Inside

\* Announced' and Rlen' when log and header stay.
LEMMA SameMessage ==
  ASSUME log' = log, hdr' = hdr PROVE Announced' = Announced /\ Rlen' = Rlen
<1>1. Announced' = Announced
  BY DEF Announced
<1> QED BY <1>1 DEF Rlen

LEMMA HeadFrame == ASSUME FrameInv, RecvHead \/ HeadDone PROVE FrameInv'
<1>1. CASE RecvHead
  <2>1. PICK k \in 1 .. 2 : Recv(k) /\ hdr' = hdr \o SubSeq(wire, 1, k)
    BY <1>1 DEF RecvHead
  <2>2. hpc = "head" /\ UNCHANGED <<hpc, left, log, handled, stalled>>
    BY <1>1, <2>1 DEF RecvHead, Recv
  <2>3. Stream(log, wire')
    BY <2>1, RecvStream
  <2>4. ASSUME ~stalled PROVE Cursor(log, wire', handled + 1, Got') /\ LoopInv'
    <3>1. /\ need \in 0 .. 2 /\ hdr \in Seq(Word) /\ Len(hdr) = 2 - need
          /\ \A j \in 1 .. Len(hdr) : hdr[j] = [msg |-> handled + 1, at |-> j]
      BY <2>2, <2>4 DEF FrameInv, LoopInv
    <3>2. Got = 2 - need
      BY <2>2 DEF Got
    <3>3. k <= need /\ (2 - need) + k <= 2 /\ Len(wire) > 0
      <4>1. k \in 1 .. Len(wire) /\ k <= need /\ Len(wire) \in Nat
        BY <2>1, LenProperties DEF Recv, FrameInv, Stream
      <4> QED BY <3>1, <4>1
    <3>4. handled + 1 \in 1 .. Len(log) /\ log \in Seq(Message) /\ handled \in Nat
      <4>1. log \in Seq(Message) /\ Len(log) \in Nat /\ handled \in 0 .. Len(log)
        BY <2>4, LenProperties DEF FrameInv, Stream
      <4>2. handled + 1 <= Len(log)
        BY <2>2, <2>4, <3>3 DEF FrameInv, Cursor, Inside
      <4> QED BY <4>1, <4>2
    <3>5. Whole(log, handled + 1) \in Nat /\ Whole(log, handled + 1) >= 2
      BY <3>4, MessageType
    <3>6. (2 - need) + k <= Whole(log, handled + 1)
      BY <3>1, <3>3, <3>5
    <3>7. /\ need' = need - k
          /\ SubSeq(wire, 1, k) \in Seq(Word) /\ Len(SubSeq(wire, 1, k)) = k
          /\ \A j \in 1 .. k : SubSeq(wire, 1, k)[j] = [msg |-> handled + 1, at |-> (2 - need) + j]
          /\ Cursor(log, wire', handled + 1, (2 - need) + k)
      BY <2>1, <2>2, <2>4, <3>2, <3>6, RecvFrame
    <3>8. /\ hdr' \in Seq(Word) /\ Len(hdr') = Len(hdr) + k
          /\ \A j \in 1 .. Len(hdr) + k :
               hdr'[j] = IF j <= Len(hdr) THEN hdr[j] ELSE SubSeq(wire, 1, k)[j - Len(hdr)]
      BY <2>1, <3>1, <3>7, ConcatProperties
    <3>9. Got' = (2 - need) + k
      BY <2>2, <3>1, <3>7 DEF Got
    <3>10. \A j \in 1 .. Len(hdr') : hdr'[j] = [msg |-> handled + 1, at |-> j]
      <4> TAKE j \in 1 .. Len(hdr')
      <4>1. CASE j <= Len(hdr)
        BY <3>1, <3>8, <4>1
      <4>2. CASE ~(j <= Len(hdr))
        <5>1. j - Len(hdr) \in 1 .. k /\ (2 - need) + (j - Len(hdr)) = j
          BY <3>1, <3>8, <4>2
        <5>2. hdr'[j] = SubSeq(wire, 1, k)[j - Len(hdr)]
          BY <3>8, <4>2
        <5> QED BY <3>7, <5>1, <5>2
      <4> QED BY <4>1, <4>2
    <3>11. need' \in 0 .. 2 /\ Len(hdr') = 2 - need'
      BY <3>1, <3>3, <3>7, <3>8
    <3> QED BY <2>2, <3>7, <3>8, <3>9, <3>10, <3>11 DEF LoopInv, Inside
  <2> QED BY <2>2, <2>3, <2>4 DEF FrameInv, Inside
<1>2. CASE HeadDone
  <2>1. /\ hpc = "head" /\ need = 0 /\ UNCHANGED <<log, wire, hdr, left, handled, stalled>>
        /\ \/ hpc' = "body" /\ need' = Rlen
           \/ hpc' = "ended"
    BY <1>2 DEF HeadDone
  <2>2. ASSUME ~stalled, hpc' = "body", need' = Rlen
        PROVE  Cursor(log, wire, handled + 1, Got') /\ LoopInv'
    <3>1. Len(hdr) = 2 /\ hdr[1] = [msg |-> handled + 1, at |-> 1]
      <4>1. /\ need \in 0 .. 2 /\ Len(hdr) = 2 - need
            /\ \A j \in 1 .. Len(hdr) : hdr[j] = [msg |-> handled + 1, at |-> j]
        BY <2>1, <2>2 DEF FrameInv, LoopInv
      <4>2. Len(hdr) = 2 /\ 1 \in 1 .. Len(hdr)
        BY <2>1, <4>1
      <4> QED BY <4>1, <4>2
    <3>2. /\ log \in Seq(Message) /\ Len(log) \in Nat /\ handled \in 0 .. Len(log)
          /\ Cursor(log, wire, handled + 1, 2)
      BY <2>1, <2>2, LenProperties DEF FrameInv, Stream, Got, Inside
    <3>3. handled + 1 \in 1 .. Len(log)
      BY <3>2 DEF Cursor
    <3>4. Announced = log[handled + 1] /\ Announced' = Announced /\ Rlen' = Rlen
      BY <2>1, <3>1, SameMessage DEF Announced
    <3>5. Rlen \in Nat
      BY <3>2, <3>3, <3>4, MessageType, Sizes DEF Rlen
    <3>6. Got' = 2
      BY <2>2, <3>4, <3>5 DEF Got
    <3> QED BY <2>1, <2>2, <3>1, <3>2, <3>3, <3>4, <3>5, <3>6 DEF LoopInv, Inside
  <2>3. hpc' = "ended" => LoopInv'
    BY DEF LoopInv, Inside
  <2> QED BY <2>1, <2>2, <2>3 DEF FrameInv, Inside
<1> QED BY <1>1, <1>2

LEMMA BodyFrame == ASSUME FrameInv, RecvBody \/ BodyDone PROVE FrameInv'
<1>1. CASE RecvBody
  <2>1. PICK k \in 1 .. RxMax : Recv(k)
    BY <1>1 DEF RecvBody
  <2>2. hpc = "body" /\ UNCHANGED <<hpc, hdr, left, log, handled, stalled>>
    BY <1>1, <2>1 DEF RecvBody, Recv
  <2>3. Stream(log, wire')
    BY <2>1, RecvStream
  <2>4. ASSUME ~stalled PROVE Cursor(log, wire', handled + 1, Got') /\ LoopInv'
    <3>1. need \in 0 .. Rlen /\ Got = (2 + Rlen) - need
      BY <2>2, <2>4 DEF FrameInv, LoopInv, Got
    <3>2. /\ Rlen \in Nat /\ Rlen <= Announced.len /\ Announced.len \in Nat
          /\ Whole(log, handled + 1) = Announced.len + 2
      BY <2>2, <2>4, InProgress DEF Inside
    <3>3. k <= need /\ ((2 + Rlen) - need) + k <= Whole(log, handled + 1)
      BY <2>1, <3>1, <3>2 DEF Recv
    <3>4. need' = need - k /\ Cursor(log, wire', handled + 1, ((2 + Rlen) - need) + k)
      BY <2>1, <2>2, <2>4, <3>1, <3>3, RecvFrame
    <3>5. Rlen' = Rlen
      BY <2>2, SameMessage
    <3>6. need' \in 0 .. Rlen' /\ Got' = ((2 + Rlen) - need) + k
      BY <2>2, <3>1, <3>2, <3>3, <3>4, <3>5 DEF Got
    <3> QED BY <2>2, <2>4, <3>4, <3>6 DEF FrameInv, LoopInv, Inside
  <2> QED BY <2>2, <2>3, <2>4 DEF FrameInv, Inside
<1>2. CASE BodyDone
  <2>1. /\ hpc = "body" /\ need = 0 /\ UNCHANGED <<log, wire, hdr, handled, stalled>>
        /\ IF Rlen < Announced.len THEN SkipOn(Announced.len - Rlen) ELSE hpc' = "apply"
    BY <1>2 DEF BodyDone
  <2>2. hpc' \in Inside
    BY <2>1 DEF SkipOn, Inside
  <2>3. ASSUME ~stalled PROVE Cursor(log, wire, handled + 1, Got') /\ LoopInv'
    <3>1. /\ Rlen \in Nat /\ Rlen <= Announced.len /\ Announced.len \in Nat
          /\ hdr[1].msg = handled + 1 /\ handled < Len(log)
      BY <2>1, <2>3, InProgress DEF Inside, FrameInv, LoopInv
    <3>2. Announced' = Announced /\ Rlen' = Rlen
      BY <2>1, SameMessage
    <3>3. Got = 2 + Rlen /\ Cursor(log, wire, handled + 1, Got)
      BY <2>1, <2>3, <3>1 DEF Got, FrameInv, Inside
    <3>4. CASE Rlen < Announced.len
      <4> DEFINE n == Announced.len - Rlen
      <4>1. /\ n \in Nat /\ n >= 1 /\ left' = n
            /\ \/ n > SkipBuf /\ hpc' = "chunk" /\ need' = SkipBuf
               \/ n <= SkipBuf /\ hpc' = "rest" /\ need' = n
        BY <2>1, <3>1, <3>4, Sizes DEF SkipOn
      <4>2. Got' = 2 + Rlen
        BY <3>1, <3>2, <4>1, Sizes DEF Got
      <4> QED BY <2>1, <3>1, <3>2, <3>3, <4>1, <4>2, Sizes DEF LoopInv, Inside
    <3>5. CASE ~(Rlen < Announced.len)
      <4>1. hpc' = "apply" /\ Rlen = Announced.len
        BY <2>1, <3>1, <3>5
      <4>2. Got' = 2 + Rlen
        BY <3>2, <4>1 DEF Got
      <4> QED BY <2>1, <3>1, <3>3, <4>1, <4>2 DEF LoopInv, Inside
    <3> QED BY <3>4, <3>5
  <2> QED BY <2>1, <2>2, <2>3 DEF FrameInv, Inside
<1> QED BY <1>1, <1>2

LEMMA SkipFrame ==
  ASSUME FrameInv, RecvChunk \/ ChunkDone \/ ChunkFails \/ RecvRest \/ RestDone
  PROVE  FrameInv'
<1>1. CASE RecvChunk
  <2>1. PICK k \in 1 .. SkipBuf : Recv(k)
    BY <1>1 DEF RecvChunk
  <2>2. hpc = "chunk" /\ UNCHANGED <<hpc, hdr, left, log, handled, stalled>>
    BY <1>1, <2>1 DEF RecvChunk, Recv
  <2>3. Stream(log, wire')
    BY <2>1, RecvStream
  <2>4. ASSUME ~stalled PROVE Cursor(log, wire', handled + 1, Got') /\ LoopInv'
    <3> DEFINE g == ((2 + Announced.len) - left) + (SkipBuf - need)
    <3>1. left \in SkipBuf + 1 .. Announced.len - Rlen /\ need \in 0 .. SkipBuf /\ Got = g
      BY <2>2, <2>4 DEF FrameInv, LoopInv, Got
    <3>2. /\ Rlen \in Nat /\ Announced.len \in Nat
          /\ Whole(log, handled + 1) = Announced.len + 2
      BY <2>2, <2>4, InProgress DEF Inside
    <3>3. k <= need /\ g + k <= Whole(log, handled + 1)
      <4>1. k <= need
        BY <2>1 DEF Recv
      <4> QED BY <3>1, <3>2, <4>1, Sizes
    <3> HIDE DEF g
    <3>4. need' = need - k /\ Cursor(log, wire', handled + 1, g + k)
      BY <2>1, <2>2, <2>4, <3>1, <3>3, RecvFrame
    <3>5. Rlen' = Rlen /\ Announced' = Announced
      BY <2>2, SameMessage
    <3>6. Got' = g + k
      BY <2>2, <3>1, <3>2, <3>4, <3>5, Sizes DEF Got, g
    <3>7. need' \in 0 .. SkipBuf
      BY <3>1, <3>3, <3>4, Sizes
    <3> QED BY <2>2, <2>4, <3>1, <3>4, <3>5, <3>6, <3>7 DEF FrameInv, LoopInv, Inside
  <2> QED BY <2>2, <2>3, <2>4 DEF FrameInv, Inside
<1>2. CASE ChunkDone
  <2>1. /\ hpc = "chunk" /\ need = 0 /\ UNCHANGED <<log, wire, hdr, handled, stalled>>
        /\ SkipOn(left - SkipBuf)
    BY <1>2 DEF ChunkDone
  <2>2. hpc' \in Inside
    BY <2>1 DEF SkipOn, Inside
  <2>3. ASSUME ~stalled PROVE Cursor(log, wire, handled + 1, Got') /\ LoopInv'
    <3>1. /\ Rlen \in Nat /\ Rlen <= Announced.len /\ Announced.len \in Nat
          /\ hdr[1].msg = handled + 1 /\ handled < Len(log)
      BY <2>1, <2>3, InProgress DEF Inside, FrameInv, LoopInv
    <3>2. Announced' = Announced /\ Rlen' = Rlen
      BY <2>1, SameMessage
    <3>3. /\ left \in SkipBuf + 1 .. Announced.len - Rlen
          /\ Got = ((2 + Announced.len) - left) + (SkipBuf - need)
          /\ Cursor(log, wire, handled + 1, Got)
      BY <2>1, <2>3 DEF Got, FrameInv, LoopInv, Inside
    <3>4. /\ left - SkipBuf >= 1 /\ left' = left - SkipBuf
          /\ \/ left' > SkipBuf /\ hpc' = "chunk" /\ need' = SkipBuf
             \/ left' <= SkipBuf /\ hpc' = "rest" /\ need' = left'
      BY <2>1, <3>1, <3>3, Sizes DEF SkipOn
    <3>5. Got' = Got
      <4>1. Got' = IF hpc' = "chunk" THEN ((2 + Announced.len) - left') + (SkipBuf - need')
                   ELSE (2 + Announced.len) - need'
        BY <3>2, <3>4 DEF Got
      <4> QED BY <2>1, <3>1, <3>3, <3>4, <4>1, Sizes
    <3> QED BY <2>1, <3>1, <3>2, <3>3, <3>4, <3>5, Sizes DEF LoopInv, Inside
  <2> QED BY <2>1, <2>2, <2>3 DEF FrameInv, Inside
<1>3. CASE ChunkFails
  BY <1>3 DEF ChunkFails, FrameInv, Inside
<1>4. CASE RecvRest
  <2>1. PICK k \in 1 .. left : Recv(k) /\ hpc' = IF (left - need) + k > SkipBuf THEN "lost" ELSE "rest"
    BY <1>4 DEF RecvRest
  <2>2. hpc = "rest" /\ UNCHANGED <<hdr, left, log, handled, stalled>>
    BY <1>4, <2>1 DEF RecvRest, Recv
  <2>3. Stream(log, wire')
    BY <2>1, RecvStream
  <2>4. ASSUME ~stalled
        PROVE  Cursor(log, wire', handled + 1, Got') /\ LoopInv' /\ hpc' = "rest"
    <3> DEFINE g == (2 + Announced.len) - need
    <3>1. left \in 1 .. SkipBuf /\ need \in 0 .. left /\ Got = g
      BY <2>2, <2>4 DEF FrameInv, LoopInv, Got
    <3>2. /\ Rlen \in Nat /\ Announced.len \in Nat
          /\ Whole(log, handled + 1) = Announced.len + 2
      BY <2>2, <2>4, InProgress DEF Inside
    <3>3. k <= need /\ g + k <= Whole(log, handled + 1)
      <4>1. k <= need
        BY <2>1 DEF Recv
      <4> QED BY <3>1, <3>2, <4>1, Sizes
    <3> HIDE DEF g
    <3>4. need' = need - k /\ Cursor(log, wire', handled + 1, g + k)
      BY <2>1, <2>2, <2>4, <3>1, <3>3, RecvFrame
    <3>5. hpc' = "rest" /\ need' \in 0 .. left
      BY <2>1, <3>1, <3>3, <3>4, Sizes
    <3>6. Rlen' = Rlen /\ Announced' = Announced
      BY <2>2, SameMessage
    <3>7. Got' = g + k
      BY <2>2, <3>1, <3>2, <3>4, <3>5, <3>6, Sizes DEF Got, g
    <3> QED BY <2>2, <2>4, <3>1, <3>4, <3>5, <3>7 DEF FrameInv, LoopInv, Inside
  <2> QED BY <2>1, <2>2, <2>3, <2>4 DEF FrameInv, Inside
<1>5. CASE RestDone
  <2>1. /\ hpc = "rest" /\ need = 0 /\ hpc' = "apply"
        /\ UNCHANGED <<log, wire, need, hdr, left, handled, stalled>>
    BY <1>5 DEF RestDone
  <2>2. ASSUME ~stalled PROVE Got' = Got
    <3>1. Announced' = Announced /\ Announced.len \in Nat
      BY <2>1, <2>2, SameMessage, InProgress DEF Inside
    <3> QED BY <2>1, <3>1 DEF Got
  <2> QED BY <2>1, <2>2 DEF FrameInv, LoopInv, Inside
<1> QED BY <1>1, <1>2, <1>3, <1>4, <1>5

LEMMA ApplyFrame == ASSUME FrameInv, Apply \/ RecvFails PROVE FrameInv'
<1>1. CASE Apply
  <2>1. /\ hpc = "apply" /\ hpc' = "head" /\ need' = 2 /\ hdr' = <<>>
        /\ handled' = handled + 1 /\ UNCHANGED <<log, wire, stalled>>
    BY <1>1 DEF Apply
  <2>2. ASSUME ~stalled
        PROVE  handled' \in 0 .. Len(log) /\ Cursor(log, wire, handled' + 1, Got') /\ LoopInv'
    <3>1. /\ handled \in Nat /\ handled + 1 \in 1 .. Len(log) /\ Len(log) \in Nat
          /\ Announced.len \in Nat /\ Whole(log, handled + 1) = Announced.len + 2
      BY <2>1, <2>2, InProgress DEF Inside
    <3>2. Stream(log, wire) /\ Cursor(log, wire, handled + 1, Whole(log, handled + 1))
      BY <2>1, <2>2, <3>1 DEF FrameInv, Got, Inside
    <3>3. Cursor(log, wire, (handled + 1) + 1, 0)
      BY <3>1, <3>2, NextMessage
    <3>4. Got' = 0
      BY <2>1 DEF Got
    <3>5. LoopInv'
      BY <2>1, EmptySeq DEF LoopInv, Inside
    <3> QED BY <2>1, <3>1, <3>3, <3>4, <3>5
  <2> QED BY <2>1, <2>2 DEF FrameInv, Inside
<1>2. CASE RecvFails
  BY <1>2 DEF RecvFails, FrameInv, LoopInv, Inside
<1> QED BY <1>1, <1>2

LEMMA FrameStep == FrameInv /\ [Next]_vars => FrameInv'
<1> SUFFICES ASSUME FrameInv, [Next]_vars PROVE FrameInv'
  OBVIOUS
<1>1. CASE UNCHANGED vars
  <2>1. UNCHANGED <<log, wire, hpc, need, hdr, left, handled, stalled>>
    BY <1>1 DEF vars, rxVars
  <2>2. Announced' = Announced /\ Rlen' = Rlen
    BY <2>1, SameMessage
  <2>3. Got' = Got
    BY <2>1, <2>2 DEF Got
  <2> QED BY <2>1, <2>2, <2>3 DEF FrameInv, LoopInv
<1>2. CASE Next
  BY <1>2, SendFrame, HeadFrame, BodyFrame, SkipFrame, ApplyFrame DEF Next, Handler
<1> QED BY <1>1, <1>2

\* However recv() cuts the stream into pieces and whatever is truncated and
\* skipped, the two words psc_recvhead takes for a header are the header of the
\* message after the one handled last, for messages of any length and buffers
\* of any size, until a receive fails inside psc_recvskip.
THEOREM FramingCorrect == Spec => []FramingKept
<1>1. FrameInv => FramingKept
  <2> SUFFICES ASSUME FrameInv, hpc = "head", need = 0, ~stalled, NEW j \in 1 .. 2
               PROVE  hdr[j] = [msg |-> handled + 1, at |-> j]
    BY DEF FramingKept
  <2>1. /\ Len(hdr) = 2 - need
        /\ \A i \in 1 .. Len(hdr) : hdr[i] = [msg |-> handled + 1, at |-> i]
    BY DEF FrameInv, LoopInv
  <2>2. j \in 1 .. Len(hdr)
    BY <2>1
  <2> QED BY <2>1, <2>2
<1> QED BY <1>1, FrameInit, FrameStep, PTL DEF Spec

\* psc_recvskip never receives past the end of its buffer of 128 bytes, unless
\* a receive fails in its loop.
THEOREM SkipCorrect == Spec => []SkipStaysInBuffer
<1>1. FrameInv => SkipStaysInBuffer
  BY DEF FrameInv, SkipStaysInBuffer
<1> QED BY <1>1, FrameInit, FrameStep, PTL DEF Spec

-----------------------------------------------------------------------------
(***************************************************************************)
(* What reaches the registers.                                             *)
(***************************************************************************)
\* The two words reg_settings reads, once they were received.
BufInv ==
  ~stalled /\ hpc \in Inside =>
    LET n == IF hpc = "body" THEN Rlen - need ELSE Rlen IN
      /\ n >= 1 => rxbuf[1] = log[handled + 1].addr
      /\ n >= 2 => rxbuf[2] = log[handled + 1].val

LEMMA BufInit == Init => BufInv
BY DEF Init, BufInv, Inside

LEMMA BufRecv == ASSUME FrameInv, BufInv, RecvBody PROVE BufInv'
<1>1. PICK k \in 1 .. RxMax :
        /\ Recv(k)
        /\ rxbuf' = [i \in 1 .. RxMax |->
                       IF i \in (Rlen - need) + 1 .. (Rlen - need) + k
                       THEN Content(wire[i - (Rlen - need)]) ELSE rxbuf[i]]
  BY DEF RecvBody
<1>2. hpc = "body" /\ UNCHANGED <<hpc, hdr, log, handled, stalled>>
  BY <1>1 DEF RecvBody, Recv
<1> SUFFICES ASSUME ~stalled
             PROVE  /\ Rlen' - need' >= 1 => rxbuf'[1] = log[handled + 1].addr
                    /\ Rlen' - need' >= 2 => rxbuf'[2] = log[handled + 1].val
  BY <1>2 DEF BufInv, Inside
<1> DEFINE got == Rlen - need
<1>3. need \in 0 .. Rlen /\ Got = (2 + Rlen) - need
  BY <1>2 DEF FrameInv, LoopInv, Got
<1>4. /\ Rlen \in Nat /\ Rlen <= Announced.len /\ Announced.len \in Nat
      /\ Whole(log, handled + 1) = Announced.len + 2
  BY <1>2, InProgress DEF Inside
<1>5. k <= need /\ ((2 + Rlen) - need) + k <= Whole(log, handled + 1)
  BY <1>1, <1>3, <1>4 DEF Recv
<1>6. /\ need' = need - k
      /\ \A j \in 1 .. k : wire[j] = [msg |-> handled + 1, at |-> ((2 + Rlen) - need) + j]
  BY <1>1, <1>2, <1>3, <1>5, RecvFrame
<1>7. Rlen' = Rlen
  BY <1>2, SameMessage
<1>8. got \in Nat /\ Rlen' - need' = got + k
  BY <1>3, <1>4, <1>6, <1>7
<1>9. 1 \in 1 .. RxMax /\ 2 \in 1 .. RxMax
  BY Sizes
<1>10. ASSUME NEW i \in 1 .. 2, i \in got + 1 .. got + k
       PROVE  rxbuf'[i] = Content([msg |-> handled + 1, at |-> 2 + i])
  <2>1. i - got \in 1 .. k /\ ((2 + Rlen) - need) + (i - got) = 2 + i
    BY <1>3, <1>4, <1>8, <1>10
  <2>2. wire[i - got] = [msg |-> handled + 1, at |-> 2 + i]
    BY <1>6, <2>1
  <2>3. i \in 1 .. RxMax
    BY <1>9
  <2> QED BY <1>1, <1>10, <2>2, <2>3
<1>11. ASSUME NEW i \in 1 .. 2, i <= got PROVE rxbuf'[i] = rxbuf[i]
  <2>1. i \in 1 .. RxMax /\ ~(i \in got + 1 .. got + k)
    BY <1>8, <1>9, <1>11
  <2> QED BY <1>1, <2>1
<1>12. /\ got >= 1 => rxbuf[1] = log[handled + 1].addr
       /\ got >= 2 => rxbuf[2] = log[handled + 1].val
  BY <1>2 DEF BufInv, Inside
<1>13. ASSUME got + k >= 1 PROVE rxbuf'[1] = log[handled + 1].addr
  <2>1. CASE got >= 1
    BY <1>8, <1>11, <1>12, <2>1
  <2>2. CASE ~(got >= 1)
    <3>1. 1 \in got + 1 .. got + k
      BY <1>8, <1>13, <2>2
    <3>2. rxbuf'[1] = Content([msg |-> handled + 1, at |-> 3])
      BY <1>10, <3>1
    <3> QED BY <3>2 DEF Content
  <2> QED BY <2>1, <2>2
<1>14. ASSUME got + k >= 2 PROVE rxbuf'[2] = log[handled + 1].val
  <2>1. CASE got >= 2
    BY <1>8, <1>11, <1>12, <2>1
  <2>2. CASE ~(got >= 2)
    <3>1. 2 \in got + 1 .. got + k
      BY <1>8, <1>14, <2>2
    <3>2. rxbuf'[2] = Content([msg |-> handled + 1, at |-> 4])
      BY <1>10, <3>1
    <3> QED BY <3>2 DEF Content
  <2> QED BY <2>1, <2>2
<1> QED BY <1>8, <1>13, <1>14

LEMMA BufStep == FrameInv /\ BufInv /\ [Next]_vars => BufInv'
<1> SUFFICES ASSUME FrameInv, BufInv, [Next]_vars PROVE BufInv'
  OBVIOUS
<1>1. CASE UNCHANGED vars
  BY <1>1, SameMessage DEF vars, rxVars, BufInv
<1>2. ASSUME NEW m \in Message, Send(m) PROVE BufInv'
  <2>1. /\ log' = Append(log, m)
        /\ UNCHANGED <<hpc, need, hdr, left, handled, stalled, rxbuf>>
    BY <1>2 DEF Send, rxVars
  <2> SUFFICES ASSUME ~stalled, hpc \in Inside PROVE BufInv'
    BY <2>1 DEF BufInv
  <2>2. handled + 1 \in 1 .. Len(log) /\ hdr[1].msg = handled + 1
    BY InProgress
  <2>3. log'[handled + 1] = log[handled + 1]
    BY <2>1, <2>2, AppendProperties DEF FrameInv, Stream
  <2>4. Announced' = Announced
    BY <2>1, <2>2, <2>3 DEF Announced
  <2>5. Rlen' = Rlen
    BY <2>4 DEF Rlen
  <2> QED BY <2>1, <2>3, <2>5 DEF BufInv
<1>3. CASE HeadDone
  <2>1. /\ hpc' \in {"body", "ended"} /\ UNCHANGED <<hdr, log, stalled>>
        /\ hpc' = "body" => need' = Rlen
    BY <1>3 DEF HeadDone
  <2>2. Rlen' = Rlen
    BY <2>1, SameMessage
  <2>3. ASSUME ~stalled, hpc' = "body" PROVE Rlen \in Nat
    <3>1. FrameInv' /\ ~stalled' /\ hpc' \in Inside
      BY <1>3, <2>1, <2>3, HeadFrame DEF Inside
    <3>2. Announced'.len \in Nat
      <4>1. /\ log' \in Seq(Message) /\ Len(log') \in Nat
            /\ handled' \in 0 .. Len(log') /\ handled' < Len(log')
            /\ hdr'[1].msg = handled' + 1
        BY <3>1, LenProperties DEF FrameInv, Stream, LoopInv
      <4> DEFINE n == handled' + 1
      <4>2. n \in 1 .. Len(log')
        <5>1. \A a, b \in Nat : a < b => a + 1 \in 1 .. b
          OBVIOUS
        <5>2. handled' \in Nat
          BY <4>1
        <5> QED BY <4>1, <5>1, <5>2
      <4> HIDE DEF n
      <4>3. log'[n].len \in Nat
        BY <4>1, <4>2, MessageType
      <4> QED BY <4>1, <4>3 DEF Announced, n
    <3> QED BY <2>2, <3>2, Sizes DEF Rlen
  <2> QED BY <2>1, <2>2, <2>3 DEF BufInv, Inside
<1>4. CASE BodyDone
  <2>1. /\ hpc = "body" /\ need = 0 /\ hpc' \in Inside /\ hpc' # "body"
        /\ UNCHANGED <<log, hdr, handled, stalled, rxbuf>>
    BY <1>4 DEF BodyDone, SkipOn, Inside
  <2>2. ~stalled => Rlen \in Nat
    BY <2>1, InProgress DEF Inside
  <2>3. Rlen' = Rlen
    BY <2>1, SameMessage
  <2> QED BY <2>1, <2>2, <2>3 DEF BufInv, Inside
<1>5. CASE \/ RecvHead \/ RecvChunk \/ ChunkDone \/ ChunkFails \/ RecvRest \/ RestDone
           \/ RecvFails \/ Apply
  <2>1. \/ stalled'
        \/ hpc' \notin Inside
        \/ /\ hpc' \in Inside \ {"body"} /\ hpc \in Inside \ {"body"}
           /\ UNCHANGED <<log, hdr, handled, stalled, rxbuf>>
    BY <1>5 DEF RecvHead, RecvChunk, ChunkDone, SkipOn, ChunkFails, RecvRest,
                RestDone, RecvFails, Apply, Recv, Inside
  <2>2. CASE stalled' \/ hpc' \notin Inside
    BY <2>2 DEF BufInv
  <2>3. CASE /\ hpc' \in Inside \ {"body"} /\ hpc \in Inside \ {"body"}
             /\ UNCHANGED <<log, hdr, handled, stalled, rxbuf>>
    BY <2>3, SameMessage DEF BufInv
  <2> QED BY <2>1, <2>2, <2>3
<1> QED BY <1>1, <1>2, <1>3, <1>4, <1>5, BufRecv DEF Next, Handler
-----------------------------------------------------------------------------
\* The settings for register r among the first h messages of l, the value of
\* the last message of s, and the soft triggers.
SettingsFor(l, h, r) ==
  {n \in 1 .. Len(l) : /\ n <= h /\ l[n].mid = 1 /\ l[n].addr = r
                       /\ r = EVENT_SRC_SEL_MSG => l[n].val \in {0, 1}}
LastOf(l, s) == IF s = {} THEN 0 ELSE l[CHOOSE n \in s : \A k \in s : k <= n].val
Triggers(l, h) ==
  {n \in 1 .. Len(l) : /\ n <= h /\ l[n].mid = 1
                       /\ l[n].addr = SOFT_TRIG_MSG /\ l[n].val = 1}
LongEnough(l, h) ==
  \A n \in 1 .. Len(l) : n <= h /\ l[n].mid = 1 => l[n].len >= 2
HasLast(s) == s # {} => \E n \in s : \A k \in s : k <= n

RegInv ==
  ~stalled =>
    /\ \A r \in Register : HasLast(SettingsFor(log, handled, r))
    /\ LongEnough(log, handled) =>
         /\ \A r \in Register : regs[r] = LastOf(log, SettingsFor(log, handled, r))
         /\ regs \in [Register -> Nat]
         /\ trigs = Cardinality(Triggers(log, handled))

LEMMA RegInvImplies == RegInv => RegistersAsCommanded
<1>1. \A r : {n \in 1 .. Len(log) : Accepted(n, r)} = SettingsFor(log, handled, r)
  BY DEF Accepted, Setting, SettingsFor
<1>2. \A r : Commanded(r) = LastOf(log, SettingsFor(log, handled, r))
  <2> TAKE r
  <2> DEFINE s == {n \in 1 .. Len(log) : Accepted(n, r)}
  <2>1. Commanded(r) = LastOf(log, s)
    BY DEF Commanded, LastOf
  <2>2. s = SettingsFor(log, handled, r)
    BY <1>1
  <2> QED BY <2>1, <2>2
<1>3. {n \in 1 .. Len(log) : Setting(n) /\ log[n].addr = SOFT_TRIG_MSG /\ log[n].val = 1}
        = Triggers(log, handled)
  BY DEF Setting, Triggers
<1>4. (\A n \in 1 .. Len(log) : Setting(n) => log[n].len >= 2) => LongEnough(log, handled)
  BY DEF Setting, LongEnough
<1> QED BY <1>2, <1>3, <1>4 DEF RegInv, RegistersAsCommanded

LEMMA RegInit == Init => RegInv
<1> SUFFICES ASSUME Init PROVE RegInv
  OBVIOUS
<1>1. log = <<>> /\ Len(<<>>) = 0
  BY EmptySeq DEF Init
<1>2. \A r : SettingsFor(log, handled, r) = {}
  BY <1>1 DEF SettingsFor
<1>3. Triggers(log, handled) = {}
  BY <1>1 DEF Triggers
<1> QED BY <1>2, <1>3, FS_EmptySet DEF Init, RegInv, LastOf, HasLast

\* A message that is only sent changes no setting yet.
LEMMA RegSend ==
  ASSUME FrameInv, RegInv, NEW m \in Message, Send(m) PROVE RegInv'
<1>1. log' = Append(log, m) /\ UNCHANGED <<handled, stalled, regs, trigs>>
  BY DEF Send
<1> SUFFICES ASSUME ~stalled PROVE RegInv'
  BY <1>1 DEF RegInv
<1>2. /\ log \in Seq(Message) /\ Len(log) \in Nat /\ handled \in 0 .. Len(log)
      /\ Len(log') = Len(log) + 1 /\ \A n \in 1 .. Len(log) : log'[n] = log[n]
  BY <1>1, LenProperties, AppendProperties DEF FrameInv, Stream
<1>3. \A n \in 1 .. Len(log') : n <= handled => n \in 1 .. Len(log)
  BY <1>2
<1>4. \A r : SettingsFor(log', handled, r) = SettingsFor(log, handled, r)
  BY <1>2, <1>3 DEF SettingsFor
<1>5. Triggers(log', handled) = Triggers(log, handled)
  BY <1>2, <1>3 DEF Triggers
<1>6. LongEnough(log', handled) => LongEnough(log, handled)
  BY <1>2, <1>3 DEF LongEnough
<1>7. ASSUME NEW r \in Register
      PROVE  LastOf(log', SettingsFor(log, handled, r)) = LastOf(log, SettingsFor(log, handled, r))
  <2> DEFINE s == SettingsFor(log, handled, r)
             c == CHOOSE n \in s : \A k \in s : k <= n
  <2>1. s \subseteq 1 .. Len(log)
    BY DEF SettingsFor
  <2>2. s # {} => c \in s
    BY DEF RegInv, HasLast
  <2> HIDE DEF s
  <2>3. s # {} => log'[c] = log[c]
    BY <1>2, <2>1, <2>2
  <2> QED BY <2>3 DEF LastOf, s
<1> QED BY <1>1, <1>4, <1>5, <1>6, <1>7 DEF RegInv

\* The message that is handled is the last setting of its register.
LEMMA LastAdded ==
  ASSUME NEW l, NEW s, NEW m \in Nat, \A k \in s : k \in Nat /\ k < m
  PROVE  LastOf(l, s \union {m}) = l[m].val /\ HasLast(s \union {m})
<1> DEFINE t == s \union {m}
<1>1. m \in t /\ \A k \in t : k <= m /\ k \in Nat
  OBVIOUS
<1>2. \A n \in t : (\A k \in t : k <= n) => n = m
  BY <1>1
<1> HIDE DEF t
<1>3. (CHOOSE n \in t : \A k \in t : k <= n) = m
  BY <1>1, <1>2
<1>4. t # {} /\ HasLast(t)
  BY <1>1 DEF HasLast
<1> QED BY <1>3, <1>4 DEF LastOf, t

\* client_msg and reg_settings, register by register.
LEMMA RegApply == ASSUME FrameInv, BufInv, RegInv, Apply PROVE RegInv'
<1>1. /\ hpc = "apply" /\ handled' = handled + 1 /\ UNCHANGED <<log, stalled>>
      /\ IF Announced.mid = 1 THEN reg_settings ELSE UNCHANGED <<regs, trigs>>
  BY DEF Apply
<1> SUFFICES ASSUME ~stalled PROVE RegInv'
  BY <1>1 DEF RegInv
<1> DEFINE m == handled + 1
<1>2. /\ handled \in Nat /\ m \in 1 .. Len(log) /\ Len(log) \in Nat
      /\ Announced = log[m] /\ log[m].len \in Nat
      /\ Rlen \in Nat
  BY <1>1, InProgress DEF Inside
<1>3. log[m].addr \in Address /\ log[m].val \in Nat
  BY <1>2, MessageType DEF FrameInv, Stream
<1>4. \A r : \A k \in SettingsFor(log, handled, r) : k \in Nat /\ k < m
  BY <1>2 DEF SettingsFor
<1>5. LongEnough(log, m) => LongEnough(log, handled)
  BY <1>2 DEF LongEnough
<1>6. ASSUME LongEnough(log, m), log[m].mid = 1
      PROVE  addr = log[m].addr /\ data = log[m].val
  <2>1. log[m].len >= 2
    BY <1>2, <1>6 DEF LongEnough
  <2>2. Rlen >= 2
    BY <1>2, <2>1, Sizes DEF Rlen
  <2> QED BY <1>1, <1>2, <2>2 DEF BufInv, Inside, addr, data
<1> DEFINE Ok(r) == /\ log[m].mid = 1 /\ log[m].addr = r
                    /\ r = EVENT_SRC_SEL_MSG => log[m].val \in {0, 1}
           Shot == log[m].mid = 1 /\ log[m].addr = SOFT_TRIG_MSG /\ log[m].val = 1
<1>7. \A n \in 1 .. Len(log) : n <= m <=> (n <= handled \/ n = m)
  BY <1>2
<1>8. \A r : SettingsFor(log, m, r) = IF Ok(r) THEN SettingsFor(log, handled, r) \union {m}
                                               ELSE SettingsFor(log, handled, r)
  BY <1>2, <1>7 DEF SettingsFor
<1>9. Triggers(log, m) = IF Shot THEN Triggers(log, handled) \union {m}
                                 ELSE Triggers(log, handled)
  BY <1>2, <1>7 DEF Triggers
<1>10. /\ IsFiniteSet(Triggers(log, handled)) /\ m \notin Triggers(log, handled)
       /\ Cardinality(Triggers(log, handled)) \in Nat
  <2>1. IsFiniteSet(1 .. Len(log))
    BY <1>2, FS_Interval
  <2>2. Triggers(log, handled) \in SUBSET (1 .. Len(log))
    BY DEF Triggers
  <2>3. IsFiniteSet(Triggers(log, handled))
    BY <2>1, <2>2, FS_Subset
  <2> QED BY <1>2, <2>3, FS_CardinalityType DEF Triggers
<1> HIDE DEF m
<1>11. ASSUME NEW r
       PROVE  /\ Ok(r) => LastOf(log, SettingsFor(log, m, r)) = log[m].val
              /\ Ok(r) => HasLast(SettingsFor(log, m, r))
  <2> DEFINE s == SettingsFor(log, handled, r)
  <2>1. m \in Nat /\ \A k \in s : k \in Nat /\ k < m
    BY <1>2, <1>4
  <2>2. Ok(r) => SettingsFor(log, m, r) = s \union {m}
    BY <1>8
  <2> HIDE DEF s, Ok
  <2>3. LastOf(log, s \union {m}) = log[m].val /\ HasLast(s \union {m})
    BY <2>1, LastAdded
  <2> QED BY <2>2, <2>3
<1>12. \A r \in Register : HasLast(SettingsFor(log, m, r))
  <2> HIDE DEF Ok
  <2> QED BY <1>8, <1>11 DEF RegInv
<1>13. ASSUME LongEnough(log, m)
       PROVE  /\ regs' \in [Register -> Nat]
              /\ \A r \in Register : regs'[r] = IF Ok(r) THEN log[m].val ELSE regs[r]
              /\ trigs' = IF Shot THEN trigs + 1 ELSE trigs
  <2>1. regs \in [Register -> Nat]
    BY <1>5, <1>13 DEF RegInv
  <2>2. CASE log[m].mid # 1
    BY <1>1, <1>2, <2>1, <2>2
  <2>3. CASE log[m].mid = 1
    <3>1. addr = log[m].addr /\ data = log[m].val /\ reg_settings
      BY <1>1, <1>2, <1>6, <1>13, <2>3 DEF m
    <3>2. /\ log[m].addr = EVENT_SRC_SEL_MSG =>
               regs' = IF log[m].val \in {0, 1}
                       THEN [regs EXCEPT ![EVENT_SRC_SEL_MSG] = log[m].val] ELSE regs
          /\ log[m].addr \in Register \ {EVENT_SRC_SEL_MSG} =>
               regs' = [regs EXCEPT ![log[m].addr] = log[m].val]
          /\ log[m].addr \notin Register => regs' = regs
          /\ trigs' = IF log[m].addr = SOFT_TRIG_MSG /\ log[m].val = 1
                      THEN trigs + 1 ELSE trigs
      BY <3>1 DEF reg_settings, set_trigsrc, Register
    <3>3. EVENT_SRC_SEL_MSG \in Register
      BY DEF Register
    <3> QED BY <1>3, <2>1, <2>3, <3>2, <3>3
  <2> QED BY <2>2, <2>3
<1>14. ASSUME LongEnough(log, m), NEW r \in Register
       PROVE  regs'[r] = LastOf(log, SettingsFor(log, m, r))
  <2>1. regs[r] = LastOf(log, SettingsFor(log, handled, r))
    BY <1>5, <1>14 DEF RegInv
  <2> QED BY <1>8, <1>11, <1>13, <1>14, <2>1
<1>15. ASSUME LongEnough(log, m) PROVE trigs' = Cardinality(Triggers(log, m))
  <2>1. trigs = Cardinality(Triggers(log, handled))
    BY <1>5, <1>15 DEF RegInv
  <2>2. Cardinality(Triggers(log, handled) \union {m}) = Cardinality(Triggers(log, handled)) + 1
    BY <1>10, FS_AddElement
  <2> QED BY <1>9, <1>13, <1>15, <2>1, <2>2
<1>16. handled' = m /\ log' = log
  BY <1>1 DEF m
<1> QED BY <1>12, <1>13, <1>14, <1>15, <1>16 DEF RegInv

LEMMA RegStep == FrameInv /\ BufInv /\ RegInv /\ [Next]_vars => RegInv'
<1> SUFFICES ASSUME FrameInv, BufInv, RegInv, [Next]_vars PROVE RegInv'
  OBVIOUS
<1>1. \/ /\ UNCHANGED <<log, handled, regs, trigs>>
         /\ stalled' = stalled \/ stalled' = TRUE
      \/ Apply
      \/ \E m \in Message : Send(m)
  BY DEF Next, Handler, RecvHead, HeadDone, RecvBody, BodyDone, RecvChunk, ChunkDone,
         ChunkFails, RecvRest, RestDone, RecvFails, Recv, vars
<1>2. CASE /\ UNCHANGED <<log, handled, regs, trigs>>
           /\ stalled' = stalled \/ stalled' = TRUE
  BY <1>2 DEF RegInv
<1> QED BY <1>1, <1>2, RegApply, RegSend

\* Whatever the client sends and however it arrives, each register holds the
\* value of the last setting for it and every soft trigger asked for was given
\* once, for any messages and buffer sizes.
THEOREM RegistersCorrect == Spec => []RegistersAsCommanded
<1>1. Spec => [](FrameInv /\ BufInv /\ RegInv)
  BY FrameInit, FrameStep, BufInit, BufStep, RegInit, RegStep, PTL DEF Spec
<1> QED BY <1>1, RegInvImplies, PTL
=============================================================================
