---------------------------- MODULE LoadTest_proofs ----------------------------
(***************************************************************************)
(* Proofs about the load test (LoadTest), for all lengths of a sequence,   *)
(* all ranges of identifiers that end with a sequence, all queues, options *)
(* and programs: what the sending programs store, and what can_verify      *)
(* makes of what it receives.                                              *)
(***************************************************************************)
EXTENDS LoadTest, TLAPS

-----------------------------------------------------------------------------
(* What the bus transports, ... *)
Messages == [n : Nat, id : Nat, len : Nat, num : Nat]

(* ... and what the receiver reads. *)
Received == Messages \cup {OverrunError}

SendType ==
  /\ prog \in Programs /\ opt \in Options
  /\ start \in Nat /\ left \in Nat /\ ret \in Nat \cup {-1} /\ round \in Nat /\ base \in Nat
  /\ tx \in [run : BOOLEAN, rate : Nat] /\ txq \in Seq(Messages)
  /\ sent \in Nat
  /\ spc = "call" => ret \in Nat

ReadType ==
  /\ fifo \in Seq(Messages) /\ rxq \in Seq(Received) /\ buf \in Seq(Received)
  /\ id \in Nat /\ errs \in Nat /\ last \in Nat \cup {-1} /\ gaps \in Nat /\ marks \in Nat
  /\ wrong \in BOOLEAN /\ lost \in BOOLEAN /\ overrun \in BOOLEAN

(* The tests that write the rest again. *)
Tests == {"t10"} \cup Retries

(* What write() has stored and the test does not yet know of. *)
Stored == IF spc \in {"call", "back"} /\ ret > 0 THEN ret ELSE 0

(* The test knows what was stored. *)
Progress ==
  prog \in Tests =>
    /\ start + left = Count /\ (prog \in Retries => start = 0)
    /\ spc \in {"call", "back"} => ret <= left
    /\ sent = round * Count + start + Stored
    /\ spc = "open" => round = 0
    /\ spc = "wait" => start = 0 /\ round = opt.count /\ ret # -1
    /\ spc = "exit" => ret = -1
    /\ spc = "closed" /\ round > 0 /\ ret # -1 => start = 0 /\ round = opt.count
    /\ spc \notin {"spin", "reset"}

(* Where the next sequence of test 10 starts. *)
Based ==
  prog = "t10" =>
    /\ base \in 0 .. Limit
    /\ spc \in {"open", "stop", "config", "start", "write", "call", "back"} =>
         base = (round * SeqN) % (Limit + 1)

(* Of test 10, every queue holds what it should hold, and overrun errors.  *)
AllIdeal(q) == \A i \in 1 .. Len(q) : q[i] = Ideal(q[i].n) \/ q[i] = OverrunError

Streams == prog = "t10" => AllIdeal(txq) /\ AllIdeal(fifo) /\ AllIdeal(rxq) /\ AllIdeal(buf)

(* The messages after message k. *)
From(q, k) == \A i \in 1 .. Len(q) : q[i].n = k + i

(* Until a message is lost, the queues hold all there is between the       *)
(* message handled last and the one to be stored next.                     *)
Contiguous ==
  prog = "t10" /\ reader = "verify" /\ ~lost =>
    /\ ~overrun
    /\ From(buf, last) /\ From(rxq, last + Len(buf))
    /\ From(fifo, last + Len(buf) + Len(rxq))
    /\ From(txq, last + Len(buf) + Len(rxq) + Len(fifo))
    /\ spc # "closed" =>
         sent = last + Len(buf) + Len(rxq) + Len(fifo) + Len(txq) + 1

(* What the verifier expects follows the last message it has handled, or   *)
(* the overrun error it took for one.                                      *)
Counting ==
  \/ id = (last + 1) % (Limit + 1) /\ gaps <= errs /\ errs <= gaps + 2 * marks
  \/ id = 0 /\ gaps + 1 <= errs /\ errs <= gaps + 2 * marks - 1

Expecting ==
  prog = "t10" /\ reader = "verify" =>
    /\ Counting
    /\ ~lost => errs = 0 /\ ~wrong /\ iseq = (last + 1) % SeqN /\ seq = (last + 1) \div SeqN

(* can_verify reads only when there is something to read. *)
Reading ==
  /\ rpc # "ended"
  /\ rpc \notin {"read", "handle"} => buf = <<>>
  /\ rpc = "read" /\ reader = "verify" => buf # <<>> \/ rxq # <<>>

IInv == /\ SendType /\ ReadType /\ Progress
        /\ Based /\ Streams /\ Contiguous /\ Expecting /\ Reading
-----------------------------------------------------------------------------
(* Division *)

(* What TLA+ says of quotient and remainder. *)
LEMMA DivMod ==
  ASSUME NEW n \in Nat \ {0}, NEW a \in Int
  PROVE  a = n * (a \div n) + (a % n) /\ a % n \in 0 .. n - 1 /\ a \div n \in Int
BY Z3

(* A larger factor makes no smaller product. *)
LEMMA MonotonicProduct ==
  ASSUME NEW n \in Nat, NEW p \in Int, NEW q \in Int, p <= q
  PROVE  n * p <= n * q
<1>1. q - p \in Nat /\ n * q = n * p + n * (q - p)
  BY Z3
<1>2. n * (q - p) >= 0 /\ n * p \in Int
  BY <1>1, Z3
<1> QED BY <1>1, <1>2, Z3

(* Quotient and remainder are the only ones. *)
LEMMA DivModUnique ==
  ASSUME NEW n \in Nat \ {0}, NEW q \in Int, NEW r \in 0 .. n - 1, NEW a \in Int, a = n * q + r
  PROVE  a % n = r /\ a \div n = q
<1> DEFINE d == a \div n
           m == a % n
<1>1. d \in Int /\ m \in 0 .. n - 1 /\ a = n * d + m /\ n * d \in Int /\ n * q \in Int
  BY DivMod, Z3
<1> HIDE DEF d, m
<1>2. CASE d < q
  <2>1. n * (d + 1) <= n * q /\ n * (d + 1) = n * d + n
    BY <1>1, <1>2, MonotonicProduct, Z3
  <2> QED BY <1>1, <2>1
<1>3. CASE q < d
  <2>1. n * (q + 1) <= n * d /\ n * (q + 1) = n * q + n
    BY <1>1, <1>3, MonotonicProduct, Z3
  <2> QED BY <1>1, <2>1
<1>4. CASE d = q
  BY <1>1, <1>4 DEF d, m
<1> QED BY <1>1, <1>2, <1>3, <1>4

(* Two numbers have the same remainder iff their difference has none. *)
LEMMA SameRemainder ==
  ASSUME NEW n \in Nat \ {0}, NEW a \in Int, NEW b \in Int
  PROVE  a % n = b % n <=> (a - b) % n = 0
<1> DEFINE p == a \div n
           q == b \div n
           d == (a - b) \div n
<1>1. /\ p \in Int /\ q \in Int /\ d \in Int /\ a % n \in 0 .. n - 1 /\ b % n \in 0 .. n - 1
      /\ a = n * p + (a % n) /\ b = n * q + (b % n) /\ a - b = n * d + ((a - b) % n)
      /\ n * p \in Int /\ n * q \in Int /\ n * d \in Int
  BY DivMod, Z3
<1> HIDE DEF p, q, d
<1>2. ASSUME a % n = b % n PROVE (a - b) % n = 0
  <2> DEFINE e == p - q
             c == a - b
  <2>1. n * e = n * p - n * q
    BY <1>1, Z3
  <2>2. e \in Int /\ c \in Int /\ 0 \in 0 .. n - 1 /\ c = n * e + 0
    BY <1>1, <1>2, <2>1
  <2> HIDE DEF e, c
  <2>3. c % n = 0
    BY <2>2, DivModUnique
  <2> QED BY <2>3 DEF c
<1>3. ASSUME (a - b) % n = 0 PROVE a % n = b % n
  <2> DEFINE e == q + d
             r == b % n
  <2>1. n * e = n * q + n * d
    BY <1>1, Z3
  <2>2. e \in Int /\ r \in 0 .. n - 1 /\ a = n * e + r
    BY <1>1, <1>3, <2>1
  <2> HIDE DEF e, r
  <2>3. a % n = r
    BY <2>2, DivModUnique
  <2> QED BY <2>3 DEF r
<1> QED BY <1>2, <1>3

(* The remainder of the next number is the next remainder, or 0. *)
LEMMA NextRemainder ==
  ASSUME NEW n \in Nat \ {0}, NEW a \in Int
  PROVE  /\ (a + 1) % n = IF (a % n) + 1 = n THEN 0 ELSE (a % n) + 1
         /\ (a + 1) \div n = IF (a % n) + 1 = n THEN (a \div n) + 1 ELSE a \div n
<1> DEFINE q == a \div n
           r == a % n
<1>1. q \in Int /\ r \in 0 .. n - 1 /\ a = n * q + r /\ n * q \in Int
  BY DivMod, Z3
<1> HIDE DEF q, r
<1>2. CASE r + 1 = n
  <2> DEFINE e == q + 1
             c == a + 1
  <2>1. n * e = n * q + n
    BY <1>1, Z3
  <2>2. e \in Int /\ c \in Int /\ 0 \in 0 .. n - 1 /\ c = n * e + 0
    BY <1>1, <1>2, <2>1
  <2> HIDE DEF e, c
  <2>3. c % n = 0 /\ c \div n = e
    BY <2>2, DivModUnique
  <2> QED BY <1>2, <2>3 DEF c, e, q, r
<1>3. CASE r + 1 # n
  <2>1. a + 1 = n * q + (r + 1) /\ r + 1 \in 0 .. n - 1 /\ a + 1 \in Int
    BY <1>1, <1>3
  <2>2. (a + 1) % n = r + 1 /\ (a + 1) \div n = q
    BY <1>1, <2>1, DivModUnique, Zenon
  <2> QED BY <1>3, <2>2 DEF q, r
<1> QED BY <1>2, <1>3

(* The base of a sequence is a multiple of its length below the largest    *)
(* identifier, which ends with a sequence.                                 *)
LEMMA BaseIsMultiple ==
  ASSUME NEW k \in Nat
  PROVE  /\ (k * SeqN) % (Limit + 1) \in 0 .. Limit + 1 - SeqN
         /\ k * SeqN \in Nat
<1> DEFINE b == (k * SeqN) % (Limit + 1)
           w == (k * SeqN) \div (Limit + 1)
           m == (Limit + 1) \div SeqN
           j == k - m * w
<1>1. SeqN \in Nat \ {0} /\ Limit + 1 \in Nat \ {0} /\ k * SeqN \in Nat /\ k * SeqN \in Int
  BY SendAssumption, Z3
<1>2. k * SeqN = (Limit + 1) * w + b /\ b \in 0 .. (Limit + 1) - 1 /\ w \in Int
  BY <1>1, DivMod, Zenon
<1>3. Limit + 1 = SeqN * m /\ m \in Int
  BY <1>1, SendAssumption, DivMod
<1>4. j \in Int /\ b = SeqN * j
  <2> HIDE DEF b, w, m
  <2>1. (Limit + 1) * w = SeqN * (m * w) /\ m * w \in Int
    BY <1>1, <1>2, <1>3, Z3
  <2>2. SeqN * (k - m * w) = k * SeqN - SeqN * (m * w) /\ SeqN * (m * w) \in Int
    BY <1>1, <2>1, Z3
  <2> QED BY <1>1, <1>2, <2>1, <2>2
<1> HIDE DEF b, j, m, w
<1>5. j < m
  <2> SUFFICES ASSUME m <= j PROVE FALSE
    BY <1>3, <1>4
  <2>1. SeqN * m <= SeqN * j
    BY <1>1, <1>3, <1>4, MonotonicProduct
  <2> QED BY <1>2, <1>3, <1>4, <2>1, SendAssumption
<1>6. SeqN * (j + 1) <= SeqN * m /\ SeqN * (j + 1) = SeqN * j + SeqN
  BY <1>1, <1>3, <1>4, <1>5, MonotonicProduct, Z3
<1> QED BY <1>1, <1>2, <1>3, <1>4, <1>6, SendAssumption DEF b

(* The messages of a sequence, and the base of the next one. *)
LEMMA SequenceIsIdeal ==
  ASSUME NEW k \in Nat, NEW i \in 0 .. SeqN - 1
  PROVE  Ideal(k * SeqN + i)
           = [n |-> k * SeqN + i, id |-> ((k * SeqN) % (Limit + 1)) + i, len |-> i, num |-> k]
<1> DEFINE b == (k * SeqN) % (Limit + 1)
           w == (k * SeqN) \div (Limit + 1)
           a == k * SeqN + i
<1>1. SeqN \in Nat \ {0} /\ Limit + 1 \in Nat \ {0} /\ k * SeqN \in Int /\ a \in Int
  BY SendAssumption, BaseIsMultiple
<1>2. k * SeqN = (Limit + 1) * w + b /\ b \in 0 .. Limit + 1 - SeqN /\ w \in Int /\ (Limit + 1) * w \in Int
  <2>1. k * SeqN = (Limit + 1) * w + b /\ w \in Int
    BY <1>1, DivMod, Zenon
  <2>2. (Limit + 1) * w \in Int
    BY <1>1, <2>1, Z3
  <2> QED BY <2>1, <2>2, BaseIsMultiple
<1>3. a % SeqN = i /\ a \div SeqN = k
  <2>1. a = SeqN * k + i /\ k \in Int
    BY <1>1, Z3
  <2> HIDE DEF a
  <2> QED BY <1>1, <2>1, DivModUnique
<1>4. a % (Limit + 1) = b + i
  <2> HIDE DEF b, w
  <2>1. a = (Limit + 1) * w + (b + i) /\ b + i \in 0 .. (Limit + 1) - 1
    BY <1>1, <1>2, SendAssumption
  <2> QED BY <1>1, <1>2, <2>1, DivModUnique
<1> QED BY <1>3, <1>4 DEF Ideal

(* update_seq leads from the base of one sequence to that of the next. *)
LEMMA NextBaseFollows ==
  ASSUME NEW k \in Nat, base = (k * SeqN) % (Limit + 1)
  PROVE  NextBase = ((k + 1) * SeqN) % (Limit + 1) /\ NextBase \in 0 .. Limit
<1> DEFINE w == (k * SeqN) \div (Limit + 1)
<1>1. SeqN \in Nat \ {0} /\ Limit + 1 \in Nat \ {0} /\ k * SeqN \in Int /\ Limit \in Nat
  BY SendAssumption, BaseIsMultiple
<1>2. /\ k * SeqN = (Limit + 1) * w + base /\ base \in 0 .. Limit + 1 - SeqN
      /\ w \in Int /\ (Limit + 1) * w \in Int
  <2>1. k * SeqN = (Limit + 1) * w + base /\ w \in Int
    BY <1>1, DivMod, Zenon
  <2>2. (Limit + 1) * w \in Int
    BY <1>1, <2>1, Z3
  <2> QED BY <2>1, <2>2, BaseIsMultiple
<1>3. (k + 1) * SeqN = k * SeqN + SeqN /\ (k + 1) * SeqN \in Int
  BY <1>1, Z3
<1> HIDE DEF w
<1>4. CASE base > Limit - SeqN
  <2>1. base = Limit + 1 - SeqN
    BY <1>1, <1>2, <1>4
  <2>2. (Limit + 1) * (w + 1) = (Limit + 1) * w + (Limit + 1)
    BY <1>1, <1>2, Z3
  <2> DEFINE a == (k + 1) * SeqN
             e == w + 1
             n == Limit + 1
  <2>3. a = n * e + 0 /\ 0 \in 0 .. n - 1 /\ e \in Int /\ a \in Int /\ n \in Nat \ {0}
    BY <1>1, <1>2, <1>3, <2>1, <2>2
  <2> HIDE DEF a, e, n
  <2>4. a % n = 0
    BY <2>3, DivModUnique
  <2> QED BY <1>1, <1>4, <2>4 DEF NextBase, a, n
<1>5. CASE ~(base > Limit - SeqN)
  <2> DEFINE a == (k + 1) * SeqN
             r == base + SeqN
             n == Limit + 1
  <2>1. a = n * w + r /\ r \in 0 .. n - 1 /\ w \in Int /\ a \in Int /\ n \in Nat \ {0}
    BY <1>1, <1>2, <1>3, <1>5
  <2> HIDE DEF a, r, n
  <2>2. a % n = r
    BY <2>1, DivModUnique
  <2> QED BY <1>1, <1>2, <1>5, <2>1, <2>2 DEF NextBase, a, r, n
<1> QED BY <1>4, <1>5
-----------------------------------------------------------------------------
(* Types *)

(* The options are numbers. *)
LEMMA OptionType ==
  ASSUME opt \in Options
  PROVE  opt.count \in Nat /\ opt.rate \in Nat
BY SendAssumption DEF Options

(* Every program passes at least one message to write(). *)
LEMMA CountType ==
  Count \in Nat \ {0} /\ (prog = "t10" => Count = SeqN) /\ (prog \in Retries => Count = 1)
BY SendAssumption DEF Count, Retries

(* What write() stores is a message. *)
LEMMA MsgType ==
  ASSUME SendType, NEW i \in Nat
  PROVE  Msg(i) \in Messages
BY DEF SendType, Msg, Messages

(* The head and the tail of a queue, ... *)
LEMMA TailOfQueue ==
  ASSUME NEW S, NEW q \in Seq(S), q # <<>>
  PROVE  /\ Head(q) \in S /\ Tail(q) \in Seq(S)
         /\ Len(Tail(q)) = Len(q) - 1 /\ Len(q) \in Nat \ {0}
         /\ AllIdeal(q) => (Head(q) = Ideal(Head(q).n) \/ Head(q) = OverrunError) /\ AllIdeal(Tail(q))
         /\ \A k \in Int : From(q, k) => Head(q).n = k + 1 /\ From(Tail(q), k + 1)
<1>1. Len(q) \in Nat \ {0} /\ Head(q) = q[1] /\ q[1] \in S
  OBVIOUS
<1>2. Tail(q) \in Seq(S) /\ Len(Tail(q)) = Len(q) - 1
  BY <1>1
<1>3. \A i \in 1 .. Len(Tail(q)) : Tail(q)[i] = q[i + 1] /\ i + 1 \in 1 .. Len(q)
  BY <1>1, <1>2
<1>4. ASSUME AllIdeal(q) PROVE AllIdeal(Tail(q))
  BY <1>1, <1>3, <1>4, Zenon DEF AllIdeal
<1>5. 1 \in 1 .. Len(q)
  BY <1>1
<1>6. ASSUME AllIdeal(q) PROVE Head(q) = Ideal(Head(q).n) \/ Head(q) = OverrunError
  BY <1>1, <1>5, <1>6, Zenon DEF AllIdeal
<1>7. ASSUME NEW k \in Int, From(q, k) PROVE Head(q).n = k + 1 /\ From(Tail(q), k + 1)
  <2>1. \A i \in 1 .. Len(q) : q[i].n = k + i
    BY <1>7 DEF From
  <2>2. Head(q).n = k + 1
    BY <1>1, <1>5, <2>1
  <2>3. ASSUME NEW i \in 1 .. Len(Tail(q)) PROVE Tail(q)[i].n = (k + 1) + i
    <3>1. Tail(q)[i].n = k + (i + 1)
      BY <1>3, <2>1
    <3>2. k + (i + 1) = (k + 1) + i
      OBVIOUS
    <3> QED BY <3>1, <3>2
  <2> QED BY <2>2, <2>3 DEF From
<1> QED BY <1>1, <1>2, <1>4, <1>6, <1>7

(* ... and a queue with one message more. *)
LEMMA AppendToQueue ==
  ASSUME NEW S, NEW q \in Seq(S), NEW m \in S
  PROVE  /\ Append(q, m) \in Seq(S) /\ Append(q, m) # <<>>
         /\ Len(Append(q, m)) = Len(q) + 1 /\ Len(q) \in Nat
         /\ AllIdeal(q) /\ (m = Ideal(m.n) \/ m = OverrunError) => AllIdeal(Append(q, m))
         /\ \A k \in Int : From(q, k) /\ m.n = k + Len(q) + 1 => From(Append(q, m), k)
<1>1. Append(q, m) \in Seq(S) /\ Len(Append(q, m)) = Len(q) + 1 /\ Len(q) \in Nat
  OBVIOUS
<1> Append(q, m) # <<>>
  BY <1>1
<1>2. \A i \in 1 .. Len(Append(q, m)) :
        \/ i \in 1 .. Len(q) /\ Append(q, m)[i] = q[i]
        \/ i = Len(q) + 1 /\ Append(q, m)[i] = m
  BY <1>1
<1>3. ASSUME AllIdeal(q), m = Ideal(m.n) \/ m = OverrunError PROVE AllIdeal(Append(q, m))
  BY <1>2, <1>3, Zenon DEF AllIdeal
<1>4. ASSUME NEW k \in Int, From(q, k), m.n = k + Len(q) + 1 PROVE From(Append(q, m), k)
  <2>1. k + Len(q) + 1 = k + (Len(q) + 1)
    BY <1>1
  <2> QED BY <1>2, <1>4, <2>1, Zenon DEF From
<1> QED BY <1>1, <1>3, <1>4

(* The head of one queue moves to the end of the queue before it. *)
LEMMA MovesOn ==
  ASSUME NEW S, NEW T, NEW p \in Seq(S), NEW q \in Seq(T), q # <<>>, Head(q) \in S,
         NEW k \in Int, From(p, k), From(q, k + Len(p))
  PROVE  /\ Len(p) \in Nat /\ Len(q) \in Nat
         /\ Len(Append(p, Head(q))) = Len(p) + 1 /\ Len(Tail(q)) = Len(q) - 1
         /\ From(Append(p, Head(q)), k) /\ From(Tail(q), k + (Len(p) + 1))
<1>1. Len(p) \in Nat /\ Len(q) \in Nat /\ Len(Tail(q)) = Len(q) - 1
  BY TailOfQueue
<1>2. k + Len(p) \in Int /\ k + Len(p) + 1 = k + (Len(p) + 1)
  BY <1>1
<1>3. Head(q).n = k + Len(p) + 1 /\ From(Tail(q), k + Len(p) + 1)
  BY <1>2, TailOfQueue
<1>4. From(Append(p, Head(q)), k) /\ Len(Append(p, Head(q))) = Len(p) + 1
  BY <1>3, AppendToQueue
<1> QED BY <1>1, <1>2, <1>3, <1>4

(* The messages of test 10 can be told from errors of the driver. *)
LEMMA ErrorsAreOther ==
  /\ OverrunError \in Received /\ OverrunError.n = -1 /\ OverrunError.id = -1
  /\ \A m \in Received : m \in Messages <=> m # OverrunError
  /\ \A m \in Messages : m \in Received
BY DEF Received, Messages, OverrunError

(* Both programs start with variables of their types. *)
LEMMA InitialTypes == Init => SendType /\ ReadType
<1> SUFFICES ASSUME Init PROVE SendType /\ ReadType
  OBVIOUS
<1>1. Count \in Nat
  BY CountType
<1>2. SendType
  BY <1>1, SendAssumption DEF Init, SendInit, SendType
<1>3. ReadType
  <2>1. <<>> \in Seq(Messages) /\ <<>> \in Seq(Received)
    OBVIOUS
  <2>2. /\ fifo = <<>> /\ rxq = <<>> /\ buf = <<>>
        /\ id = 0 /\ errs = 0 /\ last = -1 /\ gaps = 0 /\ marks = 0
        /\ wrong = FALSE /\ lost = FALSE /\ overrun = FALSE
    BY DEF Init, ReadInit
  <2> QED BY <2>1, <2>2 DEF ReadType
<1> QED BY <1>2, <1>3

(* The sender keeps the types of its variables, ... *)
LEMMA SendTypeStep ==
  ASSUME SendType, SenderStep
  PROVE  SendType'
<1> USE DEF SendType
<1>1. CASE Open
  BY <1>1 DEF Open, Ready
<1>2. CASE ResetOnly
  BY <1>2 DEF ResetOnly
<1>3. CASE SetBitrate
  <2>1. opt.rate \in Nat /\ Ready # "call"
    BY OptionType DEF Ready
  <2> QED BY <1>3, <2>1 DEF SetBitrate, BitrateSet, BitrateNext
<1>4. CASE Write
  BY <1>4 DEF Write
<1>5. CASE WriteStores
  <2>1. Msg(start + ret) \in Messages
    <3>1. start + ret \in Nat
      BY <1>5 DEF WriteStores
    <3> QED BY <3>1, MsgType
  <2>2. txq' \in Seq(Messages)
    BY <1>5, <2>1, AppendToQueue DEF WriteStores
  <2>3. sent' \in Nat /\ ret' \in Nat
    BY <1>5 DEF WriteStores
  <2> QED BY <1>5, <2>2, <2>3 DEF WriteStores
<1>6. CASE WriteReturns
  BY <1>6 DEF WriteReturns
<1>7. CASE WriteFails
  BY <1>7 DEF WriteFails
<1>8. CASE SendIoctl
  BY <1>8 DEF SendIoctl
<1>9. CASE SequencePart
  BY <1>9 DEF SequencePart, Back, Keep
<1>10. CASE SequenceDone
  BY <1>10, SendAssumption DEF SequenceDone, Back, Keep, NextBase
<1>11. CASE SequenceError
  BY <1>11 DEF SequenceError, Back, Keep
<1>12. CASE RetryAgain
  BY <1>12 DEF RetryAgain, Back, Keep
<1>13. CASE RetryDone
  <2>1. base % 2000 \in Nat /\ (base + 1) % 2000 \in Nat /\ (base % 2000) + 1 \in Nat
    OBVIOUS
  <2>2. base' \in Nat
    BY <1>13, <2>1 DEF RetryDone
  <2> QED BY <1>13, <2>2 DEF RetryDone, Back, Keep
<1>14. CASE Test1 \/ Test2 \/ Test3
  <2>1. PICK p \in Programs : Burst(p)
    BY <1>14 DEF Test1, Test2, Test3, Burst, Back
  <2>2. round' \in Nat /\ spc' # "call"
    BY <2>1 DEF Burst
  <2> QED BY <2>1, <2>2 DEF Burst, Keep
<1>15. CASE SingleDone
  BY <1>15 DEF SingleDone, Back, Keep
<1>16. CASE LoadDone
  BY <1>16 DEF LoadDone, Back, Keep
<1>17. CASE TransmitDone \/ Transmit2Done \/ NoiserDone \/ BindingDone
  BY <1>17 DEF TransmitDone, Transmit2Done, NoiserDone, BindingDone, Example, Back, Keep
<1>18. CASE Close
  <2>1. Len(txq) \in Nat /\ <<>> \in Seq(Messages)
    OBVIOUS
  <2> QED BY <1>18, <2>1 DEF Close
<1> QED BY SenderStep, <1>1, <1>2, <1>3, <1>4, <1>5, <1>6, <1>7, <1>8, <1>9, <1>10, <1>11,
           <1>12, <1>13, <1>14, <1>15, <1>16, <1>17, <1>18, Zenon DEF SenderStep, Sender

(* ... and so does the receiver. *)
LEMMA ReadTypeStep ==
  ASSUME ReadType, ReceiverStep
  PROVE  ReadType'
<1> USE DEF ReadType
<1> UNCHANGED busVars
  BY DEF ReceiverStep
<1>1. CASE ReadOpen
  BY <1>1 DEF ReadOpen, checkVars, busVars
<1>2. CASE ReadSetBitrate
  BY <1>2 DEF ReadSetBitrate, checkVars, busVars
<1>3. CASE Select \/ BindingSelect \/ Poll
  BY <1>3 DEF Select, BindingSelect, Poll, ToRead, checkVars, busVars
<1>4. CASE ReadTakes
  <2>1. Head(rxq) \in Received /\ Tail(rxq) \in Seq(Received)
    BY <1>4, TailOfQueue DEF ReadTakes
  <2>2. Append(buf, Head(rxq)) \in Seq(Received)
    BY <2>1, AppendToQueue
  <2> QED BY <1>4, <2>1, <2>2 DEF ReadTakes, checkVars, busVars
<1>5. CASE ReadReturns \/ HandleDone
  <2>1. <<>> \in Seq(Received)
    OBVIOUS
  <2> QED BY <1>5, <2>1 DEF ReadReturns, HandleDone, checkVars, busVars
<1>6. CASE Handle
  <2>1. Head(buf) \in Received /\ Tail(buf) \in Seq(Received)
    BY <1>6, TailOfQueue DEF Handle
  <2>2. id' \in Nat /\ errs' \in Nat /\ last' \in Nat \cup {-1} /\ gaps' \in Nat /\ marks' \in Nat
    <3> DEFINE m == Head(buf)
    <3> HIDE DEF m
    <3>1. m.id \in Nat \cup {-1} /\ (m # OverrunError => m.n \in Nat)
      BY <2>1, ErrorsAreOther DEF Messages, m
    <3>2. CASE reader = "verify"
      <4>1. VerifyMessage(m)
        BY <1>6, <3>2 DEF Handle, m
      <4>2. id' \in Nat
        BY <3>1, <4>1, SendAssumption DEF VerifyMessage, ExpectNext
      <4>3. errs' \in Nat
        BY <4>1 DEF VerifyMessage
      <4>4. last' \in Nat \cup {-1} /\ gaps' \in Nat /\ marks' \in Nat
        BY <3>1, <4>1 DEF VerifyMessage
      <4> QED BY <4>2, <4>3, <4>4
    <3>3. CASE reader # "verify"
      BY <1>6, <3>3 DEF Handle, checkVars
    <3> QED BY <3>2, <3>3
  <2>3. wrong' \in BOOLEAN
    BY <1>6, Zenon DEF Handle, VerifyMessage, CheckSequence, checkVars
  <2> QED BY <1>6, <2>1, <2>2, <2>3 DEF Handle, busVars
<1> QED BY ReceiverStep, <1>1, <1>2, <1>3, <1>4, <1>5, <1>6, Zenon DEF ReceiverStep, Receiver

(* A message keeps its type on the bus ... *)
LEMMA TransmitStep ==
  ASSUME SendType, ReadType, Transmit
  PROVE  SendType' /\ ReadType'
<1>1. Head(txq) \in Messages /\ Tail(txq) \in Seq(Messages)
  BY TailOfQueue DEF Transmit, SendType
<1>2. Append(fifo, Head(txq)) \in Seq(Messages)
  BY <1>1, AppendToQueue DEF ReadType
<1>3. fifo' \in Seq(Messages)
  BY <1>2 DEF Transmit, Arrive, ReadType
<1>4. lost' \in BOOLEAN /\ overrun' \in BOOLEAN
  BY Zenon DEF Transmit, Arrive, ReadType
<1>5. SendType'
  BY <1>1 DEF Transmit, SendType
<1>6. ReadType'
  BY <1>3, <1>4 DEF Transmit, ReadType, rVars
<1> QED BY <1>5, <1>6

(* ... and in the handler. *)
LEMMA HandlerStep ==
  ASSUME SendType, ReadType, Handler
  PROVE  SendType' /\ ReadType'
<1>1. SendType'
  BY DEF Handler, Store, Report, sVars, SendType
<1>2. CASE Store
  <2>1. Head(fifo) \in Received /\ Tail(fifo) \in Seq(Messages)
    BY <1>2, TailOfQueue, ErrorsAreOther DEF Store, ReadType
  <2>2. Append(rxq, Head(fifo)) \in Seq(Received)
    BY <2>1, AppendToQueue DEF ReadType
  <2> QED BY <1>1, <1>2, <2>1, <2>2 DEF Store, ReadType, checkVars
<1>3. CASE Report
  <2>1. Append(rxq, OverrunError) \in Seq(Received)
    BY AppendToQueue, ErrorsAreOther DEF ReadType
  <2>2. rxq' \in Seq(Received)
    BY <1>3, <2>1 DEF Report, ReadType
  <2> QED BY <1>1, <1>3, <2>2 DEF Report, ReadType, checkVars
<1> QED BY <1>2, <1>3 DEF Handler

(* Every step keeps the types. *)
LEMMA TypeStep ==
  ASSUME SendType, ReadType, [Next]_vars
  PROVE  SendType' /\ ReadType'
<1>1. CASE SenderStep
  BY <1>1, SendTypeStep DEF SenderStep, rVars, busVars, ReadType
<1>2. CASE ReceiverStep
  BY <1>2, ReadTypeStep DEF ReceiverStep, sVars, SendType
<1>3. CASE Transmit
  BY <1>3, TransmitStep
<1>4. CASE Handler
  BY <1>4, HandlerStep
<1>5. CASE UNCHANGED vars
  BY <1>5 DEF vars, sVars, rVars, busVars, SendType, ReadType
<1> QED BY <1>1, <1>2, <1>3, <1>4, <1>5 DEF Next

(* The steps of the others leave the sender's own variables alone. *)
LEMMA OthersLeaveSender ==
  ASSUME ReceiverStep \/ Transmit \/ Handler \/ UNCHANGED vars
  PROVE  UNCHANGED <<prog, opt, spc, start, left, ret, round, base, tx, sent, errors>>
BY DEF ReceiverStep, Transmit, Handler, Store, Report, vars, sVars

(* What every step of the sender leaves alone, and which step changes the  *)
(* queue.                                                                  *)
LEMMA SenderLeaves ==
  ASSUME SenderStep
  PROVE  /\ UNCHANGED <<prog, opt>> /\ UNCHANGED <<rVars, busVars>>
         /\ spc # "closed" /\ (spc = "open" => Started)
         /\ WriteStores \/ Close \/ txq' = txq
         /\ WriteStores \/ sent' = sent
<1> DEFINE Leaves == /\ UNCHANGED <<prog, opt>> /\ spc # "closed"
                     /\ WriteStores \/ Close \/ txq' = txq
                     /\ WriteStores \/ sent' = sent
<1>1. ASSUME Open \/ ResetOnly \/ SetBitrate \/ SendIoctl PROVE Leaves
  BY <1>1 DEF Open, ResetOnly, SetBitrate, SendIoctl
<1>2. ASSUME Write \/ WriteStores \/ WriteReturns \/ WriteFails PROVE Leaves
  BY <1>2 DEF Write, WriteStores, WriteReturns, WriteFails
<1>3. ASSUME SequencePart \/ SequenceDone \/ SequenceError \/ RetryAgain \/ RetryDone PROVE Leaves
  BY <1>3 DEF SequencePart, SequenceDone, SequenceError, RetryAgain, RetryDone, Back, Keep
<1>4. ASSUME Test1 \/ Test2 \/ Test3 \/ SingleDone \/ LoadDone PROVE Leaves
  BY <1>4 DEF Test1, Test2, Test3, Burst, SingleDone, LoadDone, Back, Keep
<1>5. ASSUME TransmitDone \/ Transmit2Done \/ NoiserDone \/ BindingDone PROVE Leaves
  BY <1>5 DEF TransmitDone, Transmit2Done, NoiserDone, BindingDone, Example, Back, Keep
<1>6. ASSUME Close PROVE Leaves
  BY <1>6 DEF Close
<1>7. Leaves
  BY <1>1, <1>2, <1>3, <1>4, <1>5, <1>6, Zenon DEF SenderStep, Sender
<1>8. UNCHANGED <<rVars, busVars>> /\ (spc = "open" => Started)
  <2>1. UNCHANGED <<rVars, busVars>> /\ ((Open /\ Started) \/ Sender)
    BY DEF SenderStep
  <2>2. ASSUME spc = "open", Sender PROVE FALSE
    BY <2>2 DEF Sender, ResetOnly, SetBitrate, Write, WriteStores, WriteReturns, WriteFails, SendIoctl,
       SequencePart, SequenceDone, SequenceError, RetryAgain, RetryDone, Test1, Test2, Test3, Burst, SingleDone,
       LoadDone, TransmitDone, Transmit2Done, NoiserDone, BindingDone, Example, Close, Back
  <2> QED BY <2>1, <2>2
<1> QED BY <1>7, <1>8

-----------------------------------------------------------------------------
(* The sender *)

(* A program that retries takes no step of another program, ... *)
OfAnother == \/ ResetOnly \/ SendIoctl \/ Test1 \/ Test2 \/ Test3 \/ SingleDone \/ LoadDone
             \/ TransmitDone \/ Transmit2Done \/ NoiserDone \/ BindingDone

(* ... as their guards say. *)
LEMMA StepsOfTests ==
  ASSUME Progress, prog \in Tests, OfAnother
  PROVE  FALSE
<1>1. prog # "transmit3" /\ spc # "reset"
  BY DEF Progress, Tests, Retries
<1> QED BY <1>1 DEF OfAnother, ResetOnly, SendIoctl, Test1, Test2, Test3, Burst, SingleDone, LoadDone,
         TransmitDone, Transmit2Done, NoiserDone, BindingDone, Example, Back, Tests, Retries, Single

(* Nothing has been sent when the programs start. *)
LEMMA InitialSender == Init => Progress /\ Based
<1> SUFFICES ASSUME Init PROVE Progress /\ Based
  OBVIOUS
<1>1. Progress
  <2>1. Count \in Nat /\ spc = "open" /\ start = 0 /\ left = Count /\ ret = 0 /\ round = 0 /\ sent = 0
    BY CountType DEF Init, SendInit
  <2> QED BY <2>1 DEF Progress, Stored
<1>4. ASSUME prog = "t10" PROVE base \in 0 .. Limit /\ base = (round * SeqN) % (Limit + 1)
  <2>1. base = 0 /\ round * SeqN = 0 /\ Limit + 1 \in Nat \ {0} /\ Limit \in Nat
    BY <1>4, SendAssumption DEF Init, SendInit
  <2>2. 0 % (Limit + 1) = 0
    <3> DEFINE n == Limit + 1
    <3>1. 0 = n * 0 + 0 /\ 0 \in 0 .. n - 1 /\ n \in Nat \ {0}
      BY <2>1
    <3> HIDE DEF n
    <3>2. 0 % n = 0
      BY <3>1, DivModUnique
    <3> QED BY <3>2 DEF n
  <2> QED BY <2>1, <2>2
<1>5. Based
  BY <1>4 DEF Based
<1> QED BY <1>1, <1>5

(* What the tests know of their progress. *)
LEMMA ProgressStep ==
  ASSUME SendType, Progress, [Next]_vars
  PROVE  Progress'
<1> SUFFICES ASSUME prog' \in Tests PROVE Progress'
  BY DEF Progress
<1>1. CASE ReceiverStep \/ Transmit \/ Handler \/ UNCHANGED vars
  BY <1>1, OthersLeaveSender DEF Progress, Stored, Count
<1>2. CASE SenderStep
  <2>1. prog' = prog /\ opt' = opt
    BY <1>2, SenderLeaves
  <2>2. /\ Count' = Count /\ Count \in Nat \ {0} /\ prog \in Tests /\ opt.count \in Nat
        /\ prog = "t10" => Count = SeqN
        /\ prog \in Retries => Count = 1
    BY <2>1, CountType, OptionType DEF Count, SendType
  <2>3. round * Count \in Nat
    BY <2>2, Z3 DEF SendType
  <2>4. /\ start + left = Count /\ (prog \in Retries => start = 0)
        /\ spc \in {"call", "back"} => ret <= left
        /\ sent = round * Count + start + Stored
        /\ spc = "open" => round = 0
        /\ spc = "wait" => start = 0 /\ round = opt.count /\ ret # -1
        /\ spc = "exit" => ret = -1
        /\ spc = "closed" /\ round > 0 /\ ret # -1 => start = 0 /\ round = opt.count
        /\ spc \notin {"spin", "reset"}
    BY <2>2 DEF Progress
  <2> SUFFICES
        /\ start' + left' = Count /\ (prog \in Retries => start' = 0)
        /\ spc' \in {"call", "back"} => ret' <= left'
        /\ sent' = round' * Count + start' + Stored'
        /\ spc' = "open" => round' = 0
        /\ spc' = "wait" => start' = 0 /\ round' = opt.count /\ ret' # -1
        /\ spc' = "exit" => ret' = -1
        /\ spc' = "closed" /\ round' > 0 /\ ret' # -1 => start' = 0 /\ round' = opt.count
        /\ spc' \notin {"spin", "reset"}
    BY <2>1, <2>2 DEF Progress
  <2> HIDE DEF Count
  <2>5. CASE Open
    BY <2>5, <2>1, <2>2, <2>3, <2>4 DEF SendType, Stored, Open, Ready, Tests, Retries
  <2>6. CASE SetBitrate
    BY <2>6, <2>1, <2>2, <2>3, <2>4 DEF SendType, Stored, SetBitrate, BitrateNext, Ready, Tests, Retries
  <2>7. CASE Write
    BY <2>7, <2>1, <2>2, <2>3, <2>4 DEF SendType, Stored, Write
  <2>8. CASE WriteStores
    <3>1. prog \notin Bursts
      BY <2>2 DEF Tests, Retries, Bursts
    <3> QED BY <2>8, <3>1, <2>1, <2>2, <2>3, <2>4 DEF SendType, Stored, WriteStores
  <2>9. CASE WriteReturns
    BY <2>9, <2>1, <2>2, <2>3, <2>4 DEF SendType, Stored, WriteReturns
  <2>10. CASE WriteFails
    BY <2>10, <2>1, <2>2, <2>3, <2>4 DEF SendType, Stored, WriteFails
  <2>11. CASE SequencePart
    <3>1. /\ prog = "t10" /\ ret \in Nat /\ ret' = ret /\ sent' = sent /\ round' = round
          /\ left' = left - ret /\ start' = start + ret /\ spc' = "write"
      BY <2>11 DEF SequencePart, Back, Keep, SendType
    <3>2. Stored' = 0 /\ Stored = ret
      BY <2>11, <3>1 DEF SequencePart, Back, Stored
    <3>3. sent' = round' * Count + start' + Stored' /\ start' + left' = Count
      <4>1. start' + left' = Count
        BY <2>2, <2>4, <3>1 DEF SendType
      <4>2. sent' = round * Count + (start + ret)
        BY <2>2, <2>3, <2>4, <3>1, <3>2 DEF SendType
      <4> QED BY <4>1, <4>2, <2>2, <2>3, <3>1, <3>2 DEF SendType
    <3> QED BY <3>1, <3>3 DEF Retries
  <2>12. CASE SequenceDone
    <3>1. /\ prog = "t10" /\ ret = left /\ ret \in Nat /\ ret' = ret /\ sent' = sent
          /\ round' = round + 1 /\ left' = Count /\ start' = 0
          /\ spc' = "write" \/ (spc' = "wait" /\ round' = opt.count)
      BY <2>2, <2>12 DEF SequenceDone, Enough, Back, Keep, SendType
    <3>2. Stored' = 0 /\ Stored = ret
      BY <2>12, <3>1 DEF SequenceDone, Back, Stored
    <3>3. round' * Count = round * Count + Count
      BY <2>2, <3>1, Z3 DEF SendType
    <3>4. sent' = round' * Count + start' + Stored'
      <4>1. sent = round * Count + Count
        BY <2>2, <2>3, <2>4, <3>1, <3>2 DEF SendType
      <4>2. sent' = round' * Count /\ round' * Count \in Nat
        BY <2>2, <2>3, <3>1, <3>3, <4>1
      <4> DEFINE p == round' * Count
      <4> HIDE DEF p
      <4>3. sent' = p /\ p \in Nat
        BY <4>2 DEF p
      <4>4. sent' = p + start' + Stored'
        BY <4>3, <3>1, <3>2
      <4> QED BY <4>4 DEF p
    <3> QED BY <2>2, <3>1, <3>4 DEF Retries
  <2>13. CASE SequenceError
    BY <2>13, <2>1, <2>2, <2>3, <2>4 DEF SendType, Stored, SequenceError, Back, Keep
  <2>14. CASE RetryAgain
    BY <2>14, <2>1, <2>2, <2>3, <2>4 DEF SendType, Stored, RetryAgain, Back, Keep
  <2>15. CASE RetryDone
    <3>1. (round + 1) * Count = round * Count + Count
      BY <2>2, Z3 DEF SendType
    <3>2. sent = round * Count + Count
      BY <2>15, <2>1, <2>2, <2>3, <2>4 DEF SendType, Stored, RetryDone, Back
    <3> QED BY <2>15, <3>1, <3>2, <2>1, <2>2, <2>3, <2>4 DEF SendType, Stored, RetryDone, Enough, Back, Keep
  <2>16. CASE Close
    BY <2>16, <2>1, <2>2, <2>3, <2>4 DEF SendType, Stored, Close
  <2>17. CASE OfAnother
    BY <2>2, <2>17, StepsOfTests
  <2> QED BY <1>2, <2>5, <2>6, <2>7, <2>8, <2>9, <2>10, <2>11, <2>12, <2>13, <2>14, <2>15,
             <2>16, <2>17, Zenon DEF SenderStep, Sender, OfAnother
<1> QED BY <1>1, <1>2 DEF Next

(* Each sequence of test 10 starts where the last one ended. *)
LEMMA BasedStep ==
  ASSUME SendType, Based, [Next]_vars
  PROVE  Based'
<1> SUFFICES ASSUME prog' = "t10"
             PROVE  /\ base' \in 0 .. Limit
                    /\ spc' \in {"open", "stop", "config", "start", "write", "call", "back"} =>
                         base' = (round' * SeqN) % (Limit + 1)
  BY DEF Based
<1>1. CASE ReceiverStep \/ Transmit \/ Handler \/ UNCHANGED vars
  BY <1>1, OthersLeaveSender DEF Based
<1>2. CASE SenderStep
  <2>1. CASE SequenceDone
    <3>1. base \in 0 .. Limit /\ base = (round * SeqN) % (Limit + 1)
      BY <2>1 DEF SequenceDone, Back, Based
    <3>2. NextBase = ((round + 1) * SeqN) % (Limit + 1) /\ NextBase \in 0 .. Limit
      BY <3>1, NextBaseFollows DEF SendType
    <3>3. round' = round + 1 /\ ((spc' = "wait" /\ base' = base) \/ base' = NextBase)
      BY <2>1 DEF SequenceDone
    <3> QED BY <3>1, <3>2, <3>3
  <2>2. CASE Open \/ SetBitrate \/ Write \/ WriteStores \/ WriteReturns \/ WriteFails \/ Close
    BY <2>2 DEF Open, SetBitrate, Write, WriteStores, WriteReturns, WriteFails, Close, Based
  <2>3. CASE SequencePart \/ SequenceError \/ ResetOnly \/ SendIoctl
    BY <2>3 DEF SequencePart, SequenceError, ResetOnly, SendIoctl, Back, Keep, Based
  <2>4. CASE RetryAgain \/ RetryDone \/ Test1 \/ Test2 \/ Test3 \/ SingleDone \/ LoadDone
    BY <2>4 DEF RetryAgain, RetryDone, Test1, Test2, Test3, Burst, SingleDone, LoadDone, Back, Keep,
         Retries, Single
  <2>5. CASE TransmitDone \/ Transmit2Done \/ NoiserDone \/ BindingDone
    BY <2>5 DEF TransmitDone, Transmit2Done, NoiserDone, BindingDone, Example, Back, Keep
  <2> QED BY <1>2, <2>1, <2>2, <2>3, <2>4, <2>5, Zenon DEF SenderStep, Sender
<1> QED BY <1>1, <1>2 DEF Next

-----------------------------------------------------------------------------
(* The stream *)

(* What write() stores of test 10 is the next message of the stream. *)
LEMMA StoresIdeal ==
  ASSUME SendType, Progress, Based, WriteStores, prog = "t10"
  PROVE  Msg(start + ret) \in Messages /\ Msg(start + ret) = Ideal(Msg(start + ret).n)
<1>1. /\ Count = SeqN /\ spc = "call" /\ ret \in Nat /\ start \in Nat /\ left \in Nat
      /\ round \in Nat /\ ret < left
  BY CountType DEF WriteStores, SendType
<1>2. start + left = SeqN /\ sent = round * Count + start + Stored
  BY <1>1 DEF Progress, Tests
<1>3. start + ret \in 0 .. SeqN - 1 /\ start + ret \in Nat
  BY <1>1, <1>2, SendAssumption
<1>4. sent = round * SeqN + (start + ret)
  <2>1. Stored = ret
    BY <1>1 DEF Stored
  <2>2. round * SeqN \in Nat
    BY <1>1, BaseIsMultiple
  <2> QED BY <1>1, <1>2, <2>1, <2>2
<1>5. base = (round * SeqN) % (Limit + 1)
  BY <1>1 DEF Based
<1>6. Ideal(sent) = [n |-> sent, id |-> base + (start + ret), len |-> start + ret, num |-> round]
  BY <1>1, <1>3, <1>4, <1>5, SequenceIsIdeal
<1>7. Msg(start + ret) = Ideal(sent) /\ Msg(start + ret).n = sent
  BY <1>6 DEF Msg
<1> QED BY <1>3, <1>7, MsgType

(* The stream stays as it was stored, in the transmit queue, on the bus,   *)
(* in the controller, in the receive queue and in the buffer of the        *)
(* program.                                                                *)
LEMMA StreamsStep ==
  ASSUME SendType, ReadType, Progress, Based, Streams, [Next]_vars
  PROVE  Streams'
<1> SUFFICES ASSUME prog' = "t10"
             PROVE  AllIdeal(txq') /\ AllIdeal(fifo') /\ AllIdeal(rxq') /\ AllIdeal(buf')
  BY DEF Streams, AllIdeal
<1> AllIdeal(<<>>)
  BY DEF AllIdeal
<1>1. CASE UNCHANGED vars
  BY <1>1, Zenon DEF vars, sVars, rVars, busVars, Streams
<1>2. CASE Transmit
  <2>1. AllIdeal(txq) /\ AllIdeal(fifo) /\ AllIdeal(rxq) /\ AllIdeal(buf) /\ buf' = buf /\ rxq' = rxq
    BY <1>2 DEF Transmit, Streams, rVars
  <2>2. /\ Head(txq) \in Messages /\ AllIdeal(Tail(txq))
        /\ Head(txq) = Ideal(Head(txq).n) \/ Head(txq) = OverrunError
    BY <1>2, <2>1, TailOfQueue DEF Transmit, SendType
  <2>3. AllIdeal(Append(fifo, Head(txq)))
    BY <2>1, <2>2, AppendToQueue DEF ReadType
  <2> QED BY <1>2, <2>1, <2>2, <2>3, Zenon DEF Transmit, Arrive
<1>3. CASE ReceiverStep
  <2>1. AllIdeal(txq) /\ AllIdeal(fifo) /\ AllIdeal(rxq) /\ AllIdeal(buf) /\ txq' = txq /\ fifo' = fifo
    BY <1>3 DEF ReceiverStep, sVars, busVars, Streams
  <2>2. CASE ReadTakes
    <3>1. /\ Head(rxq) \in Received /\ AllIdeal(Tail(rxq))
          /\ Head(rxq) = Ideal(Head(rxq).n) \/ Head(rxq) = OverrunError
      BY <2>1, <2>2, TailOfQueue DEF ReadTakes, ReadType
    <3>2. AllIdeal(Append(buf, Head(rxq)))
      BY <2>1, <3>1, AppendToQueue DEF ReadType
    <3> QED BY <2>1, <2>2, <3>1, <3>2, Zenon DEF ReadTakes
  <2>3. CASE Handle
    <3>1. AllIdeal(Tail(buf))
      BY <2>1, <2>3, TailOfQueue DEF Handle, ReadType
    <3> QED BY <2>1, <2>3, <3>1, Zenon DEF Handle
  <2>4. CASE ReadOpen \/ ReadSetBitrate \/ Select \/ BindingSelect \/ Poll \/ ReadReturns \/ HandleDone
    <3>1. rxq' = rxq /\ buf' = buf
      BY <2>4 DEF ReadOpen, ReadSetBitrate, Select, BindingSelect, Poll, ToRead, ReadReturns, HandleDone
    <3> QED BY <2>1, <3>1, Zenon
  <2> QED BY <1>3, <2>2, <2>3, <2>4, Zenon DEF ReceiverStep, Receiver
<1>4. CASE SenderStep
  <2>1. prog = "t10" /\ fifo' = fifo /\ rxq' = rxq /\ buf' = buf
    BY <1>4, SenderLeaves DEF rVars, busVars
  <2>2. AllIdeal(txq) /\ AllIdeal(fifo) /\ AllIdeal(rxq) /\ AllIdeal(buf)
    BY <2>1 DEF Streams
  <2>3. CASE WriteStores
    <3>1. Msg(start + ret) \in Messages /\ Msg(start + ret) = Ideal(Msg(start + ret).n)
      BY <2>1, <2>3, StoresIdeal
    <3> DEFINE m == Msg(start + ret)
    <3> HIDE DEF m
    <3>2. AllIdeal(Append(txq, m))
      BY <2>2, <3>1, AppendToQueue DEF SendType, m
    <3>3. txq' = Append(txq, m)
      BY <2>3 DEF WriteStores, m
    <3> QED BY <2>1, <2>2, <3>2, <3>3, Zenon
  <2>4. CASE Close
    BY <2>1, <2>2, <2>4, Zenon DEF Close
  <2>5. CASE ~WriteStores /\ ~Close
    <3>1. txq' = txq
      BY <1>4, <2>5, SenderLeaves
    <3> QED BY <2>1, <2>2, <3>1, Zenon
  <2> QED BY <2>3, <2>4, <2>5
<1>5. CASE Handler
  <2>1. AllIdeal(txq) /\ AllIdeal(fifo) /\ AllIdeal(rxq) /\ AllIdeal(buf) /\ txq' = txq /\ buf' = buf
    BY <1>5 DEF Handler, Store, Report, sVars, Streams
  <2>2. CASE Store
    <3>1. /\ Head(fifo) \in Received /\ AllIdeal(Tail(fifo))
          /\ Head(fifo) = Ideal(Head(fifo).n) \/ Head(fifo) = OverrunError
      BY <2>1, <2>2, TailOfQueue, ErrorsAreOther DEF Store, ReadType
    <3>2. AllIdeal(Append(rxq, Head(fifo)))
      BY <2>1, <3>1, AppendToQueue DEF ReadType
    <3> QED BY <2>1, <2>2, <3>1, <3>2, Zenon DEF Store
  <2>3. CASE Report
    <3>1. AllIdeal(Append(rxq, OverrunError))
      BY <2>1, AppendToQueue, ErrorsAreOther DEF ReadType
    <3> QED BY <2>1, <2>3, <3>1, Zenon DEF Report
  <2> QED BY <1>5, <2>2, <2>3 DEF Handler
<1> QED BY <1>1, <1>2, <1>3, <1>4, <1>5 DEF Next

(* Until a message is lost, none is missing between the message handled    *)
(* last and the one to be stored next.                                     *)
LEMMA ContiguousStep ==
  ASSUME SendType, ReadType, Contiguous, [Next]_vars
  PROVE  Contiguous'
<1> DEFINE b == Len(buf)
           r == Len(rxq)
           f == Len(fifo)
           t == Len(txq)
<1> SUFFICES ASSUME prog' = "t10", reader' = "verify", ~lost'
             PROVE  Contiguous'
  BY DEF Contiguous
<1>t. b \in Nat /\ r \in Nat /\ f \in Nat /\ t \in Nat /\ last \in Int
  BY DEF SendType, ReadType
<1>l. /\ prog = "t10" /\ reader = "verify" /\ ~lost
      /\ ~overrun
      /\ From(buf, last) /\ From(rxq, last + b) /\ From(fifo, last + b + r)
      /\ From(txq, last + b + r + f)
      /\ spc # "closed" => sent = last + b + r + f + t + 1
  <2>1. prog = "t10" /\ reader = "verify" /\ ~lost
    <3>1. CASE SenderStep
      BY <3>1, SenderLeaves DEF rVars, busVars
    <3>2. CASE ReceiverStep
      BY <3>2 DEF ReceiverStep, sVars, busVars, Receiver, ReadOpen, ReadSetBitrate, Select, BindingSelect, Poll,
           ToRead, ReadTakes, ReadReturns, Handle, HandleDone
    <3>3. CASE Transmit
      <4>1. UNCHANGED <<prog, reader>>
        BY <3>3 DEF Transmit, rVars
      <4>2. lost' = lost \/ lost' = TRUE
        BY <3>3, Zenon DEF Transmit, Arrive
      <4> QED BY <4>1, <4>2
    <3>5. CASE UNCHANGED vars
      BY <3>5 DEF vars, sVars, rVars, busVars
    <3>4. CASE Handler
      BY <3>4 DEF Handler, Store, Report, sVars
    <3> QED BY <3>1, <3>2, <3>3, <3>4, <3>5 DEF Next
  <2> QED BY <2>1 DEF Contiguous
<1> HIDE DEF b, r, f, t
<1>1. ASSUME UNCHANGED <<last, overrun>>, UNCHANGED <<buf, rxq, fifo, txq>>,
             spc' # "closed" => spc # "closed" /\ sent' = sent
      PROVE  Contiguous'
  BY <1>l, <1>1 DEF Contiguous, From, b, r, f, t
<1>2. CASE UNCHANGED vars
  BY <1>1, <1>2 DEF vars, sVars, rVars, busVars
<1>3. CASE SenderStep
  <2>1. UNCHANGED <<last, overrun, buf, rxq, fifo>> /\ spc # "closed"
    BY <1>3, SenderLeaves DEF rVars, busVars
  <2>2. CASE WriteStores
    <3> DEFINE m == Msg(start + ret)
    <3>1. m \in Messages /\ m.n = sent /\ txq' = Append(txq, m) /\ sent' = sent + 1
      <4>1. start + ret \in Nat /\ prog \notin Bursts
        BY <1>l, <2>2 DEF WriteStores, SendType, Bursts
      <4> QED BY <1>l, <2>2, <4>1, MsgType DEF WriteStores, Msg
    <3> HIDE DEF m
    <3>2. last + b + r + f \in Int /\ m.n = (last + b + r + f) + t + 1
      BY <1>t, <1>l, <2>1, <3>1
    <3>3. From(txq', last + b + r + f) /\ Len(txq') = t + 1
      BY <1>l, <3>1, <3>2, AppendToQueue DEF SendType, t
    <3>4. sent' = last + b + r + f + (t + 1) + 1
      BY <1>t, <1>l, <2>1, <3>1
    <3> QED BY <1>l, <2>1, <3>3, <3>4 DEF Contiguous, From, b, r, f, t
  <2>3. CASE Close
    <3>1. txq' = <<>> /\ spc' = "closed"
      BY <2>3 DEF Close
    <3>2. \A k : From(<<>>, k)
      BY DEF From
    <3> QED BY <1>l, <2>1, <3>1, <3>2 DEF Contiguous, From, b, r, f, t
  <2>4. CASE ~WriteStores /\ ~Close
    BY <1>1, <1>3, <2>1, <2>4, SenderLeaves
  <2> QED BY <2>2, <2>3, <2>4
<1>4. CASE Transmit
  <2>1. /\ txq # <<>> /\ txq' = Tail(txq) /\ fifo' = Append(fifo, Head(txq))
        /\ UNCHANGED <<last, overrun, buf, rxq, spc, sent>>
    BY <1>4 DEF Transmit, Arrive, rVars
  <2>2. Head(txq) \in Messages /\ last + b + r \in Int
    BY <1>t, <2>1, TailOfQueue DEF SendType
  <2>3. /\ From(fifo', last + b + r) /\ From(txq', last + b + r + (f + 1))
        /\ Len(fifo') = f + 1 /\ Len(txq') = t - 1
    BY <1>l, <2>1, <2>2, MovesOn DEF SendType, ReadType, f, t
  <2>4. spc # "closed" => sent = last + b + r + (f + 1) + (t - 1) + 1
    BY <1>t, <1>l
  <2> QED BY <1>l, <2>1, <2>3, <2>4 DEF Contiguous, From, b, r
<1>5. CASE Handler
  <2>1. /\ fifo # <<>> /\ fifo' = Tail(fifo) /\ rxq' = Append(rxq, Head(fifo))
        /\ UNCHANGED <<last, overrun, buf, txq, spc, sent>>
    BY <1>l, <1>5 DEF Handler, Store, Report, sVars, checkVars
  <2>2. Head(fifo) \in Received /\ last + b \in Int
    BY <1>t, <2>1, TailOfQueue, ErrorsAreOther DEF ReadType
  <2>3. /\ From(rxq', last + b) /\ From(fifo', last + b + (r + 1))
        /\ Len(rxq') = r + 1 /\ Len(fifo') = f - 1
    BY <1>l, <2>1, <2>2, MovesOn DEF ReadType, r, f
  <2>4. /\ last + b + (r + 1) + (f - 1) = last + b + r + f
        /\ spc # "closed" => sent = last + b + (r + 1) + (f - 1) + t + 1
    BY <1>t, <1>l
  <2> QED BY <1>l, <2>1, <2>3, <2>4 DEF Contiguous, From, b, t
<1>6. CASE ReceiverStep
  <2>1. UNCHANGED <<overrun, fifo, txq, spc, sent>>
    BY <1>6 DEF ReceiverStep, sVars, busVars
  <2>2. CASE ReadTakes
    <3>1. /\ rxq # <<>> /\ rxq' = Tail(rxq) /\ buf' = Append(buf, Head(rxq)) /\ last' = last
      BY <2>2 DEF ReadTakes, checkVars
    <3>2. Head(rxq) \in Received
      BY <3>1, TailOfQueue DEF ReadType
    <3>3. /\ From(buf', last) /\ From(rxq', last + (b + 1))
          /\ Len(buf') = b + 1 /\ Len(rxq') = r - 1
      BY <1>t, <1>l, <3>1, <3>2, MovesOn DEF ReadType, b, r
    <3>4. /\ last + (b + 1) + (r - 1) = last + b + r
          /\ spc # "closed" => sent = last + (b + 1) + (r - 1) + f + t + 1
      BY <1>t, <1>l
    <3> QED BY <1>l, <2>1, <3>1, <3>3, <3>4 DEF Contiguous, From, f, t
  <2>3. CASE Handle
    <3>1. /\ buf # <<>> /\ buf' = Tail(buf) /\ rxq' = rxq /\ VerifyMessage(Head(buf))
      BY <1>l, <2>3 DEF Handle
    <3>2. Head(buf).n = last + 1 /\ From(buf', last + 1) /\ Len(buf') = b - 1
      BY <1>t, <1>l, <3>1, TailOfQueue DEF ReadType, b
    <3>3. last' = last + 1
      <4>1. Head(buf) # OverrunError
        BY <3>2, ErrorsAreOther DEF ReadType
      <4> QED BY <3>1, <3>2, <4>1 DEF VerifyMessage
    <3>4. /\ (last + 1) + (b - 1) = last + b
          /\ spc # "closed" => sent = (last + 1) + (b - 1) + r + f + t + 1
      BY <1>t, <1>l
    <3> QED BY <1>l, <2>1, <3>1, <3>2, <3>3, <3>4 DEF Contiguous, From, r, f, t
  <2>4. CASE ReadOpen \/ ReadSetBitrate \/ Select \/ BindingSelect \/ Poll
    BY <1>1, <2>1, <2>4 DEF ReadOpen, ReadSetBitrate, Select, BindingSelect, Poll, ToRead, checkVars
  <2>5. CASE ReadReturns \/ HandleDone
    BY <1>1, <2>1, <2>5 DEF ReadReturns, HandleDone, checkVars
  <2> QED BY <1>6, <2>2, <2>3, <2>4, <2>5, Zenon DEF ReceiverStep, Receiver
<1> QED BY <1>2, <1>3, <1>4, <1>5, <1>6 DEF Next

-----------------------------------------------------------------------------
(* The verifier *)

(* An identifier is the expected one iff no message, or whole rounds of    *)
(* them, are missing.                                                      *)
LEMMA WrongIdentifier ==
  ASSUME NEW a \in Nat, NEW b \in Nat \cup {-1}
  PROVE  (b + 1) % (Limit + 1) = a % (Limit + 1) <=> (a - b - 1) % (Limit + 1) = 0
<1> DEFINE n == Limit + 1
           c == b + 1
<1>1. n \in Nat \ {0} /\ c \in Int /\ a \in Int /\ a - c = a - b - 1
  BY SendAssumption
<1> HIDE DEF n, c
<1>2. a % n = c % n <=> (a - c) % n = 0
  BY <1>1, SameRemainder
<1>3. a % n = c % n <=> (a - b - 1) % n = 0
  BY <1>1, <1>2
<1> QED BY <1>3 DEF n, c

(* The expected identifier, length and number follow those of message a. *)
LEMMA ExpectsNext ==
  ASSUME NEW a \in Nat
  PROVE  /\ (IF a % (Limit + 1) = Limit THEN 0 ELSE (a % (Limit + 1)) + 1) = (a + 1) % (Limit + 1)
         /\ (IF (a % SeqN) + 1 = SeqN THEN 0 ELSE (a % SeqN) + 1) = (a + 1) % SeqN
         /\ (IF (a % SeqN) + 1 = SeqN THEN (a \div SeqN) + 1 ELSE a \div SeqN) = (a + 1) \div SeqN
<1>1. Limit + 1 \in Nat \ {0} /\ SeqN \in Nat \ {0} /\ a \in Int /\ Limit \in Nat
  BY SendAssumption
<1>2. (a + 1) % (Limit + 1) = IF (a % (Limit + 1)) + 1 = Limit + 1 THEN 0 ELSE (a % (Limit + 1)) + 1
  BY <1>1, NextRemainder, Zenon
<1>3. a % (Limit + 1) \in Int
  BY <1>1, DivMod
<1>4. (a % (Limit + 1)) + 1 = Limit + 1 <=> a % (Limit + 1) = Limit
  <2> DEFINE r == a % (Limit + 1)
  <2> HIDE DEF r
  <2>1. r \in Int
    BY <1>3 DEF r
  <2>2. r + 1 = Limit + 1 <=> r = Limit
    BY <1>1, <2>1
  <2> QED BY <2>2 DEF r
<1>5. /\ (a + 1) % SeqN = IF (a % SeqN) + 1 = SeqN THEN 0 ELSE (a % SeqN) + 1
      /\ (a + 1) \div SeqN = IF (a % SeqN) + 1 = SeqN THEN (a \div SeqN) + 1 ELSE a \div SeqN
  BY <1>1, NextRemainder, Zenon
<1> QED BY <1>2, <1>4, <1>5, Zenon

(* The verifier expects message 0 first. *)
LEMMA InitialVerifier == Init => Streams /\ Contiguous /\ Expecting /\ Reading
<1> SUFFICES ASSUME Init PROVE Streams /\ Contiguous /\ Expecting /\ Reading
  OBVIOUS
<1>1. Streams
  BY DEF Init, SendInit, ReadInit, Streams, AllIdeal
<1>2. ASSUME NEW n \in Nat \ {0} PROVE (last + 1) % n = 0 /\ (last + 1) \div n = 0
  <2>1. last + 1 = 0 /\ 0 = n * 0 + 0 /\ 0 \in 0 .. n - 1
    BY DEF Init, ReadInit
  <2>2. 0 % n = 0 /\ 0 \div n = 0
    BY <2>1, DivModUnique
  <2> QED BY <2>1, <2>2
<1>3. Expecting
  <2>1. Limit + 1 \in Nat \ {0} /\ SeqN \in Nat \ {0}
    BY SendAssumption
  <2>2. (last + 1) % (Limit + 1) = 0 /\ (last + 1) % SeqN = 0 /\ (last + 1) \div SeqN = 0
    BY <1>2, <2>1, Zenon
  <2>3. /\ id = 0 /\ errs = 0 /\ gaps = 0 /\ marks = 0
        /\ wrong = FALSE /\ iseq = 0 /\ seq = 0
    BY DEF Init, ReadInit
  <2>4. Counting
    BY <2>2, <2>3 DEF Counting
  <2> QED BY <2>2, <2>3, <2>4, Zenon DEF Expecting
<1>4. Reading
  BY DEF Init, ReadInit, Reading
<1>5. Contiguous
  BY DEF Init, SendInit, ReadInit, Contiguous, From
<1> QED BY <1>1, <1>3, <1>4, <1>5

(* What a message, or an overrun error, adds to the wrong identifiers. *)
LEMMA CountsOn ==
  ASSUME ReadType, Counting, NEW m \in Received, VerifyMessage(m),
         m # OverrunError => m.id = m.n % (Limit + 1)
  PROVE  Counting'
<1>0. \A e, g, k \in Nat : g + 1 <= e /\ e <= g + 2 * k - 1 =>
        \A e1 \in {e, e + 1}, g1 \in {g, g + 1} : g1 <= e1 /\ e1 <= g1 + 2 * k
  OBVIOUS
<1>1. CASE m = OverrunError
  <2>1. m.id = -1 /\ id \in Nat /\ Limit \in Nat
    BY <1>1, ErrorsAreOther, SendAssumption DEF ReadType
  <2>2. errs' = errs + 1 /\ id' = 0 /\ marks' = marks + 1 /\ gaps' = gaps
    BY <1>1, <2>1 DEF VerifyMessage, ExpectNext
  <2>3. gaps + 1 <= errs + 1 /\ errs + 1 <= gaps + 2 * (marks + 1) - 1
    BY DEF Counting, ReadType
  <2> QED BY <2>2, <2>3 DEF Counting
<1>2. CASE m # OverrunError
  <2>1. m.n \in Nat /\ m.id = m.n % (Limit + 1)
    BY <1>2, ErrorsAreOther DEF Messages
  <2>2. last' = m.n /\ id' = (last' + 1) % (Limit + 1) /\ marks' = marks
    BY <1>2, <2>1, ExpectsNext, Zenon DEF VerifyMessage, ExpectNext
  <2>3. gaps' = (IF Missing(m) % (Limit + 1) = 0 THEN gaps ELSE gaps + 1)
    BY <1>2 DEF VerifyMessage
  <2>4. errs' = (IF id # m.id THEN errs + 1 ELSE errs)
    BY DEF VerifyMessage
  <2>5. gaps' <= errs' /\ errs' <= gaps' + 2 * marks
    <3>1. CASE id = (last + 1) % (Limit + 1) /\ gaps <= errs /\ errs <= gaps + 2 * marks
      <4>1. id = m.id <=> Missing(m) % (Limit + 1) = 0
        BY <2>1, <3>1, WrongIdentifier DEF Missing, ReadType
      <4>2. \/ errs' = errs /\ gaps' = gaps
            \/ errs' = errs + 1 /\ gaps' = gaps + 1
        BY <2>3, <2>4, <4>1, Zenon
      <4> QED BY <3>1, <4>2 DEF ReadType
    <3>2. CASE gaps + 1 <= errs /\ errs <= gaps + 2 * marks - 1
      <4>1. errs' \in {errs, errs + 1} /\ gaps' \in {gaps, gaps + 1}
        BY <2>3, <2>4, Zenon
      <4>2. errs \in Nat /\ gaps \in Nat /\ marks \in Nat
        BY DEF ReadType
      <4>3. \A e1 \in {errs, errs + 1}, g1 \in {gaps, gaps + 1} : g1 <= e1 /\ e1 <= g1 + 2 * marks
        BY <3>2, <4>2, <1>0
      <4> QED BY <4>1, <4>3
    <3> QED BY <3>1, <3>2 DEF Counting
  <2> QED BY <2>2, <2>5, Zenon DEF Counting
<1> QED BY <1>1, <1>2

(* Only verify_message changes what the verifier expects, and it expects   *)
(* the successor of the message it was given.                              *)
LEMMA ExpectingStep ==
  ASSUME SendType, ReadType, Streams, Contiguous, Expecting, [Next]_vars
  PROVE  Expecting'
<1> SUFFICES ASSUME prog' = "t10" /\ reader' = "verify"
             PROVE  /\ Counting'
                    /\ ~lost' => /\ errs' = 0 /\ ~wrong'
                                 /\ iseq' = (last' + 1) % SeqN /\ seq' = (last' + 1) \div SeqN
  BY DEF Expecting
<1>1. prog = "t10" /\ reader = "verify" /\ (lost => lost')
  <2>1. CASE SenderStep
    BY <2>1, SenderLeaves DEF rVars, busVars
  <2>2. CASE ReceiverStep
    BY <2>2 DEF ReceiverStep, sVars, busVars, Receiver, ReadOpen, ReadSetBitrate, Select, BindingSelect, Poll,
         ToRead, ReadTakes, ReadReturns, Handle, HandleDone
  <2>3. CASE Transmit
    <3>1. UNCHANGED <<prog, reader>>
      BY <2>3 DEF Transmit, rVars
    <3>2. lost' = lost \/ lost' = TRUE
      BY <2>3, Zenon DEF Transmit, Arrive
    <3> QED BY <3>1, <3>2
  <2>4. CASE Handler
    BY <2>4 DEF Handler, Store, Report, sVars
  <2>5. CASE UNCHANGED vars
    BY <2>5 DEF vars, sVars, rVars, busVars
  <2> QED BY <2>1, <2>2, <2>3, <2>4, <2>5 DEF Next
<1>2. /\ Counting
      /\ ~lost => errs = 0 /\ ~wrong /\ iseq = (last + 1) % SeqN /\ seq = (last + 1) \div SeqN
  BY <1>1 DEF Expecting
<1>3. CASE ReceiverStep /\ Handle
  <2> DEFINE m == Head(buf)
  <2>1. m \in Received /\ (m = Ideal(m.n) \/ m = OverrunError) /\ VerifyMessage(m)
    BY <1>1, <1>3, TailOfQueue DEF Handle, Streams, ReadType
  <2>2. lost' = lost /\ (~lost => m.n = last + 1)
    <3>1. lost' = lost /\ buf # <<>> /\ last \in Int
      BY <1>3 DEF ReceiverStep, Handle, busVars, ReadType
    <3>2. ~lost => From(buf, last)
      BY <1>1 DEF Contiguous
    <3> QED BY <3>1, <3>2, TailOfQueue DEF ReadType
  <2> HIDE DEF m
  <2>3. m # OverrunError => m.id = m.n % (Limit + 1)
    BY <2>1 DEF Ideal
  <2>4. Counting'
    BY <1>2, <2>1, <2>3, CountsOn
  <2>5. ASSUME ~lost' PROVE errs' = 0 /\ ~wrong' /\ iseq' = (last' + 1) % SeqN /\ seq' = (last' + 1) \div SeqN
    <3>1. ~lost /\ m.n = last + 1 /\ m.n \in Nat
      BY <2>2, <2>5 DEF ReadType
    <3>2. m = Ideal(m.n) /\ m # OverrunError
      BY <2>1, <3>1, ErrorsAreOther
    <3>3. m.id = (last + 1) % (Limit + 1) /\ m.len = m.n % SeqN /\ m.num = m.n \div SeqN
      BY <3>1, <3>2 DEF Ideal
    <3>4. errs = 0 /\ ~wrong /\ iseq = m.len /\ seq = m.num
      BY <1>2, <3>1, <3>3, Zenon
    <3>5. id = m.id
      BY <1>2, <3>3, <3>4 DEF Counting, ReadType
    <3>6. errs' = 0 /\ last' = m.n
      BY <2>1, <3>2, <3>4, <3>5, Zenon DEF VerifyMessage
    <3>7. SameData(m.len, m.num)
      BY <3>4, Zenon DEF SameData
    <3>8. /\ wrong' = (wrong \/ ~SameData(m.len, m.num))
          /\ IF iseq + 1 = SeqN THEN iseq' = 0 /\ seq' = seq + 1 ELSE iseq' = iseq + 1 /\ seq' = seq
      BY <2>1, <3>4, Zenon DEF VerifyMessage, CheckSequence
    <3>9. ~wrong'
      BY <3>4, <3>7, <3>8, Zenon
    <3>10. iseq = m.n % SeqN /\ seq = m.n \div SeqN
      BY <3>3, <3>4, Zenon
    <3>11. iseq' = (m.n + 1) % SeqN /\ seq' = (m.n + 1) \div SeqN
      BY <3>1, <3>8, <3>10, ExpectsNext, Zenon
    <3> QED BY <3>6, <3>9, <3>11, Zenon
  <2> QED BY <2>4, <2>5
<1>4. CASE ~(ReceiverStep /\ Handle)
  <2>1. UNCHANGED checkVars
    <3>1. CASE SenderStep \/ UNCHANGED vars
      BY <3>1 DEF SenderStep, vars, rVars, checkVars
    <3>2. CASE Transmit \/ Handler
      BY <3>2 DEF Transmit, Handler, Store, Report, rVars, checkVars
    <3>3. CASE ReceiverStep
      BY <1>4, <3>3 DEF ReceiverStep, Receiver, ReadOpen, ReadSetBitrate, Select, BindingSelect, Poll, ToRead,
           ReadTakes, ReadReturns, HandleDone
    <3> QED BY <3>1, <3>2, <3>3 DEF Next
  <2> QED BY <1>1, <1>2, <2>1 DEF checkVars, Counting
<1> QED BY <1>3, <1>4

(* can_verify reads only after select() has reported a message, and nobody *)
(* else takes it.                                                          *)
LEMMA ReadingStep ==
  ASSUME SendType, ReadType, Reading, [Next]_vars
  PROVE  Reading'
<1> USE DEF Reading
<1>1. CASE SenderStep \/ UNCHANGED vars
  BY <1>1 DEF SenderStep, vars, rVars
<1>2. CASE Transmit
  BY <1>2 DEF Transmit, rVars
<1>4. CASE Handler
  <2>1. Store => Head(fifo) \in Received
    BY TailOfQueue, ErrorsAreOther DEF Store, ReadType
  <2>2. rxq # <<>> => rxq' # <<>>
    <3>1. \A m \in Received : Append(rxq, m) # <<>>
      BY AppendToQueue DEF ReadType
    <3> QED BY <1>4, <2>1, <3>1, ErrorsAreOther, Zenon DEF Handler, Store, Report
  <2> QED BY <1>4, <2>2 DEF Handler, Store, Report
<1>3. CASE ReceiverStep
  <2>1. CASE ReadOpen \/ ReadSetBitrate
    BY <2>1 DEF ReadOpen, ReadSetBitrate, BitrateNext
  <2>2. CASE Select \/ BindingSelect \/ Poll
    BY <2>2 DEF Select, BindingSelect, Poll, ToRead
  <2>3. CASE ReadTakes
    <3>1. Head(rxq) \in Received
      BY <2>3, TailOfQueue DEF ReadTakes, ReadType
    <3>2. buf' # <<>>
      BY <2>3, <3>1, AppendToQueue DEF ReadTakes, ReadType
    <3> QED BY <2>3, <3>2 DEF ReadTakes
  <2>4. CASE ReadReturns
    <3>1. ~(reader = "verify" /\ buf = <<>>)
      <4> SUFFICES ASSUME reader = "verify", buf = <<>> PROVE FALSE
        OBVIOUS
      <4>1. rxq # <<>> /\ Len(buf) = SeqN
        BY <2>4 DEF ReadReturns, Batch
      <4>2. Len(buf) = 0
        OBVIOUS
      <4> QED BY <4>1, <4>2, SendAssumption
    <3> QED BY <2>4, <3>1 DEF ReadReturns
  <2>5. CASE Handle \/ HandleDone
    BY <2>5 DEF Handle, HandleDone
  <2> QED BY <1>3, <2>1, <2>2, <2>3, <2>4, <2>5, Zenon DEF ReceiverStep, Receiver
<1> QED BY <1>1, <1>2, <1>3, <1>4 DEF Next

-----------------------------------------------------------------------------
(* The invariant *)

(* The invariant holds always. *)
LEMMA Inductive == Spec => []IInv
<1>1. Init => IInv
  BY InitialTypes, InitialSender, InitialVerifier DEF IInv
<1>2. IInv /\ [Next]_vars => IInv'
  BY TypeStep, ProgressStep, BasedStep, StreamsStep, ContiguousStep, ExpectingStep, ReadingStep
     DEF IInv
<1> QED BY <1>1, <1>2, PTL DEF Spec

(* Test 10 leaves whole sequences behind, in order, whatever write() takes *)
(* of a sequence at a time (can_send.c:894-933).                           *)
THEOREM SequencesStayWhole == Spec => []SequencesWhole
<1>1. IInv => SequencesWhole
  <2> SUFFICES ASSUME IInv, prog = "t10", NEW i \in 1..Len(txq) PROVE txq[i] = Ideal(txq[i].n)
    BY DEF SequencesWhole
  <2>1. txq[i] \in Messages
    BY DEF IInv, SendType
  <2>2. txq[i] = Ideal(txq[i].n) \/ txq[i] = OverrunError
    BY DEF IInv, Streams, AllIdeal
  <2> QED BY <2>1, <2>2, ErrorsAreOther
<1> QED BY <1>1, Inductive, PTL

(* A test that writes the rest, or a refused message, again (test10,       *)
(* test11, test12) has had all of its messages stored when it ends.        *)
THEOREM TestsComplete == Spec => []CompleteTest
<1>1. IInv => CompleteTest
  <2> SUFFICES ASSUME IInv, prog \in {"t10"} \cup Retries, spc = "closed", round > 0, ret # -1
               PROVE  sent = opt.count * Count
    BY DEF CompleteTest
  <2>1. prog \in Tests
    BY DEF Tests
  <2>2. start = 0 /\ round = opt.count /\ Stored = 0 /\ sent = round * Count + start + Stored
    BY <2>1 DEF IInv, Progress, Stored
  <2>3. round * Count \in Nat
    BY CountType, Z3 DEF IInv, SendType
  <2> QED BY <2>2, <2>3
<1> QED BY <1>1, Inductive, PTL

(* can_verify complains only if the receiver lost a message, counts every  *)
(* gap, and nothing else but the overrun errors of the driver and the      *)
(* messages behind them (can_verify.c:48-172).                             *)
THEOREM VerdictIsRight == Spec => []VerdictRight
<1>1. IInv => VerdictRight
  <2> SUFFICES ASSUME IInv PROVE VerdictRight
    OBVIOUS
  <2>1. ASSUME Counting PROVE gaps <= errs /\ errs <= gaps + 2 * marks
    BY <2>1 DEF Counting, IInv, ReadType
  <2> QED BY <2>1 DEF IInv, Expecting, Reading, VerdictRight
<1> QED BY <1>1, Inductive, PTL
=============================================================================
