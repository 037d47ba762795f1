---------------------------- MODULE MemoryProofs ----------------------------
(***************************************************************************)
(* Theorems about Memory for any facts, any width of a line and any number *)
(* of kills: a fact whose append returned is kept, in order and once, and  *)
(* the file implements AppendLog.  What a reader makes of the file is a    *)
(* recursive function, whose equations Recursion gives.                    *)
(***************************************************************************)
EXTENDS Memory, Recursion, TLAPS

----------------------------------------------------------------------------
(* Lines, and what a reader makes of them.                                 *)

LEMMA LineParses ==
  ASSUME NEW f \in Facts
  PROVE  Line(f) \in Seq(Bytes) /\ Len(Line(f)) = Width /\ Parses(Line(f)) /\ FactOf(Line(f)) = f
<1>1. Width \in Nat \ {0}
  BY MemoryAssumption
<1>2. Line(f) \in Seq(Bytes) /\ Len(Line(f)) = Width
  BY <1>1 DEF Line, Bytes
<1> QED
  BY <1>1, <1>2 DEF Line, Parses, FactOf

LEMMA OnlyWholeLinesParse ==
  ASSUME NEW l, Parses(l)
  PROVE  FactOf(l) \in Facts /\ l = Line(FactOf(l)) /\ Len(l) = Width
<1>1. PICK f \in Facts : l = Line(f)
  BY DEF Parses
<1> QED
  BY <1>1, LineParses

LEMMA EmptyLineIsSkipped == ~Parses(<<>>)
  BY OnlyWholeLinesParse, MemoryAssumption

\* What is read up to each line.
Reading(some) ==
  CHOOSE upto : upto = [n \in 0..Len(some) |->
    IF n = 0 THEN <<>>
    ELSE IF Parses(some[n]) THEN Append(upto[n - 1], FactOf(some[n])) ELSE upto[n - 1]]

LEMMA ReadingIs ==
  ASSUME NEW some \in Seq(Seq(Bytes))
  PROVE  /\ Parsed(some) = Reading(some)[Len(some)]
         /\ Reading(some) \in [0..Len(some) -> Seq(Facts)]
         /\ Reading(some)[0] = <<>>
         /\ \A n \in 1..Len(some) :
              Reading(some)[n] = IF Parses(some[n]) THEN Append(Reading(some)[n - 1], FactOf(some[n]))
                                 ELSE Reading(some)[n - 1]
<1> DEFINE N == Len(some)
           P(n, v) == IF Parses(some[n]) THEN Append(v, FactOf(some[n])) ELSE v
           step == [x \in (1..N) \X Seq(Facts) |-> P(x[1], x[2])]
           Is(upto) == upto = [n \in 0..N |-> IF n = 0 THEN <<>> ELSE P(n, upto[n - 1])]
<1>1. N \in Nat
  OBVIOUS
<1>2. \A n \in 1..N, v \in Seq(Facts) : P(n, v) \in Seq(Facts)
  BY OnlyWholeLinesParse
<1>3. step \in [(1..N) \X Seq(Facts) -> Seq(Facts)]
  BY <1>2
<1>4. <<>> \in Seq(Facts)
  OBVIOUS
<1> HIDE DEF step, P
<1>5. PICK f : f \in [0..N -> Seq(Facts)] /\ f[0] = <<>> /\ \A n \in 1..N : f[n] = step[<<n, f[n - 1]>>]
  <2>1. Step(step, N, Seq(Facts))
    BY <1>3 DEF Step
  <2>2. \E f : Iterates(f, N, Seq(Facts), <<>>, step)
    BY <1>1, <1>4, <2>1, Recursion
  <2> QED
    BY <2>2 DEF Iterates
<1>6. \A n \in 1..N : f[n] = P(n, f[n - 1])
  <2> SUFFICES ASSUME NEW n \in 1..N PROVE f[n] = P(n, f[n - 1])
    OBVIOUS
  <2>1. n - 1 \in 0..N
    OBVIOUS
  <2>2. <<n, f[n - 1]>> \in (1..N) \X Seq(Facts)
    BY <1>5, <2>1
  <2>3. step[<<n, f[n - 1]>>] = P(n, f[n - 1])
    BY <2>2 DEF step
  <2> QED
    BY <1>5, <2>3
<1>7. Is(f)
  <2>1. f = [n \in 0..N |-> f[n]]
    BY <1>5
  <2>2. \A n \in 0..N : f[n] = IF n = 0 THEN <<>> ELSE P(n, f[n - 1])
    BY <1>1, <1>5, <1>6, SMTT(30)
  <2> QED
    BY <2>1, <2>2, Zenon
<1>8. Is(Reading(some))
  BY <1>7, Zenon DEF Reading, P
<1> DEFINE u == Reading(some)
<1>9. u = [n \in 0..N |-> IF n = 0 THEN <<>> ELSE P(n, u[n - 1])]
  BY <1>8
<1> HIDE DEF u
<1>10. u[0] = <<>> /\ \A n \in 1..N : u[n] = P(n, u[n - 1])
  <2>1. \A n \in 0..N : u[n] = IF n = 0 THEN <<>> ELSE P(n, u[n - 1])
    BY <1>9, Zenon
  <2>2. 0 \in 0..N /\ \A n \in 1..N : n \in 0..N /\ n # 0
    BY <1>1
  <2> QED
    BY <2>1, <2>2
<1>11. \A n \in 0..N : u[n] \in Seq(Facts)
  <2> DEFINE I == {n \in Nat : n <= N => u[n] \in Seq(Facts)}
  <2>1. 0 \in I
    BY <1>4, <1>10
  <2>2. ASSUME NEW n \in I PROVE n + 1 \in I
    <3> SUFFICES ASSUME n + 1 <= N PROVE u[n + 1] \in Seq(Facts)
      BY <2>2
    <3>1. n + 1 \in 1..N /\ (n + 1) - 1 = n /\ u[n] \in Seq(Facts)
      BY <1>1, <2>2
    <3> QED
      BY <1>2, <1>10, <3>1
  <2>3. I = Nat
    BY <2>1, <2>2, Induction
  <2> QED
    BY <1>1, <2>3
<1>12. u \in [0..N -> Seq(Facts)]
  BY <1>9, <1>11
<1>13. Parsed(some) = u[N]
  BY DEF Parsed, u, Reading
<1> QED
  BY <1>10, <1>12, <1>13 DEF u, P

LEMMA NothingIsRead == Parsed(<<>>) = <<>>
<1>1. <<>> \in Seq(Seq(Bytes)) /\ Len(<<>>) = 0
  OBVIOUS
<1>2. Parsed(<<>>) = Reading(<<>>)[Len(<<>>)] /\ Reading(<<>>)[0] = <<>>
  BY <1>1, ReadingIs
<1> QED
  BY <1>1, <1>2

\* A reader reads a further line after what it reads without it.
LEMMA LineIsReadLast ==
  ASSUME NEW some \in Seq(Seq(Bytes)), NEW l \in Seq(Bytes)
  PROVE  /\ Parsed(some) \in Seq(Facts)
         /\ Parsed(Append(some, l)) = IF Parses(l) THEN Append(Parsed(some), FactOf(l)) ELSE Parsed(some)
<1> DEFINE more == Append(some, l)
           u == Reading(some)
           w == Reading(more)
           N == Len(some)
<1>1. /\ more \in Seq(Seq(Bytes)) /\ Len(more) = N + 1 /\ more[N + 1] = l /\ N \in Nat
      /\ \A n \in 1..N : more[n] = some[n]
  OBVIOUS
<1>2. /\ Parsed(some) = u[N] /\ u \in [0..N -> Seq(Facts)] /\ u[0] = <<>>
      /\ \A n \in 1..N : u[n] = IF Parses(some[n]) THEN Append(u[n - 1], FactOf(some[n])) ELSE u[n - 1]
  BY ReadingIs
<1>3. /\ Parsed(more) = w[N + 1] /\ w[0] = <<>>
      /\ \A n \in 1..(N + 1) : w[n] = IF Parses(more[n]) THEN Append(w[n - 1], FactOf(more[n])) ELSE w[n - 1]
  BY <1>1, ReadingIs
<1> HIDE DEF more, u, w, N
<1>4. w[N] = u[N]
  <2> DEFINE I == {n \in Nat : n <= N => w[n] = u[n]}
  <2>1. 0 \in I
    BY <1>2, <1>3
  <2>2. ASSUME NEW n \in I PROVE n + 1 \in I
    <3> SUFFICES ASSUME n + 1 <= N PROVE w[n + 1] = u[n + 1]
      BY <2>2
    <3>1. n + 1 \in 1..N /\ n + 1 \in 1..(N + 1) /\ (n + 1) - 1 = n /\ w[n] = u[n]
      BY <1>1, <2>2
    <3> QED
      BY <1>1, <1>2, <1>3, <3>1
  <2>3. I = Nat
    BY <2>1, <2>2, Induction
  <2> QED
    BY <1>1, <2>3
<1>5. N + 1 \in 1..(N + 1) /\ (N + 1) - 1 = N /\ N \in 0..N
  BY <1>1
<1>6. w[N + 1] = IF Parses(l) THEN Append(u[N], FactOf(l)) ELSE u[N]
  BY <1>1, <1>3, <1>4, <1>5
<1> QED
  BY <1>2, <1>3, <1>5, <1>6 DEF more

----------------------------------------------------------------------------
(* The invariant.                                                          *)

\* What is kept of the facts begun: each at most once and in their order.
InOrder(kept, of) ==
  /\ Range(kept) \subseteq Range(of)
  /\ \A i, j \in DOMAIN kept : i < j =>
       \E m, n \in DOMAIN of : m < n /\ of[m] = kept[i] /\ of[n] = kept[j]

\* The line of the fact being appended, up to where it is written.
Piece(f, k) == [at \in 1..k |-> <<f, at>>]
Rest(f, k) == [at \in 1..(Width - k) |-> <<f, k + at>>]
Appending ==
  /\ fact \in Facts /\ begun # <<>> /\ begun[Len(begun)] = fact
  /\ \E k \in 0..Width : tail = Piece(fact, k) /\ unwritten = Rest(fact, k)
  /\ \A i \in DOMAIN Parsed(lines) : \E m \in 1..(Len(begun) - 1) : begun[m] = Parsed(lines)[i]

\* Nothing is behind the last newline while no fact is being appended to the
\* file a supervisor has opened, and all that is kept came before that fact.
MemoryInv ==
  /\ TypeOK /\ IsInjective(begun)
  /\ store \in {"opened", "ready"} => tail = <<>>
  /\ store # "appending" => fact = NoFact /\ unwritten = <<>>
  /\ store = "appending" => Appending
  /\ appended \subseteq Range(Parsed(Content)) /\ InOrder(Parsed(Content), begun)

LEMMA InvSurvives == MemoryInv => LogSurvives
  BY DEF MemoryInv, LogSurvives, AppendedSurvives, InOrder

LEMMA ContentIs ==
  ASSUME lines \in Seq(Seq(Bytes)), tail \in Seq(Bytes)
  PROVE  /\ Parsed(lines) \in Seq(Facts) /\ Parsed(Content) \in Seq(Facts)
         /\ Parsed(Content) = IF Parses(tail) THEN Append(Parsed(lines), FactOf(tail)) ELSE Parsed(lines)
<1>1. Content \in Seq(Seq(Bytes)) /\ <<>> \in Seq(Bytes)
  BY DEF Content
<1> QED
  BY <1>1, LineIsReadLast DEF Content

\* A newline behind the last line, torn or whole, changes nothing for a reader.
LEMMA NewlineKeepsFacts ==
  ASSUME lines \in Seq(Seq(Bytes)), tail \in Seq(Bytes), lines' = Append(lines, tail), tail' = <<>>
  PROVE  /\ lines' \in Seq(Seq(Bytes)) /\ tail' \in Seq(Bytes)
         /\ Parsed(Content)' = Parsed(Content) /\ Parsed(lines)' = Parsed(Content)
<1>1. lines' \in Seq(Seq(Bytes)) /\ tail' \in Seq(Bytes)
  OBVIOUS
<1>2. Parsed(lines') = Parsed(Content)
  BY DEF Content
<1>3. Parsed(Append(lines', tail')) = Parsed(lines')
  BY <1>1, LineIsReadLast, EmptyLineIsSkipped
<1>4. Parsed(Content)' = Parsed(Append(lines', tail')) /\ Parsed(lines)' = Parsed(lines')
  BY DEF Content
<1> QED
  BY <1>1, <1>2, <1>3, <1>4

LEMMA MemoryInitial == Init => MemoryInv
<1> SUFFICES ASSUME Init PROVE MemoryInv
  OBVIOUS
<1>1. lines \in Seq(Seq(Bytes)) /\ tail \in Seq(Bytes)
  BY DEF Init
<1>2. Parsed(Content) = <<>>
  BY <1>1, ContentIs, NothingIsRead, EmptyLineIsSkipped DEF Init
<1>3. TypeOK
  BY <1>1, MemoryAssumption DEF Init, TypeOK
<1>4. IsInjective(begun) /\ Range(begun) = {} /\ Range(Parsed(Content)) = {}
  BY <1>2 DEF Init, IsInjective, Range
<1> QED
  BY <1>2, <1>3, <1>4 DEF Init, MemoryInv, InOrder

\* The next byte of a line.
LEMMA OneMoreByte ==
  ASSUME NEW f \in Facts, NEW k \in 0..Width, Rest(f, k) # <<>>
  PROVE  /\ k + 1 \in 0..Width
         /\ Append(Piece(f, k), Head(Rest(f, k))) = Piece(f, k + 1)
         /\ Tail(Rest(f, k)) = Rest(f, k + 1)
<1>1. Width \in Nat /\ k \in Nat
  BY MemoryAssumption
<1>2. Rest(f, k) \in Seq(Bytes) /\ Len(Rest(f, k)) = Width - k
  BY <1>1 DEF Rest, Bytes
<1>3. k < Width
  BY <1>1, <1>2
<1>4. Piece(f, k) \in Seq(Bytes) /\ Len(Piece(f, k)) = k
  BY <1>1 DEF Piece, Bytes
<1>5. Head(Rest(f, k)) = <<f, k + 1>>
  BY <1>1, <1>2, <1>3 DEF Rest
<1>6. Append(Piece(f, k), <<f, k + 1>>) = Piece(f, k + 1)
  BY <1>1, <1>4 DEF Piece
<1>7. Tail(Rest(f, k)) = Rest(f, k + 1)
  BY <1>1, <1>2, <1>3 DEF Rest
<1>8. Append(Piece(f, k), Head(Rest(f, k))) = Piece(f, k + 1)
  BY <1>5, <1>6, Zenon
<1>9. k + 1 \in 0..Width
  BY <1>1, <1>3
<1> QED
  BY <1>7, <1>8, <1>9, Zenon

LEMMA PieceParses ==
  ASSUME NEW f \in Facts, NEW k \in 0..Width
  PROVE  /\ Piece(f, k) \in Seq(Bytes) /\ Len(Piece(f, k)) = k
         /\ Rest(f, k) \in Seq(Bytes) /\ Len(Rest(f, k)) = Width - k
         /\ Parses(Piece(f, k)) <=> k = Width
         /\ Parses(Piece(f, k)) => FactOf(Piece(f, k)) = f
<1>1. Width \in Nat /\ k \in Nat
  BY MemoryAssumption
<1>2. Piece(f, k) \in Seq(Bytes) /\ Len(Piece(f, k)) = k
  BY <1>1 DEF Piece, Bytes
<1>3. Rest(f, k) \in Seq(Bytes) /\ Len(Rest(f, k)) = Width - k
  BY <1>1 DEF Rest, Bytes
<1>4. Parses(Piece(f, k)) => k = Width
  BY <1>2, OnlyWholeLinesParse
<1>5. Piece(f, Width) = Line(f)
  BY DEF Piece, Line
<1> QED
  BY <1>2, <1>3, <1>4, <1>5, LineParses

----------------------------------------------------------------------------
(* Each step keeps it, and is a step of the log.                           *)

Kept == Parsed(Content)

\* The log's steps, with what is kept as the log.
LogBegin(f) == fact = NoFact /\ fact' = f /\ UNCHANGED <<Kept, appended>>
LogKeep == fact # NoFact /\ Kept' = Append(Kept, fact) /\ UNCHANGED <<fact, appended>>
LogReturn ==
  /\ Kept # <<>> /\ fact = Kept[Len(Kept)] /\ appended' = appended \cup {fact} /\ fact' = NoFact
  /\ UNCHANGED Kept
LogCutShort == fact' = NoFact /\ UNCHANGED <<Kept, appended>>
LogStep == (\E f \in Facts : LogBegin(f)) \/ LogKeep \/ LogReturn \/ LogCutShort
           \/ UNCHANGED <<Kept, fact, appended>>

LEMMA OpenStep ==
  ASSUME MemoryInv, Open
  PROVE  MemoryInv' /\ LogStep
<1>1. UNCHANGED <<lines, tail, fact, unwritten, seen, appended, begun, kills>>
  BY DEF Open, file
<1>2. Kept' = Kept
  BY <1>1 DEF Kept, Content
<1>3. TypeOK'
  BY <1>1 DEF MemoryInv, TypeOK, Open
<1> QED
  BY <1>1, <1>2, <1>3 DEF MemoryInv, Open, InOrder, Kept, LogStep

LEMMA TerminateStep ==
  ASSUME MemoryInv, TerminateTornLine
  PROVE  MemoryInv' /\ LogStep
<1>1. /\ store = "opening" /\ store' = "opened"
      /\ UNCHANGED <<fact, unwritten, seen, appended, begun, kills>>
  BY DEF TerminateTornLine
<1>2. lines \in Seq(Seq(Bytes)) /\ tail \in Seq(Bytes) /\ unwritten = <<>>
  BY <1>1 DEF MemoryInv, TypeOK
<1>3. tail' = <<>> /\ lines' \in Seq(Seq(Bytes)) /\ Kept' = Kept
  <2>1. CASE tail = <<>>
    BY <1>2, <2>1 DEF TerminateTornLine, file, Kept, Content
  <2>2. CASE tail # <<>>
    BY <1>2, <2>2, NewlineKeepsFacts DEF TerminateTornLine, Kept
  <2> QED
    BY <2>1, <2>2
<1>4. Len(tail') + Len(unwritten') <= Width
  BY <1>1, <1>2, <1>3, MemoryAssumption
<1>5. TypeOK'
  BY <1>1, <1>3, <1>4 DEF MemoryInv, TypeOK
<1> QED
  BY <1>1, <1>3, <1>5 DEF MemoryInv, InOrder, Kept, LogStep

LEMMA ReadStep ==
  ASSUME MemoryInv, Read
  PROVE  MemoryInv' /\ LogStep
<1>1. UNCHANGED <<lines, tail, fact, unwritten, appended, begun, kills>> /\ tail = <<>>
      /\ store' \in {"ready", "failed"} /\ store # "appending"
  BY DEF Read, file, MemoryInv
<1>2. Kept' = Kept
  BY <1>1 DEF Kept, Content
<1>3. seen' \in Seq(Facts)
  BY ContentIs DEF Read, MemoryInv, TypeOK
<1>4. TypeOK'
  BY <1>1, <1>3 DEF MemoryInv, TypeOK
<1> QED
  BY <1>1, <1>2, <1>4 DEF MemoryInv, InOrder, Kept, LogStep

LEMMA AppendStep ==
  ASSUME MemoryInv, NEW f \in Facts, AppendFact(f)
  PROVE  MemoryInv' /\ LogStep
<1>1. /\ UNCHANGED <<lines, tail, seen, appended, kills>> /\ store = "ready" /\ store' = "appending"
      /\ fact' = f /\ unwritten' = Line(f) /\ begun' = Append(begun, f)
  BY DEF AppendFact, file
<1>2. tail = <<>> /\ fact = NoFact /\ begun \in Seq(Facts)
      /\ lines \in Seq(Seq(Bytes)) /\ tail \in Seq(Bytes)
  BY <1>1 DEF MemoryInv, TypeOK
<1>3. Kept' = Kept
  BY <1>1 DEF Kept, Content
<1>4. Kept = Parsed(lines) /\ Parsed(lines)' = Parsed(lines)
  BY <1>1, <1>2, ContentIs, EmptyLineIsSkipped DEF Kept
<1>5. /\ Len(begun') = Len(begun) + 1 /\ begun'[Len(begun')] = f /\ begun' # <<>>
      /\ \A m \in 1..Len(begun) : begun'[m] = begun[m]
      /\ DOMAIN begun = 1..Len(begun) /\ DOMAIN begun' = 1..(Len(begun) + 1) /\ Len(begun) \in Nat
      /\ begun' \in Seq(Facts)
  <2>1. Len(begun) \in Nat /\ DOMAIN begun = 1..Len(begun) /\ begun' \in Seq(Facts)
        /\ Len(begun') = Len(begun) + 1
    BY <1>1, <1>2
  <2>2. begun'[Len(begun) + 1] = f /\ DOMAIN begun' = 1..(Len(begun) + 1)
    BY <1>1, <1>2
  <2>3. \A m \in 1..Len(begun) : begun'[m] = begun[m]
    BY <1>1, <1>2
  <2>4. begun' # <<>>
    BY <2>1
  <2> QED
    BY <2>1, <2>2, <2>3, <2>4
<1>6. \A m \in 1..Len(begun) : begun[m] # f
  BY DEF AppendFact, Contains
<1>7. IsInjective(begun')
  <2>1. \A m, n \in 1..Len(begun) : begun[m] = begun[n] => m = n
    BY <1>5 DEF MemoryInv, IsInjective
  <2>2. \A m \in 1..(Len(begun) + 1) : m \in 1..Len(begun) \/ m = Len(begun')
    BY <1>5
  <2> QED
    BY <1>5, <1>6, <2>1, <2>2 DEF IsInjective
<1>8. tail' = Piece(f, 0) /\ unwritten' = Rest(f, 0) /\ 0 \in 0..Width
  BY <1>1, <1>2, MemoryAssumption DEF Piece, Rest, Line
<1>9. \A i \in DOMAIN Kept : \E m \in 1..Len(begun) : begun[m] = Kept[i]
  BY <1>5 DEF MemoryInv, InOrder, Kept, Range
<1>10. Appending'
  <2>1. \A i \in DOMAIN Parsed(lines)' : \E m \in 1..(Len(begun') - 1) : begun'[m] = Parsed(lines)'[i]
    <3>1. Len(begun') - 1 = Len(begun)
      BY <1>5
    <3> QED
      BY <1>4, <1>5, <1>9, <3>1
  <2>2. \E k \in 0..Width : tail' = Piece(f, k) /\ unwritten' = Rest(f, k)
    BY <1>8
  <2> QED
    BY <1>1, <1>5, <2>1, <2>2 DEF Appending, Piece, Rest
<1>11. InOrder(Kept, begun')
  <2>1. \A m \in DOMAIN begun : m \in DOMAIN begun' /\ begun'[m] = begun[m]
    BY <1>5
  <2>2. Range(begun) \subseteq Range(begun')
    BY <2>1 DEF Range
  <2>3. InOrder(Kept, begun)
    BY DEF MemoryInv, Kept
  <2>4. ASSUME NEW i \in DOMAIN Kept, NEW j \in DOMAIN Kept, i < j
        PROVE  \E m, n \in DOMAIN begun' : m < n /\ begun'[m] = Kept[i] /\ begun'[n] = Kept[j]
    <3>1. PICK m \in DOMAIN begun, n \in DOMAIN begun : m < n /\ begun[m] = Kept[i] /\ begun[n] = Kept[j]
      BY <2>3, <2>4 DEF InOrder
    <3> QED
      BY <2>1, <3>1
  <2> QED
    BY <2>2, <2>3, <2>4 DEF InOrder
<1>12. TypeOK'
  <2>1. Line(f) \in Seq(Bytes) /\ Len(tail') + Len(unwritten') <= Width
    BY <1>1, <1>2, LineParses, MemoryAssumption
  <2> QED
    BY <1>1, <1>5, <2>1 DEF MemoryInv, TypeOK
<1>13. InOrder(Parsed(Content), begun)'
  BY <1>3, <1>11 DEF Kept, InOrder
<1>14. appended' \subseteq Range(Parsed(Content))'
  BY <1>1, <1>3 DEF MemoryInv, Kept
<1>15. LogBegin(f)
  BY <1>1, <1>2, <1>3 DEF LogBegin
<1> QED
  BY <1>1, <1>7, <1>10, <1>12, <1>13, <1>14, <1>15 DEF MemoryInv, LogStep

LEMMA KillStep ==
  ASSUME MemoryInv, Kill
  PROVE  MemoryInv' /\ LogStep
<1>1. /\ UNCHANGED <<lines, tail, appended, begun>> /\ store' = "closed" /\ kills' = kills + 1
      /\ fact' = NoFact /\ unwritten' = <<>> /\ seen' = <<>> /\ kills < MaxKills
  BY DEF Kill, file
<1>2. Kept' = Kept
  BY <1>1 DEF Kept, Content
<1>3. Len(tail') + Len(unwritten') <= Width
  <2>1. tail \in Seq(Bytes) /\ unwritten \in Seq(Bytes) /\ Len(tail) + Len(unwritten) <= Width
    BY DEF MemoryInv, TypeOK
  <2>2. Len(tail) \in Nat /\ Len(unwritten) \in Nat /\ Len(unwritten') = 0 /\ Width \in Nat
    BY <1>1, <2>1, MemoryAssumption
  <2> QED
    BY <1>1, <2>1, <2>2
<1>4. kills' \in 0..MaxKills
  BY <1>1, MemoryAssumption DEF MemoryInv, TypeOK
<1>5. TypeOK'
  BY <1>1, <1>3, <1>4 DEF MemoryInv, TypeOK
<1>6. LogCutShort
  BY <1>1, <1>2 DEF LogCutShort
<1> QED
  BY <1>1, <1>2, <1>5, <1>6 DEF MemoryInv, InOrder, Kept, LogStep

\* The fact that is being appended comes behind all that is kept.
LEMMA LastIsKept ==
  ASSUME MemoryInv, Appending, InOrder(Parsed(lines), begun), NEW kept, kept = Append(Parsed(lines), fact)
  PROVE  /\ InOrder(kept, begun) /\ Range(kept) = Range(Parsed(lines)) \cup {fact}
         /\ kept # <<>> /\ kept[Len(kept)] = fact
<1> DEFINE before == Parsed(lines)
<1>1. before \in Seq(Facts) /\ fact \in Facts /\ begun \in Seq(Facts) /\ begun # <<>>
  BY ContentIs DEF MemoryInv, TypeOK, Appending
<1>2. \A i \in DOMAIN before : \E m \in 1..(Len(begun) - 1) : begun[m] = before[i]
  BY DEF Appending
<1>3. Len(begun) \in DOMAIN begun /\ begun[Len(begun)] = fact /\ DOMAIN begun = 1..Len(begun) /\ Len(begun) \in Nat
  BY <1>1 DEF Appending
<1> HIDE DEF before
<1>4. /\ Len(kept) = Len(before) + 1 /\ Len(before) \in Nat
      /\ DOMAIN kept = 1..(Len(before) + 1) /\ DOMAIN before = 1..Len(before)
  BY <1>1 DEF before
<1>5. kept[Len(before) + 1] = fact /\ \A i \in 1..Len(before) : kept[i] = before[i]
  BY <1>1 DEF before
<1>6. Range(kept) = Range(before) \cup {fact}
  BY <1>4, <1>5 DEF Range
<1>7. Range(kept) \subseteq Range(begun)
  <2>1. fact \in Range(begun)
    BY <1>3 DEF Range
  <2> QED
    BY <1>6, <2>1 DEF InOrder, before
<1>8. ASSUME NEW i \in DOMAIN kept, NEW j \in DOMAIN kept, i < j
      PROVE  \E m, n \in DOMAIN begun : m < n /\ begun[m] = kept[i] /\ begun[n] = kept[j]
  <2>1. i \in 1..Len(before) /\ i \in DOMAIN before /\ kept[i] = before[i]
    BY <1>4, <1>5, <1>8
  <2>2. CASE j = Len(before) + 1
    <3>1. PICK m \in 1..(Len(begun) - 1) : begun[m] = before[i]
      BY <1>2, <2>1
    <3>2. m \in DOMAIN begun /\ m < Len(begun)
      BY <1>3
    <3> QED
      BY <1>3, <1>5, <2>1, <2>2, <3>1, <3>2
  <2>3. CASE j # Len(before) + 1
    <3>1. j \in DOMAIN before /\ kept[j] = before[j]
      BY <1>4, <1>5, <2>3
    <3> QED
      BY <1>8, <2>1, <3>1 DEF InOrder, before
  <2> QED
    BY <2>2, <2>3
<1>9. kept # <<>> /\ kept[Len(kept)] = fact
  <2>1. kept \in Seq(Facts)
    BY <1>1 DEF before
  <2> QED
    BY <1>4, <1>5, <2>1
<1> QED
  BY <1>6, <1>7, <1>8, <1>9 DEF InOrder, before

LEMMA ByteStep ==
  ASSUME MemoryInv, WriteByte
  PROVE  MemoryInv' /\ LogStep
<1>1. /\ UNCHANGED <<lines, store, fact, seen, appended, begun, kills>>
      /\ store = "appending" /\ unwritten # <<>>
      /\ tail' = Append(tail, Head(unwritten)) /\ unwritten' = Tail(unwritten)
  BY DEF WriteByte
<1>2. Appending /\ fact \in Facts
  BY <1>1 DEF MemoryInv, Appending
<1>3. PICK k \in 0..Width : tail = Piece(fact, k) /\ unwritten = Rest(fact, k)
  BY <1>2 DEF Appending
<1>4. k + 1 \in 0..Width /\ tail' = Piece(fact, k + 1) /\ unwritten' = Rest(fact, k + 1)
  BY <1>1, <1>2, <1>3, OneMoreByte
<1>5. ~Parses(tail) /\ (Parses(tail') => FactOf(tail') = fact)
  <2>1. k # Width
    BY <1>4, MemoryAssumption
  <2> QED
    BY <1>2, <1>3, <1>4, <2>1, PieceParses
<1>6. /\ tail' \in Seq(Bytes) /\ unwritten' \in Seq(Bytes)
      /\ Len(tail') = k + 1 /\ Len(unwritten') = Width - (k + 1)
  BY <1>2, <1>4, PieceParses
<1>7. lines \in Seq(Seq(Bytes)) /\ tail \in Seq(Bytes)
  BY DEF MemoryInv, TypeOK
<1>8. Kept = Parsed(lines) /\ Parsed(lines)' = Parsed(lines)
  BY <1>1, <1>5, <1>7, ContentIs DEF Kept
<1>9. Kept' = IF Parses(tail') THEN Append(Kept, fact) ELSE Kept
  <2>1. Parsed(Append(lines, tail')) = IF Parses(tail') THEN Append(Parsed(lines), FactOf(tail')) ELSE Parsed(lines)
    BY <1>6, <1>7, LineIsReadLast
  <2>2. Kept' = Parsed(Append(lines, tail'))
    BY <1>1 DEF Kept, Content
  <2> QED
    BY <1>5, <1>8, <2>1, <2>2
<1>10. InOrder(Kept, begun) /\ appended \subseteq Range(Kept)
  BY DEF MemoryInv, Kept
<1>11. InOrder(Kept', begun) /\ appended \subseteq Range(Kept') /\ LogStep
  <2>1. CASE Parses(tail')
    <3>1. Kept' = Append(Parsed(lines), fact)
      BY <1>8, <1>9, <2>1
    <3>2. InOrder(Kept', begun) /\ Range(Kept') = Range(Parsed(lines)) \cup {fact}
      BY <1>2, <1>8, <1>10, <3>1, LastIsKept
    <3>3. LogKeep
      <4>1. fact # NoFact
        BY <1>2, MemoryAssumption
      <4> QED
        BY <1>1, <1>8, <3>1, <4>1 DEF LogKeep
    <3> QED
      BY <1>8, <1>10, <3>2, <3>3 DEF LogStep
  <2>2. CASE ~Parses(tail')
    <3>1. Kept' = Kept
      BY <1>9, <2>2
    <3> QED
      BY <1>1, <1>10, <3>1 DEF LogStep
  <2> QED
    BY <2>1, <2>2
<1>12. Appending'
  BY <1>1, <1>2, <1>4, <1>8 DEF Appending, Piece, Rest
<1>13. TypeOK'
  <2>1. Len(tail') + Len(unwritten') <= Width
    BY <1>4, <1>6, MemoryAssumption
  <2> QED
    BY <1>1, <1>6, <2>1 DEF MemoryInv, TypeOK
<1>14. InOrder(Parsed(Content), begun)' /\ (appended \subseteq Range(Parsed(Content)))'
  BY <1>1, <1>11 DEF Kept, InOrder
<1> QED
  BY <1>1, <1>11, <1>12, <1>13, <1>14 DEF MemoryInv

LEMMA NewlineStep ==
  ASSUME MemoryInv, WriteNewline
  PROVE  MemoryInv' /\ LogStep
<1>1. /\ UNCHANGED <<unwritten, seen, begun, kills>> /\ store = "appending" /\ unwritten = <<>>
      /\ lines' = Append(lines, tail) /\ tail' = <<>> /\ store' = "ready"
      /\ appended' = appended \cup {fact} /\ fact' = NoFact
  BY DEF WriteNewline
<1>2. Appending /\ fact \in Facts
  BY <1>1 DEF MemoryInv, Appending
<1>3. PICK k \in 0..Width : tail = Piece(fact, k) /\ unwritten = Rest(fact, k)
  BY <1>2 DEF Appending
<1>4. k = Width
  <2>1. Width - k = 0
    BY <1>1, <1>2, <1>3, PieceParses
  <2> QED
    BY <2>1, MemoryAssumption
<1>5. Parses(tail) /\ FactOf(tail) = fact
  BY <1>2, <1>3, <1>4, PieceParses
<1>6. lines \in Seq(Seq(Bytes)) /\ tail \in Seq(Bytes)
  BY DEF MemoryInv, TypeOK
<1>7. Kept = Append(Parsed(lines), fact)
  BY <1>5, <1>6, ContentIs DEF Kept
<1>8. lines' \in Seq(Seq(Bytes)) /\ tail' \in Seq(Bytes) /\ Kept' = Kept
  BY <1>1, <1>6, NewlineKeepsFacts DEF Kept
<1>9. InOrder(Kept, begun) /\ appended \subseteq Range(Kept)
  BY DEF MemoryInv, Kept
<1>10. \A i \in DOMAIN Parsed(lines) : i \in DOMAIN Kept /\ Kept[i] = Parsed(lines)[i]
  BY <1>2, <1>6, <1>7, ContentIs
<1>11. InOrder(Parsed(lines), begun)
  BY <1>9, <1>10 DEF InOrder, Range
<1>12. Range(Kept) = Range(Parsed(lines)) \cup {fact} /\ Kept # <<>> /\ Kept[Len(Kept)] = fact
  BY <1>2, <1>7, <1>11, LastIsKept
<1>13. appended' \subseteq Range(Kept)
  BY <1>1, <1>9, <1>12
<1>14. LogReturn
  BY <1>1, <1>8, <1>12 DEF LogReturn
<1>15. Len(tail') + Len(unwritten') <= Width
  BY <1>1, MemoryAssumption
<1>16. TypeOK'
  BY <1>1, <1>2, <1>8, <1>15 DEF MemoryInv, TypeOK
<1>17. InOrder(Parsed(Content), begun)' /\ (appended \subseteq Range(Parsed(Content)))'
  BY <1>1, <1>8, <1>9, <1>13 DEF Kept, InOrder
<1> QED
  BY <1>1, <1>14, <1>16, <1>17 DEF MemoryInv, LogStep

LEMMA MemoryStep == MemoryInv /\ [Next]_vars => MemoryInv' /\ LogStep
<1> SUFFICES ASSUME MemoryInv, [Next]_vars PROVE MemoryInv' /\ LogStep
  OBVIOUS
<1>1. CASE UNCHANGED vars
  <2>1. UNCHANGED <<lines, tail, store, fact, unwritten, seen, appended, begun, kills>>
    BY <1>1 DEF vars
  <2>2. Kept' = Kept
    BY <2>1 DEF Kept, Content
  <2>3. TypeOK'
    BY <2>1 DEF MemoryInv, TypeOK
  <2> QED
    BY <2>1, <2>2, <2>3 DEF MemoryInv, InOrder, Kept, Appending, LogStep
<1> QED
  BY <1>1, OpenStep, TerminateStep, ReadStep, AppendStep, ByteStep, NewlineStep, KillStep DEF Next

THEOREM MemoryHoldsInv == Spec => []MemoryInv
  BY MemoryInitial, MemoryStep, PTL DEF Spec

\* A fact whose append returned is in the file for good, each fact at most once
\* and all in the order they were begun, whatever torn lines any number of kills
\* left between them (supervisor/memory.rs, terminate_torn_line).
THEOREM LogStaysWhole == Spec => []LogSurvives
  BY MemoryHoldsInv, InvSurvives, PTL

\* The file implements the append-only log: every step of the supervisor or kill
\* begins, keeps, returns or cuts short a recording or leaves the log alone.
THEOREM FileImplementsLog == Spec => ImplementsLog
<1>1. Init => Log!LogInit
  BY NothingIsRead, ContentIs, EmptyLineIsSkipped DEF Init, Log!LogInit
<1>2. MemoryInv /\ [Next]_vars => [Log!LogNext]_(Log!logVars)
  BY MemoryStep DEF LogStep, LogBegin, LogKeep, LogReturn, LogCutShort, Kept, Log!LogNext, Log!logVars,
     Log!Begin, Log!Keep, Log!Return, Log!CutShort
<1> QED
  BY <1>1, <1>2, MemoryHoldsInv, PTL DEF Spec, ImplementsLog, Log!LogSpec
=============================================================================
