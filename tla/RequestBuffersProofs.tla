------------------------ MODULE RequestBuffersProofs ------------------------
(***************************************************************************)
(* The memory of a connection, RequestBuffers, for a pool of any size,     *)
(* records and replies of any size and clients that send what they like as *)
(* long as it is made of lines.                                            *)
(***************************************************************************)
EXTENDS RequestBuffers, FiniteSetTheorems, WellFoundedInduction, TLAPS

-----------------------------------------------------------------------------
(* The inductive invariant                                                 *)

States ==
  ReadingStates \cup
  {"HEADERS_RECEIVED", "HEADERS_PROCESSED", "FOOTERS_RECEIVED",
   "HEADERS_SENDING", "HEADERS_SENT", "BODY_READY", "FOOTERS_SENT", "CLOSED"}

Entries == [kind : {"arg", "header", "cookie"}, key : Int, value : Int]

Connections ==
  [mem : [0 .. PoolSize - 1 -> Int], pos : Nat, end : Nat,
   read_buffer : Int, read_buffer_size : Nat, read_buffer_offset : Nat,
   write_buffer : Int, write_buffer_size : Nat, sent : Int,
   state : States, url : Int, last : Int, colon : Int,
   headers : Seq(Entries), response : {"none", "page", "error"},
   read_closed : BOOLEAN, keepalive : BOOLEAN, shut : BOOLEAN]

\* The blocks of the pool: in front of pos and apart.
Layout(c) ==
  /\ c.pos <= c.end /\ c.end <= PoolSize
  /\ c.read_buffer_size = 0 \/
       (c.read_buffer >= 0 /\ c.read_buffer + c.read_buffer_size <= c.pos)
  /\ c.write_buffer_size = 0 \/
       (c.write_buffer >= 0 /\ c.write_buffer + c.write_buffer_size <= c.pos)
  /\ \/ c.read_buffer_size = 0 \/ c.write_buffer_size = 0
     \/ c.read_buffer + c.read_buffer_size <= c.write_buffer
     \/ c.write_buffer + c.write_buffer_size <= c.read_buffer

\* What has been read: in the buffer, in order, with never more than half of
\* the pool left for more.
Reading(c, g) ==
  /\ c.read_buffer_offset <= c.read_buffer_size
  /\ c.read_buffer_size - c.read_buffer_offset <= HalfPool
  /\ c.read_buffer_offset <= g
  /\ \A i \in 0 .. c.read_buffer_offset - 1 :
       c.mem[c.read_buffer + i] = g - c.read_buffer_offset + 1 + i

Base(c, g) == c \in Connections /\ g \in Nat /\ Layout(c) /\ Reading(c, g)

\* A byte that may be part of a string: allocated, in no buffer, and read
\* from the client or zero.
Clean(c, i) ==
  /\ i \in 0 .. PoolSize - 1
  /\ i < c.pos \/ i >= c.end
  /\ ~(c.read_buffer <= i /\ i < c.read_buffer + c.read_buffer_size)
  /\ ~(c.write_buffer <= i /\ i < c.write_buffer + c.write_buffer_size)
  /\ c.mem[i] >= NUL

\* A string: clean bytes up to a zero.
Good(c, a) ==
  \E e \in 0 .. PoolSize - 1 :
    /\ a \in 0 .. e /\ c.mem[e] = NUL
    /\ \A i \in a .. e : Clean(c, i)

GoodEntry(c, h) ==
  /\ h.key = NULL \/ Good(c, h.key)
  /\ h.value = NULL \/ Good(c, h.value)
  /\ h.kind = "header" => h.value # NULL

Texts(c) ==
  /\ c.url = NULL \/ Good(c, c.url)
  /\ c.last = NULL \/ Good(c, c.last)
  /\ c.colon = NULL \/ Good(c, c.colon)
  /\ \A i \in DOMAIN c.headers : GoodEntry(c, c.headers[i])

\* A line to be continued is there; a reply that was sent has no block.
Control(c) ==
  /\ c.state = "HEADER_PART_RECEIVED" => c.last # NULL /\ c.colon # NULL
  /\ c.state \in {"HEADERS_SENT", "BODY_READY", "FOOTERS_SENT"} =>
       c.write_buffer_size = 0

\* LineLength and HasLine by the bytes of the stream: g received, o of them
\* in the buffer.
LineAt(g, o) ==
  LET e == {i \in 0 .. o - 1 : wire[g - o + 1 + i] \in {"\r", "\n"}}
  IN  IF e = {} THEN o - 1 ELSE CHOOSE i \in e : \A j \in e : i <= j

LineThere(g, o) ==
  /\ o > 0
  /\ LineAt(g, o) < o - 1 \/ wire[g - o + 1 + LineAt(g, o)] = "\n"

CR(i) == wire[i] = "\r"

NL(i) == wire[i] = "\n"

Arrived(g) == g <= Len(wire)

\* Where a stream without empty lines in front of a request is: what was read
\* beyond a line fits into the buffer of the next request, nobody waits with a
\* line at hand, and a request is over after an empty line.
Place(c, g, p) ==
  LET o == c.read_buffer_offset
      q == g - o
  IN  /\ LineThere(g, o) => o - (LineAt(g, o) + 1) <= HalfPool
      /\ c.state \notin ReadingStates /\ ~c.read_closed => o <= HalfPool
      /\ p \in {"wait", "update"} /\ c.state \in ReadingStates => ~LineThere(g, o)
      /\ c.state = "INIT" => q = 0 \/ EmptyLineEnds(wire, q)
      /\ c.state \in ReadingStates \ {"INIT"} => q >= 1 /\ NL(q)
      /\ c.state \notin ReadingStates \cup {"CLOSED"} /\ ~c.read_closed =>
           EmptyLineEnds(wire, q)

Flow(c, g, p) == Arrived(g) /\ (PlainStream => Place(c, g, p))

\* What the stream is made of.
WireInv ==
  /\ wire \in Seq(Bytes)
  /\ \A i \in 1 .. Len(wire) :
       wire[i] = "\r" => i < Len(wire) /\ wire[i + 1] = "\n"

\* The invariant of a connection, with the stream as it is.
Held(c, g, p) == Base(c, g) /\ Texts(c) /\ Control(c) /\ Flow(c, g, p)

Overrun == pc = "overrun" /\ ~PlainStream

BufferInv == WireInv /\ (Overrun \/ Held(con, got, pc))

-----------------------------------------------------------------------------
(* Numbers                                                                 *)

\* A set of numbers that is not empty has a least one.
LEMMA LeastNat ==
  ASSUME NEW T \in SUBSET Nat, T # {}
  PROVE  \E x \in T : \A y \in T : x <= y
<1> DEFINE R == {p \in Nat \X Nat : p[1] < p[2]}
<1>1. R = OpToRel(<, Nat)
  BY DEF OpToRel
<1>2. IsWellFoundedOn(R, Nat)
  BY <1>1, NatLessThanWellFounded
<1> HIDE DEF R
<1>3. PICK x \in T : \A y \in T : ~ (<<y, x>> \in R)
  BY <1>2, WFMin
<1>4. ASSUME NEW y \in T PROVE x <= y
  <2>1. x \in Nat /\ y \in Nat /\ <<y, x>> \notin R
    BY <1>3
  <2>2. ~(y < x)
    BY <2>1 DEF R
  <2> QED
    BY <2>1, <2>2
<1> QED
  BY <1>4

\* Division with remainder.
LEMMA DivMod ==
  ASSUME NEW x \in Int, NEW n \in Nat \ {0}
  PROVE  /\ x \div n \in Int /\ x % n \in 0..(n - 1)
         /\ x = n * (x \div n) + (x % n)
  OBVIOUS

\* Sizes are rounded up.
LEMMA RoundFacts ==
  ASSUME NEW n \in Nat
  PROVE  /\ ROUND_TO_ALIGN(n) \in Nat /\ ROUND_TO_ALIGN(n) >= n
         /\ n = 0 => ROUND_TO_ALIGN(n) = 0
<1> DEFINE A == ALIGN_SIZE
           x == n + A - 1
           q == x \div A
           t == x % A
<1>1. A \in Nat \ {0} /\ x \in Int
  BY PoolAssumption
<1>2. ROUND_TO_ALIGN(n) = q * A
  BY DEF ROUND_TO_ALIGN
<1>3. x = n + A - 1
  OBVIOUS
<1> HIDE DEF A, x
<1>4. q \in Int /\ t \in 0..(A - 1) /\ x = A * q + t
  BY <1>1, DivMod
<1> HIDE DEF q, t
<1>5. q * A \in Int /\ q * A = A * q
  BY <1>1, <1>4
<1>6. q * A >= n
  BY <1>1, <1>3, <1>4, <1>5
<1>7. ASSUME n = 0 PROVE q * A = 0
  <2>1. A * q < A
    BY <1>1, <1>3, <1>4, <1>5, <1>7
  <2>2. ~(q >= 1)
    <3> SUFFICES ASSUME q >= 1 PROVE FALSE
      OBVIOUS
    <3>1. A * q >= A
      BY <1>1, <1>4
    <3> QED
      BY <1>1, <1>5, <2>1, <3>1
  <2>3. ~(q <= -1)
    <3> SUFFICES ASSUME q <= -1 PROVE FALSE
      OBVIOUS
    <3>1. A * q <= -A
      BY <1>1, <1>4
    <3> QED
      BY <1>1, <1>5, <1>6, <3>1
  <2>4. q = 0
    BY <1>4, <2>2, <2>3
  <2> QED
    BY <1>1, <2>4
<1> QED
  BY <1>2, <1>5, <1>6, <1>7

\* Half the pool is a multiple of the alignment, and two increments of the
\* read buffer are no more than that.
LEMMA HalfFacts ==
  /\ PoolSize \in Nat /\ MHD_BUF_INC_SIZE \in Nat /\ MHD_BUF_INC_SIZE > 0
  /\ HalfPool \in Nat /\ HalfPool > 0 /\ 2 * HalfPool = PoolSize
  /\ 2 * MHD_BUF_INC_SIZE <= HalfPool
  /\ ROUND_TO_ALIGN(HalfPool) = HalfPool
<1> DEFINE A == ALIGN_SIZE
           k == PoolSize \div (2 * A)
<1>1. A \in Nat \ {0} /\ 2 * A \in Nat \ {0} /\ PoolSize \in Nat
      /\ PoolSize % (2 * A) = 0
      /\ MHD_BUF_INC_SIZE \in Nat \ {0} /\ 4 * MHD_BUF_INC_SIZE <= PoolSize
  BY PoolAssumption
<1>2. k \in Int /\ PoolSize = (2 * A) * k
  <2> DEFINE B == 2 * A
  <2>1. B \in Nat \ {0} /\ PoolSize % B = 0
    BY <1>1
  <2> HIDE DEF B
  <2>2. PoolSize \div B \in Int /\ PoolSize = B * (PoolSize \div B)
    BY <1>1, <2>1, DivMod
  <2> QED
    BY <2>2 DEF B
<1> HIDE DEF k, A
<1>3. A * k \in Int /\ PoolSize = 2 * (A * k)
  BY <1>1, <1>2
<1>4. HalfPool = A * k
  BY <1>1, <1>3 DEF HalfPool
<1>5. HalfPool \in Nat /\ HalfPool > 0 /\ 2 * HalfPool = PoolSize
      /\ 2 * MHD_BUF_INC_SIZE <= HalfPool
  BY <1>1, <1>3, <1>4
<1>6. ROUND_TO_ALIGN(HalfPool) = HalfPool
  <2> DEFINE x == A * k + A - 1
             q == x \div A
             t == x % A
  <2>1. x \in Int
    BY <1>1, <1>3
  <2>2. x = A * k + A - 1
    OBVIOUS
  <2>3. ROUND_TO_ALIGN(HalfPool) = q * A
    BY <1>4 DEF ROUND_TO_ALIGN, A
  <2> HIDE DEF x
  <2>4. q \in Int /\ t \in 0..(A - 1) /\ x = A * q + t
    BY <1>1, <2>1, DivMod
  <2> HIDE DEF q, t
  <2>5. A * q \in Int /\ A * (q - k) = A * q - A * k
    BY <1>1, <1>2, <2>4
  <2>6. A * (q - k) > -1 /\ A * (q - k) < A /\ q - k \in Int
    BY <1>1, <1>2, <1>3, <2>2, <2>4, <2>5
  <2> DEFINE z == q - k
  <2>7. z = 0
    <3>1. A * z > -1 /\ A * z < A /\ z \in Int
      BY <2>6
    <3> HIDE DEF z
    <3>2. z >= 1 => A * z >= A
      BY <1>1, <3>1
    <3>3. z <= -1 => A * z <= -1
      BY <1>1, <3>1
    <3>4. A * z \in Int
      BY <1>1, <3>1
    <3> QED
      BY <1>1, <3>1, <3>2, <3>3, <3>4
  <2>8. q = k
    BY <1>2, <2>4, <2>7
  <2> QED
    BY <1>1, <1>2, <1>4, <2>3, <2>8
<1> QED
  BY <1>1, <1>5, <1>6

-----------------------------------------------------------------------------
(* Memory                                                                  *)

Memory == [0 .. PoolSize - 1 -> Int]

\* Some cells are overwritten.
LEMMA WriteFacts ==
  ASSUME NEW mem \in Memory, NEW part, DOMAIN part \subseteq 0 .. PoolSize - 1,
         \A i \in DOMAIN part : part[i] \in Int
  PROVE  /\ Write(mem, part) \in Memory
         /\ \A i \in 0 .. PoolSize - 1 :
              Write(mem, part)[i] = IF i \in DOMAIN part THEN part[i] ELSE mem[i]
<1>1. DOMAIN mem \cup DOMAIN part = 0 .. PoolSize - 1
  BY DEF Memory
<1>2. Write(mem, part) = [i \in 0 .. PoolSize - 1 |->
                            IF i \in DOMAIN part THEN part[i] ELSE mem[i]]
  BY <1>1 DEF Write
<1> QED
  BY <1>2 DEF Memory

\* n cells from a on are set to v.
LEMMA FillFacts ==
  ASSUME NEW mem \in Memory, NEW a \in Int, NEW n \in Int, NEW v \in Int,
         n <= 0 \/ (a >= 0 /\ a + n <= PoolSize)
  PROVE  /\ Fill(mem, a, n, v) \in Memory
         /\ \A i \in 0 .. PoolSize - 1 :
              Fill(mem, a, n, v)[i] = IF a <= i /\ i < a + n THEN v ELSE mem[i]
<1> DEFINE part == [i \in a .. a + n - 1 |-> v]
<1>1. PoolSize \in Nat
  BY HalfFacts
<1>2. DOMAIN part = a .. a + n - 1 /\ \A i \in DOMAIN part : part[i] = v
  OBVIOUS
<1> HIDE DEF part
<1>3. DOMAIN part \subseteq 0 .. PoolSize - 1
  BY <1>1, <1>2
<1>4. \A i \in DOMAIN part : part[i] \in Int
  BY <1>2
<1>5. /\ Write(mem, part) \in Memory
      /\ \A i \in 0 .. PoolSize - 1 :
           Write(mem, part)[i] = IF i \in DOMAIN part THEN part[i] ELSE mem[i]
  BY <1>3, <1>4, WriteFacts
<1>6. \A i \in 0 .. PoolSize - 1 : i \in DOMAIN part <=> a <= i /\ i < a + n
  BY <1>1, <1>2
<1>7. Fill(mem, a, n, v) = Write(mem, part)
  BY DEF Fill, part
<1> QED
  BY <1>2, <1>5, <1>6, <1>7

\* n cells are copied.
LEMMA MoveFacts ==
  ASSUME NEW mem \in Memory, NEW to \in Int, NEW from \in Int, NEW n \in Int,
         \/ n <= 0
         \/ to >= 0 /\ to + n <= PoolSize /\ from >= 0 /\ from + n <= PoolSize
  PROVE  /\ memmove(mem, to, from, n) \in Memory
         /\ \A i \in 0 .. PoolSize - 1 :
              memmove(mem, to, from, n)[i] =
                IF to <= i /\ i < to + n THEN mem[from + (i - to)] ELSE mem[i]
<1> DEFINE part == [i \in to .. to + n - 1 |-> mem[from + (i - to)]]
<1>1. PoolSize \in Nat
  BY HalfFacts
<1>2. /\ DOMAIN part = to .. to + n - 1
      /\ \A i \in DOMAIN part : part[i] = mem[from + (i - to)]
  OBVIOUS
<1> HIDE DEF part
<1>3. DOMAIN part \subseteq 0 .. PoolSize - 1
  BY <1>1, <1>2
<1>4. \A i \in DOMAIN part : from + (i - to) \in 0 .. PoolSize - 1
  BY <1>1, <1>2
<1>5. \A i \in DOMAIN part : part[i] \in Int
  BY <1>2, <1>4 DEF Memory
<1>6. /\ Write(mem, part) \in Memory
      /\ \A i \in 0 .. PoolSize - 1 :
           Write(mem, part)[i] = IF i \in DOMAIN part THEN part[i] ELSE mem[i]
  BY <1>3, <1>5, WriteFacts
<1>7. \A i \in 0 .. PoolSize - 1 : i \in DOMAIN part <=> to <= i /\ i < to + n
  BY <1>1, <1>2
<1>8. memmove(mem, to, from, n) = Write(mem, part)
  BY DEF memmove, part
<1> QED
  BY <1>2, <1>6, <1>7, <1>8

-----------------------------------------------------------------------------
(* What keeps strings as they are                                          *)

\* Clean bytes stay clean and zeros stay zeros.
Keeps(c, d) ==
  \A i \in 0 .. PoolSize - 1 :
    Clean(c, i) => Clean(d, i) /\ (c.mem[i] = NUL => d.mem[i] = NUL)

\* The strings are the same.
SameTexts(c, d) ==
  d.url = c.url /\ d.last = c.last /\ d.colon = c.colon /\ d.headers = c.headers

\* A string stays one.
LEMMA GoodKept ==
  ASSUME NEW c, NEW d, Keeps(c, d), NEW a, Good(c, a)
  PROVE  Good(d, a)
<1>1. PICK e \in 0 .. PoolSize - 1 :
        /\ a \in 0 .. e /\ c.mem[e] = NUL
        /\ \A i \in a .. e : Clean(c, i)
  BY DEF Good
<1>2. PoolSize \in Nat
  BY HalfFacts
<1>3. \A i \in a .. e : i \in 0 .. PoolSize - 1
  BY <1>1, <1>2
<1>4. \A i \in a .. e : Clean(d, i)
  BY <1>1, <1>3 DEF Keeps
<1>5. e \in a .. e
  BY <1>1, <1>2
<1>6. d.mem[e] = NUL
  BY <1>1, <1>5 DEF Keeps
<1> QED
  BY <1>1, <1>4, <1>6 DEF Good

\* So do all of them.
LEMMA TextsKept ==
  ASSUME NEW c, NEW d, Texts(c), Keeps(c, d), SameTexts(c, d)
  PROVE  Texts(d)
<1>1. \A a : Good(c, a) => Good(d, a)
  BY GoodKept
<1> QED
  BY <1>1 DEF Texts, SameTexts, GoodEntry

LEMMA KeepsTwice ==
  ASSUME NEW c, NEW d, NEW e, Keeps(c, d), Keeps(d, e)
  PROVE  Keeps(c, e)
  BY DEF Keeps

\* The length of a string: as far as the first zero.
LEMMA StrlenFacts ==
  ASSUME NEW c \in Connections, NEW a, Good(c, a)
  PROVE  /\ a \in Nat /\ strlen(c, a) \in Nat
         /\ a + strlen(c, a) \in 0 .. PoolSize - 1
         /\ c.mem[a + strlen(c, a)] = NUL
         /\ \A i \in a .. a + strlen(c, a) : Clean(c, i)
         /\ \A i \in a .. a + strlen(c, a) - 1 : c.mem[i] > NUL
<1>1. PICK e \in 0 .. PoolSize - 1 :
        /\ a \in 0 .. e /\ c.mem[e] = NUL
        /\ \A i \in a .. e : Clean(c, i)
  BY DEF Good
<1>2. PoolSize \in Nat /\ a \in Nat /\ e \in Nat /\ a <= e /\ e < PoolSize
  BY <1>1, HalfFacts
<1> DEFINE T == {n \in Nat : n <= e - a /\ c.mem[a + n] = NUL}
           P(n) == /\ n < PoolSize - a => c.mem[a + n] = NUL
                   /\ \A i \in 0 .. n - 1 : c.mem[a + i] # NUL
           m == strlen(c, a)
<1>3. T \in SUBSET Nat /\ e - a \in T
  BY <1>1, <1>2
<1>4. PICK x \in T : \A y \in T : x <= y
  BY <1>3, LeastNat
<1>5. x \in 0 .. PoolSize - a /\ P(x)
  <2>1. x \in Nat /\ x <= e - a /\ c.mem[a + x] = NUL
    OBVIOUS
  <2>2. ASSUME NEW i \in 0 .. x - 1 PROVE c.mem[a + i] # NUL
    <3>1. i \in Nat /\ i <= e - a /\ ~(x <= i)
      BY <1>2, <2>1
    <3>2. i \notin T
      BY <1>4, <3>1
    <3> QED
      BY <3>1, <3>2
  <2> QED
    BY <1>2, <2>1, <2>2
<1>6. m = CHOOSE n \in 0 .. PoolSize - a : P(n)
  BY DEF strlen
<1>7. m \in 0 .. PoolSize - a /\ P(m)
  <2> HIDE DEF P, m
  <2> QED
    BY <1>5, <1>6
<1> HIDE DEF m
<1>8. m <= e - a
  <2> SUFFICES ASSUME m > e - a PROVE FALSE
    BY <1>2, <1>7
  <2>1. e - a \in 0 .. m - 1 /\ a + (e - a) = e
    BY <1>2, <1>7
  <2> QED
    BY <1>1, <1>7, <2>1
<1>9. c.mem[a + m] = NUL /\ a + m \in 0 .. PoolSize - 1 /\ m \in Nat
  BY <1>2, <1>7, <1>8
<1>10. \A i \in a .. a + m : i \in a .. e
  BY <1>2, <1>8, <1>9
<1>11. \A i \in a .. a + m : Clean(c, i)
  BY <1>1, <1>10
<1>12. ASSUME NEW i \in a .. a + m - 1 PROVE c.mem[i] > NUL
  <2>1. i - a \in 0 .. m - 1 /\ a + (i - a) = i /\ i \in a .. a + m
    BY <1>2, <1>9
  <2>2. c.mem[i] # NUL
    BY <1>7, <2>1
  <2>3. c.mem[i] >= NUL /\ i \in 0 .. PoolSize - 1
    BY <1>11, <2>1 DEF Clean
  <2>4. c.mem[i] \in Int
    BY <2>3 DEF Connections
  <2> QED
    BY <2>2, <2>3, <2>4 DEF NUL
<1> QED
  BY <1>2, <1>9, <1>11, <1>12 DEF m

-----------------------------------------------------------------------------
(* The pool                                                                *)

\* What MHD_pool_reallocate can do.
Reallocated(c, old, old_size, asize, r) ==
  LET moved == c.pos + asize - old_size
  IN  \/ r.at = NULL /\ r.con = c
      \/ /\ c.pos >= old_size /\ c.pos - old_size = old /\ ~(moved > c.end)
         /\ r.at = old
         /\ r.con = [c EXCEPT !.pos = moved,
                       !.mem = Fill(c.mem, moved, old_size - asize, NUL)]
      \/ asize <= old_size /\ r.at = old /\ r.con = c
      \/ /\ ~(c.pos + asize > c.end) /\ ~(asize <= old_size)
         /\ ~(c.pos >= old_size /\ c.pos - old_size = old)
         /\ r.at = c.pos
         /\ r.con = [c EXCEPT !.pos = c.pos + asize,
                       !.mem = memmove(c.mem, c.pos, old, old_size)]

LEMMA ReallocateCases ==
  ASSUME NEW c, NEW old, NEW old_size, NEW new_size
  PROVE  Reallocated(c, old, old_size, ROUND_TO_ALIGN(new_size),
                     MHD_pool_reallocate(c, old, old_size, new_size))
  BY DEF MHD_pool_reallocate, Reallocated

\* What happens to a request and to what was read does not depend on where
\* the buffers are.
SameState(c, d) ==
  /\ d.state = c.state /\ d.read_closed = c.read_closed
  /\ d.read_buffer_offset = c.read_buffer_offset
  /\ d.write_buffer_size = c.write_buffer_size

\* A step within the pool that leaves the request alone.
Harmless(c, d, g) ==
  Base(d, g) /\ Keeps(c, d) /\ SameTexts(c, d) /\ SameState(c, d)

LEMMA NothingDone ==
  ASSUME NEW c, NEW g, Base(c, g)
  PROVE  Harmless(c, c, g)
  BY DEF Harmless, Keeps, SameTexts, SameState

\* Growing the read buffer: what was read stays in it, and nothing else is
\* touched.
LEMMA GrowFacts ==
  ASSUME NEW c, NEW g, Base(c, g),
         c.read_buffer_size - c.read_buffer_offset < MHD_BUF_INC_SIZE
  PROVE  LET r == try_grow_read_buffer(c)
         IN  /\ r.at = NULL => r.con = c
             /\ Harmless(c, r.con, g)
<1> DEFINE os == c.read_buffer_size
           ns == IF os = 0 THEN HalfPool ELSE os + MHD_BUF_INC_SIZE
           asize == ROUND_TO_ALIGN(ns)
           r == MHD_pool_reallocate(c, c.read_buffer, os, ns)
           R == try_grow_read_buffer(c)
           moved == c.pos + asize - os
<1>1. c \in Connections /\ g \in Nat /\ Layout(c) /\ Reading(c, g)
  BY DEF Base
<1>2. /\ c.mem \in Memory /\ c.pos \in Nat /\ c.end \in Nat /\ os \in Nat
      /\ c.read_buffer \in Int /\ c.read_buffer_offset \in Nat
      /\ c.write_buffer \in Int /\ c.write_buffer_size \in Nat
  BY <1>1 DEF Connections, Memory
<1>3. ns \in Nat /\ ns > os /\ asize \in Nat /\ asize >= ns
  <2>1. ns \in Nat /\ ns > os
    BY <1>2, HalfFacts
  <2> QED
    BY <2>1, RoundFacts
<1>4. ns - c.read_buffer_offset <= HalfPool
  BY <1>1, <1>2, HalfFacts DEF Reading
<1>5. R = IF r.at = NULL THEN r
          ELSE [r EXCEPT !.con.read_buffer = r.at, !.con.read_buffer_size = ns]
  BY DEF try_grow_read_buffer
<1>6. \/ r.at = NULL /\ r.con = c
      \/ /\ c.pos >= os /\ c.pos - os = c.read_buffer /\ ~(moved > c.end)
         /\ r.at = c.read_buffer
         /\ r.con = [c EXCEPT !.pos = moved,
                       !.mem = Fill(c.mem, moved, os - asize, NUL)]
      \/ asize <= os /\ r.at = c.read_buffer /\ r.con = c
      \/ /\ ~(c.pos + asize > c.end) /\ ~(asize <= os)
         /\ ~(c.pos >= os /\ c.pos - os = c.read_buffer)
         /\ r.at = c.pos
         /\ r.con = [c EXCEPT !.pos = c.pos + asize,
                       !.mem = memmove(c.mem, c.pos, c.read_buffer, os)]
  <2>1. Reallocated(c, c.read_buffer, os, asize, r)
    BY ReallocateCases
  <2> QED
    BY <2>1 DEF Reallocated
<1>7. DOMAIN r = {"at", "con"}
  BY DEF MHD_pool_reallocate
<1> HIDE DEF r, R, ns
<1>8. CASE r.at = NULL
  <2>1. r.con = c
    BY <1>2, <1>3, <1>6, <1>8 DEF NULL
  <2> QED
    BY <1>5, <1>8, <2>1, NothingDone DEF R
<1>9. ASSUME r.at # NULL PROVE R.at # NULL /\ R.con = [r.con EXCEPT
               !.read_buffer = r.at, !.read_buffer_size = ns]
  BY <1>5, <1>7, <1>9
<1>10. CASE /\ c.pos >= os /\ c.pos - os = c.read_buffer /\ ~(moved > c.end)
            /\ r.at = c.read_buffer
            /\ r.con = [c EXCEPT !.pos = moved,
                          !.mem = Fill(c.mem, moved, os - asize, NUL)]
  <2>1. r.at # NULL
    BY <1>2, <1>10 DEF NULL
  <2> DEFINE m == Fill(c.mem, moved, os - asize, NUL)
             d == [c EXCEPT !.pos = moved, !.mem = m, !.read_buffer_size = ns]
  <2>2. m \in Memory /\ \A i \in 0 .. PoolSize - 1 : m[i] = c.mem[i]
    <3>1. moved \in Int /\ os - asize \in Int /\ os - asize <= 0 /\ NUL \in Int
      BY <1>2, <1>3 DEF NUL
    <3> QED
      BY <1>2, <1>3, <3>1, FillFacts
  <2> HIDE DEF m
  <2>3. R.con = d
    <3>1. R.con = [[c EXCEPT !.pos = moved, !.mem = m] EXCEPT
                     !.read_buffer = r.at, !.read_buffer_size = ns]
      BY <1>9, <1>10, <2>1 DEF m
    <3>2. r.at = c.read_buffer
      BY <1>10
    <3> QED
      BY <1>1, <3>1, <3>2 DEF Connections
  <2>4. d \in Connections
    <3>1. moved \in Nat /\ ns \in Nat /\ m \in [0 .. PoolSize - 1 -> Int]
      BY <1>2, <1>3, <1>10, <2>2 DEF Memory
    <3> HIDE DEF moved
    <3> QED
      BY <1>1, <3>1 DEF Connections
  <2>5. /\ d.pos = moved /\ d.end = c.end /\ d.mem = m
        /\ d.read_buffer = c.read_buffer /\ d.read_buffer_size = ns
        /\ d.read_buffer_offset = c.read_buffer_offset
        /\ d.write_buffer = c.write_buffer
        /\ d.write_buffer_size = c.write_buffer_size
        /\ SameTexts(c, d) /\ SameState(c, d)
    BY <1>1 DEF Connections, SameTexts, SameState
  <2> HIDE DEF d
  <2>6. Layout(d)
    BY <1>1, <1>2, <1>3, <1>10, <2>5 DEF Layout
  <2>7. Reading(d, g)
    <3>1. \A i \in 0 .. c.read_buffer_offset - 1 :
            c.read_buffer + i \in 0 .. PoolSize - 1
      BY <1>1, <1>2, <1>10, HalfFacts DEF Layout, Reading
    <3>2. \A i \in 0 .. c.read_buffer_offset - 1 :
            d.mem[d.read_buffer + i] = g - d.read_buffer_offset + 1 + i
      BY <1>1, <2>2, <2>5, <3>1 DEF Reading
    <3> QED
      BY <1>1, <1>2, <1>3, <1>4, <2>5, <3>2 DEF Reading
  <2>8. Keeps(c, d)
    BY <1>1, <1>2, <1>3, <1>10, <2>2, <2>5 DEF Keeps, Clean, Layout
  <2> QED
    BY <1>1, <1>9, <2>1, <2>3, <2>4, <2>5, <2>6, <2>7, <2>8 DEF Base, Harmless, R
<1>11. CASE asize <= os
  BY <1>2, <1>3, <1>11
<1>12. CASE /\ ~(c.pos + asize > c.end)
            /\ r.at = c.pos
            /\ r.con = [c EXCEPT !.pos = c.pos + asize,
                          !.mem = memmove(c.mem, c.pos, c.read_buffer, os)]
  <2>1. r.at # NULL
    BY <1>2, <1>12 DEF NULL
  <2> DEFINE m == memmove(c.mem, c.pos, c.read_buffer, os)
             d == [c EXCEPT !.pos = c.pos + asize, !.mem = m,
                            !.read_buffer = c.pos, !.read_buffer_size = ns]
  <2>2. /\ m \in Memory
        /\ \A i \in 0 .. PoolSize - 1 :
             m[i] = IF c.pos <= i /\ i < c.pos + os
                    THEN c.mem[c.read_buffer + (i - c.pos)] ELSE c.mem[i]
    <3>1. \/ os <= 0
          \/ /\ c.pos >= 0 /\ c.pos + os <= PoolSize /\ c.read_buffer >= 0
             /\ c.read_buffer + os <= PoolSize
      BY <1>1, <1>2, <1>3, <1>12, HalfFacts DEF Layout
    <3>2. c.pos \in Int /\ os \in Int
      BY <1>2
    <3> QED
      BY <1>2, <3>1, <3>2, MoveFacts
  <2> HIDE DEF m
  <2>3. R.con = d
    <3>1. R.con = [[c EXCEPT !.pos = c.pos + asize, !.mem = m] EXCEPT
                     !.read_buffer = r.at, !.read_buffer_size = ns]
      BY <1>9, <1>12, <2>1 DEF m
    <3>2. r.at = c.pos
      BY <1>12
    <3> QED
      BY <1>1, <3>1, <3>2 DEF Connections
  <2>4. d \in Connections
    <3> DEFINE p == c.pos + asize
    <3>1. /\ p \in Nat /\ c.pos \in Int /\ ns \in Nat
          /\ m \in [0 .. PoolSize - 1 -> Int]
      BY <1>2, <1>3, <2>2 DEF Memory
    <3> HIDE DEF p
    <3>2. [c EXCEPT !.pos = p, !.mem = m, !.read_buffer = c.pos,
                    !.read_buffer_size = ns] \in Connections
      BY <1>1, <3>1 DEF Connections
    <3> QED
      BY <3>2 DEF p
  <2>5. /\ d.pos = c.pos + asize /\ d.end = c.end /\ d.mem = m
        /\ d.read_buffer = c.pos /\ d.read_buffer_size = ns
        /\ d.read_buffer_offset = c.read_buffer_offset
        /\ d.write_buffer = c.write_buffer
        /\ d.write_buffer_size = c.write_buffer_size
        /\ SameTexts(c, d) /\ SameState(c, d)
    BY <1>1 DEF Connections, SameTexts, SameState
  <2> HIDE DEF d
  <2>6. Layout(d)
    BY <1>1, <1>2, <1>3, <1>12, <2>5 DEF Layout
  <2>7. Reading(d, g)
    <3>1. ASSUME NEW i \in 0 .. c.read_buffer_offset - 1
          PROVE  d.mem[d.read_buffer + i] = g - d.read_buffer_offset + 1 + i
      <4>1. /\ c.pos + i \in 0 .. PoolSize - 1
            /\ c.pos <= c.pos + i /\ c.pos + i < c.pos + os
            /\ c.read_buffer + ((c.pos + i) - c.pos) = c.read_buffer + i
        BY <1>1, <1>2, <1>3, <1>12, HalfFacts DEF Layout, Reading
      <4>2. m[c.pos + i] = c.mem[c.read_buffer + i]
        BY <2>2, <4>1
      <4> QED
        BY <1>1, <2>5, <4>2 DEF Reading
    <3> QED
      BY <1>1, <1>2, <1>3, <1>4, <2>5, <3>1 DEF Reading
  <2>8. Keeps(c, d)
    <3> SUFFICES ASSUME NEW i \in 0 .. PoolSize - 1, Clean(c, i)
                 PROVE  Clean(d, i) /\ (c.mem[i] = NUL => d.mem[i] = NUL)
      BY DEF Keeps
    <3>1. i \in Int /\ (i < c.pos \/ i >= c.end) /\ c.mem[i] >= NUL
      BY HalfFacts DEF Clean
    <3>2. m[i] = c.mem[i]
      BY <1>2, <1>3, <1>12, <2>2, <3>1
    <3> QED
      BY <1>1, <1>2, <1>3, <1>12, <2>5, <3>1, <3>2 DEF Clean, Layout
  <2> QED
    BY <1>1, <1>9, <2>1, <2>3, <2>4, <2>5, <2>6, <2>7, <2>8 DEF Base, Harmless, R
<1> QED
  BY <1>6, <1>8, <1>10, <1>11, <1>12

-----------------------------------------------------------------------------
(* Refusing, closing and replying                                          *)

\* The pool and its blocks are the same.
SamePool(c, d) ==
  /\ d.mem = c.mem /\ d.pos = c.pos /\ d.end = c.end
  /\ d.read_buffer = c.read_buffer /\ d.read_buffer_size = c.read_buffer_size
  /\ d.read_buffer_offset = c.read_buffer_offset
  /\ d.write_buffer = c.write_buffer
  /\ d.write_buffer_size = c.write_buffer_size

LEMMA PoolKept ==
  ASSUME NEW c, NEW d, NEW g, Base(c, g), d \in Connections, SamePool(c, d)
  PROVE  Base(d, g) /\ Keeps(c, d)
<1>1. Layout(d) /\ Reading(d, g) /\ g \in Nat
  BY DEF Base, SamePool, Layout, Reading
<1>2. Keeps(c, d)
  BY DEF SamePool, Keeps, Clean
<1> QED
  BY <1>1, <1>2 DEF Base

\* What the closing of a connection leaves.
LEMMA CloseFacts ==
  ASSUME NEW c, NEW g, Base(c, g)
  PROVE  /\ Base(Close(c), g) /\ Keeps(c, Close(c)) /\ SameTexts(c, Close(c))
         /\ Close(c).state = "CLOSED"
         /\ Close(c).read_closed = c.read_closed
         /\ Close(c).read_buffer_offset = c.read_buffer_offset
<1> DEFINE d == Close(c)
<1>1. c \in Connections
  BY DEF Base
<1>2. d \in Connections /\ SamePool(c, d) /\ SameTexts(c, d)
      /\ d.state = "CLOSED" /\ d.read_closed = c.read_closed
  <2>1. d \in Connections
    BY <1>1 DEF Connections, States, Close
  <2>2. SamePool(c, d) /\ SameTexts(c, d) /\ d.state = "CLOSED"
    BY <1>1 DEF Connections, Close, SamePool, SameTexts
  <2>3. d.read_closed = c.read_closed
    BY <1>1, Zenon DEF Connections, Close
  <2> QED
    BY <2>1, <2>2, <2>3
<1> HIDE DEF d
<1>3. Base(d, g) /\ Keeps(c, d)
  BY <1>2, PoolKept
<1> QED
  BY <1>2, <1>3 DEF SamePool, d

\* The reply is under way, or the connection is closed for want of memory.
Replied(c, d, g) ==
  /\ Base(d, g) /\ Keeps(c, d) /\ SameTexts(c, d)
  /\ d.state \in {"HEADERS_SENDING", "CLOSED"}
  /\ d.read_buffer_offset = c.read_buffer_offset

LEMMA HeadFacts ==
  ASSUME NEW c, NEW g, Base(c, g), CanAllocate(c, ReplySize + 1)
  PROVE  LET d == build_header_response(c)
         IN  Replied(c, d, g) /\ d.read_closed = c.read_closed
<1> DEFINE n == ReplySize + 1
           a == ROUND_TO_ALIGN(n)
           p == c.pos + a
           m == Fill(c.mem, c.pos, ReplySize, REPLY)
           d == build_header_response(c)
<1>1. c \in Connections /\ g \in Nat /\ Layout(c) /\ Reading(c, g)
  BY DEF Base
<1>2. /\ c.mem \in Memory /\ c.pos \in Nat /\ c.end \in Nat
      /\ c.read_buffer \in Int /\ c.read_buffer_size \in Nat
      /\ c.read_buffer_offset \in Nat
      /\ c.write_buffer \in Int /\ c.write_buffer_size \in Nat
  BY <1>1 DEF Connections, Memory
<1>3. n \in Nat /\ a \in Nat /\ a >= n /\ p \in Nat /\ ReplySize \in Nat
  <2>1. n \in Nat /\ ReplySize \in Nat
    BY PoolAssumption
  <2>2. a \in Nat /\ a >= n
    BY <2>1, RoundFacts
  <2> QED
    BY <1>2, <2>1, <2>2
<1>4. p <= c.end
  BY DEF CanAllocate
<1>5. /\ m \in Memory
      /\ \A i \in 0 .. PoolSize - 1 :
           m[i] = IF c.pos <= i /\ i < c.pos + ReplySize THEN REPLY ELSE c.mem[i]
  <2>1. /\ c.pos \in Int /\ ReplySize \in Int /\ REPLY \in Int
        /\ c.pos >= 0 /\ c.pos + ReplySize <= PoolSize
    BY <1>1, <1>2, <1>3, <1>4, HalfFacts DEF Layout, REPLY
  <2> QED
    BY <1>2, <2>1, FillFacts
<1>6. d = [[c EXCEPT !.pos = p] EXCEPT
             !.write_buffer = c.pos, !.write_buffer_size = n,
             !.sent = 0, !.state = "HEADERS_SENDING", !.mem = m]
  BY <1>1 DEF build_header_response, AllocateInFront, Connections
<1>7. m \in [0 .. PoolSize - 1 -> Int] /\ c.pos \in Int
  BY <1>2, <1>5 DEF Memory
<1> HIDE DEF m, p, n, d
<1>8. /\ d \in Connections
      /\ d.pos = p /\ d.end = c.end /\ d.mem = m
      /\ d.read_buffer = c.read_buffer
      /\ d.read_buffer_size = c.read_buffer_size
      /\ d.read_buffer_offset = c.read_buffer_offset
      /\ d.write_buffer = c.pos /\ d.write_buffer_size = n
      /\ d.state = "HEADERS_SENDING" /\ d.read_closed = c.read_closed
      /\ SameTexts(c, d)
  <2>1. d \in Connections
    <3> DEFINE e == [c EXCEPT !.pos = p, !.mem = m]
               f == [e EXCEPT !.write_buffer = c.pos, !.write_buffer_size = n]
    <3>1. e \in Connections
      BY <1>1, <1>3, <1>7 DEF Connections
    <3>2. d = [[e EXCEPT !.write_buffer = c.pos, !.write_buffer_size = n] EXCEPT
                 !.sent = 0, !.state = "HEADERS_SENDING"]
      BY <1>1, <1>6 DEF Connections
    <3>3. d = [f EXCEPT !.sent = 0, !.state = "HEADERS_SENDING"]
      BY <3>2
    <3> HIDE DEF e
    <3>4. f \in Connections
      BY <1>3, <1>7, <3>1 DEF Connections
    <3> HIDE DEF f
    <3> QED
      BY 0 \in Int, <3>3, <3>4 DEF Connections, States
  <2>2. /\ d.pos = p /\ d.end = c.end /\ d.mem = m
        /\ d.read_buffer = c.read_buffer
        /\ d.read_buffer_size = c.read_buffer_size
        /\ d.read_buffer_offset = c.read_buffer_offset
        /\ d.write_buffer = c.pos /\ d.write_buffer_size = n
        /\ d.state = "HEADERS_SENDING" /\ SameTexts(c, d)
    BY <1>1, <1>6 DEF Connections, SameTexts
  <2>3. d.read_closed = c.read_closed
    BY <1>1, <1>6, Zenon DEF Connections
  <2> QED
    BY <2>1, <2>2, <2>3
<1>9. n = ReplySize + 1 /\ p = c.pos + a
  BY DEF n, p
<1> HIDE DEF a
<1>10. Layout(d)
  BY <1>1, <1>2, <1>3, <1>4, <1>8, <1>9 DEF Layout
<1>11. Reading(d, g)
  <2>1. \A i \in 0 .. c.read_buffer_offset - 1 :
          /\ c.read_buffer + i \in 0 .. PoolSize - 1
          /\ c.read_buffer + i < c.pos
    BY <1>1, <1>2, HalfFacts DEF Layout, Reading
  <2>2. \A i \in 0 .. c.read_buffer_offset - 1 :
          m[c.read_buffer + i] = c.mem[c.read_buffer + i]
    BY <1>2, <1>3, <1>5, <2>1
  <2> QED
    BY <1>1, <1>8, <2>2 DEF Reading
<1>12. Keeps(c, d)
  <2> SUFFICES ASSUME NEW i \in 0 .. PoolSize - 1, Clean(c, i)
               PROVE  Clean(d, i) /\ (c.mem[i] = NUL => d.mem[i] = NUL)
    BY DEF Keeps
  <2>1. i \in Int /\ (i < c.pos \/ i >= c.end) /\ c.mem[i] >= NUL
    BY HalfFacts DEF Clean
  <2>2. m[i] = c.mem[i]
    BY <1>2, <1>3, <1>4, <1>5, <1>9, <2>1
  <2> QED
    BY <1>2, <1>3, <1>4, <1>8, <1>9, <2>1, <2>2 DEF Clean
<1> QED
  BY <1>1, <1>8, <1>10, <1>11, <1>12 DEF Base, Replied, d

LEMMA SendReplyFacts ==
  ASSUME NEW c, NEW g, Base(c, g)
  PROVE  LET d == SendReply(c)
         IN  Replied(c, d, g) /\ d.read_closed = c.read_closed
<1>1. CASE CanAllocate(c, ReplySize + 1)
  <2>1. SendReply(c) = build_header_response(c)
    BY <1>1 DEF SendReply
  <2> QED
    BY <1>1, <2>1, HeadFacts
<1>2. CASE ~CanAllocate(c, ReplySize + 1)
  <2>1. SendReply(c) = Close(c)
    BY <1>2 DEF SendReply
  <2> QED
    BY <2>1, CloseFacts DEF Replied
<1> QED
  BY <1>1, <1>2

\* A refused request: nothing more is read.
LEMMA ErrorFacts ==
  ASSUME NEW c, NEW g, Base(c, g)
  PROVE  LET d == transmit_error_response(c)
         IN  Replied(c, d, g) /\ d.read_closed = TRUE
<1> DEFINE t == [c EXCEPT !.read_closed = TRUE, !.response = "error",
                          !.keepalive = FALSE]
           d == transmit_error_response(c)
<1>1. c \in Connections
  BY DEF Base
<1>2. t \in Connections /\ SamePool(c, t) /\ SameTexts(c, t)
      /\ t.read_closed = TRUE
  <2>1. t \in Connections
    BY <1>1 DEF Connections
  <2>2. SamePool(c, t) /\ SameTexts(c, t)
    BY <1>1 DEF Connections, SamePool, SameTexts
  <2>3. t.read_closed = TRUE
    BY <1>1, Zenon DEF Connections
  <2> QED
    BY <2>1, <2>2, <2>3
<1>3. d = SendReply(t)
  BY DEF transmit_error_response
<1> HIDE DEF t, d
<1>4. Base(t, g) /\ Keeps(c, t)
  BY <1>2, PoolKept
<1>5. Replied(t, d, g) /\ d.read_closed = t.read_closed
  BY <1>3, <1>4, SendReplyFacts
<1>6. Keeps(c, d)
  BY <1>4, <1>5, KeepsTwice DEF Replied
<1> QED
  BY <1>2, <1>5, <1>6 DEF Replied, SamePool, SameTexts, d

Refused(c, d, g) == Replied(c, d, g) /\ d.read_closed = TRUE

\* A full read buffer grows, or the request is refused.
LEMMA GrowIfFullFacts ==
  ASSUME NEW c, NEW g, Base(c, g)
  PROVE  Harmless(c, GrowIfFull(c), g) \/ Refused(c, GrowIfFull(c), g)
<1>1. CASE c.read_buffer_offset # c.read_buffer_size
  <2>1. GrowIfFull(c) = c
    BY <1>1 DEF GrowIfFull
  <2> QED
    BY <2>1, NothingDone
<1>2. CASE c.read_buffer_offset = c.read_buffer_size
  <2>1. c.read_buffer_size - c.read_buffer_offset < MHD_BUF_INC_SIZE
    BY <1>2, HalfFacts DEF Base, Connections
  <2>2. Harmless(c, try_grow_read_buffer(c).con, g)
    BY <2>1, GrowFacts
  <2>3. CASE try_grow_read_buffer(c).at = NULL
    <3>1. GrowIfFull(c) = transmit_error_response(c)
      BY <1>2, <2>3 DEF GrowIfFull
    <3> QED
      BY <3>1, ErrorFacts DEF Refused
  <2>4. CASE try_grow_read_buffer(c).at # NULL
    <3>1. GrowIfFull(c) = try_grow_read_buffer(c).con
      BY <1>2, <2>4 DEF GrowIfFull
    <3> QED
      BY <2>2, <3>1
  <2> QED
    BY <2>3, <2>4
<1> QED
  BY <1>1, <1>2

LEMMA NoLineFacts ==
  ASSUME NEW c, NEW g, Base(c, g)
  PROVE  Harmless(c, NoLine(c), g) \/ Refused(c, NoLine(c), g)
<1>1. NoLine(c) = c \/ NoLine(c) = GrowIfFull(c)
  BY DEF NoLine
<1> QED
  BY <1>1, NothingDone, GrowIfFullFacts

-----------------------------------------------------------------------------
(* Cutting a line apart                                                    *)

\* Clean bytes with a zero at their end: every address in it is a string.
Run(c, a, b) ==
  /\ a \in Nat /\ b \in 0 .. PoolSize - 1 /\ a <= b /\ c.mem[b] = NUL
  /\ \A i \in a .. b : Clean(c, i)

LEMMA RunGood ==
  ASSUME NEW c, NEW a, NEW b, Run(c, a, b), NEW x \in a .. b
  PROVE  Good(c, x)
<1>1. /\ a \in Nat /\ b \in 0 .. PoolSize - 1 /\ c.mem[b] = NUL
      /\ \A i \in a .. b : Clean(c, i)
  BY DEF Run
<1>2. x \in 0 .. b /\ \A i \in x .. b : i \in a .. b
  BY <1>1, HalfFacts
<1> QED
  BY <1>1, <1>2 DEF Good

LEMMA RunKept ==
  ASSUME NEW c, NEW d, Keeps(c, d), NEW a, NEW b, Run(c, a, b)
  PROVE  Run(d, a, b)
<1>1. /\ a \in Nat /\ b \in 0 .. PoolSize - 1 /\ a <= b /\ c.mem[b] = NUL
      /\ \A i \in a .. b : Clean(c, i)
  BY DEF Run
<1>2. b \in a .. b /\ \A i \in a .. b : i \in 0 .. PoolSize - 1
  BY <1>1, HalfFacts
<1> QED
  BY <1>1, <1>2 DEF Run, Keeps

\* A string is a run as long as it is.
LEMMA GoodRun ==
  ASSUME NEW c \in Connections, NEW a, Good(c, a)
  PROVE  Run(c, a, a + strlen(c, a))
<1>1. a <= a + strlen(c, a)
  BY StrlenFacts
<1> QED
  BY <1>1, StrlenFacts DEF Run

\* Bytes of strings are overwritten with zeros.
LEMMA ZeroFacts ==
  ASSUME NEW c, NEW g, Base(c, g), NEW S, \A i \in S : Clean(c, i)
  PROVE  Harmless(c, Zero(c, S), g)
<1> DEFINE part == [i \in S |-> NUL]
           m == Write(c.mem, part)
           d == Zero(c, S)
<1>1. c \in Connections /\ g \in Nat /\ Layout(c) /\ Reading(c, g)
  BY DEF Base
<1>2. /\ c.mem \in Memory /\ c.pos \in Nat /\ c.end \in Nat
      /\ c.read_buffer \in Int /\ c.read_buffer_size \in Nat
      /\ c.read_buffer_offset \in Nat
  BY <1>1 DEF Connections, Memory
<1>3. /\ m \in Memory
      /\ \A i \in 0 .. PoolSize - 1 : m[i] = IF i \in S THEN NUL ELSE c.mem[i]
  <2>1. DOMAIN part = S /\ \A i \in S : part[i] = NUL
    OBVIOUS
  <2> HIDE DEF part
  <2>2. DOMAIN part \subseteq 0 .. PoolSize - 1
    BY <2>1 DEF Clean
  <2>3. \A i \in DOMAIN part : part[i] \in Int
    BY <2>1 DEF NUL
  <2> QED
    BY <1>2, <2>1, <2>2, <2>3, WriteFacts
<1>4. d = [c EXCEPT !.mem = m]
  BY DEF Zero
<1> HIDE DEF m, d
<1>5. /\ d \in Connections /\ d.mem = m
      /\ d.pos = c.pos /\ d.end = c.end
      /\ d.read_buffer = c.read_buffer
      /\ d.read_buffer_size = c.read_buffer_size
      /\ d.read_buffer_offset = c.read_buffer_offset
      /\ d.write_buffer = c.write_buffer
      /\ d.write_buffer_size = c.write_buffer_size
      /\ SameTexts(c, d) /\ d.state = c.state
  BY <1>1, <1>3, <1>4 DEF Connections, Memory, SameTexts
<1>6. d.read_closed = c.read_closed
  BY <1>1, <1>4, Zenon DEF Connections
<1>7. Layout(d)
  BY <1>1, <1>5 DEF Layout
<1>8. Reading(d, g)
  <2>1. ASSUME NEW i \in 0 .. c.read_buffer_offset - 1
        PROVE  m[c.read_buffer + i] = c.mem[c.read_buffer + i]
    <3>1. /\ c.read_buffer + i \in 0 .. PoolSize - 1
          /\ c.read_buffer <= c.read_buffer + i
          /\ c.read_buffer + i < c.read_buffer + c.read_buffer_size
      BY <1>1, <1>2, HalfFacts DEF Layout, Reading
    <3>2. c.read_buffer + i \notin S
      BY <3>1 DEF Clean
    <3> QED
      BY <1>3, <3>1, <3>2
  <2> QED
    BY <1>1, <1>5, <2>1 DEF Reading
<1>9. Keeps(c, d)
  BY <1>3, <1>5 DEF Keeps, Clean, NUL
<1> QED
  BY <1>1, <1>5, <1>6, <1>7, <1>8, <1>9 DEF Base, Harmless, SameState, d

\* Among finitely many numbers there is a k-th smallest.
Counted(F) ==
  /\ Cardinality(F) \in Nat
  /\ \A k \in 1 .. Cardinality(F) :
       \E i \in F : Cardinality({j \in F : j <= i}) = k

LEMMA Kth ==
  ASSUME NEW a \in Int, NEW b \in Int, NEW F \in SUBSET (a .. b - 1)
  PROVE  Counted(F)
<1> DEFINE f(t) == Cardinality({j \in F : j <= t})
<1>0. \A j \in F : j \in Int /\ a <= j /\ j <= b - 1
  OBVIOUS
<1>1. IsFiniteSet(a .. b - 1)
  BY FS_Interval
<1>2. IsFiniteSet(F) /\ Cardinality(F) \in Nat
  BY <1>1, FS_Subset, FS_CardinalityType
<1>3. ASSUME NEW t PROVE f(t) \in Nat /\ IsFiniteSet({j \in F : j <= t})
  <2>1. {j \in F : j <= t} \subseteq F
    OBVIOUS
  <2> QED
    BY <1>2, <2>1, FS_Subset, FS_CardinalityType
<1>4. ASSUME NEW k \in 1 .. Cardinality(F)
      PROVE  \E i \in F : f(i) = k
  <2> DEFINE T == {u \in Nat : f(a - 1 + u) >= k}
  <2>1. T # {}
    <3>1. CASE b >= a
      <4>1. {j \in F : j <= a - 1 + (b - a)} = F
        <5>1. \A j \in F : j <= a - 1 + (b - a)
          BY <1>0
        <5> QED
          BY <5>1
      <4>2. f(a - 1 + (b - a)) >= k /\ b - a \in Nat
        BY <1>2, <3>1, <4>1
      <4>3. b - a \in T
        BY <4>2
      <4> QED
        BY <4>3
    <3>2. CASE b < a
      <4>1. F = {}
        BY <3>2
      <4>2. Cardinality(F) = 0
        BY <4>1, FS_EmptySet
      <4> QED
        BY <4>2
    <3>3. b >= a \/ b < a
      OBVIOUS
    <3> QED
      BY <3>1, <3>2, <3>3
  <2>2. PICK u \in T : \A y \in T : u <= y
    <3>1. T \in SUBSET Nat
      OBVIOUS
    <3> QED
      BY <2>1, <3>1, LeastNat
  <2>3. u \in Nat /\ f(a - 1 + u) >= k
    OBVIOUS
  <2>4. u # 0
    <3> SUFFICES ASSUME u = 0 PROVE FALSE
      OBVIOUS
    <3>1. {j \in F : j <= a - 1 + 0} = {}
      <4>1. \A j \in F : ~(j <= a - 1 + 0)
        BY <1>0
      <4> QED
        BY <4>1
    <3>2. f(a - 1 + 0) = 0
      BY <3>1, FS_EmptySet
    <3> QED
      BY <2>3, <3>2
  <2> DEFINE t == a - 1 + u
             s == a - 1 + (u - 1)
  <2>5. t \in Int /\ s \in Int /\ s = t - 1
    BY <2>3
  <2>6. ~(f(s) >= k)
    <3>1. u - 1 \in Nat /\ ~(u <= u - 1)
      BY <2>3, <2>4
    <3>2. u - 1 \notin T
      BY <2>2, <3>1
    <3> QED
      BY <3>1, <3>2
  <2>7. f(t) >= k
    BY <2>3
  <2> HIDE DEF t, s
  <2>8. CASE t \in F
    <3> DEFINE P == {j \in F : j <= s}
               Q == {j \in F : j <= t}
    <3>1. Q = P \cup {t}
      <4>1. \A j \in F : j <= t <=> j <= s \/ j = t
        BY <1>0, <2>5
      <4> QED
        BY <2>8, <4>1
    <3>2. t \notin P /\ IsFiniteSet(P)
      <4>1. ~(t <= s)
        BY <2>5
      <4>2. t \notin P
        BY <4>1
      <4>3. IsFiniteSet(P)
        BY <1>3
      <4> QED
        BY <4>2, <4>3
    <3> HIDE DEF P, Q
    <3>3. Cardinality(Q) = Cardinality(P) + 1
      BY <3>1, <3>2, FS_AddElement
    <3>4. f(t) = f(s) + 1
      BY <3>3 DEF P, Q
    <3>5. f(s) \in Nat /\ k \in Nat
      BY <1>2, <1>3
    <3> HIDE DEF f
    <3>6. f(t) = k
      BY <2>6, <2>7, <3>4, <3>5
    <3> QED
      BY <2>8, <3>6
  <2>9. CASE t \notin F
    <3>1. {j \in F : j <= t} = {j \in F : j <= s}
      <4>1. \A j \in F : j <= t <=> j <= s
        BY <1>0, <2>5, <2>9
      <4> QED
        BY <4>1
    <3> QED
      BY <2>6, <2>7, <3>1
  <2> QED
    BY <2>8, <2>9
<1> QED
  BY <1>2, <1>4 DEF Counted

\* The places of a byte are where they are looked for.
Among(s, a, b) ==
  /\ Len(s) \in Nat /\ DOMAIN s = 1 .. Len(s)
  /\ \A k \in 1 .. Len(s) : s[k] \in a .. b - 1
  /\ s # <<>> => Len(s) >= 1

LEMMA PlacesUpTo ==
  ASSUME NEW c, NEW a \in Int, NEW b \in Int, NEW B, NEW e \in Int,
         \A i \in e .. b - 1 : At(c, i) \notin B
  PROVE  Among(Places(c, a, b, B), a, e)
<1> DEFINE F == {i \in a .. b - 1 : At(c, i) \in B}
           n == Cardinality(F)
           C(k) == CHOOSE i \in F : Cardinality({j \in F : j <= i}) = k
           s == Places(c, a, b, B)
<1>1. s = [k \in 1 .. n |-> C(k)]
  BY DEF Places
<1>2. F \in SUBSET (a .. e - 1)
  <2>1. ASSUME NEW i \in F PROVE i \in a .. e - 1
    <3>1. i \in a .. b - 1 /\ i \notin e .. b - 1
      OBVIOUS
    <3> HIDE DEF F
    <3> QED
      BY <3>1
  <2> QED
    BY <2>1
<1> HIDE DEF F
<1>4. /\ n \in Nat
      /\ \A k \in 1 .. n : \E i \in F : Cardinality({j \in F : j <= i}) = k
  <2>1. Counted(F)
    BY <1>2, Kth
  <2> QED
    BY <2>1 DEF Counted
<1>5. \A k \in 1 .. n : C(k) \in F
  BY <1>4
<1> HIDE DEF n, C, s
<1>6. \A k \in 1 .. n : C(k) \in a .. e - 1
  BY <1>2, <1>5
<1>7. s \in Seq(a .. e - 1) /\ Len(s) = n
  BY <1>1, <1>4, <1>6
<1>8. ASSUME s # <<>> PROVE n >= 1
  <2> SUFFICES ASSUME n = 0 PROVE FALSE
    BY <1>4
  <2>1. Len(s) = 0
    BY <1>7
  <2>2. s = <<>>
    BY <1>7, <2>1
  <2> QED
    BY <1>8, <2>2
<1> QED
  BY <1>1, <1>4, <1>6, <1>7, <1>8 DEF s, Among

LEMMA PlacesFacts ==
  ASSUME NEW c, NEW a \in Int, NEW b \in Int, NEW B
  PROVE  Among(Places(c, a, b, B), a, b)
<1>1. \A i \in b .. b - 1 : At(c, i) \notin B
  <2>1. b .. b - 1 = {}
    OBVIOUS
  <2> QED
    BY <2>1
<1> QED
  BY <1>1, PlacesUpTo

-----------------------------------------------------------------------------
(* Records                                                                 *)

\* Entries were added, or as many as there was room for.
Added(c, d, g) ==
  /\ Base(d, g) /\ Texts(d) /\ Keeps(c, d)
  /\ d.read_buffer_offset = c.read_buffer_offset
  /\ d.read_closed = TRUE \/ d.read_closed = c.read_closed

\* As many records as fit, at the end of the pool.
LEMMA RoomFacts ==
  ASSUME NEW w \in Nat, NEW k \in Nat
  PROVE  LET each == ROUND_TO_ALIGN(RecordSize)
             room == w \div each
             n == IF k <= room THEN k ELSE room
         IN  n \in Nat /\ n <= k /\ n * each \in Nat /\ n * each <= w
<1> DEFINE each == ROUND_TO_ALIGN(RecordSize)
           room == w \div each
           n == IF k <= room THEN k ELSE room
<1>1. each \in Nat /\ each > 0
  BY PoolAssumption, RoundFacts
<1> HIDE DEF each
<1>2. room \in Int /\ (w % each) \in 0 .. (each - 1)
      /\ w = each * room + (w % each)
  BY <1>1, DivMod
<1> HIDE DEF room
<1>3. each * room \in Int /\ each * room <= w /\ each * room > w - each
  BY <1>1, <1>2
<1>4. room \in Nat
  <2> SUFFICES ASSUME room <= -1 PROVE FALSE
    BY <1>2
  <2>1. each * room <= -each
    BY <1>1, <1>2
  <2> QED
    BY <1>1, <1>3, <2>1
<1>5. n \in Nat /\ n <= room /\ n <= k
  BY <1>4
<1> HIDE DEF n
<1>6. each * n \in Nat /\ each * n <= each * room /\ n * each = each * n
  BY <1>1, <1>4, <1>5
<1> QED
  BY <1>3, <1>5, <1>6 DEF n, room, each

\* Only free space is written and given away.
LEMMA SpaceFacts ==
  ASSUME NEW c, NEW d, NEW g, Base(c, g), d \in Connections,
         c.pos <= d.pos, d.pos <= d.end, d.end <= c.end,
         d.read_buffer = c.read_buffer,
         d.read_buffer_size = c.read_buffer_size,
         d.read_buffer_offset = c.read_buffer_offset,
         d.write_buffer = c.write_buffer,
         d.write_buffer_size = c.write_buffer_size,
         \A i \in 0 .. PoolSize - 1 :
           i < c.pos \/ i >= c.end => d.mem[i] = c.mem[i]
  PROVE  Base(d, g) /\ Keeps(c, d)
<1>1. c \in Connections /\ g \in Nat /\ Layout(c) /\ Reading(c, g)
  BY DEF Base
<1>2. /\ c.pos \in Nat /\ c.end \in Nat /\ d.pos \in Nat /\ d.end \in Nat
      /\ c.read_buffer \in Int /\ c.read_buffer_size \in Nat
      /\ c.read_buffer_offset \in Nat
      /\ c.write_buffer \in Int /\ c.write_buffer_size \in Nat
  BY <1>1 DEF Connections
<1>3. Layout(d)
  BY <1>1, <1>2, HalfFacts DEF Layout
<1>4. Reading(d, g)
  <2>1. \A i \in 0 .. c.read_buffer_offset - 1 :
          /\ c.read_buffer + i \in 0 .. PoolSize - 1
          /\ c.read_buffer + i < c.pos
    BY <1>1, <1>2, HalfFacts DEF Layout, Reading
  <2>2. \A i \in 0 .. c.read_buffer_offset - 1 :
          d.mem[c.read_buffer + i] = c.mem[c.read_buffer + i]
    BY <2>1
  <2> QED
    BY <1>1, <2>2 DEF Reading
<1>5. Keeps(c, d)
  <2> SUFFICES ASSUME NEW i \in 0 .. PoolSize - 1, Clean(c, i)
               PROVE  Clean(d, i) /\ (c.mem[i] = NUL => d.mem[i] = NUL)
    BY DEF Keeps
  <2>1. i \in Int /\ (i < c.pos \/ i >= c.end) /\ c.mem[i] >= NUL
    BY HalfFacts DEF Clean
  <2>2. d.mem[i] = c.mem[i]
    BY <2>1
  <2> QED
    BY <1>2, <2>1, <2>2 DEF Clean
<1> QED
  BY <1>1, <1>3, <1>4, <1>5 DEF Base

\* A sequence with the first elements of another behind it.
MadeOf(u, s, t) ==
  \A i \in DOMAIN u : \/ \E j \in DOMAIN s : u[i] = s[j]
                     \/ \E j \in 1 .. Len(t) : u[i] = t[j]

LEMMA ConcatFacts ==
  ASSUME NEW S, NEW s \in Seq(S), NEW t \in Seq(S), NEW n \in Nat, n <= Len(t),
         NEW u, u = s \o SubSeq(t, 1, n)
  PROVE  u \in Seq(S) /\ MadeOf(u, s, t)
<1> DEFINE v == SubSeq(t, 1, n)
<1>1. v \in Seq(S) /\ Len(v) = n /\ \A j \in 1 .. n : v[j] = t[j]
  OBVIOUS
<1>2. Len(s) \in Nat /\ DOMAIN s = 1 .. Len(s) /\ Len(t) \in Nat
  OBVIOUS
<1>0. u = s \o v
  OBVIOUS
<1> HIDE DEF v
<1>3. u \in Seq(S) /\ Len(u) = Len(s) + n /\ DOMAIN u = 1 .. Len(u)
  BY <1>0, <1>1
<1>4. \A i \in 1 .. Len(u) : u[i] = IF i <= Len(s) THEN s[i] ELSE v[i - Len(s)]
  BY <1>1, <1>2, <1>3, <1>0
<1>5. ASSUME NEW i \in DOMAIN u
      PROVE  \/ \E j \in DOMAIN s : u[i] = s[j]
             \/ \E j \in 1 .. Len(t) : u[i] = t[j]
  <2>1. i \in 1 .. Len(u) /\ i \in Nat
    BY <1>3
  <2>2. CASE i <= Len(s)
    <3>1. i \in DOMAIN s /\ u[i] = s[i]
      BY <1>2, <1>4, <2>1, <2>2
    <3> QED
      BY <3>1
  <2>3. CASE i > Len(s)
    <3>1. i - Len(s) \in 1 .. n /\ i - Len(s) \in 1 .. Len(t) /\ ~(i <= Len(s))
      BY <1>2, <1>3, <2>1, <2>3
    <3>2. u[i] = t[i - Len(s)]
      BY <1>1, <1>4, <2>1, <3>1
    <3> QED
      BY <3>1, <3>2
  <2> QED
    BY <1>2, <2>1, <2>2, <2>3
<1> QED
  BY <1>3, <1>5 DEF MadeOf

\* Space is taken at the end of the pool and filled.
LEMMA CarveFacts ==
  ASSUME NEW c, NEW g, Base(c, g), NEW z \in Nat, z <= c.end - c.pos,
         NEW b, b = c.end - z
  PROVE  /\ b \in Nat /\ c.pos <= b /\ b <= c.end
         /\ Fill(c.mem, b, z, RECORD) \in Memory
         /\ \A i \in 0 .. PoolSize - 1 :
              i < c.pos \/ i >= c.end => Fill(c.mem, b, z, RECORD)[i] = c.mem[i]
<1>1. c.end <= PoolSize /\ PoolSize \in Nat
  BY HalfFacts DEF Base, Layout
<1>2. c.mem \in Memory /\ c.pos \in Nat /\ c.end \in Nat
  BY DEF Base, Connections, Memory
<1>3. b \in Nat /\ c.pos <= b /\ b + z = c.end /\ b <= c.end /\ b >= 0
      /\ b + z <= PoolSize /\ b \in Int /\ z \in Int
  BY <1>1, <1>2
<1>4. RECORD \in Int
  BY DEF RECORD
<1>5. /\ Fill(c.mem, b, z, RECORD) \in Memory
      /\ \A i \in 0 .. PoolSize - 1 :
           Fill(c.mem, b, z, RECORD)[i] =
             IF b <= i /\ i < b + z THEN RECORD ELSE c.mem[i]
  BY <1>2, <1>3, <1>4, FillFacts
<1> QED
  BY <1>1, <1>2, <1>3, <1>5

GoodEntries(c, es) ==
  es \in Seq(Entries) /\ \A i \in 1 .. Len(es) : GoodEntry(c, es[i])

LEMMA AddFacts ==
  ASSUME NEW c, NEW g, Base(c, g), Texts(c), NEW es, GoodEntries(c, es)
  PROVE  Added(c, connection_add_headers(c, es), g)
<1> DEFINE each == ROUND_TO_ALIGN(RecordSize)
           room == (c.end - c.pos) \div each
           n == IF Len(es) <= room THEN Len(es) ELSE room
           z == n * each
           b == c.end - z
           m == Fill(c.mem, b, z, RECORD)
           hs == c.headers \o SubSeq(es, 1, n)
           d == [c EXCEPT !.end = b, !.mem = m, !.headers = hs]
<1>1. c \in Connections /\ g \in Nat /\ Layout(c) /\ Reading(c, g)
  BY DEF Base
<1>2. /\ c.mem \in Memory /\ c.pos \in Nat /\ c.end \in Nat
      /\ c.read_buffer \in Int /\ c.read_buffer_size \in Nat
      /\ c.read_buffer_offset \in Nat
      /\ c.write_buffer \in Int /\ c.write_buffer_size \in Nat
  BY <1>1 DEF Connections, Memory
<1>0. c.headers \in Seq(Entries) /\ Len(es) \in Nat /\ es \in Seq(Entries)
  BY <1>1 DEF Connections, GoodEntries
<1>3. n \in Nat /\ n <= Len(es) /\ z \in Nat /\ z <= c.end - c.pos
  <2>1. c.end - c.pos \in Nat
    BY <1>1, <1>2 DEF Layout
  <2> QED
    BY <1>0, <2>1, RoomFacts
<1>4. connection_add_headers(c, es) =
        IF n = Len(es) THEN d ELSE transmit_error_response(d)
  BY DEF connection_add_headers
<1> HIDE DEF n, z
<1>5. /\ b \in Nat /\ c.pos <= b /\ b <= c.end /\ m \in Memory
      /\ \A i \in 0 .. PoolSize - 1 :
           i < c.pos \/ i >= c.end => m[i] = c.mem[i]
  <2>1. b = c.end - z
    OBVIOUS
  <2> HIDE DEF b
  <2> QED
    BY <1>3, <2>1, CarveFacts, Zenon
<1> HIDE DEF b, m
<1>7. hs \in Seq(Entries) /\ MadeOf(hs, c.headers, es)
  <2>1. hs = c.headers \o SubSeq(es, 1, n)
    OBVIOUS
  <2> HIDE DEF hs
  <2>2. /\ c.headers \in Seq(Entries) /\ es \in Seq(Entries)
        /\ n \in Nat /\ n <= Len(es)
    BY <1>0, <1>3
  <2> QED
    BY <2>1, <2>2, ConcatFacts
<1> HIDE DEF hs
<1>8. /\ d \in Connections /\ d.mem = m
      /\ d.pos = c.pos /\ d.end = b
      /\ d.read_buffer = c.read_buffer
      /\ d.read_buffer_size = c.read_buffer_size
      /\ d.read_buffer_offset = c.read_buffer_offset
      /\ d.write_buffer = c.write_buffer
      /\ d.write_buffer_size = c.write_buffer_size
      /\ d.url = c.url /\ d.last = c.last /\ d.colon = c.colon
      /\ d.headers = hs
  BY <1>1, <1>5, <1>7 DEF Connections, Memory
<1>9. d.read_closed = c.read_closed
  BY <1>1, Zenon DEF Connections
<1> HIDE DEF d
<1>12. Base(d, g) /\ Keeps(c, d)
  <2>1. \A i \in 0 .. PoolSize - 1 :
          i < c.pos \/ i >= c.end => d.mem[i] = c.mem[i]
    BY <1>5, <1>8
  <2>2. c.pos <= d.pos /\ d.pos <= d.end /\ d.end <= c.end
    BY <1>2, <1>5, <1>8
  <2> QED
    BY <1>8, <2>1, <2>2, SpaceFacts
<1>13. Texts(d)
  <2>1. \A a : Good(c, a) => Good(d, a)
    BY <1>12, GoodKept
  <2>2. \A h : GoodEntry(c, h) => GoodEntry(d, h)
    BY <2>1 DEF GoodEntry
  <2>3. ASSUME NEW i \in DOMAIN hs PROVE GoodEntry(d, hs[i])
    <3>1. GoodEntry(c, hs[i])
      BY <1>7 DEF Texts, MadeOf, GoodEntries
    <3> QED
      BY <2>2, <3>1
  <2> QED
    BY <1>8, <2>1, <2>3 DEF Texts
<1>15. CASE n = Len(es)
  <2>1. connection_add_headers(c, es) = d
    BY <1>4, <1>15
  <2> QED
    BY <1>8, <1>9, <1>12, <1>13, <2>1 DEF Added
<1>16. CASE n # Len(es)
  <2> DEFINE t == transmit_error_response(d)
  <2>1. connection_add_headers(c, es) = t
    BY <1>4, <1>16
  <2>2. Replied(d, t, g) /\ t.read_closed = TRUE
    BY <1>12, ErrorFacts
  <2> HIDE DEF t
  <2>3. Texts(t) /\ Keeps(c, t)
    BY <1>12, <1>13, <2>2, TextsKept, KeepsTwice DEF Replied
  <2> QED
    BY <1>8, <2>1, <2>2, <2>3 DEF Added, Replied
<1> QED
  BY <1>15, <1>16

-----------------------------------------------------------------------------
(* Lines                                                                   *)

\* The first line was cut apart, or the connection given up.
Parsed(c, d, g) ==
  /\ Base(d, g) /\ Texts(d)
  /\ d.read_buffer_offset = c.read_buffer_offset
  /\ d.read_closed = TRUE \/ d.read_closed = c.read_closed
  /\ d.state \in {"CLOSED", "URL_RECEIVED"}

\* The arguments: each from behind its mark.
LEMMA ArgsFacts ==
  ASSUME NEW c, NEW a, NEW b, Run(c, a, b), NEW marks, Among(marks, a, b),
         NEW kind \in {"arg", "cookie"}, NEW es,
         es = [i \in 1 .. Len(marks) |-> Entry(kind, marks[i] + 1, NULL)]
  PROVE  GoodEntries(c, es)
<1> DEFINE n == Len(marks)
           E(i) == Entry(kind, marks[i] + 1, NULL)
<1>0. es = [i \in 1 .. n |-> E(i)]
  OBVIOUS
<1>1. a \in Nat /\ b \in Nat
  BY HalfFacts DEF Run
<1>2. ASSUME NEW i \in 1 .. n PROVE E(i) \in Entries /\ GoodEntry(c, E(i))
  <2>1. marks[i] + 1 \in a .. b /\ marks[i] + 1 \in Int
    <3>1. marks[i] \in a .. b - 1
      BY DEF Among
    <3> QED
      BY <1>1, <3>1
  <2>2. Good(c, marks[i] + 1)
    BY <2>1, RunGood
  <2>3. E(i) \in Entries
    BY <2>1 DEF Entries, Entry, NULL
  <2>4. E(i).key = marks[i] + 1 /\ E(i).value = NULL /\ E(i).kind = kind
    BY DEF Entry
  <2> HIDE DEF E
  <2> QED
    BY <2>2, <2>3, <2>4 DEF GoodEntry
<1> HIDE DEF n, E
<1>3. n \in Nat
  BY DEF n, Among
<1>4. es \in Seq(Entries) /\ Len(es) = n /\ \A i \in 1 .. n : es[i] = E(i)
  BY <1>0, <1>2, <1>3
<1> QED
  BY <1>2, <1>4 DEF GoodEntries

LEMMA InitialFacts ==
  ASSUME NEW c, NEW g, Base(c, g), Texts(c), NEW line, NEW len \in Nat,
         Run(c, line, line + len)
  PROVE  Parsed(c, parse_initial_message_line(c, line, len), g)
<1> DEFINE spaces == Places(c, line, line + len, {" "})
           uri == spaces[1] + 1
           version == Last(spaces)
           marks == Places(c, uri, version, {"?", "&"})
           args == [i \in 1 .. Len(marks) |-> Entry("arg", marks[i] + 1, NULL)]
           S == ToSet(spaces) \cup ToSet(marks)
           cut == Zero(c, S)
           x == connection_add_headers(cut, args)
           d == parse_initial_message_line(c, line, len)
<1>1. line \in Nat /\ \A i \in line .. line + len : Clean(c, i)
  BY DEF Run
<1>2. /\ Len(spaces) \in Nat /\ DOMAIN spaces = 1 .. Len(spaces)
      /\ \A k \in 1 .. Len(spaces) : spaces[k] \in line .. (line + len) - 1
      /\ spaces # <<>> => Len(spaces) >= 1
  <2>1. line \in Int /\ line + len \in Int
    BY <1>1
  <2>2. Among(spaces, line, line + len)
    BY <2>1, PlacesFacts
  <2> QED
    BY <2>2 DEF Among
<1>3. CASE spaces = <<>>
  <2>1. d = Close(c)
    BY <1>3 DEF parse_initial_message_line
  <2>2. /\ Base(Close(c), g) /\ Keeps(c, Close(c)) /\ SameTexts(c, Close(c))
        /\ Close(c).state = "CLOSED"
        /\ Close(c).read_closed = c.read_closed
        /\ Close(c).read_buffer_offset = c.read_buffer_offset
    BY CloseFacts
  <2>3. Texts(Close(c))
    BY <2>2, TextsKept
  <2> QED
    BY <2>1, <2>2, <2>3 DEF Parsed
<1>4. CASE spaces # <<>>
  <2>1. d = [x EXCEPT !.url = uri, !.state = "URL_RECEIVED"]
    BY <1>4 DEF parse_initial_message_line
  <2>2. version = spaces[Len(spaces)]
    BY DEF Last
  <2> HIDE DEF spaces, version
  <2>3. uri \in line .. line + len /\ version \in line .. (line + len) - 1
        /\ uri \in Int /\ version \in Int
    <3>1. 1 \in 1 .. Len(spaces) /\ Len(spaces) \in 1 .. Len(spaces)
      BY <1>2, <1>4
    <3>2. spaces[1] \in line .. (line + len) - 1
          /\ version \in line .. (line + len) - 1
      BY <1>2, <2>2, <3>1
    <3> QED
      BY <1>1, <3>2
  <2> HIDE DEF uri
  <2>4. /\ Len(marks) \in Nat /\ DOMAIN marks = 1 .. Len(marks)
        /\ \A k \in 1 .. Len(marks) : marks[k] \in uri .. version - 1
        /\ marks # <<>> => Len(marks) >= 1
    <3>1. Among(marks, uri, version)
      BY <2>3, PlacesFacts
    <3> QED
      BY <3>1 DEF Among
  <2> HIDE DEF marks
  <2>5. \A k \in 1 .. Len(marks) : marks[k] \in line .. (line + len) - 1
    BY <1>1, <2>3, <2>4
  <2>6. \A i \in S : i \in line .. line + len
    <3>1. \A i \in S : \/ \E k \in 1 .. Len(spaces) : i = spaces[k]
                       \/ \E k \in 1 .. Len(marks) : i = marks[k]
      BY <1>2, <2>4 DEF ToSet
    <3>2. \A i \in line .. (line + len) - 1 : i \in line .. line + len
      BY <1>1
    <3> QED
      BY <1>2, <2>5, <3>1, <3>2
  <2> HIDE DEF S
  <2>7. Harmless(c, cut, g)
    BY <1>1, <2>6, ZeroFacts
  <2> HIDE DEF cut
  <2>8. Base(cut, g) /\ Texts(cut) /\ Run(cut, line, line + len)
    BY <2>7, TextsKept, RunKept DEF Harmless
  <2>9. GoodEntries(cut, args)
    <3>1. Among(marks, line, line + len)
      BY <2>4, <2>5 DEF Among
    <3>2. args = [i \in 1 .. Len(marks) |-> Entry("arg", marks[i] + 1, NULL)]
      OBVIOUS
    <3>3. "arg" \in {"arg", "cookie"}
      OBVIOUS
    <3> HIDE DEF args
    <3> QED
      BY <2>8, <3>1, <3>2, <3>3, ArgsFacts
  <2> HIDE DEF args
  <2>10. Added(cut, x, g)
    BY <2>8, <2>9, AddFacts
  <2> HIDE DEF x, d
  <2>11. x \in Connections
    BY <2>10 DEF Added, Base
  <2>12. d \in Connections /\ SamePool(x, d) /\ d.state = "URL_RECEIVED"
         /\ d.url = uri /\ d.last = x.last /\ d.colon = x.colon
         /\ d.headers = x.headers
    BY <2>1, <2>3, <2>11 DEF Connections, States, ReadingStates, SamePool
  <2>13. d.read_closed = x.read_closed
    BY <2>1, <2>11, Zenon DEF Connections
  <2>14. Base(d, g) /\ Keeps(x, d)
    BY <2>10, <2>12, PoolKept DEF Added
  <2>15. Good(d, uri)
    <3>1. Keeps(cut, x)
      BY <2>10 DEF Added
    <3>2. Run(x, line, line + len)
      BY <2>8, <3>1, RunKept
    <3>3. Run(d, line, line + len)
      BY <2>14, <3>2, RunKept
    <3> QED
      BY <2>3, <3>3, RunGood
  <2>16. Texts(d)
    <3>1. \A a : Good(x, a) => Good(d, a)
      BY <2>14, GoodKept
    <3> QED
      BY <2>10, <2>12, <2>15, <3>1 DEF Added, Texts, GoodEntry
  <2>17. d.read_buffer_offset = c.read_buffer_offset
    BY <2>7, <2>10, <2>12 DEF Harmless, SameState, Added, SamePool
  <2>18. d.read_closed = TRUE \/ d.read_closed = c.read_closed
    BY <2>7, <2>10, <2>13, Zenon DEF Harmless, SameState, Added
  <2> QED
    BY <2>12, <2>14, <2>16, <2>17, <2>18 DEF Parsed, d
<1> QED
  BY <1>3, <1>4

Blank(c, a) == At(c, a) = " "

\* Spaces come to an end before a string does.
LEMMA SkipFacts ==
  ASSUME NEW c, NEW x \in Nat, NEW y \in Nat, x <= y, c.mem[y] = NUL
  PROVE  \E v \in x .. y : (\A i \in x .. v - 1 : Blank(c, i)) /\ ~Blank(c, v)
<1> DEFINE T == {v \in Nat : x <= v /\ v <= y /\ ~Blank(c, v)}
<1>1. ~Blank(c, y)
  <2>1. ~(c.mem[y] > 0)
    BY DEF NUL
  <2> QED
    BY <2>1, Zenon DEF Blank, At
<1>2. y \in T /\ T \in SUBSET Nat
  BY <1>1
<1>3. PICK v \in T : \A z \in T : v <= z
  BY <1>2, LeastNat
<1>4. v \in x .. y /\ ~Blank(c, v) /\ v \in Nat
  OBVIOUS
<1>5. ASSUME NEW i \in x .. v - 1 PROVE Blank(c, i)
  <2>1. i \in Nat /\ x <= i /\ i <= y /\ ~(v <= i)
    BY <1>4
  <2>2. i \notin T
    BY <1>3, <2>1
  <2> QED
    BY <2>1, <2>2
<1> QED
  BY <1>4, <1>5

\* A header was found, or the request refused.
HeaderLine(c, d, g) ==
  /\ Base(d, g) /\ Texts(d)
  /\ d.read_buffer_offset = c.read_buffer_offset
  /\ \/ /\ d.state = "HEADER_PART_RECEIVED" /\ d.last # NULL /\ d.colon # NULL
        /\ d.read_closed = c.read_closed
     \/ d.state \in {"HEADERS_SENDING", "CLOSED"} /\ d.read_closed = TRUE

LEMMA HeaderFacts ==
  ASSUME NEW c, NEW g, Base(c, g), Texts(c), NEW line, Good(c, line)
  PROVE  HeaderLine(c, process_header_line(c, line), g)
<1> DEFINE end == line + strlen(c, line)
           colons == Places(c, line, end, {":"})
           P(v) == (\A i \in colons[1] + 1 .. v - 1 : Blank(c, i)) /\ ~Blank(c, v)
           value == CHOOSE v \in colons[1] + 1 .. end : P(v)
           z == Zero(c, {colons[1]})
           d == process_header_line(c, line)
<1>0. c \in Connections
  BY DEF Base
<1>1. line \in Nat /\ end \in Nat /\ line <= end /\ end \in 0 .. PoolSize - 1
      /\ Run(c, line, end) /\ c.mem[end] = NUL
  BY <1>0, StrlenFacts, GoodRun
<1>2. CASE colons = <<>>
  <2> DEFINE t == transmit_error_response(Close(c))
  <2>1. d = t
    BY <1>2 DEF process_header_line
  <2>2. /\ Base(Close(c), g) /\ Keeps(c, Close(c)) /\ SameTexts(c, Close(c))
        /\ Close(c).read_buffer_offset = c.read_buffer_offset
    BY CloseFacts
  <2>3. Replied(Close(c), t, g) /\ t.read_closed = TRUE
    BY <2>2, ErrorFacts
  <2> HIDE DEF t
  <2>4. Texts(Close(c))
    BY <2>2, TextsKept
  <2>5. Texts(t)
    BY <2>3, <2>4, TextsKept DEF Replied
  <2> QED
    BY <2>1, <2>2, <2>3, <2>5 DEF HeaderLine, Replied
<1>3. CASE colons # <<>>
  <2>1. d = [z EXCEPT !.last = line, !.colon = value,
                      !.state = "HEADER_PART_RECEIVED"]
    BY <1>3 DEF process_header_line, Blank
  <2> HIDE DEF end
  <2>2. Among(colons, line, end)
    BY <1>1, PlacesFacts
  <2>3. colons[1] \in line .. end - 1
    <3>1. Len(colons) \in Nat /\ Len(colons) >= 1
      BY <1>3, <2>2 DEF Among
    <3>2. 1 \in 1 .. Len(colons)
      BY <3>1
    <3> QED
      BY <2>2, <3>2 DEF Among
  <2> HIDE DEF colons
  <2>4. value \in colons[1] + 1 .. end
    <3>1. colons[1] + 1 \in Nat /\ colons[1] + 1 <= end
      BY <1>1, <2>3
    <3>2. \E v \in colons[1] + 1 .. end : P(v)
      BY <1>1, <3>1, SkipFacts
    <3> HIDE DEF P
    <3> QED
      BY <3>2
  <2> HIDE DEF P, value
  <2>5. value \in line .. end /\ value \in Nat /\ colons[1] \in line .. end
    BY <1>1, <2>3, <2>4
  <2>6. Harmless(c, z, g)
    <3>1. \A i \in {colons[1]} : Clean(c, i)
      BY <1>1, <2>5 DEF Run
    <3> QED
      BY <3>1, ZeroFacts
  <2> HIDE DEF z, d
  <2>7. z \in Connections /\ Base(z, g) /\ Texts(z) /\ Run(z, line, end)
    BY <1>1, <2>6, TextsKept, RunKept DEF Harmless, Base
  <2>8. d \in Connections /\ SamePool(z, d) /\ d.state = "HEADER_PART_RECEIVED"
        /\ d.url = z.url /\ d.last = line /\ d.colon = value
        /\ d.headers = z.headers
    <3>1. line \in Int /\ value \in Int
      BY <1>1, <2>5
    <3>2. d \in Connections
      BY <2>1, <2>7, <3>1 DEF Connections, States, ReadingStates
    <3> QED
      BY <2>1, <2>7, <3>2 DEF Connections, SamePool
  <2>9. d.read_closed = z.read_closed
    BY <2>1, <2>7, Zenon DEF Connections
  <2>10. Base(d, g) /\ Keeps(z, d)
    BY <2>7, <2>8, PoolKept
  <2>11. Good(d, line) /\ Good(d, value)
    <3>1. Run(d, line, end) /\ line \in line .. end
      BY <1>1, <2>7, <2>10, RunKept
    <3> QED
      BY <2>5, <3>1, RunGood
  <2>12. Texts(d)
    <3>1. \A a : Good(z, a) => Good(d, a)
      BY <2>10, GoodKept
    <3> QED
      BY <2>7, <2>8, <2>11, <3>1 DEF Texts, GoodEntry
  <2>13. d.last # NULL /\ d.colon # NULL
    BY <1>1, <2>5, <2>8 DEF NULL
  <2>14. d.read_closed = c.read_closed
    BY <2>6, <2>9, Zenon DEF Harmless, SameState
  <2>15. d.read_buffer_offset = c.read_buffer_offset
    BY <2>6, <2>8 DEF Harmless, SameState, SamePool
  <2> QED
    BY <2>8, <2>10, <2>12, <2>13, <2>14, <2>15 DEF HeaderLine, d
<1> QED
  BY <1>2, <1>3

\* A string is lengthened where it ends, into what was free behind it: the
\* strings that ended there go on, the others are as they were.
LEMMA JoinInPlace ==
  ASSUME NEW c, NEW d, NEW g, Base(c, g), d \in Connections,
         NEW z, Clean(c, z), NEW tmp, Good(c, tmp),
         NEW n, n = strlen(c, tmp),
         c.pos <= d.pos, d.pos <= d.end, d.end = c.end,
         n = 0 \/ (z + 1 = c.pos /\ z + n < d.pos),
         d.read_buffer = c.read_buffer,
         d.read_buffer_size = c.read_buffer_size,
         d.read_buffer_offset = c.read_buffer_offset,
         d.write_buffer = c.write_buffer,
         d.write_buffer_size = c.write_buffer_size,
         \A i \in 0 .. PoolSize - 1 :
           d.mem[i] = IF z <= i /\ i < z + (n + 1)
                      THEN c.mem[tmp + (i - z)] ELSE c.mem[i]
  PROVE  Base(d, g) /\ \A a : Good(c, a) => Good(d, a)
<1>1. c \in Connections /\ g \in Nat /\ Layout(c) /\ Reading(c, g)
  BY DEF Base
<1>2. /\ c.pos \in Nat /\ c.end \in Nat /\ d.pos \in Nat /\ d.end \in Nat
      /\ c.read_buffer \in Int /\ c.read_buffer_size \in Nat
      /\ c.read_buffer_offset \in Nat
      /\ c.write_buffer \in Int /\ c.write_buffer_size \in Nat
  BY <1>1 DEF Connections
<1>3. PoolSize \in Nat /\ c.end <= PoolSize
  BY <1>1, HalfFacts DEF Layout
<1>4. z \in Nat /\ z < PoolSize /\ (z < c.pos \/ z >= c.end)
  BY <1>3 DEF Clean
<1>5. /\ tmp \in Nat /\ n \in Nat /\ tmp + n \in 0 .. PoolSize - 1
      /\ c.mem[tmp + n] = NUL /\ \A i \in tmp .. tmp + n : Clean(c, i)
  BY <1>1, StrlenFacts
<1>6. Layout(d)
  BY <1>1, <1>2, <1>3 DEF Layout
<1>7. Reading(d, g)
  <2>1. ASSUME NEW i \in 0 .. c.read_buffer_offset - 1
        PROVE  d.mem[c.read_buffer + i] = c.mem[c.read_buffer + i]
    <3> DEFINE j == c.read_buffer + i
    <3>1. /\ j \in 0 .. PoolSize - 1 /\ j < c.pos /\ j \in Int
          /\ c.read_buffer <= j /\ j < c.read_buffer + c.read_buffer_size
      BY <1>1, <1>2, <1>3 DEF Layout, Reading
    <3> HIDE DEF j
    <3>2. j # z
      BY <3>1 DEF Clean
    <3>3. ~(z <= j /\ j < z + (n + 1))
      BY <1>2, <1>4, <1>5, <3>1, <3>2
    <3>4. d.mem[j] = c.mem[j]
      BY <3>1, <3>3
    <3> QED
      BY <3>4 DEF j
  <2> QED
    BY <1>1, <2>1 DEF Reading
<1>8. ASSUME NEW i \in 0 .. PoolSize - 1, z <= i, i < z + (n + 1)
      PROVE  d.mem[i] >= NUL
  <2>1. tmp + (i - z) \in tmp .. tmp + n
    BY <1>3, <1>4, <1>5, <1>8
  <2>2. c.mem[tmp + (i - z)] >= NUL
    BY <1>5, <2>1 DEF Clean
  <2> QED
    BY <1>8, <2>2
<1>9. ASSUME NEW i \in 0 .. PoolSize - 1, Clean(c, i) PROVE Clean(d, i)
  <2>1. i \in Int /\ (i < c.pos \/ i >= c.end) /\ c.mem[i] >= NUL
        /\ ~(c.read_buffer <= i /\ i < c.read_buffer + c.read_buffer_size)
        /\ ~(c.write_buffer <= i /\ i < c.write_buffer + c.write_buffer_size)
    BY <1>3, <1>9 DEF Clean
  <2>2. d.mem[i] >= NUL
    BY <1>8, <2>1
  <2>3. i < d.pos \/ i >= d.end
    BY <1>2, <2>1
  <2> QED
    BY <2>1, <2>2, <2>3 DEF Clean
<1>10. ASSUME NEW i \in 0 .. PoolSize - 1, z < i, i < z + (n + 1)
       PROVE  Clean(d, i) /\ ~Clean(c, i)
  <2>1. i \in Int /\ c.pos <= i /\ i < d.pos
    BY <1>2, <1>3, <1>4, <1>5, <1>10
  <2>2. i < c.end
    BY <1>2, <2>1
  <2>3. d.mem[i] >= NUL
    BY <1>4, <1>8, <1>10, <2>1
  <2>4. /\ ~(c.read_buffer <= i /\ i < c.read_buffer + c.read_buffer_size)
        /\ ~(c.write_buffer <= i /\ i < c.write_buffer + c.write_buffer_size)
    BY <1>1, <1>2, <2>1 DEF Layout
  <2>5. ~Clean(c, i)
    BY <1>2, <2>1, <2>2 DEF Clean
  <2> QED
    BY <2>1, <2>3, <2>4, <2>5 DEF Clean
<1>11. ASSUME NEW a, Good(c, a) PROVE Good(d, a)
  <2> DEFINE e == a + strlen(c, a)
  <2>1. a \in Nat /\ e \in 0 .. PoolSize - 1 /\ a <= e /\ c.mem[e] = NUL
        /\ \A i \in a .. e : Clean(c, i)
    BY <1>1, <1>11, StrlenFacts
  <2> HIDE DEF e
  <2>2. e \in Nat /\ e < PoolSize /\ e \in a .. e /\ a \in a .. e
    BY <1>3, <2>1
  <2>3. \A i \in a .. e : i \in 0 .. PoolSize - 1
    BY <1>3, <2>1
  <2>4. \A i \in a .. e : Clean(d, i)
    BY <1>9, <2>1, <2>3
  <2>5. CASE e # z
    <3>1. ~(z <= e /\ e < z + (n + 1))
      BY <1>4, <1>10, <2>1, <2>2, <2>5
    <3>2. d.mem[e] = NUL
      BY <2>1, <3>1
    <3>3. a \in 0 .. e
      BY <2>1
    <3> QED
      BY <2>1, <2>4, <3>2, <3>3 DEF Good
  <2>6. CASE e = z
    <3> DEFINE f == z + n
    <3>1. f \in Nat /\ f <= PoolSize - 1 /\ z <= f /\ f < z + (n + 1)
      BY <1>2, <1>3, <1>4, <1>5
    <3>2. f \in 0 .. PoolSize - 1 /\ tmp + (f - z) = tmp + n
      BY <1>3, <1>4, <1>5, <3>1
    <3> HIDE DEF f
    <3>3. d.mem[f] = NUL
      BY <1>5, <3>1, <3>2
    <3>4. ASSUME NEW i \in a .. f PROVE Clean(d, i)
      <4>1. i \in 0 .. PoolSize - 1 /\ i \in Nat
        BY <1>3, <2>1, <3>1
      <4>2. CASE i <= z
        <5>1. i \in a .. e
          BY <2>1, <2>6, <4>1, <4>2
        <5> QED
          BY <2>4, <5>1
      <4>3. CASE i > z
        <5>1. z < i /\ i < z + (n + 1)
          BY <1>4, <1>5, <3>1, <4>1, <4>3
        <5> QED
          BY <1>10, <4>1, <5>1
      <4> QED
        BY <1>4, <4>1, <4>2, <4>3
    <3>5. a \in 0 .. f
      BY <2>1, <2>2, <2>6, <3>1
    <3> QED
      BY <3>2, <3>3, <3>4, <3>5 DEF Good
  <2> QED
    BY <2>5, <2>6
<1> QED
  BY <1>1, <1>6, <1>7, <1>11 DEF Base

\* Two strings are copied together into what was free.
LEMMA JoinCopied ==
  ASSUME NEW c, NEW d, NEW g, Base(c, g), d \in Connections,
         NEW L, Good(c, L), NEW k, k = strlen(c, L),
         NEW tmp, Good(c, tmp), NEW n, n = strlen(c, tmp),
         c.pos + (k + n + 1) <= d.pos, d.pos <= d.end, d.end = c.end,
         d.read_buffer = c.read_buffer,
         d.read_buffer_size = c.read_buffer_size,
         d.read_buffer_offset = c.read_buffer_offset,
         d.write_buffer = c.write_buffer,
         d.write_buffer_size = c.write_buffer_size,
         NEW m, m = memmove(c.mem, c.pos, L, k + 1),
         d.mem = memmove(m, c.pos + k, tmp, n + 1)
  PROVE  Base(d, g) /\ Keeps(c, d) /\ Good(d, c.pos)
<1>1. c \in Connections /\ g \in Nat /\ Layout(c)
  BY DEF Base
<1>2. /\ c.mem \in Memory
      /\ c.pos \in Nat /\ c.end \in Nat /\ d.pos \in Nat /\ d.end \in Nat
      /\ c.read_buffer \in Int /\ c.read_buffer_size \in Nat
      /\ c.write_buffer \in Int /\ c.write_buffer_size \in Nat
  BY <1>1 DEF Connections, Memory
<1>3. PoolSize \in Nat /\ c.end <= PoolSize
  BY <1>1, HalfFacts DEF Layout
<1>4. /\ L \in Nat /\ k \in Nat /\ L + k \in 0 .. PoolSize - 1
      /\ \A i \in L .. L + k : Clean(c, i)
  BY <1>1, StrlenFacts
<1>5. /\ tmp \in Nat /\ n \in Nat /\ tmp + n \in 0 .. PoolSize - 1
      /\ c.mem[tmp + n] = NUL /\ \A i \in tmp .. tmp + n : Clean(c, i)
  BY <1>1, StrlenFacts
<1>6. /\ m \in Memory
      /\ \A i \in 0 .. PoolSize - 1 :
           m[i] = IF c.pos <= i /\ i < c.pos + (k + 1)
                  THEN c.mem[L + (i - c.pos)] ELSE c.mem[i]
  <2>1. /\ c.pos \in Int /\ L \in Int /\ k + 1 \in Int
        /\ c.pos >= 0 /\ c.pos + (k + 1) <= PoolSize
        /\ L >= 0 /\ L + (k + 1) <= PoolSize
    BY <1>2, <1>3, <1>4, <1>5
  <2> QED
    BY <1>2, <2>1, MoveFacts
<1>7. \A i \in 0 .. PoolSize - 1 :
        d.mem[i] = IF c.pos + k <= i /\ i < (c.pos + k) + (n + 1)
                   THEN m[tmp + (i - (c.pos + k))] ELSE m[i]
  <2>1. /\ c.pos + k \in Int /\ tmp \in Int /\ n + 1 \in Int
        /\ c.pos + k >= 0 /\ (c.pos + k) + (n + 1) <= PoolSize
        /\ tmp >= 0 /\ tmp + (n + 1) <= PoolSize
    BY <1>2, <1>3, <1>4, <1>5
  <2> QED
    BY <1>6, <2>1, MoveFacts
<1>8. Base(d, g) /\ Keeps(c, d)
  <2>1. ASSUME NEW i \in 0 .. PoolSize - 1, i < c.pos \/ i >= c.end
        PROVE  d.mem[i] = c.mem[i]
    <3>1. i \in Int /\ ~(c.pos <= i /\ i < c.pos + (k + 1))
          /\ ~(c.pos + k <= i /\ i < (c.pos + k) + (n + 1))
      BY <1>2, <1>3, <1>4, <1>5, <2>1
    <3> QED
      BY <1>6, <1>7, <3>1
  <2>2. c.pos <= d.pos /\ d.end <= c.end
    BY <1>2, <1>4, <1>5
  <2> QED
    BY <2>1, <2>2, SpaceFacts
<1>9. ASSUME NEW j \in 0 .. n PROVE m[tmp + j] = c.mem[tmp + j] /\ c.mem[tmp + j] >= NUL
  <2>1. tmp + j \in tmp .. tmp + n /\ tmp + j \in 0 .. PoolSize - 1
        /\ tmp + j \in Int
    BY <1>3, <1>5
  <2>2. (tmp + j < c.pos \/ tmp + j >= c.end) /\ c.mem[tmp + j] >= NUL
    BY <1>5, <2>1 DEF Clean
  <2>3. ~(c.pos <= tmp + j /\ tmp + j < c.pos + (k + 1))
    BY <1>2, <1>4, <1>5, <2>1, <2>2
  <2> QED
    BY <1>6, <2>1, <2>2, <2>3
<1> DEFINE f == c.pos + k + n
<1>10. f \in Nat /\ f < d.pos /\ f \in 0 .. PoolSize - 1 /\ f < c.end
       /\ c.pos \in 0 .. f /\ f = (c.pos + k) + n
  BY <1>2, <1>3, <1>4, <1>5
<1> HIDE DEF f
<1>11. d.mem[f] = NUL
  <2>1. /\ c.pos + k <= f /\ f < (c.pos + k) + (n + 1)
        /\ tmp + (f - (c.pos + k)) = tmp + n /\ n \in 0 .. n
    BY <1>2, <1>4, <1>5, <1>10
  <2>2. d.mem[f] = m[tmp + n]
    BY <1>7, <1>10, <2>1
  <2> QED
    BY <1>5, <1>9, <2>1, <2>2
<1>12. ASSUME NEW i \in c.pos .. f PROVE Clean(d, i)
  <2>1. i \in 0 .. PoolSize - 1 /\ i \in Nat /\ i < d.pos /\ c.pos <= i /\ i <= f
    BY <1>2, <1>3, <1>10
  <2>2. /\ ~(c.read_buffer <= i /\ i < c.read_buffer + c.read_buffer_size)
        /\ ~(c.write_buffer <= i /\ i < c.write_buffer + c.write_buffer_size)
    BY <1>1, <1>2, <2>1 DEF Layout
  <2>3. d.mem[i] >= NUL
    <3>1. CASE i < c.pos + k
      <4>1. d.mem[i] = c.mem[L + (i - c.pos)]
        <5>1. ~(c.pos + k <= i /\ i < (c.pos + k) + (n + 1))
              /\ c.pos <= i /\ i < c.pos + (k + 1)
          BY <1>2, <1>4, <2>1, <3>1
        <5> QED
          BY <1>6, <1>7, <2>1, <5>1
      <4>2. L + (i - c.pos) \in L .. L + k
        BY <1>2, <1>4, <2>1, <3>1
      <4> QED
        BY <1>4, <4>1, <4>2 DEF Clean
    <3>2. CASE i >= c.pos + k
      <4> DEFINE j == i - (c.pos + k)
      <4>1. j \in 0 .. n /\ c.pos + k <= i /\ i < (c.pos + k) + (n + 1)
        BY <1>2, <1>4, <1>5, <1>10, <2>1, <3>2
      <4>2. d.mem[i] = m[tmp + j]
        BY <1>7, <2>1, <4>1
      <4> QED
        BY <1>9, <4>1, <4>2
    <3> QED
      BY <1>2, <1>4, <2>1, <3>1, <3>2
  <2> QED
    BY <2>1, <2>2, <2>3 DEF Clean
<1> QED
  BY <1>8, <1>10, <1>11, <1>12 DEF Good

\* The pool was changed; buffers and strings are where they were.
PoolOnly(c, d) ==
  /\ d \in Connections /\ d.end = c.end
  /\ d.read_buffer = c.read_buffer /\ d.read_buffer_size = c.read_buffer_size
  /\ d.read_buffer_offset = c.read_buffer_offset
  /\ d.write_buffer = c.write_buffer
  /\ d.write_buffer_size = c.write_buffer_size
  /\ d.state = c.state /\ d.read_closed = c.read_closed
  /\ SameTexts(c, d)

PoolAt(c, p, m) == [c EXCEPT !.pos = p, !.mem = m]

LEMMA PoolUpdate ==
  ASSUME NEW c \in Connections, NEW p \in Nat, NEW m \in Memory
  PROVE  /\ PoolOnly(c, PoolAt(c, p, m))
         /\ PoolAt(c, p, m).pos = p /\ PoolAt(c, p, m).mem = m
<1> DEFINE d == PoolAt(c, p, m)
<1>0. d = [c EXCEPT !.pos = p, !.mem = m]
  BY DEF PoolAt
<1> HIDE DEF d
<1>1. d \in Connections
  BY <1>0 DEF Connections, Memory
<1>2. d.read_closed = c.read_closed
  BY <1>0, Zenon DEF Connections
<1>3. PoolOnly(c, d) /\ d.pos = p /\ d.mem = m
  BY <1>0, <1>1, <1>2 DEF Connections, PoolOnly, SameTexts
<1> QED
  BY <1>3 DEF d

\* The line before is continued, or the request refused.
Joined(c, d, g) ==
  /\ Base(d, g) /\ Texts(d)
  /\ d.read_buffer_offset = c.read_buffer_offset
  /\ \/ /\ d.state = c.state /\ d.last # NULL /\ d.colon = c.colon
        /\ d.read_closed = c.read_closed
     \/ d.state \in {"HEADERS_SENDING", "CLOSED"} /\ d.read_closed = TRUE

\* How far the spaces at the start of the line go.
LEMMA ContinuationFacts ==
  ASSUME NEW c \in Connections, NEW line, Good(c, line), Blank(c, line)
  PROVE  LET skip == CHOOSE n \in 1 .. strlen(c, line) :
                       (\A i \in 0 .. n - 1 : Blank(c, line + i)) /\ ~Blank(c, line + n)
         IN  Good(c, line + skip)
<1> DEFINE len == strlen(c, line)
           P(n) == (\A i \in 0 .. n - 1 : Blank(c, line + i)) /\ ~Blank(c, line + n)
           skip == CHOOSE n \in 1 .. len : P(n)
<1>1. line \in Nat /\ len \in Nat /\ line + len \in Nat /\ line <= line + len
      /\ Run(c, line, line + len) /\ c.mem[line + len] = NUL
  BY StrlenFacts, GoodRun
<1> HIDE DEF len
<1>2. PICK v \in line .. line + len :
        (\A i \in line .. v - 1 : Blank(c, i)) /\ ~Blank(c, v)
  BY <1>1, SkipFacts
<1>3. v # line
  BY <1>2
<1>4. v - line \in 1 .. len /\ line + (v - line) = v /\ v \in Nat
  BY <1>1, <1>3
<1>5. P(v - line)
  <2>1. \A i \in 0 .. (v - line) - 1 : line + i \in line .. v - 1
    BY <1>1, <1>4
  <2> QED
    BY <1>2, <1>4, <2>1
<1>6. skip \in 1 .. len
  <2> HIDE DEF P
  <2> QED
    BY <1>4, <1>5
<1> HIDE DEF skip
<1>7. line + skip \in line .. line + len
  BY <1>1, <1>6
<1>8. Good(c, line + skip)
  BY <1>1, <1>7, RunGood
<1> QED
  BY <1>8 DEF skip, len

\* The line before is at `at' now.
LastAt(e, m, at) == [e EXCEPT !.mem = m, !.last = at]

MovedLast(c, e, d, m, at) ==
  /\ d \in Connections /\ d.mem = m /\ d.pos = e.pos /\ d.end = c.end
  /\ d.read_buffer = c.read_buffer
  /\ d.read_buffer_size = c.read_buffer_size
  /\ d.read_buffer_offset = c.read_buffer_offset
  /\ d.write_buffer = c.write_buffer
  /\ d.write_buffer_size = c.write_buffer_size
  /\ d.state = c.state /\ d.read_closed = c.read_closed
  /\ d.last = at /\ d.url = c.url /\ d.colon = c.colon
  /\ d.headers = c.headers

LEMMA LastUpdate ==
  ASSUME NEW c, NEW e, PoolOnly(c, e), NEW at \in Nat, NEW m \in Memory
  PROVE  MovedLast(c, e, LastAt(e, m, at), m, at)
<1> DEFINE d == LastAt(e, m, at)
<1>0. d = [e EXCEPT !.mem = m, !.last = at]
  BY DEF LastAt
<1> HIDE DEF d
<1>1. e \in Connections /\ at \in Int
  BY DEF PoolOnly
<1>2. d \in Connections
  BY <1>0, <1>1 DEF Connections, Memory
<1>3. d.read_closed = e.read_closed
  BY <1>0, <1>1, Zenon DEF Connections
<1>4. d.read_closed = c.read_closed
  BY <1>3, Zenon DEF PoolOnly
<1>5. /\ d.mem = m /\ d.pos = e.pos /\ d.end = e.end
      /\ d.read_buffer = e.read_buffer
      /\ d.read_buffer_size = e.read_buffer_size
      /\ d.read_buffer_offset = e.read_buffer_offset
      /\ d.write_buffer = e.write_buffer
      /\ d.write_buffer_size = e.write_buffer_size
      /\ d.state = e.state
      /\ d.last = at /\ d.url = e.url /\ d.colon = e.colon
      /\ d.headers = e.headers
  BY <1>0, <1>1 DEF Connections
<1>6. MovedLast(c, e, d, m, at)
  BY <1>2, <1>4, <1>5 DEF PoolOnly, SameTexts, MovedLast
<1> QED
  BY <1>6 DEF d

LEMMA ContinueFacts ==
  ASSUME NEW c, NEW g, Base(c, g), Texts(c), c.last # NULL,
         NEW line, Good(c, line), Blank(c, line)
  PROVE  Joined(c, ContinueLine(c, line), g)
<1> DEFINE skip == CHOOSE n \in 1 .. strlen(c, line) :
                     (\A i \in 0 .. n - 1 : Blank(c, line + i)) /\ ~Blank(c, line + n)
           L == c.last
           k == strlen(c, L)
           tmp == line + skip
           n == strlen(c, tmp)
           s == k + n + 1
           asize == ROUND_TO_ALIGN(s)
           r == MHD_pool_reallocate(c, L, k + 1, s)
           e == r.con
           at == r.at
           d == [e EXCEPT !.mem = memmove(e.mem, at + k, tmp, n + 1), !.last = at]
           D == ContinueLine(c, line)
<1>1. c \in Connections /\ g \in Nat /\ Layout(c)
  BY DEF Base
<1>2. D = IF at = NULL THEN transmit_error_response(c) ELSE d
  BY DEF ContinueLine, Blank
<1>3. Good(c, tmp) /\ Good(c, L)
  BY <1>1, ContinuationFacts DEF Texts
<1>4. Reallocated(c, L, k + 1, asize, r)
  BY ReallocateCases
<1> HIDE DEF skip, L, tmp, r
<1>5. /\ L \in Nat /\ k \in Nat /\ L + k \in 0 .. PoolSize - 1
      /\ \A i \in L .. L + k : Clean(c, i)
  BY <1>1, <1>3, StrlenFacts
<1>6. /\ tmp \in Nat /\ n \in Nat /\ tmp + n \in 0 .. PoolSize - 1
  BY <1>1, <1>3, StrlenFacts
<1> HIDE DEF k, n
<1>7. s \in Nat /\ asize \in Nat /\ asize >= s
  <2>1. s \in Nat
    BY <1>5, <1>6
  <2> QED
    BY <2>1, RoundFacts
<1>8. c.mem \in Memory /\ c.pos \in Nat /\ c.end \in Nat /\ c.pos <= c.end
  BY <1>1 DEF Connections, Memory, Layout
<1>9. s = k + n + 1
  OBVIOUS
<1> HIDE DEF s, asize, D
<1>10. CASE at = NULL
  <2>1. D = transmit_error_response(c)
    BY <1>2, <1>10
  <2>2. Replied(c, D, g) /\ D.read_closed = TRUE
    BY <2>1, ErrorFacts
  <2>3. Texts(D)
    BY <2>2, TextsKept DEF Replied
  <2> QED
    BY <2>2, <2>3 DEF Joined, Replied, D
<1>11. ASSUME at = L, PoolOnly(c, e), e.pos \in Nat, c.pos <= e.pos,
              e.pos <= c.end, e.mem \in Memory,
              \A i \in 0 .. PoolSize - 1 : e.mem[i] = c.mem[i],
              n = 0 \/ ((L + k) + 1 = c.pos /\ (L + k) + n < e.pos)
       PROVE  Joined(c, D, g)
  <2> DEFINE m == memmove(e.mem, at + k, tmp, n + 1)
  <2>1. D = d
    <3>1. at # NULL
      BY <1>5, <1>11 DEF NULL
    <3> QED
      BY <1>2, <3>1
  <2>2. /\ at + k \in Int /\ n + 1 \in Int /\ tmp \in Int
        /\ at + k >= 0 /\ (at + k) + (n + 1) <= PoolSize
        /\ tmp >= 0 /\ tmp + (n + 1) <= PoolSize
    BY <1>1, <1>5, <1>6, <1>8, <1>11, HalfFacts DEF Layout
  <2>3. /\ m \in Memory
        /\ \A i \in 0 .. PoolSize - 1 :
             m[i] = IF at + k <= i /\ i < (at + k) + (n + 1)
                    THEN e.mem[tmp + (i - (at + k))] ELSE e.mem[i]
    BY <1>11, <2>2, MoveFacts
  <2> HIDE DEF m
  <2>4. d = LastAt(e, m, at)
    BY DEF m, LastAt
  <2> DEFINE z == L + k
  <2>5. \A i \in 0 .. PoolSize - 1 :
          m[i] = IF z <= i /\ i < z + (n + 1)
                 THEN c.mem[tmp + (i - z)] ELSE c.mem[i]
    <3>1. ASSUME NEW i \in 0 .. PoolSize - 1, z <= i, i < z + (n + 1)
          PROVE  tmp + (i - z) \in 0 .. PoolSize - 1
      BY <1>5, <1>6, <3>1, HalfFacts
    <3> QED
      BY <1>11, <2>3, <3>1
  <2>6. Clean(c, z)
    <3>1. z \in L .. L + k
      BY <1>5
    <3> QED
      BY <1>5, <3>1
  <2> HIDE DEF z, d, e, at
  <2>7. at \in Nat
    BY <1>5, <1>11
  <2>8. /\ d \in Connections /\ d.mem = m /\ d.pos = e.pos /\ d.end = c.end
        /\ d.read_buffer = c.read_buffer
        /\ d.read_buffer_size = c.read_buffer_size
        /\ d.read_buffer_offset = c.read_buffer_offset
        /\ d.write_buffer = c.write_buffer
        /\ d.write_buffer_size = c.write_buffer_size
        /\ d.state = c.state /\ d.read_closed = c.read_closed
        /\ d.last = at /\ d.url = c.url /\ d.colon = c.colon
        /\ d.headers = c.headers
    <3>1. MovedLast(c, e, d, m, at)
      BY <1>11, <2>3, <2>4, <2>7, LastUpdate
    <3> QED
      BY <3>1 DEF MovedLast
  <2>9. Base(d, g) /\ \A a : Good(c, a) => Good(d, a)
    <3>1. /\ c.pos <= d.pos /\ d.pos <= d.end
          /\ n = 0 \/ (z + 1 = c.pos /\ z + n < d.pos)
      BY <1>11, <2>8 DEF z
    <3>2. n = strlen(c, tmp)
      BY DEF n
    <3>3. \A i \in 0 .. PoolSize - 1 :
            d.mem[i] = IF z <= i /\ i < z + (n + 1)
                       THEN c.mem[tmp + (i - z)] ELSE c.mem[i]
      BY <2>5, <2>8
    <3> QED
      BY <1>3, <2>6, <2>8, <3>1, <3>2, <3>3, JoinInPlace
  <2>10. Texts(d)
    BY <1>3, <1>11, <2>8, <2>9 DEF Texts, GoodEntry
  <2> QED
    BY <1>5, <1>11, <2>1, <2>8, <2>9, <2>10 DEF Joined, NULL
<1>12. CASE /\ c.pos >= k + 1 /\ c.pos - (k + 1) = L
            /\ ~(c.pos + asize - (k + 1) > c.end)
            /\ at = L
            /\ e = [c EXCEPT !.pos = c.pos + asize - (k + 1),
                      !.mem = Fill(c.mem, c.pos + asize - (k + 1),
                                   (k + 1) - asize, NUL)]
  <2> DEFINE p == c.pos + asize - (k + 1)
             m == Fill(c.mem, p, (k + 1) - asize, NUL)
  <2>1. /\ p \in Nat /\ p <= c.end /\ c.pos <= p /\ p \in Int
        /\ (L + k) + 1 = c.pos /\ (L + k) + n < p
        /\ (k + 1) - asize \in Int /\ (k + 1) - asize <= 0
    BY <1>5, <1>6, <1>7, <1>8, <1>9, <1>12
  <2>2. NUL \in Int
    BY DEF NUL
  <2>3. e = PoolAt(c, p, m)
    BY <1>12 DEF PoolAt
  <2> HIDE DEF p
  <2>4. /\ m \in Memory
        /\ \A i \in 0 .. PoolSize - 1 :
             m[i] = IF p <= i /\ i < p + ((k + 1) - asize) THEN NUL ELSE c.mem[i]
    BY <1>8, <2>1, <2>2, FillFacts
  <2>5. \A i \in 0 .. PoolSize - 1 : m[i] = c.mem[i]
    BY <1>5, <1>7, <2>1, <2>4
  <2>7. at = L
    BY <1>12
  <2> HIDE DEF m, e, at
  <2>6. PoolOnly(c, e) /\ e.pos = p /\ e.mem = m
    BY <1>1, <2>1, <2>3, <2>4, PoolUpdate
  <2> QED
    BY <1>11, <2>1, <2>4, <2>5, <2>6, <2>7 DEF D
<1>13. CASE asize <= k + 1 /\ at = L /\ e = c
  <2>1. n = 0
    BY <1>5, <1>6, <1>7, <1>9, <1>13
  <2>2. PoolOnly(c, c)
    BY <1>1 DEF PoolOnly, SameTexts
  <2>3. at = L /\ e = c
    BY <1>13
  <2> HIDE DEF e, at
  <2> QED
    BY <1>8, <1>11, <2>1, <2>2, <2>3 DEF D
<1>14. CASE /\ ~(c.pos + asize > c.end) /\ at = c.pos
            /\ e = [c EXCEPT !.pos = c.pos + asize,
                      !.mem = memmove(c.mem, c.pos, L, k + 1)]
  <2> DEFINE p == c.pos + asize
             m1 == memmove(c.mem, c.pos, L, k + 1)
             m == memmove(m1, at + k, tmp, n + 1)
  <2>1. p \in Nat /\ p <= c.end /\ c.pos + (k + n + 1) <= p
    BY <1>5, <1>6, <1>7, <1>8, <1>9, <1>14
  <2>2. /\ c.pos \in Int /\ L \in Int /\ k + 1 \in Int
        /\ c.pos >= 0 /\ c.pos + (k + 1) <= PoolSize
        /\ L >= 0 /\ L + (k + 1) <= PoolSize
    BY <1>1, <1>5, <1>6, <1>8, <2>1, HalfFacts DEF Layout
  <2>3. m1 \in Memory
    BY <1>8, <2>2, MoveFacts
  <2>4. e = PoolAt(c, p, m1)
    BY <1>14 DEF PoolAt
  <2>5. m1 = memmove(c.mem, c.pos, L, k + 1)
    OBVIOUS
  <2>6. D = d
    <3>1. at # NULL
      BY <1>8, <1>14 DEF NULL
    <3> QED
      BY <1>2, <3>1
  <2> HIDE DEF p, m1
  <2>7. at = c.pos
    BY <1>14
  <2>8. d = [e EXCEPT !.mem = memmove(e.mem, at + k, tmp, n + 1), !.last = at]
    OBVIOUS
  <2> HIDE DEF e, at, d
  <2>9. PoolOnly(c, e) /\ e.pos = p /\ e.mem = m1
    BY <1>1, <2>1, <2>3, <2>4, PoolUpdate
  <2>10. /\ d = LastAt(e, m, at)
         /\ m = memmove(m1, c.pos + k, tmp, n + 1)
    BY <2>7, <2>8, <2>9 DEF LastAt
  <2>11. m \in Memory
    <3>1. /\ at + k \in Int /\ tmp \in Int /\ n + 1 \in Int
          /\ at + k >= 0 /\ (at + k) + (n + 1) <= PoolSize
          /\ tmp >= 0 /\ tmp + (n + 1) <= PoolSize
      BY <1>1, <1>5, <1>6, <1>8, <2>1, <2>7, HalfFacts DEF Layout
    <3> QED
      BY <2>3, <3>1, MoveFacts
  <2> HIDE DEF m
  <2>12. at \in Nat
    BY <1>8, <2>7
  <2>13. /\ d \in Connections /\ d.mem = m /\ d.pos = e.pos /\ d.end = c.end
         /\ d.read_buffer = c.read_buffer
         /\ d.read_buffer_size = c.read_buffer_size
         /\ d.read_buffer_offset = c.read_buffer_offset
         /\ d.write_buffer = c.write_buffer
         /\ d.write_buffer_size = c.write_buffer_size
         /\ d.state = c.state /\ d.read_closed = c.read_closed
         /\ d.last = at /\ d.url = c.url /\ d.colon = c.colon
         /\ d.headers = c.headers
    <3>1. MovedLast(c, e, d, m, at)
      BY <2>9, <2>10, <2>11, <2>12, LastUpdate
    <3> QED
      BY <3>1 DEF MovedLast
  <2>14. Base(d, g) /\ Keeps(c, d) /\ Good(d, c.pos)
    <3>1. c.pos + (k + n + 1) <= d.pos /\ d.pos <= d.end
      BY <2>1, <2>9, <2>13
    <3>2. n = strlen(c, tmp) /\ k = strlen(c, L)
      BY DEF n, k
    <3>3. d.mem = memmove(m1, c.pos + k, tmp, n + 1)
      BY <2>10, <2>13
    <3> QED
      BY <1>3, <2>5, <2>13, <3>1, <3>2, <3>3, JoinCopied
  <2>15. \A a : Good(c, a) => Good(d, a)
    BY <2>14, GoodKept
  <2>16. Texts(d)
    BY <2>7, <2>13, <2>14, <2>15 DEF Texts, GoodEntry
  <2> QED
    BY <2>6, <2>7, <2>12, <2>13, <2>14, <2>16 DEF Joined, NULL, D
<1> QED
  <2>1. \/ at = NULL
        \/ /\ c.pos >= k + 1 /\ c.pos - (k + 1) = L
           /\ ~(c.pos + asize - (k + 1) > c.end)
           /\ at = L
           /\ e = [c EXCEPT !.pos = c.pos + asize - (k + 1),
                     !.mem = Fill(c.mem, c.pos + asize - (k + 1),
                                  (k + 1) - asize, NUL)]
        \/ asize <= k + 1 /\ at = L /\ e = c
        \/ /\ ~(c.pos + asize > c.end) /\ at = c.pos
           /\ e = [c EXCEPT !.pos = c.pos + asize,
                     !.mem = memmove(c.mem, c.pos, L, k + 1)]
    BY <1>4 DEF Reallocated
  <2> QED
    BY <1>10, <1>12, <1>13, <1>14, <2>1 DEF D

\* The line before is recorded as a header.
LEMMA FinishFacts ==
  ASSUME NEW c, NEW g, Base(c, g), Texts(c), c.last # NULL, c.colon # NULL
  PROVE  /\ Added(c, FinishHeader(c), g)
         /\ ~CanAllocate(c, RecordSize) =>
              /\ FinishHeader(c).state \in {"HEADERS_SENDING", "CLOSED"}
              /\ FinishHeader(c).read_closed = TRUE
<1> DEFINE h == Entry("header", c.last, c.colon)
           es == <<h>>
           a == connection_add_headers(c, es)
           t == transmit_error_response(a)
<1>1. GoodEntries(c, es)
  <2>1. c.last \in Int /\ c.colon \in Int
    BY DEF Base, Connections
  <2>2. h \in Entries
    BY <2>1 DEF Entry, Entries
  <2>3. h.kind = "header" /\ h.key = c.last /\ h.value = c.colon
    BY DEF Entry
  <2> HIDE DEF h
  <2>4. GoodEntry(c, h)
    BY <2>3 DEF GoodEntry, Texts
  <2>5. es \in Seq(Entries) /\ Len(es) = 1 /\ es[1] = h
    BY <2>2
  <2> HIDE DEF es
  <2>6. \A i \in 1 .. Len(es) : es[i] = h
    BY <2>5
  <2> QED
    BY <2>4, <2>5, <2>6 DEF GoodEntries
<1>2. FinishHeader(c) = IF CanAllocate(c, RecordSize) THEN a ELSE t
  BY DEF FinishHeader
<1> HIDE DEF es
<1>3. Added(c, a, g)
  BY <1>1, AddFacts
<1> HIDE DEF a
<1>4. CASE CanAllocate(c, RecordSize)
  BY <1>2, <1>3, <1>4
<1>5. CASE ~CanAllocate(c, RecordSize)
  <2>1. Replied(a, t, g) /\ t.read_closed = TRUE
    BY <1>3, ErrorFacts DEF Added
  <2> HIDE DEF t
  <2>2. Texts(t) /\ Keeps(c, t)
    BY <1>3, <2>1, TextsKept, KeepsTwice DEF Replied, Added
  <2>3. Added(c, t, g)
    BY <1>3, <2>1, <2>2 DEF Added, Replied
  <2>4. t.state \in {"HEADERS_SENDING", "CLOSED"}
    BY <2>1 DEF Replied
  <2> QED
    BY <1>2, <1>5, <2>1, <2>3, <2>4
<1> QED
  BY <1>4, <1>5

\* What a line does to the header before it.
Broken(c, d, line, g) ==
  /\ Base(d, g) /\ Texts(d)
  /\ d.read_buffer_offset = c.read_buffer_offset
  /\ \/ /\ d.state = "HEADER_PART_RECEIVED" /\ d.last # NULL /\ d.colon # NULL
     \/ d.state \in {"HEADERS_SENDING", "CLOSED"} /\ d.read_closed = TRUE
     \/ d.state = "HEADERS_RECEIVED" /\ strlen(c, line) = 0

LEMMA BrokenFacts ==
  ASSUME NEW c, NEW g, Base(c, g), Texts(c), c.last # NULL, c.colon # NULL,
         c.state = "HEADER_PART_RECEIVED", NEW line, Good(c, line)
  PROVE  Broken(c, process_broken_line(c, line), line, g)
<1> DEFINE f == FinishHeader(c)
           d == process_broken_line(c, line)
           x == [f EXCEPT !.state = "HEADERS_RECEIVED"]
<1>1. d = IF Blank(c, line) THEN ContinueLine(c, line)
          ELSE IF ~CanAllocate(c, RecordSize) THEN f
          ELSE IF strlen(c, line) = 0 THEN x
          ELSE process_header_line(f, line)
  BY DEF process_broken_line, Blank
<1>2. Added(c, f, g) /\ (~CanAllocate(c, RecordSize) =>
                           /\ f.state \in {"HEADERS_SENDING", "CLOSED"}
                           /\ f.read_closed = TRUE)
  BY FinishFacts
<1>3. Base(f, g) /\ Texts(f) /\ Keeps(c, f)
      /\ f.read_buffer_offset = c.read_buffer_offset
  BY <1>2 DEF Added
<1> HIDE DEF f, d
<1>4. CASE Blank(c, line)
  <2>1. Joined(c, d, g)
    BY <1>1, <1>4, ContinueFacts
  <2> QED
    BY <2>1 DEF Joined, Broken, d
<1>5. CASE ~Blank(c, line) /\ ~CanAllocate(c, RecordSize)
  <2>1. d = f
    BY <1>1, <1>5
  <2> QED
    BY <1>2, <1>3, <1>5, <2>1 DEF Broken, d
<1>6. CASE ~Blank(c, line) /\ CanAllocate(c, RecordSize) /\ strlen(c, line) = 0
  <2>1. d = [f EXCEPT !.state = "HEADERS_RECEIVED"]
    BY <1>1, <1>6
  <2>2. f \in Connections
    BY <1>3 DEF Base
  <2>3. d \in Connections /\ SamePool(f, d) /\ SameTexts(f, d)
        /\ d.state = "HEADERS_RECEIVED"
    BY <2>1, <2>2 DEF Connections, States, SamePool, SameTexts
  <2>4. Base(d, g) /\ Keeps(f, d)
    BY <1>3, <2>3, PoolKept
  <2>5. Texts(d)
    BY <1>3, <2>3, <2>4, TextsKept
  <2> QED
    BY <1>3, <1>6, <2>3, <2>4, <2>5 DEF Broken, SamePool, d
<1>7. CASE /\ ~Blank(c, line) /\ CanAllocate(c, RecordSize)
           /\ strlen(c, line) # 0
  <2>1. d = process_header_line(f, line)
    BY <1>1, <1>7
  <2>2. Good(f, line)
    BY <1>3, GoodKept
  <2>3. HeaderLine(f, d, g)
    BY <1>3, <2>1, <2>2, HeaderFacts
  <2> QED
    BY <1>3, <2>3 DEF Broken, HeaderLine, d
<1> QED
  BY <1>4, <1>5, <1>6, <1>7

LEMMA TwoLists ==
  ASSUME NEW c, NEW s, NEW t, GoodEntries(c, s), GoodEntries(c, t)
  PROVE  GoodEntries(c, s \o t)
<1> DEFINE u == s \o t
<1>1. s \in Seq(Entries) /\ t \in Seq(Entries)
  BY DEF GoodEntries
<1>2. Len(s) \in Nat /\ Len(t) \in Nat /\ u \in Seq(Entries)
      /\ Len(u) = Len(s) + Len(t)
  BY <1>1
<1>3. \A i \in 1 .. Len(u) : u[i] = IF i <= Len(s) THEN s[i] ELSE t[i - Len(s)]
  BY <1>1
<1> HIDE DEF u
<1>4. ASSUME NEW i \in 1 .. Len(u) PROVE GoodEntry(c, u[i])
  <2>1. CASE i <= Len(s)
    <3>1. i \in 1 .. Len(s) /\ u[i] = s[i]
      BY <1>2, <1>3, <2>1
    <3> QED
      BY <3>1 DEF GoodEntries
  <2>2. CASE i > Len(s)
    <3>1. i - Len(s) \in 1 .. Len(t) /\ ~(i <= Len(s))
      BY <1>2, <2>2
    <3>2. u[i] = t[i - Len(s)]
      BY <1>3, <3>1
    <3> QED
      BY <3>1, <3>2 DEF GoodEntries
  <2> QED
    BY <1>2, <2>1, <2>2
<1> QED
  BY <1>2, <1>4 DEF GoodEntries, u

\* A string is copied to the end of the pool.
CopyAtEnd(c, from, size) ==
  LET a == AllocateAtEnd(c, size)
  IN  [a EXCEPT !.mem = memmove(@, a.end, from, size)]

LEMMA CopyFacts ==
  ASSUME NEW c, NEW g, Base(c, g), NEW from, Good(c, from),
         NEW k, k = strlen(c, from), CanAllocate(c, k + 1)
  PROVE  LET d == CopyAtEnd(c, from, k + 1)
             b == AllocateAtEnd(c, k + 1).end
         IN  /\ Base(d, g) /\ Keeps(c, d) /\ SameTexts(c, d)
             /\ d.read_buffer_offset = c.read_buffer_offset
             /\ d.read_closed = c.read_closed
             /\ Run(d, b, b + k)
<1> DEFINE size == k + 1
           asize == ROUND_TO_ALIGN(size)
           b == c.end - asize
           m == memmove(c.mem, b, from, size)
           d == CopyAtEnd(c, from, k + 1)
<1>1. c \in Connections /\ g \in Nat /\ Layout(c)
  BY DEF Base
<1>2. /\ c.mem \in Memory /\ c.pos \in Nat /\ c.end \in Nat
      /\ c.read_buffer \in Int /\ c.read_buffer_size \in Nat
      /\ c.write_buffer \in Int /\ c.write_buffer_size \in Nat
  BY <1>1 DEF Connections, Memory
<1>3. PoolSize \in Nat /\ c.end <= PoolSize
  BY <1>1, HalfFacts DEF Layout
<1>4. /\ from \in Nat /\ k \in Nat /\ from + k \in 0 .. PoolSize - 1
      /\ c.mem[from + k] = NUL /\ \A i \in from .. from + k : Clean(c, i)
  BY <1>1, StrlenFacts
<1>5. size \in Nat /\ asize \in Nat /\ asize >= size
  <2>1. size \in Nat
    BY <1>4
  <2> QED
    BY <2>1, RoundFacts
<1>6. c.pos + asize <= c.end
  BY DEF CanAllocate
<1>7. AllocateAtEnd(c, k + 1) = [c EXCEPT !.end = b] /\ AllocateAtEnd(c, k + 1).end = b
  BY <1>1 DEF AllocateAtEnd, Connections
<1>8. d = [[c EXCEPT !.end = b] EXCEPT !.mem = m]
  BY <1>1, <1>7 DEF CopyAtEnd, Connections
<1>9. size = k + 1 /\ b = c.end - asize
  OBVIOUS
<1> HIDE DEF size, asize, b
<1>10. b \in Nat /\ c.pos <= b /\ b + size <= c.end /\ b <= c.end
  BY <1>2, <1>5, <1>6, <1>9
<1>11. /\ m \in Memory
       /\ \A i \in 0 .. PoolSize - 1 :
            m[i] = IF b <= i /\ i < b + size
                   THEN c.mem[from + (i - b)] ELSE c.mem[i]
  <2>1. /\ b \in Int /\ from \in Int /\ size \in Int
        /\ b >= 0 /\ b + size <= PoolSize
        /\ from >= 0 /\ from + size <= PoolSize
    BY <1>2, <1>3, <1>4, <1>5, <1>9, <1>10
  <2>2. c.mem \in Memory
    BY <1>2
  <2> QED
    BY <2>1, <2>2, MoveFacts
<1> HIDE DEF m, d
<1>12. /\ d \in Connections /\ d.mem = m /\ d.pos = c.pos /\ d.end = b
       /\ d.read_buffer = c.read_buffer
       /\ d.read_buffer_size = c.read_buffer_size
       /\ d.read_buffer_offset = c.read_buffer_offset
       /\ d.write_buffer = c.write_buffer
       /\ d.write_buffer_size = c.write_buffer_size
       /\ SameTexts(c, d)
  BY <1>1, <1>8, <1>10, <1>11 DEF Connections, Memory, SameTexts
<1>13. d.read_closed = c.read_closed
  BY <1>1, <1>8, Zenon DEF Connections
<1>14. Base(d, g) /\ Keeps(c, d)
  <2>1. \A i \in 0 .. PoolSize - 1 :
          i < c.pos \/ i >= c.end => d.mem[i] = c.mem[i]
    BY <1>2, <1>3, <1>5, <1>10, <1>11, <1>12
  <2>2. c.pos <= d.pos /\ d.pos <= d.end /\ d.end <= c.end
    BY <1>2, <1>10, <1>12
  <2> QED
    BY <1>12, <2>1, <2>2, SpaceFacts
<1>15. Run(d, b, b + k)
  <2>1. b + k \in 0 .. PoolSize - 1 /\ b <= b + k /\ b + k \in Int
        /\ from + ((b + k) - b) = from + k /\ b + k < b + size
    BY <1>2, <1>3, <1>4, <1>9, <1>10
  <2>2. d.mem[b + k] = NUL
    BY <1>4, <1>11, <1>12, <2>1
  <2>3. ASSUME NEW i \in b .. b + k PROVE Clean(d, i)
    <3>1. i \in 0 .. PoolSize - 1 /\ i \in Int /\ b <= i /\ i < b + size
          /\ from + (i - b) \in from .. from + k
      BY <1>3, <1>4, <1>9, <1>10, <2>1
    <3>2. d.mem[i] >= NUL
      BY <1>4, <1>11, <1>12, <3>1 DEF Clean
    <3>3. /\ ~(c.read_buffer <= i /\ i < c.read_buffer + c.read_buffer_size)
          /\ ~(c.write_buffer <= i /\ i < c.write_buffer + c.write_buffer_size)
      BY <1>1, <1>2, <1>10, <3>1 DEF Layout
    <3> QED
      BY <1>12, <3>1, <3>2, <3>3 DEF Clean
  <2> QED
    BY <1>10, <2>1, <2>2, <2>3 DEF Run
<1> QED
  BY <1>7, <1>12, <1>13, <1>14, <1>15 DEF d

\* The first cookie header, if there is one, has a value.
LEMMA CookieValue ==
  ASSUME NEW c, NEW g, Base(c, g), Texts(c), NEW I, I \subseteq DOMAIN c.headers,
         I # {}, \A i \in I : c.headers[i].kind = "header"
  PROVE  Good(c, c.headers[Min(I)].value)
<1>1. c.headers \in Seq(Entries)
  BY DEF Base, Connections
<1>2. DOMAIN c.headers \subseteq Nat
  BY <1>1
<1>3. I \in SUBSET Nat
  BY <1>2
<1>4. \E x \in I : \A y \in I : x <= y
  BY <1>3, LeastNat
<1>5. Min(I) \in I
  BY <1>4 DEF Min
<1>6. GoodEntry(c, c.headers[Min(I)]) /\ c.headers[Min(I)].kind = "header"
  BY <1>5 DEF Texts
<1> QED
  BY <1>6 DEF GoodEntry

LEMMA CookieFacts ==
  ASSUME NEW c, NEW g, Base(c, g), Texts(c)
  PROVE  Added(c, parse_cookie_header(c), g)
<1> DEFINE I == {i \in DOMAIN c.headers :
                   /\ c.headers[i].kind = "header"
                   /\ At(c, c.headers[i].key) = "Cookie"}
           hdr == c.headers[Min(I)].value
           k == strlen(c, hdr)
           b == AllocateAtEnd(c, k + 1).end
           cpy == CopyAtEnd(c, hdr, k + 1)
           marks == Places(cpy, b, b + (k + 1), {";"})
           first == <<Entry("cookie", b, NULL)>>
           rest == [i \in 1 .. Len(marks) |->
                      Entry("cookie", marks[i] + 1, NULL)]
           S == ToSet(marks)
           z == Zero(cpy, S)
           x == connection_add_headers(z, first \o rest)
           d == parse_cookie_header(c)
<1>1. d = IF I = {} THEN c
          ELSE IF ~CanAllocate(c, k + 1) THEN transmit_error_response(c)
          ELSE x
  BY DEF parse_cookie_header, CopyAtEnd
<1>2. I \subseteq DOMAIN c.headers /\ \A i \in I : c.headers[i].kind = "header"
  OBVIOUS
<1> HIDE DEF I, d
<1>3. CASE I = {}
  <2>1. d = c
    BY <1>1, <1>3
  <2>2. Keeps(c, c)
    BY DEF Keeps
  <2> QED
    BY <2>1, <2>2 DEF Added, d
<1>4. CASE I # {} /\ ~CanAllocate(c, k + 1)
  <2>1. d = transmit_error_response(c)
    BY <1>1, <1>4
  <2>2. Replied(c, d, g) /\ d.read_closed = TRUE
    BY <2>1, ErrorFacts
  <2>3. Texts(d)
    BY <2>2, TextsKept DEF Replied
  <2> QED
    BY <2>2, <2>3 DEF Added, Replied, d
<1>5. CASE I # {} /\ CanAllocate(c, k + 1)
  <2>1. d = x
    BY <1>1, <1>5
  <2>2. Good(c, hdr)
    BY <1>2, <1>5, CookieValue
  <2> HIDE DEF hdr
  <2>3. k = strlen(c, hdr) /\ CanAllocate(c, k + 1)
    BY <1>5
  <2>4. k \in Nat
    BY <2>2, StrlenFacts DEF Base
  <2> HIDE DEF k
  <2>5. /\ Base(cpy, g) /\ Keeps(c, cpy) /\ SameTexts(c, cpy)
        /\ cpy.read_buffer_offset = c.read_buffer_offset
        /\ cpy.read_closed = c.read_closed
        /\ Run(cpy, b, b + k)
    BY <2>2, <2>3, CopyFacts
  <2> HIDE DEF cpy, b
  <2>6. b \in Nat /\ b + k \in Nat /\ b <= b + k /\ cpy.mem[b + k] = NUL
        /\ \A i \in b .. b + k : Clean(cpy, i)
    BY <2>4, <2>5 DEF Run
  <2>7. Among(marks, b, b + k)
    <3>1. At(cpy, b + k) = "nul"
      <4>1. ~(cpy.mem[b + k] > 0)
        BY <2>6 DEF NUL
      <4> QED
        BY <4>1, Zenon DEF At
    <3>2. At(cpy, b + k) \notin {";"}
      BY <3>1
    <3>3. (b + k) .. (b + (k + 1)) - 1 = {b + k} /\ b \in Int /\ b + k \in Int
          /\ b + (k + 1) \in Int
      BY <2>4, <2>6
    <3>4. \A i \in (b + k) .. (b + (k + 1)) - 1 : At(cpy, i) \notin {";"}
      BY <3>2, <3>3, Zenon
    <3> QED
      BY <3>3, <3>4, PlacesUpTo, Zenon
  <2> HIDE DEF marks
  <2>8. Harmless(cpy, z, g)
    <3>1. \A i \in S : \E j \in 1 .. Len(marks) : i = marks[j]
      BY <2>7 DEF ToSet, Among
    <3>2. \A j \in 1 .. Len(marks) : marks[j] \in b .. (b + k) - 1
      BY <2>7 DEF Among
    <3>3. \A i \in b .. (b + k) - 1 : i \in b .. b + k
      BY <2>6
    <3> HIDE DEF S
    <3>4. \A i \in S : Clean(cpy, i)
      BY <2>6, <3>1, <3>2, <3>3
    <3> QED
      BY <2>5, <3>4, ZeroFacts
  <2>9. Texts(cpy)
    BY <2>5, TextsKept
  <2> HIDE DEF S, z
  <2>10. Base(z, g) /\ Texts(z) /\ Keeps(cpy, z) /\ Run(z, b, b + k)
    BY <2>5, <2>8, <2>9, TextsKept, RunKept DEF Harmless
  <2>11. GoodEntries(z, rest)
    <3>1. rest = [i \in 1 .. Len(marks) |-> Entry("cookie", marks[i] + 1, NULL)]
      OBVIOUS
    <3>2. "cookie" \in {"arg", "cookie"}
      OBVIOUS
    <3> HIDE DEF rest
    <3> QED
      BY <2>7, <2>10, <3>1, <3>2, ArgsFacts
  <2>12. GoodEntries(z, first)
    <3> DEFINE h == Entry("cookie", b, NULL)
    <3>1. b \in b .. b + k
      BY <2>6
    <3>2. Good(z, b)
      BY <2>10, <3>1, RunGood
    <3>3. h \in Entries
      BY <2>6 DEF Entry, Entries, NULL
    <3>4. h.kind = "cookie" /\ h.key = b /\ h.value = NULL
      BY DEF Entry
    <3> HIDE DEF h
    <3>5. GoodEntry(z, h)
      BY <3>2, <3>4 DEF GoodEntry
    <3>6. first = <<h>>
      BY DEF h
    <3>7. first \in Seq(Entries) /\ Len(first) = 1 /\ first[1] = h
      BY <3>3, <3>6
    <3> HIDE DEF first
    <3>8. \A i \in 1 .. Len(first) : first[i] = h
      BY <3>7
    <3> QED
      BY <3>5, <3>7, <3>8 DEF GoodEntries
  <2> HIDE DEF first, rest
  <2>13. GoodEntries(z, first \o rest)
    BY <2>11, <2>12, TwoLists
  <2>14. Added(z, x, g)
    BY <2>10, <2>13, AddFacts
  <2> HIDE DEF x
  <2>15. Keeps(c, x)
    <3>1. Keeps(c, z)
      BY <2>5, <2>10, KeepsTwice
    <3>2. Keeps(z, x)
      BY <2>14 DEF Added
    <3> QED
      BY <3>1, <3>2, KeepsTwice
  <2>16. x.read_buffer_offset = c.read_buffer_offset
    BY <2>5, <2>8, <2>14 DEF Added, Harmless, SameState
  <2>17. x.read_closed = TRUE \/ x.read_closed = c.read_closed
    BY <2>5, <2>8, <2>14, Zenon DEF Added, Harmless, SameState
  <2> QED
    BY <2>1, <2>14, <2>15, <2>16, <2>17 DEF Added, d
<1> QED
  BY <1>3, <1>4, <1>5

-----------------------------------------------------------------------------
(* Taking a line out of the read buffer                                    *)

\* A byte that was read is the byte of the stream.
LEMMA AtRead ==
  ASSUME NEW c, NEW g, Base(c, g), NEW i \in 0 .. c.read_buffer_offset - 1
  PROVE  At(c, c.read_buffer + i) = wire[g - c.read_buffer_offset + 1 + i]
<1>1. c.mem[c.read_buffer + i] = g - c.read_buffer_offset + 1 + i
  BY DEF Base, Reading
<1>2. g - c.read_buffer_offset + 1 + i > 0
  <2> DEFINE o == c.read_buffer_offset
  <2>1. c \in Connections /\ Reading(c, g) /\ g \in Nat
    BY DEF Base
  <2>2. o \in Nat
    BY <2>1 DEF Connections
  <2>3. o <= g
    BY <2>1 DEF Reading
  <2>4. i \in 0 .. o - 1
    OBVIOUS
  <2> HIDE DEF o
  <2>5. g - o + 1 + i > 0
    BY <2>1, <2>2, <2>3, <2>4
  <2> QED
    BY <2>5 DEF o
<1>3. c.mem[c.read_buffer + i] > 0
  BY <1>1, <1>2
<1> QED
  BY <1>1, <1>3, Zenon DEF At

\* get_next_header_line sees what is in the stream.
LEMMA SameLine ==
  ASSUME NEW c, NEW g, Base(c, g)
  PROVE  /\ LineLength(c) = LineAt(g, c.read_buffer_offset)
         /\ HasLine(c) <=> LineThere(g, c.read_buffer_offset)
<1> DEFINE o == c.read_buffer_offset
           E == {i \in 0 .. o - 1 : At(c, c.read_buffer + i) \in {"\r", "\n"}}
           F == {i \in 0 .. o - 1 : wire[g - o + 1 + i] \in {"\r", "\n"}}
<1>1. \A i \in 0 .. o - 1 : At(c, c.read_buffer + i) = wire[g - o + 1 + i]
  BY AtRead
<1>2. E = F
  BY <1>1, Zenon
<1>3. LineLength(c) = LineAt(g, o)
  <2>1. LineLength(c) = IF E = {} THEN o - 1
                        ELSE CHOOSE i \in E : \A j \in E : i <= j
    BY Zenon DEF LineLength
  <2>2. LineAt(g, o) = IF F = {} THEN o - 1
                       ELSE CHOOSE i \in F : \A j \in F : i <= j
    BY Zenon DEF LineAt
  <2> HIDE DEF E, F
  <2> QED
    BY <1>2, <2>1, <2>2, Zenon
<1>4. ASSUME o > 0 PROVE LineAt(g, o) \in 0 .. o - 1
  <2>1. o \in Nat
    BY DEF Base, Connections
  <2>2. CASE F = {}
    <3>1. LineAt(g, o) = o - 1
      BY <2>2, Zenon DEF LineAt
    <3> QED
      BY <1>4, <2>1, <3>1
  <2>3. CASE F # {}
    <3>1. LineAt(g, o) = CHOOSE i \in F : \A j \in F : i <= j
      BY <2>3, Zenon DEF LineAt
    <3>2. \A i \in F : i \in 0 .. o - 1
      BY Zenon
    <3> HIDE DEF F, o
    <3>3. F \in SUBSET Nat
      BY <2>1, <3>2
    <3>4. \E i \in F : \A j \in F : i <= j
      BY <2>3, <3>3, LeastNat
    <3>5. LineAt(g, o) \in F
      BY <3>1, <3>4, Zenon
    <3> QED
      BY <3>2, <3>5
  <2> QED
    BY <2>2, <2>3
<1>5. HasLine(c) <=> LineThere(g, o)
  <2>1. CASE o > 0
    <3>1. At(c, c.read_buffer + LineLength(c)) = wire[g - o + 1 + LineAt(g, o)]
      BY <1>1, <1>3, <1>4, <2>1, Zenon
    <3> QED
      BY <1>3, <3>1, Zenon DEF HasLine, LineThere
  <2>2. CASE ~(o > 0)
    BY <2>2, Zenon DEF HasLine, LineThere
  <2> QED
    BY <2>1, <2>2
<1> QED
  BY <1>3, <1>5

\* The end of the line that is there, in the stream.
LEMMA LineFacts ==
  ASSUME NEW g \in Nat, NEW o \in Nat, o <= g, g <= Len(wire), WireInv,
         LineThere(g, o), NEW p, p = LineAt(g, o), NEW q, q = g - o
  PROVE  /\ p \in Nat /\ p < o
         /\ \/ NL(q + 1 + p)
            \/ CR(q + 1 + p) /\ NL((q + 1 + p) + 1) /\ p < o - 1
<1> DEFINE F == {i \in 0 .. o - 1 : wire[g - o + 1 + i] \in {"\r", "\n"}}
           T(i) == NL(q + 1 + i) \/ CR(q + 1 + i)
<1>1. /\ o > 0 /\ (p < o - 1 \/ wire[g - o + 1 + p] = "\n")
      /\ p = IF F = {} THEN o - 1 ELSE CHOOSE i \in F : \A j \in F : i <= j
  BY Zenon DEF LineThere, LineAt
<1>2. p < o - 1 \/ NL(q + 1 + p)
  BY <1>1, Zenon DEF NL
<1>3. F = {i \in 0 .. o - 1 : T(i)}
  BY Zenon DEF NL, CR
<1>4. /\ o > 0
      /\ p = IF F = {} THEN o - 1 ELSE CHOOSE i \in F : \A j \in F : i <= j
  BY <1>1, Zenon
<1> HIDE DEF F
<1>5. F # {}
  <2> SUFFICES ASSUME F = {} PROVE FALSE
    OBVIOUS
  <2>1. p = o - 1
    BY <1>4
  <2>2. p \in 0 .. o - 1 /\ ~(p < o - 1)
    BY <1>4, <2>1
  <2>3. p \in F
    BY <1>2, <1>3, <2>2, Zenon
  <2> QED
    BY <2>3
<1>6. F \in SUBSET Nat
  BY <1>3
<1>7. \E i \in F : \A j \in F : i <= j
  BY <1>5, <1>6, LeastNat
<1>8. p \in F
  BY <1>4, <1>5, <1>7, Zenon
<1>9. p \in 0 .. o - 1 /\ T(p)
  BY <1>3, <1>8, Zenon
<1>10. p \in Nat /\ p < o /\ q + 1 + p \in 1 .. Len(wire)
  <2>1. Len(wire) \in Nat
    BY DEF WireInv
  <2> QED
    BY <1>9, <2>1
<1>11. ASSUME CR(q + 1 + p) PROVE NL((q + 1 + p) + 1) /\ ~NL(q + 1 + p)
  BY <1>10, <1>11, Zenon DEF WireInv, CR, NL
<1> QED
  BY <1>2, <1>9, <1>10, <1>11

\* What TakeLine does, in numbers: the line has p bytes and an end of n - p.
Taken(c, d, g, p, n) ==
  /\ Base(d, g) /\ Keeps(c, d) /\ SameTexts(c, d)
  /\ d.state = c.state /\ d.read_closed = c.read_closed
  /\ d.read_buffer_offset = c.read_buffer_offset - n
  /\ Run(d, c.read_buffer, c.read_buffer + p)
  /\ \A i \in 0 .. p - 1 : d.mem[c.read_buffer + i] > NUL

CutOff(c, p, n) ==
  [Zero(c, c.read_buffer + p .. c.read_buffer + n - 1) EXCEPT
     !.read_buffer = @ + n, !.read_buffer_size = @ - n,
     !.read_buffer_offset = @ - n]

LEMMA CutFacts ==
  ASSUME NEW c, NEW g, Base(c, g), NEW p \in Nat, NEW n \in Nat, p < n,
         n <= c.read_buffer_offset
  PROVE  Taken(c, CutOff(c, p, n), g, p, n)
<1> DEFINE rb == c.read_buffer
           S == rb + p .. rb + n - 1
           part == [i \in S |-> NUL]
           m == Write(c.mem, part)
           b == rb + n
           s == c.read_buffer_size - n
           o == c.read_buffer_offset - n
           d == CutOff(c, p, n)
<1>1. c \in Connections /\ g \in Nat /\ Layout(c) /\ Reading(c, g)
  BY DEF Base
<1>2. /\ c.mem \in Memory /\ c.pos \in Nat /\ c.end \in Nat
      /\ c.read_buffer \in Int /\ c.read_buffer_size \in Nat
      /\ c.read_buffer_offset \in Nat
      /\ c.write_buffer \in Int /\ c.write_buffer_size \in Nat
  BY <1>1 DEF Connections, Memory
<1>3. /\ PoolSize \in Nat /\ c.end <= PoolSize /\ rb \in Nat
      /\ rb + c.read_buffer_size <= c.pos /\ c.pos <= c.end
      /\ c.read_buffer_offset <= c.read_buffer_size
      /\ c.read_buffer_offset <= g
      /\ c.read_buffer_size - c.read_buffer_offset <= HalfPool
      /\ \/ c.write_buffer_size = 0
         \/ rb + c.read_buffer_size <= c.write_buffer
         \/ c.write_buffer + c.write_buffer_size <= rb
      /\ g \in Nat
  BY <1>1, <1>2, HalfFacts DEF Layout, Reading
<1>0. \A i \in 0 .. c.read_buffer_offset - 1 :
        c.mem[rb + i] = g - c.read_buffer_offset + 1 + i
  BY <1>1 DEF Reading
<1>4. /\ m \in Memory
      /\ \A i \in 0 .. PoolSize - 1 :
           m[i] = IF rb + p <= i /\ i < rb + n THEN NUL ELSE c.mem[i]
  <2>1. DOMAIN part = S /\ \A i \in S : part[i] = NUL
    OBVIOUS
  <2> HIDE DEF part
  <2>2. DOMAIN part \subseteq 0 .. PoolSize - 1
    <3>1. \A i \in S : i \in 0 .. PoolSize - 1
      BY <1>2, <1>3
    <3> QED
      BY <2>1, <3>1
  <2>3. \A i \in DOMAIN part : part[i] \in Int
    BY <2>1 DEF NUL
  <2>4. \A i \in 0 .. PoolSize - 1 : i \in S <=> rb + p <= i /\ i < rb + n
    BY <1>3
  <2> HIDE DEF S
  <2>5. /\ m \in Memory
        /\ \A i \in 0 .. PoolSize - 1 :
             m[i] = IF i \in DOMAIN part THEN part[i] ELSE c.mem[i]
    BY <1>2, <2>2, <2>3, WriteFacts
  <2> QED
    BY <2>1, <2>4, <2>5
<1>5. d = [[c EXCEPT !.mem = m] EXCEPT
             !.read_buffer = b, !.read_buffer_size = s, !.read_buffer_offset = o]
  BY <1>1 DEF CutOff, Zero, Connections
<1>6. b \in Int /\ s \in Nat /\ o \in Nat
      /\ b = rb + n /\ s = c.read_buffer_size - n /\ o = c.read_buffer_offset - n
  BY <1>2, <1>3
<1>6a. m \in [0 .. PoolSize - 1 -> Int]
  BY <1>4 DEF Memory
<1> HIDE DEF m, b, s, o, d, S
<1>7. /\ d \in Connections /\ d.mem = m /\ d.pos = c.pos /\ d.end = c.end
      /\ d.read_buffer = b /\ d.read_buffer_size = s
      /\ d.read_buffer_offset = o
      /\ d.write_buffer = c.write_buffer
      /\ d.write_buffer_size = c.write_buffer_size
      /\ SameTexts(c, d) /\ d.state = c.state
  <2> DEFINE e == [c EXCEPT !.mem = m]
  <2>1. e \in Connections
    BY <1>1, <1>6a DEF Connections
  <2>2. d = [e EXCEPT
               !.read_buffer = b, !.read_buffer_size = s, !.read_buffer_offset = o]
    BY <1>5
  <2>3. d \in Connections
    <3> HIDE DEF e
    <3> QED
      BY <1>6, <2>1, <2>2 DEF Connections
  <2> QED
    BY <1>1, <1>5, <2>3 DEF Connections, SameTexts
<1>8. d.read_closed = c.read_closed
  BY <1>1, <1>5, Zenon DEF Connections
<1>9. Layout(d)
  <2>1. /\ b >= 0 /\ b + s <= c.pos
        /\ s = 0 \/ c.write_buffer_size = 0 \/ b + s <= c.write_buffer
           \/ c.write_buffer + c.write_buffer_size <= b
    BY <1>2, <1>3, <1>6
  <2> QED
    BY <1>1, <1>7, <2>1 DEF Layout
<1>10. Reading(d, g)
  <2>1. ASSUME NEW i \in 0 .. o - 1
        PROVE  m[b + i] = g - o + 1 + i
    <3>1. /\ n + i \in 0 .. c.read_buffer_offset - 1
          /\ b + i = rb + (n + i) /\ b + i \in 0 .. PoolSize - 1
          /\ ~(b + i < rb + n)
          /\ g - c.read_buffer_offset + 1 + (n + i) = g - o + 1 + i
      BY <1>2, <1>3, <1>6
    <3>2. m[b + i] = c.mem[rb + (n + i)]
      BY <1>4, <3>1
    <3> QED
      BY <1>0, <3>1, <3>2
  <2>2. o <= s /\ s - o <= HalfPool /\ o <= g
    BY <1>2, <1>3, <1>6, HalfFacts
  <2> QED
    BY <1>7, <2>1, <2>2 DEF Reading
<1>11. Keeps(c, d)
  <2> SUFFICES ASSUME NEW i \in 0 .. PoolSize - 1, Clean(c, i)
               PROVE  Clean(d, i) /\ (c.mem[i] = NUL => d.mem[i] = NUL)
    BY DEF Keeps
  <2>1. /\ i \in Int /\ (i < c.pos \/ i >= c.end) /\ c.mem[i] >= NUL
        /\ ~(c.read_buffer <= i /\ i < c.read_buffer + c.read_buffer_size)
        /\ ~(c.write_buffer <= i /\ i < c.write_buffer + c.write_buffer_size)
    BY <1>3 DEF Clean
  <2>2. m[i] = c.mem[i]
    BY <1>2, <1>3, <1>4, <2>1
  <2>3. ~(b <= i /\ i < b + s)
    BY <1>2, <1>3, <1>6, <2>1
  <2> QED
    BY <1>7, <2>1, <2>2, <2>3 DEF Clean
<1>12. \A i \in 0 .. p - 1 : d.mem[rb + i] > NUL
  <2> SUFFICES ASSUME NEW i \in 0 .. p - 1 PROVE m[rb + i] > NUL
    BY <1>7
  <2>1. /\ rb + i \in 0 .. PoolSize - 1 /\ ~(rb + p <= rb + i)
        /\ i \in 0 .. c.read_buffer_offset - 1
    BY <1>2, <1>3
  <2>2. m[rb + i] = g - c.read_buffer_offset + 1 + i
    BY <1>0, <1>4, <2>1
  <2> QED
    BY <1>2, <1>3, <2>2 DEF NUL
<1>13. Run(d, rb, rb + p)
  <2>1. rb + p \in 0 .. PoolSize - 1 /\ rb <= rb + p /\ rb + p < rb + n
        /\ rb + p <= rb + p
    BY <1>2, <1>3
  <2>2. m[rb + p] = NUL
    BY <1>4, <2>1
  <2>3. ASSUME NEW i \in rb .. rb + p PROVE Clean(d, i)
    <3>1. /\ i \in 0 .. PoolSize - 1 /\ i \in Int /\ i < c.pos
          /\ ~(b <= i)
          /\ ~(c.write_buffer <= i /\ i < c.write_buffer + c.write_buffer_size)
      BY <1>2, <1>3, <1>6
    <3>2. m[i] >= NUL
      <4>1. CASE i = rb + p
        BY <2>2, <4>1 DEF NUL
      <4>2. CASE i # rb + p
        <5>1. i - rb \in 0 .. p - 1 /\ rb + (i - rb) = i
          BY <1>3, <3>1, <4>2
        <5>2. m[i] > NUL
          BY <1>7, <1>12, <5>1
        <5> QED
          BY <1>6a, <3>1, <5>2 DEF NUL
      <4> QED
        BY <4>1, <4>2
    <3> QED
      BY <1>7, <3>1, <3>2 DEF Clean
  <2> QED
    BY <1>3, <1>7, <2>1, <2>2, <2>3 DEF Run
<1> QED
  BY <1>1, <1>6, <1>7, <1>8, <1>9, <1>10, <1>11, <1>12, <1>13 DEF Base, Taken, d

\* A line is taken: p bytes of text and its end, which is the end of a line
\* in the stream; an empty line after a line is the end of a request.
TookLine(c, d, g, p, n) ==
  LET q == g - c.read_buffer_offset
  IN  /\ Taken(c, d, g, p, n)
      /\ p \in Nat /\ n \in Nat /\ p < n /\ n <= c.read_buffer_offset
      /\ NL(q + n)
      /\ p = 0 /\ q >= 1 /\ NL(q) => EmptyLineEnds(wire, q + n)

LEMMA TakeFacts ==
  ASSUME NEW c, NEW g, Base(c, g), WireInv, Arrived(g), HasLine(c)
  PROVE  \E n \in Nat : TookLine(c, TakeLine(c), g, LineLength(c), n)
<1> DEFINE o == c.read_buffer_offset
           rb == c.read_buffer
           q == g - o
           p == LineLength(c)
           d == TakeLine(c)
           n == IF At(c, rb + p) = "\r" /\ At(c, (rb + p) + 1) = "\n"
                THEN p + 2 ELSE p + 1
<1>1. p = LineAt(g, o) /\ LineThere(g, o)
  BY SameLine
<1>2. o \in Nat /\ g \in Nat /\ o <= g /\ rb \in Int
  BY DEF Base, Connections, Reading
<1>3. d = CutOff(c, p, n)
  BY Zenon DEF TakeLine, CutOff
<1> HIDE DEF p, d, rb
<1>4. /\ p \in Nat /\ p < o
      /\ \/ NL(q + 1 + p)
         \/ CR(q + 1 + p) /\ NL((q + 1 + p) + 1) /\ p < o - 1
  <2> HIDE DEF o
  <2> QED
    BY <1>1, <1>2, LineFacts DEF Arrived
<1>4a. p \in Nat /\ p < o
  BY <1>4
<1>5. At(c, rb + p) = wire[q + 1 + p]
  <2>1. p \in 0 .. o - 1
    BY <1>2, <1>4
  <2> QED
    BY <2>1, AtRead, Zenon DEF rb
<1>6. p + 1 <= o - 1 => At(c, (rb + p) + 1) = wire[(q + 1 + p) + 1]
  <2> SUFFICES ASSUME p + 1 <= o - 1
               PROVE  At(c, (rb + p) + 1) = wire[(q + 1 + p) + 1]
    OBVIOUS
  <2>1. p + 1 \in 0 .. o - 1 /\ rb + (p + 1) = (rb + p) + 1
        /\ q + 1 + (p + 1) = (q + 1 + p) + 1
    BY <1>2, <1>4a
  <2>2. At(c, rb + (p + 1)) = wire[q + 1 + (p + 1)]
    BY <2>1, AtRead, Zenon DEF rb
  <2> QED
    BY <2>1, <2>2, Zenon
<1> DEFINE w == q + 1 + p
<1>7. \/ NL(w) /\ n = p + 1
      \/ CR(w) /\ NL(w + 1) /\ n = p + 2 /\ p + 1 <= o - 1
  <2>1. CASE NL(w)
    <3>1. At(c, rb + p) # "\r"
      BY <1>5, <2>1, Zenon DEF NL
    <3> QED
      BY <2>1, <3>1, Zenon
  <2>2. CASE CR(w) /\ NL(w + 1) /\ p < o - 1
    <3>1. p + 1 <= o - 1
      BY <1>2, <1>4, <2>2
    <3>2. At(c, rb + p) = "\r" /\ At(c, (rb + p) + 1) = "\n"
      BY <1>5, <1>6, <2>2, <3>1, Zenon DEF CR, NL
    <3> QED
      BY <2>2, <3>1, <3>2, Zenon
  <2> QED
    BY <1>4, <2>1, <2>2
<1> HIDE DEF n
<1>8. /\ n \in Nat /\ p < n /\ n <= o /\ q \in Int /\ q >= 0
      /\ n = p + 1 => q + n = w
      /\ n = p + 2 => q + n = w + 1
  <2>1. n = p + 1 \/ (n = p + 2 /\ p + 1 <= o - 1)
    BY <1>7, Zenon
  <2> QED
    BY <1>2, <1>4a, <2>1
<1>9. NL(q + n)
  BY <1>7, <1>8, Zenon
<1>10. ASSUME p = 0, q >= 1, NL(q) PROVE EmptyLineEnds(wire, q + n)
  <2>1. Len(wire) \in Nat
    BY DEF WireInv
  <2>2. q + n \in 2 .. Len(wire) /\ w = q + 1
    BY <1>2, <1>8, <1>10, <2>1 DEF Arrived
  <2>3. CASE n = p + 1
    <3>1. (q + n) - 1 = q
      BY <1>8, <1>10, <2>3
    <3>2. wire[(q + n) - 1] = "\n"
      BY <1>10, <3>1, Zenon DEF NL
    <3> QED
      BY <1>9, <2>2, <3>2, Zenon DEF EmptyLineEnds, NL
  <2>4. CASE n = p + 2
    <3>1. (q + n) - 1 = w /\ (q + n) - 2 = q /\ q + n > 2
      BY <1>8, <1>10, <2>2, <2>4
    <3>2. CR(w)
      BY <1>4, <1>7, <2>4
    <3>3. wire[(q + n) - 1] = "\r" /\ wire[(q + n) - 2] = "\n"
      BY <1>10, <3>1, <3>2, Zenon DEF CR, NL
    <3> QED
      BY <1>9, <2>2, <3>1, <3>3, Zenon DEF EmptyLineEnds, NL
  <2> QED
    BY <1>7, <2>3, <2>4
<1>11. Taken(c, d, g, p, n)
  BY <1>3, <1>4, <1>8, CutFacts
<1>12. TookLine(c, d, g, p, n)
  BY <1>4, <1>8, <1>9, <1>10, <1>11 DEF TookLine
<1> QED
  BY <1>8, <1>12 DEF d, p

-----------------------------------------------------------------------------
(* Where the stream is                                                     *)

\* Nothing more is read.
LEMMA FlowQuiet ==
  ASSUME NEW c, NEW d, NEW g, NEW p, NEW r, Flow(c, g, p),
         d.read_buffer_offset = c.read_buffer_offset,
         d.state \notin ReadingStates, d.read_closed = TRUE
  PROVE  Flow(d, g, r)
  BY DEF Flow, Place, ReadingStates

\* The request has been read.
LEMMA FlowLater ==
  ASSUME NEW c, NEW d, NEW g, NEW p, NEW r, Flow(c, g, p),
         c.state \notin ReadingStates \cup {"CLOSED"},
         d.read_buffer_offset = c.read_buffer_offset,
         d.state \notin ReadingStates,
         d.read_closed = TRUE \/ d.read_closed = c.read_closed
  PROVE  Flow(d, g, r)
  BY DEF Flow, Place, ReadingStates

\* More is to come.
LEMMA FlowSame ==
  ASSUME NEW c, NEW d, NEW g, NEW p, NEW r, Flow(c, g, p),
         d.read_buffer_offset = c.read_buffer_offset,
         d.state = c.state, d.read_closed = c.read_closed,
         \/ r \notin {"wait", "update"}
         \/ d.state \notin ReadingStates
         \/ PlainStream => ~LineThere(g, c.read_buffer_offset)
  PROVE  Flow(d, g, r)
  BY DEF Flow, Place, ReadingStates

\* A line was taken.
LEMMA FlowLine ==
  ASSUME NEW c, NEW d, NEW g, NEW p, NEW r, Flow(c, g, p), Base(c, g), WireInv,
         NEW t, NEW l, NEW n, HasLine(c), l = LineLength(c),
         TookLine(c, t, g, l, n),
         d.read_buffer_offset = t.read_buffer_offset,
         \/ r = "idle" /\ d.state \in {"URL_RECEIVED", "HEADER_PART_RECEIVED"}
         \/ d.state = "CLOSED"
         \/ d.state = "HEADERS_SENDING" /\ d.read_closed = TRUE
         \/ /\ d.state = "HEADERS_RECEIVED" /\ l = 0
            /\ c.state \in ReadingStates \ {"INIT"}
  PROVE  Flow(d, g, r)
<1> SUFFICES ASSUME PlainStream PROVE Arrived(g) /\ Place(d, g, r)
  BY DEF Flow
<1> DEFINE o == c.read_buffer_offset
           u == d.read_buffer_offset
<1>1. o \in Nat /\ g \in Nat /\ o <= g
  BY DEF Base, Connections, Reading
<1>2. l = LineAt(g, o) /\ LineThere(g, o)
  BY SameLine
<1>3. l \in Nat /\ n \in Nat /\ l < n /\ n <= o /\ NL((g - o) + n) /\ u = o - n
      /\ (l = 0 /\ g - o >= 1 /\ NL(g - o) => EmptyLineEnds(wire, (g - o) + n))
  BY DEF TookLine, Taken
<1>4. g <= Len(wire) /\ o - (l + 1) <= HalfPool
  BY <1>2 DEF Flow, Place, Arrived
<1> HIDE DEF o, u
<1>5. u \in Nat /\ u <= HalfPool /\ u <= g /\ g - u = (g - o) + n /\ g - u >= 1
  <2>1. HalfPool \in Nat
    BY HalfFacts
  <2>2. l \in Nat /\ n \in Nat /\ l < n /\ n <= o /\ u = o - n
    BY <1>3
  <2>3. o - (l + 1) <= HalfPool
    BY <1>4
  <2> QED
    BY <1>1, <2>1, <2>2, <2>3
<1>6. ASSUME LineThere(g, u) PROVE u - (LineAt(g, u) + 1) <= HalfPool
  <2>1. LineAt(g, u) \in Nat
    BY <1>1, <1>4, <1>5, <1>6, LineFacts
  <2> QED
    BY <1>5, <2>1, HalfFacts
<1>7. NL(g - u)
  BY <1>3, <1>5
<1>8. d.state = "HEADERS_RECEIVED" => EmptyLineEnds(wire, g - u)
  <2> SUFFICES ASSUME d.state = "HEADERS_RECEIVED"
               PROVE  EmptyLineEnds(wire, g - u)
    OBVIOUS
  <2>1. l = 0 /\ c.state \in ReadingStates \ {"INIT"}
    OBVIOUS
  <2>2. g - o >= 1 /\ NL(g - o)
    BY <2>1 DEF Flow, Place, o
  <2> QED
    BY <1>3, <1>5, <2>1, <2>2
<1> QED
  BY <1>4, <1>5, <1>6, <1>7, <1>8 DEF Place, Arrived, ReadingStates, u

\* A request of a plain stream does not begin with an empty line.
LEMMA FirstLine ==
  ASSUME NEW c, NEW g, NEW p, Flow(c, g, p), Base(c, g), WireInv, PlainStream,
         c.state = "INIT", HasLine(c)
  PROVE  LineLength(c) # 0
<1> DEFINE o == c.read_buffer_offset
           q == g - o
<1>1. o \in Nat /\ g \in Nat /\ o <= g
  BY DEF Base, Connections, Reading
<1>2. LineLength(c) = LineAt(g, o) /\ LineThere(g, o)
  BY SameLine
<1>3. g <= Len(wire) /\ (q = 0 \/ EmptyLineEnds(wire, q))
  BY DEF Flow, Place, Arrived
<1> HIDE DEF o
<1>4. SUFFICES ASSUME LineLength(c) = 0 PROVE FALSE
  OBVIOUS
<1>5. 0 < o /\ (NL(q + 1 + 0) \/ CR(q + 1 + 0))
  BY <1>1, <1>2, <1>3, <1>4, LineFacts
<1>6. Len(wire) \in Nat
  BY DEF WireInv
<1>7. q + 1 + 0 = q + 1 /\ q + 1 \in 1 .. Len(wire) /\ (q + 1) - 1 = q
      /\ (q = 0 => q + 1 = 1)
  BY <1>1, <1>3, <1>5, <1>6
<1>8. wire[q + 1] \notin {"\r", "\n"}
  BY <1>3, <1>7, Zenon DEF PlainStream
<1>9. NL(q + 1) \/ CR(q + 1)
  BY <1>5, <1>7
<1> QED
  BY <1>8, <1>9, Zenon DEF NL, CR

-----------------------------------------------------------------------------
(* The actions                                                             *)

\* Bytes arrive in what is free of the read buffer.
Received(c, g, n) ==
  LET a == c.read_buffer + c.read_buffer_offset
  IN  [c EXCEPT !.read_buffer_offset = @ + n,
                !.mem = Write(@, [i \in a .. a + n - 1 |-> g + 1 + (i - a)])]

LEMMA ReceiveFacts ==
  ASSUME NEW c, NEW g, Base(c, g), NEW n \in Nat,
         n >= 1, n <= c.read_buffer_size - c.read_buffer_offset
  PROVE  LET d == Received(c, g, n)
         IN  /\ Base(d, g + n) /\ Keeps(c, d) /\ SameTexts(c, d)
             /\ d.state = c.state /\ d.read_closed = c.read_closed
             /\ d.read_buffer_offset = c.read_buffer_offset + n
             /\ d.write_buffer_size = c.write_buffer_size
<1> DEFINE d == Received(c, g, n)
           rb == c.read_buffer
           rs == c.read_buffer_size
           o == c.read_buffer_offset
           a == rb + o
           part == [i \in a .. a + n - 1 |-> g + 1 + (i - a)]
           m == Write(c.mem, part)
<1>1. c \in Connections /\ g \in Nat /\ Layout(c) /\ Reading(c, g)
  BY DEF Base
<1>2. rb \in Int /\ rs \in Nat /\ o \in Nat /\ c.mem \in Memory /\ c.pos \in Nat
      /\ c.end \in Nat /\ PoolSize \in Nat
  BY <1>1, HalfFacts DEF Connections, Memory
<1>3. o <= rs /\ rs - o <= HalfPool /\ o <= g
  BY <1>1 DEF Reading
<1>4. rb >= 0 /\ rb + rs <= c.pos /\ c.pos <= PoolSize
  <2>1. rs # 0
    BY <1>2, <1>3
  <2>2. rb >= 0 /\ rb + rs <= c.pos /\ c.pos <= c.end /\ c.end <= PoolSize
    BY <1>1, <2>1 DEF Layout
  <2> QED
    BY <1>2, <2>2
<1>5. n <= rs - o
  OBVIOUS
<1>6. m \in Memory /\ \A i \in 0 .. PoolSize - 1 :
        m[i] = IF a <= i /\ i < a + n THEN g + 1 + (i - a) ELSE c.mem[i]
  <2>1. DOMAIN part = a .. a + n - 1 /\ \A i \in a .. a + n - 1 : part[i] = g + 1 + (i - a)
    OBVIOUS
  <2> HIDE DEF part, rb, rs, o
  <2>2. a \in Int /\ a >= 0 /\ a + n <= PoolSize
    BY <1>2, <1>3, <1>4, <1>5
  <2> HIDE DEF a
  <2>3. DOMAIN part \subseteq 0 .. PoolSize - 1
    BY <1>2, <2>1, <2>2
  <2>4. \A i \in DOMAIN part : part[i] \in Int
    BY <1>1, <2>1, <2>2
  <2>5. m \in Memory /\ \A i \in 0 .. PoolSize - 1 :
          m[i] = IF i \in DOMAIN part THEN part[i] ELSE c.mem[i]
    BY <1>2, <2>3, <2>4, WriteFacts
  <2>6. ASSUME NEW i \in 0 .. PoolSize - 1
        PROVE  m[i] = IF a <= i /\ i < a + n THEN g + 1 + (i - a) ELSE c.mem[i]
    <3>1. m[i] = IF i \in DOMAIN part THEN part[i] ELSE c.mem[i]
      BY <2>5
    <3>2. i \in DOMAIN part <=> (a <= i /\ i < a + n)
      BY <2>1, <2>2
    <3>3. i \in DOMAIN part => part[i] = g + 1 + (i - a)
      BY <2>1
    <3> HIDE DEF m, part
    <3> QED
      BY <3>1, <3>2, <3>3
  <2> QED
    BY <2>5, <2>6
<1>7. d = [c EXCEPT !.read_buffer_offset = o + n, !.mem = m]
  BY Zenon DEF Received
<1> HIDE DEF d, m, part
<1>8. d \in Connections /\ d.mem = m /\ d.read_buffer_offset = o + n
      /\ d.pos = c.pos /\ d.end = c.end
      /\ d.read_buffer = rb /\ d.read_buffer_size = rs
      /\ d.write_buffer = c.write_buffer
      /\ d.write_buffer_size = c.write_buffer_size
      /\ d.state = c.state /\ SameTexts(c, d)
  <2> DEFINE k == o + n
  <2>1. k \in Nat
    BY <1>2
  <2> HIDE DEF k
  <2>2. d = [c EXCEPT !.read_buffer_offset = k, !.mem = m]
    BY <1>7 DEF k
  <2>3. d \in Connections
    BY <1>1, <1>6, <2>1, <2>2 DEF Connections, Memory
  <2>4. d.read_buffer_offset = k /\ d.mem = m
    BY <1>1, <2>2 DEF Connections
  <2>5. d.pos = c.pos /\ d.end = c.end
        /\ d.read_buffer = rb /\ d.read_buffer_size = rs
        /\ d.write_buffer = c.write_buffer
        /\ d.write_buffer_size = c.write_buffer_size
        /\ d.state = c.state /\ SameTexts(c, d)
    BY <1>1, <2>2 DEF Connections, SameTexts
  <2> QED
    BY <2>3, <2>4, <2>5 DEF k
<1>9. d.read_closed = c.read_closed
  BY <1>1, <1>7, Zenon DEF Connections
<1>10. Layout(d)
  BY <1>1, <1>8 DEF Layout
<1>11. Reading(d, g + n)
  <2> HIDE DEF rb, rs, o
  <2>0. HalfPool \in Nat
    BY HalfFacts
  <2>1. o + n <= rs /\ rs - (o + n) <= HalfPool /\ o + n <= g + n
    BY <1>1, <1>2, <1>3, <1>5, <2>0
  <2>2. ASSUME NEW i \in 0 .. (o + n) - 1
        PROVE  m[rb + i] = (g + n) - (o + n) + 1 + i
    <3>1. rb + i \in 0 .. PoolSize - 1 /\ (g + n) - (o + n) + 1 + i = g - o + 1 + i
      BY <1>1, <1>2, <1>3, <1>4, <1>5
    <3>2. m[rb + i] = IF a <= rb + i /\ rb + i < a + n
                      THEN g + 1 + ((rb + i) - a) ELSE c.mem[rb + i]
      BY <1>6, <3>1
    <3>3. CASE i < o
      <4>1. ~(a <= rb + i)
        BY <1>2, <3>3
      <4>2. i \in 0 .. o - 1
        BY <1>2, <3>3
      <4>3. c.mem[rb + i] = g - o + 1 + i
        BY <1>1, <4>2 DEF Reading, rb, o
      <4> QED
        BY <3>1, <3>2, <4>1, <4>3
    <3>4. CASE ~(i < o)
      <4>1. a <= rb + i /\ rb + i < a + n /\ g + 1 + ((rb + i) - a) = g - o + 1 + i
        BY <1>1, <1>2, <3>4
      <4> QED
        BY <3>1, <3>2, <4>1
    <3> QED
      BY <3>3, <3>4
  <2> QED
    BY <1>8, <2>1, <2>2 DEF Reading
<1>12. Keeps(c, d)
  <2> SUFFICES ASSUME NEW i \in 0 .. PoolSize - 1, Clean(c, i)
               PROVE  Clean(d, i) /\ (c.mem[i] = NUL => d.mem[i] = NUL)
    BY DEF Keeps
  <2>1. ~(rb <= i /\ i < rb + rs)
    BY DEF Clean
  <2>2. m[i] = c.mem[i]
    <3>1. ~(a <= i /\ i < a + n)
      <4> HIDE DEF rb, rs, o
      <4> QED
        BY <1>2, <1>3, <1>5, <2>1
    <3> HIDE DEF a
    <3> QED
      BY <1>6, <3>1
  <2> QED
    BY <1>8, <2>2 DEF Clean
<1> QED
  BY <1>1, <1>8, <1>9, <1>10, <1>11, <1>12 DEF Base, d

\* Without a line no byte but the last can be the end of one.
LEMMA NoEndYet ==
  ASSUME NEW g \in Nat, NEW o \in Nat, ~LineThere(g, o), NEW i \in Nat, i < o - 1
  PROVE  ~NL(g - o + 1 + i) /\ ~CR(g - o + 1 + i)
<1> DEFINE End(j) == NL(g - o + 1 + j) \/ CR(g - o + 1 + j)
           e == {j \in 0 .. o - 1 : wire[g - o + 1 + j] \in {"\r", "\n"}}
           l == LineAt(g, o)
<1>1. ASSUME NEW j \in 0 .. o - 1 PROVE j \in e <=> End(j)
  BY Zenon DEF NL, CR
<1>2. e \subseteq 0 .. o - 1
  OBVIOUS
<1>3. l = IF e = {} THEN o - 1 ELSE CHOOSE j \in e : \A k \in e : j <= k
  BY Zenon DEF LineAt
<1>4. ~(o > 0 /\ l < o - 1)
  BY Zenon DEF LineThere
<1>5. i \in 0 .. o - 1
  OBVIOUS
<1> HIDE DEF e, l
<1>6. SUFFICES ASSUME i \in e PROVE FALSE
  BY <1>1, <1>5
<1> HIDE DEF End
<1>7. e \in SUBSET Nat /\ e # {}
  BY <1>2, <1>6
<1>8. \E j \in e : \A k \in e : j <= k
  BY <1>7, LeastNat
<1>9. l \in e /\ \A k \in e : l <= k
  BY <1>3, <1>7, <1>8
<1>10. l <= i /\ l \in Nat
  BY <1>6, <1>7, <1>9
<1> QED
  BY <1>4, <1>10

\* More has come, to a reader without a line if the stream is plain.
LEMMA FlowMore ==
  ASSUME NEW c, NEW d, NEW g, NEW p, Flow(c, g, p), Base(c, g), WireInv,
         c.state \in ReadingStates,
         PlainStream => ~LineThere(g, c.read_buffer_offset),
         NEW n \in Nat, n >= 1, n <= HalfPool, Arrived(g + n),
         d.read_buffer_offset = c.read_buffer_offset + n, d.state = c.state
  PROVE  Flow(d, g + n, "idle")
<1> SUFFICES ASSUME PlainStream PROVE Place(d, g + n, "idle")
  BY DEF Flow
<1> DEFINE o == c.read_buffer_offset
           u == d.read_buffer_offset
           h == g + n
<1>1. o \in Nat /\ g \in Nat /\ o <= g /\ u = o + n /\ HalfPool \in Nat
  BY HalfFacts DEF Base, Connections, Reading
<1>2. h <= Len(wire)
  BY DEF Arrived
<1>3. ~LineThere(g, o)
  OBVIOUS
<1> HIDE DEF o, u
<1>4. u \in Nat /\ h \in Nat /\ u <= h /\ h - u = g - o
  BY <1>1
<1> HIDE DEF h
<1>5. ASSUME LineThere(h, u) PROVE u - (LineAt(h, u) + 1) <= HalfPool
  <2> DEFINE l == LineAt(h, u)
             q == g - o
  <2>1. l \in Nat /\ l < u /\ (NL(q + 1 + l) \/ CR(q + 1 + l))
    BY <1>2, <1>4, <1>5, LineFacts
  <2> HIDE DEF l
  <2>2. ~(l < o - 1)
    <3> SUFFICES ASSUME l < o - 1 PROVE FALSE
      OBVIOUS
    <3>1. ~NL(q + 1 + l) /\ ~CR(q + 1 + l)
      BY <1>1, <1>3, <2>1, NoEndYet
    <3> QED
      BY <2>1, <3>1
  <2>3. u - (l + 1) <= n
    BY <1>1, <2>1, <2>2
  <2>4. n <= HalfPool
    OBVIOUS
  <2>5. u - (l + 1) <= HalfPool
    BY <1>1, <2>1, <2>3, <2>4
  <2> QED
    BY <2>5 DEF l
<1>6. /\ d.state = "INIT" => h - u = 0 \/ EmptyLineEnds(wire, h - u)
      /\ d.state \in ReadingStates \ {"INIT"} => h - u >= 1 /\ NL(h - u)
  BY <1>4 DEF Flow, Place, o
<1>7. d.state \in ReadingStates
  OBVIOUS
<1>8. Place(d, h, "idle")
  BY <1>5, <1>6, <1>7, Zenon DEF Place, u
<1> QED
  BY <1>8 DEF h

LEMMA HarmlessHeld ==
  ASSUME NEW c, NEW d, NEW g, Texts(c), Control(c), Harmless(c, d, g)
  PROVE  Base(d, g) /\ Texts(d) /\ Control(d)
<1>1. Base(d, g) /\ Keeps(c, d) /\ SameTexts(c, d)
      /\ d.state = c.state /\ d.write_buffer_size = c.write_buffer_size
  BY DEF Harmless, SameState
<1>2. Control(d)
  BY <1>1 DEF Control, SameTexts
<1> QED
  BY <1>1, <1>2, TextsKept

LEMMA RepliedHeld ==
  ASSUME NEW c, NEW d, NEW g, Texts(c), Replied(c, d, g)
  PROVE  Base(d, g) /\ Texts(d) /\ Control(d) /\ d.state \notin ReadingStates
<1>1. Base(d, g) /\ Keeps(c, d) /\ SameTexts(c, d)
      /\ d.state \in {"HEADERS_SENDING", "CLOSED"}
  BY DEF Replied
<1>2. Control(d) /\ d.state \notin ReadingStates
  BY <1>1 DEF Control, ReadingStates
<1> QED
  BY <1>1, <1>2, TextsKept

\* MHD_connection_handle_read.
LEMMA ReadHeld ==
  ASSUME WireInv, Held(con, got, pc), MHD_connection_handle_read
  PROVE  Held(con', got', pc')
<1> DEFINE low == con.read_buffer_offset + MHD_BUF_INC_SIZE > con.read_buffer_size
           c == IF low THEN try_grow_read_buffer(con).con ELSE con
           room == c.read_buffer_size - c.read_buffer_offset
           o == con.read_buffer_offset
<1>1. pc = "wait" /\ con.state \in ReadingStates /\ pc' = "idle"
  BY DEF MHD_connection_handle_read
<1>2. \/ con' = c /\ got' = got
      \/ \E n \in 1 .. Len(wire) - got :
           /\ n <= room /\ con' = Received(c, got, n) /\ got' = got + n
  BY Zenon DEF MHD_connection_handle_read, Received
<1>3. Base(con, got) /\ Texts(con) /\ Control(con) /\ Flow(con, got, pc)
  BY DEF Held
<1>4. o \in Nat /\ con.read_buffer_size \in Nat /\ got \in Nat
      /\ MHD_BUF_INC_SIZE \in Nat
  BY <1>3, HalfFacts DEF Base, Connections
<1>5. Harmless(con, c, got)
  <2>1. CASE low
    <3>1. con.read_buffer_size - con.read_buffer_offset < MHD_BUF_INC_SIZE
      BY <1>4, <2>1
    <3> QED
      BY <1>3, <2>1, <3>1, GrowFacts
  <2>2. CASE ~low
    BY <1>3, <2>2, NothingDone
  <2> QED
    BY <2>1, <2>2
<1> HIDE DEF c
<1>6. Base(c, got) /\ Texts(c) /\ Control(c)
  BY <1>3, <1>5, HarmlessHeld
<1>7. c.read_buffer_offset = o /\ c.state = con.state
      /\ c.read_closed = con.read_closed
  BY <1>5 DEF Harmless, SameState
<1>8. (PlainStream => ~LineThere(got, o)) /\ got <= Len(wire)
  BY <1>1, <1>3 DEF Flow, Place, Arrived
<1>9. CASE con' = c /\ got' = got
  <2>1. Flow(c, got, "idle")
    BY <1>3, <1>7, FlowSame
  <2> QED
    BY <1>1, <1>6, <1>9, <2>1 DEF Held
<1>10. ASSUME NEW n \in 1 .. Len(wire) - got,
              n <= room, con' = Received(c, got, n), got' = got + n
       PROVE  Held(con', got', pc')
  <2>0. Len(wire) \in Nat
    BY DEF WireInv
  <2>1. n \in Nat /\ n >= 1 /\ got + n <= Len(wire)
    BY <1>4, <1>8, <2>0
  <2> DEFINE d == Received(c, got, n)
  <2>2. /\ Base(d, got + n) /\ Keeps(c, d) /\ SameTexts(c, d)
        /\ d.state = c.state /\ d.read_closed = c.read_closed
        /\ d.read_buffer_offset = c.read_buffer_offset + n
        /\ d.write_buffer_size = c.write_buffer_size
    BY <1>6, <1>10, <2>1, ReceiveFacts
  <2> HIDE DEF d
  <2>3. Texts(d)
    BY <1>6, <2>2, TextsKept
  <2>4. Control(d)
    BY <1>6, <2>2 DEF Control, SameTexts
  <2>5. n <= HalfPool
    <3>1. room <= HalfPool /\ c.read_buffer_size \in Nat
          /\ c.read_buffer_offset \in Nat
      BY <1>6 DEF Base, Reading, Connections
    <3> QED
      BY <1>10, <2>1, <3>1, HalfFacts
  <2>6. Flow(d, got + n, "idle")
    <3>1. Arrived(got + n)
      BY <2>1 DEF Arrived
    <3>2. Flow(con, got, pc) /\ Base(con, got)
          /\ (PlainStream => ~LineThere(got, con.read_buffer_offset))
      BY <1>3, <1>8
    <3>3. d.read_buffer_offset = con.read_buffer_offset + n /\ d.state = con.state
      BY <1>7, <2>2
    <3> QED
      BY <1>1, <2>1, <2>5, <3>1, <3>2, <3>3, FlowMore
  <2> QED
    BY <1>1, <1>10, <2>2, <2>3, <2>4, <2>6 DEF Held, d
<1> QED
  BY <1>2, <1>9, <1>10

\* MHD_connection_update_event_loop_info.
LEMMA UpdateHeld ==
  ASSUME WireInv, Held(con, got, pc), MHD_connection_update_event_loop_info
  PROVE  Held(con', got', pc')
<1>1. /\ pc = "update" /\ got' = got
      /\ con' = IF con.state \in ReadingStates THEN GrowIfFull(con) ELSE con
      /\ pc' = "wait"
  BY DEF MHD_connection_update_event_loop_info
<1>2. Base(con, got) /\ Texts(con) /\ Control(con) /\ Flow(con, got, pc)
  BY DEF Held
<1> DEFINE d == IF con.state \in ReadingStates THEN GrowIfFull(con) ELSE con
<1>3. \/ Harmless(con, d, got)
      \/ Refused(con, d, got)
  BY <1>2, NothingDone, GrowIfFullFacts
<1>4. con' = d
  BY <1>1
<1> HIDE DEF d
<1>5. CASE Harmless(con, d, got)
  <2>1. Base(d, got) /\ Texts(d) /\ Control(d)
    BY <1>2, <1>5, HarmlessHeld
  <2>2. d.read_buffer_offset = con.read_buffer_offset /\ d.state = con.state
        /\ d.read_closed = con.read_closed
    BY <1>5 DEF Harmless, SameState
  <2>3. \/ con.state \notin ReadingStates
        \/ PlainStream => ~LineThere(got, con.read_buffer_offset)
    BY <1>1, <1>2 DEF Flow, Place
  <2>4. Flow(d, got, pc')
    BY <1>2, <2>2, <2>3, FlowSame
  <2> QED
    BY <1>1, <1>4, <2>1, <2>4 DEF Held
<1>6. CASE Refused(con, d, got)
  <2>1. Replied(con, d, got) /\ d.read_closed = TRUE
    BY <1>6 DEF Refused
  <2>2. Base(d, got) /\ Texts(d) /\ Control(d) /\ d.state \notin ReadingStates
    BY <1>2, <2>1, RepliedHeld
  <2>3. d.read_buffer_offset = con.read_buffer_offset
    BY <2>1 DEF Replied
  <2>4. Flow(d, got, pc')
    BY <1>2, <2>1, <2>2, <2>3, FlowQuiet
  <2> QED
    BY <1>1, <1>4, <2>2, <2>4 DEF Held
<1> QED
  BY <1>3, <1>5, <1>6

\* The head of the reply has been sent: its block is empty.
Unblocked(e) ==
  [e EXCEPT !.state = "HEADERS_SENT", !.sent = 0, !.write_buffer = NULL,
            !.write_buffer_size = 0]

LEMMA UnblockedFields ==
  ASSUME NEW e \in Connections
  PROVE  LET d == Unblocked(e)
         IN  /\ d \in Connections /\ d.mem = e.mem /\ d.pos = e.pos /\ d.end = e.end
             /\ d.read_buffer = e.read_buffer
             /\ d.read_buffer_size = e.read_buffer_size
             /\ d.read_buffer_offset = e.read_buffer_offset
             /\ d.write_buffer = NULL /\ d.write_buffer_size = 0
             /\ d.state = "HEADERS_SENT" /\ d.read_closed = e.read_closed
             /\ SameTexts(e, d)
<1> DEFINE d == Unblocked(e)
<1>1. d = [e EXCEPT !.state = "HEADERS_SENT", !.sent = 0, !.write_buffer = NULL,
                    !.write_buffer_size = 0]
  BY DEF Unblocked
<1>2. "HEADERS_SENT" \in States /\ 0 \in Int /\ 0 \in Nat /\ NULL \in Int
  BY DEF States, NULL
<1> HIDE DEF d
<1>3. d \in Connections
  BY <1>1, <1>2 DEF Connections
<1>4. d.write_buffer = NULL /\ d.write_buffer_size = 0 /\ d.state = "HEADERS_SENT"
  BY <1>1 DEF Connections
<1>5. d.mem = e.mem /\ d.pos = e.pos /\ d.end = e.end
      /\ d.read_buffer = e.read_buffer
      /\ d.read_buffer_size = e.read_buffer_size
      /\ d.read_buffer_offset = e.read_buffer_offset
      /\ SameTexts(e, d)
  BY <1>1 DEF Connections, SameTexts
<1>6. d.read_closed = e.read_closed
  BY <1>1, Zenon DEF Connections
<1> QED
  BY <1>3, <1>4, <1>5, <1>6 DEF d

\* Its block is given back, or stays where it is for the rest of the request.
LEMMA GiveBackFacts ==
  ASSUME NEW c, NEW g, Base(c, g), NEW e, e \in Connections,
         NEW d, d = Unblocked(e),
         \/ e = c
         \/ /\ c.pos >= c.write_buffer_size
            /\ c.pos - c.write_buffer_size = c.write_buffer
            /\ e = PoolAt(c, c.write_buffer,
                          Fill(c.mem, c.write_buffer, c.write_buffer_size, NUL))
  PROVE  /\ Base(d, g) /\ Keeps(c, d) /\ SameTexts(c, d)
         /\ d.read_buffer_offset = c.read_buffer_offset
         /\ d.read_closed = c.read_closed
         /\ d.state = "HEADERS_SENT" /\ d.write_buffer_size = 0
<1> DEFINE wb == c.write_buffer
           ws == c.write_buffer_size
           rb == c.read_buffer
           rs == c.read_buffer_size
           o == c.read_buffer_offset
           m == Fill(c.mem, wb, ws, NUL)
<1>1. c \in Connections /\ g \in Nat /\ Layout(c) /\ Reading(c, g)
  BY DEF Base
<1>2. wb \in Int /\ ws \in Nat /\ rb \in Int /\ rs \in Nat /\ o \in Nat
      /\ c.pos \in Nat /\ c.end \in Nat /\ c.mem \in Memory /\ PoolSize \in Nat
  BY <1>1, HalfFacts DEF Connections, Memory
<1>3. /\ d \in Connections /\ d.mem = e.mem /\ d.pos = e.pos /\ d.end = e.end
      /\ d.read_buffer = e.read_buffer
      /\ d.read_buffer_size = e.read_buffer_size
      /\ d.read_buffer_offset = e.read_buffer_offset
      /\ d.write_buffer = NULL /\ d.write_buffer_size = 0
      /\ d.state = "HEADERS_SENT" /\ d.read_closed = e.read_closed
      /\ SameTexts(e, d)
  BY UnblockedFields
<1>4. CASE e = c
  <2>1. Layout(d)
    BY <1>1, <1>3, <1>4 DEF Layout
  <2>2. Reading(d, g)
    BY <1>1, <1>3, <1>4 DEF Reading
  <2>3. ASSUME NEW i \in 0 .. PoolSize - 1, Clean(c, i)
        PROVE  Clean(d, i) /\ (c.mem[i] = NUL => d.mem[i] = NUL)
    <3>1. ~(NULL <= i /\ i < NULL + 0)
      BY DEF NULL
    <3> QED
      BY <1>3, <1>4, <2>3, <3>1 DEF Clean
  <2> QED
    BY <1>1, <1>3, <1>4, <2>1, <2>2, <2>3 DEF Base, Keeps
<1>5. CASE /\ c.pos >= ws /\ c.pos - ws = wb /\ e = PoolAt(c, wb, m)
  <2>1. c.pos <= c.end /\ c.end <= PoolSize
        /\ (rs = 0 \/ (rb >= 0 /\ rb + rs <= c.pos))
        /\ (rs = 0 \/ ws = 0 \/ rb + rs <= wb \/ wb + ws <= rb)
    BY <1>1 DEF Layout
  <2>2. wb \in Nat /\ wb + ws = c.pos /\ wb <= c.end /\ wb + ws <= PoolSize
    BY <1>2, <1>5, <2>1
  <2>3. NUL \in Int
    BY DEF NUL
  <2>4. m \in Memory /\ \A i \in 0 .. PoolSize - 1 :
          m[i] = IF wb <= i /\ i < wb + ws THEN NUL ELSE c.mem[i]
    <3> HIDE DEF wb, ws
    <3> QED
      BY <1>2, <2>2, <2>3, FillFacts
  <2>5. PoolOnly(c, e) /\ e.pos = wb /\ e.mem = m
    BY <1>1, <1>5, <2>2, <2>4, PoolUpdate
  <2> HIDE DEF m
  <2>6. /\ d.mem = m /\ d.pos = wb /\ d.end = c.end
        /\ d.read_buffer = rb /\ d.read_buffer_size = rs
        /\ d.read_buffer_offset = o
        /\ d.read_closed = c.read_closed /\ SameTexts(c, d)
    BY <1>3, <2>5 DEF PoolOnly, SameTexts
  <2> HIDE DEF wb, ws, rb, rs, o
  <2>7. rs = 0 \/ (rb >= 0 /\ rb + rs <= wb)
    BY <1>2, <2>1, <2>2
  <2>8. Layout(d)
    BY <1>2, <1>3, <2>1, <2>2, <2>6, <2>7 DEF Layout
  <2>9. o <= rs /\ rs - o <= HalfPool /\ o <= g
    BY <1>1 DEF Reading, o, rs
  <2>10. ASSUME NEW i \in 0 .. o - 1 PROVE m[rb + i] = g - o + 1 + i
    <3>1. rb + i \in 0 .. PoolSize - 1 /\ ~(wb <= rb + i)
      BY <1>2, <2>1, <2>2, <2>7, <2>9
    <3>2. m[rb + i] = c.mem[rb + i]
      BY <2>4, <3>1
    <3>3. c.mem[rb + i] = g - o + 1 + i
      BY <1>1 DEF Reading, o, rb
    <3> QED
      BY <3>2, <3>3
  <2>11. Reading(d, g)
    BY <2>6, <2>9, <2>10 DEF Reading
  <2>12. ASSUME NEW i \in 0 .. PoolSize - 1, Clean(c, i)
         PROVE  Clean(d, i) /\ (c.mem[i] = NUL => d.mem[i] = NUL)
    <3>1. /\ i < c.pos \/ i >= c.end
          /\ ~(rb <= i /\ i < rb + rs) /\ ~(wb <= i /\ i < wb + ws)
          /\ c.mem[i] >= NUL
      BY <2>12 DEF Clean, rb, rs, wb, ws
    <3>2. m[i] = c.mem[i]
      BY <2>4, <3>1
    <3>3. i < wb \/ i >= c.end
      BY <1>2, <2>2, <3>1
    <3>4. ~(NULL <= i /\ i < NULL + 0)
      BY DEF NULL
    <3> QED
      BY <1>3, <2>6, <3>1, <3>2, <3>3, <3>4 DEF Clean
  <2> QED
    BY <1>1, <1>3, <2>6, <2>8, <2>11, <2>12 DEF Base, Keeps, o
<1> QED
  BY <1>4, <1>5

LEMMA WriteDoneFacts ==
  ASSUME NEW c, NEW g, Base(c, g)
  PROVE  LET d == check_write_done(c)
         IN  \/ d = c
             \/ /\ Base(d, g) /\ Keeps(c, d) /\ SameTexts(c, d)
                /\ d.read_buffer_offset = c.read_buffer_offset
                /\ d.read_closed = c.read_closed
                /\ d.state = "HEADERS_SENT" /\ d.write_buffer_size = 0
<1> DEFINE d == check_write_done(c)
           wb == c.write_buffer
           ws == c.write_buffer_size
           r == MHD_pool_reallocate(c, wb, ws, 0)
<1>1. d = c \/ d = Unblocked(r.con)
  BY Zenon DEF check_write_done, Unblocked
<1>2. c \in Connections /\ wb \in Int /\ ws \in Nat /\ c.pos \in Nat
      /\ c.end \in Nat /\ c.mem \in Memory
  BY DEF Base, Connections, Memory
<1>3. ROUND_TO_ALIGN(0) = 0
  BY RoundFacts
<1>4. Reallocated(c, wb, ws, 0, r)
  BY <1>3, ReallocateCases
<1> HIDE DEF d, r
<1>5. \/ r.con = c
      \/ /\ c.pos >= ws /\ c.pos - ws = wb
         /\ r.con = PoolAt(c, c.pos + 0 - ws, Fill(c.mem, c.pos + 0 - ws, ws - 0, NUL))
  <2>1. ~(c.pos + 0 > c.end) /\ ~(0 <= ws) => FALSE
    BY <1>2
  <2> QED
    BY <1>4, <2>1 DEF Reallocated, PoolAt
<1>6. ASSUME d = Unblocked(r.con)
      PROVE  /\ Base(d, g) /\ Keeps(c, d) /\ SameTexts(c, d)
             /\ d.read_buffer_offset = c.read_buffer_offset
             /\ d.read_closed = c.read_closed
             /\ d.state = "HEADERS_SENT" /\ d.write_buffer_size = 0
  <2>1. CASE r.con = c
    BY <1>2, <1>6, <2>1, GiveBackFacts
  <2>2. CASE /\ c.pos >= ws /\ c.pos - ws = wb
             /\ r.con = PoolAt(c, c.pos + 0 - ws,
                               Fill(c.mem, c.pos + 0 - ws, ws - 0, NUL))
    <3>1. c.pos + 0 - ws = wb /\ ws - 0 = ws /\ wb \in Nat
      BY <1>2, <2>2
    <3>2. r.con = PoolAt(c, wb, Fill(c.mem, wb, ws, NUL))
      BY <2>2, <3>1, Zenon
    <3>3. wb + ws <= PoolSize /\ NUL \in Int /\ PoolSize \in Nat
      <4>1. c.pos <= c.end /\ c.end <= PoolSize
        BY DEF Base, Layout
      <4> QED
        BY <1>2, <2>2, <4>1, HalfFacts DEF NUL
    <3>4. Fill(c.mem, wb, ws, NUL) \in Memory
      <4> HIDE DEF wb, ws
      <4> QED
        BY <1>2, <3>1, <3>3, FillFacts
    <3>5. r.con \in Connections
      BY <1>2, <3>1, <3>2, <3>4, PoolUpdate DEF PoolOnly
    <3> QED
      BY <1>6, <2>2, <3>2, <3>5, GiveBackFacts
  <2> QED
    BY <1>5, <2>1, <2>2
<1> QED
  BY <1>1, <1>6 DEF d

\* Only where the request stands is changed.
SameRequest(c, d) ==
  d \in Connections /\ SamePool(c, d) /\ SameTexts(c, d)
  /\ d.read_closed = c.read_closed

StateAt(c, s) == [c EXCEPT !.state = s]

SentAt(c, n) == [c EXCEPT !.sent = n]

AnswerAt(c, r, k) == [c EXCEPT !.response = r, !.keepalive = k]

LEMMA StateUpdate ==
  ASSUME NEW c \in Connections, NEW s \in States
  PROVE  SameRequest(c, StateAt(c, s)) /\ StateAt(c, s).state = s
<1> DEFINE d == StateAt(c, s)
<1>1. d = [c EXCEPT !.state = s]
  BY DEF StateAt
<1> HIDE DEF d
<1>2. d \in Connections
  BY <1>1 DEF Connections
<1>3. SamePool(c, d) /\ SameTexts(c, d) /\ d.state = s
  BY <1>1 DEF Connections, SamePool, SameTexts
<1>4. d.read_closed = c.read_closed
  BY <1>1, Zenon DEF Connections
<1> QED
  BY <1>2, <1>3, <1>4 DEF SameRequest, d

LEMMA SentUpdate ==
  ASSUME NEW c \in Connections, NEW n \in Int
  PROVE  SameRequest(c, SentAt(c, n)) /\ SentAt(c, n).state = c.state
<1> DEFINE d == SentAt(c, n)
<1>1. d = [c EXCEPT !.sent = n]
  BY DEF SentAt
<1> HIDE DEF d
<1>2. d \in Connections
  BY <1>1 DEF Connections
<1>3. SamePool(c, d) /\ SameTexts(c, d) /\ d.state = c.state
  BY <1>1 DEF Connections, SamePool, SameTexts
<1>4. d.read_closed = c.read_closed
  BY <1>1, Zenon DEF Connections
<1> QED
  BY <1>2, <1>3, <1>4 DEF SameRequest, d

LEMMA AnswerUpdate ==
  ASSUME NEW c \in Connections, NEW k \in BOOLEAN
  PROVE  SameRequest(c, AnswerAt(c, "page", k))
<1> DEFINE d == AnswerAt(c, "page", k)
<1>1. d = [c EXCEPT !.response = "page", !.keepalive = k]
  BY DEF AnswerAt
<1> HIDE DEF d
<1>2. "page" \in {"none", "page", "error"}
  OBVIOUS
<1>3. d \in Connections
  BY <1>1, <1>2 DEF Connections
<1>4. SamePool(c, d) /\ SameTexts(c, d)
  BY <1>1 DEF Connections, SamePool, SameTexts
<1>5. d.read_closed = c.read_closed
  BY <1>1, Zenon DEF Connections
<1> QED
  BY <1>3, <1>4, <1>5 DEF SameRequest, d

\* A request that has been read goes on.
LEMMA LaterHeld ==
  ASSUME NEW c, NEW d, NEW g, NEW p, NEW r, Held(c, g, p), SameRequest(c, d),
         c.state \notin ReadingStates \cup {"CLOSED"},
         d.state \notin ReadingStates,
         d.state \in {"HEADERS_SENT", "BODY_READY", "FOOTERS_SENT"} =>
           d.write_buffer_size = 0
  PROVE  Held(d, g, r)
<1>1. Base(c, g) /\ Texts(c) /\ Flow(c, g, p)
  BY DEF Held
<1>2. d \in Connections /\ SamePool(c, d) /\ SameTexts(c, d)
      /\ d.read_closed = c.read_closed
  BY DEF SameRequest
<1>3. Base(d, g) /\ Keeps(c, d)
  BY <1>1, <1>2, PoolKept
<1>4. Texts(d)
  BY <1>1, <1>2, <1>3, TextsKept
<1>5. Control(d)
  BY DEF Control, ReadingStates
<1>6. Flow(d, g, r)
  BY <1>1, <1>2, FlowLater DEF SamePool
<1> QED
  BY <1>3, <1>4, <1>5, <1>6 DEF Held

\* Nor does closing the connection do harm.
LEMMA ClosedHeld ==
  ASSUME NEW c, NEW g, NEW p, NEW r, Held(c, g, p),
         c.state \notin ReadingStates \cup {"CLOSED"} \/ c.read_closed = TRUE
  PROVE  Held(Close(c), g, r)
<1> DEFINE d == Close(c)
<1>1. Base(c, g) /\ Texts(c) /\ Flow(c, g, p)
  BY DEF Held
<1>2. /\ Base(d, g) /\ Keeps(c, d) /\ SameTexts(c, d)
      /\ d.state = "CLOSED" /\ d.read_closed = c.read_closed
      /\ d.read_buffer_offset = c.read_buffer_offset
  BY <1>1, CloseFacts
<1> HIDE DEF d
<1>3. Texts(d)
  BY <1>1, <1>2, TextsKept
<1>4. Control(d)
  BY <1>2 DEF Control
<1>5. d.state \notin ReadingStates
  BY <1>2 DEF ReadingStates
<1>6. Flow(d, g, r)
  BY <1>1, <1>2, <1>5, FlowLater, FlowQuiet
<1> QED
  BY <1>2, <1>3, <1>4, <1>6 DEF Held, d

\* MHD_connection_handle_write.
LEMMA WriteHeld ==
  ASSUME WireInv, Held(con, got, pc), MHD_connection_handle_write
  PROVE  Held(con', got', pc')
<1>1. /\ pc = "wait" /\ con.state \in {"HEADERS_SENDING", "BODY_READY"}
      /\ got' = got
      /\ \/ con' = Close(con)
         \/ /\ con.state = "HEADERS_SENDING"
            /\ \E n \in 1 .. con.write_buffer_size - 1 - con.sent :
                 con' = check_write_done(SentAt(con, con.sent + n))
         \/ /\ con.state = "BODY_READY" /\ con' = StateAt(con, "FOOTERS_SENT")
  BY DEF MHD_connection_handle_write, SentAt, StateAt
<1>2. Base(con, got) /\ Texts(con) /\ Control(con) /\ Flow(con, got, pc)
  BY DEF Held
<1>3. con \in Connections /\ con.sent \in Int
  BY <1>2 DEF Base, Connections
<1>4. con.state \notin ReadingStates \cup {"CLOSED"}
  BY <1>1 DEF ReadingStates
<1>5. CASE con' = Close(con)
  BY <1>1, <1>4, <1>5, ClosedHeld
<1>6. ASSUME con.state = "HEADERS_SENDING",
             NEW n \in 1 .. con.write_buffer_size - 1 - con.sent,
             con' = check_write_done(SentAt(con, con.sent + n))
      PROVE  Held(con', got', pc')
  <2> DEFINE c == SentAt(con, con.sent + n)
             d == check_write_done(c)
  <2>1. con.sent + n \in Int
    BY <1>3
  <2>2. SameRequest(con, c) /\ c.state = con.state
    BY <1>3, <2>1, SentUpdate
  <2> HIDE DEF c
  <2>3. c.state \notin {"HEADERS_SENT", "BODY_READY", "FOOTERS_SENT"}
        /\ c.state \notin ReadingStates \cup {"CLOSED"}
    BY <1>4, <1>6, <2>2
  <2>4. Held(c, got, pc')
    BY <1>4, <2>2, <2>3, LaterHeld
  <2>5. Base(c, got) /\ Texts(c) /\ Flow(c, got, pc')
    BY <2>4 DEF Held
  <2>6. \/ d = c
        \/ /\ Base(d, got) /\ Keeps(c, d) /\ SameTexts(c, d)
           /\ d.read_buffer_offset = c.read_buffer_offset
           /\ d.read_closed = c.read_closed
           /\ d.state = "HEADERS_SENT" /\ d.write_buffer_size = 0
    BY <2>5, WriteDoneFacts
  <2>7. con' = d
    BY <1>6 DEF c
  <2> HIDE DEF d
  <2>8. CASE d = c
    BY <1>1, <2>4, <2>7, <2>8
  <2>9. CASE /\ Base(d, got) /\ Keeps(c, d) /\ SameTexts(c, d)
             /\ d.read_buffer_offset = c.read_buffer_offset
             /\ d.read_closed = c.read_closed
             /\ d.state = "HEADERS_SENT" /\ d.write_buffer_size = 0
    <3>1. Texts(d)
      BY <2>5, <2>9, TextsKept
    <3>2. Control(d) /\ d.state \notin ReadingStates
      BY <2>9 DEF Control, ReadingStates
    <3>3. Flow(d, got, pc')
      BY <2>3, <2>5, <2>9, <3>2, FlowLater
    <3> QED
      BY <1>1, <2>7, <2>9, <3>1, <3>2, <3>3 DEF Held
  <2> QED
    BY <2>6, <2>8, <2>9
<1>7. CASE con.state = "BODY_READY" /\ con' = StateAt(con, "FOOTERS_SENT")
  <2> DEFINE d == StateAt(con, "FOOTERS_SENT")
  <2>1. "FOOTERS_SENT" \in States
    BY DEF States
  <2>2. SameRequest(con, d) /\ d.state = "FOOTERS_SENT"
    BY <1>3, <2>1, StateUpdate
  <2> HIDE DEF d
  <2>3. con.write_buffer_size = 0
    BY <1>2, <1>7 DEF Control
  <2>4. d.write_buffer_size = 0 /\ d.state \notin ReadingStates
    BY <2>2, <2>3 DEF SameRequest, SamePool, ReadingStates
  <2>5. Held(d, got, pc')
    BY <1>4, <2>2, <2>4, LaterHeld
  <2> QED
    BY <1>1, <1>7, <2>5 DEF d
<1> QED
  BY <1>1, <1>5, <1>6, <1>7

LEMMA HeadersReceivedHeld ==
  ASSUME WireInv, Held(con, got, pc), IdleHeadersReceived
  PROVE  Held(con', got', pc')
<1> DEFINE c == parse_cookie_header(con)
<1>1. /\ con.state = "HEADERS_RECEIVED" /\ got' = got
      /\ con' = IF c.state = "CLOSED" THEN c ELSE StateAt(c, "HEADERS_PROCESSED")
  BY DEF IdleHeadersReceived, Idle, Goes, StateAt
<1>2. Base(con, got) /\ Texts(con) /\ Flow(con, got, pc)
  BY DEF Held
<1>3. con.state \notin ReadingStates \cup {"CLOSED"}
  BY <1>1 DEF ReadingStates
<1>4. Added(con, c, got)
  BY <1>2, CookieFacts
<1> HIDE DEF c
<1>5. /\ Base(c, got) /\ Texts(c)
      /\ c.read_buffer_offset = con.read_buffer_offset
      /\ c.read_closed = TRUE \/ c.read_closed = con.read_closed
  BY <1>4 DEF Added
<1>6. CASE c.state = "CLOSED"
  <2>1. Control(c) /\ c.state \notin ReadingStates
    BY <1>6 DEF Control, ReadingStates
  <2>2. Flow(c, got, pc')
    BY <1>2, <1>3, <1>5, <2>1, FlowLater
  <2> QED
    BY <1>1, <1>5, <1>6, <2>1, <2>2 DEF Held
<1>7. CASE c.state # "CLOSED"
  <2> DEFINE d == StateAt(c, "HEADERS_PROCESSED")
  <2>1. "HEADERS_PROCESSED" \in States /\ c \in Connections
    BY <1>5 DEF States, Base
  <2>2. SameRequest(c, d) /\ d.state = "HEADERS_PROCESSED"
    BY <2>1, StateUpdate
  <2>3. con' = d
    BY <1>1, <1>7
  <2> HIDE DEF d
  <2>4. Base(d, got) /\ Keeps(c, d)
    BY <1>5, <2>2, PoolKept DEF SameRequest
  <2>5. Texts(d)
    BY <1>5, <2>2, <2>4, TextsKept DEF SameRequest
  <2>6. Control(d) /\ d.state \notin ReadingStates
    BY <2>2 DEF Control, ReadingStates
  <2>7. d.read_buffer_offset = con.read_buffer_offset
        /\ (d.read_closed = TRUE \/ d.read_closed = con.read_closed)
    BY <1>5, <2>2 DEF SameRequest, SamePool
  <2>8. Flow(d, got, pc')
    BY <1>2, <1>3, <2>6, <2>7, FlowLater
  <2> QED
    BY <1>1, <2>3, <2>4, <2>5, <2>6, <2>8 DEF Held
<1> QED
  BY <1>6, <1>7

LEMMA HeadersProcessedHeld ==
  ASSUME WireInv, Held(con, got, pc), IdleHeadersProcessed
  PROVE  Held(con', got', pc')
<1> DEFINE d == StateAt(con, "FOOTERS_RECEIVED")
<1>1. con.state = "HEADERS_PROCESSED" /\ got' = got /\ con' = d
  BY DEF IdleHeadersProcessed, Idle, Goes, StateAt
<1>2. "FOOTERS_RECEIVED" \in States /\ con \in Connections
  BY DEF States, Held, Base
<1>3. SameRequest(con, d) /\ d.state = "FOOTERS_RECEIVED"
  BY <1>2, StateUpdate
<1> HIDE DEF d
<1>4. con.state \notin ReadingStates \cup {"CLOSED"} /\ d.state \notin ReadingStates
  BY <1>1, <1>3 DEF ReadingStates
<1>5. Held(d, got, pc')
  BY <1>3, <1>4, LaterHeld
<1> QED
  BY <1>1, <1>5

LEMMA FootersReceivedHeld ==
  ASSUME WireInv, Held(con, got, pc), IdleFootersReceived
  PROVE  Held(con', got', pc')
<1>1. /\ con.state = "FOOTERS_RECEIVED" /\ got' = got
      /\ \/ \E k \in BOOLEAN : con' = SendReply(AnswerAt(con, "page", k))
         \/ con' = SendReply(con)
  BY Zenon DEF IdleFootersReceived, Idle, AnswerAt
<1>2. con \in Connections /\ Base(con, got) /\ Texts(con) /\ Flow(con, got, pc)
  BY DEF Held, Base
<1>3. con.state \notin ReadingStates \cup {"CLOSED"}
  BY <1>1 DEF ReadingStates
<1>4. ASSUME NEW c, SameRequest(con, c), con' = SendReply(c)
      PROVE  Held(con', got', pc')
  <2>1. c \in Connections /\ SamePool(con, c) /\ SameTexts(con, c)
        /\ c.read_closed = con.read_closed
    BY <1>4 DEF SameRequest
  <2>2. Base(c, got) /\ Keeps(con, c)
    BY <1>2, <2>1, PoolKept
  <2>3. Texts(c)
    BY <1>2, <2>1, <2>2, TextsKept
  <2> DEFINE d == SendReply(c)
  <2>4. Replied(c, d, got) /\ d.read_closed = c.read_closed
    BY <2>2, SendReplyFacts
  <2> HIDE DEF d
  <2>5. Base(d, got) /\ Texts(d) /\ Control(d) /\ d.state \notin ReadingStates
    BY <2>3, <2>4, RepliedHeld
  <2>6. d.read_buffer_offset = con.read_buffer_offset
        /\ d.read_closed = con.read_closed
    BY <2>1, <2>4 DEF Replied, SamePool
  <2>7. Flow(d, got, pc')
    BY <1>2, <1>3, <2>5, <2>6, FlowLater
  <2> QED
    BY <1>1, <1>4, <2>5, <2>7 DEF Held, d
<1>5. CASE con' = SendReply(con)
  <2>1. SameRequest(con, con)
    BY <1>2 DEF SameRequest, SamePool, SameTexts
  <2> QED
    BY <1>4, <1>5, <2>1
<1>6. ASSUME NEW k \in BOOLEAN, con' = SendReply(AnswerAt(con, "page", k))
      PROVE  Held(con', got', pc')
  <2>1. SameRequest(con, AnswerAt(con, "page", k))
    BY <1>2, AnswerUpdate
  <2> QED
    BY <1>4, <1>6, <2>1
<1> QED
  BY <1>1, <1>5, <1>6

LEMMA HeadersSentHeld ==
  ASSUME WireInv, Held(con, got, pc), IdleHeadersSent
  PROVE  Held(con', got', pc')
<1> DEFINE d == StateAt(con, "BODY_READY")
<1>1. con.state = "HEADERS_SENT" /\ got' = got /\ con' = d
  BY DEF IdleHeadersSent, Idle, Goes, StateAt
<1>2. "BODY_READY" \in States /\ con \in Connections
  BY DEF States, Held, Base
<1>3. SameRequest(con, d) /\ d.state = "BODY_READY"
  BY <1>2, StateUpdate
<1> HIDE DEF d
<1>4. con.state \notin ReadingStates \cup {"CLOSED"} /\ d.state \notin ReadingStates
  BY <1>1, <1>3 DEF ReadingStates
<1>5. con.write_buffer_size = 0
  BY <1>1 DEF Held, Control
<1>6. d.write_buffer_size = 0
  BY <1>3, <1>5 DEF SameRequest, SamePool
<1>7. Held(d, got, pc')
  BY <1>3, <1>4, <1>6, LaterHeld
<1> QED
  BY <1>1, <1>7

LEMMA SendingHeld ==
  ASSUME WireInv, Held(con, got, pc), IdleSending
  PROVE  Held(con', got', pc')
<1>1. con.state \in {"HEADERS_SENDING", "BODY_READY"} /\ got' = got /\ con' = con
  BY DEF IdleSending, Idle, Goes
<1>2. con.state \notin ReadingStates
  BY <1>1 DEF ReadingStates
<1>3. Base(con, got) /\ Texts(con) /\ Control(con) /\ Flow(con, got, pc)
  BY DEF Held
<1>4. Flow(con, got, pc')
  BY <1>2, <1>3, FlowSame
<1> QED
  BY <1>1, <1>3, <1>4 DEF Held

LEMMA IdleClosedHeld ==
  ASSUME WireInv, Held(con, got, pc), IdleClosed
  PROVE  Held(con', got', pc')
<1>1. con.state = "CLOSED" /\ got' = got /\ con' = con
  BY DEF IdleClosed, Idle, Goes
<1>2. con.state \notin ReadingStates
  BY <1>1 DEF ReadingStates
<1>3. Base(con, got) /\ Texts(con) /\ Control(con) /\ Flow(con, got, pc)
  BY DEF Held
<1>4. Flow(con, got, pc')
  BY <1>2, <1>3, FlowSame
<1> QED
  BY <1>1, <1>3, <1>4 DEF Held

\* There is no line, and the state decides.
LEMMA WaitHeld ==
  ASSUME WireInv, Held(con, got, pc), con.state \in ReadingStates, ~HasLine(con),
         WaitForLine(NoLine(con))
  PROVE  Held(con', got', pc')
<1> DEFINE c == NoLine(con)
<1>1. /\ got' = got
      /\ con' = IF c.state = con.state /\ c.read_closed THEN Close(c) ELSE c
  BY DEF WaitForLine, Goes
<1>2. Base(con, got) /\ Texts(con) /\ Control(con) /\ Flow(con, got, pc)
  BY DEF Held
<1>3. ~LineThere(got, con.read_buffer_offset)
  BY <1>2, SameLine
<1>4. Harmless(con, c, got) \/ Refused(con, c, got)
  BY <1>2, NoLineFacts
<1> HIDE DEF c
<1>5. CASE Harmless(con, c, got)
  <2>1. Base(c, got) /\ Texts(c) /\ Control(c)
    BY <1>2, <1>5, HarmlessHeld
  <2>2. c.read_buffer_offset = con.read_buffer_offset /\ c.state = con.state
        /\ c.read_closed = con.read_closed
    BY <1>5 DEF Harmless, SameState
  <2>3. Flow(c, got, pc')
    BY <1>2, <1>3, <2>2, FlowSame
  <2>4. Held(c, got, pc')
    BY <2>1, <2>3 DEF Held
  <2>5. c.read_closed \in BOOLEAN
    BY <2>1, Zenon DEF Base, Connections
  <2>6. CASE c.read_closed
    <3>1. con' = Close(c) /\ c.read_closed = TRUE
      BY <1>1, <2>2, <2>5, <2>6, Zenon
    <3> QED
      BY <1>1, <2>4, <3>1, ClosedHeld
  <2>7. CASE ~c.read_closed
    BY <1>1, <2>4, <2>7
  <2> QED
    BY <2>6, <2>7
<1>6. CASE Refused(con, c, got)
  <2>1. Replied(con, c, got) /\ c.read_closed = TRUE
    BY <1>6 DEF Refused
  <2>2. Base(c, got) /\ Texts(c) /\ Control(c) /\ c.state \notin ReadingStates
    BY <1>2, <2>1, RepliedHeld
  <2>3. c.read_buffer_offset = con.read_buffer_offset
    BY <2>1 DEF Replied
  <2>4. Flow(c, got, pc')
    BY <1>2, <2>1, <2>2, <2>3, FlowQuiet
  <2>5. con' = c
    BY <1>1, <2>2
  <2> QED
    BY <1>1, <2>2, <2>4, <2>5 DEF Held
<1> QED
  BY <1>4, <1>5, <1>6

\* A line is taken: what the handler of the state starts from.
LEMMA TakenFacts ==
  ASSUME WireInv, NEW c, NEW g, NEW p, Held(c, g, p), HasLine(c)
  PROVE  \E n \in Nat : /\ TookLine(c, TakeLine(c), g, LineLength(c), n)
                        /\ Base(TakeLine(c), g) /\ Texts(TakeLine(c))
                        /\ SameTexts(c, TakeLine(c))
                        /\ TakeLine(c).state = c.state
                        /\ LineLength(c) \in Nat
                        /\ Run(TakeLine(c), c.read_buffer,
                               c.read_buffer + LineLength(c))
<1>1. Base(c, g) /\ Texts(c) /\ Flow(c, g, p)
  BY DEF Held
<1>2. Arrived(g)
  BY <1>1 DEF Flow
<1>3. PICK n \in Nat : TookLine(c, TakeLine(c), g, LineLength(c), n)
  BY <1>1, <1>2, TakeFacts
<1>4. Taken(c, TakeLine(c), g, LineLength(c), n) /\ LineLength(c) \in Nat
  BY <1>3 DEF TookLine
<1>5. Base(TakeLine(c), g) /\ Keeps(c, TakeLine(c)) /\ SameTexts(c, TakeLine(c))
      /\ TakeLine(c).state = c.state
      /\ Run(TakeLine(c), c.read_buffer, c.read_buffer + LineLength(c))
  BY <1>4 DEF Taken
<1>6. Texts(TakeLine(c))
  BY <1>1, <1>5, TextsKept
<1> QED
  BY <1>3, <1>4, <1>5, <1>6

LEMMA IdleInitHeld ==
  ASSUME WireInv, Held(con, got, pc), IdleInit
  PROVE  Held(con', got', pc')
<1> DEFINE t == TakeLine(con)
           l == LineLength(con)
           line == con.read_buffer
           d == parse_initial_message_line(t, line, l)
<1>1. con.state = "INIT"
  BY DEF IdleInit, Idle
<1>2. Base(con, got) /\ Texts(con) /\ Flow(con, got, pc)
  BY DEF Held
<1>3. CASE ~HasLine(con)
  <2>1. WaitForLine(NoLine(con))
    BY <1>3 DEF IdleInit
  <2>2. con.state \in ReadingStates
    BY <1>1 DEF ReadingStates
  <2> QED
    BY <1>3, <2>1, <2>2, WaitHeld
<1>4. CASE HasLine(con) /\ l # 0
  <2>2. con' = d /\ got' = got /\ pc' = "idle"
    BY <1>4 DEF IdleInit, Goes
  <2>3. PICK n \in Nat :
          /\ TookLine(con, t, got, l, n)
          /\ Base(t, got) /\ Texts(t) /\ l \in Nat /\ Run(t, line, line + l)
    BY <1>4, TakenFacts
  <2>4. Parsed(t, d, got)
    <3> HIDE DEF t, l, line
    <3> QED
      BY <2>3, InitialFacts
  <2> HIDE DEF d, t
  <2>5. Base(d, got) /\ Texts(d) /\ d.state \in {"CLOSED", "URL_RECEIVED"}
        /\ d.read_buffer_offset = t.read_buffer_offset
    BY <2>4 DEF Parsed
  <2>6. Control(d)
    BY <2>5 DEF Control
  <2>7. Flow(d, got, pc')
    BY <1>2, <1>4, <2>2, <2>3, <2>5, FlowLine
  <2> QED
    BY <2>2, <2>5, <2>6, <2>7 DEF Held
<1>5. CASE HasLine(con) /\ l = 0
  <2>1. ~PlainStream
    BY <1>1, <1>2, <1>5, FirstLine
  <2>2. WaitForLine(t)
    BY <1>5 DEF IdleInit
  <2>3. /\ got' = got
        /\ con' = IF t.state = con.state /\ t.read_closed THEN Close(t) ELSE t
    BY <2>2 DEF WaitForLine, Goes
  <2>4. Base(t, got) /\ Texts(t) /\ t.state = con.state
    BY <1>5, TakenFacts
  <2> HIDE DEF t
  <2>5. Control(t)
    BY <1>1, <2>4 DEF Control
  <2>6. Flow(t, got, pc')
    BY <1>2, <2>1 DEF Flow
  <2>7. Held(t, got, pc')
    BY <2>4, <2>5, <2>6 DEF Held
  <2>8. t.read_closed \in BOOLEAN
    BY <2>4, Zenon DEF Base, Connections
  <2>9. CASE t.read_closed
    <3>1. con' = Close(t) /\ t.read_closed = TRUE
      BY <2>3, <2>4, <2>8, <2>9, Zenon
    <3> QED
      BY <2>3, <2>7, <3>1, ClosedHeld
  <2>10. CASE ~t.read_closed
    BY <2>3, <2>7, <2>10
  <2> QED
    BY <2>9, <2>10
<1> QED
  BY <1>3, <1>4, <1>5

LEMMA UrlReceivedHeld ==
  ASSUME WireInv, Held(con, got, pc), IdleUrlReceived
  PROVE  Held(con', got', pc')
<1> DEFINE t == TakeLine(con)
           l == LineLength(con)
           line == con.read_buffer
<1>1. con.state = "URL_RECEIVED" /\ con.state \in ReadingStates \ {"INIT"}
  BY DEF IdleUrlReceived, Idle, ReadingStates
<1>2. Base(con, got) /\ Texts(con) /\ Flow(con, got, pc)
  BY DEF Held
<1>3. CASE ~HasLine(con)
  <2>1. WaitForLine(NoLine(con))
    BY <1>3 DEF IdleUrlReceived
  <2> QED
    BY <1>1, <1>3, <2>1, WaitHeld
<1>4. CASE HasLine(con)
  <2>1. /\ got' = got
        /\ con' = IF l = 0 THEN StateAt(t, "HEADERS_RECEIVED")
                  ELSE process_header_line(t, line)
        /\ pc' = IF con'.state \in {"HEADERS_RECEIVED", "HEADER_PART_RECEIVED"}
                 THEN "idle" ELSE "update"
    BY <1>4 DEF IdleUrlReceived, Goes, StateAt
  <2>2. PICK n \in Nat :
          /\ TookLine(con, t, got, l, n)
          /\ Base(t, got) /\ Texts(t) /\ l \in Nat /\ Run(t, line, line + l)
    BY <1>4, TakenFacts
  <2>3. CASE l = 0
    <3> DEFINE d == StateAt(t, "HEADERS_RECEIVED")
    <3>1. "HEADERS_RECEIVED" \in States /\ t \in Connections
      BY <2>2 DEF States, Base
    <3>2. SameRequest(t, d) /\ d.state = "HEADERS_RECEIVED"
      BY <3>1, StateUpdate
    <3>3. con' = d
      BY <2>1, <2>3
    <3> HIDE DEF d, t
    <3>4. Base(d, got) /\ Keeps(t, d)
      BY <2>2, <3>2, PoolKept DEF SameRequest
    <3>5. Texts(d)
      BY <2>2, <3>2, <3>4, TextsKept DEF SameRequest
    <3>6. Control(d) /\ d.read_buffer_offset = t.read_buffer_offset
      BY <3>2 DEF Control, SameRequest, SamePool
    <3>7. Flow(d, got, pc')
      BY <1>1, <1>2, <1>4, <2>2, <2>3, <3>2, <3>6, FlowLine
    <3> QED
      BY <2>1, <3>3, <3>4, <3>5, <3>6, <3>7 DEF Held
  <2>4. CASE l # 0
    <3> DEFINE d == process_header_line(t, line)
    <3>1. con' = d
      BY <2>1, <2>4
    <3>2. Good(t, line)
      <4>1. line \in Int
        BY <1>2 DEF Base, Connections
      <4>2. l \in Nat
        BY <2>2
      <4> HIDE DEF line, l
      <4>3. line \in line .. line + l
        BY <4>1, <4>2
      <4> QED
        BY <2>2, <4>3, RunGood
    <3>3. HeaderLine(t, d, got)
      BY <2>2, <3>2, HeaderFacts
    <3> HIDE DEF d, t
    <3>4. /\ Base(d, got) /\ Texts(d)
          /\ d.read_buffer_offset = t.read_buffer_offset
          /\ \/ d.state = "HEADER_PART_RECEIVED" /\ d.last # NULL /\ d.colon # NULL
             \/ d.state \in {"HEADERS_SENDING", "CLOSED"} /\ d.read_closed = TRUE
      BY <3>3 DEF HeaderLine
    <3>5. Control(d)
      BY <3>4 DEF Control
    <3>6. d.state = "HEADER_PART_RECEIVED" => pc' = "idle"
      BY <2>1, <3>1
    <3>7. Flow(d, got, pc')
      BY <1>2, <1>4, <2>2, <3>4, <3>6, FlowLine
    <3> QED
      BY <2>1, <3>1, <3>4, <3>5, <3>7 DEF Held
  <2> QED
    BY <2>3, <2>4
<1> QED
  BY <1>3, <1>4

LEMMA HeaderPartReceivedHeld ==
  ASSUME WireInv, Held(con, got, pc), IdleHeaderPartReceived
  PROVE  Held(con', got', pc')
<1> DEFINE t == TakeLine(con)
           l == LineLength(con)
           line == con.read_buffer
           d == process_broken_line(t, line)
<1>1. con.state = "HEADER_PART_RECEIVED" /\ con.state \in ReadingStates \ {"INIT"}
  BY DEF IdleHeaderPartReceived, Idle, ReadingStates
<1>2. Base(con, got) /\ Texts(con) /\ Control(con) /\ Flow(con, got, pc)
  BY DEF Held
<1>3. CASE ~HasLine(con)
  <2>1. WaitForLine(NoLine(con))
    BY <1>3 DEF IdleHeaderPartReceived
  <2> QED
    BY <1>1, <1>3, <2>1, WaitHeld
<1>4. CASE HasLine(con)
  <2>1. con' = d /\ got' = got /\ pc' = "idle"
    BY <1>4 DEF IdleHeaderPartReceived, Goes
  <2>2. PICK n \in Nat :
          /\ TookLine(con, t, got, l, n)
          /\ Base(t, got) /\ Texts(t) /\ SameTexts(con, t) /\ t.state = con.state
          /\ l \in Nat /\ Run(t, line, line + l)
    BY <1>4, TakenFacts
  <2> HIDE DEF t
  <2>3. Good(t, line)
    <3>1. line \in Int
      BY <1>2 DEF Base, Connections
    <3>2. l \in Nat
      BY <2>2
    <3> HIDE DEF line, l
    <3>3. line \in line .. line + l
      BY <3>1, <3>2
    <3> QED
      BY <2>2, <3>3, RunGood
  <2>4. t.last # NULL /\ t.colon # NULL /\ t.state = "HEADER_PART_RECEIVED"
    BY <1>1, <1>2, <2>2 DEF Control, SameTexts
  <2>5. Broken(t, d, line, got)
    BY <2>2, <2>3, <2>4, BrokenFacts
  <2> HIDE DEF d
  <2>6. /\ Base(d, got) /\ Texts(d)
        /\ d.read_buffer_offset = t.read_buffer_offset
        /\ \/ /\ d.state = "HEADER_PART_RECEIVED" /\ d.last # NULL /\ d.colon # NULL
           \/ d.state \in {"HEADERS_SENDING", "CLOSED"} /\ d.read_closed = TRUE
           \/ d.state = "HEADERS_RECEIVED" /\ strlen(t, line) = 0
    BY <2>5 DEF Broken
  <2>7. Control(d)
    BY <2>6 DEF Control
  <2>8. strlen(t, line) = 0 => l = 0
    <3> SUFFICES ASSUME strlen(t, line) = 0, l # 0 PROVE FALSE
      OBVIOUS
    <3>1. t \in Connections
      BY <2>2 DEF Base
    <3>2. line \in Nat /\ t.mem[line + strlen(t, line)] = NUL
      BY <2>3, <3>1, StrlenFacts
    <3>3. t.mem[line + 0] = NUL
      BY <3>2
    <3>4. 0 \in 0 .. l - 1
      BY <2>2
    <3>5. t.mem[line + 0] > NUL
      BY <2>2, <3>4 DEF TookLine, Taken
    <3> QED
      BY <3>3, <3>5 DEF NUL
  <2>9. Flow(d, got, pc')
    BY <1>1, <1>2, <1>4, <2>1, <2>2, <2>6, <2>8, FlowLine
  <2> QED
    BY <2>1, <2>6, <2>7, <2>9 DEF Held
<1> QED
  BY <1>3, <1>4

\* The connection is closed for good, without its read buffer.
ClosedOff(c) ==
  [Close(c) EXCEPT !.read_buffer = NULL, !.read_buffer_size = 0,
                   !.read_buffer_offset = 0]

LEMMA ClosedOffFacts ==
  ASSUME NEW c, NEW g, NEW p, NEW r, Held(c, g, p)
  PROVE  Held(ClosedOff(c), g, r)
<1> DEFINE e == Close(c)
           d == ClosedOff(c)
<1>1. Base(c, g) /\ Texts(c) /\ Flow(c, g, p)
  BY DEF Held
<1>2. Base(e, g) /\ Keeps(c, e) /\ SameTexts(c, e) /\ e.state = "CLOSED"
  BY <1>1, CloseFacts
<1>3. d = [e EXCEPT !.read_buffer = NULL, !.read_buffer_size = 0,
                    !.read_buffer_offset = 0]
  BY DEF ClosedOff
<1> HIDE DEF e, d
<1>4. e \in Connections /\ Layout(e) /\ g \in Nat
  BY <1>2 DEF Base
<1>5. NULL \in Int /\ 0 \in Nat
  BY DEF NULL
<1>6. d \in Connections
  BY <1>3, <1>4, <1>5 DEF Connections
<1>7. d.read_buffer = NULL /\ d.read_buffer_size = 0 /\ d.read_buffer_offset = 0
  BY <1>3, <1>4 DEF Connections
<1>8. d.mem = e.mem /\ d.pos = e.pos /\ d.end = e.end
      /\ d.write_buffer = e.write_buffer
      /\ d.write_buffer_size = e.write_buffer_size
      /\ d.state = "CLOSED" /\ SameTexts(e, d)
  BY <1>2, <1>3, <1>4 DEF Connections, SameTexts
<1>9. Layout(d)
  BY <1>4, <1>7, <1>8 DEF Layout
<1>10. Reading(d, g)
  <2>1. 0 <= 0 /\ 0 - 0 <= HalfPool /\ 0 <= g /\ 0 .. 0 - 1 = {}
    BY <1>4, HalfFacts
  <2> QED
    BY <1>7, <2>1 DEF Reading
<1>11. Keeps(e, d)
  <2> SUFFICES ASSUME NEW i \in 0 .. PoolSize - 1, Clean(e, i)
               PROVE  Clean(d, i) /\ (e.mem[i] = NUL => d.mem[i] = NUL)
    BY DEF Keeps
  <2>1. ~(NULL <= i /\ i < NULL + 0)
    BY DEF NULL
  <2> QED
    BY <1>7, <1>8, <2>1 DEF Clean
<1>12. Texts(d)
  <2>1. Texts(e)
    BY <1>1, <1>2, TextsKept
  <2> QED
    BY <1>8, <1>11, <2>1, TextsKept
<1>13. Control(d)
  BY <1>8 DEF Control
<1>14. Flow(d, g, r)
  <2>1. Arrived(g)
    BY <1>1 DEF Flow
  <2>2. ~LineThere(g, 0)
    <3>1. ~(0 > 0)
      OBVIOUS
    <3> QED
      BY <3>1, Zenon DEF LineThere
  <2>3. 0 <= HalfPool
    BY HalfFacts
  <2>4. d.state \notin ReadingStates
    BY <1>8 DEF ReadingStates
  <2> QED
    BY <1>7, <1>8, <2>1, <2>2, <2>3, <2>4 DEF Flow, Place
<1> QED
  BY <1>4, <1>6, <1>9, <1>10, <1>12, <1>13, <1>14 DEF Base, Held, d

\* The pool with what was read of the next request at its start.
Restarted(c, m) ==
  [c EXCEPT !.mem = m, !.end = PoolSize, !.pos = HalfPool,
            !.read_buffer = 0, !.read_buffer_size = HalfPool, !.state = "INIT",
            !.url = NULL, !.last = NULL, !.colon = NULL, !.headers = <<>>,
            !.response = "none", !.keepalive = FALSE]

LEMMA RestartedFields ==
  ASSUME NEW c \in Connections, NEW m \in Memory
  PROVE  LET d == Restarted(c, m)
         IN  /\ d \in Connections /\ d.mem = m /\ d.end = PoolSize
             /\ d.pos = HalfPool /\ d.read_buffer = 0
             /\ d.read_buffer_size = HalfPool
             /\ d.read_buffer_offset = c.read_buffer_offset
             /\ d.write_buffer_size = c.write_buffer_size
             /\ d.state = "INIT" /\ d.url = NULL /\ d.last = NULL
             /\ d.colon = NULL /\ d.headers = <<>>
<1> DEFINE d == Restarted(c, m)
<1>1. d = [c EXCEPT !.mem = m, !.end = PoolSize, !.pos = HalfPool,
            !.read_buffer = 0, !.read_buffer_size = HalfPool, !.state = "INIT",
            !.url = NULL, !.last = NULL, !.colon = NULL, !.headers = <<>>,
            !.response = "none", !.keepalive = FALSE]
  BY DEF Restarted
<1>2. NULL \in Int /\ 0 \in Int /\ "INIT" \in States /\ <<>> \in Seq(Entries)
      /\ "none" \in {"none", "page", "error"} /\ FALSE \in BOOLEAN
      /\ PoolSize \in Nat /\ HalfPool \in Nat
  BY HalfFacts DEF NULL, States, ReadingStates
<1> HIDE DEF d
<1>3. d \in Connections
  BY <1>1, <1>2 DEF Connections, Memory
<1>4. d.mem = m /\ d.end = PoolSize /\ d.pos = HalfPool /\ d.read_buffer = 0
      /\ d.read_buffer_size = HalfPool /\ d.state = "INIT"
  BY <1>1 DEF Connections
<1>5. d.url = NULL /\ d.last = NULL /\ d.colon = NULL /\ d.headers = <<>>
  BY <1>1 DEF Connections
<1>6. d.read_buffer_offset = c.read_buffer_offset
      /\ d.write_buffer_size = c.write_buffer_size
  BY <1>1 DEF Connections
<1> QED
  BY <1>3, <1>4, <1>5, <1>6 DEF d

LEMMA RestartedEqual ==
  ASSUME NEW c \in Connections
  PROVE  NextRequest(c) =
           Restarted(c, Fill(memmove(c.mem, 0, c.read_buffer, c.read_buffer_offset),
                             c.read_buffer_offset,
                             PoolSize - c.read_buffer_offset, NUL))
<1>1. ROUND_TO_ALIGN(HalfPool) = HalfPool
  BY HalfFacts
<1> DEFINE m == Fill(memmove(c.mem, 0, c.read_buffer, c.read_buffer_offset),
                     c.read_buffer_offset,
                     PoolSize - c.read_buffer_offset, NUL)
<1>2. MHD_pool_reset(c, c.read_buffer, c.read_buffer_offset, HalfPool)
      = [c EXCEPT !.mem = m, !.end = PoolSize, !.pos = HalfPool]
  BY <1>1, Zenon DEF MHD_pool_reset
<1> HIDE DEF m
<1>3. NextRequest(c) = Restarted(c, m)
  BY <1>2, Zenon DEF NextRequest, Restarted
<1> QED
  BY <1>3 DEF m

\* The connection is kept for the next request, of which no more has been read
\* than fits.
LEMMA NextRequestHeld ==
  ASSUME NEW c, NEW g, NEW p, Held(c, g, p), c.state = "FOOTERS_SENT",
         ~c.read_closed, c.read_buffer_offset <= HalfPool
  PROVE  Held(NextRequest(c), g, "idle")
<1> DEFINE rb == c.read_buffer
           rs == c.read_buffer_size
           o == c.read_buffer_offset
           v == memmove(c.mem, 0, rb, o)
           m == Fill(v, o, PoolSize - o, NUL)
           d == NextRequest(c)
<1>1. c \in Connections /\ g \in Nat /\ Layout(c) /\ Reading(c, g) /\ Texts(c)
      /\ Control(c) /\ Flow(c, g, p)
  BY DEF Held, Base
<1>2. c.write_buffer_size = 0
  BY <1>1 DEF Control
<1>3. o <= HalfPool /\ (PlainStream => EmptyLineEnds(wire, g - o))
  BY <1>1 DEF Flow, Place, ReadingStates
<1>4. rb \in Int /\ rs \in Nat /\ o \in Nat /\ c.mem \in Memory /\ c.pos \in Nat
      /\ c.end \in Nat /\ PoolSize \in Nat /\ HalfPool \in Nat /\ NUL \in Int
      /\ 2 * HalfPool = PoolSize
  BY <1>1, HalfFacts DEF Connections, Memory, NUL
<1>5. o <= rs /\ o <= g
  BY <1>1 DEF Reading
<1>6. o <= 0 \/ (rb >= 0 /\ rb + o <= PoolSize)
  <2>1. c.pos <= c.end /\ c.end <= PoolSize
        /\ (rs = 0 \/ (rb >= 0 /\ rb + rs <= c.pos))
    BY <1>1 DEF Layout
  <2> HIDE DEF rb, rs, o
  <2> QED
    BY <1>4, <1>5, <2>1
<1>7. d = Restarted(c, m)
  BY <1>1, RestartedEqual
<1> HIDE DEF d
<1>8. v \in Memory /\ \A i \in 0 .. PoolSize - 1 :
        v[i] = IF 0 <= i /\ i < 0 + o THEN c.mem[rb + (i - 0)] ELSE c.mem[i]
  <2> HIDE DEF rb, o
  <2>1. 0 \in Int /\ o \in Int
        /\ (o <= 0 \/ (0 >= 0 /\ 0 + o <= PoolSize /\ rb >= 0 /\ rb + o <= PoolSize))
    BY <1>3, <1>4, <1>6
  <2> QED
    BY <1>4, <2>1, MoveFacts
<1> HIDE DEF v
<1>9. m \in Memory /\ \A i \in 0 .. PoolSize - 1 :
        m[i] = IF o <= i /\ i < o + (PoolSize - o) THEN NUL ELSE v[i]
  <2> HIDE DEF rb, o
  <2>1. o \in Int /\ PoolSize - o \in Int /\ o >= 0 /\ o + (PoolSize - o) <= PoolSize
    BY <1>4
  <2> QED
    BY <1>4, <1>8, <2>1, FillFacts
<1> HIDE DEF m
<1>10. /\ d \in Connections /\ d.mem = m /\ d.end = PoolSize
       /\ d.pos = HalfPool /\ d.read_buffer = 0
       /\ d.read_buffer_size = HalfPool
       /\ d.read_buffer_offset = o
       /\ d.write_buffer_size = 0
       /\ d.state = "INIT" /\ d.url = NULL /\ d.last = NULL
       /\ d.colon = NULL /\ d.headers = <<>>
  BY <1>1, <1>2, <1>7, <1>9, RestartedFields
<1> HIDE DEF rb, rs, o
<1>11. Layout(d)
  BY <1>4, <1>10 DEF Layout
<1>12. Reading(d, g)
  <2>1. HalfPool - o <= HalfPool
    BY <1>4
  <2>2. ASSUME NEW i \in 0 .. o - 1 PROVE m[0 + i] = g - o + 1 + i
    <3>1. i \in 0 .. PoolSize - 1 /\ ~(o <= i) /\ 0 <= i /\ i < 0 + o
          /\ i - 0 = i /\ 0 + i = i
      BY <1>3, <1>4
    <3>2. m[i] = v[i] /\ v[i] = c.mem[rb + i]
      BY <1>8, <1>9, <3>1
    <3>3. c.mem[rb + i] = g - o + 1 + i
      BY <1>1 DEF Reading, rb, o
    <3> QED
      BY <3>1, <3>2, <3>3
  <2> QED
    BY <1>3, <1>5, <1>10, <2>1, <2>2 DEF Reading
<1>13. Texts(d)
  <2>1. DOMAIN d.headers = {}
    BY <1>10
  <2> QED
    BY <1>10, <2>1 DEF Texts
<1>14. Control(d)
  BY <1>10 DEF Control
<1>15. Flow(d, g, "idle")
  <2>1. /\ Arrived(g)
        /\ PlainStream => (LineThere(g, o) => o - (LineAt(g, o) + 1) <= HalfPool)
    BY <1>1 DEF Flow, Place, o
  <2>2. d.state \in ReadingStates
    BY <1>10 DEF ReadingStates
  <2> QED
    BY <1>3, <1>10, <2>1, <2>2, Zenon DEF Flow, Place
<1> QED
  BY <1>1, <1>10, <1>11, <1>12, <1>13, <1>14, <1>15 DEF Base, Held, d

\* It ends where more is kept than that.
LEMMA FootersSentHeld ==
  ASSUME WireInv, Held(con, got, pc), IdleFootersSent
  PROVE  (pc' = "overrun" /\ ~PlainStream) \/ Held(con', got', pc')
<1>1. /\ con.state = "FOOTERS_SENT" /\ got' = got
      /\ con' = IF ~con.keepalive \/ con.read_closed THEN ClosedOff(con)
                ELSE NextRequest(con)
      /\ pc' = IF con'.read_buffer_offset > HalfPool THEN "overrun" ELSE "idle"
  BY Zenon DEF IdleFootersSent, Idle, Goes, ClosedOff
<1>2. CASE ~con.keepalive \/ con.read_closed
  <2>1. con' = ClosedOff(con)
    BY <1>1, <1>2
  <2> QED
    BY <1>1, <2>1, ClosedOffFacts
<1>3. CASE ~(~con.keepalive \/ con.read_closed)
  <2> DEFINE o == con.read_buffer_offset
  <2>1. con' = NextRequest(con) /\ ~con.read_closed
    BY <1>1, <1>3
  <2>2. con \in Connections /\ o \in Nat /\ HalfPool \in Nat
    BY HalfFacts DEF Held, Base, Connections
  <2>3. con'.read_buffer_offset = o
    <3> DEFINE m == Fill(memmove(con.mem, 0, con.read_buffer, o),
                         o, PoolSize - o, NUL)
    <3>1. con' = Restarted(con, m)
      BY <2>1, <2>2, RestartedEqual
    <3> HIDE DEF m
    <3> QED
      BY <2>2, <3>1 DEF Restarted, Connections
  <2>4. CASE o <= HalfPool
    <3>1. pc' = "idle"
      BY <1>1, <2>2, <2>3, <2>4
    <3> QED
      BY <1>1, <2>1, <2>4, <3>1, NextRequestHeld
  <2>5. CASE o > HalfPool
    <3>1. pc' = "overrun" /\ ~(o <= HalfPool)
      BY <1>1, <2>2, <2>3, <2>5
    <3>2. ~PlainStream
      BY <1>1, <2>1, <3>1 DEF Held, Flow, Place, ReadingStates
    <3> QED
      BY <3>1, <3>2
  <2> QED
    BY <2>2, <2>4, <2>5
<1> QED
  BY <1>2, <1>3

\* Another connection woke the thread.
LEMMA WokenHeld ==
  ASSUME WireInv, Held(con, got, pc), Woken
  PROVE  Held(con', got', pc')
<1>1. con' = con /\ got' = got /\ pc' = "idle"
  BY DEF Woken
<1>2. Base(con, got) /\ Texts(con) /\ Control(con) /\ Flow(con, got, pc)
  BY DEF Held
<1>3. Flow(con, got, "idle")
  BY <1>2, FlowSame
<1> QED
  BY <1>1, <1>2, <1>3 DEF Held

-----------------------------------------------------------------------------
(* The theorems                                                            *)

LEMMA InitHolds ==
  Init => BufferInv
<1> SUFFICES ASSUME Init PROVE BufferInv
  OBVIOUS
<1>1. reqs \in Streams /\ wire = FlattenSeq(FlattenSeq(reqs)) /\ got = 0
      /\ con = NewConnection /\ pc = "idle"
  BY DEF Init
<1>2. WireInv
  BY <1>1, StreamAssumption, Zenon DEF WireInv
<1>3. PoolSize \in Nat /\ HalfPool \in Nat
  BY HalfFacts
<1>4. con \in Connections
  <2>1. [i \in 0 .. PoolSize - 1 |-> JUNK] \in [0 .. PoolSize - 1 -> Int]
    BY DEF JUNK
  <2>2. NULL \in Int /\ 0 \in Nat /\ 0 \in Int /\ "INIT" \in States
        /\ <<>> \in Seq(Entries) /\ "none" \in {"none", "page", "error"}
        /\ FALSE \in BOOLEAN
    BY DEF NULL, States, ReadingStates
  <2> QED
    BY <1>1, <1>3, <2>1, <2>2 DEF NewConnection, Connections
<1>5. con.pos = 0 /\ con.end = PoolSize /\ con.read_buffer_size = 0
      /\ con.read_buffer_offset = 0 /\ con.write_buffer_size = 0
      /\ con.state = "INIT" /\ con.url = NULL /\ con.last = NULL
      /\ con.colon = NULL /\ con.headers = <<>>
  BY <1>1 DEF NewConnection
<1>6. Base(con, got)
  <2>1. Layout(con)
    BY <1>3, <1>5 DEF Layout
  <2>2. Reading(con, got)
    <3>1. 0 <= 0 /\ 0 - 0 <= HalfPool /\ 0 .. 0 - 1 = {}
      BY <1>3
    <3> QED
      BY <1>1, <1>5, <3>1 DEF Reading
  <2> QED
    BY <1>1, <1>4, <2>1, <2>2 DEF Base
<1>7. Texts(con)
  <2>1. DOMAIN con.headers = {}
    BY <1>5
  <2> QED
    BY <1>5, <2>1 DEF Texts
<1>8. Control(con)
  BY <1>5 DEF Control
<1>9. Flow(con, got, pc)
  <2>1. Arrived(0)
    BY <1>2 DEF WireInv, Arrived
  <2>2. ~LineThere(0, 0)
    <3>1. ~(0 > 0)
      OBVIOUS
    <3> QED
      BY <3>1, Zenon DEF LineThere
  <2>3. 0 - 0 = 0 /\ con.state \in ReadingStates
    BY <1>5 DEF ReadingStates
  <2> QED
    BY <1>1, <1>5, <2>1, <2>2, <2>3 DEF Flow, Place
<1> QED
  BY <1>2, <1>6, <1>7, <1>8, <1>9 DEF BufferInv, Held

\* No step changes what the client sends.
LEMMA SameWire ==
  Next => wire' = wire
  BY DEF Next, MHD_connection_handle_read, MHD_connection_handle_write,
         MHD_connection_update_event_loop_info, Woken, IdleInit, IdleUrlReceived,
         IdleHeaderPartReceived, IdleHeadersReceived, IdleHeadersProcessed,
         IdleFootersReceived, IdleHeadersSent, IdleSending, IdleFootersSent,
         IdleClosed, WaitForLine, Goes

LEMMA HeldLater ==
  ASSUME WireInv, wire' = wire,
         (pc' = "overrun" /\ ~PlainStream) \/ Held(con', got', pc')
  PROVE  BufferInv'
<1>1. WireInv'
  BY Zenon DEF WireInv
<1>2. PlainStream' <=> PlainStream
  BY Zenon DEF PlainStream, EmptyLineEnds
<1>3. CASE pc' = "overrun" /\ ~PlainStream
  BY <1>1, <1>2, <1>3 DEF BufferInv, Overrun
<1>4. CASE Held(con', got', pc')
  <2>1. Base(con, got)' /\ Texts(con)' /\ Control(con)'
    BY <1>4 DEF Held, Base, Texts, Control, Good, GoodEntry, Clean, Layout,
                Reading
  <2>2. Arrived(got') /\ (PlainStream => Place(con', got', pc'))
    BY <1>4 DEF Held, Flow
  <2>3. Place(con', got', pc') => Place(con, got, pc)'
    BY Zenon DEF Place, LineThere, LineAt, EmptyLineEnds, NL
  <2>4. Flow(con, got, pc)'
    BY <1>2, <2>2, <2>3 DEF Flow, Arrived
  <2> QED
    BY <1>1, <2>1, <2>4 DEF BufferInv, Held
<1> QED
  BY <1>3, <1>4

LEMMA StepHolds ==
  ASSUME BufferInv, [Next]_vars
  PROVE  BufferInv'
<1>1. WireInv /\ (Overrun \/ Held(con, got, pc))
  BY DEF BufferInv
<1>2. CASE UNCHANGED vars
  <2>1. wire' = wire /\ con' = con /\ got' = got /\ pc' = pc
    BY <1>2 DEF vars
  <2>2. (pc' = "overrun" /\ ~PlainStream) \/ Held(con', got', pc')
    BY <1>1, <2>1 DEF Overrun
  <2> QED
    BY <1>1, <2>1, <2>2, HeldLater
<1>3. CASE Next /\ Overrun
  <2>1. pc \notin {"idle", "update", "wait"}
    BY <1>3 DEF Overrun
  <2>2. Next => pc \in {"idle", "update", "wait"}
    BY DEF Next, MHD_connection_handle_read, MHD_connection_handle_write,
         MHD_connection_update_event_loop_info, Woken, IdleInit,
         IdleUrlReceived, IdleHeaderPartReceived, IdleHeadersReceived,
         IdleHeadersProcessed, IdleFootersReceived, IdleHeadersSent,
         IdleSending, IdleFootersSent, IdleClosed, Idle
  <2> QED
    BY <1>3, <2>1, <2>2
<1>4. CASE Next /\ Held(con, got, pc)
  <2>1. wire' = wire
    BY <1>4, SameWire
  <2>2. (pc' = "overrun" /\ ~PlainStream) \/ Held(con', got', pc')
    BY <1>1, <1>4, ReadHeld, WriteHeld, UpdateHeld, WokenHeld, IdleInitHeld,
       UrlReceivedHeld, HeaderPartReceivedHeld, HeadersReceivedHeld,
       HeadersProcessedHeld, FootersReceivedHeld, HeadersSentHeld, SendingHeld,
       FootersSentHeld, IdleClosedHeld DEF Next
  <2> QED
    BY <1>1, <2>1, <2>2, HeldLater
<1> QED
  BY <1>1, <1>2, <1>3, <1>4

\* The inductive invariant: the read buffer, the head of the reply and the
\* free part of the pool are apart; the read buffer holds the end of what has
\* been received, with never more than half a pool of room; every string the
\* connection points to lies outside of all three, made of bytes of the client
\* and ended by a zero. It holds for every stream, until more than half a pool
\* is kept unread for the next request. In a stream without empty lines in
\* front of its requests that does not happen: what was read beyond a request
\* fits into the buffer of the next one (memorypool.c, connection.c).
THEOREM BufferInvariant ==
  Spec => []BufferInv
<1>1. Init => BufferInv
  BY InitHolds
<1>2. BufferInv /\ [Next]_vars => BufferInv'
  BY StepHolds
<1> QED
  BY <1>1, <1>2, PTL DEF Spec

\* The strings are made of clean bytes.
LEMMA StringsClean ==
  ASSUME Held(con, got, pc), NEW i \in Strings
  PROVE  Clean(con, i)
<1>1. con \in Connections /\ Texts(con)
  BY DEF Held, Base
<1>2. ASSUME NEW a, a = NULL \/ Good(con, a), i \in StringAt(a)
      PROVE  Clean(con, i)
  <2>1. a # NULL /\ i \in a .. a + strlen(con, a)
    BY <1>2 DEF StringAt
  <2> QED
    BY <1>1, <1>2, <2>1, StrlenFacts
<1>3. CASE i \in StringAt(con.url)
  BY <1>1, <1>2, <1>3 DEF Texts
<1>4. CASE i \in StringAt(con.last)
  BY <1>1, <1>2, <1>4 DEF Texts
<1>5. CASE i \in StringAt(con.colon)
  BY <1>1, <1>2, <1>5 DEF Texts
<1>6. ASSUME NEW j \in DOMAIN con.headers,
             i \in StringAt(con.headers[j].key) \/ i \in StringAt(con.headers[j].value)
      PROVE  Clean(con, i)
  <2>1. GoodEntry(con, con.headers[j])
    BY <1>1 DEF Texts
  <2> QED
    BY <1>2, <1>6, <2>1 DEF GoodEntry
<1> QED
  BY <1>3, <1>4, <1>5, <1>6 DEF Strings

\* The parts of the pool never overlap, for a pool and a stream of any size:
\* the read buffer (try_grow_read_buffer, get_next_header_line), the head of
\* the reply (build_header_response, check_write_done) and the strings that
\* arguments, headers and cookies point to lie apart, within what
\* MHD_pool_allocate and MHD_pool_reallocate have given out, and a string is
\* made of nothing but bytes of the client. Empty lines in front of requests
\* are included, up to the MHD_pool_reset that keeps more than half the pool;
\* for a stream without them there is no exception.
THEOREM BlocksAreApart ==
  Spec => []BlocksApart
<1>1. ASSUME Held(con, got, pc) PROVE BlocksApart
  <2> DEFINE rb == con.read_buffer
             rs == con.read_buffer_size
             wb == con.write_buffer
             ws == con.write_buffer_size
  <2>1. con \in Connections /\ Layout(con) /\ Reading(con, got)
    BY <1>1 DEF Held, Base
  <2>2. rb \in Int /\ rs \in Nat /\ wb \in Int /\ ws \in Nat /\ con.pos \in Nat
        /\ con.end \in Nat /\ con.mem \in Memory
    BY <2>1 DEF Connections, Memory
  <2>3. con.pos <= con.end /\ con.read_buffer_offset <= rs
    BY <2>1 DEF Layout, Reading
  <2>4. /\ rs = 0 \/ (rb >= 0 /\ rb + rs <= con.pos)
        /\ ws = 0 \/ (wb >= 0 /\ wb + ws <= con.pos)
        /\ rs = 0 \/ ws = 0 \/ rb + rs <= wb \/ wb + ws <= rb
    BY <2>1 DEF Layout
  <2>5. /\ ReadBlock = rb .. rb + rs - 1
        /\ WriteBlock = wb .. wb + ws - 1
    BY DEF ReadBlock, WriteBlock
  <2> HIDE DEF rb, rs, wb, ws
  <2>6. ReadBlock \subseteq 0 .. con.pos - 1
    BY <2>2, <2>4, <2>5
  <2>7. WriteBlock \subseteq 0 .. con.pos - 1
    BY <2>2, <2>4, <2>5
  <2>8. ReadBlock \cap WriteBlock = {}
    BY <2>2, <2>4, <2>5
  <2>9. ASSUME NEW i \in Strings
        PROVE  /\ i \in 0 .. PoolSize - 1
               /\ i \notin ReadBlock /\ i \notin WriteBlock
               /\ con.mem[i] \notin {JUNK, RECORD, REPLY}
    <3>1. Clean(con, i)
      BY <1>1, StringsClean
    <3>2. /\ i \in 0 .. PoolSize - 1
          /\ ~(rb <= i /\ i < rb + rs) /\ ~(wb <= i /\ i < wb + ws)
          /\ con.mem[i] >= NUL
      BY <3>1 DEF Clean, rb, rs, wb, ws
    <3>3. con.mem[i] \in Int
      BY <2>2, <3>2 DEF Memory
    <3>4. con.mem[i] \notin {JUNK, RECORD, REPLY}
      BY <3>2, <3>3 DEF JUNK, RECORD, REPLY, NUL
    <3>5. i \notin ReadBlock /\ i \notin WriteBlock
      BY <2>2, <2>5, <3>2
    <3> QED
      BY <3>2, <3>4, <3>5
  <2> QED
    BY <2>3, <2>6, <2>7, <2>8, <2>9 DEF BlocksApart, rs
<1>2. BufferInv => BlocksApart
  BY <1>1 DEF BufferInv, Overrun, BlocksApart
<1> QED
  BY <1>2, BufferInvariant, PTL

\* What is in the read buffer is the end of what the client has sent, byte for
\* byte, for a pool and a stream of any size: growing, moving, the cutting of
\* lines and MHD_pool_reset neither lose, repeat nor overwrite a byte of the
\* next request, as long as no reset keeps more than half the pool, which
\* takes an empty line in front of a request.
THEOREM BytesStayInOrder ==
  Spec => []BytesInOrder
<1>1. ASSUME Held(con, got, pc) PROVE BytesInOrder
  <2>1. Reading(con, got)
    BY <1>1 DEF Held, Base
  <2> QED
    BY <2>1 DEF Reading, BytesInOrder
<1>2. BufferInv => BytesInOrder
  BY <1>1 DEF BufferInv, Overrun, BytesInOrder
<1> QED
  BY <1>2, BufferInvariant, PTL
=============================================================================
