-------------------------- MODULE EspconnRecvProofs --------------------------
(***************************************************************************)
(* Proofs about the ring buffer, that it implements ByteQueue, and about   *)
(* the receive path that stores in it, for any capacity, window and        *)
(* stream.                                                                 *)
(***************************************************************************)
EXTENDS RingBuf, EspconnRecv, SeqFacts

-----------------------------------------------------------------------------
(* The copy loops. *)

\* f is the state of a loop in D by the number of iterations made, up to m.
Iterates(f, m, D, base, step) ==
    /\ f \in [0 .. m -> D]
    /\ f[0] = base
    /\ \A k \in 1 .. m : f[k] = step[f[k - 1]]

\* A loop whose iterations stay in D can be made any number of times.
LEMMA LoopExists ==
  ASSUME NEW D, NEW base \in D, NEW step \in [D -> D]
  PROVE  \A m \in Nat : \E f : Iterates(f, m, D, base, step)
<1> DEFINE T == {m \in Nat : \E f : Iterates(f, m, D, base, step)}
<1>1. 0 \in T
  <2> DEFINE g == [k \in 0 .. 0 |-> base]
  <2>1. Iterates(g, 0, D, base, step)
    BY DEF Iterates
  <2> QED
    BY <2>1
<1>2. ASSUME NEW m \in Nat, m \in T
      PROVE  m + 1 \in T
  <2>1. PICK f : Iterates(f, m, D, base, step)
    BY <1>2
  <2>2. f \in [0 .. m -> D] /\ f[0] = base /\ \A k \in 1 .. m : f[k] = step[f[k - 1]]
    BY <2>1 DEF Iterates
  <2> DEFINE g == [k \in 0 .. m + 1 |-> IF k = m + 1 THEN step[f[m]] ELSE f[k]]
  <2>3. g \in [0 .. m + 1 -> D]
    BY <2>2
  <2>4. g[0] = base
    BY <2>2
  <2>5. ASSUME NEW k \in 1 .. m + 1
        PROVE  g[k] = step[g[k - 1]]
    <3>1. k - 1 \in 0 .. m /\ g[k - 1] = f[k - 1]
      OBVIOUS
    <3>2. CASE k = m + 1
      BY <3>1, <3>2
    <3>3. CASE k # m + 1
      BY <2>2, <3>1, <3>3
    <3> QED
      BY <3>2, <3>3
  <2> HIDE DEF g
  <2>6. m + 1 \in Nat /\ Iterates(g, m + 1, D, base, step)
    BY <2>3, <2>4, <2>5 DEF Iterates
  <2> QED
    BY <2>6
<1> HIDE DEF T
<1>3. \A m \in Nat : m \in T
  BY <1>1, <1>2, NumberInduction
<1> QED
  BY <1>3 DEF T

-----------------------------------------------------------------------------
(* The ring as the sequence of what was written last.  Offsets are counted   *)
(* backwards from head: no modulus, however often a write goes around.       *)

\* The cell d places behind offset h in a ring of z cells, for d up to z.
Behind(z, h, d) == IF h >= d THEN h - d ELSE h - d + z

\* How many cells from tail t up to head h.
Filled(z, h, t) == IF h >= t THEN h - t ELSE h - t + z

\* What the functions of the size compute.
LEMMA RingSizes ==
  ASSUME NEW z \in Nat \ {0}, NEW S, NEW r \in Rings(z, S)
  PROVE  /\ r.size = z
         /\ r.head \in 0 .. z - 1 /\ r.tail \in 0 .. z - 1
         /\ r.buf \in [0 .. z - 1 -> S]
         /\ ringbuf_capacity(r) = z - 1
         /\ ringbuf_bytes_used(r) = Filled(z, r.head, r.tail)
         /\ ringbuf_bytes_used(r) \in 0 .. z - 1
         /\ ringbuf_bytes_free(r) = z - 1 - ringbuf_bytes_used(r)
<1>1. /\ r.size = z /\ r.head \in 0 .. z - 1 /\ r.tail \in 0 .. z - 1
      /\ r.buf \in [0 .. z - 1 -> S]
  BY DEF Rings
<1>2. ringbuf_capacity(r) = z - 1
  BY <1>1 DEF ringbuf_capacity
<1>3. ringbuf_bytes_free(r) = z - 1 - Filled(z, r.head, r.tail)
  BY <1>1, <1>2 DEF ringbuf_bytes_free, Filled
<1>4. Filled(z, r.head, r.tail) \in 0 .. z - 1
  BY <1>1 DEF Filled
<1> QED
  BY <1>1, <1>2, <1>3, <1>4 DEF ringbuf_bytes_used

\* When head moves on by c cells, what was d behind it is d + c behind it.
LEMMA BehindMoves ==
  ASSUME NEW z \in Nat \ {0}, NEW h \in 0 .. z - 1, NEW c \in 0 .. z - h,
         NEW h1, h1 = IF h + c = z THEN 0 ELSE h + c
  PROVE  /\ h1 \in 0 .. z - 1
         /\ \A d \in 1 .. z :
               /\ Behind(z, h, d) \in 0 .. z - 1
               /\ d <= c => /\ Behind(z, h1, d) = h + c - d
                           /\ h + c - d \in h .. h + c - 1
               /\ d > c => /\ Behind(z, h1, d) = Behind(z, h, d - c)
                          /\ Behind(z, h, d - c) \notin h .. h + c - 1
<1>1. h1 \in 0 .. z - 1
  OBVIOUS
<1>2. ASSUME NEW d \in 1 .. z
      PROVE  /\ Behind(z, h, d) \in 0 .. z - 1
             /\ d <= c => /\ Behind(z, h1, d) = h + c - d
                         /\ h + c - d \in h .. h + c - 1
             /\ d > c => /\ Behind(z, h1, d) = Behind(z, h, d - c)
                        /\ Behind(z, h, d - c) \notin h .. h + c - 1
  BY <1>1 DEF Behind
<1> QED
  BY <1>1, <1>2

\* From s to t, c bytes of src went to head, and the rest stayed.
ChunkStored(z, src, s, t, c) ==
    /\ s.r.head + c <= z
    /\ t.n = s.n + c
    /\ t.r.tail = s.r.tail
    /\ t.r.head = IF s.r.head + c = z THEN 0 ELSE s.r.head + c
    /\ \A d \in 1 .. z :
          t.r.buf[Behind(z, t.r.head, d)] =
             IF d <= c THEN src[s.n + c - d + 1]
             ELSE s.r.buf[Behind(z, s.r.head, d - c)]

\* An iteration of the write loop: head is inside the buffer, as the loop asserts;
\* the chunk is not empty unless all is written; and what was written before
\* moves further behind head.
LEMMA StoreChunkStep ==
  ASSUME NEW z \in Nat \ {0}, NEW S, NEW src \in Seq(S),
         NEW s \in [r : Rings(z, S), n : 0 .. Len(src)]
  PROVE  /\ StoreChunk(s, src) \in [r : Rings(z, S), n : 0 .. Len(src)]
         /\ \E c \in 0 .. Len(src) - s.n :
               /\ s.n < Len(src) => c > 0
               /\ ChunkStored(z, src, s, StoreChunk(s, src), c)
<1> DEFINE L == Len(src)
           n == s.n
           h == s.r.head
           b == s.r.buf
           c == Chunk(s.r, h, L - n)
           t == StoreChunk(s, src)
<1>1. /\ s = [r |-> s.r, n |-> n] /\ s.r \in Rings(z, S)
      /\ L \in Nat /\ n \in 0 .. L /\ s.r.size = z
      /\ h \in 0 .. z - 1 /\ s.r.tail \in 0 .. z - 1 /\ b \in [0 .. z - 1 -> S]
  BY DEF Rings
<1>2. /\ c \in 0 .. L - n /\ (n < L => c > 0) /\ h + c <= z
  <2> HIDE DEF n, h, L, b
  <2>1. c = IF z - h < L - n THEN z - h ELSE L - n
    BY <1>1 DEF Chunk
  <2> QED
    BY <1>1, <2>1
<1>3. Wrap(s.r, h + c) = IF h + c = z THEN 0 ELSE h + c
  BY <1>1 DEF Wrap
<1> DEFINE b1 == [i \in DOMAIN b |-> IF i \in h .. h + c - 1 THEN src[n + i - h + 1] ELSE b[i]]
           h1 == IF h + c = z THEN 0 ELSE h + c
<1>4. t = [r |-> [s.r EXCEPT !.buf = b1, !.head = h1], n |-> n + c]
  BY <1>3 DEF StoreChunk
<1> HIDE DEF c, t, n, h, L, b
<1>5. b1 \in [0 .. z - 1 -> S]
  <2>1. DOMAIN b = 0 .. z - 1
    BY <1>1
  <2>2. \A i \in h .. h + c - 1 : n + i - h + 1 \in 1 .. L
    BY <1>1, <1>2
  <2>3. \A i \in 1 .. L : src[i] \in S
    BY DEF L
  <2> QED
    BY <1>1, <2>1, <2>2, <2>3
<1>6. \A i \in 0 .. z - 1 :
         b1[i] = IF i \in h .. h + c - 1 THEN src[n + i - h + 1] ELSE b[i]
  BY <1>1
<1> HIDE DEF b1
<1>7. c \in 0 .. z - h
  BY <1>1, <1>2
<1>8. h1 \in 0 .. z - 1
  BY <1>1, <1>7, BehindMoves
<1>9. ASSUME NEW d \in 1 .. z
      PROVE  b1[Behind(z, h1, d)] = IF d <= c THEN src[n + c - d + 1]
                                    ELSE b[Behind(z, h, d - c)]
  <2>1. /\ d <= c => Behind(z, h1, d) = h + c - d /\ h + c - d \in h .. h + c - 1
        /\ d > c => /\ Behind(z, h1, d) = Behind(z, h, d - c)
                    /\ Behind(z, h, d - c) \notin h .. h + c - 1
        /\ Behind(z, h1, d) \in 0 .. z - 1
    <3>1. 0 \in 0 .. z - h1
      BY <1>8
    <3> QED
      BY <1>1, <1>7, <1>8, <3>1, BehindMoves
  <2>2. CASE d <= c
    <3>1. n + (h + c - d) - h + 1 = n + c - d + 1
      BY <1>1, <1>2
    <3> QED
      BY <1>6, <2>1, <2>2, <3>1
  <2>3. CASE ~(d <= c)
    BY <1>2, <1>6, <2>1, <2>3
  <2> QED
    BY <2>2, <2>3
<1>10. n + c \in 0 .. L
  BY <1>1, <1>2
<1>11. /\ t.n = n + c /\ t.r.buf = b1 /\ t.r.head = h1 /\ t.r.tail = s.r.tail
       /\ t \in [r : Rings(z, S), n : 0 .. L]
  <2> HIDE DEF h1
  <2> DEFINE q == [s.r EXCEPT !.buf = b1, !.head = h1]
  <2>1. q \in Rings(z, S) /\ q.buf = b1 /\ q.head = h1 /\ q.tail = s.r.tail
    BY <1>1, <1>5, <1>8 DEF Rings
  <2> HIDE DEF q
  <2>2. t = [r |-> q, n |-> n + c]
    BY <1>4 DEF q
  <2> QED
    BY <1>10, <2>1, <2>2
<1>12. ChunkStored(z, src, s, t, c)
  BY <1>2, <1>9, <1>11 DEF ChunkStored, n, h, b, h1
<1>13. t \in [r : Rings(z, S), n : 0 .. L] /\ \E c1 \in 0 .. L - n :
          (n < L => c1 > 0) /\ ChunkStored(z, src, s, t, c1)
  BY <1>2, <1>11, <1>12
<1> QED
  BY <1>13 DEF t, n, L

\* When head moves on by c cells without reaching tail, c more are filled.
LEMMA FilledMoves ==
  ASSUME NEW z \in Nat \ {0}, NEW h \in 0 .. z - 1, NEW t \in 0 .. z - 1,
         NEW c \in 0 .. z - h, NEW h1, h1 = IF h + c = z THEN 0 ELSE h + c,
         Filled(z, h, t) + c < z
  PROVE  Filled(z, h1, t) = Filled(z, h, t) + c
BY DEF Filled

\* The state of the write loop after s.n bytes of src: behind head are the
\* newest of them, then what was there before.
Written(z, rb0, src, s) ==
    /\ s.r.tail = rb0.tail
    /\ \A d \in 1 .. z :
          s.r.buf[Behind(z, s.r.head, d)] =
             IF d <= s.n THEN src[s.n - d + 1]
             ELSE rb0.buf[Behind(z, rb0.head, d - s.n)]
    /\ Filled(z, rb0.head, rb0.tail) + s.n < z =>
          Filled(z, s.r.head, s.r.tail) = Filled(z, rb0.head, rb0.tail) + s.n

\* An iteration keeps it so and makes progress.
LEMMA WrittenStep ==
  ASSUME NEW z \in Nat \ {0}, NEW S, NEW src \in Seq(S), NEW rb0 \in Rings(z, S),
         NEW s \in [r : Rings(z, S), n : 0 .. Len(src)], Written(z, rb0, src, s)
  PROVE  /\ StoreChunk(s, src) \in [r : Rings(z, S), n : 0 .. Len(src)]
         /\ Written(z, rb0, src, StoreChunk(s, src))
         /\ s.n < Len(src) => StoreChunk(s, src).n > s.n
         /\ StoreChunk(s, src).n >= s.n
<1> DEFINE L == Len(src)
           n == s.n
           h == s.r.head
           t == StoreChunk(s, src)
<1>1. /\ L \in Nat /\ n \in 0 .. L
      /\ h \in 0 .. z - 1 /\ s.r.tail \in 0 .. z - 1
      /\ rb0.head \in 0 .. z - 1 /\ rb0.tail \in 0 .. z - 1
  BY DEF Rings
<1>2. PICK c \in 0 .. L - n :
         /\ n < L => c > 0
         /\ ChunkStored(z, src, s, t, c)
  BY StoreChunkStep
<1>3. t \in [r : Rings(z, S), n : 0 .. L]
  BY StoreChunkStep
<1>4. /\ h + c <= z
      /\ t.n = n + c
      /\ t.r.tail = s.r.tail
      /\ t.r.head = IF h + c = z THEN 0 ELSE h + c
      /\ \A d \in 1 .. z :
            t.r.buf[Behind(z, t.r.head, d)] =
               IF d <= c THEN src[n + c - d + 1] ELSE s.r.buf[Behind(z, h, d - c)]
  BY <1>2 DEF ChunkStored
<1> HIDE DEF L, n, h, t
<1>5. t.n > n \/ (~(n < L) /\ t.n >= n)
  BY <1>1, <1>2, <1>4
<1>6. ASSUME NEW d \in 1 .. z
      PROVE  t.r.buf[Behind(z, t.r.head, d)] =
                IF d <= n + c THEN src[n + c - d + 1]
                ELSE rb0.buf[Behind(z, rb0.head, d - (n + c))]
  <2>1. CASE d <= c
    BY <1>1, <1>2, <1>4, <2>1
  <2>2. CASE ~(d <= c)
    <3>1. d - c \in 1 .. z
      BY <1>2, <1>4, <2>2
    <3>2. t.r.buf[Behind(z, t.r.head, d)] = s.r.buf[Behind(z, h, d - c)]
      BY <1>2, <1>4, <2>2
    <3>3. s.r.buf[Behind(z, h, d - c)] =
             IF d - c <= n THEN src[n - (d - c) + 1]
             ELSE rb0.buf[Behind(z, rb0.head, d - c - n)]
      BY <3>1 DEF Written, n, h
    <3>4. /\ d - c <= n <=> d <= n + c
          /\ n - (d - c) + 1 = n + c - d + 1
          /\ d - c - n = d - (n + c)
      BY <1>1, <1>2, <1>4
    <3> QED
      BY <3>2, <3>3, <3>4
  <2> QED
    BY <2>1, <2>2
<1> DEFINE f0 == Filled(z, rb0.head, rb0.tail)
<1>7. ASSUME f0 + (n + c) < z
      PROVE  Filled(z, t.r.head, t.r.tail) = f0 + (n + c)
  <2>1. f0 \in Nat
    BY <1>1 DEF Filled
  <2> HIDE DEF f0
  <2>2. f0 + n < z
    BY <1>1, <1>2, <1>4, <1>7, <2>1
  <2>3. Filled(z, h, s.r.tail) = f0 + n
    BY <2>2 DEF Written, n, h, f0
  <2>4. c \in 0 .. z - h /\ (f0 + n) + c < z
    BY <1>1, <1>2, <1>4, <1>7, <2>1
  <2>5. Filled(z, t.r.head, s.r.tail) = (f0 + n) + c
    BY <1>1, <1>2, <1>4, <2>3, <2>4, FilledMoves
  <2> QED
    BY <1>1, <1>2, <1>4, <2>1, <2>5
<1>8. Written(z, rb0, src, t)
  <2>1. t.r.tail = rb0.tail
    BY <1>2, <1>4 DEF Written
  <2>2. \A d \in 1 .. z :
           t.r.buf[Behind(z, t.r.head, d)] =
              IF d <= t.n THEN src[t.n - d + 1]
              ELSE rb0.buf[Behind(z, rb0.head, d - t.n)]
    <3>1. t.n = n + c
      BY <1>4
    <3> HIDE DEF f0
    <3> SUFFICES ASSUME NEW d \in 1 .. z
                 PROVE  t.r.buf[Behind(z, t.r.head, d)] =
                           IF d <= t.n THEN src[t.n - d + 1]
                           ELSE rb0.buf[Behind(z, rb0.head, d - t.n)]
      OBVIOUS
    <3>2. t.n - d + 1 = n + c - d + 1 /\ d - t.n = d - (n + c) /\ (d <= t.n <=> d <= n + c)
      BY <1>1, <3>1
    <3> QED
      BY <1>6, <3>2
  <2>3. f0 + t.n < z => Filled(z, t.r.head, t.r.tail) = f0 + t.n
    BY <1>7, <1>4
  <2> QED
    BY <2>1, <2>2, <2>3 DEF Written
<1> QED
  BY <1>1, <1>3, <1>5, <1>8 DEF L, n, t

\* The write loop of ringbuf_memcpy_into and ringbuf_memset ends, with all of src
\* behind head.
LEMMA StoreWrites ==
  ASSUME NEW z \in Nat \ {0}, NEW S, NEW src \in Seq(S), NEW rb0 \in Rings(z, S)
  PROVE  /\ Store(rb0, src) \in Rings(z, S)
         /\ Written(z, rb0, src, [r |-> Store(rb0, src), n |-> Len(src)])
<1> DEFINE L == Len(src)
           D == [r : Rings(z, S), n : 0 .. L]
           base == [r |-> rb0, n |-> 0]
           step == [s \in D |-> StoreChunk(s, src)]
<1>1. L \in Nat
  OBVIOUS
<1>2. base \in D
  BY <1>1
<1>3. step \in [D -> D]
  <2>1. ASSUME NEW s \in D PROVE StoreChunk(s, src) \in D
    BY StoreChunkStep
  <2> QED
    BY <2>1
<1>4. PICK g : Iterates(g, L, D, base, step)
  <2> HIDE DEF D, base, step, L
  <2> QED
    BY <1>1, <1>2, <1>3, LoopExists
<1>5. g = [k \in 0 .. L |-> IF k = 0 THEN base ELSE StoreChunk(g[k - 1], src)]
  <2>1. ASSUME NEW k \in 0 .. L, k # 0
        PROVE  g[k] = StoreChunk(g[k - 1], src)
    <3> HIDE DEF D, base, step, L
    <3>1. g[k - 1] \in D /\ g[k] = step[g[k - 1]]
      BY <1>1, <1>4, <2>1 DEF Iterates
    <3> QED
      BY <3>1 DEF step
  <2>2. g \in [0 .. L -> D] /\ g[0] = base
    BY <1>4 DEF Iterates
  <2> HIDE DEF D, base, step, L
  <2>3. \A k \in 0 .. L : g[k] = IF k = 0 THEN base ELSE StoreChunk(g[k - 1], src)
    BY <2>1, <2>2
  <2>4. g = [k \in 0 .. L |-> g[k]]
    BY <2>2
  <2> QED
    BY <2>3, <2>4
<1> DEFINE f == CHOOSE h : h = [k \in 0 .. L |-> IF k = 0 THEN base ELSE StoreChunk(h[k - 1], src)]
<1>6. f = [k \in 0 .. L |-> IF k = 0 THEN base ELSE StoreChunk(f[k - 1], src)]
  BY <1>5
<1>7. Store(rb0, src) = f[L].r
  BY DEF Store
<1> HIDE DEF f
<1> DEFINE T == {k \in Nat : k <= L => /\ f[k] \in D
                                       /\ Written(z, rb0, src, f[k])
                                       /\ f[k].n >= k}
<1>8. 0 \in T
  <2>1. f[0] = base
    BY <1>1, <1>6
  <2>2. rb0.head \in 0 .. z - 1 /\ rb0.tail \in 0 .. z - 1
    BY DEF Rings
  <2>3. Filled(z, rb0.head, rb0.tail) \in Nat
    BY <2>2 DEF Filled
  <2>4. base.r = rb0 /\ base.n = 0
    OBVIOUS
  <2> HIDE DEF base
  <2>5. Written(z, rb0, src, base)
    <3>1. \A d \in 1 .. z : ~(d <= 0) /\ d - 0 = d
      OBVIOUS
    <3> QED
      BY <2>3, <2>4, <3>1 DEF Written
  <2> QED
    BY <1>2, <2>1, <2>4, <2>5
<1>9. ASSUME NEW k \in Nat, k \in T
      PROVE  k + 1 \in T
  <2> SUFFICES ASSUME k + 1 <= L
               PROVE  /\ f[k + 1] \in D /\ Written(z, rb0, src, f[k + 1])
                      /\ f[k + 1].n >= k + 1
    OBVIOUS
  <2>1. /\ f[k] \in D /\ Written(z, rb0, src, f[k]) /\ f[k].n >= k
    BY <1>1, <1>9
  <2>2. f[k + 1] = StoreChunk(f[k], src)
    BY <1>1, <1>6
  <2>3. /\ f[k + 1] \in D /\ Written(z, rb0, src, f[k + 1])
        /\ f[k].n < L => f[k + 1].n > f[k].n
        /\ f[k + 1].n >= f[k].n
    BY <2>1, <2>2, WrittenStep
  <2>4. f[k].n \in 0 .. L /\ f[k + 1].n \in 0 .. L
    BY <2>1, <2>3
  <2> HIDE DEF D, L
  <2> QED
    BY <1>1, <2>1, <2>3, <2>4
<1> HIDE DEF T
<1>10. L \in T
  BY <1>1, <1>8, <1>9, NumberInduction
<1>11. /\ f[L] \in D /\ Written(z, rb0, src, f[L]) /\ f[L].n = L
  BY <1>1, <1>10 DEF T
<1>12. f[L] = [r |-> Store(rb0, src), n |-> L] /\ Store(rb0, src) \in Rings(z, S)
  BY <1>7, <1>11
<1> QED
  BY <1>11, <1>12

\* Going around the ring at most once.
LEMMA AroundOnce ==
  ASSUME NEW z \in Nat \ {0}, NEW x \in 0 .. z + z - 1
  PROVE  /\ x < z => x % z = x
         /\ x >= z => x % z = x - z
<1>1. CASE x < z
  BY <1>1
<1>2. CASE ~(x < z)
  <2>1. \A y \in 0 .. z - 1 : (y + z) % z = y
    OBVIOUS
  <2>2. x - z \in 0 .. z - 1 /\ (x - z) + z = x
    BY <1>2
  <2> QED
    BY <1>2, <2>1, <2>2
<1> QED
  BY <1>1, <1>2

\* The byte that is the i-th of a ring, seen from its head.
LEMMA ContentsAre ==
  ASSUME NEW z \in Nat \ {0}, NEW S, NEW r \in Rings(z, S)
  PROVE  /\ Contents(r) \in Seq(S)
         /\ Len(Contents(r)) = ringbuf_bytes_used(r)
         /\ \A i \in 1 .. ringbuf_bytes_used(r) :
               Contents(r)[i] = r.buf[Behind(z, r.head, ringbuf_bytes_used(r) - i + 1)]
<1> DEFINE u == ringbuf_bytes_used(r)
           h == r.head
           t == r.tail
<1>1. /\ r.size = z /\ h \in 0 .. z - 1 /\ t \in 0 .. z - 1
      /\ r.buf \in [0 .. z - 1 -> S]
      /\ u = Filled(z, h, t) /\ u \in 0 .. z - 1
  <2> HIDE DEF u, h, t
  <2> QED
    BY RingSizes DEF u, h, t
<1>2. Contents(r) = [i \in 1 .. u |-> r.buf[(t + i - 1) % z]]
  BY <1>1 DEF Contents
<1> HIDE DEF u, h, t
<1>3. ASSUME NEW i \in 1 .. u
      PROVE  /\ (t + i - 1) % z = Behind(z, h, u - i + 1)
             /\ Behind(z, h, u - i + 1) \in 0 .. z - 1
  <2>1. t + i - 1 \in 0 .. z + z - 1
    BY <1>1
  <2>2. (t + i - 1) % z = IF t + i - 1 < z THEN t + i - 1 ELSE t + i - 1 - z
    <3> DEFINE x == t + i - 1
    <3> HIDE DEF x
    <3>1. x \in 0 .. z + z - 1
      BY <2>1 DEF x
    <3>2. (x < z => x % z = x) /\ (x >= z => x % z = x - z)
      BY <3>1, AroundOnce
    <3> QED
      BY <1>1, <3>1, <3>2 DEF x
  <2>3. Behind(z, h, u - i + 1) = IF t + i - 1 < z THEN t + i - 1 ELSE t + i - 1 - z
    BY <1>1 DEF Behind, Filled
  <2> QED
    BY <1>1, <2>1, <2>2, <2>3
<1>4. \A i \in 1 .. u : Contents(r)[i] = r.buf[Behind(z, h, u - i + 1)]
  BY <1>2, <1>3
<1>5. Contents(r) \in [1 .. u -> S]
  <2>1. \A i \in 1 .. u : Contents(r)[i] \in S
    BY <1>1, <1>3, <1>4
  <2>2. Contents(r) = [i \in 1 .. u |-> Contents(r)[i]]
    BY <1>2
  <2> QED
    BY <2>1, <2>2
<1>6. Contents(r) \in Seq(S) /\ Len(Contents(r)) = u
  BY <1>1, <1>5
<1> QED
  BY <1>4, <1>6 DEF u, h

\* The old contents followed by the new bytes.
Joined(rb0, src) == Contents(rb0) \o src

\* The last v of u + n places, counted from both ends: place i of them is place m
\* of all, d places from the end.
LEMMA FromBothEnds ==
  ASSUME NEW u \in Nat, NEW n \in Nat, NEW v \in Nat, v <= u + n, NEW i \in 1 .. v,
         NEW d, d = v - i + 1, NEW m, m = i + (u + n - v)
  PROVE  /\ d \in 1 .. v /\ m \in 1 .. u + n
         /\ d <= n => m > u /\ m - u = n - d + 1
         /\ d > n => m \in 1 .. u /\ u - m + 1 = d - n
OBVIOUS

\* r holds the newest bytes of the contents of rb0 followed by src.
HoldsNewest(rb0, src, r) ==
    LET v == ringbuf_bytes_used(r)
        all == ringbuf_bytes_used(rb0) + Len(src)
    IN  \A i \in 1 .. v : Contents(r)[i] = Joined(rb0, src)[i + (all - v)]

\* So does every ring that ends at head after the write loop.
LEMMA NewestBehindHead ==
  ASSUME NEW z \in Nat \ {0}, NEW S, NEW src \in Seq(S), NEW rb0 \in Rings(z, S),
         NEW r \in Rings(z, S),
         r.head = Store(rb0, src).head, r.buf = Store(rb0, src).buf,
         ringbuf_bytes_used(r) <= ringbuf_bytes_used(rb0) + Len(src)
  PROVE  HoldsNewest(rb0, src, r)
<1> DEFINE n == Len(src)
           u == ringbuf_bytes_used(rb0)
           v == ringbuf_bytes_used(r)
<1>0. n \in Nat /\ v <= u + n
  OBVIOUS
<1> HIDE DEF n, u, v
<1>1. /\ u \in 0 .. z - 1 /\ v \in 0 .. z - 1
      /\ rb0.head \in 0 .. z - 1 /\ r.head \in 0 .. z - 1
  BY RingSizes DEF u, v
<1> SUFFICES ASSUME NEW i \in 1 .. v
             PROVE  Contents(r)[i] = Joined(rb0, src)[i + (u + n - v)]
  BY <1>0, <1>1 DEF HoldsNewest, u, n, v
<1> DEFINE d == v - i + 1
           m == i + (u + n - v)
<1>2. /\ d \in 1 .. z /\ m \in 1 .. u + n
      /\ d <= n => m > u /\ m - u = n - d + 1
      /\ d > n => m \in 1 .. u /\ u - m + 1 = d - n
  <2>1. u \in Nat /\ v \in Nat
    BY <1>1
  <2>2. /\ d \in 1 .. v /\ m \in 1 .. u + n
        /\ d <= n => m > u /\ m - u = n - d + 1
        /\ d > n => m \in 1 .. u /\ u - m + 1 = d - n
    <3> HIDE DEF d, m
    <3> QED
      BY <1>0, <2>1, FromBothEnds DEF d, m
  <2> QED
    BY <1>1, <2>2
<1>3. Contents(r)[i] = r.buf[Behind(z, r.head, d)]
  BY ContentsAre DEF v
<1>4. /\ d <= n => r.buf[Behind(z, r.head, d)] = src[n - d + 1]
      /\ d > n => r.buf[Behind(z, r.head, d)] = rb0.buf[Behind(z, rb0.head, d - n)]
  <2> DEFINE s == [r |-> Store(rb0, src), n |-> Len(src)]
  <2>1. s.r.buf = r.buf /\ s.r.head = r.head /\ s.n = n
    BY DEF n
  <2>2. Written(z, rb0, src, s)
    BY StoreWrites
  <2> HIDE DEF s, d
  <2> QED
    BY <1>1, <1>2, <2>1, <2>2 DEF Written
<1>5. /\ Len(Contents(rb0)) = u /\ Contents(rb0) \in Seq(S)
      /\ \A j \in 1 .. u : Contents(rb0)[j] = rb0.buf[Behind(z, rb0.head, u - j + 1)]
  BY ContentsAre DEF u
<1> HIDE DEF d, m
<1>6. \A j \in 1 .. u + n :
         /\ j <= u => Joined(rb0, src)[j] = Contents(rb0)[j]
         /\ j > u => Joined(rb0, src)[j] = src[j - u]
  BY <1>1, <1>5, ConcatProperties DEF Joined, n
<1>7. CASE d <= n
  <2>1. Joined(rb0, src)[m] = src[n - d + 1]
    BY <1>2, <1>6, <1>7
  <2>2. Contents(r)[i] = Joined(rb0, src)[m]
    BY <1>3, <1>4, <1>7, <2>1
  <2> QED
    BY <2>2 DEF m
<1>8. CASE d > n
  <2>1. Joined(rb0, src)[m] = Contents(rb0)[m]
    BY <1>2, <1>6, <1>8, <1>1
  <2>2. Contents(rb0)[m] = rb0.buf[Behind(z, rb0.head, d - n)]
    BY <1>2, <1>5, <1>8
  <2>3. Contents(r)[i] = Joined(rb0, src)[m]
    BY <1>3, <1>4, <1>8, <2>1, <2>2
  <2> QED
    BY <2>3 DEF m
<1> QED
  BY <1>0, <1>2, <1>7, <1>8

\* What ringbuf_memcpy_into leaves: the new bytes behind the old ones if they fit,
\* otherwise the newest that fit, in a buffer that is full, as the code asserts.
LEMMA MemcpyInto ==
  ASSUME NEW z \in Nat \ {0}, NEW S, NEW src \in Seq(S), NEW rb0 \in Rings(z, S),
         NEW r, r = ringbuf_memcpy_into(rb0, src)
  PROVE  /\ r \in Rings(z, S)
         /\ Len(Joined(rb0, src)) \in Nat
         /\ Len(Joined(rb0, src)) < z => Contents(r) = Joined(rb0, src)
         /\ Len(Joined(rb0, src)) >= z => /\ ringbuf_is_full(r)
                             /\ Contents(r) = SubSeq(Joined(rb0, src), Len(Joined(rb0, src)) - (z - 1) + 1, Len(Joined(rb0, src)))
<1> DEFINE n == Len(src)
           u == ringbuf_bytes_used(rb0)
           w == Store(rb0, src)
           v == ringbuf_bytes_used(r)
<1>1. n \in Nat /\ u \in 0 .. z - 1 /\ ringbuf_bytes_free(rb0) = z - 1 - u
  BY RingSizes
<1>2. Len(Contents(rb0)) = u /\ Contents(rb0) \in Seq(S)
  BY ContentsAre
<1>3. Joined(rb0, src) \in Seq(S) /\ Len(Joined(rb0, src)) = u + n
  BY <1>2, ConcatProperties DEF Joined
<1>4. w \in Rings(z, S) /\ Written(z, rb0, src, [r |-> w, n |-> n])
  BY StoreWrites
<1>5. /\ w.size = z /\ w.head \in 0 .. z - 1 /\ w.tail \in 0 .. z - 1 /\ w.buf \in [0 .. z - 1 -> S]
      /\ rb0.head \in 0 .. z - 1 /\ rb0.tail \in 0 .. z - 1
      /\ ringbuf_bytes_used(w) = Filled(z, w.head, w.tail)
      /\ u = Filled(z, rb0.head, rb0.tail)
  BY <1>4, RingSizes
<1>6. CASE Len(Joined(rb0, src)) < z
  <2>1. r = w
    BY <1>1, <1>3, <1>6 DEF ringbuf_memcpy_into, Overflows
  <2>2. v = u + n
    <3> DEFINE s == [r |-> w, n |-> n]
    <3>1. s.r = w /\ s.n = n /\ Written(z, rb0, src, s)
      BY <1>4
    <3> HIDE DEF s, u, n, w
    <3> QED
      BY <1>3, <1>5, <1>6, <2>1, <3>1 DEF Written
  <2> HIDE DEF u, n, w, v
  <2>3. \A i \in 1 .. v : Contents(r)[i] = Joined(rb0, src)[i + (u + n - v)]
    <3>1. v <= u + n
      BY <1>1, <2>2
    <3>2. HoldsNewest(rb0, src, r)
      BY <1>4, <2>1, <3>1, NewestBehindHead DEF u, n, w, v
    <3> QED
      BY ONLY <1>1, <2>2, <3>1, <3>2 DEF HoldsNewest, u, n, v
  <2>4. Contents(r) \in Seq(S) /\ Len(Contents(r)) = v
    BY <1>4, <2>1, ContentsAre DEF v
  <2>5. \A i \in 1 .. u + n : Contents(r)[i] = Joined(rb0, src)[i]
    BY <1>1, <2>2, <2>3
  <2>6. Contents(r) = Joined(rb0, src)
    BY <1>3, <2>2, <2>4, <2>5
  <2> QED
    BY <1>1, <1>3, <1>4, <1>6, <2>1, <2>6
<1>7. CASE ~(Len(Joined(rb0, src)) < z)
  <2>1. r = [w EXCEPT !.tail = (w.head + 1) % z]
    BY <1>1, <1>3, <1>5, <1>7 DEF ringbuf_memcpy_into, Overflows, PushTail, ringbuf_nextp
  <2> DEFINE t == (w.head + 1) % z
  <2> HIDE DEF u, n, w, v
  <2>2. t \in 0 .. z - 1 /\ Filled(z, w.head, t) = z - 1
    <3>1. w.head + 1 \in 0 .. z + z - 1
      BY <1>5
    <3> DEFINE x == w.head + 1
    <3> HIDE DEF x
    <3>2. (x < z => x % z = x) /\ (x >= z => x % z = x - z)
      BY <3>1, AroundOnce DEF x
    <3>3. (w.head + 1 < z => t = w.head + 1) /\ (w.head + 1 >= z => t = 0)
      BY <1>5, <3>2 DEF x
    <3> HIDE DEF t
    <3> QED
      BY <1>5, <3>3 DEF Filled
  <2> HIDE DEF t
  <2>3. r \in Rings(z, S) /\ r.head = w.head /\ r.buf = w.buf /\ r.tail = t
    BY <1>4, <2>1, <2>2 DEF Rings, t
  <2>4. v = z - 1 /\ ringbuf_is_full(r)
    <3>1. v = z - 1 /\ ringbuf_bytes_free(r) = z - 1 - v
      BY <2>2, <2>3, RingSizes DEF v
    <3> QED
      BY <3>1 DEF ringbuf_is_full
  <2>5. v <= u + n
    BY <1>1, <1>3, <1>7, <2>4
  <2>6. \A i \in 1 .. v : Contents(r)[i] = Joined(rb0, src)[i + (u + n - v)]
    <3>1. HoldsNewest(rb0, src, r)
      BY <2>3, <2>5, NewestBehindHead DEF u, n, w, v
    <3> QED
      BY ONLY <1>1, <2>4, <2>5, <3>1 DEF HoldsNewest, u, n, v
  <2>7. Contents(r) \in Seq(S) /\ Len(Contents(r)) = v
    BY <2>3, ContentsAre DEF v
  <2> DEFINE p == SubSeq(Joined(rb0, src), u + n - (z - 1) + 1, u + n)
  <2>8. /\ p \in Seq(S) /\ Len(p) = z - 1
        /\ \A i \in 1 .. z - 1 : p[i] = Joined(rb0, src)[i + (u + n - (z - 1))]
    <3>1. u + n - (z - 1) + 1 \in 1 .. u + n + 1
      BY <1>1, <1>3, <1>7
    <3> QED
      BY <1>1, <1>3, <3>1
  <2> HIDE DEF p
  <2>9. Contents(r) = p
    BY <2>4, <2>6, <2>7, <2>8
  <2> QED
    BY <1>1, <1>3, <1>7, <2>3, <2>4, <2>9 DEF p
<1> QED
  BY <1>6, <1>7

-----------------------------------------------------------------------------
(* Reading. *)

\* When tail moves on by c cells, not beyond head, c fewer are filled; the cells
\* it leaves behind are the oldest ones.
LEMMA TailMoves ==
  ASSUME NEW z \in Nat \ {0}, NEW h \in 0 .. z - 1, NEW t \in 0 .. z - 1,
         NEW u, u = Filled(z, h, t),
         NEW c \in 0 .. z - t, c <= u,
         NEW t1, t1 = IF t + c = z THEN 0 ELSE t + c
  PROVE  /\ u \in 0 .. z - 1
         /\ t1 \in 0 .. z - 1
         /\ Filled(z, h, t1) = u - c
         /\ \A i \in 1 .. c : Behind(z, h, u - i + 1) = t + i - 1
<1>1. u \in 0 .. z - 1
  BY DEF Filled
<1>2. t1 \in 0 .. z - 1
  OBVIOUS
<1>3. Filled(z, h, t1) = u - c
  BY DEF Filled
<1>4. ASSUME NEW i \in 1 .. c
      PROVE  Behind(z, h, u - i + 1) = t + i - 1
  BY DEF Filled, Behind
<1> QED
  BY <1>1, <1>2, <1>3, <1>4

\* The state of the read loop: so many of the oldest bytes are copied, and tail is
\* behind them.
Copied(z, S, rb0, count) ==
    {s \in [r : Rings(z, S), out : Seq(S)] :
        /\ s.r.head = rb0.head /\ s.r.buf = rb0.buf
        /\ Len(s.out) <= count
        /\ ringbuf_bytes_used(s.r) = ringbuf_bytes_used(rb0) - Len(s.out)
        /\ \A i \in 1 .. Len(s.out) : s.out[i] = Contents(rb0)[i]}

\* An iteration of the read loop: tail is inside the buffer, as the loop asserts,
\* and the chunk is not empty unless all is read.
LEMMA LoadChunkStep ==
  ASSUME NEW z \in Nat \ {0}, NEW S, NEW rb0 \in Rings(z, S),
         NEW count \in 0 .. ringbuf_bytes_used(rb0),
         NEW s \in Copied(z, S, rb0, count)
  PROVE  /\ LoadChunk(s, count) \in Copied(z, S, rb0, count)
         /\ Len(LoadChunk(s, count).out) >= Len(s.out)
         /\ Len(s.out) < count => Len(LoadChunk(s, count).out) > Len(s.out)
<1> DEFINE n == Len(s.out)
           h == s.r.head
           b == s.r.buf
           t == s.r.tail
           u0 == ringbuf_bytes_used(rb0)
           u == ringbuf_bytes_used(s.r)
           c == Chunk(s.r, t, count - n)
           t1 == IF t + c = z THEN 0 ELSE t + c
           q == [s.r EXCEPT !.tail = t1]
           more == [i \in 1 .. c |-> b[t + i - 1]]
           s1 == LoadChunk(s, count)
<1>1. /\ s.r \in Rings(z, S) /\ s.out \in Seq(S) /\ n \in Nat
      /\ h = rb0.head /\ b = rb0.buf /\ n <= count /\ u = u0 - n
      /\ \A i \in 1 .. n : s.out[i] = Contents(rb0)[i]
  BY DEF Copied
<1>2. /\ s.r.size = z /\ h \in 0 .. z - 1 /\ t \in 0 .. z - 1 /\ b \in [0 .. z - 1 -> S]
      /\ u = Filled(z, h, t) /\ u \in 0 .. z - 1 /\ u0 \in 0 .. z - 1
      /\ count \in 0 .. u0
  BY <1>1, RingSizes
<1>3. c \in 0 .. count - n /\ c \in 0 .. z - t /\ (n < count => c > 0)
  <2> HIDE DEF t, n
  <2>1. /\ z - t < count - n => c = z - t
        /\ ~(z - t < count - n) => c = count - n
    BY <1>2 DEF Chunk
  <2> QED
    BY <1>1, <1>2, <2>1
<1>4. s1 = [r |-> q, out |-> s.out \o more]
  BY <1>2 DEF LoadChunk, Wrap
<1> HIDE DEF n, h, b, t, u0, u, c, t1
<1>5. c <= u
  BY <1>1, <1>2, <1>3
<1>6. /\ t1 \in 0 .. z - 1
      /\ Filled(z, h, t1) = u - c
      /\ \A i \in 1 .. c : Behind(z, h, u - i + 1) = t + i - 1
  <2>1. t1 = IF t + c = z THEN 0 ELSE t + c
    BY DEF t1
  <2>2. \A t2 : t2 = (IF t + c = z THEN 0 ELSE t + c) =>
           /\ t2 \in 0 .. z - 1
           /\ Filled(z, h, t2) = u - c
           /\ \A i \in 1 .. c : Behind(z, h, u - i + 1) = t + i - 1
    BY <1>2, <1>3, <1>5, TailMoves
  <2> QED
    BY <2>1, <2>2
<1>7. q \in Rings(z, S) /\ q.head = h /\ q.buf = b /\ q.tail = t1
  BY <1>1, <1>6 DEF Rings, h, b
<1> HIDE DEF q
<1>8. ringbuf_bytes_used(q) = u - c
  BY <1>6, <1>7, RingSizes
<1>9. ASSUME NEW i \in 1 .. c
      PROVE  /\ b[t + i - 1] = Contents(rb0)[n + i]
             /\ b[t + i - 1] \in S
  <2>1. n + i \in 1 .. u0 /\ u0 - (n + i) + 1 = u - i + 1
    BY <1>1, <1>2, <1>3, <1>5
  <2>2. Contents(rb0)[n + i] = rb0.buf[Behind(z, rb0.head, u0 - (n + i) + 1)]
    BY <2>1, ContentsAre DEF u0
  <2>3. t + i - 1 \in 0 .. z - 1
    BY <1>2, <1>3
  <2> QED
    BY <1>1, <1>2, <1>6, <2>1, <2>2, <2>3
<1>10. more \in Seq(S) /\ Len(more) = c /\ \A i \in 1 .. c : more[i] = Contents(rb0)[n + i]
  BY <1>3, <1>9
<1> HIDE DEF more
<1>11. /\ s.out \o more \in Seq(S) /\ Len(s.out \o more) = n + c
       /\ \A i \in 1 .. n + c : (s.out \o more)[i] = Contents(rb0)[i]
  <2>1. s.out \o more \in Seq(S) /\ Len(s.out \o more) = n + c
    BY <1>1, <1>10, ConcatProperties DEF n
  <2>2. ASSUME NEW i \in 1 .. n + c
        PROVE  (s.out \o more)[i] = Contents(rb0)[i]
    <3>1. CASE i <= n
      BY <1>1, <1>10, <3>1 DEF n
    <3>2. CASE ~(i <= n)
      <4>1. i - n \in 1 .. c /\ n + (i - n) = i
        BY <1>1, <1>3, <3>2
      <4>2. (s.out \o more)[i] = more[i - n]
        BY <1>1, <1>10, <1>3, <3>2 DEF n
      <4> QED
        BY <1>10, <4>1, <4>2
    <3> QED
      BY <3>1, <3>2
  <2> QED
    BY <2>1, <2>2
<1> DEFINE o == s.out \o more
<1> HIDE DEF o
<1>12. s1.r = q /\ s1.out = o /\ s1 \in [r : Rings(z, S), out : Seq(S)]
  BY <1>4, <1>7, <1>11 DEF o
<1>13. Len(o) = n + c /\ \A i \in 1 .. n + c : o[i] = Contents(rb0)[i]
  BY <1>11 DEF o
<1> HIDE DEF s1
<1>14. s1 \in Copied(z, S, rb0, count)
  <2>1. ringbuf_bytes_used(s1.r) = u0 - Len(s1.out) /\ Len(s1.out) <= count
    BY <1>1, <1>2, <1>3, <1>8, <1>12, <1>13
  <2> QED
    BY <1>1, <1>7, <1>12, <1>13, <2>1 DEF Copied, u0
<1> QED
  BY <1>1, <1>3, <1>12, <1>13, <1>14 DEF s1, n

\* ringbuf_memcpy_from takes the oldest bytes and leaves the others; no more and no
\* fewer than the code asserts.
LEMMA MemcpyFrom ==
  ASSUME NEW z \in Nat \ {0}, NEW S, NEW rb0 \in Rings(z, S),
         NEW count \in 0 .. ringbuf_bytes_used(rb0)
  PROVE  /\ ringbuf_memcpy_from(rb0, count) \in Rings(z, S)
         /\ count + ringbuf_bytes_used(ringbuf_memcpy_from(rb0, count)) = ringbuf_bytes_used(rb0)
         /\ Load(rb0, count).out = SubSeq(Contents(rb0), 1, count)
         /\ Contents(ringbuf_memcpy_from(rb0, count)) =
               SubSeq(Contents(rb0), count + 1, Len(Contents(rb0)))
<1> DEFINE D == Copied(z, S, rb0, count)
           base == [r |-> rb0, out |-> <<>>]
           step == [s \in D |-> LoadChunk(s, count)]
           u == ringbuf_bytes_used(rb0)
<1>1. count \in 0 .. u /\ count \in Nat /\ u \in 0 .. z - 1 /\ rb0.head \in 0 .. z - 1
  BY RingSizes
<1>2. base \in D
  BY <1>1 DEF Copied
<1>3. step \in [D -> D]
  <2>1. ASSUME NEW s \in D PROVE LoadChunk(s, count) \in D
    BY LoadChunkStep
  <2> QED
    BY <2>1
<1>4. PICK g : Iterates(g, count, D, base, step)
  <2> HIDE DEF D, base, step
  <2> QED
    BY <1>1, <1>2, <1>3, LoopExists
<1>5. g = [k \in 0 .. count |-> IF k = 0 THEN base ELSE LoadChunk(g[k - 1], count)]
  <2>1. ASSUME NEW k \in 0 .. count, k # 0
        PROVE  g[k] = LoadChunk(g[k - 1], count)
    <3> HIDE DEF D, base, step
    <3>1. g[k - 1] \in D /\ g[k] = step[g[k - 1]]
      BY <1>1, <1>4, <2>1 DEF Iterates
    <3> QED
      BY <3>1 DEF step
  <2> HIDE DEF D, base, step
  <2>2. g \in [0 .. count -> D] /\ g[0] = base
    BY <1>4 DEF Iterates
  <2>3. \A k \in 0 .. count : g[k] = IF k = 0 THEN base ELSE LoadChunk(g[k - 1], count)
    BY <2>1, <2>2
  <2>4. g = [k \in 0 .. count |-> g[k]]
    BY <2>2
  <2> QED
    BY <2>3, <2>4
<1> DEFINE f == CHOOSE h : h = [k \in 0 .. count |-> IF k = 0 THEN base ELSE LoadChunk(h[k - 1], count)]
<1>6. f = [k \in 0 .. count |-> IF k = 0 THEN base ELSE LoadChunk(f[k - 1], count)]
  BY <1>5
<1>7. Load(rb0, count) = f[count]
  BY DEF Load
<1> HIDE DEF f
<1> DEFINE T == {k \in Nat : k <= count => f[k] \in D /\ Len(f[k].out) >= k}
<1>8. 0 \in T
  <2>1. f[0] = base /\ Len(base.out) = 0
    BY <1>1, <1>6
  <2> HIDE DEF D, base
  <2> QED
    BY <1>2, <2>1
<1>9. ASSUME NEW k \in Nat, k \in T
      PROVE  k + 1 \in T
  <2> SUFFICES ASSUME k + 1 <= count
               PROVE  f[k + 1] \in D /\ Len(f[k + 1].out) >= k + 1
    OBVIOUS
  <2>1. f[k] \in D /\ Len(f[k].out) >= k
    BY <1>1, <1>9
  <2>2. f[k + 1] = LoadChunk(f[k], count)
    BY <1>1, <1>6
  <2>3. /\ f[k + 1] \in D
        /\ Len(f[k + 1].out) >= Len(f[k].out)
        /\ Len(f[k].out) < count => Len(f[k + 1].out) > Len(f[k].out)
    BY <2>1, <2>2, LoadChunkStep
  <2>4. Len(f[k].out) \in 0 .. count /\ Len(f[k + 1].out) \in 0 .. count
    BY <2>1, <2>3 DEF Copied
  <2> HIDE DEF D
  <2> QED
    BY <1>1, <2>1, <2>3, <2>4
<1> HIDE DEF T
<1>10. count \in T
  BY <1>1, <1>8, <1>9, NumberInduction
<1> DEFINE r == f[count].r
           o == f[count].out
<1>11. /\ r \in Rings(z, S) /\ r.head = rb0.head /\ r.buf = rb0.buf
       /\ o \in Seq(S) /\ Len(o) = count
       /\ ringbuf_bytes_used(r) = u - count
       /\ \A i \in 1 .. count : o[i] = Contents(rb0)[i]
  <2>1. f[count] \in D /\ Len(f[count].out) >= count
    BY <1>1, <1>10 DEF T
  <2> QED
    BY <1>1, <2>1 DEF Copied
<1>12. ringbuf_memcpy_from(rb0, count) = r /\ Load(rb0, count).out = o
  BY <1>7 DEF ringbuf_memcpy_from
<1> HIDE DEF r, o, u
<1>13. /\ Contents(rb0) \in Seq(S) /\ Len(Contents(rb0)) = u
       /\ \A i \in 1 .. u : Contents(rb0)[i] = rb0.buf[Behind(z, rb0.head, u - i + 1)]
  BY ContentsAre DEF u
<1>14. /\ Contents(r) \in Seq(S) /\ Len(Contents(r)) = u - count
       /\ \A i \in 1 .. u - count :
             Contents(r)[i] = r.buf[Behind(z, r.head, u - count - i + 1)]
  BY <1>11, ContentsAre
<1>15. \A i \in 1 .. u - count : Contents(r)[i] = Contents(rb0)[i + count]
  <2> TAKE i \in 1 .. u - count
  <2>1. i + count \in 1 .. u /\ u - (i + count) + 1 = u - count - i + 1
    BY <1>1
  <2>2. Contents(rb0)[i + count] = rb0.buf[Behind(z, rb0.head, u - (i + count) + 1)]
    BY <1>13, <2>1
  <2>3. Contents(r)[i] = r.buf[Behind(z, r.head, u - count - i + 1)]
    BY <1>14
  <2> QED
    BY <1>11, <2>1, <2>2, <2>3
<1>16. o = SubSeq(Contents(rb0), 1, count)
  <2> DEFINE p == SubSeq(Contents(rb0), 1, count)
  <2>1. p \in Seq(S) /\ Len(p) = count /\ \A i \in 1 .. count : p[i] = Contents(rb0)[i]
    BY <1>1, <1>13, SubSeqProperties
  <2> HIDE DEF p
  <2> QED
    BY <1>11, <2>1, SeqEqual DEF p
<1>17. Contents(r) = SubSeq(Contents(rb0), count + 1, u)
  <2> DEFINE p == SubSeq(Contents(rb0), count + 1, u)
  <2>1. /\ p \in Seq(S) /\ Len(p) = u - count
        /\ \A i \in 1 .. u - count : p[i] = Contents(rb0)[i + count]
    BY <1>1, <1>13, SubSeqProperties
  <2> HIDE DEF p
  <2> QED
    BY <1>14, <1>15, <2>1, SeqEqual DEF p
<1> QED
  BY <1>1, <1>11, <1>12, <1>13, <1>16, <1>17 DEF u

-----------------------------------------------------------------------------
(* The ring buffer implements ByteQueue. *)

Size == Capacity + 1

\* The pointers stay inside the buffer, which keeps its size.
RingOK == rb \in Rings(Size, Byte)

LEMMA SizeOK == Size \in Nat \ {0} /\ Size - 1 = Capacity
BY RingAssumption DEF Size

\* An empty ring stands for an empty queue.
LEMMA EmptyRing ==
  ASSUME NEW z \in Nat \ {0}, NEW S, NEW r \in Rings(z, S), r.head = r.tail
  PROVE  ringbuf_bytes_used(r) = 0 /\ Contents(r) = <<>>
<1>1. ringbuf_bytes_used(r) = Filled(z, r.head, r.tail) /\ r.head \in 0 .. z - 1
  BY RingSizes
<1>2. ringbuf_bytes_used(r) = 0
  BY <1>1 DEF Filled
<1>3. Contents(r) \in Seq(S) /\ Len(Contents(r)) = 0
  BY <1>2, ContentsAre
<1> QED
  BY <1>2, <1>3

\* A new ring is empty.
LEMMA NewRing ==
  ASSUME NEW capacity \in Nat, NEW S, NEW zero \in S
  PROVE  /\ ringbuf_new(capacity, zero) \in Rings(capacity + 1, S)
         /\ ringbuf_bytes_used(ringbuf_new(capacity, zero)) = 0
         /\ Contents(ringbuf_new(capacity, zero)) = <<>>
<1> DEFINE r == ringbuf_new(capacity, zero)
           b == [i \in 0 .. capacity |-> zero]
<1>1. r = [size |-> capacity + 1, buf |-> b, head |-> 0, tail |-> 0]
  BY DEF ringbuf_new
<1>2. b \in [0 .. capacity + 1 - 1 -> S]
  OBVIOUS
<1> HIDE DEF r, b
<1>3. 0 \in 0 .. capacity + 1 - 1
  OBVIOUS
<1>4. r \in Rings(capacity + 1, S) /\ r.head = r.tail
  BY <1>1, <1>2, <1>3 DEF Rings
<1>5. capacity + 1 \in Nat \ {0}
  OBVIOUS
<1> QED
  BY <1>4, <1>5, EmptyRing DEF r

\* Writing into the ring is writing to the queue.
LEMMA WriteIs ==
  ASSUME RingOK, NEW src \in Seq(Byte)
  PROVE  /\ ringbuf_memcpy_into(rb, src) \in Rings(Size, Byte)
         /\ Contents(ringbuf_memcpy_into(rb, src)) =
               Queue!Newest(Contents(rb) \o src, Capacity)
<1> DEFINE r == ringbuf_memcpy_into(rb, src)
           all == Joined(rb, src)
<1>1. /\ r \in Rings(Size, Byte)
      /\ Len(all) \in Nat
      /\ Len(all) < Size => Contents(r) = all
      /\ Len(all) >= Size => Contents(r) = SubSeq(all, Len(all) - (Size - 1) + 1, Len(all))
  BY SizeOK, MemcpyInto DEF RingOK, Joined
<1> HIDE DEF r, all
<1>2. Len(all) <= Capacity <=> Len(all) < Size
  BY <1>1, SizeOK
<1>3. Contents(r) = Queue!Newest(all, Capacity)
  <2>1. CASE Len(all) <= Capacity
    BY <1>1, <1>2, <2>1 DEF Queue!Newest
  <2>2. CASE ~(Len(all) <= Capacity)
    <3>1. Len(all) >= Size /\ Size - 1 = Capacity
      BY <1>1, <1>2, <2>2, SizeOK
    <3>2. Contents(r) = SubSeq(all, Len(all) - Capacity + 1, Len(all))
      BY <1>1, <3>1
    <3> QED
      BY <2>2, <3>2 DEF Queue!Newest
  <2> QED
    BY <2>1, <2>2
<1> QED
  BY <1>1, <1>3 DEF r, all, Joined

\* A memset writes no more than a full buffer, which leaves what the whole write would.
LEMMA MemsetIs ==
  ASSUME RingOK, NEW c \in Byte, NEW len \in Nat, NEW src, src = [i \in 1 .. len |-> c]
  PROVE  /\ ringbuf_memset(rb, c, len) \in Rings(Size, Byte)
         /\ Contents(ringbuf_memset(rb, c, len)) =
               Queue!Newest(Contents(rb) \o src, Capacity)
<1> DEFINE count == IF len < Size THEN len ELSE Size
           some == [i \in 1 .. count |-> c]
<1>1. rb.size = Size /\ count \in Nat /\ Size \in Nat \ {0} /\ Capacity \in Nat
  BY SizeOK, RingAssumption DEF RingOK, Rings
<1>2. some \in Seq(Byte) /\ Len(some) = count /\ src \in Seq(Byte) /\ Len(src) = len
  BY <1>1
<1>3. ringbuf_memset(rb, c, len) = ringbuf_memcpy_into(rb, some)
  BY <1>1, <1>2 DEF ringbuf_memset, ringbuf_memcpy_into
<1>4. /\ ringbuf_memset(rb, c, len) \in Rings(Size, Byte)
      /\ Contents(ringbuf_memset(rb, c, len)) = Queue!Newest(Contents(rb) \o some, Capacity)
  BY <1>2, <1>3, WriteIs
<1>5. CASE len < Size
  BY <1>4, <1>5
<1>6. CASE ~(len < Size)
  <2> DEFINE Padded(s) == Contents(rb) \o s
             p == Padded(some)
             q == Padded(src)
             u == Len(Contents(rb))
  <2>1. Contents(rb) \in Seq(Byte) /\ u \in Nat
    BY SizeOK, ContentsAre DEF RingOK
  <2>2. count = Size /\ Size = Capacity + 1
    BY <1>6 DEF Size
  <2> HIDE DEF count
  <2>3. /\ p \in Seq(Byte) /\ Len(p) = u + Size
        /\ \A i \in u + 1 .. u + Size : p[i] = c
    BY <1>1, <1>2, <2>1, <2>2, ConcatProperties
  <2>4. /\ q \in Seq(Byte) /\ Len(q) = u + len
        /\ \A i \in u + 1 .. u + len : q[i] = c
    BY <1>1, <1>2, <2>1, ConcatProperties
  <2> HIDE DEF some, p, q, u
  <2> DEFINE p1 == SubSeq(p, u + Size - Capacity + 1, u + Size)
             q1 == SubSeq(q, u + len - Capacity + 1, u + len)
  <2>5. p1 \in Seq(Byte) /\ Len(p1) = Capacity /\ \A i \in 1 .. Capacity : p1[i] = c
    <3>1. /\ u + Size - Capacity + 1 \in 1 .. u + Size + 1
          /\ \A i \in 1 .. Capacity : u + Size - Capacity + i \in u + 1 .. u + Size
      BY <1>1, <2>1, <2>2
    <3> QED
      BY <1>1, <2>1, <2>3, <3>1, SubSeqProperties
  <2>6. q1 \in Seq(Byte) /\ Len(q1) = Capacity /\ \A i \in 1 .. Capacity : q1[i] = c
    <3>1. /\ u + len - Capacity + 1 \in 1 .. u + len + 1
          /\ \A i \in 1 .. Capacity : u + len - Capacity + i \in u + 1 .. u + len
      BY <1>1, <1>6, <2>1, <2>2
    <3> QED
      BY <1>1, <2>1, <2>4, <3>1, SubSeqProperties
  <2> HIDE DEF p1, q1
  <2>7. p1 = q1
    BY <2>5, <2>6, SeqEqual
  <2>8. Queue!Newest(p, Capacity) = p1 /\ Queue!Newest(q, Capacity) = q1
    BY <1>1, <1>6, <2>1, <2>2, <2>3, <2>4 DEF Queue!Newest, p1, q1
  <2> QED
    BY <1>4, <2>7, <2>8 DEF p, q
<1> QED
  BY <1>5, <1>6

\* Every operation of the ring buffer is an operation of the queue.
LEMMA RingStep ==
  ASSUME RingOK, [RingNext]_ringVars
  PROVE  RingOK' /\ [Queue!Next]_(Queue!vars)
<1>1. CASE UNCHANGED ringVars
  BY <1>1 DEF RingOK, ringVars, Queue!vars, Contents, Size
<1>2. ASSUME NEW n \in 0 .. MaxWrite, NEW src \in [1 .. n -> Byte], memcpy_into(src)
      PROVE  RingOK' /\ Queue!Write(src) /\ src \in Queue!Writes
  <2>1. src \in Seq(Byte) /\ n \in Nat
    BY RingAssumption
  <2>2. src \in Queue!Writes
    BY DEF Queue!Writes
  <2> QED
    BY <1>2, <2>1, <2>2, WriteIs DEF memcpy_into, RingOK, Queue!Write
<1>3. ASSUME NEW c \in Byte, NEW n \in 0 .. MaxWrite, memset(c, n)
      PROVE  RingOK' /\ \E src \in Queue!Writes : Queue!Write(src)
  <2> DEFINE src == [i \in 1 .. n |-> c]
  <2>1. n \in Nat
    BY RingAssumption
  <2>2. src \in Queue!Writes
    <3>1. src \in [1 .. n -> Byte]
      OBVIOUS
    <3> QED
      BY <3>1 DEF Queue!Writes
  <2>3. io' = src /\ rb' = ringbuf_memset(rb, c, n)
    BY <1>3 DEF memset
  <2>4. /\ ringbuf_memset(rb, c, n) \in Rings(Size, Byte)
        /\ Contents(ringbuf_memset(rb, c, n)) = Queue!Newest(Contents(rb) \o src, Capacity)
    BY <2>1, MemsetIs
  <2> HIDE DEF src
  <2>5. RingOK' /\ Queue!Write(src)
    BY <2>3, <2>4 DEF RingOK, Queue!Write
  <2> QED
    BY <2>2, <2>5
<1>4. ASSUME NEW n \in 0 .. Capacity, memcpy_from(n)
      PROVE  RingOK' /\ Queue!Read(n)
  <2>1. /\ ringbuf_bytes_used(rb) \in Nat
        /\ Len(Contents(rb)) = ringbuf_bytes_used(rb)
    BY SizeOK, RingSizes, ContentsAre DEF RingOK
  <2>2. n \in 0 .. ringbuf_bytes_used(rb) /\ n <= Len(Contents(rb))
    BY <1>4, <2>1, RingAssumption DEF memcpy_from
  <2>3. /\ ringbuf_memcpy_from(rb, n) \in Rings(Size, Byte)
        /\ Load(rb, n).out = SubSeq(Contents(rb), 1, n)
        /\ Contents(ringbuf_memcpy_from(rb, n)) =
              SubSeq(Contents(rb), n + 1, Len(Contents(rb)))
    BY <2>2, SizeOK, MemcpyFrom DEF RingOK
  <2> QED
    BY <1>4, <2>2, <2>3 DEF memcpy_from, RingOK, Queue!Read
<1>5. ASSUME reset
      PROVE  RingOK' /\ Queue!Reset
  <2>1. 0 \in 0 .. Size - 1
    BY SizeOK
  <2>2. ringbuf_reset(rb) \in Rings(Size, Byte) /\ ringbuf_reset(rb).head = ringbuf_reset(rb).tail
    BY <2>1 DEF RingOK, Rings, ringbuf_reset
  <2>3. Contents(ringbuf_reset(rb)) = <<>>
    BY <2>2, SizeOK, EmptyRing
  <2> QED
    BY <1>5, <2>2, <2>3 DEF reset, RingOK, Queue!Reset
<1> QED
  BY <1>1, <1>2, <1>3, <1>4, <1>5 DEF RingNext, Queue!Next

\* Whatever the positions of head and tail, the lengths of the writes and the
\* capacity, the chunk loops and the recomputed tail of the ring buffer make a
\* bounded queue that drops its oldest bytes.
THEOREM RingImplementsByteQueue == RingSpec => RefinesByteQueue
<1>1. RingInit => RingOK /\ Queue!Init
  BY RingAssumption, NewRing DEF RingInit, RingOK, Size, Queue!Init
<1>2. RingOK /\ [RingNext]_ringVars => RingOK' /\ [Queue!Next]_(Queue!vars)
  BY RingStep
<1> QED
  BY <1>1, <1>2, PTL DEF RingSpec, RefinesByteQueue, Queue!Spec

-----------------------------------------------------------------------------
(* The receive path. *)

\* A byte of the stream, or the zero a new ring buffer is filled with.
Stream == 0 .. MaxStream

\* What a sequence holds.
Bytes(s) == {s[i] : i \in 1 .. Len(s)}

\* Bytes up to m in the order of the stream.
Ascending(s, m) == \A i \in 1 .. Len(s) : s[i] <= m /\ \A j \in 1 .. i - 1 : s[j] < s[i]

\* Every byte up to m is in one of the three sequences, and no two of them share it.
Split(s, t, r, m) ==
    /\ Len(s) + Len(t) + Len(r) = m
    /\ 1 .. m \subseteq Bytes(s) \cup Bytes(t) \cup Bytes(r)

\* A held window waits for a callback, and lwIP only keeps data for want of a ring
\* buffer.
HoldOK ==
    /\ manual \/ ~recv_hold_flag => recv_holded_buf_Len = 0
    /\ refused # <<>> => manual /\ readbuf = NULL

\* What the window lacks is waiting somewhere.
CreditOK(wnd, data) ==
    established => TCP_WND - wnd <= Len(Waiting) + Len(data) + recv_holded_buf_Len

\* The application that unholds with bytes in the ring buffer breaks the next two
\* parts; the lemmas hold with them and without them.
Parts == {"intact", "any"}

\* What waits and what the window promises fit into the ring buffer.
RoomOK(wnd, data, part) ==
    part = "intact" => wnd + Len(Waiting) + Len(data) <= TCP_WND

\* The bytes sent are with the application, in the ring buffer or with lwIP, in order
\* where they wait.
StreamOK(data, m, part) ==
    part = "intact" =>
        Split(got, Waiting, data, m) /\ Ascending(Waiting \o data, m)

IInv(part) ==
    /\ TypeOK /\ HoldOK
    /\ CreditOK(rcv_wnd, refused)
    /\ RoomOK(rcv_wnd, refused, part) /\ StreamOK(refused, sent, part)

LEMMA WindowOK == TCP_WND \in Nat /\ TCP_WND + 1 \in Nat \ {0} /\ TCP_WND + 1 - 1 = TCP_WND /\ 0 \in Stream
BY WindowAssumption DEF Stream

\* The ring buffer that there is or will be.
LEMMA RingFacts ==
  ASSUME TypeOK
  PROVE  /\ Ring \in Rings(TCP_WND + 1, Stream)
         /\ Waiting = Contents(Ring)
         /\ Waiting \in Seq(Stream)
         /\ Len(Waiting) = ringbuf_bytes_used(Ring)
         /\ Len(Waiting) \in 0 .. TCP_WND
         /\ readbuf = NULL => Waiting = <<>>
<1>1. Ring \in Rings(TCP_WND + 1, Stream)
  BY WindowOK, NewRing DEF TypeOK, Ring, Stream
<1>2. Waiting = Contents(Ring)
  BY DEF Waiting, Contents
<1>3. /\ Contents(Ring) \in Seq(Stream)
      /\ Len(Contents(Ring)) = ringbuf_bytes_used(Ring)
  BY <1>1, WindowOK, ContentsAre
<1>4. ringbuf_bytes_used(Ring) \in 0 .. TCP_WND
  BY <1>1, WindowOK, RingSizes
<1>5. readbuf = NULL => Contents(Ring) = <<>>
  BY WindowOK, NewRing DEF Ring
<1> QED
  BY <1>1, <1>2, <1>3, <1>4, <1>5

\* After a call the ring buffer is the one that the call left.
LEMMA RingAfter ==
  ASSUME NEW r \in Rings(TCP_WND + 1, Stream), readbuf' = r
  PROVE  Waiting' = Contents(r)
<1>1. r # NULL
  BY NullAssumption DEF Stream
<1>2. Ring' = r
  BY <1>1 DEF Ring
<1> QED
  BY <1>2 DEF Waiting, Contents

\* Data that fits is stored behind what waits; data that does not leaves a full buffer.
LEMMA RingTakes ==
  ASSUME TypeOK, NEW data \in Seq(Stream), readbuf' = ringbuf_memcpy_into(Ring, data)
  PROVE  /\ readbuf' \in Rings(TCP_WND + 1, Stream)
         /\ Waiting' \in Seq(Stream)
         /\ Len(Waiting) + Len(data) <= TCP_WND => Waiting' = Waiting \o data
         /\ Len(Waiting) + Len(data) > TCP_WND => Len(Waiting') = TCP_WND
<1> DEFINE z == TCP_WND + 1
           r == ringbuf_memcpy_into(Ring, data)
           all == Joined(Ring, data)
<1>1. /\ Ring \in Rings(z, Stream)
      /\ Waiting = Contents(Ring) /\ Waiting \in Seq(Stream)
  BY RingFacts
<1>2. z \in Nat \ {0} /\ z - 1 = TCP_WND /\ TCP_WND \in Nat
  BY WindowOK
<1>3. Len(all) = Len(Waiting) + Len(data) /\ Len(Waiting) \in Nat /\ Len(data) \in Nat
  BY <1>1, ConcatProperties DEF Joined
<1>4. /\ r \in Rings(z, Stream)
      /\ Len(all) < z => Contents(r) = all
      /\ Len(all) >= z => ringbuf_is_full(r)
  <2> HIDE DEF z
  <2> QED
    BY <1>1, <1>2, MemcpyInto
<1>5. Contents(r) \in Seq(Stream) /\ Len(Contents(r)) = ringbuf_bytes_used(r)
  <2> HIDE DEF z, r
  <2> QED
    BY <1>2, <1>4, ContentsAre
<1>6. ringbuf_is_full(r) => ringbuf_bytes_used(r) = TCP_WND
  <2> HIDE DEF z, r
  <2>1. ringbuf_bytes_free(r) = z - 1 - ringbuf_bytes_used(r) /\ ringbuf_bytes_used(r) \in 0 .. z - 1
    BY <1>2, <1>4, RingSizes
  <2> QED
    BY <1>2, <2>1 DEF ringbuf_is_full
<1> HIDE DEF r
<1>7. Waiting' = Contents(r) /\ readbuf' = r
  BY <1>4, RingAfter DEF r
<1> HIDE DEF all
<1>8. Len(all) < z <=> Len(Waiting) + Len(data) <= TCP_WND
  BY <1>2, <1>3
<1>9. Len(all) >= z <=> Len(Waiting) + Len(data) > TCP_WND
  BY <1>2, <1>3
<1> QED
  BY <1>1, <1>4, <1>5, <1>6, <1>7, <1>8, <1>9 DEF all, Joined

\* lwIP's tcp_recved never shrinks the window, and opens it to its size at most.
LEMMA Recved ==
  ASSUME NEW wnd \in 0 .. TCP_WND, NEW len \in Nat
  PROVE  /\ tcp_recved(wnd, len) \in 0 .. TCP_WND
         /\ tcp_recved(wnd, len) <= wnd + len
         /\ tcp_recved(wnd, len) = TCP_WND \/ tcp_recved(wnd, len) = wnd + len
BY WindowAssumption DEF tcp_recved

\* espconn_lock_recv starts to count from zero, and holds if there is no callback.
LEMMA LockedIs ==
  ASSUME TypeOK, HoldOK
  PROVE  /\ Locked.len = recv_holded_buf_Len
         /\ Locked.flag \in BOOLEAN
         /\ ~Locked.flag => ~recv_hold_flag
         /\ ~recv_callback => Locked.flag
<1>1. CASE ~recv_callback /\ ~recv_hold_flag
  BY <1>1 DEF Locked, HoldOK
<1>2. CASE ~(~recv_callback /\ ~recv_hold_flag)
  BY <1>2 DEF Locked, TypeOK
<1> QED
  BY <1>1, <1>2

\* What two sequences hold, their concatenation holds.
LEMMA BytesJoined ==
  ASSUME NEW S, NEW s \in Seq(S), NEW t \in Seq(S)
  PROVE  /\ s \o t \in Seq(S)
         /\ Len(s \o t) = Len(s) + Len(t)
         /\ Bytes(s \o t) = Bytes(s) \cup Bytes(t)
<1>1. /\ s \o t \in Seq(S)
      /\ Len(s \o t) = Len(s) + Len(t)
      /\ \A i \in 1 .. Len(s) + Len(t) :
            (s \o t)[i] = IF i <= Len(s) THEN s[i] ELSE t[i - Len(s)]
      /\ Len(s) \in Nat /\ Len(t) \in Nat
  BY ConcatProperties
<1>2. ASSUME NEW i \in 1 .. Len(s \o t)
      PROVE  (s \o t)[i] \in Bytes(s) \cup Bytes(t)
  <2>1. CASE i <= Len(s)
    BY <1>1, <2>1 DEF Bytes
  <2>2. CASE ~(i <= Len(s))
    <3>1. i - Len(s) \in 1 .. Len(t) /\ (s \o t)[i] = t[i - Len(s)]
      BY <1>1, <2>2
    <3> QED
      BY <3>1 DEF Bytes
  <2> QED
    BY <2>1, <2>2
<1>3. ASSUME NEW i \in 1 .. Len(s)
      PROVE  s[i] \in Bytes(s \o t)
  <2>1. i \in 1 .. Len(s \o t) /\ (s \o t)[i] = s[i]
    BY <1>1
  <2> QED
    BY <2>1 DEF Bytes
<1>4. ASSUME NEW i \in 1 .. Len(t)
      PROVE  t[i] \in Bytes(s \o t)
  <2>1. /\ Len(s) + i \in 1 .. Len(s \o t)
        /\ (s \o t)[Len(s) + i] = t[i]
    BY <1>1
  <2> QED
    BY <2>1 DEF Bytes
<1>5. Bytes(s \o t) \subseteq Bytes(s) \cup Bytes(t)
  BY <1>2 DEF Bytes
<1>6. Bytes(s) \subseteq Bytes(s \o t) /\ Bytes(t) \subseteq Bytes(s \o t)
  BY <1>3, <1>4 DEF Bytes
<1> QED
  BY <1>1, <1>5, <1>6

Oldest(s, n) == SubSeq(s, 1, n)
Rest(s, n) == SubSeq(s, n + 1, Len(s))

\* A sequence cut in two keeps its bytes and their order.
LEMMA BytesCut ==
  ASSUME NEW S, NEW s \in Seq(S), NEW n \in 0 .. Len(s), NEW m \in Nat, S \subseteq Nat
  PROVE  /\ Oldest(s, n) \in Seq(S) /\ Rest(s, n) \in Seq(S)
         /\ Len(Oldest(s, n)) = n /\ Len(Rest(s, n)) = Len(s) - n
         /\ Bytes(s) \subseteq Bytes(Oldest(s, n)) \cup Bytes(Rest(s, n))
         /\ Ascending(s, m) => Ascending(Rest(s, n), m)
<1> DEFINE a == Oldest(s, n)
           b == Rest(s, n)
           L == Len(s)
<1>1. L \in Nat /\ n \in 0 .. L /\ \A i \in 1 .. L : s[i] \in S
  OBVIOUS
<1>2. a \in Seq(S) /\ Len(a) = n /\ \A i \in 1 .. n : a[i] = s[i]
  BY <1>1, SubSeqProperties DEF Oldest
<1>3. b \in Seq(S) /\ Len(b) = L - n /\ \A i \in 1 .. L - n : b[i] = s[n + i]
  <2>1. \A i \in n + 1 .. L : s[i] \in S
    BY <1>1
  <2>2. /\ b \in Seq(S)
        /\ Len(b) = IF n + 1 <= L THEN L - (n + 1) + 1 ELSE 0
        /\ \A i \in 1 .. L - (n + 1) + 1 : b[i] = s[n + 1 + i - 1]
    <3> HIDE DEF L
    <3>1. n + 1 \in Int /\ L \in Int
      BY <1>1
    <3> QED
      BY <2>1, <3>1, SubSeqProperties DEF L, Rest
  <2>3. L - (n + 1) + 1 = L - n /\ \A i \in 1 .. L - n : n + 1 + i - 1 = n + i
    BY <1>1
  <2>4. Len(b) = L - n
    BY <1>1, <2>2
  <2>5. \A i \in 1 .. L - n : b[i] = s[n + i]
    BY <2>2, <2>3
  <2> QED
    BY <2>2, <2>4, <2>5
<1> HIDE DEF a, b, L
<1>4. ASSUME NEW i \in 1 .. L
      PROVE  s[i] \in Bytes(a) \cup Bytes(b)
  <2>1. CASE i <= n
    BY <1>1, <1>2, <2>1 DEF Bytes
  <2>2. CASE ~(i <= n)
    <3>1. i - n \in 1 .. L - n /\ n + (i - n) = i
      BY <1>1, <2>2
    <3>2. b[i - n] = s[i] /\ i - n \in 1 .. Len(b)
      BY <1>3, <3>1
    <3> QED
      BY <3>2 DEF Bytes
  <2> QED
    BY <2>1, <2>2
<1>5. ASSUME Ascending(s, m)
      PROVE  Ascending(b, m)
  <2>1. ASSUME NEW i \in 1 .. L - n
        PROVE  b[i] <= m /\ \A j \in 1 .. i - 1 : b[j] < b[i]
    <3>1. n + i \in 1 .. L /\ b[i] = s[n + i]
      BY <1>1, <1>3
    <3>2. ASSUME NEW j \in 1 .. i - 1 PROVE b[j] < b[i]
      <4>1. n + j \in 1 .. (n + i) - 1 /\ j \in 1 .. L - n
        BY <1>1
      <4>2. b[j] = s[n + j]
        BY <1>3, <4>1
      <4> QED
        BY <1>5, <3>1, <4>1, <4>2 DEF Ascending, L
    <3>3. s[n + i] <= m
      BY <1>5, <3>1 DEF Ascending, L
    <3> QED
      BY <3>1, <3>2, <3>3
  <2> QED
    BY <1>3, <2>1 DEF Ascending
<1> QED
  BY <1>2, <1>3, <1>4, <1>5 DEF a, b, L, Bytes

\* What comes first in an ordered sequence is ordered.
LEMMA PrefixAscends ==
  ASSUME NEW s \in Seq(Stream), NEW t \in Seq(Stream), NEW m \in Nat, Ascending(s \o t, m)
  PROVE  Ascending(s, m)
<1>1. /\ Len(s \o t) = Len(s) + Len(t) /\ Len(s) \in Nat /\ Len(t) \in Nat
      /\ \A i \in 1 .. Len(s) : (s \o t)[i] = s[i]
  BY ConcatProperties
<1>2. ASSUME NEW i \in 1 .. Len(s)
      PROVE  s[i] <= m /\ \A j \in 1 .. i - 1 : s[j] < s[i]
  <2>1. i \in 1 .. Len(s \o t) /\ \A j \in 1 .. i - 1 : j \in 1 .. Len(s)
    BY <1>1
  <2> QED
    BY <1>1, <2>1 DEF Ascending
<1> QED
  BY <1>2 DEF Ascending

\* The n bytes of the stream that follow the first m.
Following(m, n) == [i \in 1 .. n |-> m + i]

\* They come behind all bytes up to m.
LEMMA StreamGoesOn ==
  ASSUME NEW s \in Seq(Stream), NEW m \in Nat, NEW n \in Nat, m + n <= MaxStream,
         Ascending(s, m)
  PROVE  /\ Following(m, n) \in Seq(Stream) /\ Len(Following(m, n)) = n
         /\ m + 1 .. m + n \subseteq Bytes(Following(m, n))
         /\ Ascending(s \o Following(m, n), m + n)
<1> DEFINE data == Following(m, n)
<1>1. data \in Seq(Stream) /\ Len(data) = n /\ \A i \in 1 .. n : data[i] = m + i
  BY WindowAssumption DEF Stream, Following
<1> HIDE DEF data
<1>2. ASSUME NEW b \in m + 1 .. m + n PROVE b \in Bytes(data)
  <2>1. b - m \in 1 .. Len(data) /\ data[b - m] = b
    BY <1>1
  <2> QED
    BY <2>1 DEF Bytes
<1>3. /\ Len(s \o data) = Len(s) + n /\ Len(s) \in Nat
      /\ \A i \in 1 .. Len(s) : (s \o data)[i] = s[i]
      /\ \A i \in Len(s) + 1 .. Len(s) + n : (s \o data)[i] = m + (i - Len(s))
  <2>0. data \in Seq(Stream)
    BY <1>1
  <2>4. /\ Len(s \o data) = Len(s) + Len(data)
        /\ \A i \in 1 .. Len(s) + Len(data) :
              (s \o data)[i] = IF i <= Len(s) THEN s[i] ELSE data[i - Len(s)]
    BY <2>0, ConcatProperties, Zenon
  <2>5. Len(s) \in Nat
    OBVIOUS
  <2>1. /\ Len(s \o data) = Len(s) + Len(data) /\ Len(s) \in Nat
        /\ \A i \in 1 .. Len(s) + Len(data) :
              (s \o data)[i] = IF i <= Len(s) THEN s[i] ELSE data[i - Len(s)]
    BY <2>4, <2>5, Zenon
  <2>2. ASSUME NEW i \in Len(s) + 1 .. Len(s) + n
        PROVE  (s \o data)[i] = m + (i - Len(s))
    <3>1. i \in 1 .. Len(s) + Len(data) /\ ~(i <= Len(s)) /\ i - Len(s) \in 1 .. n
      BY <1>1, <2>1
    <3>2. (s \o data)[i] = data[i - Len(s)]
      BY <2>1, <3>1
    <3> QED
      BY <1>1, <3>1, <3>2
  <2>3. ASSUME NEW i \in 1 .. Len(s) PROVE (s \o data)[i] = s[i]
    <3>1. i \in 1 .. Len(s) + Len(data) /\ i <= Len(s)
      BY <1>1, <2>1
    <3> QED
      BY <2>1, <3>1
  <2> QED
    BY <1>1, <2>1, <2>2, <2>3
<1>4. \A i \in 1 .. Len(s) : s[i] \in Nat /\ s[i] <= m
  <2>1. \A i \in 1 .. Len(s) : s[i] \in Stream
    OBVIOUS
  <2>2. \A b \in Stream : b \in Nat
    BY WindowAssumption DEF Stream
  <2> QED
    BY <2>1, <2>2 DEF Ascending
<1>5. ASSUME NEW i \in 1 .. Len(s) + n
      PROVE  /\ (s \o data)[i] <= m + n
             /\ \A j \in 1 .. i - 1 : (s \o data)[j] < (s \o data)[i]
  <2>1. CASE i <= Len(s)
    <3>1. i \in 1 .. Len(s) /\ (s \o data)[i] = s[i] /\ s[i] \in Nat /\ s[i] <= m
      BY <1>3, <1>4, <2>1
    <3>2. ASSUME NEW j \in 1 .. i - 1 PROVE (s \o data)[j] < (s \o data)[i]
      <4>1. j \in 1 .. Len(s)
        BY <1>3, <2>1
      <4>2. (s \o data)[j] = s[j] /\ s[j] < s[i]
        BY <1>3, <3>1, <4>1 DEF Ascending
      <4> QED
        BY <3>1, <4>2
    <3>3. s[i] <= m + n
      BY <3>1
    <3> QED
      BY <3>1, <3>2, <3>3
  <2>2. CASE ~(i <= Len(s))
    <3>1. (s \o data)[i] = m + (i - Len(s)) /\ i - Len(s) \in 1 .. n
      <4>1. Len(s) \in Nat
        OBVIOUS
      <4>2. i \in Len(s) + 1 .. Len(s) + n /\ i - Len(s) \in 1 .. n
        BY <2>2, <4>1
      <4> QED
        BY <1>3, <4>2
    <3>2. ASSUME NEW j \in 1 .. i - 1 PROVE (s \o data)[j] < m + (i - Len(s))
      <4>1. CASE j <= Len(s)
        <5>1. j \in 1 .. Len(s)
          BY <1>3, <4>1
        <5>2. (s \o data)[j] = s[j] /\ s[j] \in Nat /\ s[j] <= m
          BY <1>3, <1>4, <5>1
        <5>3. m + (i - Len(s)) \in Nat /\ m < m + (i - Len(s))
          BY <3>1
        <5> QED
          BY <5>2, <5>3
      <4>2. CASE ~(j <= Len(s))
        <5>1. j \in Len(s) + 1 .. Len(s) + n /\ j < i
          BY <1>3, <4>2
        <5>2. (s \o data)[j] = m + (j - Len(s))
          BY <1>3, <5>1
        <5>3. m + (j - Len(s)) < m + (i - Len(s))
          BY <1>3, <5>1
        <5> QED
          BY <5>2, <5>3
      <4> QED
        BY <4>1, <4>2
    <3>3. m + (i - Len(s)) <= m + n
      BY <3>1
    <3> QED
      BY <3>1, <3>2, <3>3
  <2> QED
    BY <2>1, <2>2
<1>6. Ascending(s \o data, m + n)
  BY <1>3, <1>5 DEF Ascending
<1> QED
  BY <1>1, <1>2, <1>6 DEF data

\* Data passed on from lwIP is not lost.
LEMMA SplitMoves ==
  ASSUME NEW s \in Seq(Stream), NEW t \in Seq(Stream), NEW data \in Seq(Stream),
         NEW m \in Nat, Split(s, t, data, m)
  PROVE  Split(s, t \o data, <<>>, m) /\ Split(s \o data, t, <<>>, m)
<1>1. Len(t \o data) = Len(t) + Len(data) /\ Bytes(t \o data) = Bytes(t) \cup Bytes(data)
  BY BytesJoined
<1>2. Len(s \o data) = Len(s) + Len(data) /\ Bytes(s \o data) = Bytes(s) \cup Bytes(data)
  BY BytesJoined
<1>3. Len(s) \in Nat /\ Len(t) \in Nat /\ Len(data) \in Nat
  OBVIOUS
<1> QED
  BY <1>1, <1>2, <1>3 DEF Split

\* The state in which lwIP offers data, with wnd left of the window and m bytes sent.
Offered(data, wnd, m, part) ==
    /\ TypeOK /\ HoldOK
    /\ data \in Seq(Stream) /\ wnd \in 0 .. TCP_WND /\ m \in Stream
    /\ CreditOK(wnd, data) /\ RoomOK(wnd, data, part) /\ StreamOK(data, m, part)

LEMMA SizesOK ==
  ASSUME TypeOK
  PROVE  /\ Len(Waiting) \in 0 .. TCP_WND /\ Waiting \in Seq(Stream)
         /\ got \in Seq(Stream) /\ recv_holded_buf_Len \in Nat /\ TCP_WND \in Nat
         /\ Len(<<>>) = 0 /\ <<>> \in Seq(Stream) /\ Waiting \o <<>> = Waiting
<1>1. Waiting \in Seq(Stream) /\ Len(Waiting) \in 0 .. TCP_WND
  BY RingFacts
<1>2. Waiting \o <<>> = Waiting
  BY <1>1, ConcatEmptySeq
<1> QED
  BY <1>1, <1>2, WindowOK DEF TypeOK, Stream

\* Data for which the bytes that wait leave room is stored in the order of the stream.
LEMMA StoredOK ==
  ASSUME NEW part \in Parts, NEW data \in Seq(Stream), NEW wnd, NEW m \in Stream,
         Offered(data, wnd, m, part),
         readbuf' = ringbuf_memcpy_into(Ring, data), refused' = <<>>,
         established' = established, got' = got, rcv_wnd' = wnd, sent' = m,
         recv_holded_buf_Len' \in Nat, recv_holded_buf_Len' >= recv_holded_buf_Len
  PROVE  /\ readbuf' \in Rings(TCP_WND + 1, Stream)
         /\ CreditOK(rcv_wnd, refused)' /\ RoomOK(rcv_wnd, refused, part)'
         /\ StreamOK(refused, sent, part)'
<1>1. /\ TypeOK /\ wnd \in 0 .. TCP_WND
      /\ CreditOK(wnd, data) /\ RoomOK(wnd, data, part) /\ StreamOK(data, m, part)
  BY DEF Offered
<1>2. /\ Len(data) \in Nat /\ Len(Waiting) \in 0 .. TCP_WND /\ Waiting \in Seq(Stream)
      /\ got \in Seq(Stream) /\ recv_holded_buf_Len \in Nat /\ TCP_WND \in Nat
      /\ Len(<<>>) = 0
  BY <1>1, SizesOK
<1>3. /\ readbuf' \in Rings(TCP_WND + 1, Stream)
      /\ Waiting' \in Seq(Stream)
      /\ Len(Waiting) + Len(data) <= TCP_WND => Waiting' = Waiting \o data
      /\ Len(Waiting) + Len(data) > TCP_WND => Len(Waiting') = TCP_WND
  BY <1>1, RingTakes
<1>4. Len(Waiting \o data) = Len(Waiting) + Len(data)
  BY <1>2, BytesJoined
<1>5. CreditOK(rcv_wnd, refused)'
  <2>1. CASE Len(Waiting) + Len(data) <= TCP_WND
    BY <1>1, <1>2, <1>3, <1>4, <2>1 DEF CreditOK
  <2>2. CASE Len(Waiting) + Len(data) > TCP_WND
    BY <1>1, <1>2, <1>3, <2>2 DEF CreditOK
  <2> QED
    BY <1>2, <2>1, <2>2
<1>6. ASSUME part = "intact"
      PROVE  /\ wnd + Len(Waiting) + Len(data) <= TCP_WND
             /\ Waiting' = Waiting \o data
  BY <1>1, <1>2, <1>3, <1>6 DEF RoomOK
<1>7. RoomOK(rcv_wnd, refused, part)'
  BY <1>1, <1>2, <1>4, <1>6 DEF RoomOK
<1>8. StreamOK(refused, sent, part)'
  <2> SUFFICES ASSUME part = "intact"
               PROVE  /\ Split(got, Waiting \o data, <<>>, m)
                      /\ Ascending((Waiting \o data) \o <<>>, m)
    BY <1>6 DEF StreamOK, Split, Ascending
  <2>1. Split(got, Waiting, data, m) /\ Ascending(Waiting \o data, m)
    BY <1>1 DEF StreamOK
  <2>2. Split(got, Waiting \o data, <<>>, m)
    BY <1>2, <2>1, SplitMoves DEF Stream
  <2>3. (Waiting \o data) \o <<>> = Waiting \o data
    BY <1>2, BytesJoined, ConcatEmptySeq
  <2> QED
    BY <2>1, <2>2, <2>3
<1> QED
  BY <1>3, <1>5, <1>7, <1>8

\* Whatever takes the data or refuses it, nothing is lost and the window is credited
\* for what the application got.
LEMMA TakesDataOK ==
  ASSUME NEW part \in Parts, NEW data \in Seq(Stream), NEW wnd, NEW m \in Stream,
         Offered(data, wnd, m, part),
         TakesData(data, wnd), sent' = m,
         UNCHANGED <<manual, recv_callback, established>>
  PROVE  IInv(part)'
<1>1. /\ TypeOK /\ HoldOK /\ wnd \in 0 .. TCP_WND
      /\ CreditOK(wnd, data) /\ RoomOK(wnd, data, part) /\ StreamOK(data, m, part)
  BY DEF Offered
<1>2. /\ Len(data) \in Nat /\ Len(Waiting) \in 0 .. TCP_WND /\ Waiting \in Seq(Stream)
      /\ got \in Seq(Stream) /\ recv_holded_buf_Len \in Nat /\ TCP_WND \in Nat
      /\ Len(<<>>) = 0 /\ <<>> \in Seq(Stream) /\ Waiting \o <<>> = Waiting
  BY <1>1, SizesOK
<1>3. /\ manual' \in BOOLEAN /\ recv_callback' \in BOOLEAN /\ established' \in BOOLEAN
      /\ sent' \in 0 .. MaxStream
  BY <1>1 DEF TypeOK, Stream
<1>4. CASE espconn_tcp_recv(data, wnd)
  <2>1. /\ manual /\ readbuf' = ringbuf_memcpy_into(Ring, data)
        /\ rcv_wnd' = wnd /\ refused' = <<>> /\ got' = got
        /\ recv_hold_flag' = recv_hold_flag /\ recv_holded_buf_Len' = recv_holded_buf_Len
    BY <1>4 DEF espconn_tcp_recv, hold
  <2>2. /\ readbuf' \in Rings(TCP_WND + 1, Stream)
        /\ CreditOK(rcv_wnd, refused)' /\ RoomOK(rcv_wnd, refused, part)'
        /\ StreamOK(refused, sent, part)'
    BY <1>2, <2>1, StoredOK
  <2>3. TypeOK'
    BY <1>1, <1>2, <1>3, <2>1, <2>2 DEF TypeOK, Stream
  <2>4. HoldOK'
    BY <1>1, <2>1 DEF HoldOK
  <2> QED
    BY <2>2, <2>3, <2>4 DEF IInv
<1>5. CASE RecvRefused(data, wnd)
  <2>1. /\ manual /\ readbuf = NULL /\ readbuf' = readbuf
        /\ rcv_wnd' = wnd /\ refused' = data /\ got' = got
        /\ recv_hold_flag' = recv_hold_flag /\ recv_holded_buf_Len' = recv_holded_buf_Len
    BY <1>5 DEF RecvRefused, hold
  <2>2. Waiting' = Waiting
    BY <2>1 DEF Waiting, Ring
  <2>3. CreditOK(rcv_wnd, refused)' /\ RoomOK(rcv_wnd, refused, part)'
    BY <1>1, <2>1, <2>2 DEF CreditOK, RoomOK
  <2>4. StreamOK(refused, sent, part)'
    BY <1>1, <2>1, <2>2 DEF StreamOK, Split, Ascending
  <2>5. TypeOK'
    BY <1>1, <1>3, <2>1 DEF TypeOK, Stream
  <2>6. HoldOK'
    BY <1>1, <2>1 DEF HoldOK
  <2> QED
    BY <2>3, <2>4, <2>5, <2>6 DEF IInv
<1>6. CASE espconn_client_recv(data, wnd)
  <2>1. /\ ~manual /\ refused' = <<>>
        /\ recv_hold_flag' = Locked.flag
        /\ rcv_wnd' = Credit(wnd, Len(data), Locked.flag)
        /\ Locked.flag => recv_holded_buf_Len' = Locked.len + Len(data)
        /\ ~Locked.flag => recv_holded_buf_Len' = Locked.len
        /\ recv_callback => got' = got \o data /\ readbuf' = readbuf
        /\ ~recv_callback => readbuf' = ringbuf_memcpy_into(Ring, data) /\ got' = got
    BY <1>6 DEF espconn_client_recv
  <2>2. /\ Locked.len = recv_holded_buf_Len /\ Locked.flag \in BOOLEAN
        /\ ~Locked.flag => ~recv_hold_flag
        /\ ~recv_callback => Locked.flag
    BY <1>1, LockedIs
  <2>3. /\ Locked.flag => rcv_wnd' = wnd /\ recv_holded_buf_Len' = recv_holded_buf_Len + Len(data)
        /\ ~Locked.flag => rcv_wnd' = tcp_recved(wnd, Len(data)) /\ recv_holded_buf_Len' = recv_holded_buf_Len
    BY <2>1, <2>2 DEF Credit
  <2>4. /\ tcp_recved(wnd, Len(data)) \in 0 .. TCP_WND
        /\ tcp_recved(wnd, Len(data)) <= wnd + Len(data)
        /\ tcp_recved(wnd, Len(data)) = TCP_WND \/ tcp_recved(wnd, Len(data)) = wnd + Len(data)
    BY <1>1, <1>2, Recved
  <2>5. /\ rcv_wnd' \in 0 .. TCP_WND /\ recv_holded_buf_Len' \in Nat
        /\ recv_holded_buf_Len' >= recv_holded_buf_Len
    <3>1. CASE Locked.flag
      BY <1>1, <1>2, <2>3, <3>1
    <3>2. CASE ~Locked.flag
      BY <1>2, <2>3, <2>4, <3>2
    <3> QED
      BY <3>1, <3>2
  <2>6. HoldOK'
    <3>1. ~recv_hold_flag' => recv_holded_buf_Len' = 0
      BY <1>1, <2>1, <2>2, <2>3 DEF HoldOK
    <3>2. manual' = manual
      OBVIOUS
    <3> QED
      BY <2>1, <3>1, <3>2 DEF HoldOK
  <2>7. CASE ~recv_callback
    <3>1. rcv_wnd' = wnd /\ readbuf' = ringbuf_memcpy_into(Ring, data) /\ got' = got
      BY <2>1, <2>2, <2>3, <2>7
    <3>2. /\ readbuf' \in Rings(TCP_WND + 1, Stream)
          /\ CreditOK(rcv_wnd, refused)' /\ RoomOK(rcv_wnd, refused, part)'
          /\ StreamOK(refused, sent, part)'
      BY <1>2, <2>1, <2>5, <3>1, StoredOK
    <3>3. TypeOK'
      BY <1>2, <1>3, <2>1, <2>2, <2>5, <3>1, <3>2 DEF TypeOK, Stream
    <3> QED
      BY <2>6, <3>2, <3>3 DEF IInv
  <2>8. CASE recv_callback
    <3>1. readbuf' = readbuf /\ got' = got \o data /\ refused' = <<>>
      BY <2>1, <2>8
    <3>2. Waiting' = Waiting
      BY <3>1 DEF Waiting, Ring
    <3>3. got \o data \in Seq(Stream)
      BY <1>2, BytesJoined
    <3>4. TypeOK'
      BY <1>1, <1>2, <1>3, <2>1, <2>2, <2>5, <3>1, <3>3 DEF TypeOK, Stream
    <3>5. CreditOK(rcv_wnd, refused)'
      <4>1. CASE Locked.flag
        BY <1>1, <1>2, <2>3, <3>1, <3>2, <4>1 DEF CreditOK
      <4>2. CASE ~Locked.flag
        BY <1>1, <1>2, <2>3, <2>4, <3>1, <3>2, <4>2 DEF CreditOK
      <4> QED
        BY <4>1, <4>2
    <3>6. RoomOK(rcv_wnd, refused, part)'
      <4>1. CASE Locked.flag
        BY <1>1, <1>2, <2>3, <3>1, <3>2, <4>1 DEF RoomOK
      <4>2. CASE ~Locked.flag
        BY <1>1, <1>2, <2>3, <2>4, <3>1, <3>2, <4>2 DEF RoomOK
      <4> QED
        BY <4>1, <4>2
    <3>7. StreamOK(refused, sent, part)'
      <4> SUFFICES ASSUME part = "intact"
                   PROVE  /\ Split(got \o data, Waiting, <<>>, m)
                          /\ Ascending(Waiting \o <<>>, m)
        BY <3>1, <3>2 DEF StreamOK, Split, Ascending
      <4>1. Split(got, Waiting, data, m) /\ Ascending(Waiting \o data, m)
        BY <1>1 DEF StreamOK
      <4>2. m \in Nat
        BY WindowAssumption DEF Stream
      <4>3. Split(got \o data, Waiting, <<>>, m)
        BY <1>2, <4>1, <4>2, SplitMoves
      <4>4. Ascending(Waiting, m)
        BY <1>2, <4>1, <4>2, PrefixAscends
      <4> QED
        BY <1>2, <4>3, <4>4
    <3> QED
      BY <2>6, <3>4, <3>5, <3>6, <3>7 DEF IInv
  <2> QED
    BY <2>7, <2>8
<1> QED
  BY <1>4, <1>5, <1>6 DEF TakesData

\* The remote host sends n bytes: what waited is still there, and the new bytes leave
\* the window.
LEMMA ReceiveOffers ==
  ASSUME NEW part \in Parts, IInv(part), refused = <<>>, NEW n \in 1 .. rcv_wnd,
         sent + n <= MaxStream
  PROVE  Offered(Following(sent, n), rcv_wnd - n, sent + n, part)
<1> DEFINE data == Following(sent, n)
<1>1. TypeOK /\ HoldOK
  BY DEF IInv
<1>2. /\ Len(Waiting) \in 0 .. TCP_WND /\ Waiting \in Seq(Stream) /\ got \in Seq(Stream)
      /\ recv_holded_buf_Len \in Nat /\ TCP_WND \in Nat
      /\ Len(<<>>) = 0 /\ <<>> \in Seq(Stream) /\ Waiting \o <<>> = Waiting
  BY <1>1, SizesOK
<1>3. rcv_wnd \in 0 .. TCP_WND /\ sent \in Nat /\ n \in Nat /\ MaxStream \in Nat
  BY <1>1, WindowAssumption DEF TypeOK
<1>4. data \in Seq(Stream) /\ Len(data) = n
  <2>1. data \in [1 .. n -> Stream]
    BY <1>3 DEF Stream, Following
  <2> QED
    BY <1>3, <2>1
<1> HIDE DEF data
<1>5. rcv_wnd - n \in 0 .. TCP_WND /\ sent + n \in Stream
  BY <1>2, <1>3 DEF Stream
<1>6. CreditOK(rcv_wnd - n, data)
  BY <1>2, <1>3, <1>4 DEF IInv, CreditOK
<1>7. RoomOK(rcv_wnd - n, data, part)
  BY <1>2, <1>3, <1>4 DEF IInv, RoomOK
<1>8. StreamOK(data, sent + n, part)
  <2> SUFFICES ASSUME part = "intact"
               PROVE  Split(got, Waiting, data, sent + n) /\ Ascending(Waiting \o data, sent + n)
    BY DEF StreamOK
  <2>1. Split(got, Waiting, <<>>, sent) /\ Ascending(Waiting, sent)
    BY <1>2 DEF IInv, StreamOK
  <2>2. sent + 1 .. sent + n \subseteq Bytes(data) /\ Ascending(Waiting \o data, sent + n)
    BY <1>2, <1>3, <2>1, StreamGoesOn DEF data
  <2>3. Bytes(<<>>) = {}
    BY DEF Bytes
  <2>4. \A b \in 1 .. sent + n : b \in 1 .. sent \/ b \in sent + 1 .. sent + n
    BY <1>3
  <2>5. 1 .. sent + n \subseteq Bytes(got) \cup Bytes(Waiting) \cup Bytes(data)
    BY <2>1, <2>2, <2>3, <2>4 DEF Split
  <2>6. Len(got) + Len(Waiting) + Len(data) = sent + n
    <3>1. Len(got) + Len(Waiting) + Len(<<>>) = sent /\ Len(got) \in Nat
      BY <1>2, <2>1 DEF Split
    <3> QED
      BY <1>2, <1>3, <1>4, <3>1
  <2> QED
    BY <2>2, <2>5, <2>6 DEF Split
<1> QED
  BY <1>1, <1>4, <1>5, <1>6, <1>7, <1>8 DEF Offered, data

\* espconn_recv hands on the oldest bytes and credits the window for them.
LEMMA ReadOK ==
  ASSUME NEW part \in Parts, IInv(part), NEW len \in 1 .. TCP_WND + 1, espconn_recv(len)
  PROVE  IInv(part)'
<1> DEFINE u == ringbuf_bytes_used(readbuf)
           n == IF len > u THEN u ELSE len
           r == ringbuf_memcpy_from(readbuf, n)
           a == Oldest(Waiting, n)
           b == Rest(Waiting, n)
<1>1. TypeOK /\ HoldOK
  BY DEF IInv
<1>2. /\ Len(Waiting) \in 0 .. TCP_WND /\ Waiting \in Seq(Stream) /\ got \in Seq(Stream)
      /\ recv_holded_buf_Len \in Nat /\ TCP_WND \in Nat
      /\ Len(<<>>) = 0 /\ <<>> \in Seq(Stream) /\ Waiting \o <<>> = Waiting
  BY <1>1, SizesOK
<1>3. readbuf # NULL /\ Ring = readbuf /\ refused = <<>>
  BY <1>1 DEF espconn_recv, Ring, HoldOK
<1>4. /\ readbuf \in Rings(TCP_WND + 1, Stream)
      /\ Waiting = Contents(readbuf) /\ Len(Waiting) = u
  BY <1>1, <1>3, RingFacts
<1>5. n \in 0 .. u /\ n \in Nat /\ u \in Nat /\ TCP_WND + 1 \in Nat \ {0}
  BY <1>2, <1>4, WindowOK
<1>6. /\ manual' = manual /\ recv_callback' = recv_callback /\ established' = established
      /\ recv_hold_flag' = recv_hold_flag /\ recv_holded_buf_Len' = recv_holded_buf_Len
      /\ refused' = refused /\ sent' = sent
      /\ got' = got \o Load(readbuf, n).out
      /\ readbuf' = r
      /\ established => rcv_wnd' = tcp_recved(rcv_wnd, n)
      /\ ~established => rcv_wnd' = rcv_wnd
  BY DEF espconn_recv, hold
<1> HIDE DEF n
<1>7. /\ r \in Rings(TCP_WND + 1, Stream)
      /\ Load(readbuf, n).out = a
      /\ Contents(r) = b
  <2> DEFINE z == TCP_WND + 1
  <2>1. readbuf \in Rings(z, Stream) /\ z \in Nat \ {0} /\ n \in 0 .. ringbuf_bytes_used(readbuf)
    BY <1>4, <1>5
  <2>2. /\ r \in Rings(z, Stream)
        /\ Load(readbuf, n).out = SubSeq(Contents(readbuf), 1, n)
        /\ Contents(r) = SubSeq(Contents(readbuf), n + 1, Len(Contents(readbuf)))
    <3> HIDE DEF z
    <3> QED
      BY <2>1, MemcpyFrom
  <2> QED
    BY <1>4, <2>2 DEF Oldest, Rest
<1> HIDE DEF u, r, a, b
<1>8. got' = got \o a /\ Waiting' = b
  BY <1>6, <1>7, RingAfter
<1>9. Stream \subseteq Nat /\ sent \in Nat
  BY <1>1 DEF Stream, TypeOK
<1>10. /\ a \in Seq(Stream) /\ b \in Seq(Stream)
       /\ Len(a) = n /\ Len(b) = Len(Waiting) - n
       /\ Bytes(Waiting) \subseteq Bytes(a) \cup Bytes(b)
       /\ Ascending(Waiting, sent) => Ascending(b, sent)
  <2>1. n \in 0 .. Len(Waiting)
    BY <1>4, <1>5
  <2> QED
    BY <1>2, <1>9, <2>1, BytesCut DEF a, b
<1>11. /\ got \o a \in Seq(Stream) /\ Len(got \o a) = Len(got) + n
       /\ Bytes(got \o a) = Bytes(got) \cup Bytes(a)
  <2>1. got \in Seq(Stream) /\ a \in Seq(Stream) /\ Len(a) = n
    BY <1>2, <1>10
  <2> QED
    BY <2>1, BytesJoined
<1>12. /\ rcv_wnd \in 0 .. TCP_WND
       /\ tcp_recved(rcv_wnd, n) \in 0 .. TCP_WND
       /\ tcp_recved(rcv_wnd, n) <= rcv_wnd + n
       /\ tcp_recved(rcv_wnd, n) = TCP_WND \/ tcp_recved(rcv_wnd, n) = rcv_wnd + n
  BY <1>1, <1>5, Recved DEF TypeOK
<1>13. TypeOK'
  <2>1. rcv_wnd' \in 0 .. TCP_WND
    BY <1>6, <1>12
  <2> QED
    BY <1>1, <1>6, <1>7, <1>8, <1>11, <2>1 DEF TypeOK, Stream
<1>14. HoldOK'
  BY <1>1, <1>3, <1>6 DEF HoldOK
<1>15. CreditOK(rcv_wnd, refused)'
  BY <1>2, <1>3, <1>4, <1>5, <1>6, <1>8, <1>10, <1>12 DEF IInv, CreditOK
<1>16. RoomOK(rcv_wnd, refused, part)'
  <2>1. CASE established
    BY <1>2, <1>3, <1>4, <1>5, <1>6, <1>8, <1>10, <1>12, <2>1 DEF IInv, RoomOK
  <2>2. CASE ~established
    BY <1>2, <1>3, <1>4, <1>5, <1>6, <1>8, <1>10, <1>12, <2>2 DEF IInv, RoomOK
  <2> QED
    BY <2>1, <2>2
<1>17. StreamOK(refused, sent, part)'
  <2>1. b \o <<>> = b
    BY <1>10, ConcatEmptySeq
  <2> SUFFICES ASSUME part = "intact"
               PROVE  Split(got \o a, b, <<>>, sent) /\ Ascending(b, sent)
    BY <1>3, <1>6, <1>8, <2>1 DEF StreamOK, Split, Ascending
  <2>2. Split(got, Waiting, <<>>, sent) /\ Ascending(Waiting, sent)
    BY <1>2, <1>3 DEF IInv, StreamOK
  <2>3. Len(got \o a) + Len(b) + Len(<<>>) = sent
    <3>1. Len(got) + Len(Waiting) + Len(<<>>) = sent /\ Len(got) \in Nat
      BY <1>2, <2>2 DEF Split
    <3>2. Len(got \o a) = Len(got) + n /\ Len(b) = Len(Waiting) - n /\ Len(<<>>) = 0
      BY <1>2, <1>10, <1>11
    <3>3. Len(Waiting) \in Nat /\ n \in Nat
      BY <1>2, <1>5
    <3> QED
      BY <3>1, <3>2, <3>3
  <2> QED
    BY <1>10, <1>11, <2>2, <2>3 DEF Split
<1> QED
  BY <1>13, <1>14, <1>15, <1>16, <1>17 DEF IInv

\* The application unholds and leaves bytes in the ring buffer.
UnholdUnread == espconn_recv_unhold /\ ringbuf_bytes_used(Ring) > 0

\* Every step of the receive path keeps the invariant; espconn_recv_unhold with
\* bytes in the ring buffer only without the parts it breaks.
LEMMA RecvStep ==
  ASSUME NEW part \in Parts, IInv(part), [Next]_vars, part = "intact" => ~UnholdUnread
  PROVE  IInv(part)'
<1>1. /\ TypeOK /\ HoldOK /\ CreditOK(rcv_wnd, refused)
      /\ RoomOK(rcv_wnd, refused, part) /\ StreamOK(refused, sent, part)
  BY DEF IInv
<1>2. /\ Len(Waiting) \in 0 .. TCP_WND /\ Waiting \in Seq(Stream) /\ got \in Seq(Stream)
      /\ recv_holded_buf_Len \in Nat /\ TCP_WND \in Nat
  BY <1>1, SizesOK
<1>3. /\ rcv_wnd \in 0 .. TCP_WND /\ sent \in 0 .. MaxStream /\ MaxStream \in Nat
      /\ refused \in Seq(Stream) /\ Len(refused) \in Nat
  BY <1>1, WindowAssumption DEF TypeOK, Stream
<1>4. CASE UNCHANGED vars
  <2>1. Waiting' = Waiting
    BY <1>4 DEF vars, Waiting, Ring
  <2> QED
    BY <1>1, <1>4, <2>1
       DEF vars, hold, lwip, IInv, TypeOK, HoldOK, CreditOK, RoomOK, StreamOK, Split, Ascending
<1>5. ASSUME NEW n \in 1 .. TCP_WND, Receive(n)
      PROVE  IInv(part)'
  <2>1. /\ refused = <<>> /\ n \in 1 .. rcv_wnd /\ sent + n <= MaxStream /\ sent' = sent + n
        /\ TakesData(Following(sent, n), rcv_wnd - n)
        /\ UNCHANGED <<manual, recv_callback, established>>
    BY <1>5 DEF Receive, Following
  <2>2. Offered(Following(sent, n), rcv_wnd - n, sent + n, part)
    BY <2>1, ReceiveOffers
  <2>3. Following(sent, n) \in Seq(Stream) /\ sent + n \in Stream
    BY <2>2 DEF Offered
  <2> QED
    BY <2>1, <2>2, <2>3, TakesDataOK
<1>6. CASE Again
  <2>1. Offered(refused, rcv_wnd, sent, part)
    BY <1>1, <1>3 DEF Offered, Stream
  <2> QED
    BY <1>3, <1>6, <2>1, TakesDataOK DEF Again, Stream
<1>7. CASE RemoteCloses
  <2>1. Waiting' = Waiting /\ ~established'
    BY <1>7 DEF RemoteCloses, Waiting, Ring
  <2> QED
    BY <1>1, <1>7, <2>1
       DEF RemoteCloses, hold, IInv, TypeOK, HoldOK, CreditOK, RoomOK, StreamOK, Split, Ascending
<1>8. CASE Read
  BY <1>8, ReadOK DEF Read
<1>9. CASE espconn_recv_hold
  <2>1. Waiting' = Waiting /\ recv_holded_buf_Len = 0
    BY <1>1, <1>9 DEF espconn_recv_hold, Waiting, Ring, HoldOK
  <2> QED
    BY <1>1, <1>9, <2>1
       DEF espconn_recv_hold, lwip, IInv, TypeOK, HoldOK, CreditOK, RoomOK, StreamOK, Split, Ascending
<1>10. CASE espconn_recv_unhold
  <2>1. /\ Waiting' = Waiting /\ manual' = manual /\ readbuf' = readbuf /\ refused' = refused
        /\ sent' = sent /\ got' = got /\ established' = established
        /\ recv_callback' = recv_callback
        /\ recv_hold_flag' = FALSE /\ recv_holded_buf_Len' = 0
        /\ rcv_wnd' = tcp_recved(rcv_wnd, recv_holded_buf_Len)
    BY <1>10 DEF espconn_recv_unhold, Waiting, Ring
  <2>2. /\ rcv_wnd' \in 0 .. TCP_WND
        /\ rcv_wnd' <= rcv_wnd + recv_holded_buf_Len
        /\ rcv_wnd' = TCP_WND \/ rcv_wnd' = rcv_wnd + recv_holded_buf_Len
    BY <1>2, <1>3, <2>1, Recved
  <2>3. TypeOK' /\ HoldOK'
    BY <1>1, <2>1, <2>2 DEF TypeOK, HoldOK
  <2>4. CreditOK(rcv_wnd, refused)'
    BY <1>1, <1>2, <1>3, <2>1, <2>2 DEF CreditOK
  <2>5. RoomOK(rcv_wnd, refused, part)'
    <3> SUFFICES ASSUME part = "intact"
                 PROVE  rcv_wnd' + Len(Waiting) + Len(refused) <= TCP_WND
      BY <2>1 DEF RoomOK
    <3>1. Len(Waiting) = 0
      <4>1. Len(Waiting) = ringbuf_bytes_used(Ring)
        BY <1>1, RingFacts
      <4> QED
        BY <1>2, <1>10, <4>1 DEF UnholdUnread
    <3>2. CASE refused = <<>>
      <4>1. Len(refused) = 0
        BY <3>2
      <4>2. rcv_wnd' \in 0 .. TCP_WND /\ TCP_WND \in Nat
        BY <1>2, <2>2
      <4>3. \A w \in 0 .. TCP_WND, x, y \in Nat : x = 0 /\ y = 0 => w + x + y <= TCP_WND
        BY <4>2
      <4> QED
        BY <3>1, <4>1, <4>2, <4>3
    <3>3. CASE refused # <<>>
      <4>1. recv_holded_buf_Len = 0
        BY <1>1, <3>3 DEF HoldOK
      <4>2. rcv_wnd + Len(Waiting) + Len(refused) <= TCP_WND
        BY <1>1 DEF RoomOK
      <4>3. rcv_wnd' <= rcv_wnd
        BY <1>3, <2>2, <4>1
      <4> QED
        BY <1>2, <1>3, <2>2, <4>2, <4>3
    <3> QED
      BY <3>2, <3>3
  <2>6. StreamOK(refused, sent, part)'
    BY <1>1, <2>1 DEF StreamOK, Split, Ascending
  <2> QED
    BY <2>3, <2>4, <2>5, <2>6 DEF IInv
<1>11. ASSUME NEW cb \in BOOLEAN, espconn_regist_recvcb(cb)
       PROVE  IInv(part)'
  <2>1. Waiting' = Waiting
    BY <1>11 DEF espconn_regist_recvcb, Waiting, Ring
  <2> QED
    BY <1>1, <1>11, <2>1
       DEF espconn_regist_recvcb, hold, lwip, IInv, TypeOK, HoldOK, CreditOK, RoomOK,
           StreamOK, Split, Ascending
<1> QED
  BY <1>4, <1>5, <1>6, <1>7, <1>8, <1>9, <1>10, <1>11 DEF Next

\* A new connection has nothing to lose.
LEMMA RecvInit ==
  ASSUME Init, NEW part \in Parts
  PROVE  IInv(part)
<1>1. TypeOK
  <2>1. <<>> \in Seq(0 .. MaxStream) /\ 0 \in 0 .. MaxStream /\ TCP_WND \in 0 .. TCP_WND
    BY WindowAssumption
  <2>2. manual \in BOOLEAN /\ recv_callback \in BOOLEAN
    BY DEF Init
  <2> QED
    BY <2>1, <2>2 DEF Init, TypeOK
<1>2. Len(Waiting) \in 0 .. TCP_WND /\ readbuf = NULL /\ Waiting = <<>>
  BY <1>1, SizesOK, RingFacts DEF Init
<1>3. Waiting \o refused = <<>>
  BY <1>1, <1>2, SizesOK DEF Init
<1>4. HoldOK /\ CreditOK(rcv_wnd, refused) /\ RoomOK(rcv_wnd, refused, part)
  BY <1>2, WindowAssumption DEF Init, HoldOK, CreditOK, RoomOK
<1>5. StreamOK(refused, sent, part)
  BY <1>2, <1>3 DEF Init, StreamOK, Split, Ascending
<1> QED
  BY <1>1, <1>4, <1>5 DEF IInv

\* What the parts of the invariant say is what the run checks.
LEMMA StreamIsEveryByte ==
  ASSUME TypeOK
  PROVE  EveryByteOnce <=> StreamOK(refused, sent, "intact")
<1> DEFINE most == got \o Waiting
           all == most \o refused
<1>1. /\ Waiting \in Seq(Stream) /\ got \in Seq(Stream)
      /\ refused \in Seq(Stream) /\ sent \in Nat
  BY SizesOK DEF TypeOK, Stream
<1>2. /\ most \in Seq(Stream) /\ Len(most) = Len(got) + Len(Waiting)
      /\ Bytes(most) = Bytes(got) \cup Bytes(Waiting)
  BY <1>1, BytesJoined
<1> HIDE DEF most
<1>3. /\ Len(all) = Len(got) + Len(Waiting) + Len(refused)
      /\ Bytes(all) = Bytes(got) \cup Bytes(Waiting) \cup Bytes(refused)
  <2>1. /\ Len(all) = Len(most) + Len(refused)
        /\ Bytes(all) = Bytes(most) \cup Bytes(refused)
    <3>1. most \in Seq(Stream) /\ refused \in Seq(Stream)
      BY <1>1, <1>2
    <3> QED
      BY <3>1, BytesJoined
  <2> QED
    BY <1>2, <2>1
<1> HIDE DEF all
<1>4. EveryByteOnce <=> /\ Len(all) = sent
                        /\ \A b \in 1 .. sent : \E i \in 1 .. sent : all[i] = b
                        /\ Ascending(Waiting \o refused, sent)
  BY DEF EveryByteOnce, Ascending, all, most
<1>5. ASSUME Len(all) = sent
      PROVE  (\A b \in 1 .. sent : \E i \in 1 .. sent : all[i] = b) <=> 1 .. sent \subseteq Bytes(all)
  BY <1>5 DEF Bytes
<1>6. StreamOK(refused, sent, "intact") <=>
         /\ Len(all) = sent /\ 1 .. sent \subseteq Bytes(all)
         /\ Ascending(Waiting \o refused, sent)
  BY <1>3 DEF StreamOK, Split
<1> QED
  BY <1>4, <1>5, <1>6

\* The stream is in step exactly when the invariant holds with all its parts.
LEMMA InStepIsIntact ==
  ASSUME IInv("any")
  PROVE  InStep <=> IInv("intact")
<1>1. EveryByteOnce <=> StreamOK(refused, sent, "intact")
  BY StreamIsEveryByte DEF IInv
<1>2. RoomForWindow <=> RoomOK(rcv_wnd, refused, "intact")
  BY DEF RoomForWindow, RoomOK
<1> QED
  BY <1>1, <1>2 DEF InStep, IInv

LEMMA IInvImplies ==
  ASSUME IInv("any")
  PROVE  TypeOK /\ NoWindowLeak
<1>1. TypeOK /\ HoldOK /\ CreditOK(rcv_wnd, refused)
  BY DEF IInv
<1>2. /\ recv_holded_buf_Len \in Nat /\ TCP_WND \in Nat
      /\ Len(Waiting) = ringbuf_bytes_used(Ring) /\ Len(Waiting) \in 0 .. TCP_WND
  BY <1>1, SizesOK, RingFacts
<1>3. rcv_wnd \in 0 .. TCP_WND
  BY <1>1, WindowAssumption DEF TypeOK
<1>4. NoWindowLeak
  <2> SUFFICES ASSUME established, rcv_wnd < TCP_WND, ringbuf_bytes_used(Ring) = 0,
                      refused = <<>>
               PROVE  recv_hold_flag /\ recv_holded_buf_Len > 0
    BY <1>2 DEF NoWindowLeak
  <2>1. Len(refused) = 0
    OBVIOUS
  <2>2. recv_holded_buf_Len > 0
    BY <1>1, <1>2, <1>3, <2>1 DEF CreditOK
  <2> QED
    BY <1>1, <2>2 DEF HoldOK, TypeOK
<1> QED
  BY <1>1, <1>4

LEMMA RecvIInv == Spec => []IInv("any")
<1>1. Init => IInv("any")
  BY RecvInit DEF Parts
<1>2. IInv("any") /\ [Next]_vars => IInv("any")'
  BY RecvStep DEF Parts
<1> QED
  BY <1>1, <1>2, PTL DEF Spec

\* Whatever the application registers, holds and releases, the ring buffer and the
\* window keep their sizes, and head and tail stay inside the buffer.
THEOREM RecvTypeCorrect == Spec => []TypeOK
<1>1. IInv("any") => TypeOK
  BY IInvImplies
<1> QED
  BY <1>1, RecvIInv, PTL

\* A window that is not fully open has a reason that the application can remove:
\* bytes to read or to release, also after it released what it had not read.
THEOREM NoWindowLeakHolds == Spec => []NoWindowLeak
<1>1. IInv("any") => NoWindowLeak
  BY IInvImplies
<1> QED
  BY <1>1, RecvIInv, PTL

\* As long as the application does not unhold with bytes in the ring buffer, the
\* window never promises more than the ring buffer has room for, and no byte is lost,
\* doubled or put out of order; that call is the only one that ends it, whatever
\* window, stream and order of calls.
THEOREM NothingLostHolds == Spec => InStep /\ NothingLost
<1>1. Init => InStep
  <2> SUFFICES ASSUME Init PROVE InStep
    OBVIOUS
  <2>1. IInv("any") /\ IInv("intact")
    BY RecvInit DEF Parts
  <2> QED
    BY <2>1, InStepIsIntact
<1>2. IInv("any") /\ IInv("any")' /\ [Next]_vars =>
        [InStep /\ ~InStep' => espconn_recv_unhold /\ ringbuf_bytes_used(Ring) > 0]_vars
  <2> SUFFICES ASSUME IInv("any"), IInv("any")', [Next]_vars, InStep, ~UnholdUnread
               PROVE  InStep'
    BY DEF UnholdUnread
  <2>1. IInv("intact")
    BY InStepIsIntact
  <2>2. IInv("intact")'
    BY <2>1, RecvStep DEF Parts
  <2>3. (InStep <=> IInv("intact"))'
    BY InStepIsIntact, PTL
  <2> QED
    BY <2>2, <2>3
<1> QED
  BY <1>1, <1>2, RecvIInv, PTL DEF Spec, NothingLost

=============================================================================
