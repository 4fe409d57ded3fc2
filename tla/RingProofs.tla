----------------------------- MODULE RingProofs -----------------------------
(***************************************************************************)
(* Proofs about the two circular buffers of the kernel, for every size:    *)
(* lemmas about indices modulo the size, and what a store at the head or a *)
(* take at the tail does to the bytes in between; that the keyboard ring   *)
(* implements the bounded FIFO; that the pool of pipes implements the      *)
(* named queues.  The keyboard and the pipes share no variable: a theorem  *)
(* is about the one or the other.                                          *)
(***************************************************************************)
EXTENDS KeyboardRing, Pipes, SequenceTheorems, TLAPS

-----------------------------------------------------------------------------
(* Indices modulo the size of the buffer.                                  *)

LEMMA Small == ASSUME NEW n \in Nat, NEW x \in 0 .. n - 1 PROVE x % n = x
  BY SMTT(30)

LEMMA Wrapped == ASSUME NEW n \in Nat, NEW x \in n .. 2 * n - 1 PROVE x % n = x - n
  BY SMTT(30)

LEMMA Negative == ASSUME NEW n \in Nat, NEW x \in Int, -n < x, x < 0 PROVE x % n = x + n
  BY SMTT(30)

\* The successor of an index is an index: the next one, or 0 after the last.
LEMMA Succession ==
    ASSUME NEW size \in Nat \ {0}, NEW i \in 0 .. size - 1
    PROVE  /\ (i + 1) % size \in 0 .. size - 1
           /\ (i + 1) % size = IF i = size - 1 THEN 0 ELSE i + 1
<1>1. CASE i = size - 1
  <2>1. i + 1 \in size .. 2 * size - 1
    BY <1>1
  <2>2. (i + 1) % size = i + 1 - size
    BY <2>1, Wrapped
  <2> QED BY <1>1, <2>2
<1>2. CASE i # size - 1
  <2>1. i + 1 \in 0 .. size - 1
    BY <1>2
  <2>2. (i + 1) % size = i + 1
    BY <2>1, Small
  <2> QED BY <1>2, <2>1, <2>2
<1> QED BY <1>1, <1>2

\* How many slots lie from index t up to index h.
LEMMA Distance ==
    ASSUME NEW size \in Nat \ {0}, NEW h \in 0 .. size - 1, NEW t \in 0 .. size - 1
    PROVE  (h - t) % size = IF h >= t THEN h - t ELSE h - t + size
<1>1. CASE h >= t
  <2>1. h - t \in 0 .. size - 1
    BY <1>1
  <2>2. (h - t) % size = h - t
    BY <2>1, Small
  <2> QED BY <1>1, <2>2
<1>2. CASE ~(h >= t)
  <2>1. h - t \in Int /\ -size < h - t /\ h - t < 0
    BY <1>2
  <2>2. (h - t) % size = h - t + size
    BY <2>1, Negative
  <2> QED BY <1>2, <2>2
<1> QED BY <1>1, <1>2

\* The slot j places behind index t.
LEMMA Place ==
    ASSUME NEW size \in Nat \ {0}, NEW t \in 0 .. size - 1, NEW j \in 0 .. size - 1
    PROVE  /\ (t + j) % size \in 0 .. size - 1
           /\ (t + j) % size = IF t + j < size THEN t + j ELSE t + j - size
<1>1. CASE t + j < size
  <2>1. t + j \in 0 .. size - 1
    BY <1>1
  <2>2. (t + j) % size = t + j
    BY <2>1, Small
  <2> QED BY <1>1, <2>1, <2>2
<1>2. CASE ~(t + j < size)
  <2>1. t + j \in size .. 2 * size - 1
    BY <1>2
  <2>2. (t + j) % size = t + j - size
    BY <2>1, Wrapped
  <2> QED BY <1>2, <2>1, <2>2
<1> QED BY <1>1, <1>2

-----------------------------------------------------------------------------
(* The bytes in the buffer.                                                *)

\* The buffers of a size (kept folded where a lemma is applied).
Buffer(size, S) == [0 .. size - 1 -> S]

\* They form a sequence, byte i in the slot i - 1 places behind the tail.
LEMMA SliceSeq ==
    ASSUME NEW S, NEW size \in Nat \ {0}, NEW b \in Buffer(size, S),
           NEW t \in 0 .. size - 1, NEW n \in 0 .. size
    PROVE  /\ Slice(b, size, t, n) \in Seq(S)
           /\ Len(Slice(b, size, t, n)) = n
           /\ \A i \in 1 .. n : /\ (t + i - 1) % size \in 0 .. size - 1
                                /\ Slice(b, size, t, n)[i] = b[(t + i - 1) % size]
<1>1. ASSUME NEW i \in 1 .. n
      PROVE  (t + i - 1) % size \in 0 .. size - 1
  <2>1. i - 1 \in 0 .. size - 1 /\ t + (i - 1) = t + i - 1
    OBVIOUS
  <2>2. (t + (i - 1)) % size \in 0 .. size - 1
    BY <2>1, Place
  <2> QED BY <2>1, <2>2
<1>2. \A i \in 1 .. n : b[(t + i - 1) % size] \in S
  BY <1>1 DEF Buffer
<1>3. n \in Nat
  OBVIOUS
<1>5. Slice(b, size, t, n) \in [1 .. n -> S]
  BY <1>2, Zenon DEF Slice
<1>4. Slice(b, size, t, n) \in Seq(S) /\ Len(Slice(b, size, t, n)) = n
  BY <1>3, <1>5
<1> QED BY <1>1, <1>4 DEF Slice

\* d is b with a store of v in slot h.
StoredAt(b, d, h, v, size) ==
    d[h] = v /\ \A i \in 0 .. size - 1 : i # h => d[i] = b[i]

\* A store in the slot behind the last byte appends a byte.
LEMMA SliceStore ==
    ASSUME NEW S, NEW size \in Nat \ {0}, NEW b \in Buffer(size, S),
           NEW t \in 0 .. size - 1, NEW n \in 0 .. size - 1, NEW v \in S,
           NEW h, h = (t + n) % size, NEW d \in Buffer(size, S),
           StoredAt(b, d, h, v, size)
    PROVE  Slice(d, size, t, n + 1) = Append(Slice(b, size, t, n), v)
<1> DEFINE old == Slice(b, size, t, n)
           new == Slice(d, size, t, n + 1)
<1>0. n \in 0 .. size /\ n + 1 \in 0 .. size
  OBVIOUS
<1>1. h \in 0 .. size - 1
  BY Place
<1>2. new \in Seq(S) /\ Len(new) = n + 1
      /\ \A i \in 1 .. n + 1 : new[i] = d[(t + i - 1) % size]
  <2>0. PICK m \in 0 .. size : m = n + 1
    BY <1>0
  <2>1. Slice(d, size, t, m) \in Seq(S) /\ Len(Slice(d, size, t, m)) = m
    BY SliceSeq
  <2> QED BY <2>0, <2>1 DEF Slice
<1>3. old \in Seq(S) /\ Len(old) = n
      /\ \A i \in 1 .. n : /\ (t + i - 1) % size \in 0 .. size - 1
                           /\ old[i] = b[(t + i - 1) % size]
  <2>1. old \in Seq(S) /\ Len(old) = n
    BY <1>0, SliceSeq
  <2>2. \A i \in 1 .. n : (t + i - 1) % size \in 0 .. size - 1
    BY <1>0, SliceSeq
  <2> QED BY <2>1, <2>2 DEF Slice
<1>4. Append(old, v) \in Seq(S) /\ Len(Append(old, v)) = n + 1
      /\ (\A i \in 1 .. n : Append(old, v)[i] = old[i]) /\ Append(old, v)[n + 1] = v
  BY <1>3, AppendProperties
<1>5. ASSUME NEW i \in 1 .. n PROVE (t + i - 1) % size # h
  <2>1. i - 1 \in 0 .. size - 1 /\ t + (i - 1) = t + i - 1
    OBVIOUS
  <2>2. (t + (i - 1)) % size = IF t + (i - 1) < size THEN t + (i - 1) ELSE t + (i - 1) - size
    BY <2>1, Place
  <2>3. h = IF t + n < size THEN t + n ELSE t + n - size
    BY Place
  <2> QED BY <2>1, <2>2, <2>3
<1> HIDE DEF old, new
<1>6. ASSUME NEW i \in 1 .. n PROVE new[i] = old[i]
  <2>1. i \in 1 .. n + 1
    OBVIOUS
  <2> QED BY <1>2, <1>3, <1>5, <2>1 DEF StoredAt
<1>7. new[n + 1] = v
  <2>1. t + (n + 1) - 1 = t + n /\ n + 1 \in 1 .. n + 1
    OBVIOUS
  <2> QED BY <1>1, <1>2, <2>1 DEF StoredAt
<1>8. \A i \in 1 .. n + 1 : new[i] = Append(old, v)[i]
  <2>1. \A i \in 1 .. n + 1 : i \in 1 .. n \/ i = n + 1
    OBVIOUS
  <2> QED BY <1>4, <1>6, <1>7, <2>1
<1> QED BY <1>2, <1>4, <1>8, SeqEqual DEF old, new

\* The sequence of the first byte.
LEMMA FirstByte ==
    ASSUME NEW S, NEW s \in Seq(S), Len(s) >= 1
    PROVE  SubSeq(s, 1, 1) = <<s[1]>>
<1>1. Len(s) \in Nat /\ \A i \in 1 .. 1 : s[i] \in S
  BY LenProperties, ElementOfSeq
<1>2. /\ SubSeq(s, 1, 1) \in Seq(S)
      /\ Len(SubSeq(s, 1, 1)) = 1
      /\ SubSeq(s, 1, 1)[1] = s[1]
  <2>1. /\ SubSeq(s, 1, 1) \in Seq(S)
        /\ Len(SubSeq(s, 1, 1)) = IF 1 <= 1 THEN 1 - 1 + 1 ELSE 0
        /\ \A i \in 1 .. 1 - 1 + 1 : SubSeq(s, 1, 1)[i] = s[1 + i - 1]
    BY <1>1, SubSeqProperties
  <2> QED BY <2>1
<1>3. <<s[1]>> \in Seq(S) /\ Len(<<s[1]>>) = 1 /\ <<s[1]>>[1] = s[1]
  BY <1>1
<1>4. \A i \in 1 .. 1 : SubSeq(s, 1, 1)[i] = <<s[1]>>[i]
  BY <1>2, <1>3
<1> QED BY <1>2, <1>3, <1>4, SeqEqual

\* Moving the tail on takes the first byte.
LEMMA SliceTake ==
    ASSUME NEW S, NEW size \in Nat \ {0}, NEW b \in Buffer(size, S),
           NEW t \in 0 .. size - 1, NEW n \in 1 .. size
    PROVE  /\ Slice(b, size, t, n)[1] = b[t]
           /\ Slice(b, size, (t + 1) % size, n - 1) = SubSeq(Slice(b, size, t, n), 2, n)
<1> DEFINE u == (t + 1) % size
           old == Slice(b, size, t, n)
           new == Slice(b, size, u, n - 1)
           rest == SubSeq(old, 2, n)
<1>0. n \in 0 .. size /\ n - 1 \in 0 .. size
  OBVIOUS
<1>1. u \in 0 .. size - 1 /\ u = IF t = size - 1 THEN 0 ELSE t + 1
  BY Succession
<1> HIDE DEF u
<1>2. old \in Seq(S) /\ Len(old) = n
      /\ \A i \in 1 .. n : old[i] = b[(t + i - 1) % size]
  <2>1. old \in Seq(S) /\ Len(old) = n
    BY <1>0, SliceSeq
  <2> QED BY <2>1 DEF Slice
<1>3. new \in Seq(S) /\ Len(new) = n - 1
      /\ \A i \in 1 .. n - 1 : new[i] = b[(u + i - 1) % size]
  <2>0. PICK m \in 0 .. size : m = n - 1
    BY <1>0
  <2>1. u \in 0 .. size - 1
    BY <1>1
  <2>2. Slice(b, size, u, m) \in Seq(S) /\ Len(Slice(b, size, u, m)) = m
    BY <2>1, SliceSeq
  <2>3. \A i \in 1 .. n - 1 : new[i] = b[(u + i - 1) % size]
    BY DEF Slice
  <2> QED BY <2>0, <2>2, <2>3
<1>4. old[1] = b[t]
  <2>1. t + 1 - 1 = t /\ 1 \in 1 .. n
    OBVIOUS
  <2>2. t % size = t
    BY Small
  <2> QED BY <1>2, <2>1, <2>2
<1>5. \A i \in 2 .. n : old[i] \in S
  BY <1>2
<1>6. rest \in Seq(S) /\ Len(rest) = n - 1
      /\ \A i \in 1 .. n - 1 : rest[i] = old[i + 1]
  <2>1. /\ rest \in Seq(S)
        /\ Len(rest) = IF 2 <= n THEN n - 2 + 1 ELSE 0
        /\ \A i \in 1 .. n - 2 + 1 : rest[i] = old[2 + i - 1]
    BY <1>5, SubSeqProperties
  <2>2. \A i \in 1 .. n - 1 : 2 + i - 1 = i + 1
    OBVIOUS
  <2>3. n - 2 + 1 = n - 1
    OBVIOUS
  <2> HIDE DEF rest
  <2> QED BY <2>1, <2>2, <2>3
<1>7. ASSUME NEW i \in 1 .. n - 1 PROVE (u + i - 1) % size = (t + (i + 1) - 1) % size
  <2>1. i - 1 \in 0 .. size - 1 /\ u + (i - 1) = u + i - 1
    BY <1>1
  <2>2. i \in 0 .. size - 1 /\ t + i = t + (i + 1) - 1
    OBVIOUS
  <2>3. (u + (i - 1)) % size = IF u + (i - 1) < size THEN u + (i - 1) ELSE u + (i - 1) - size
    BY <1>1, <2>1, Place
  <2>4. (t + i) % size = IF t + i < size THEN t + i ELSE t + i - size
    BY <2>2, Place
  <2>5. (u + (i - 1)) % size = (t + i) % size
    BY <1>1, <2>1, <2>2, <2>3, <2>4
  <2> QED BY <2>1, <2>2, <2>5
<1> HIDE DEF old, new, rest
<1>8. ASSUME NEW i \in 1 .. n - 1 PROVE new[i] = rest[i]
  <2>1. i + 1 \in 1 .. n
    OBVIOUS
  <2>2. new[i] = b[(u + i - 1) % size]
    BY <1>3
  <2>3. rest[i] = b[(t + (i + 1) - 1) % size]
    BY <1>2, <1>6, <2>1
  <2> QED BY <1>7, <2>2, <2>3
<1> QED BY <1>3, <1>4, <1>6, <1>8, SeqEqual DEF u, old, new, rest

-----------------------------------------------------------------------------
(* What a run of bytes does to a circular buffer.                          *)

\* The slot c places behind slot t, of a buffer that may be full.
LEMMA PlaceBehind ==
    ASSUME NEW size \in Nat \ {0}, NEW t \in 0 .. size - 1, NEW c \in 0 .. size
    PROVE  /\ (t + c) % size \in 0 .. size - 1
           /\ (t + c) % size = IF t + c < size THEN t + c ELSE t + c - size
<1>1. CASE c < size
  <2>1. c \in 0 .. size - 1
    BY <1>1
  <2> QED BY <2>1, Place
<1>2. CASE c = size
  <2>1. t + c \in size .. 2 * size - 1
    BY <1>2
  <2>2. (t + c) % size = t + c - size
    BY <2>1, Wrapped
  <2> QED BY <1>2, <2>2
<1> QED BY <1>1, <1>2

\* How far the slot i places behind t is from the head c places behind it.
LEMMA PlaceOf ==
    ASSUME NEW size \in Nat \ {0}, NEW t \in 0 .. size - 1, NEW c \in 0 .. size,
           NEW i \in 0 .. size - 1
    PROVE  (((t + i) % size) - ((t + c) % size)) % size
              = IF i >= c THEN i - c ELSE i - c + size
<1>1. PICK j \in 0 .. size - 1 : /\ j = (t + i) % size
                                 /\ j = IF t + i < size THEN t + i ELSE t + i - size
  BY Place
<1>2. PICK h \in 0 .. size - 1 : /\ h = (t + c) % size
                                 /\ h = IF t + c < size THEN t + c ELSE t + c - size
  BY PlaceBehind
<1>3. (j - h) % size = IF j >= h THEN j - h ELSE j - h + size
  BY Distance
<1>4. (j - h) % size = IF i >= c THEN i - c ELSE i - c + size
  <2>1. CASE i >= c
    <3>1. j - h = i - c \/ j - h = i - c - size
      BY <1>1, <1>2, <2>1
    <3>2. 0 <= i - c /\ i - c < size
      BY <2>1
    <3> QED BY <1>3, <2>1, <3>1, <3>2
  <2>2. CASE ~(i >= c)
    <3>1. j - h = i - c \/ j - h = i - c + size
      BY <1>1, <1>2, <2>2
    <3>2. i - c < 0 /\ i - c >= -size
      BY <2>2
    <3> QED BY <1>3, <2>2, <3>1, <3>2
  <2> QED BY <2>1, <2>2
<1> QED BY <1>1, <1>2, <1>4

\* A run of bytes is a sequence.
LEMMA SliceType ==
    ASSUME NEW S, NEW size \in Nat \ {0}, NEW b \in Buffer(size, S),
           NEW t \in 0 .. size - 1, NEW n \in 0 .. size
    PROVE  /\ Slice(b, size, t, n) \in Seq(S)
           /\ Len(Slice(b, size, t, n)) = n
  BY SliceSeq

\* d is b with the first n elements of s stored from slot h on.
RunAt(b, d, h, s, n, size) ==
    \A j \in 0 .. size - 1 :
       d[j] = IF (j - h) % size < n THEN s[((j - h) % size) + 1] ELSE b[j]

\* A run of bytes stored behind the last one follows those that wait.
LEMMA SliceAppend ==
    ASSUME NEW S, NEW size \in Nat \ {0}, NEW b \in Buffer(size, S),
           NEW t \in 0 .. size - 1, NEW c \in 0 .. size,
           NEW s \in Seq(S), NEW n \in 0 .. Len(s), c + n <= size,
           NEW d \in Buffer(size, S), RunAt(b, d, (t + c) % size, s, n, size)
    PROVE  Slice(d, size, t, c + n) = Slice(b, size, t, c) \o SubSeq(s, 1, n)
<1> DEFINE old == Slice(b, size, t, c)
           new == Slice(d, size, t, c + n)
           put == SubSeq(s, 1, n)
<1>0. Len(s) \in Nat
  OBVIOUS
<1>1. PICK h \in 0 .. size - 1 : h = (t + c) % size
  BY PlaceBehind
<1>4. \A j \in 0 .. size - 1 :
        d[j] = IF (j - h) % size < n THEN s[((j - h) % size) + 1] ELSE b[j]
  BY <1>1 DEF RunAt
<1>5. PICK m \in 0 .. size : m = c + n
  BY <1>0
<1>6. new \in Seq(S) /\ Len(new) = c + n
      /\ \A i \in 1 .. c + n : new[i] = d[(t + i - 1) % size]
  <2>1. Slice(d, size, t, m) \in Seq(S) /\ Len(Slice(d, size, t, m)) = m
    BY SliceType
  <2> QED BY <1>5, <2>1 DEF Slice
<1>7. old \in Seq(S) /\ Len(old) = c
      /\ \A i \in 1 .. c : old[i] = b[(t + i - 1) % size]
  <2>1. old \in Seq(S) /\ Len(old) = c
    BY SliceType
  <2> QED BY <2>1 DEF Slice
<1>8. put \in Seq(S) /\ Len(put) = n /\ \A i \in 1 .. n : put[i] = s[i]
  <2>1. \A i \in 1 .. n : s[i] \in S
    BY <1>0, ElementOfSeq
  <2>2. /\ put \in Seq(S)
        /\ Len(put) = IF 1 <= n THEN n - 1 + 1 ELSE 0
        /\ \A i \in 1 .. n - 1 + 1 : put[i] = s[1 + i - 1]
    BY <1>0, <2>1, SubSeqProperties
  <2>3. n - 1 + 1 = n /\ \A i \in 1 .. n : 1 + i - 1 = i
    BY <1>0
  <2> HIDE DEF put
  <2> QED BY <1>0, <2>2, <2>3
<1> HIDE DEF old, new, put
<1>9. /\ old \o put \in Seq(S) /\ Len(old \o put) = c + n
      /\ \A i \in 1 .. c + n : (old \o put)[i] = IF i <= c THEN old[i] ELSE put[i - c]
  BY <1>7, <1>8, ConcatProperties
<1>10. ASSUME NEW i \in 1 .. c + n PROVE new[i] = (old \o put)[i]
  <2>1. PICK e \in 0 .. size - 1 : e = i - 1
    BY <1>0
  <2>2. PICK j \in 0 .. size - 1 : j = (t + e) % size
    BY <1>0, <2>1, Place
  <2>3. (j - h) % size = IF e >= c THEN e - c ELSE e - c + size
    <3>1. (((t + e) % size) - ((t + c) % size)) % size
            = IF e >= c THEN e - c ELSE e - c + size
      BY <1>0, PlaceOf
    <3> QED BY <1>1, <2>2, <3>1
  <2>5. CASE i <= c
    <3>1. (j - h) % size = e - c + size /\ ~(e - c + size < n)
      BY <1>0, <2>1, <2>3, <2>5
    <3>2. d[j] = b[j]
      BY <1>4, <3>1
    <3>3. new[i] = d[j] /\ old[i] = b[j]
      <4>1. t + i - 1 = t + e /\ i \in 1 .. c
        BY <1>0, <2>1, <2>5
      <4> QED BY <1>6, <1>7, <2>2, <4>1
    <3> QED BY <1>9, <2>5, <3>2, <3>3
  <2>6. CASE ~(i <= c)
    <3>1. (j - h) % size = e - c /\ e - c < n /\ e - c + 1 = i - c /\ i - c \in 1 .. n
      BY <1>0, <2>1, <2>3, <2>6
    <3>2. d[j] = s[i - c]
      BY <1>4, <3>1
    <3>3. new[i] = d[j]
      <4>1. t + i - 1 = t + e
        BY <1>0, <2>1
      <4> QED BY <1>6, <2>2, <4>1
    <3> QED BY <1>8, <1>9, <2>6, <3>1, <3>2, <3>3
  <2> QED BY <2>5, <2>6
<1>11. new = old \o put
  BY <1>6, <1>9, <1>10, SeqEqual
<1> QED BY <1>11 DEF old, new, put

\* The first k bytes in the buffer are the oldest.
LEMMA SliceFirst ==
    ASSUME NEW S, NEW size \in Nat \ {0}, NEW b \in Buffer(size, S),
           NEW t \in 0 .. size - 1, NEW c \in 0 .. size,
           NEW k \in 0 .. size, k <= c
    PROVE  Slice(b, size, t, k) = SubSeq(Slice(b, size, t, c), 1, k)
<1>0. k \in 0 .. size
  OBVIOUS
<1> DEFINE all == Slice(b, size, t, c)
           got == Slice(b, size, t, k)
<1>3. all \in Seq(S) /\ Len(all) = c
      /\ \A i \in 1 .. c : all[i] = b[(t + i - 1) % size]
  <2>1. all \in Seq(S) /\ Len(all) = c
    BY <1>0, SliceType
  <2> QED BY <2>1 DEF Slice
<1>4. got \in Seq(S) /\ Len(got) = k
      /\ \A i \in 1 .. k : got[i] = b[(t + i - 1) % size]
  <2>1. got \in Seq(S) /\ Len(got) = k
    BY <1>0, SliceType
  <2> QED BY <2>1 DEF Slice
<1> DEFINE front == SubSeq(all, 1, k)
<1> HIDE DEF all, got
<1>6. \A i \in 1 .. c : all[i] \in S
  BY <1>3, ElementOfSeq
<1>7. front \in Seq(S) /\ Len(front) = k /\ \A i \in 1 .. k : front[i] = all[i]
  <2>1. /\ front \in Seq(S)
        /\ Len(front) = IF 1 <= k THEN k - 1 + 1 ELSE 0
        /\ \A i \in 1 .. k - 1 + 1 : front[i] = all[1 + i - 1]
    BY <1>6, SubSeqProperties
  <2>2. k - 1 + 1 = k /\ \A i \in 1 .. k : 1 + i - 1 = i
    OBVIOUS
  <2> HIDE DEF front
  <2> QED BY <2>1, <2>2
<1> HIDE DEF front
<1>9. got = front
  <2>1. ASSUME NEW i \in 1 .. k PROVE got[i] = front[i]
    <3>1. i \in 1 .. c
      OBVIOUS
    <3> QED BY <1>3, <1>4, <1>7, <3>1
  <2> QED BY ONLY <1>4, <1>7, <2>1, SeqEqual
<1> QED BY <1>9 DEF all, got, front

\* Taking them leaves the others.
LEMMA SliceRest ==
    ASSUME NEW S, NEW size \in Nat \ {0}, NEW b \in Buffer(size, S),
           NEW t \in 0 .. size - 1, NEW c \in 0 .. size,
           NEW k \in 0 .. size, k <= c
    PROVE  \A u \in 0 .. size - 1, m \in 0 .. size :
              u = (t + k) % size /\ m = c - k
                => Slice(b, size, u, m) = SubSeq(Slice(b, size, t, c), k + 1, c)
<1> SUFFICES ASSUME NEW u \in 0 .. size - 1, u = (t + k) % size,
                    NEW m \in 0 .. size, m = c - k
             PROVE  Slice(b, size, u, m) = SubSeq(Slice(b, size, t, c), k + 1, c)
  OBVIOUS
<1>0. k \in 0 .. c
  OBVIOUS
<1>1. u = IF t + k < size THEN t + k ELSE t + k - size
  BY <1>0, PlaceBehind
<1> DEFINE all == Slice(b, size, t, c)
           left == Slice(b, size, u, m)
<1>3. all \in Seq(S) /\ Len(all) = c
      /\ \A i \in 1 .. c : all[i] = b[(t + i - 1) % size]
  <2>1. all \in Seq(S) /\ Len(all) = c
    BY <1>0, SliceType
  <2> QED BY <2>1 DEF Slice
<1>5. left \in Seq(S) /\ Len(left) = c - k
      /\ \A i \in 1 .. c - k : left[i] = b[(u + i - 1) % size]
  <2>1. left \in Seq(S) /\ Len(left) = m
    BY SliceType
  <2> QED BY <2>1 DEF Slice
<1> DEFINE rest == SubSeq(all, k + 1, c)
<1> HIDE DEF all, left
<1>6. \A i \in 1 .. c : all[i] \in S
  BY <1>3, ElementOfSeq
<1>8. rest \in Seq(S) /\ Len(rest) = c - k /\ \A i \in 1 .. c - k : rest[i] = all[k + i]
  <2>1. /\ rest \in Seq(S)
        /\ Len(rest) = IF k + 1 <= c THEN c - (k + 1) + 1 ELSE 0
        /\ \A i \in 1 .. c - (k + 1) + 1 : rest[i] = all[k + 1 + i - 1]
    <3>1. k + 1 \in 1 .. c + 1 /\ \A i \in k + 1 .. c : all[i] \in S
      BY <1>6
    <3> QED BY <3>1, SubSeqProperties
  <2>2. c - (k + 1) + 1 = c - k /\ \A i \in 1 .. c - k : k + 1 + i - 1 = k + i
    OBVIOUS
  <2> HIDE DEF rest
  <2> QED BY <2>1, <2>2
<1> HIDE DEF rest
<1>10. ASSUME NEW i \in 1 .. c - k PROVE left[i] = rest[i]
  <2>1. PICK e \in 0 .. size - 1 : e = i - 1
    BY <1>0
  <2>2. PICK f \in 0 .. size - 1 : f = k + i - 1
    BY <1>0
  <2>3. (u + e) % size = IF u + e < size THEN u + e ELSE u + e - size
    BY <1>0, <1>1, Place
  <2>4. (t + f) % size = IF t + f < size THEN t + f ELSE t + f - size
    BY <1>0, Place
  <2>5. (u + e) % size = (t + f) % size
    BY ONLY <1>1, <2>1, <2>2, <2>3, <2>4
  <2>6. u + i - 1 = u + e /\ t + (k + i) - 1 = t + f /\ k + i \in 1 .. c
    BY <1>0, <1>1, <2>1, <2>2
  <2>7. left[i] = b[(u + i - 1) % size] /\ rest[i] = all[k + i]
    BY <1>5, <1>8
  <2>8. all[k + i] = b[(t + (k + i) - 1) % size]
    BY <1>3, <2>6
  <2> QED BY <2>5, <2>6, <2>7, <2>8
<1>11. left = rest
  BY <1>5, <1>8, <1>10, SeqEqual
<1> QED BY <1>11 DEF all, left, rest

\* Two runs of slots are one.
LEMMA PlacesAdd ==
    ASSUME NEW size \in Nat \ {0}, NEW t \in 0 .. size - 1,
           NEW a \in 0 .. size, NEW b \in 0 .. size, a + b <= size
    PROVE  (((t + a) % size) + b) % size = (t + (a + b)) % size
<1>1. PICK h \in 0 .. size - 1 : /\ h = (t + a) % size
                                 /\ h = IF t + a < size THEN t + a ELSE t + a - size
  BY PlaceBehind
<1>2. (h + b) % size = IF h + b < size THEN h + b ELSE h + b - size
  BY PlaceBehind
<1>3. PICK c \in 0 .. size : c = a + b
  OBVIOUS
<1>4. (t + c) % size = IF t + c < size THEN t + c ELSE t + c - size
  BY PlaceBehind
<1>5. (h + b) % size = (t + c) % size
  BY <1>1, <1>3, <1>4
<1> QED BY <1>1, <1>3, <1>5

-----------------------------------------------------------------------------
(* The keyboard ring.                                                      *)

\* What the refinement rests on: the bytes between the indices are real
\* characters, and between the two halves of get_keyboard_char there is one,
\* the one in `kbdC', whatever the handler has stored meanwhile.
KbdInv ==
    /\ KbdTypeOK
    /\ \A i \in 1 .. KbdUsed : KbdContents[i] # 0
    /\ kbdPc = "loaded" => KbdUsed > 0 /\ kbdC = kbdBuffer[kbdTail]

USE DEF KbdSlot

Byte == 0 .. 127

-----------------------------------------------------------------------------
\* The size as the lemmas about buffers want it.
LEMMA SizeFact == BufferSize \in Nat \ {0} /\ BufferSize >= 2
  BY KbdSizeAssumption

LEMMA UsedFact ==
    ASSUME KbdTypeOK
    PROVE  /\ KbdUsed = IF kbdHead >= kbdTail THEN kbdHead - kbdTail
                     ELSE kbdHead - kbdTail + BufferSize
           /\ KbdUsed \in 0 .. BufferSize - 1
           /\ KbdUsed = 0 <=> kbdHead = kbdTail
           /\ (kbdTail + KbdUsed) % BufferSize = kbdHead
<1>1. kbdHead \in 0 .. BufferSize - 1 /\ kbdTail \in 0 .. BufferSize - 1
  BY DEF KbdTypeOK
<1>2. KbdUsed = IF kbdHead >= kbdTail THEN kbdHead - kbdTail
             ELSE kbdHead - kbdTail + BufferSize
  BY <1>1, SizeFact, Distance DEF KbdUsed
<1>3. KbdUsed \in 0 .. BufferSize - 1 /\ (KbdUsed = 0 <=> kbdHead = kbdTail)
  BY <1>1, <1>2, SizeFact
<1>4. (kbdTail + KbdUsed) % BufferSize
        = IF kbdTail + KbdUsed < BufferSize THEN kbdTail + KbdUsed ELSE kbdTail + KbdUsed - BufferSize
  BY <1>1, <1>3, SizeFact, Place
<1> QED BY <1>1, <1>2, <1>3, <1>4, SizeFact

LEMMA ContentsFact ==
    ASSUME KbdTypeOK
    PROVE  /\ KbdContents \in Seq(Byte)
           /\ Len(KbdContents) = KbdUsed
<1>1. kbdTail \in 0 .. BufferSize - 1 /\ kbdBuffer \in Buffer(BufferSize, Byte)
  BY DEF KbdTypeOK, Byte, Buffer
<1>2. KbdUsed \in 0 .. BufferSize
  <2>1. KbdUsed \in 0 .. BufferSize - 1
    BY UsedFact
  <2> QED BY <2>1, SizeFact
<1> QED BY <1>1, <1>2, SizeFact, SliceSeq DEF KbdContents

\* A character the handler stores goes to the end of the contents.
LEMMA StoreFact ==
    ASSUME KbdTypeOK, NEW sc \in Scancodes, CharKey(sc)
    PROVE  /\ Translated(sc) \in Char
           /\ KbdUsed < BufferSize - 1
           /\ KbdUsed' = KbdUsed + 1
           /\ KbdContents' = Append(KbdContents, Translated(sc))
<1>1. /\ kbdHead \in 0 .. BufferSize - 1 /\ kbdTail \in 0 .. BufferSize - 1
      /\ kbdBuffer \in Buffer(BufferSize, Byte)
  BY DEF KbdTypeOK, Byte, Buffer
<1>2. /\ After(kbdHead) \in 0 .. BufferSize - 1
      /\ After(kbdHead) = IF kbdHead = BufferSize - 1 THEN 0 ELSE kbdHead + 1
  BY <1>1, SizeFact, Succession DEF After
<1>3. /\ kbdTail' = kbdTail /\ kbdHead' = After(kbdHead) /\ After(kbdHead) # kbdTail
      /\ kbdBuffer' = [kbdBuffer EXCEPT ![kbdHead] = Translated(sc)]
      /\ Translated(sc) # 0 /\ sc \in Make
  BY DEF CharKey, Room
<1>4. Translated(sc) \in Char
  <2>1. KbdUs[sc] \in 0 .. 127 /\ KbdUsShifted[sc] \in 0 .. 127
    BY <1>3, TableAssumption
  <2>2. Translated(sc) \in 0 .. 127
    BY <2>1 DEF Translated
  <2> QED BY <1>3, <2>2 DEF Char
<1>5. KbdUsed' = IF kbdHead' >= kbdTail' THEN kbdHead' - kbdTail'
              ELSE kbdHead' - kbdTail' + BufferSize
  BY <1>1, <1>2, <1>3, SizeFact, Distance DEF KbdUsed
<1>6. KbdUsed < BufferSize - 1 /\ KbdUsed' = KbdUsed + 1
  BY <1>1, <1>2, <1>3, <1>5, UsedFact, SizeFact
<1>7. KbdContents' = Slice(kbdBuffer', BufferSize, kbdTail, KbdUsed + 1)
  BY <1>3, <1>6 DEF KbdContents
<1>8. Slice(kbdBuffer', BufferSize, kbdTail, KbdUsed + 1)
        = Append(Slice(kbdBuffer, BufferSize, kbdTail, KbdUsed), Translated(sc))
  <2>1. Translated(sc) \in Byte /\ KbdUsed \in 0 .. BufferSize - 1
    BY <1>4, UsedFact DEF Char, Byte
  <2>2. kbdHead = (kbdTail + KbdUsed) % BufferSize
    BY UsedFact
  <2>3. /\ kbdBuffer' \in Buffer(BufferSize, Byte)
        /\ StoredAt(kbdBuffer, kbdBuffer', kbdHead, Translated(sc), BufferSize)
    BY <1>1, <1>3, <2>1 DEF StoredAt, Buffer
  <2>4. BufferSize \in Nat \ {0}
    BY SizeFact
  <2> QED BY <1>1, <2>1, <2>2, <2>3, <2>4, SliceStore
<1>9. KbdContents' = Append(KbdContents, Translated(sc))
  BY <1>3, <1>7, <1>8, UsedFact DEF KbdContents
<1> QED BY <1>4, <1>6, <1>9

\* The main loop's store of kbd_tail takes the first character.
LEMMA TakeFact ==
    ASSUME KbdInv, Advance
    PROVE  /\ KbdUsed > 0
           /\ KbdUsed' = KbdUsed - 1
           /\ KbdContents[1] = kbdC
           /\ KbdContents' = SubSeq(KbdContents, 2, KbdUsed)
<1>1. /\ kbdHead \in 0 .. BufferSize - 1 /\ kbdTail \in 0 .. BufferSize - 1
      /\ kbdBuffer \in Buffer(BufferSize, Byte)
      /\ KbdTypeOK /\ KbdUsed > 0 /\ kbdC = kbdBuffer[kbdTail]
  BY DEF KbdInv, KbdTypeOK, Advance, Byte, Buffer
<1>2. /\ After(kbdTail) \in 0 .. BufferSize - 1
      /\ After(kbdTail) = IF kbdTail = BufferSize - 1 THEN 0 ELSE kbdTail + 1
  BY <1>1, SizeFact, Succession DEF After
<1>3. kbdTail' = After(kbdTail) /\ kbdHead' = kbdHead /\ kbdBuffer' = kbdBuffer
  BY DEF Advance
<1>4. KbdUsed' = IF kbdHead' >= kbdTail' THEN kbdHead' - kbdTail'
              ELSE kbdHead' - kbdTail' + BufferSize
  BY <1>1, <1>2, <1>3, SizeFact, Distance DEF KbdUsed
<1>5. KbdUsed' = KbdUsed - 1
  <2>1. KbdUsed = IF kbdHead >= kbdTail THEN kbdHead - kbdTail
               ELSE kbdHead - kbdTail + BufferSize
    BY <1>1, UsedFact
  <2>2. kbdHead # kbdTail
    BY <1>1, <2>1
  <2> QED BY <1>1, <1>2, <1>3, <1>4, <2>1, <2>2, SizeFact
<1>6. /\ Slice(kbdBuffer, BufferSize, kbdTail, KbdUsed)[1] = kbdBuffer[kbdTail]
      /\ Slice(kbdBuffer, BufferSize, (kbdTail + 1) % BufferSize, KbdUsed - 1)
           = SubSeq(Slice(kbdBuffer, BufferSize, kbdTail, KbdUsed), 2, KbdUsed)
  <2>1. KbdUsed \in 1 .. BufferSize
    BY <1>1, UsedFact, SizeFact
  <2> QED BY <1>1, <2>1, SizeFact, SliceTake
<1> QED BY <1>1, <1>3, <1>5, <1>6 DEF KbdContents, After

-----------------------------------------------------------------------------
(* The invariant.                                                          *)

LEMMA KbdInitType == KbdInit => KbdTypeOK
<1>1. 0 \in 0 .. BufferSize - 1 /\ 0 \in 0 .. 127
  BY SizeFact
<1> QED BY <1>1 DEF KbdInit, KbdTypeOK

LEMMA KbdInitInv == KbdInit => KbdInv
<1> SUFFICES ASSUME KbdInit PROVE KbdInv
  OBVIOUS
<1>1. KbdTypeOK
  BY KbdInitType
<1>2. KbdUsed = 0 /\ kbdPc = "outside"
  BY <1>1, UsedFact DEF KbdInit
<1> QED BY <1>1, <1>2 DEF KbdInv

LEMMA KbdStepInv == KbdInv /\ [KbdNext]_kbdVars => KbdInv'
<1> SUFFICES ASSUME KbdInv, [KbdNext]_kbdVars PROVE KbdInv'
  OBVIOUS
<1>1. /\ KbdTypeOK
      /\ \A i \in 1 .. KbdUsed : KbdContents[i] # 0
      /\ kbdPc = "loaded" => KbdUsed > 0 /\ kbdC = kbdBuffer[kbdTail]
      /\ KbdUsed \in 0 .. BufferSize - 1
      /\ KbdContents \in Seq(Byte) /\ Len(KbdContents) = KbdUsed
  BY UsedFact, ContentsFact DEF KbdInv
<1>2. ASSUME kbdHead \in KbdSlot, kbdTail \in KbdSlot
      PROVE  After(kbdHead) \in KbdSlot /\ After(kbdTail) \in KbdSlot
  BY <1>2, SizeFact, Succession DEF After
<1>3. ASSUME NEW sc \in Scancodes, ShiftKey(sc) PROVE KbdInv'
  BY <1>1, <1>3 DEF ShiftKey, KbdInv, KbdTypeOK, KbdUsed, KbdContents, kbdRing
<1>4. ASSUME NEW sc \in Scancodes, CtrlKey(sc) PROVE KbdInv'
  BY <1>1, <1>4 DEF CtrlKey, KbdInv, KbdTypeOK, KbdUsed, KbdContents, kbdRing
<1>5. ASSUME NEW sc \in Scancodes, CharKey(sc) PROVE KbdInv'
  <2>1. /\ Translated(sc) \in Char /\ KbdUsed < BufferSize - 1 /\ KbdUsed' = KbdUsed + 1
        /\ KbdContents' = Append(KbdContents, Translated(sc))
    BY <1>1, <1>5, StoreFact
  <2>2. KbdTypeOK'
    BY <1>1, <1>2, <1>5, <2>1 DEF CharKey, KbdTypeOK, Char
  <2>3. \A i \in 1 .. KbdUsed' : KbdContents'[i] # 0
    <3>1. Translated(sc) \in Byte /\ Translated(sc) # 0
      <4>1. \A ch \in Char : ch \in Byte /\ ch # 0
        BY DEF Char, Byte
      <4> QED BY <2>1, <4>1
    <3>2. /\ \A i \in 1 .. KbdUsed : KbdContents'[i] = KbdContents[i]
          /\ KbdContents'[KbdUsed + 1] = Translated(sc)
      BY <1>1, <2>1, <3>1, AppendProperties
    <3>3. \A i \in 1 .. KbdUsed + 1 : i \in 1 .. KbdUsed \/ i = KbdUsed + 1
      BY <1>1
    <3> QED BY <1>1, <2>1, <3>1, <3>2, <3>3
  <2>4. kbdPc' = "loaded" => KbdUsed' > 0 /\ kbdC' = kbdBuffer'[kbdTail']
    <3>1. KbdUsed > 0 => kbdHead # kbdTail
      BY <1>1, UsedFact
    <3> QED BY <1>1, <1>5, <2>1, <3>1 DEF CharKey, KbdTypeOK
  <2> QED BY <2>2, <2>3, <2>4 DEF KbdInv
<1>6. CASE Empty
  BY <1>1, <1>6 DEF Empty, KbdInv, KbdTypeOK, KbdUsed, KbdContents, kbdRing
<1>7. CASE Load
  <2>1. KbdUsed > 0
    BY <1>1, <1>7, UsedFact DEF Load
  <2> QED BY <1>1, <1>7, <2>1 DEF Load, KbdInv, KbdTypeOK, KbdUsed, KbdContents, kbdRing
<1>8. CASE Advance
  <2>1. /\ KbdUsed > 0 /\ KbdUsed' = KbdUsed - 1
        /\ KbdContents' = SubSeq(KbdContents, 2, KbdUsed)
    BY <1>8, TakeFact
  <2>2. KbdTypeOK' /\ kbdPc' = "outside"
    BY <1>1, <1>2, <1>8 DEF Advance, KbdTypeOK
  <2>3. ASSUME NEW i \in 1 .. KbdUsed' PROVE KbdContents'[i] # 0
    <3>1. i + 1 \in 1 .. KbdUsed /\ i \in 1 .. KbdUsed - 2 + 1 /\ 2 + i - 1 = i + 1
      BY <1>1, <2>1
    <3>2. \A j \in 2 .. KbdUsed : KbdContents[j] \in Byte
      BY <1>1
    <3>3. SubSeq(KbdContents, 2, KbdUsed)[i] = KbdContents[2 + i - 1]
      BY <1>1, <3>1, <3>2, SubSeqProperties
    <3> QED BY <1>1, <2>1, <3>1, <3>3
  <2> QED BY <2>2, <2>3 DEF KbdInv
<1>9. CASE UNCHANGED kbdVars
  BY <1>1, <1>9 DEF kbdVars, KbdInv, KbdTypeOK, KbdUsed, KbdContents, kbdRing
<1> QED BY <1>3, <1>4, <1>5, <1>6, <1>7, <1>8, <1>9 DEF KbdNext, KeyboardHandler

THEOREM KbdInvariant == KbdSpec => []KbdInv
<1>1. KbdInit => KbdInv
  BY KbdInitInv
<1>2. KbdInv /\ [KbdNext]_kbdVars => KbdInv'
  BY KbdStepInv
<1> QED BY <1>1, <1>2, PTL DEF KbdSpec

\* Every reachable state of the keyboard driver is well typed: neither index
\* ever leaves kbd_buffer, for any size and any tables.
THEOREM KeyboardTypeCorrect == KbdSpec => []KbdTypeOK
<1>1. KbdInv => KbdTypeOK
  BY DEF KbdInv
<1> QED BY <1>1, KbdInvariant, PTL

-----------------------------------------------------------------------------
(* The refinement.                                                         *)

LEMMA KbdInitRefines == KbdInit => Fifo!Init
<1> SUFFICES ASSUME KbdInit PROVE Fifo!Init
  OBVIOUS
<1>1. KbdTypeOK /\ kbdChar = 0
  BY KbdInitType DEF KbdInit
<1>2. KbdUsed = 0
  BY <1>1, UsedFact DEF KbdInit
<1>3. KbdContents = <<>>
  BY <1>2 DEF KbdContents, Slice
<1> QED BY <1>1, <1>3 DEF Fifo!Init

LEMMA KbdStepRefines == KbdInv /\ KbdInv' /\ [KbdNext]_kbdVars => [Fifo!Next]_(Fifo!vars)
<1> SUFFICES ASSUME KbdInv, KbdInv', [KbdNext]_kbdVars PROVE [Fifo!Next]_(Fifo!vars)
  OBVIOUS
<1> DEFINE D == IF kbdChar = 0 THEN <<>> ELSE <<kbdChar>>
<1>1. /\ KbdTypeOK /\ KbdUsed \in 0 .. BufferSize - 1
      /\ KbdContents \in Seq(Byte) /\ Len(KbdContents) = KbdUsed
  BY UsedFact, ContentsFact DEF KbdInv
<1>2. ASSUME kbdChar' = kbdChar, UNCHANGED kbdRing PROVE UNCHANGED Fifo!vars
  BY <1>2 DEF kbdRing, Fifo!vars, KbdContents, KbdUsed
<1>3. ASSUME NEW sc \in Scancodes, CharKey(sc) PROVE Fifo!Next
  <2> DEFINE s == <<Translated(sc)>>
  <2>1. /\ Translated(sc) \in Char /\ KbdUsed < BufferSize - 1
        /\ KbdContents' = Append(KbdContents, Translated(sc))
    BY <1>1, <1>3, StoreFact
  <2>2. Translated(sc) \in Byte
    BY <2>1 DEF Char, Byte
  <2>3. Append(KbdContents, Translated(sc)) = KbdContents \o s
    BY <1>1, <2>2, AppendIsConcat
  <2>4. Fifo!Least(Len(s), BufferSize - 1 - Len(KbdContents)) = 1
    BY <1>1, <2>1, SizeFact DEF Fifo!Least
  <2>5. SubSeq(s, 1, 1) = s
    <3>1. s \in Seq(Byte) /\ Len(s) >= 1 /\ s[1] = Translated(sc)
      BY <2>2
    <3> QED BY <3>1, FirstByte
  <2>6. kbdChar' = kbdChar
    BY <1>3 DEF CharKey
  <2>7. Fifo!Put(s)
    BY <2>1, <2>3, <2>4, <2>5, <2>6 DEF Fifo!Put
  <2>8. s \in {<<ch>> : ch \in Char}
    BY <2>1
  <2> QED BY <2>7, <2>8 DEF Fifo!Next
<1>4. CASE Empty
  <2>1. KbdUsed = 0 /\ KbdUsed' = KbdUsed /\ KbdContents' = KbdContents /\ kbdChar' = 0
    BY <1>1, <1>4, UsedFact DEF Empty, kbdRing, KbdUsed, KbdContents
  <2>2. KbdContents = <<>>
    BY <2>1 DEF KbdContents, Slice
  <2>3. Fifo!Least(1, Len(KbdContents)) = 0
    BY <1>1, <2>1 DEF Fifo!Least
  <2>4. SubSeq(KbdContents, 1, 0) = <<>> /\ SubSeq(KbdContents, 0 + 1, Len(KbdContents)) = KbdContents
    BY <2>2
  <2>5. Fifo!Get(1)
    BY <2>1, <2>2, <2>3, <2>4 DEF Fifo!Get
  <2> QED BY <2>5 DEF Fifo!Next
<1>5. CASE Advance
  <2>1. KbdUsed > 0 /\ KbdContents[1] = kbdC /\ KbdContents' = SubSeq(KbdContents, 2, KbdUsed)
    BY <1>5, TakeFact
  <2>2. kbdChar' = kbdC /\ kbdC # 0
    <3>1. 1 \in 1 .. KbdUsed
      BY <1>1, <2>1
    <3> QED BY <1>5, <2>1, <3>1 DEF Advance, KbdInv
  <2>3. Fifo!Least(1, Len(KbdContents)) = 1
    BY <1>1, <2>1 DEF Fifo!Least
  <2>4. SubSeq(KbdContents, 1, 1) = <<kbdC>>
    <3>1. SubSeq(KbdContents, 1, 1) = <<KbdContents[1]>>
      BY <1>1, <2>1, FirstByte
    <3> QED BY <2>1, <3>1
  <2>5. Fifo!Get(1)
    BY <1>1, <2>1, <2>2, <2>3, <2>4 DEF Fifo!Get
  <2> QED BY <2>5 DEF Fifo!Next
<1>6. CASE Load
  BY <1>2, <1>6 DEF Load
<1>7. ASSUME NEW sc \in Scancodes, ShiftKey(sc) \/ CtrlKey(sc) PROVE UNCHANGED Fifo!vars
  BY <1>2, <1>7 DEF ShiftKey, CtrlKey
<1>8. CASE UNCHANGED kbdVars
  BY <1>2, <1>8 DEF kbdVars
<1> QED BY <1>3, <1>4, <1>5, <1>6, <1>7, <1>8 DEF KbdNext, KeyboardHandler

\* The keyboard ring implements the bounded FIFO: whatever the handler stores
\* reaches the main loop once, in order, for every size of the buffer.
THEOREM RingImplementsFifo == KbdSpec => ImplementsFifo
<1>1. KbdInit => Fifo!Init
  BY KbdInitRefines
<1>2. KbdInv /\ KbdInv' /\ [KbdNext]_kbdVars => [Fifo!Next]_(Fifo!vars)
  BY KbdStepRefines
<1> QED BY <1>1, <1>2, KbdInvariant, PTL DEF KbdSpec, ImplementsFifo, Fifo!Spec

-----------------------------------------------------------------------------
(* The pipes.                                                              *)

\* The head is where the bytes that wait end.
HeadBehind == \A i \in Pipe : head[i] = (tail[i] + count[i]) % PipeSize

\* A pipe in use has a name, and no other has it.
OwnName ==
    /\ \A i \in Pipe : active[i] => name[i] \in Names
    /\ \A i, j \in Pipe : i # j /\ active[i] /\ active[j] => name[i] # name[j]

\* A descriptor leads to a pipe in use.
OpenIsActive ==
    \A t \in Programs : \A fd \in Fd : fdTable[t][fd] # NoPipe => active[fdTable[t][fd]]

\* The inductive invariant.
PipesInv == TypeOK /\ HeadBehind /\ OwnName /\ OpenIsActive

-----------------------------------------------------------------------------
(* The lemmas about circular buffers, for one of PipeSize bytes.           *)

LEMMA PipeSlice ==
    ASSUME NEW b \in Buffer(PipeSize, Bytes), NEW t \in Slot, NEW n \in 0 .. PipeSize
    PROVE  Slice(b, PipeSize, t, n) \in Seq(Bytes) /\ Len(Slice(b, PipeSize, t, n)) = n
<1>1. PICK size \in Nat \ {0} : size = PipeSize
  BY SizeAssumption
<1>2. b \in Buffer(size, Bytes) /\ t \in 0 .. size - 1 /\ n \in 0 .. size
  BY <1>1 DEF Slot
<1>3. Slice(b, size, t, n) \in Seq(Bytes) /\ Len(Slice(b, size, t, n)) = n
  BY <1>2, SliceType
<1> QED BY <1>1, <1>3

\* The slot n places behind slot t.
LEMMA SlotBehind ==
    ASSUME NEW t \in Slot, NEW n \in 0 .. PipeSize
    PROVE  (t + n) % PipeSize \in Slot
<1>1. PICK size \in Nat \ {0} : size = PipeSize
  BY SizeAssumption
<1>2. t \in 0 .. size - 1 /\ n \in 0 .. size
  BY <1>1 DEF Slot
<1>3. (t + n) % size \in 0 .. size - 1
  BY <1>2, PlaceBehind
<1> QED BY <1>1, <1>3 DEF Slot

LEMMA SlotsAdd ==
    ASSUME NEW t \in Slot, NEW a \in 0 .. PipeSize, NEW b \in 0 .. PipeSize,
           a + b <= PipeSize
    PROVE  (((t + a) % PipeSize) + b) % PipeSize = (t + (a + b)) % PipeSize
<1>1. PICK size \in Nat \ {0} : size = PipeSize
  BY SizeAssumption
<1>2. t \in 0 .. size - 1 /\ a \in 0 .. size /\ b \in 0 .. size /\ a + b <= size
  BY <1>1 DEF Slot
<1>3. (((t + a) % size) + b) % size = (t + (a + b)) % size
  BY <1>2, PlacesAdd
<1> QED BY <1>1, <1>3

LEMMA PipeDrop ==
    ASSUME NEW b \in Buffer(PipeSize, Bytes), NEW t \in Slot,
           NEW c \in 0 .. PipeSize, NEW k \in 0 .. c
    PROVE  /\ (t + k) % PipeSize \in Slot
           /\ Slice(b, PipeSize, t, k) = SubSeq(Slice(b, PipeSize, t, c), 1, k)
           /\ Slice(b, PipeSize, (t + k) % PipeSize, c - k)
                = SubSeq(Slice(b, PipeSize, t, c), k + 1, c)
<1>1. PICK size \in Nat \ {0} : size = PipeSize
  BY SizeAssumption
<1>2. b \in Buffer(size, Bytes) /\ t \in 0 .. size - 1 /\ c \in 0 .. size
  BY <1>1 DEF Slot
<1>3. PICK u \in 0 .. size - 1 : u = (t + k) % size
  <2>1. k \in 0 .. size
    BY <1>2
  <2> QED BY <1>2, <2>1, PlaceBehind
<1>4. PICK m \in 0 .. size : m = c - k
  BY <1>2
<1>5. Slice(b, size, t, k) = SubSeq(Slice(b, size, t, c), 1, k)
  BY <1>2, SliceFirst
<1>6. Slice(b, size, u, m) = SubSeq(Slice(b, size, t, c), k + 1, c)
  <2>1. \A v \in 0 .. size - 1, l \in 0 .. size :
           v = (t + k) % size /\ l = c - k
             => Slice(b, size, v, l) = SubSeq(Slice(b, size, t, c), k + 1, c)
    BY <1>2, SliceRest
  <2> QED BY <1>3, <1>4, <2>1
<1> QED BY <1>1, <1>3, <1>4, <1>5, <1>6 DEF Slot

\* What Stored makes of a buffer.
LEMMA PipeAppend ==
    ASSUME NEW b \in Buffer(PipeSize, Bytes), NEW t \in Slot, NEW c \in 0 .. PipeSize,
           NEW s \in Seq(Bytes), NEW n \in 0 .. Len(s), c + n <= PipeSize,
           NEW h \in Slot, h = (t + c) % PipeSize
    PROVE  /\ Stored(b, h, s, n) \in Buffer(PipeSize, Bytes)
           /\ Slice(Stored(b, h, s, n), PipeSize, t, c + n)
                = Slice(b, PipeSize, t, c) \o SubSeq(s, 1, n)
<1>1. PICK size \in Nat \ {0} : size = PipeSize
  BY SizeAssumption
<1>2. /\ b \in Buffer(size, Bytes) /\ t \in 0 .. size - 1 /\ h \in 0 .. size - 1
      /\ c \in 0 .. size /\ c + n <= size /\ h = (t + c) % size
  BY <1>1 DEF Slot
<1>3. PICK d : d = [j \in 0 .. size - 1 |->
                      IF (j - h) % size < n THEN s[((j - h) % size) + 1] ELSE b[j]]
  OBVIOUS
<1>4. Stored(b, h, s, n) = d
  BY <1>1, <1>3 DEF Stored, Slot
<1>5. ASSUME NEW j \in 0 .. size - 1
      PROVE  (IF (j - h) % size < n THEN s[((j - h) % size) + 1] ELSE b[j]) \in Bytes
  <2>1. (j - h) % size = IF j >= h THEN j - h ELSE j - h + size
    BY <1>2, Distance
  <2>2. PICK k \in 0 .. size - 1 : k = (j - h) % size
    BY <1>2, <2>1
  <2>3. Len(s) \in Nat
    OBVIOUS
  <2>4. k < n => k + 1 \in 1 .. Len(s)
    BY <2>3
  <2>5. k < n => s[k + 1] \in Bytes
    BY <2>4, ElementOfSeq
  <2>6. b[j] \in Bytes
    BY <1>2 DEF Buffer
  <2> QED BY <2>2, <2>5, <2>6
<1>6. d \in Buffer(size, Bytes)
  BY <1>3, <1>5 DEF Buffer
<1>7. RunAt(b, d, (t + c) % size, s, n, size)
  BY <1>2, <1>3 DEF RunAt
<1>8. Slice(d, size, t, c + n) = Slice(b, size, t, c) \o SubSeq(s, 1, n)
  BY <1>2, <1>6, <1>7, SliceAppend
<1> QED BY <1>1, <1>4, <1>6, <1>8

-----------------------------------------------------------------------------
(* Every name has one queue.                                               *)

LEMMA Indices ==
    /\ \A i \in Pipe : i \in Int /\ i # NoPipe
    /\ 0 \in Slot /\ PipeSize \in Nat \ {0} /\ 0 \in 0 .. PipeSize
    /\ Slot = 0 .. PipeSize - 1
  BY SizeAssumption, PipeAssumption DEF Pipe, Slot

LEMMA OnlyChoice == ASSUME NEW S, NEW j, S = {j} PROVE (CHOOSE i \in S : TRUE) = j
<1>1. PICK c : c = CHOOSE i \in S : TRUE
  OBVIOUS
<1>2. c \in S
  BY <1>1
<1> QED BY <1>1, <1>2

LEMMA TheQueue ==
    ASSUME OwnName, NEW j \in Pipe, active[j]
    PROVE  /\ name[j] \in Names
           /\ Called(name[j]) = {j}
           /\ Queue(name[j]) = Contents(j)
<1>1. name[j] \in Names /\ Called(name[j]) = {j}
  BY DEF OwnName, Called
<1>2. (CHOOSE i \in Called(name[j]) : TRUE) = j
  BY <1>1, OnlyChoice
<1> QED BY <1>1, <1>2 DEF Queue

LEMMA TheQueueNext ==
    ASSUME OwnName', NEW j \in Pipe, active'[j]
    PROVE  /\ name'[j] \in Names
           /\ \A n : n = name'[j] => Called(n)' = {j} /\ Queue(n)' = Contents(j)'
<1>1. name'[j] \in Names /\ \A n : n = name'[j] => Called(n)' = {j}
  BY DEF OwnName, Called
<1>2. ASSUME NEW n, n = name'[j] PROVE Queue(n)' = Contents(j)'
  <2>1. (CHOOSE i \in Called(n)' : TRUE) = j
    BY <1>1, <1>2, OnlyChoice
  <2> QED BY <1>1, <1>2, <2>1 DEF Queue, Contents
<1> QED BY <1>1, <1>2

LEMMA NoQueue == \A n : /\ Called(n) = {} => Queue(n) = <<>>
                        /\ Called(n)' = {} => Queue(n)' = <<>>
  BY DEF Queue

\* Nobody is renamed, and one pipe's bytes change: so does one queue.
LEMMA QueueStep ==
    ASSUME OwnName, OwnName', UNCHANGED <<active, name>>,
           NEW i \in Pipe, active[i],
           \A j \in Pipe \ {i} : Contents(j)' = Contents(j)
    PROVE  Queues' = [Queues EXCEPT ![name[i]] = Contents(i)']
<1>1. ASSUME NEW m \in Names
      PROVE  Queue(m)' = IF m = name[i] THEN Contents(i)' ELSE Queue(m)
  <2>1. Called(m)' = Called(m)
    BY DEF Called
  <2>2. CASE Called(m) = {}
    <3>1. m # name[i]
      BY <2>2, TheQueue
    <3> QED BY <2>1, <2>2, <3>1, NoQueue
  <2>3. CASE Called(m) # {}
    <3>1. PICK j \in Pipe : active[j] /\ name[j] = m
      BY <2>3 DEF Called
    <3>2. Queue(m) = Contents(j) /\ Called(m) = {j}
      BY <3>1, TheQueue
    <3>3. Queue(m)' = Contents(j)'
      BY <3>1, TheQueueNext
    <3>4. m = name[i] <=> j = i
      BY <3>1, <3>2 DEF Called
    <3> QED BY <3>2, <3>3, <3>4
  <2> QED BY <2>2, <2>3
<1>2. Queues' = [m \in Names |-> Queue(m)']
  BY DEF Queues
<1>3. Queues = [m \in Names |-> Queue(m)]
  BY DEF Queues
<1> QED BY <1>1, <1>2, <1>3

LEMMA SameQueues ==
    ASSUME UNCHANGED pipes
    PROVE  Queues' = Queues
  BY DEF Queues, Queue, Contents, Called, pipes

\* A descriptor changes and every other still leads to the name it led to.
LEMMA NamesStep ==
    ASSUME NEW t \in Programs, NEW fd \in Fd,
           \A u \in Programs : \A f \in Fd :
              u # t \/ f # fd => fdTable'[u][f] = fdTable[u][f],
           \A u \in Programs : \A f \in Fd :
              fdTable[u][f] # NoPipe => name'[fdTable[u][f]] = name[fdTable[u][f]]
    PROVE  OpenNames' = [OpenNames EXCEPT ![t][fd] =
                            IF fdTable'[t][fd] = NoPipe THEN NoName
                            ELSE name'[fdTable'[t][fd]]]
<1>n. PICK n : n = IF fdTable'[t][fd] = NoPipe THEN NoName ELSE name'[fdTable'[t][fd]]
  OBVIOUS
<1>1. ASSUME NEW u \in Programs, NEW f \in Fd
      PROVE  NameOf(fdTable[u][f])' = IF u = t /\ f = fd THEN n ELSE NameOf(fdTable[u][f])
  BY <1>n DEF TypeOK, NameOf
<1>2. OpenNames' = [u \in Programs |-> [f \in Fd |-> NameOf(fdTable[u][f])']]
  BY DEF OpenNames
<1>3. OpenNames = [u \in Programs |-> [f \in Fd |-> NameOf(fdTable[u][f])]]
  BY DEF OpenNames
<1>4. ASSUME NEW u \in Programs, u # t PROVE OpenNames'[u] = OpenNames[u]
  BY <1>1, <1>2, <1>3, <1>4
<1>5. OpenNames'[t] = [OpenNames[t] EXCEPT ![fd] = n]
  BY <1>1, <1>2, <1>3
<1>6. DOMAIN OpenNames' = Programs /\ DOMAIN OpenNames = Programs
  BY <1>2, <1>3
<1>7. OpenNames' = [u \in Programs |-> OpenNames'[u]]
      /\ OpenNames = [u \in Programs |-> OpenNames[u]]
  BY <1>2, <1>3
<1> HIDE DEF OpenNames
<1> QED BY <1>n, <1>4, <1>5, <1>6, <1>7

-----------------------------------------------------------------------------
(* The inductive invariant and the refinement, one action at a time.       *)

LEMMA InitInv == Init => PipesInv
<1> SUFFICES ASSUME Init PROVE PipesInv
  OBVIOUS
<1>1. TypeOK
  BY Indices, ArgumentAssumption, EmptySeq DEF Init, TypeOK
<1>2. HeadBehind
  <2>1. (0 + 0) % PipeSize = 0
    BY Indices, Place
  <2> QED BY <2>1 DEF Init, HeadBehind
<1>3. OwnName /\ OpenIsActive
  BY DEF Init, OwnName, OpenIsActive
<1> QED BY <1>1, <1>2, <1>3 DEF PipesInv

LEMMA InitRefines == Init => Fifos!Init
<1> SUFFICES ASSUME Init PROVE Fifos!Init
  OBVIOUS
<1>1. \A n : Called(n) = {}
  BY DEF Init, Called
<1>2. Queues = [n \in Names |-> <<>>]
  BY <1>1, NoQueue DEF Queues
<1>3. OpenNames = [t \in Programs |-> [fd \in Fd |-> NoName]]
  BY DEF Init, OpenNames, NameOf
<1> QED BY <1>2, <1>3 DEF Init, Fifos!Init

LEMMA CloseStep ==
    ASSUME PipesInv, NEW t \in Programs, NEW fd \in Fd, Close(t, fd)
    PROVE  PipesInv' /\ Fifos!Close(t, fd)
<1> USE DEF Close, pipes
<1>1. fdTable' \in [Programs -> [Fd -> Pipe \cup {NoPipe}]]
  BY DEF PipesInv, TypeOK
<1>2. TypeOK'
  BY <1>1 DEF PipesInv, TypeOK
<1>3. HeadBehind' /\ OwnName'
  BY DEF PipesInv, HeadBehind, OwnName
<1>4. OpenIsActive'
  BY DEF PipesInv, TypeOK, OpenIsActive
<1>5. OpenNames' = [OpenNames EXCEPT ![t][fd] = NoName]
  <2>1. \A u \in Programs : \A f \in Fd :
          fdTable[u][f] # NoPipe => name'[fdTable[u][f]] = name[fdTable[u][f]]
    OBVIOUS
  <2>2. /\ fdTable'[t][fd] = NoPipe
        /\ \A u \in Programs : \A f \in Fd :
              u # t \/ f # fd => fdTable'[u][f] = fdTable[u][f]
    BY DEF PipesInv, TypeOK
  <2> QED BY <2>1, <2>2, NamesStep
<1>6. Queues' = Queues
  BY SameQueues
<1> QED BY <1>2, <1>3, <1>4, <1>5, <1>6 DEF PipesInv, Fifos!Close

LEMMA ExitStep ==
    ASSUME PipesInv, NEW t \in Programs, Exit(t)
    PROVE  PipesInv' /\ Fifos!Exit(t)
<1> USE DEF Exit, pipes
<1>1. fdTable' \in [Programs -> [Fd -> Pipe \cup {NoPipe}]]
  BY DEF PipesInv, TypeOK
<1>2. TypeOK'
  BY <1>1 DEF PipesInv, TypeOK
<1>3. HeadBehind' /\ OwnName'
  BY DEF PipesInv, HeadBehind, OwnName
<1>4. OpenIsActive'
  BY DEF PipesInv, TypeOK, OpenIsActive
<1>5. OpenNames' = [OpenNames EXCEPT ![t] = [fd \in Fd |-> NoName]]
  <2>1. OpenNames' = [u \in Programs |-> IF u = t THEN [fd \in Fd |-> NoName]
                                          ELSE [fd \in Fd |-> NameOf(fdTable[u][fd])]]
    BY DEF OpenNames, NameOf, PipesInv, TypeOK
  <2> QED BY <2>1 DEF OpenNames
<1>6. Queues' = Queues
  BY SameQueues
<1> QED BY <1>2, <1>3, <1>4, <1>5, <1>6 DEF PipesInv, Fifos!Exit

LEMMA ContentsSeq ==
    ASSUME TypeOK, NEW i \in Pipe
    PROVE  Contents(i) \in Seq(Bytes) /\ Len(Contents(i)) = count[i]
<1>1. /\ buffer[i] \in Buffer(PipeSize, Bytes) /\ tail[i] \in Slot
      /\ count[i] \in 0 .. PipeSize
  BY Indices DEF TypeOK, Buffer
<1>2. PICK b \in Buffer(PipeSize, Bytes), u \in Slot, c \in 0 .. PipeSize :
        b = buffer[i] /\ u = tail[i] /\ c = count[i]
  BY <1>1
<1>3. Slice(b, PipeSize, u, c) \in Seq(Bytes) /\ Len(Slice(b, PipeSize, u, c)) = c
  BY PipeSlice
<1> QED BY <1>2, <1>3 DEF Contents

LEMMA ReadStep ==
    ASSUME PipesInv, NEW t \in Programs, NEW fd \in Fd, NEW k \in Requests, Read(t, fd, k)
    PROVE  PipesInv' /\ Fifos!Read(t, fd, k)
<1>1. PICK i \in Pipe : i = fdTable[t][fd] /\ active[i]
  BY DEF PipesInv, TypeOK, Read
<1>2. PICK c \in 0 .. PipeSize : c = count[i]
  BY DEF PipesInv, TypeOK
<1>3. PICK n \in 0 .. c : n = Least(k, c)
  BY ArgumentAssumption DEF Least
<1>4. /\ delivered' = Slice(buffer[i], PipeSize, tail[i], n)
      /\ tail' = [tail EXCEPT ![i] = (tail[i] + n) % PipeSize]
      /\ count' = [count EXCEPT ![i] = c - n]
      /\ UNCHANGED <<fdTable, active, name, buffer, head>>
  BY <1>1, <1>2, <1>3 DEF Read
<1>5. buffer[i] \in Buffer(PipeSize, Bytes) /\ tail[i] \in Slot
  BY Indices DEF PipesInv, TypeOK, Buffer
<1>6. /\ (tail[i] + n) % PipeSize \in Slot
      /\ Slice(buffer[i], PipeSize, tail[i], n) = SubSeq(Contents(i), 1, n)
      /\ Slice(buffer[i], PipeSize, (tail[i] + n) % PipeSize, c - n)
           = SubSeq(Contents(i), n + 1, c)
  <2>1. PICK b \in Buffer(PipeSize, Bytes), u \in Slot : b = buffer[i] /\ u = tail[i]
    BY <1>5
  <2>2. /\ (u + n) % PipeSize \in Slot
        /\ Slice(b, PipeSize, u, n) = SubSeq(Slice(b, PipeSize, u, c), 1, n)
        /\ Slice(b, PipeSize, (u + n) % PipeSize, c - n)
             = SubSeq(Slice(b, PipeSize, u, c), n + 1, c)
    BY PipeDrop
  <2> QED BY <1>2, <2>1, <2>2 DEF Contents
<1>7. tail'[i] = (tail[i] + n) % PipeSize /\ count'[i] = c - n
      /\ \A j \in Pipe \ {i} : tail'[j] = tail[j] /\ count'[j] = count[j]
  BY <1>4 DEF PipesInv, TypeOK
<1>8. TypeOK'
  <2>1. tail' \in [Pipe -> Slot]
    BY <1>4, <1>6 DEF PipesInv, TypeOK
  <2>2. count' \in [Pipe -> 0 .. PipeSize]
    <3>1. c - n \in 0 .. PipeSize
      BY Indices
    <3> QED BY <1>4, <3>1 DEF PipesInv, TypeOK
  <2>3. delivered' \in Seq(Bytes)
    <3>1. n \in 0 .. PipeSize
      BY Indices
    <3>2. PICK b \in Buffer(PipeSize, Bytes), u \in Slot : b = buffer[i] /\ u = tail[i]
      BY <1>5
    <3>3. Slice(b, PipeSize, u, n) \in Seq(Bytes)
      BY <3>1, PipeSlice
    <3> QED BY <1>4, <3>2, <3>3
  <2> QED BY <1>4, <2>1, <2>2, <2>3 DEF PipesInv, TypeOK
<1>9. HeadBehind'
  <2>1. head[i] = (tail'[i] + count'[i]) % PipeSize
    <3>1. PICK u \in Slot : u = tail[i]
      BY <1>5, Indices
    <3>2. (((u + n) % PipeSize) + (c - n)) % PipeSize = (u + (n + (c - n))) % PipeSize
      <4>1. PICK m \in 0 .. PipeSize : m = c - n
        BY Indices
      <4>2. n \in 0 .. PipeSize /\ n + m <= PipeSize
        BY <4>1, Indices
      <4>3. (((u + n) % PipeSize) + m) % PipeSize = (u + (n + m)) % PipeSize
        BY <4>2, SlotsAdd
      <4> QED BY <4>1, <4>3
    <3>3. n + (c - n) = c
      BY Indices
    <3>4. head[i] = (u + c) % PipeSize
      BY <1>2, <3>1 DEF PipesInv, HeadBehind
    <3> QED BY <1>7, <3>1, <3>2, <3>3, <3>4
  <2> QED BY <1>4, <1>7, <2>1 DEF PipesInv, HeadBehind
<1>10. OwnName' /\ OpenIsActive'
  BY <1>4 DEF PipesInv, OwnName, OpenIsActive
<1>11. Queues' = [Queues EXCEPT ![name[i]] = Contents(i)']
  <2>1. \A j \in Pipe \ {i} : Contents(j)' = Contents(j)
    BY <1>4, <1>7 DEF Contents
  <2> QED BY <1>1, <1>4, <1>10, <2>1, QueueStep DEF PipesInv
<1>12. Contents(i)' = SubSeq(Contents(i), n + 1, c)
  BY <1>4, <1>6, <1>7 DEF Contents
<1>13. /\ OpenNames[t][fd] = name[i] /\ name[i] \in Names
       /\ Queues[name[i]] = Contents(i) /\ Len(Contents(i)) = c
  <2>1. name[i] \in Names /\ Queue(name[i]) = Contents(i)
    BY <1>1, TheQueue DEF PipesInv
  <2>2. OpenNames[t][fd] = name[i]
    BY <1>1, Indices DEF OpenNames, NameOf
  <2>3. Len(Contents(i)) = c
    BY <1>2, ContentsSeq DEF PipesInv
  <2> QED BY <2>1, <2>2, <2>3 DEF Queues
<1>14. OpenNames' = OpenNames
  BY <1>4 DEF OpenNames, NameOf
<1>15. Fifos!Read(t, fd, k)
  <2>1. n = Fifos!Least(k, Len(Queues[OpenNames[t][fd]]))
    BY <1>3, <1>13 DEF Least, Fifos!Least
  <2>2. /\ OpenNames[t][fd] # NoName
        /\ delivered' = SubSeq(Queues[OpenNames[t][fd]], 1, n)
        /\ Queues' = [Queues EXCEPT ![OpenNames[t][fd]] =
                         SubSeq(Queues[OpenNames[t][fd]], n + 1, Len(Queues[OpenNames[t][fd]]))]
    BY <1>4, <1>6, <1>11, <1>12, <1>13, NameAssumption
  <2> QED BY <1>14, <2>1, <2>2 DEF Fifos!Read
<1> QED BY <1>8, <1>9, <1>10, <1>15 DEF PipesInv

LEMMA WriteStep ==
    ASSUME PipesInv, NEW t \in Programs, NEW fd \in Fd, NEW s \in Offers, Write(t, fd, s)
    PROVE  PipesInv' /\ Fifos!Write(t, fd, s)
<1>1. PICK i \in Pipe : i = fdTable[t][fd] /\ active[i]
  BY DEF PipesInv, TypeOK, Write
<1>2. PICK c \in 0 .. PipeSize : c = count[i]
  BY DEF PipesInv, TypeOK
<1>s. s \in Seq(Bytes) /\ Len(s) \in Nat
  BY ArgumentAssumption
<1>3. PICK n \in 0 .. Len(s) : n = Least(Len(s), PipeSize - c) /\ c + n <= PipeSize
  <2>1. PICK l \in Nat : l = Len(s)
    BY <1>s
  <2>2. Least(l, PipeSize - c) \in 0 .. l /\ c + Least(l, PipeSize - c) <= PipeSize
    BY Indices DEF Least
  <2> QED BY <2>1, <2>2
<1>4. PICK b \in Buffer(PipeSize, Bytes), u \in Slot, h \in Slot :
        b = buffer[i] /\ u = tail[i] /\ h = head[i]
  BY Indices DEF PipesInv, TypeOK, Buffer
<1>5. /\ buffer' = [buffer EXCEPT ![i] = Stored(b, h, s, n)]
      /\ head' = [head EXCEPT ![i] = (h + n) % PipeSize]
      /\ count' = [count EXCEPT ![i] = c + n]
      /\ UNCHANGED <<fdTable, active, name, tail, delivered>>
  BY <1>1, <1>2, <1>3, <1>4 DEF Write, Accepted
<1>6. h = (u + c) % PipeSize
  BY <1>2, <1>4 DEF PipesInv, HeadBehind
<1>7. /\ Stored(b, h, s, n) \in Buffer(PipeSize, Bytes)
      /\ Slice(Stored(b, h, s, n), PipeSize, u, c + n)
           = Slice(b, PipeSize, u, c) \o SubSeq(s, 1, n)
  <2>1. s \in Seq(Bytes) /\ n \in 0 .. Len(s) /\ c + n <= PipeSize
    BY <1>s, <1>3
  <2> QED BY <1>6, <2>1, PipeAppend
<1>8. (h + n) % PipeSize \in Slot /\ (h + n) % PipeSize = (u + (c + n)) % PipeSize
  <2>1. n \in 0 .. PipeSize
    BY <1>s, <1>3, Indices
  <2>2. (((u + c) % PipeSize) + n) % PipeSize = (u + (c + n)) % PipeSize
    BY <1>3, <2>1, SlotsAdd
  <2>3. (h + n) % PipeSize \in Slot
    BY <2>1, SlotBehind
  <2> QED BY <1>6, <2>2, <2>3
<1>9. /\ buffer'[i] = Stored(b, h, s, n)
      /\ head'[i] = (h + n) % PipeSize
      /\ count'[i] = c + n
      /\ \A j \in Pipe \ {i} : /\ buffer'[j] = buffer[j]
                              /\ head'[j] = head[j]
                              /\ count'[j] = count[j]
  BY <1>5 DEF PipesInv, TypeOK
<1>10. TypeOK'
  <2>1. buffer' \in [Pipe -> [Slot -> Bytes]]
    <3>1. Stored(b, h, s, n) \in [Slot -> Bytes]
      BY <1>7, Indices DEF Buffer
    <3> QED BY <1>5, <3>1 DEF PipesInv, TypeOK
  <2>2. head' \in [Pipe -> Slot]
    BY <1>5, <1>8 DEF PipesInv, TypeOK
  <2>3. count' \in [Pipe -> 0 .. PipeSize]
    <3>1. c + n \in 0 .. PipeSize
      BY <1>s, <1>3, Indices
    <3> QED BY <1>5, <3>1 DEF PipesInv, TypeOK
  <2> QED BY <1>5, <2>1, <2>2, <2>3 DEF PipesInv, TypeOK
<1>11. HeadBehind'
  <2>1. head'[i] = (tail'[i] + count'[i]) % PipeSize
    BY <1>4, <1>5, <1>8, <1>9
  <2> QED BY <1>5, <1>9, <2>1 DEF PipesInv, HeadBehind
<1>12. OwnName' /\ OpenIsActive'
  BY <1>5 DEF PipesInv, OwnName, OpenIsActive
<1>13. Queues' = [Queues EXCEPT ![name[i]] = Contents(i)']
  <2>1. \A j \in Pipe \ {i} : Contents(j)' = Contents(j)
    BY <1>5, <1>9 DEF Contents
  <2> QED BY <1>1, <1>5, <1>12, <2>1, QueueStep DEF PipesInv
<1>14. Contents(i)' = Contents(i) \o SubSeq(s, 1, n)
  <2>1. Contents(i) = Slice(b, PipeSize, u, c)
    BY <1>2, <1>4 DEF Contents
  <2>2. Contents(i)' = Slice(Stored(b, h, s, n), PipeSize, u, c + n)
    BY <1>4, <1>5, <1>9 DEF Contents
  <2> QED BY <1>7, <2>1, <2>2
<1>15. /\ OpenNames[t][fd] = name[i] /\ name[i] \in Names
       /\ Queues[name[i]] = Contents(i) /\ Len(Contents(i)) = c
  <2>1. name[i] \in Names /\ Queue(name[i]) = Contents(i)
    BY <1>1, TheQueue DEF PipesInv
  <2>2. OpenNames[t][fd] = name[i]
    BY <1>1, Indices DEF OpenNames, NameOf
  <2>3. Len(Contents(i)) = c
    BY <1>2, ContentsSeq DEF PipesInv
  <2> QED BY <2>1, <2>2, <2>3 DEF Queues
<1>16. OpenNames' = OpenNames
  BY <1>5 DEF OpenNames, NameOf
<1>17. Fifos!Write(t, fd, s)
  <2>1. n = Fifos!Least(Len(s), PipeSize - Len(Queues[OpenNames[t][fd]]))
    BY <1>3, <1>15 DEF Least, Fifos!Least
  <2>2. /\ OpenNames[t][fd] # NoName
        /\ Queues' = [Queues EXCEPT ![OpenNames[t][fd]] =
                         Queues[OpenNames[t][fd]] \o SubSeq(s, 1, n)]
    BY <1>13, <1>14, <1>15, NameAssumption
  <2> QED BY <1>5, <1>16, <2>1, <2>2 DEF Fifos!Write
<1> QED BY <1>10, <1>11, <1>12, <1>17 DEF PipesInv

\* A descriptor that was closed leads to a pipe that the step leaves in use.
LEMMA OpenRefines ==
    ASSUME PipesInv, NEW t \in Programs, NEW fd \in Fd, NEW i \in Pipe, NEW n \in Names,
           fdTable[t][fd] = NoPipe, Lead(t, fd, i), name'[i] = n,
           \A j \in Pipe : active[j] => name'[j] = name[j],
           Queues' = Queues, delivered' = delivered
    PROVE  Fifos!Open(t, n)
<1>1. /\ fdTable'[t][fd] = i
      /\ \A u \in Programs : \A f \in Fd :
            u # t \/ f # fd => fdTable'[u][f] = fdTable[u][f]
  BY DEF PipesInv, TypeOK, Lead
<1>2. OpenNames' = [OpenNames EXCEPT ![t][fd] = n]
  <2>1. \A u \in Programs : \A f \in Fd :
          fdTable[u][f] # NoPipe => name'[fdTable[u][f]] = name[fdTable[u][f]]
    BY DEF PipesInv, TypeOK, OpenIsActive
  <2> QED BY <1>1, <2>1, NamesStep, Indices
<1>3. OpenNames[t][fd] = NoName
  BY DEF OpenNames, NameOf
<1> QED BY <1>2, <1>3 DEF Fifos!Open

LEMMA JoinStep ==
    ASSUME PipesInv, NEW t \in Programs, NEW fd \in Fd, NEW filename \in Filenames,
           IsFirst(fd, FreeFds(t)), Join(t, fd, filename), delivered' = delivered
    PROVE  PipesInv' /\ Fifos!Open(t, FirstEight[filename])
<1>1. PICK i \in Pipe : i \in Matching(filename) /\ Lead(t, fd, i)
  BY DEF Join, IsFirst
<1>2. active[i] /\ name[i] = FirstEight[filename]
  BY <1>1 DEF Matching
<1>3. UNCHANGED <<active, name, buffer, head, tail, count>>
  BY DEF Join, pipes
<1>4. fdTable' \in [Programs -> [Fd -> Pipe \cup {NoPipe}]]
  BY <1>1 DEF PipesInv, TypeOK, Lead
<1>5. TypeOK'
  BY <1>3, <1>4 DEF PipesInv, TypeOK
<1>6. HeadBehind' /\ OwnName'
  BY <1>3 DEF PipesInv, HeadBehind, OwnName
<1>7. OpenIsActive'
  BY <1>1, <1>2, <1>3 DEF PipesInv, TypeOK, OpenIsActive, Lead
<1>8. Fifos!Open(t, FirstEight[filename])
  <2>1. Queues' = Queues
    BY <1>3, SameQueues DEF pipes
  <2>2. FirstEight[filename] \in Names /\ fdTable[t][fd] = NoPipe
    BY NameAssumption DEF IsFirst, FreeFds
  <2>3. name'[i] = FirstEight[filename] /\ \A j \in Pipe : active[j] => name'[j] = name[j]
    BY <1>2, <1>3
  <2> QED BY <1>1, <2>1, <2>2, <2>3, OpenRefines
<1> QED BY <1>5, <1>6, <1>7, <1>8 DEF PipesInv

LEMMA CreateStep ==
    ASSUME PipesInv, NEW t \in Programs, NEW fd \in Fd, NEW filename \in Filenames,
           IsFirst(fd, FreeFds(t)), Create(t, fd, filename), delivered' = delivered
    PROVE  PipesInv' /\ Fifos!Open(t, FirstEight[filename])
<1>1. PICK n \in Names : n = FirstEight[filename]
  BY NameAssumption
<1>2. PICK i \in Pipe :
        /\ ~active[i]
        /\ Lead(t, fd, i)
        /\ active' = [active EXCEPT ![i] = TRUE]
        /\ name' = [name EXCEPT ![i] = n]
        /\ head' = [head EXCEPT ![i] = 0]
        /\ tail' = [tail EXCEPT ![i] = 0]
        /\ count' = [count EXCEPT ![i] = 0]
  BY <1>1 DEF Create, IsFirst, FreePipes
<1>3. buffer' = buffer /\ \A j \in Pipe : active[j] => name[j] # n
  BY <1>1 DEF Create, Matching
<1>4. /\ active'[i] /\ name'[i] = n /\ head'[i] = 0 /\ tail'[i] = 0 /\ count'[i] = 0
      /\ \A j \in Pipe \ {i} : /\ active'[j] = active[j]
                              /\ name'[j] = name[j]
                              /\ head'[j] = head[j]
                              /\ tail'[j] = tail[j]
                              /\ count'[j] = count[j]
  BY <1>2 DEF PipesInv, TypeOK
<1>5. TypeOK'
  <2>1. fdTable' \in [Programs -> [Fd -> Pipe \cup {NoPipe}]]
    BY <1>2 DEF PipesInv, TypeOK, Lead
  <2>2. active' \in [Pipe -> BOOLEAN] /\ name' \in [Pipe -> Names \cup {NoName}]
    BY <1>2 DEF PipesInv, TypeOK
  <2>3. /\ head' \in [Pipe -> Slot] /\ tail' \in [Pipe -> Slot]
        /\ count' \in [Pipe -> 0 .. PipeSize]
    BY <1>2, Indices DEF PipesInv, TypeOK
  <2> QED BY <1>3, <2>1, <2>2, <2>3 DEF PipesInv, TypeOK
<1>6. HeadBehind'
  <2>1. (0 + 0) % PipeSize = 0
    BY Indices, Place
  <2> QED BY <1>4, <2>1 DEF PipesInv, HeadBehind
<1>7. OwnName'
  BY <1>3, <1>4 DEF PipesInv, OwnName
<1>8. OpenIsActive'
  BY <1>2, <1>4 DEF PipesInv, TypeOK, OpenIsActive, Lead
<1>9. Queues' = Queues
  <2>1. ASSUME NEW m \in Names PROVE Queue(m)' = Queue(m)
    <3>1. CASE m = n
      <4>1. Called(m) = {}
        BY <1>3, <3>1 DEF Called
      <4>2. Queue(m)' = Contents(i)'
        BY <1>4, <1>7, <3>1, TheQueueNext
      <4>3. Len(Contents(i)') = 0 /\ Contents(i)' \in Seq(Bytes)
        <5>1. PICK b \in Buffer(PipeSize, Bytes) : b = buffer'[i]
          BY <1>5, Indices DEF TypeOK, Buffer
        <5>2. Slice(b, PipeSize, 0, 0) \in Seq(Bytes) /\ Len(Slice(b, PipeSize, 0, 0)) = 0
          BY Indices, PipeSlice
        <5> QED BY <1>4, <5>1, <5>2 DEF Contents
      <4>4. Contents(i)' = <<>>
        BY <4>3, EmptySeq
      <4> QED BY <4>1, <4>2, <4>4, NoQueue
    <3>2. CASE m # n /\ Called(m) = {}
      <4>1. Called(m)' = {}
        BY <1>4, <3>2 DEF Called
      <4> QED BY <3>2, <4>1, NoQueue
    <3>3. CASE m # n /\ Called(m) # {}
      <4>1. PICK j \in Pipe : active[j] /\ name[j] = m
        BY <3>3 DEF Called
      <4>2. j # i
        BY <1>2, <4>1
      <4>3. active'[j] /\ name'[j] = m
        BY <1>4, <4>1, <4>2
      <4>4. Queue(m) = Contents(j) /\ Queue(m)' = Contents(j)'
        BY <1>7, <4>1, <4>3, TheQueue, TheQueueNext DEF PipesInv
      <4>5. Contents(j)' = Contents(j)
        BY <1>3, <1>4, <4>2 DEF Contents
      <4> QED BY <4>4, <4>5
    <3> QED BY <3>1, <3>2, <3>3
  <2> QED BY <2>1 DEF Queues
<1>10. Fifos!Open(t, n)
  <2>1. fdTable[t][fd] = NoPipe
    BY DEF IsFirst, FreeFds
  <2>2. \A j \in Pipe : active[j] => name'[j] = name[j]
    BY <1>2, <1>4
  <2> QED BY <1>2, <1>4, <1>9, <2>1, <2>2, OpenRefines
<1> QED BY <1>1, <1>5, <1>6, <1>7, <1>8, <1>10 DEF PipesInv

-----------------------------------------------------------------------------
LEMMA StepRefines == PipesInv /\ [Next]_vars => PipesInv' /\ [Fifos!Next]_Fifos!vars
<1> SUFFICES ASSUME PipesInv, [Next]_vars PROVE PipesInv' /\ [Fifos!Next]_Fifos!vars
  OBVIOUS
<1>1. ASSUME NEW t \in Programs, NEW filename \in Filenames, Open(t, filename)
      PROVE  PipesInv' /\ Fifos!Next
  <2>1. PICK fd \in Fd : /\ IsFirst(fd, FreeFds(t)) /\ delivered' = delivered
                         /\ Join(t, fd, filename) \/ Create(t, fd, filename)
    BY <1>1 DEF Open
  <2>2. PipesInv' /\ Fifos!Open(t, FirstEight[filename])
    BY <2>1, JoinStep, CreateStep
  <2>3. FirstEight[filename] \in Names
    BY NameAssumption
  <2> QED BY <2>2, <2>3 DEF Fifos!Next
<1>2. ASSUME NEW t \in Programs, NEW fd \in Fd, NEW s \in Offers, Write(t, fd, s)
      PROVE  PipesInv' /\ Fifos!Next
  BY <1>2, WriteStep DEF Fifos!Next
<1>3. ASSUME NEW t \in Programs, NEW fd \in Fd, NEW k \in Requests, Read(t, fd, k)
      PROVE  PipesInv' /\ Fifos!Next
  BY <1>3, ReadStep DEF Fifos!Next
<1>4. ASSUME NEW t \in Programs, NEW fd \in Fd, Close(t, fd)
      PROVE  PipesInv' /\ Fifos!Next
  BY <1>4, CloseStep DEF Fifos!Next
<1>5. ASSUME NEW t \in Programs, Exit(t)
      PROVE  PipesInv' /\ Fifos!Next
  BY <1>5, ExitStep DEF Fifos!Next
<1>6. CASE UNCHANGED vars
  <2>1. PipesInv'
    BY <1>6 DEF vars, pipes, PipesInv, TypeOK, HeadBehind, OwnName, OpenIsActive
  <2>2. Queues' = Queues
    BY <1>6, SameQueues DEF vars
  <2>3. OpenNames' = OpenNames /\ delivered' = delivered
    BY <1>6 DEF vars, pipes, OpenNames, NameOf
  <2> QED BY <2>1, <2>2, <2>3 DEF Fifos!vars
<1> QED BY <1>1, <1>2, <1>3, <1>4, <1>5, <1>6 DEF Next

\* Every variable has its type in every reachable state: a program's
\* descriptors lead to pipes of the pool, and no pipe holds more than fits.
THEOREM PipesTypeCorrect == Spec => []TypeOK
<1>1. Init => PipesInv
  BY InitInv
<1>2. PipesInv /\ [Next]_vars => PipesInv'
  BY StepRefines
<1>3. PipesInv => TypeOK
  BY DEF PipesInv
<1> QED BY <1>1, <1>2, <1>3, PTL DEF Spec

\* The pool of circular buffers with its tables of descriptors is one bounded
\* queue for every name.
THEOREM PipesAreQueues == Spec => ImplementsNamedPipes
<1>1. Init => PipesInv /\ Fifos!Init
  BY InitInv, InitRefines
<1>2. PipesInv /\ [Next]_vars => PipesInv' /\ [Fifos!Next]_Fifos!vars
  BY StepRefines
<1> QED BY <1>1, <1>2, PTL DEF Spec, ImplementsNamedPipes, Fifos!Spec
=============================================================================
