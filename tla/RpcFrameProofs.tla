--------------------------- MODULE RpcFrameProofs ---------------------------
(***************************************************************************)
(* For any frames, any number of them and any way in which the stream is   *)
(* cut up: p11_rpc_transport_read gives the remote the frames that were    *)
(* sent, whole and in order, and p11_rpc_transport_write answers them.     *)
(*                                                                         *)
(* FramesIntact speaks of frames that are complete.  The invariant FInv    *)
(* adds the rest of the stream: what can still be read continues the       *)
(* encoded frames where the state of the read stands, what the two buffers *)
(* hold is the part of the next frame that state says, whatever an earlier *)
(* frame has left in them, and what was written of a response is the       *)
(* beginning of it.                                                        *)
(***************************************************************************)
EXTENDS RpcFrame, SequenceTheorems, WellFoundedInduction, TLAPS

-----------------------------------------------------------------------------
(* The sequence of responses grows by the response to the last frame.      *)
(* Responses is defined by recursion; what it does is shown by looking at  *)
(* the least number for which it would not.                                *)

\* A set of natural numbers that is not empty has a least one.
LEMMA LeastNat ==
    ASSUME NEW T, T \subseteq Nat, T # {}
    PROVE  \E m \in T : \A k \in T : m <= k
<1> DEFINE R == OpToRel(<, Nat)
<1>1. IsWellFoundedOn(R, Nat)
  BY NatLessThanWellFounded, Zenon
<1> HIDE DEF R
<1>2. PICK x \in T : \A y \in T : ~ (<<y, x>> \in R)
  BY <1>1, WFMin, Zenon
<1>3. ASSUME NEW y \in T PROVE x <= y
  <2>1. \A a, b \in Nat : a < b => <<a, b>> \in R
    BY DEF R, OpToRel
  <2>2. x \in Nat /\ y \in Nat /\ ~(y < x)
    BY <1>2, <2>1, Zenon
  <2> QED BY <2>2
<1> QED BY <1>3

\* The response to a frame
Answer(f) == Encoded([f EXCEPT !.options = <<>>])

\* The function that Responses defines
Sums(g, frames, n) ==
    g = [i \in 0 .. n |-> IF i = 0 THEN <<>> ELSE g[i - 1] \o Answer(frames[i])]

\* There is such a function.
LEMMA SumsExist == \A frames : \A n \in Nat : \E g : Sums(g, frames, n)
<1> SUFFICES ASSUME NEW frames PROVE \A n \in Nat : \E g : Sums(g, frames, n)
  OBVIOUS
<1> DEFINE T == {n \in Nat : ~ \E g : Sums(g, frames, n)}
<1> SUFFICES ASSUME T # {} PROVE FALSE
  OBVIOUS
<1>1. PICK m \in T : \A k \in T : m <= k
  BY LeastNat, Zenon
<1>2. m # 0
  <2>1. Sums([i \in 0 .. 0 |-> <<>>], frames, 0)
    BY DEF Sums
  <2> QED BY <2>1
<1>3. m - 1 \in Nat /\ m - 1 \notin T
  BY <1>1, <1>2
<1>4. PICK g : Sums(g, frames, m - 1)
  BY <1>3
<1> DEFINE h == [i \in 0 .. m |-> IF i = m THEN g[m - 1] \o Answer(frames[m]) ELSE g[i]]
<1>5. Sums(h, frames, m)
  <2>1. \A i \in 0 .. m - 1 :
           h[i] = g[i] /\ g[i] = IF i = 0 THEN <<>> ELSE g[i - 1] \o Answer(frames[i])
    BY <1>4, SMTT(30) DEF Sums
  <2>2. ASSUME NEW i \in 0 .. m
        PROVE  h[i] = IF i = 0 THEN <<>> ELSE h[i - 1] \o Answer(frames[i])
    <3>1. CASE i = m
      <4>1. m - 1 \in 0 .. m - 1 /\ i # 0 /\ i \in 0 .. m
        BY <1>1, <1>2, <3>1
      <4>2. h[i] = g[i - 1] \o Answer(frames[i])
        BY <3>1, <4>1, Zenon
      <4>3. h[i - 1] = g[i - 1]
        BY <2>1, <3>1, <4>1
      <4> QED BY <4>1, <4>2, <4>3, SMTT(30)
    <3>2. CASE i # m
      <4>1. i \in 0 .. m - 1 /\ (i # 0 => i - 1 \in 0 .. m - 1)
        BY <1>1, <1>2, <3>2
      <4> QED BY <2>1, <4>1
    <3> QED BY <3>1, <3>2
  <2> QED BY <2>2, Zenon DEF Sums
<1> QED BY <1>5

\* Two of them agree on the frames they share.
LEMMA SumsAgree ==
    ASSUME NEW d, NEW e, NEW m \in Nat, NEW n \in Nat, NEW g, NEW h,
           Sums(g, d, m), Sums(h, e, n), m <= n, \A i \in 1 .. m : d[i] = e[i]
    PROVE  \A i \in 0 .. m : g[i] = h[i]
<1> DEFINE T == {i \in 0 .. m : g[i] # h[i]}
<1> SUFFICES ASSUME T # {} PROVE FALSE
  OBVIOUS
<1>0. T \subseteq Nat
  OBVIOUS
<1>1. PICK k \in T : \A i \in T : k <= i
  BY <1>0, LeastNat, Zenon
<1>2. /\ g[k] = IF k = 0 THEN <<>> ELSE g[k - 1] \o Answer(d[k])
      /\ h[k] = IF k = 0 THEN <<>> ELSE h[k - 1] \o Answer(e[k])
  BY SMTT(30) DEF Sums
<1>3. k # 0 => g[k - 1] = h[k - 1]
  BY <1>1
<1> QED BY <1>2, <1>3

\* Responses is the last value of one of them.
LEMMA ResponsesAre ==
    ASSUME NEW F, NEW frames \in Seq(F)
    PROVE  \E g : Sums(g, frames, Len(frames)) /\ Responses(frames) = g[Len(frames)]
<1>1. PICK h : Sums(h, frames, Len(frames))
  BY SumsExist
<1> DEFINE g == CHOOSE x : Sums(x, frames, Len(frames))
<1>2. Sums(g, frames, Len(frames))
  BY <1>1
<1>3. Responses(frames) = g[Len(frames)]
  BY DEF Responses, Sums, Answer
<1> QED BY <1>2, <1>3, Zenon

\* No frame, no response.
LEMMA NoResponses == Responses(<<>>) = <<>>
<1>1. <<>> \in Seq({}) /\ Len(<<>>) = 0
  OBVIOUS
<1>2. PICK g : Sums(g, <<>>, Len(<<>>)) /\ Responses(<<>>) = g[Len(<<>>)]
  BY <1>1, ResponsesAre, Zenon
<1> QED BY <1>1, <1>2 DEF Sums

\* One more frame, one more response, at the end.
LEMMA OneMoreResponse ==
    ASSUME NEW F, NEW frames \in Seq(F), NEW f \in F
    PROVE  Responses(Append(frames, f)) = Responses(frames) \o Answer(f)
<1> DEFINE n == Len(frames)
           more == Append(frames, f)
<1>1. /\ n \in Nat /\ more \in Seq(F) /\ Len(more) = n + 1 /\ more[n + 1] = f
      /\ \A i \in 1 .. n : more[i] = frames[i]
  OBVIOUS
<1> HIDE DEF n, more
<1>2. PICK g : Sums(g, frames, n) /\ Responses(frames) = g[n]
  BY ResponsesAre DEF n
<1>3. PICK h : Sums(h, more, n + 1) /\ Responses(more) = h[n + 1]
  BY <1>1, ResponsesAre
<1>4. g[n] = h[n]
  BY <1>1, <1>2, <1>3, SumsAgree
<1>5. h[n + 1] = h[n] \o Answer(f)
  <2>1. n + 1 \in 0 .. n + 1 /\ n + 1 # 0 /\ n + 1 - 1 = n
    BY <1>1
  <2>2. h[n + 1] = IF n + 1 = 0 THEN <<>> ELSE h[n + 1 - 1] \o Answer(more[n + 1])
    BY <1>3, <2>1 DEF Sums
  <2> QED BY <1>1, <2>1, <2>2
<1> QED BY <1>2, <1>3, <1>4, <1>5 DEF more

-----------------------------------------------------------------------------
(* The units of a frame.                                                   *)

FrameSet == [code : Nat, options : Seq(Nat), data : Seq(Nat)]
Buffers == [data : Seq(Nat), len : Nat]
Size(f) == HEADER + Len(f.options) + Len(f.data)

\* What the concatenation of two sequences of units is, unit by unit
Join(e, s, t) ==
    /\ e \in Seq(Nat)
    /\ Len(s) \in Nat /\ Len(t) \in Nat /\ Len(e) = Len(s) + Len(t)
    /\ \A j \in 1 .. Len(s) : e[j] = s[j]
    /\ \A j \in 1 .. Len(t) : e[Len(s) + j] = t[j]

\* Concatenation, unit by unit.
LEMMA Joined ==
    ASSUME NEW s \in Seq(Nat), NEW t \in Seq(Nat)
    PROVE  Join(s \o t, s, t)
<1>0. PICK e : e = s \o t
  BY Zenon
<1>1. Len(s) \in Nat /\ Len(t) \in Nat
  BY LenProperties
<1>2. /\ e \in Seq(Nat) /\ Len(e) = Len(s) + Len(t)
      /\ \A i \in 1 .. Len(s) + Len(t) :
            e[i] = IF i <= Len(s) THEN s[i] ELSE t[i - Len(s)]
  BY <1>0, ConcatProperties, Zenon
<1>3. ASSUME NEW j \in 1 .. Len(t) PROVE e[Len(s) + j] = t[j]
  <2>1. /\ Len(s) + j \in 1 .. Len(s) + Len(t) /\ ~(Len(s) + j <= Len(s))
        /\ Len(s) + j - Len(s) = j
    BY <1>1
  <2>2. PICK k : k = Len(s) + j
    OBVIOUS
  <2>3. k \in 1 .. Len(s) + Len(t) /\ ~(k <= Len(s)) /\ k - Len(s) = j
    BY <2>1, <2>2
  <2>4. e[k] = t[k - Len(s)]
    BY <1>2, <2>3, Zenon
  <2> QED BY <2>2, <2>3, <2>4, Zenon
<1>4. \A j \in 1 .. Len(s) : e[j] = s[j]
  BY <1>1, <1>2, SMTT(30)
<1>5. Join(e, s, t)
  BY <1>1, <1>2, <1>3, <1>4, Zenon DEF Join
<1> QED BY <1>0, <1>5, Zenon

\* A part of a sequence, unit by unit.
LEMMA Taken ==
    ASSUME NEW S, NEW s \in Seq(S), NEW m \in Nat, NEW n \in Nat, m <= n, n <= Len(s),
           NEW e, e = SubSeq(s, m + 1, n)
    PROVE  /\ e \in Seq(S) /\ Len(e) = n - m
           /\ \A j \in 1 .. n - m : e[j] = s[m + j]
<1>1. Len(s) \in Nat /\ \A i \in 1 .. Len(s) : s[i] \in S
  BY LenProperties, ElementOfSeq
<1>2. \A i \in m + 1 .. n : s[i] \in S
  BY <1>1
<1> DEFINE a == m + 1
<1>3. a \in Int /\ n \in Int /\ a = m + 1 /\ (\A i \in a .. n : s[i] \in S)
  BY <1>2
<1>30. e = SubSeq(s, a, n)
  OBVIOUS
<1> HIDE DEF a
<1>4. /\ e \in Seq(S)
      /\ Len(e) = IF a <= n THEN n - a + 1 ELSE 0
      /\ \A i \in 1 .. n - a + 1 : e[i] = s[a + i - 1]
  BY <1>3, <1>30, SubSeqProperties
<1>5. \A i \in 1 .. n - m : i \in 1 .. n - a + 1 /\ a + i - 1 = m + i
  BY <1>3
<1>6. Len(e) = n - m
  BY <1>3, <1>4
<1> QED BY <1>4, <1>5, <1>6

(* The first units of a sequence                                             *)
LEMMA TakenFirst ==
    ASSUME NEW s \in Seq(Nat), NEW n \in Nat, n <= Len(s), NEW e, e = SubSeq(s, 1, n)
    PROVE  e \in Seq(Nat) /\ Len(e) = n /\ \A j \in 1 .. n : e[j] = s[j]
<1>1. 0 \in Nat /\ 0 <= n /\ e = SubSeq(s, 0 + 1, n)
  OBVIOUS
<1>2. e \in Seq(Nat) /\ Len(e) = n - 0 /\ \A j \in 1 .. n - 0 : e[j] = s[0 + j]
  BY <1>1, Taken, SMTT(30)
<1> QED BY <1>2

(* Three pieces of a stream are put together in either order.                *)
LEMMA Regrouped ==
    ASSUME NEW r \in Seq(Nat), NEW p \in Seq(Nat), NEW q \in Seq(Nat)
    PROVE  (r \o p) \o q = r \o (p \o q)
  BY ConcatAssociative

\* What a header and two sequences of units are, unit by unit
Three(e, c, o, d, s, t) ==
    /\ e \in Seq(Nat)
    /\ Len(s) \in Nat /\ Len(t) \in Nat /\ Len(e) = 3 + Len(s) + Len(t)
    /\ e[1] = c /\ e[2] = o /\ e[3] = d
    /\ \A j \in 1 .. Len(s) : e[3 + j] = s[j]
    /\ \A j \in 1 .. Len(t) : e[3 + Len(s) + j] = t[j]

\* A header joined to two sequences, unit by unit.
LEMMA ThreeJoined ==
    ASSUME NEW h, NEW s, NEW t, NEW hs, NEW e,
           Join(hs, h, s), Join(e, hs, t), Len(h) = 3
    PROVE  Three(e, h[1], h[2], h[3], s, t)
<1>1. /\ hs \in Seq(Nat) /\ Len(s) \in Nat /\ Len(hs) = Len(h) + Len(s)
      /\ \A j \in 1 .. Len(h) : hs[j] = h[j]
      /\ \A j \in 1 .. Len(s) : hs[Len(h) + j] = s[j]
  BY Zenon DEF Join
<1>2. /\ e \in Seq(Nat) /\ Len(t) \in Nat /\ Len(e) = Len(hs) + Len(t)
      /\ \A j \in 1 .. Len(hs) : e[j] = hs[j]
      /\ \A j \in 1 .. Len(t) : e[Len(hs) + j] = t[j]
  BY Zenon DEF Join
<1>3. Len(hs) = 3 + Len(s)
  BY <1>1
<1>4. e[1] = h[1] /\ e[2] = h[2] /\ e[3] = h[3]
  <2>1. ASSUME NEW j \in 1 .. 3 PROVE e[j] = h[j]
    <3>1. j \in 1 .. Len(h) /\ j \in 1 .. Len(hs)
      BY <1>1
    <3> QED BY <1>1, <1>2, <3>1, Zenon
  <2>2. 1 \in 1 .. 3 /\ 2 \in 1 .. 3 /\ 3 \in 1 .. 3
    OBVIOUS
  <2> QED BY <2>1, <2>2, Zenon
<1>5. ASSUME NEW j \in 1 .. Len(s) PROVE e[3 + j] = s[j]
  <2>1. 3 + j \in 1 .. Len(hs)
    BY <1>1, <1>3
  <2>2. e[3 + j] = hs[3 + j]
    BY <1>2, <2>1, Zenon
  <2>3. hs[3 + j] = s[j]
    BY <1>1, Zenon
  <2> QED BY <2>2, <2>3
<1>6. \A j \in 1 .. Len(t) : e[3 + Len(s) + j] = t[j]
  BY <1>2, <1>3, Zenon
<1>7. Len(e) = 3 + Len(s) + Len(t)
  BY <1>2, <1>3, Zenon
<1> QED BY <1>1, <1>2, <1>4, <1>5, <1>6, <1>7, Zenon DEF Three

\* The same for what Header makes.
LEMMA ThreeParts ==
    ASSUME NEW c \in Nat, NEW o \in Nat, NEW d \in Nat,
           NEW s \in Seq(Nat), NEW t \in Seq(Nat)
    PROVE  Three(Header(c, o, d) \o s \o t, c, o, d, s, t)
<1>1. /\ <<c, o, d>> \in Seq(Nat) /\ Len(<<c, o, d>>) = 3
      /\ <<c, o, d>>[1] = c /\ <<c, o, d>>[2] = o /\ <<c, o, d>>[3] = d
  OBVIOUS
<1>2. PICK h : h = <<c, o, d>>
  BY Zenon
<1>3. h \in Seq(Nat) /\ Len(h) = 3 /\ h[1] = c /\ h[2] = o /\ h[3] = d
  BY <1>1, <1>2, Zenon
<1>4. Join(h \o s, h, s)
  BY <1>3, Joined, Zenon
<1>5. Join(h \o s \o t, h \o s, t)
  <2>1. h \o s \in Seq(Nat)
    BY <1>4, Zenon DEF Join
  <2> QED BY <2>1, Joined, Zenon
<1>6. Three(h \o s \o t, h[1], h[2], h[3], s, t)
  BY <1>3, <1>4, <1>5, ThreeJoined, Zenon
<1> QED BY <1>2, <1>3, <1>6, Zenon DEF Header

\* The units of an encoded frame: its code, its two lengths, its options and its data.
LEMMA EncodedUnits ==
    ASSUME NEW f \in FrameSet
    PROVE  /\ Encoded(f) \in Seq(Nat)
           /\ Len(Encoded(f)) = Size(f) /\ Size(f) \in Nat /\ Size(f) >= 3
           /\ Len(f.options) \in Nat /\ Len(f.data) \in Nat
           /\ Size(f) = 3 + Len(f.options) + Len(f.data)
           /\ Encoded(f)[1] = f.code
           /\ Encoded(f)[2] = Len(f.options)
           /\ Encoded(f)[3] = Len(f.data)
           /\ \A j \in 1 .. Len(f.options) : Encoded(f)[3 + j] = f.options[j]
           /\ \A j \in 1 .. Len(f.data) :
                 Encoded(f)[3 + Len(f.options) + j] = f.data[j]
<1>1. /\ f.code \in Nat /\ f.options \in Seq(Nat) /\ f.data \in Seq(Nat)
      /\ Len(f.options) \in Nat /\ Len(f.data) \in Nat
  BY DEF FrameSet
<1>2. PICK c, o, d, k, n, e :
         /\ c = f.code /\ o = f.options /\ d = f.data /\ k = Len(o) /\ n = Len(d)
         /\ e = Encoded(f)
  BY Zenon
<1>3. /\ c \in Nat /\ o \in Seq(Nat) /\ d \in Seq(Nat) /\ k \in Nat /\ n \in Nat
      /\ e = Header(c, k, n) \o o \o d
  BY <1>1, <1>2, Zenon DEF Encoded
<1>4. Three(e, c, k, n, o, d)
  BY <1>3, ThreeParts, Zenon
<1>5. Size(f) = 3 + k + n
  BY <1>2, Zenon DEF Size, HEADER
<1>6. 3 + k + n \in Nat /\ 3 + k + n >= 3
  BY <1>3
<1> QED BY <1>1, <1>2, <1>4, <1>5, <1>6, Zenon DEF Three

-----------------------------------------------------------------------------
(* The invariant.                                                          *)

\* The stream of all the frames that were sent, and where each one ends in it
Stream(frames, units, ends) ==
    /\ units \in Seq(Nat)
    /\ ends \in [0 .. Len(frames) -> Nat]
    /\ ends[Len(frames)] = Len(units)
    /\ \A i \in 0 .. Len(frames) : ends[i] <= Len(units)
    /\ \A i \in 1 .. Len(frames) :
          /\ ends[i] = ends[i - 1] + Size(frames[i])
          /\ \A j \in 1 .. Size(frames[i]) :
                units[ends[i - 1] + j] = Encoded(frames[i])[j]

\* What can still be read continues the stream where the reading stands
Continues(left, more, units, read) ==
    /\ read + Len(left) <= Len(units)
    /\ more => read + Len(left) = Len(units)
    /\ \A j \in 1 .. Len(left) : left[j] = units[read + j]

Running == serve \in {"read", "write"}
Count == Len(handled)
Started == IF serve = "read" THEN state ELSE 0

Typed ==
    /\ sent \in Seq(FrameSet) /\ handled \in Seq(FrameSet)
    /\ inbound \in Seq(Nat) /\ outbound \in Seq(Nat)
    /\ open \in BOOLEAN /\ serve \in {"read", "write", "eof", "error"}
    /\ state \in Nat /\ code \in Nat
    /\ options \in Buffers /\ buffer \in Buffers

Handled ==
    /\ Count <= Len(sent)
    /\ \A i \in 1 .. Count : handled[i] = sent[i]

Incoming ==
    \E units, ends :
       /\ Stream(sent, units, ends)
       /\ Running => Continues(inbound, open, units, ends[Count] + Started)

\* The frame being read agrees with what the state, the code and the two buffers
\* hold of it
Reads(f) ==
    /\ state <= Size(f)
    /\ state < HEADER =>
          /\ Len(buffer.data) >= HEADER
          /\ \A j \in 1 .. state : buffer.data[j] = Encoded(f)[j]
    /\ state >= HEADER =>
          /\ code = f.code
          /\ options.len = Len(f.options) /\ options.len <= Len(options.data)
          /\ buffer.len = Len(f.data) /\ buffer.len <= Len(buffer.data)
          /\ \A j \in 1 .. Len(f.options) :
                HEADER + j <= state => options.data[j] = f.options[j]
          /\ \A j \in 1 .. Len(f.data) :
                HEADER + Len(f.options) + j <= state => buffer.data[j] = f.data[j]
Reading ==
    serve = "read" /\ state > 0 => Count < Len(sent) /\ Reads(sent[Count + 1])

\* The response being written is that to the last frame handled
Writes(f) ==
    /\ options.len = 0 /\ code = f.code
    /\ buffer.len <= Len(buffer.data) /\ Contents(buffer) = f.data
    /\ state <= HEADER + buffer.len
Writing ==
    IF serve = "write"
    THEN \E h \in Seq(FrameSet), f \in FrameSet :
            /\ handled = Append(h, f)
            /\ Writes(f)
            /\ Responses(h) \in Seq(Nat)
            /\ outbound = Responses(h) \o SubSeq(Answer(f), 1, state)
    ELSE outbound = Responses(handled)

FInv == Typed /\ Handled /\ Incoming /\ Reading /\ Writing

-----------------------------------------------------------------------------
(* The stream grows, is cut and is read.                                   *)

\* One more frame makes the stream longer, and moves no other frame.
LEMMA StreamGrows ==
    ASSUME NEW s \in Seq(FrameSet), NEW f \in FrameSet, NEW u, NEW n, Stream(s, u, n)
    PROVE  \E m : /\ Stream(Append(s, f), u \o Encoded(f), m)
                  /\ \A i \in 0 .. Len(s) : m[i] = n[i]
<1>1. PICK k, t, e, v, z, l, q :
         /\ k = Len(s) /\ t = Append(s, f) /\ e = Encoded(f) /\ v = u \o e
         /\ z = Size(f) /\ l = Len(u) /\ q = Len(v)
  BY Zenon
<1>2. /\ k \in Nat /\ t \in Seq(FrameSet) /\ Len(t) = k + 1 /\ t[k + 1] = f
      /\ \A i \in 1 .. k : t[i] = s[i] /\ s[i] \in FrameSet
  BY <1>1
<1>3. e \in Seq(Nat) /\ Len(e) = z /\ z \in Nat
  BY <1>1, EncodedUnits, Zenon
<1>4. /\ u \in Seq(Nat) /\ n \in [0 .. k -> Nat] /\ n[k] = l
      /\ \A i \in 0 .. k : n[i] <= l
      /\ \A i \in 1 .. k :
            /\ n[i] = n[i - 1] + Size(s[i])
            /\ \A j \in 1 .. Size(s[i]) : u[n[i - 1] + j] = Encoded(s[i])[j]
  BY <1>1, Zenon DEF Stream
<1>5. /\ v \in Seq(Nat) /\ l \in Nat /\ q = l + z
      /\ \A j \in 1 .. l : v[j] = u[j]
      /\ \A j \in 1 .. z : v[l + j] = e[j]
  <2>1. Join(v, u, e)
    BY <1>1, <1>3, <1>4, Joined, Zenon
  <2> QED BY <1>1, <1>3, <2>1, Zenon DEF Join
<1>6. PICK m : m = [i \in 0 .. k + 1 |-> IF i <= k THEN n[i] ELSE l + z]
  BY Zenon
<1>7. /\ m \in [0 .. k + 1 -> Nat] /\ m[k + 1] = q
      /\ \A i \in 0 .. k : m[i] = n[i]
      /\ \A i \in 0 .. k + 1 : m[i] <= q
  <2>1. l \in Nat /\ z \in Nat /\ q = l + z /\ q \in Nat /\ k \in Nat
    BY <1>2, <1>3, <1>5
  <2>2. \A i \in 0 .. k + 1 : i \in 0 .. k \/ (i = k + 1 /\ ~(i <= k))
    BY <2>1
  <2>3. ASSUME NEW i \in 0 .. k + 1, i = k + 1, ~(i <= k) PROVE m[i] = q
    BY <1>6, <2>1, <2>3
  <2>4. ASSUME NEW i \in 0 .. k + 1, i \in 0 .. k
        PROVE  m[i] = n[i] /\ m[i] \in Nat /\ m[i] <= q
    <3>1. n[i] \in Nat /\ n[i] <= l /\ i <= k
      BY <1>4, <2>1, <2>4
    <3>2. m[i] = n[i]
      BY <1>6, <3>1
    <3>3. n[i] <= q
      BY <2>1, <3>1
    <3> QED BY <3>1, <3>2, <3>3
  <2>5. \A i \in 0 .. k : i \in 0 .. k + 1
    BY <2>1
  <2>6. k + 1 \in 0 .. k + 1 /\ q <= q /\ ~(k + 1 <= k)
    BY <2>1
  <2>7. \A i \in 0 .. k + 1 : m[i] \in Nat /\ m[i] <= q
    BY <2>1, <2>2, <2>3, <2>4, <2>6
  <2>8. m \in [0 .. k + 1 -> Nat]
    BY <1>6, <2>7
  <2> QED BY <2>3, <2>4, <2>5, <2>6, <2>7, <2>8
<1>8. ASSUME NEW i \in 1 .. k
      PROVE  /\ m[i] = m[i - 1] + Size(t[i])
             /\ \A j \in 1 .. Size(t[i]) : v[m[i - 1] + j] = Encoded(t[i])[j]
  <2>1. i \in 0 .. k /\ i - 1 \in 0 .. k /\ t[i] = s[i] /\ s[i] \in FrameSet
    BY <1>2
  <2>2. m[i] = n[i] /\ m[i - 1] = n[i - 1] /\ n[i] = n[i - 1] + Size(s[i])
    BY <1>4, <1>7, <2>1, Zenon
  <2>3. n[i] \in Nat /\ n[i - 1] \in Nat /\ Size(s[i]) \in Nat /\ n[i] <= l
    BY <1>4, <2>1, EncodedUnits, Zenon
  <2>4. ASSUME NEW j \in 1 .. Size(s[i]) PROVE v[n[i - 1] + j] = Encoded(s[i])[j]
    <3>1. n[i - 1] + j \in 1 .. l
      BY <1>5, <2>2, <2>3, SMTT(30)
    <3> QED BY <1>4, <1>5, <3>1, Zenon
  <2> QED BY <2>1, <2>2, <2>4, Zenon
<1>9. ASSUME NEW i, i = k + 1
      PROVE  /\ m[i] = m[i - 1] + Size(t[i])
             /\ \A j \in 1 .. Size(t[i]) : v[m[i - 1] + j] = Encoded(t[i])[j]
  <2>1. i - 1 = k /\ k \in 0 .. k
    BY <1>2, <1>9
  <2>2. m[i - 1] = l
    BY <1>4, <1>7, <2>1
  <2>3. Size(t[i]) = z /\ Encoded(t[i]) = e
    BY <1>1, <1>2, <1>9, Zenon
  <2>4. m[i] = l + z
    BY <1>5, <1>7, <1>9, Zenon
  <2> QED BY <1>5, <2>2, <2>3, <2>4, Zenon
<1>10. \A i \in 1 .. k + 1 :
          /\ m[i] = m[i - 1] + Size(t[i])
          /\ \A j \in 1 .. Size(t[i]) : v[m[i - 1] + j] = Encoded(t[i])[j]
  <2>1. \A i \in 1 .. k + 1 : i \in 1 .. k \/ i = k + 1
    BY <1>2
  <2>2. ASSUME NEW i \in 1 .. k + 1
        PROVE  /\ m[i] = m[i - 1] + Size(t[i])
               /\ \A j \in 1 .. Size(t[i]) : v[m[i - 1] + j] = Encoded(t[i])[j]
    <3>1. CASE i \in 1 .. k
      BY <1>8, <3>1, Zenon
    <3>2. CASE i = k + 1
      BY <1>9, <3>2
    <3> QED BY <2>1, <3>1, <3>2, Zenon
  <2> QED BY <2>2, Zenon
<1>11. Stream(t, v, m)
  <2>1. /\ v \in Seq(Nat) /\ m \in [0 .. Len(t) -> Nat] /\ m[Len(t)] = Len(v)
        /\ \A i \in 0 .. Len(t) : m[i] <= Len(v)
    BY <1>1, <1>2, <1>5, <1>7, Zenon
  <2>2. \A i \in 1 .. Len(t) :
          /\ m[i] = m[i - 1] + Size(t[i])
          /\ \A j \in 1 .. Size(t[i]) : v[m[i - 1] + j] = Encoded(t[i])[j]
    BY <1>2, <1>10, Zenon
  <2> QED BY <2>1, <2>2, Zenon DEF Stream
<1> QED BY <1>1, <1>7, <1>11, Zenon

\* What is sent is added to what can be read.
LEMMA ContinuesGrows ==
    ASSUME NEW b \in Seq(Nat), NEW u \in Seq(Nat), NEW e \in Seq(Nat), NEW r \in Nat,
           Continues(b, TRUE, u, r)
    PROVE  Continues(b \o e, TRUE, u \o e, r)
<1>1. PICK c, v, x, y, z : /\ c = b \o e /\ v = u \o e
                          /\ x = Len(b) /\ y = Len(u) /\ z = Len(e)
  BY Zenon
<1>2. Join(c, b, e) /\ Join(v, u, e)
  BY <1>1, Joined, Zenon
<1>3. /\ x \in Nat /\ z \in Nat /\ Len(c) = x + z
      /\ \A j \in 1 .. x : c[j] = b[j]
      /\ \A j \in 1 .. z : c[x + j] = e[j]
  BY <1>1, <1>2, Zenon DEF Join
<1>4. /\ y \in Nat /\ Len(v) = y + z
      /\ \A j \in 1 .. y : v[j] = u[j]
      /\ \A j \in 1 .. z : v[y + j] = e[j]
  BY <1>1, <1>2, Zenon DEF Join
<1>5. r + x = y /\ \A j \in 1 .. x : b[j] = u[r + j]
  BY <1>1, Zenon DEF Continues
<1>51. x \in Nat /\ y \in Nat /\ z \in Nat /\ r + x = y
  BY <1>3, <1>4, <1>5, Zenon
<1>6. ASSUME NEW j \in 1 .. x + z PROVE c[j] = v[r + j]
  <2>1. CASE j \in 1 .. x
    <3>1. r + j \in 1 .. y
      BY <1>3, <1>5, <2>1
    <3> QED BY <1>3, <1>4, <1>5, <2>1, <3>1, Zenon
  <2>2. CASE j \notin 1 .. x
    <3>1. PICK i \in 1 .. z : j = x + i
      <4>1. j - x \in 1 .. z /\ j = x + (j - x)
        BY <1>3, <2>2
      <4> QED BY <4>1, Zenon
    <3>2. r + j = y + i
      BY <1>51, <3>1
    <3> QED BY <1>3, <1>4, <3>1, <3>2, Zenon
  <2> QED BY <2>1, <2>2
<1>7. r + (x + z) = y + z /\ r + (x + z) <= y + z
  BY <1>51
<1>8. Continues(c, TRUE, v, r)
  BY <1>3, <1>4, <1>6, <1>7, Zenon DEF Continues
<1> QED BY <1>1, <1>8, Zenon

\* When the peer stops, what can be read may be cut short.
LEMMA ContinuesCut ==
    ASSUME NEW b \in Seq(Nat), NEW o, NEW u \in Seq(Nat), NEW r \in Nat, NEW k \in 0 .. Len(b),
           Continues(b, o, u, r)
    PROVE  SubSeq(b, 1, k) \in Seq(Nat) /\ Continues(SubSeq(b, 1, k), FALSE, u, r)
<1>1. PICK c, x, y : c = SubSeq(b, 0 + 1, k) /\ x = Len(b) /\ y = Len(u)
  BY Zenon
<1>2. x \in Nat /\ y \in Nat /\ k \in Nat /\ k <= x
  BY <1>1
<1>3. c \in Seq(Nat) /\ Len(c) = k - 0 /\ \A j \in 1 .. k - 0 : c[j] = b[0 + j]
  BY <1>1, <1>2, Taken
<1>4. c \in Seq(Nat) /\ Len(c) = k /\ \A j \in 1 .. k : c[j] = b[j]
  BY <1>2, <1>3
<1>5. r + x <= y /\ \A j \in 1 .. x : b[j] = u[r + j]
  BY <1>1, Zenon DEF Continues
<1>6. r + k <= y /\ \A j \in 1 .. k : c[j] = u[r + j]
  <2>1. r + x <= y
    BY <1>5
  <2>2. r + k <= y /\ \A j \in 1 .. k : j \in 1 .. x
    BY <1>2, <2>1
  <2> QED BY <1>4, <1>5, <2>2, Zenon
<1>7. Continues(c, FALSE, u, r)
  BY <1>1, <1>4, <1>6, Zenon DEF Continues
<1>8. 0 + 1 = 1
  OBVIOUS
<1> QED BY <1>1, <1>4, <1>7, <1>8, Zenon

\* What is read is taken from what can be read.
LEMMA ContinuesRead ==
    ASSUME NEW b \in Seq(Nat), NEW o, NEW u \in Seq(Nat), NEW r \in Nat, NEW k \in 0 .. Len(b),
           Continues(b, o, u, r)
    PROVE  /\ SubSeq(b, k + 1, Len(b)) \in Seq(Nat)
           /\ Continues(SubSeq(b, k + 1, Len(b)), o, u, r + k)
<1>1. Len(b) \in Nat /\ Len(u) \in Nat /\ k \in Nat /\ k <= Len(b)
  OBVIOUS
<1>2. PICK c : c = SubSeq(b, k + 1, Len(b))
  BY Zenon
<1>3. /\ c \in Seq(Nat) /\ Len(c) = Len(b) - k
      /\ \A j \in 1 .. Len(b) - k : c[j] = b[k + j]
  BY <1>1, <1>2, Taken, SMTT(30)
<1>4. ASSUME NEW j \in 1 .. Len(c) PROVE c[j] = u[(r + k) + j]
  <2>1. k + j \in 1 .. Len(b) /\ j \in 1 .. Len(b) - k /\ r + (k + j) = (r + k) + j
    BY <1>1, <1>3
  <2>2. b[k + j] = u[r + (k + j)]
    BY <2>1, Zenon DEF Continues
  <2> QED BY <1>3, <2>1, <2>2
<1>5. (r + k) + Len(c) = r + Len(b)
  BY <1>1, <1>3
<1>6. Continues(c, o, u, r + k)
  BY <1>4, <1>5 DEF Continues
<1> QED BY <1>2, <1>3, <1>6

-----------------------------------------------------------------------------
(* Buffers.                                                                *)

\* p11_buffer_reset keeps what is in the buffer.
LEMMA RoomIs ==
    ASSUME NEW b \in Buffers, NEW n \in Nat
    PROVE  /\ Room(b, n) \in Buffers /\ Room(b, n).len = 0
           /\ Len(Room(b, n).data) >= n /\ Len(Room(b, n).data) >= Len(b.data)
           /\ \A k \in 1 .. Len(b.data) : Room(b, n).data[k] = b.data[k]
<1>1. PICK s, l : s = b.data /\ l = Len(s)
  BY Zenon
<1>2. s \in Seq(Nat) /\ l \in Nat /\ \A k \in 1 .. l : s[k] \in Nat
  BY <1>1 DEF Buffers
<1>3. PICK m \in Nat : m = (IF n < l THEN l ELSE n) /\ m >= n /\ m >= l
  BY <1>2
<1>4. PICK d : d = [k \in 1 .. m |-> IF k <= l THEN s[k] ELSE 0]
  BY Zenon
<1>5. d \in [1 .. m -> Nat] /\ \A k \in 1 .. l : d[k] = s[k]
  BY <1>2, <1>3, <1>4
<1>6. d \in Seq(Nat) /\ Len(d) = m
  BY <1>3, <1>5
<1>7. Room(b, n) = [data |-> d, len |-> 0]
  BY <1>1, <1>3, <1>4, Zenon DEF Room
<1>8. [data |-> d, len |-> 0] \in Buffers
  BY <1>6 DEF Buffers
<1> QED BY <1>1, <1>3, <1>5, <1>6, <1>7, <1>8

\* A buffer that is given a length has the room for it.
LEMMA SizedIs ==
    ASSUME NEW b \in Buffers, NEW n \in Nat
    PROVE  /\ Sized(b, n) \in Buffers /\ Sized(b, n).len = n
           /\ Len(Sized(b, n).data) >= n
<1>1. Room(b, n) \in Buffers /\ Len(Room(b, n).data) >= n
  BY RoomIs
<1> QED BY <1>1, Zenon DEF Sized, Buffers

\* What is in a buffer d once num units have been read into b
Fills(d, b, offset, at, num) ==
    /\ d \in Buffers /\ d.len = b.len /\ Len(d.data) = Len(b.data)
    /\ \A k \in 1 .. Len(b.data) :
          /\ offset + k <= at => d.data[k] = b.data[k]
          /\ offset + k > at /\ offset + k <= at + num =>
                d.data[k] = inbound[(offset + k) - at]

\* read_at puts the units it reads after those that are there.
LEMMA FilledIs ==
    ASSUME inbound \in Seq(Nat), NEW b \in Buffers,
           NEW offset \in Nat, NEW at \in Nat, NEW num \in Nat,
           offset <= at, num <= Len(inbound)
    PROVE  Fills(Filled(b, offset, at, num), b, offset, at, num)
<1>1. PICK s, l, w, from : /\ s = b.data /\ l = Len(s) /\ w = inbound
                           /\ from = at - offset
  BY Zenon
<1>2. /\ s \in Seq(Nat) /\ l \in Nat /\ (\A k \in 1 .. l : s[k] \in Nat)
      /\ DOMAIN s = 1 .. l /\ b.len \in Nat
  BY <1>1 DEF Buffers
<1>3. w \in Seq(Nat) /\ Len(w) \in Nat /\ num <= Len(w) /\ (\A k \in 1 .. Len(w) : w[k] \in Nat)
  BY <1>1
<1>4. from \in Nat /\ \A k \in from + 1 .. from + num : k - from \in 1 .. Len(w)
  BY <1>1, <1>3
<1>5. PICK d : d = [k \in 1 .. l |-> IF k \in from + 1 .. from + num THEN w[k - from] ELSE s[k]]
  BY Zenon
<1>6. d \in [1 .. l -> Nat]
  BY <1>2, <1>3, <1>4, <1>5
<1>7. d \in Seq(Nat) /\ Len(d) = l
  BY <1>2, <1>6
<1>8. Filled(b, offset, at, num) = [b EXCEPT !.data = d]
  <2>1. DOMAIN b.data = 1 .. l
    BY <1>1, <1>2
  <2>2. FirstMissing(offset, at) = from
    BY <1>1 DEF FirstMissing
  <2> QED BY <1>1, <1>5, <2>1, <2>2 DEF Filled
<1>9. [b EXCEPT !.data = d] \in Buffers /\ [b EXCEPT !.data = d].len = b.len
      /\ [b EXCEPT !.data = d].data = d
  BY <1>7, Zenon DEF Buffers
<1>10. ASSUME NEW k \in 1 .. l, offset + k <= at PROVE d[k] = s[k]
  <2>1. k \notin from + 1 .. from + num
    BY <1>1, <1>2, <1>10
  <2> QED BY <1>5, <2>1
<1>11. ASSUME NEW k \in 1 .. l, offset + k > at, offset + k <= at + num
       PROVE  d[k] = w[(offset + k) - at]
  <2>1. k \in from + 1 .. from + num /\ k - from = (offset + k) - at
    BY <1>1, <1>2, <1>11
  <2> QED BY <1>5, <2>1
<1> QED BY <1>1, <1>7, <1>8, <1>9, <1>10, <1>11, SMTT(30) DEF Fills

-----------------------------------------------------------------------------
(* Reading.                                                                *)

\* The units that can be read are those of the frame being read.
LEMMA NextUnits ==
    ASSUME FInv, serve = "read", NEW num \in 1 .. Len(inbound)
    PROVE  /\ Count \in Nat /\ Count < Len(sent) /\ sent[Count + 1] \in FrameSet
           /\ state + num <= Size(sent[Count + 1]) =>
                 \A j \in 1 .. num : inbound[j] = Encoded(sent[Count + 1])[state + j]
<1>1. PICK units, ends :
         Stream(sent, units, ends) /\ Continues(inbound, open, units, ends[Count] + Started)
  BY DEF FInv, Incoming, Running
<1>2. PICK k, s, n, l, z, a :
         /\ k = Count /\ s = sent /\ n = Len(s) /\ l = Len(inbound) /\ z = Len(units)
         /\ a = ends[k]
  BY Zenon
<1>3. k \in Nat /\ k <= n /\ n \in Nat /\ l \in Nat /\ num \in 1 .. l /\ state \in Nat
  BY <1>2 DEF FInv, Typed, Handled, Count
<1>4. /\ units \in Seq(Nat) /\ z \in Nat /\ ends \in [0 .. n -> Nat] /\ ends[n] = z
      /\ \A i \in 1 .. n :
          /\ ends[i] = ends[i - 1] + Size(s[i])
          /\ \A j \in 1 .. Size(s[i]) : units[ends[i - 1] + j] = Encoded(s[i])[j]
  BY <1>1, <1>2 DEF Stream
<1>5. a \in Nat
  BY <1>2, <1>3, <1>4, SMTT(30)
<1>6. /\ (a + state) + l <= z
      /\ \A j \in 1 .. l : inbound[j] = units[(a + state) + j]
  BY <1>1, <1>2, Zenon DEF Continues, Started
<1>7. k < n
  <2>1. (a + state) + l <= z
    BY <1>6
  <2>2. a # z
    BY <1>3, <1>4, <1>5, <2>1
  <2> QED BY <1>2, <1>3, <1>4, <2>2
<1>8. k + 1 \in 1 .. n /\ k + 1 - 1 = k
  BY <1>3, <1>7
<1>9. s[k + 1] \in FrameSet
  BY <1>2, <1>8 DEF FInv, Typed
<1>10. ASSUME state + num <= Size(s[k + 1]), NEW j \in 1 .. num
       PROVE  inbound[j] = Encoded(s[k + 1])[state + j]
  <2>1. Size(s[k + 1]) \in Nat
    BY <1>9, EncodedUnits, Zenon
  <2>2. /\ state + j \in 1 .. Size(s[k + 1]) /\ j \in 1 .. l
        /\ (a + state) + j = a + (state + j)
    BY <1>3, <1>5, <1>10, <2>1
  <2>3. units[a + (state + j)] = Encoded(s[k + 1])[state + j]
    <3>1. PICK q : q = k + 1
      OBVIOUS
    <3>2. q \in 1 .. n /\ ends[q - 1] = a
      <4>1. q \in 1 .. n /\ q - 1 = k
        BY <1>3, <1>7, <3>1
      <4> QED BY <1>2, <4>1, Zenon
    <3>3. \A i \in 1 .. Size(s[q]) : units[ends[q - 1] + i] = Encoded(s[q])[i]
      BY <1>4, <3>2, Zenon
    <3> QED BY <2>2, <3>1, <3>2, <3>3, Zenon
  <2> QED BY <1>6, <2>2, <2>3, Zenon
<1> QED BY <1>2, <1>3, <1>7, <1>9, <1>10, Zenon

\* Reading goes on in the stream.
LEMMA ReadIncoming ==
    ASSUME FInv, serve = "read", NEW num \in 1 .. Len(inbound), Took(num),
           UNCHANGED <<sent, open, serve, handled>>
    PROVE  Incoming' /\ inbound' \in Seq(Nat) /\ state' = state + num /\ state' \in Nat
<1>1. PICK units, ends :
         Stream(sent, units, ends) /\ Continues(inbound, open, units, ends[Count] + Started)
  BY DEF FInv, Incoming, Running
<1>2. PICK r : r = ends[Count] + state
  OBVIOUS
<1>3. /\ inbound \in Seq(Nat) /\ Len(inbound) \in Nat /\ state \in Nat
      /\ Count \in 0 .. Len(sent)
  BY DEF FInv, Typed, Handled, Count
<1>4. units \in Seq(Nat) /\ ends[Count] \in Nat
  BY <1>1, <1>3, Zenon DEF Stream
<1>5. r \in Nat /\ num \in 0 .. Len(inbound)
  BY <1>2, <1>3, <1>4, SMTT(30)
<1>6. Continues(inbound, open, units, r)
  BY <1>1, <1>2, Zenon DEF Started
<1>7. /\ SubSeq(inbound, num + 1, Len(inbound)) \in Seq(Nat)
      /\ Continues(SubSeq(inbound, num + 1, Len(inbound)), open, units, r + num)
  BY <1>3, <1>4, <1>5, <1>6, ContinuesRead, Zenon
<1>8. inbound' \in Seq(Nat) /\ Continues(inbound', open, units, r + num)
  BY <1>7 DEF Took
<1>9. state' = state + num /\ state' \in Nat /\ r + num = ends[Count] + state'
  BY <1>2, <1>3, <1>4, SMTT(30) DEF Took
<1>10. Count' = Count /\ Started' = state'
  BY DEF Count, Started
<1>11. Stream(sent', units, ends) /\ Continues(inbound', open', units, ends[Count'] + Started')
  BY <1>1, <1>8, <1>9, <1>10
<1>12. Incoming'
  BY <1>11, Zenon DEF Incoming
<1> QED BY <1>8, <1>9, <1>12

\* The end of the stream ends the loop.
LEMMA EndedKeeps ==
    ASSUME FInv, serve = "read", NEW offset, Ended(offset)
    PROVE  FInv'
<1>1. /\ serve' \in {"eof", "error"}
      /\ UNCHANGED <<sent, inbound, outbound, open, state, code, options, buffer, handled>>
  BY DEF Ended, EndOfFile
<1>2. Typed' /\ Handled' /\ Reading'
  BY <1>1 DEF FInv, Typed, Handled, Reading, Count
<1>3. PICK units, ends : Stream(sent, units, ends)
  BY DEF FInv, Incoming
<1>4. Incoming'
  BY <1>1, <1>3, SMTT(30) DEF Incoming, Running, Stream
<1>5. Writing'
  BY <1>1 DEF FInv, Writing
<1> QED BY <1>2, <1>4, <1>5 DEF FInv

\* A step that reads leaves all but the frame being read as it was
LEMMA ReadKeeps ==
    ASSUME FInv, serve = "read", NEW num \in 1 .. Len(inbound), Took(num),
           UNCHANGED <<sent, outbound, open, serve, handled>>,
           code' \in Nat, options' \in Buffers, buffer' \in Buffers,
           NEW f, f = sent[Count + 1], Reads(f)'
    PROVE  FInv'
<1>1. Incoming' /\ inbound' \in Seq(Nat) /\ state' \in Nat
  BY ReadIncoming, Zenon
<1>2. Typed' /\ Handled'
  BY <1>1 DEF FInv, Typed, Handled, Count
<1>3. Count < Len(sent)
  BY NextUnits, Zenon
<1>4. Count' = Count /\ (sent[Count + 1])' = f
  BY DEF Count
<1>5. Reading'
  <2>1. Reads(sent[Count + 1])'
    BY <1>4 DEF Reads
  <2> QED BY <1>3, <1>4, <2>1 DEF Reading
<1>6. Writing'
  BY DEF FInv, Writing
<1> QED BY <1>1, <1>2, <1>5, <1>6 DEF FInv

\* The header is read, and when it is whole it gives the code and the lengths.
LEMMA ReadHeaderKeeps ==
    ASSUME FInv, ReadHeader
    PROVE  FInv'
<1>1. serve = "read" /\ state \in Nat /\ state < 3 /\ inbound \in Seq(Nat) /\ Len(inbound) \in Nat
  BY DEF ReadHeader, HEADER, FInv, Typed
<1>2. CASE Ended(0)
  BY <1>1, <1>2, EndedKeeps, Zenon
<1>3. CASE \E num \in Partial(HEADER, 0, state) :
             LET header == Filled(Room(buffer, HEADER), 0, state, num)
                 whole == state + num = HEADER
             IN  /\ Took(num)
                 /\ buffer' = IF whole THEN Sized(header, header.data[3]) ELSE header
                 /\ options' = IF whole THEN Sized(options, header.data[2]) ELSE options
                 /\ code' = IF whole THEN header.data[1] ELSE code
                 /\ UNCHANGED <<sent, outbound, open, serve, handled>>
  <2>1. PICK num, room, header :
           /\ num \in Partial(HEADER, 0, state)
           /\ room = Room(buffer, 3) /\ header = Filled(room, 0, state, num)
           /\ Took(num)
           /\ buffer' = IF state + num = 3 THEN Sized(header, header.data[3]) ELSE header
           /\ options' = IF state + num = 3 THEN Sized(options, header.data[2]) ELSE options
           /\ code' = IF state + num = 3 THEN header.data[1] ELSE code
           /\ UNCHANGED <<sent, outbound, open, serve, handled>>
    BY <1>3, Zenon DEF HEADER
  <2>2. /\ num \in Nat /\ num \in 1 .. Len(inbound) /\ num <= Len(inbound)
        /\ state + num <= 3
    BY <1>1, <2>1 DEF Partial, HEADER
  <2>3. PICK f, e, z : f = sent[Count + 1] /\ e = Encoded(f) /\ z = Size(f)
    OBVIOUS
  <2>4. /\ f \in FrameSet
        /\ state + num <= z => \A j \in 1 .. num : inbound[j] = e[state + j]
    BY <1>1, <2>2, <2>3, NextUnits, Zenon
  <2>5. /\ z \in Nat /\ z >= 3 /\ e[1] = f.code
        /\ e[2] = Len(f.options) /\ e[3] = Len(f.data)
        /\ Len(f.options) \in Nat /\ Len(f.data) \in Nat
        /\ z = 3 + Len(f.options) + Len(f.data)
    BY <2>3, <2>4, EncodedUnits, Zenon
  <2>50. state \in Nat /\ num \in Nat /\ z \in Nat /\ z >= 3 /\ state + num <= 3
    BY <1>1, <2>2, <2>5, Zenon
  <2>6. \A j \in 1 .. num : inbound[j] = e[state + j]
    <3>1. state + num <= z
      BY <2>50
    <3> QED BY <2>4, <3>1, Zenon
  <2>7. buffer \in Buffers /\ options \in Buffers /\ code \in Nat
    BY DEF FInv, Typed
  <2>8. /\ room \in Buffers
        /\ Len(room.data) >= 3 /\ Len(room.data) >= Len(buffer.data)
        /\ \A k \in 1 .. Len(buffer.data) : room.data[k] = buffer.data[k]
    <3>1. 3 \in Nat
      OBVIOUS
    <3> QED BY <2>1, <2>7, <3>1, RoomIs, Zenon
  <2>9. /\ header \in Buffers /\ Len(header.data) = Len(room.data)
        /\ \A k \in 1 .. Len(room.data) :
              /\ 0 + k <= state => header.data[k] = room.data[k]
              /\ 0 + k > state /\ 0 + k <= state + num =>
                    header.data[k] = inbound[(0 + k) - state]
    <3>1. 0 \in Nat /\ 0 <= state
      BY <1>1
    <3>2. Fills(header, room, 0, state, num)
      BY <1>1, <2>1, <2>2, <2>8, <3>1, FilledIs, Zenon
    <3> QED BY <3>2, Zenon DEF Fills
  <2>10. Len(room.data) \in Nat /\ Len(buffer.data) \in Nat
    BY <2>7, <2>8 DEF Buffers
  <2>11. state > 0 => /\ Len(buffer.data) >= 3
                      /\ \A j \in 1 .. state : buffer.data[j] = e[j]
    BY <1>1, <2>3 DEF FInv, Reading, Reads, HEADER
  <2>12. ASSUME NEW j \in 1 .. state + num PROVE header.data[j] = e[j]
    <3>1. j \in 1 .. Len(room.data) /\ 0 + j = j
      BY <1>1, <2>2, <2>8, <2>10
    <3>2. CASE j <= state
      <4>1. state > 0 /\ j \in 1 .. state
        BY <1>1, <3>2
      <4>2. j \in 1 .. Len(buffer.data)
        BY <1>1, <2>10, <2>11, <4>1
      <4> QED BY <2>8, <2>9, <2>11, <3>1, <3>2, <4>1, <4>2
    <3>3. CASE j > state
      <4>1. PICK i \in 1 .. num : i = j - state /\ state + i = j /\ j <= state + num
        BY <1>1, <2>2, <3>3
      <4>2. header.data[j] = inbound[i]
        BY <2>9, <3>1, <3>3, <4>1
      <4> QED BY <2>6, <4>1, <4>2
    <3> QED BY <1>1, <2>2, <3>2, <3>3
  <2>13. state' = state + num
    BY <2>1 DEF Took
  <2>14. CASE state + num < 3
    <3>1. buffer' = header /\ options' = options /\ code' = code
      BY <1>1, <2>1, <2>2, <2>14
    <3>2. Reads(f)'
      <4>1. state' <= z /\ state' < 3 /\ ~(state' >= 3)
        BY <2>13, <2>14, <2>50
      <4>2. Len(buffer.data)' >= 3
        BY <2>8, <2>9, <2>10, <3>1
      <4>3. \A j \in 1 .. state' : buffer'.data[j] = e[j]
        BY <2>12, <2>13, <3>1, SMTT(30)
      <4> QED BY <2>3, <4>1, <4>2, <4>3 DEF Reads, HEADER
    <3> QED BY <1>1, <2>1, <2>2, <2>3, <2>7, <2>9, <3>1, <3>2, ReadKeeps,
               SMTT(30)
  <2>15. CASE state + num = 3
    <3>1. /\ header.data[1] = f.code /\ header.data[2] = Len(f.options)
          /\ header.data[3] = Len(f.data)
      <4>1. 1 \in 1 .. 3 /\ 2 \in 1 .. 3 /\ 3 \in 1 .. 3
        OBVIOUS
      <4>2. \A j \in 1 .. 3 : header.data[j] = e[j]
        BY <2>12, <2>15, SMTT(30)
      <4> QED BY <2>5, <4>1, <4>2
    <3>2. /\ buffer' = Sized(header, Len(f.data)) /\ options' = Sized(options, Len(f.options))
          /\ code' = f.code
      BY <2>1, <2>15, <3>1
    <3>3. /\ buffer' \in Buffers /\ buffer'.len = Len(f.data)
          /\ Len(buffer'.data) >= Len(f.data)
      BY <2>5, <2>9, <3>2, SizedIs
    <3>4. /\ options' \in Buffers /\ options'.len = Len(f.options)
          /\ Len(options'.data) >= Len(f.options)
      BY <2>5, <2>7, <3>2, SizedIs
    <3>5. code' \in Nat
      BY <2>4, <3>2 DEF FrameSet
    <3>6. Len(buffer'.data) \in Nat /\ Len(options'.data) \in Nat
      BY <3>3, <3>4, SMTT(30) DEF Buffers
    <3>7. Reads(f)'
      <4>1. state' = 3 /\ state' <= z
        BY <2>5, <2>13, <2>15, Zenon
      <4>2. \A j \in 1 .. Len(f.options) : ~(3 + j <= state')
        BY <2>5, <4>1
      <4>3. \A j \in 1 .. Len(f.data) : ~(3 + Len(f.options) + j <= state')
        BY <2>5, <4>1
      <4>4. Len(f.options) <= Len(options'.data) /\ Len(f.data) <= Len(buffer'.data)
        BY <2>5, <3>3, <3>4, <3>6
      <4> QED BY <2>3, <3>2, <3>3, <3>4, <4>1, <4>2, <4>3, <4>4, SMTT(30)
                 DEF Reads, HEADER
    <3> QED BY <1>1, <2>1, <2>2, <2>3, <3>3, <3>4, <3>5, <3>7, ReadKeeps
  <2> QED BY <1>1, <2>2, <2>14, <2>15
<1> QED BY <1>2, <1>3 DEF ReadHeader

\* The options go into their buffer.
LEMMA ReadOptionsKeeps ==
    ASSUME FInv, ReadOptions
    PROVE  FInv'
<1>1. serve = "read" /\ state \in Nat /\ state >= 3 /\ inbound \in Seq(Nat) /\ Len(inbound) \in Nat
  BY DEF ReadOptions, HEADER, FInv, Typed
<1>2. CASE Ended(HEADER)
  BY <1>1, <1>2, EndedKeeps, Zenon
<1>3. CASE \E num \in Partial(options.len, HEADER, state) :
             /\ options' = Filled(options, HEADER, state, num)
             /\ Took(num)
             /\ UNCHANGED <<sent, outbound, open, serve, code, buffer, handled>>
  <2>1. PICK num \in Partial(options.len, HEADER, state) :
             /\ options' = Filled(options, HEADER, state, num)
             /\ Took(num)
             /\ UNCHANGED <<sent, outbound, open, serve, code, buffer, handled>>
    BY <1>3
  <2>2. PICK f, e, z, x, y : /\ f = sent[Count + 1] /\ e = Encoded(f) /\ z = Size(f)
                            /\ x = Len(f.options) /\ y = Len(f.data)
    BY Zenon
  <2>3. buffer \in Buffers /\ options \in Buffers /\ code \in Nat
    BY DEF FInv, Typed
  <2>4. /\ code = f.code /\ state <= z
        /\ options.len = x /\ x <= Len(options.data)
        /\ buffer.len = y /\ y <= Len(buffer.data)
        /\ \A j \in 1 .. x : 3 + j <= state => options.data[j] = f.options[j]
        /\ \A j \in 1 .. y : 3 + x + j <= state => buffer.data[j] = f.data[j]
    BY <1>1, <2>2 DEF FInv, Reading, Reads, HEADER
  <2>5. /\ num \in Nat /\ num \in 1 .. Len(inbound) /\ num <= Len(inbound)
        /\ num \in 1 .. (3 + x - state)
    BY <1>1, <2>1, <2>4 DEF Partial, HEADER
  <2>6. f \in FrameSet
    BY <1>1, <2>2, <2>5, NextUnits, Zenon
  <2>7. /\ z \in Nat /\ x \in Nat /\ y \in Nat /\ z = 3 + x + y
        /\ \A j \in 1 .. x : e[3 + j] = f.options[j]
        /\ \A j \in 1 .. y : e[3 + x + j] = f.data[j]
    BY <2>2, <2>6, EncodedUnits, Zenon
  <2>8. /\ z \in Nat /\ x \in Nat /\ y \in Nat /\ z = 3 + x + y
        /\ state \in Nat /\ state >= 3 /\ num \in 1 .. (3 + x - state)
    BY <1>1, <2>5, <2>7, Zenon
  <2>9. state + num <= 3 + x /\ state + num <= z /\ 3 \in Nat
    BY <2>8
  <2>10. 3 <= state
    BY <2>8
  <2>11. \A j \in 1 .. num : inbound[j] = e[state + j]
    BY <1>1, <2>2, <2>5, <2>9, NextUnits, Zenon
  <2>12. /\ options' \in Buffers /\ options'.len = options.len
         /\ Len(options'.data) = Len(options.data)
         /\ \A k \in 1 .. Len(options.data) :
               /\ (3) + k <= state => options'.data[k] = options.data[k]
               /\ (3) + k > state /\ (3) + k <= state + num =>
                     options'.data[k] = inbound[((3) + k) - state]
    <3>1. options' = Filled(options, 3, state, num)
      BY <2>1, <2>4, Zenon DEF HEADER
    <3>2. Fills(options', options, 3, state, num)
      BY <1>1, <2>3, <2>5, <2>9, <2>10, <3>1, FilledIs, Zenon
    <3> QED BY <3>2, Zenon DEF Fills
  <2>13. state' = state + num
    BY <2>1 DEF Took
  <2>14. Len(options.data) \in Nat /\ x <= Len(options.data)
    BY <2>3, <2>4 DEF Buffers
  <2>15. ASSUME NEW j \in 1 .. x, 3 + j <= state + num PROVE options'.data[j] = f.options[j]
    <3>1. j \in 1 .. Len(options.data)
      BY <2>8, <2>14
    <3>2. CASE 3 + j <= state
      BY <2>4, <2>12, <3>1, <3>2
    <3>3. CASE ~(3 + j <= state)
      <4>1. PICK i \in 1 .. num : i = (3 + j) - state /\ state + i = 3 + j /\ 3 + j > state
        BY <2>8, <2>15, <3>3
      <4>2. options'.data[j] = inbound[i]
        BY <2>12, <2>15, <3>1, <4>1
      <4> QED BY <2>7, <2>11, <4>1, <4>2
    <3> QED BY <3>2, <3>3
  <2>16. Reads(f)'
    <3>1. state' <= z /\ state' >= 3 /\ ~(state' < 3)
      BY <2>8, <2>9, <2>13
    <3>2. \A j \in 1 .. x : 3 + j <= state' => options'.data[j] = f.options[j]
      BY <2>13, <2>15
    <3>3. \A j \in 1 .. y : 3 + x + j <= state' => buffer'.data[j] = f.data[j]
      <4>1. \A j \in 1 .. y : ~(3 + x + j <= state')
        BY <2>8, <2>9, <2>13
      <4> QED BY <4>1
    <3>4. /\ code' = f.code
          /\ options'.len = x /\ x <= Len(options'.data)
          /\ buffer'.len = y /\ y <= Len(buffer'.data)
      BY <2>1, <2>4, <2>12, SMTT(30)
    <3> QED BY <2>2, <3>1, <3>2, <3>3, <3>4, Zenon DEF Reads, HEADER
  <2> QED BY <1>1, <2>1, <2>2, <2>3, <2>5, <2>12, <2>16, ReadKeeps
<1> QED BY <1>2, <1>3 DEF ReadOptions

\* The data go into theirs.
LEMMA ReadDataKeeps ==
    ASSUME FInv, ReadData
    PROVE  FInv'
<1>1. serve = "read" /\ state \in Nat /\ state >= 3 /\ inbound \in Seq(Nat) /\ Len(inbound) \in Nat
  BY DEF ReadData, HEADER, FInv, Typed
<1>2. CASE Ended(DataAt)
  BY <1>1, <1>2, EndedKeeps, Zenon
<1>3. CASE \E num \in Partial(buffer.len, DataAt, state) :
             /\ buffer' = Filled(buffer, DataAt, state, num)
             /\ Took(num)
             /\ UNCHANGED <<sent, outbound, open, serve, code, options, handled>>
  <2>1. PICK num \in Partial(buffer.len, DataAt, state) :
             /\ buffer' = Filled(buffer, DataAt, state, num)
             /\ Took(num)
             /\ UNCHANGED <<sent, outbound, open, serve, code, options, handled>>
    BY <1>3
  <2>2. PICK f, e, z, x, y : /\ f = sent[Count + 1] /\ e = Encoded(f) /\ z = Size(f)
                            /\ x = Len(f.options) /\ y = Len(f.data)
    BY Zenon
  <2>3. buffer \in Buffers /\ options \in Buffers /\ code \in Nat
    BY DEF FInv, Typed
  <2>4. /\ code = f.code /\ state <= z
        /\ options.len = x /\ x <= Len(options.data)
        /\ buffer.len = y /\ y <= Len(buffer.data)
        /\ \A j \in 1 .. x : 3 + j <= state => options.data[j] = f.options[j]
        /\ \A j \in 1 .. y : 3 + x + j <= state => buffer.data[j] = f.data[j]
    BY <1>1, <2>2 DEF FInv, Reading, Reads, HEADER
  <2>5. /\ num \in Nat /\ num \in 1 .. Len(inbound) /\ num <= Len(inbound)
        /\ num \in 1 .. (3 + x + y - state)
    BY <1>1, <2>1, <2>4 DEF Partial, HEADER, DataAt
  <2>6. f \in FrameSet
    BY <1>1, <2>2, <2>5, NextUnits, Zenon
  <2>7. /\ z \in Nat /\ x \in Nat /\ y \in Nat /\ z = 3 + x + y
        /\ \A j \in 1 .. x : e[3 + j] = f.options[j]
        /\ \A j \in 1 .. y : e[3 + x + j] = f.data[j]
    BY <2>2, <2>6, EncodedUnits, Zenon
  <2>8. /\ z \in Nat /\ x \in Nat /\ y \in Nat /\ z = 3 + x + y
        /\ state \in Nat /\ state >= 3 /\ num \in 1 .. (3 + x + y - state)
    BY <1>1, <2>5, <2>7, Zenon
  <2>9. state + num <= 3 + x + y /\ state + num <= z /\ 3 + x \in Nat
    BY <2>8
  <2>10. 3 + x <= state
    <3>1. state >= 3 + options.len
      BY DEF ReadData, Whole, HEADER
    <3> QED BY <2>4, <2>8, <3>1
  <2>11. \A j \in 1 .. num : inbound[j] = e[state + j]
    BY <1>1, <2>2, <2>5, <2>9, NextUnits, Zenon
  <2>12. /\ buffer' \in Buffers /\ buffer'.len = buffer.len
         /\ Len(buffer'.data) = Len(buffer.data)
         /\ \A k \in 1 .. Len(buffer.data) :
               /\ (3 + x) + k <= state => buffer'.data[k] = buffer.data[k]
               /\ (3 + x) + k > state /\ (3 + x) + k <= state + num =>
                     buffer'.data[k] = inbound[((3 + x) + k) - state]
    <3>1. buffer' = Filled(buffer, 3 + x, state, num)
      BY <2>1, <2>4, Zenon DEF HEADER, DataAt
    <3>2. Fills(buffer', buffer, 3 + x, state, num)
      BY <1>1, <2>3, <2>5, <2>9, <2>10, <3>1, FilledIs, Zenon
    <3> QED BY <3>2, Zenon DEF Fills
  <2>13. state' = state + num
    BY <2>1 DEF Took
  <2>14. Len(buffer.data) \in Nat /\ y <= Len(buffer.data)
    BY <2>3, <2>4 DEF Buffers
  <2>15. ASSUME NEW j \in 1 .. y, 3 + x + j <= state + num PROVE buffer'.data[j] = f.data[j]
    <3>1. j \in 1 .. Len(buffer.data)
      BY <2>8, <2>14
    <3>2. CASE 3 + x + j <= state
      BY <2>4, <2>12, <3>1, <3>2
    <3>3. CASE ~(3 + x + j <= state)
      <4>1. PICK i \in 1 .. num : i = (3 + x + j) - state /\ state + i = 3 + x + j /\ 3 + x + j > state
        BY <2>8, <2>15, <3>3
      <4>2. buffer'.data[j] = inbound[i]
        BY <2>12, <2>15, <3>1, <4>1
      <4> QED BY <2>7, <2>11, <4>1, <4>2
    <3> QED BY <3>2, <3>3
  <2>16. Reads(f)'
    <3>1. state' <= z /\ state' >= 3 /\ ~(state' < 3)
      BY <2>8, <2>9, <2>13, SMTT(30)
    <3>2. \A j \in 1 .. x : 3 + j <= state' => options'.data[j] = f.options[j]
      <4>1. \A j \in 1 .. x : 3 + j <= state
        BY <2>8, <2>10
      <4> QED BY <2>1, <2>4, <4>1
    <3>3. \A j \in 1 .. y : 3 + x + j <= state' => buffer'.data[j] = f.data[j]
      BY <2>13, <2>15
    <3>4. /\ code' = f.code
          /\ options'.len = x /\ x <= Len(options'.data)
          /\ buffer'.len = y /\ y <= Len(buffer'.data)
      BY <2>1, <2>4, <2>12
    <3> QED BY <2>2, <3>1, <3>2, <3>3, <3>4, Zenon DEF Reads, HEADER
  <2> QED BY <1>1, <2>1, <2>2, <2>3, <2>5, <2>12, <2>16, ReadKeeps
<1> QED BY <1>2, <1>3 DEF ReadData

-----------------------------------------------------------------------------
(* The other steps.                                                        *)

\* A buffer with the units of a sequence has the sequence as its contents.
LEMMA SameContents ==
    ASSUME NEW b \in Buffers, NEW s \in Seq(Nat), b.len = Len(s), b.len <= Len(b.data),
           \A j \in 1 .. Len(s) : b.data[j] = s[j]
    PROVE  Contents(b) = s
<1>1. PICK d, n, c : d = b.data /\ n = b.len /\ c = SubSeq(d, 0 + 1, n)
  BY Zenon
<1>2. d \in Seq(Nat) /\ n \in Nat /\ 0 \in Nat /\ 0 <= n /\ n <= Len(d)
  BY <1>1 DEF Buffers
<1>3. c \in Seq(Nat) /\ Len(c) = n - 0 /\ \A j \in 1 .. n - 0 : c[j] = d[0 + j]
  BY <1>1, <1>2, Taken, SMTT(30)
<1>4. c \in Seq(Nat) /\ Len(c) = Len(s) /\ \A j \in 1 .. Len(c) : c[j] = s[j]
  BY <1>1, <1>2, <1>3
<1>5. c = s
  BY <1>4, SeqEqual, Zenon
<1>6. 0 + 1 = 1
  OBVIOUS
<1> QED BY <1>1, <1>5, <1>6, Zenon DEF Contents

\* A message that is whole is the frame that was sent.
LEMMA RespondKeeps ==
    ASSUME FInv, Respond
    PROVE  FInv'
<1>1. PICK f, x, y, z : /\ f = sent[Count + 1] /\ z = Size(f)
                        /\ x = Len(f.options) /\ y = Len(f.data)
  BY Zenon
<1>2. /\ serve = "read" /\ state \in Nat /\ state >= 3 /\ Count \in Nat /\ Len(sent) \in Nat
      /\ buffer \in Buffers /\ options \in Buffers /\ code \in Nat
      /\ Whole(options.len, HEADER, state) /\ Whole(buffer.len, DataAt, state)
  BY DEF FInv, Typed, Respond, HEADER, Count
<1>3. /\ Count < Len(sent)
      /\ code = f.code /\ state <= z
      /\ options.len = x /\ x <= Len(options.data)
      /\ buffer.len = y /\ y <= Len(buffer.data)
      /\ \A j \in 1 .. x : 3 + j <= state => options.data[j] = f.options[j]
      /\ \A j \in 1 .. y : 3 + x + j <= state => buffer.data[j] = f.data[j]
  BY <1>1, <1>2 DEF FInv, Reading, Reads, HEADER
<1>4. f \in FrameSet /\ f.options \in Seq(Nat) /\ f.data \in Seq(Nat)
  <2>1. Count + 1 \in 1 .. Len(sent)
    BY <1>2, <1>3
  <2>2. f \in FrameSet
    BY <1>1, <2>1 DEF FInv, Typed
  <2> QED BY <2>2 DEF FrameSet
<1>5. z \in Nat /\ x \in Nat /\ y \in Nat /\ z = 3 + x + y
  BY <1>1, <1>4, EncodedUnits, Zenon
<1>6. state = z
  <2>1. state >= 3 + x + y
    BY <1>2, <1>3 DEF Whole, DataAt, HEADER
  <2> QED BY <1>2, <1>3, <1>5, <2>1
<1>7. Contents(options) = f.options /\ Contents(buffer) = f.data
  <2>1. \A j \in 1 .. x : 3 + j <= state
    BY <1>5, <1>6
  <2>2. \A j \in 1 .. y : 3 + x + j <= state
    BY <1>5, <1>6
  <2> QED BY <1>1, <1>2, <1>3, <1>4, <2>1, <2>2, SameContents, SMTT(30)
<1>8. handled' = Append(handled, f)
  BY <1>3, <1>4, <1>7 DEF Respond, FrameSet
<1>9. /\ handled \in Seq(FrameSet) /\ handled' \in Seq(FrameSet) /\ Count' = Count + 1
      /\ handled'[Count + 1] = f /\ \A i \in 1 .. Count : handled'[i] = handled[i]
  BY <1>4, <1>8 DEF Count, FInv, Typed
<1>10. /\ serve' = "write" /\ state' = 0 /\ options' = [options EXCEPT !.len = 0]
       /\ UNCHANGED <<sent, inbound, outbound, open, code, buffer>>
  BY DEF Respond
<1>11. Typed'
  BY <1>2, <1>9, <1>10, Zenon DEF FInv, Typed, Buffers
<1>12. Handled'
  <2>1. Count + 1 <= Len(sent)
    BY <1>2, <1>3
  <2>2. ASSUME NEW i \in 1 .. Count + 1 PROVE handled'[i] = sent[i]
    <3>1. i \in 1 .. Count \/ i = Count + 1
      BY <1>2
    <3>2. i \in 1 .. Count => handled[i] = sent[i]
      BY DEF FInv, Handled
    <3> QED BY <1>1, <1>9, <3>1, <3>2
  <2> QED BY <1>9, <1>10, <2>1, <2>2 DEF Handled
<1>13. Incoming'
  <2>1. PICK units, ends :
           Stream(sent, units, ends) /\ Continues(inbound, open, units, ends[Count] + Started)
    BY <1>2 DEF FInv, Incoming, Running
  <2>2. PICK q : q = Count + 1
    OBVIOUS
  <2>3. q \in 1 .. Len(sent) /\ q - 1 = Count /\ Count \in 0 .. Len(sent) /\ q \in 0 .. Len(sent)
    BY <1>2, <1>3, <2>2
  <2>4. ends[q] = ends[q - 1] + Size(sent[q]) /\ ends[Count] \in Nat /\ ends[q] \in Nat
    BY <2>1, <2>3, Zenon DEF Stream
  <2>5. ends[q] = ends[Count] + z
    BY <1>1, <2>2, <2>3, <2>4, Zenon
  <2>6. ends[Count] + Started = ends[q] + 0
    BY <1>2, <1>5, <1>6, <2>4, <2>5 DEF Started
  <2>7. Count' = q /\ Started' = 0
    BY <1>9, <1>10, <2>2 DEF Started
  <2>8. Stream(sent', units, ends) /\ Continues(inbound', open', units, ends[Count'] + Started')
    BY <1>10, <2>1, <2>6, <2>7
  <2> QED BY <2>8, Zenon DEF Incoming
<1>14. Reading'
  BY <1>10 DEF Reading
<1>15. Writing'
  <2>1. /\ options'.len = 0 /\ code' = f.code /\ buffer'.len <= Len(buffer'.data)
        /\ Contents(buffer)' = f.data /\ state' <= 3 + buffer'.len
    BY <1>2, <1>3, <1>5, <1>7, <1>10, SMTT(30) DEF Buffers, Contents
  <2>2. Responses(handled) = outbound /\ outbound \in Seq(Nat)
    BY <1>2 DEF FInv, Writing, Typed
  <2>3. SubSeq(Answer(f), 1, 0) = <<>>
    BY SubSeqEmpty
  <2>4. outbound' = Responses(handled) \o SubSeq(Answer(f), 1, state')
    BY <1>10, <2>2, <2>3, ConcatEmptySeq
  <2>5. Writes(f)'
    BY <2>1 DEF Writes, HEADER
  <2> QED BY <1>4, <1>8, <1>9, <1>10, <2>2, <2>4, <2>5, Zenon DEF Writing
<1> QED BY <1>11, <1>12, <1>13, <1>14, <1>15 DEF FInv

\* The peer sends a frame.
LEMMA SendKeeps ==
    ASSUME ConstantsOK, FInv, Send
    PROVE  FInv'
<1>1. PICK f \in Frames : sent' = Append(sent, f) /\ inbound' = inbound \o Encoded(f)
  BY Zenon DEF Send
<1>2. /\ open = TRUE
      /\ UNCHANGED <<outbound, open, serve, state, code, options, buffer, handled>>
  BY DEF Send, FInv, Typed
<1>3. f \in FrameSet
  BY <1>1 DEF ConstantsOK, FrameSet
<1>4. PICK e : e = Encoded(f)
  OBVIOUS
<1>5. e \in Seq(Nat)
  BY <1>3, <1>4, EncodedUnits, Zenon
<1>6. /\ sent \in Seq(FrameSet) /\ sent' \in Seq(FrameSet) /\ Len(sent) \in Nat
      /\ Len(sent') = Len(sent) + 1 /\ \A i \in 1 .. Len(sent) : sent'[i] = sent[i]
  BY <1>1, <1>3 DEF FInv, Typed
<1>7. inbound \in Seq(Nat) /\ inbound' \in Seq(Nat)
  BY <1>1, <1>4, <1>5 DEF FInv, Typed
<1>8. Typed'
  BY <1>2, <1>6, <1>7 DEF FInv, Typed
<1>9. Count \in Nat /\ Count <= Len(sent) /\ Count \in 0 .. Len(sent)
  BY DEF FInv, Typed, Handled, Count
<1>10. Handled'
  BY <1>2, <1>6, <1>9 DEF FInv, Handled, Count
<1>11. Incoming'
  <2>1. PICK units, ends :
          /\ Stream(sent, units, ends)
          /\ Running => Continues(inbound, TRUE, units, ends[Count] + Started)
    BY <1>2, Zenon DEF FInv, Incoming
  <2>2. PICK ends2 : /\ Stream(sent', units \o e, ends2)
                     /\ \A i \in 0 .. Len(sent) : ends2[i] = ends[i]
    <3>1. PICK m : /\ Stream(Append(sent, f), units \o Encoded(f), m)
                   /\ \A i \in 0 .. Len(sent) : m[i] = ends[i]
      <4>1. Stream(sent, units, ends) /\ sent \in Seq(FrameSet)
        BY <1>6, <2>1
      <4> HIDE DEF FrameSet
      <4> QED BY <1>3, <4>1, StreamGrows
    <3>2. Stream(sent', units \o e, m)
      BY <1>1, <1>4, <3>1, Zenon
    <3> QED BY <3>1, <3>2, Zenon
  <2>3. units \in Seq(Nat) /\ ends[Count] \in Nat /\ Started \in Nat
    BY <1>9, <2>1, Zenon DEF Stream, Started, FInv, Typed
  <2>4. PICK r \in Nat : r = ends[Count] + Started
    BY <2>3
  <2>5. Running => Continues(inbound', TRUE, units \o e, r)
    BY <1>1, <1>4, <1>5, <1>7, <2>1, <2>3, <2>4, ContinuesGrows, Zenon
  <2>6. Count' = Count /\ Started' = Started /\ Running' = Running /\ open' = TRUE
    BY <1>2 DEF Count, Started, Running
  <2>7. r = ends2[Count'] + Started'
    BY <1>9, <2>2, <2>4, <2>6
  <2>8. /\ Stream(sent', units \o e, ends2)
        /\ Running' => Continues(inbound', open', units \o e, ends2[Count'] + Started')
    BY <2>2, <2>5, <2>6, <2>7, Zenon
  <2> QED BY <2>8, Zenon DEF Incoming
<1>12. Reading'
  <2>1. serve = "read" /\ state > 0 => Count < Len(sent) /\ Reads(sent[Count + 1])
    BY DEF FInv, Reading
  <2>2. Count' = Count /\ (Count < Len(sent) => Count < Len(sent') /\ sent'[Count + 1] = sent[Count + 1])
    BY <1>2, <1>6, <1>9 DEF Count
  <2>3. Count < Len(sent) /\ Reads(sent[Count + 1]) => Reads(sent[Count + 1])'
    BY <1>2, <2>2, SMTT(30) DEF Reads
  <2> QED BY <1>2, <2>1, <2>2, <2>3 DEF Reading
<1>13. Writing'
  BY <1>2, Zenon DEF FInv, Writing, Writes
<1> QED BY <1>8, <1>10, <1>11, <1>12, <1>13 DEF FInv

\* The peer stops.
LEMMA StopKeeps ==
    ASSUME FInv, Stop
    PROVE  FInv'
<1>1. PICK k \in 0 .. Len(inbound) : inbound' = SubSeq(inbound, 1, k)
  BY DEF Stop
<1>2. /\ open' = FALSE
      /\ UNCHANGED <<sent, outbound, serve, state, code, options, buffer, handled>>
  BY DEF Stop
<1>3. inbound \in Seq(Nat) /\ inbound' \in Seq(Nat)
  BY <1>1, SMTT(30) DEF FInv, Typed
<1>4. Typed' /\ Handled'
  BY <1>2, <1>3, Zenon DEF FInv, Typed, Handled, Count
<1>5. Incoming'
  <2>1. PICK units, ends :
          /\ Stream(sent, units, ends)
          /\ Running => Continues(inbound, open, units, ends[Count] + Started)
    BY DEF FInv, Incoming
  <2>2. Count \in 0 .. Len(sent)
    BY DEF FInv, Typed, Handled, Count
  <2>3. units \in Seq(Nat) /\ ends[Count] \in Nat /\ Started \in Nat
    BY <2>1, <2>2, Zenon DEF Stream, Started, FInv, Typed
  <2>4. PICK r \in Nat : r = ends[Count] + Started
    BY <2>3
  <2>5. Running => Continues(inbound', FALSE, units, r)
    BY <1>1, <1>3, <2>1, <2>3, <2>4, ContinuesCut, Zenon
  <2>6. Count' = Count /\ Started' = Started /\ Running' = Running
    BY <1>2 DEF Count, Started, Running
  <2>7. /\ Stream(sent', units, ends)
        /\ Running' => Continues(inbound', open', units, ends[Count'] + Started')
    BY <1>2, <2>1, <2>4, <2>5, <2>6, Zenon
  <2> QED BY <2>7, Zenon DEF Incoming
<1>6. Reading' /\ Writing'
  BY <1>2, Zenon DEF FInv, Reading, Writing, Reads, Writes, Count
<1> QED BY <1>4, <1>5, <1>6 DEF FInv

\* A response has the frame's code and data, and no options.
LEMMA AnswerUnits ==
    ASSUME NEW f \in FrameSet
    PROVE  /\ Answer(f) = Header(f.code, 0, Len(f.data)) \o <<>> \o f.data
           /\ Answer(f) \in Seq(Nat) /\ Len(Answer(f)) = 3 + Len(f.data)
           /\ Len(f.data) \in Nat
<1>1. PICK g : g = [f EXCEPT !.options = <<>>]
  BY Zenon
<1>2. g \in FrameSet /\ g.code = f.code /\ g.options = <<>> /\ g.data = f.data
  <2>1. <<>> \in Seq(Nat)
    OBVIOUS
  <2> QED BY <1>1, <2>1, Zenon DEF FrameSet
<1>3. Len(<<>>) = 0
  OBVIOUS
<1>4. Encoded(g) = Header(f.code, 0, Len(f.data)) \o <<>> \o f.data
  BY <1>2, <1>3, Zenon DEF Encoded
<1>5. /\ Encoded(g) \in Seq(Nat) /\ Len(Encoded(g)) = Size(g)
      /\ Size(g) = 3 + Len(g.options) + Len(g.data) /\ Len(g.data) \in Nat
  BY <1>2, EncodedUnits, Zenon
<1>6. Size(g) = 3 + Len(f.data)
  <2>1. Size(g) = 3 + 0 + Len(f.data) /\ Len(f.data) \in Nat
    BY <1>2, <1>3, <1>5, Zenon
  <2> QED BY <2>1
<1> QED BY <1>1, <1>2, <1>4, <1>5, <1>6, Zenon DEF Answer

\* What Writing says while a response is being written
LEMMA WritingNow ==
    ASSUME FInv, serve = "write"
    PROVE  \E h \in Seq(FrameSet), f \in FrameSet :
              /\ handled = Append(h, f) /\ Writes(f) /\ Responses(h) \in Seq(Nat)
              /\ outbound = Responses(h) \o SubSeq(Answer(f), 1, state)
              /\ Outgoing = Answer(f) /\ Len(Answer(f)) = DataAt + buffer.len
              /\ Answer(f) \in Seq(Nat) /\ DataAt = 3 /\ buffer.len \in Nat
              /\ Responses(handled) = Responses(h) \o Answer(f)
<1>1. PICK h \in Seq(FrameSet), f \in FrameSet :
              /\ handled = Append(h, f) /\ Writes(f) /\ Responses(h) \in Seq(Nat)
              /\ outbound = Responses(h) \o SubSeq(Answer(f), 1, state)
  BY Zenon DEF FInv, Writing
<1>2. /\ Answer(f) = Header(f.code, 0, Len(f.data)) \o <<>> \o f.data
      /\ Answer(f) \in Seq(Nat) /\ Len(Answer(f)) = 3 + Len(f.data)
      /\ Len(f.data) \in Nat
  BY AnswerUnits, Zenon
<1>3. /\ options.len = 0 /\ code = f.code /\ buffer.len <= Len(buffer.data)
      /\ Contents(buffer) = f.data /\ buffer \in Buffers
  BY <1>1 DEF Writes, FInv, Typed
<1>4. buffer.len = Len(f.data)
  <2>1. PICK d, n : d = buffer.data /\ n = buffer.len
    OBVIOUS
  <2>2. d \in Seq(Nat) /\ n \in Nat /\ 0 \in Nat /\ 0 <= n /\ n <= Len(d)
    BY <1>3, <2>1 DEF Buffers
  <2>3. Len(SubSeq(d, 0 + 1, n)) = n - 0
    BY <2>2, Taken
  <2>4. 0 + 1 = 1 /\ n - 0 = n
    BY <2>2
  <2> QED BY <1>3, <2>1, <2>3, <2>4, Zenon DEF Contents
<1>5. Contents(options) = <<>>
  BY <1>3, SubSeqEmpty DEF Contents
<1>6. Outgoing = Answer(f)
  BY <1>2, <1>3, <1>4, <1>5, Zenon DEF Outgoing
<1>7. DataAt = 3
  BY <1>3 DEF DataAt, HEADER
<1>8. Responses(handled) = Responses(h) \o Answer(f)
  BY <1>1, OneMoreResponse, Zenon
<1>9. Len(Answer(f)) = DataAt + buffer.len /\ buffer.len \in Nat
  BY <1>2, <1>4, <1>7, Zenon
<1> QED BY <1>1, <1>2, <1>6, <1>7, <1>8, <1>9, Zenon

\* Writing takes nothing from the stream.
LEMMA SameIncoming ==
    ASSUME Incoming, Running, UNCHANGED <<sent, inbound, open, handled>>, Started' = Started
    PROVE  Incoming'
<1>1. PICK units, ends :
        Stream(sent, units, ends) /\ Continues(inbound, open, units, ends[Count] + Started)
  BY DEF Incoming
<1>2. Count' = Count
  BY DEF Count
<1>3. Stream(sent', units, ends) /\ Continues(inbound', open', units, ends[Count'] + Started')
  BY <1>1, <1>2
<1> QED BY <1>3, Zenon DEF Incoming

\* What is written goes on with the response.
LEMMA WriteKeeps ==
    ASSUME FInv, Write
    PROVE  FInv'
<1>1. serve = "write" /\ state < DataAt + buffer.len /\ state \in Nat
      /\ UNCHANGED <<sent, inbound, open, serve, code, options, buffer, handled>>
  BY DEF Write, FInv, Typed
<1>2. PICK h \in Seq(FrameSet), f \in FrameSet :
              /\ handled = Append(h, f) /\ Writes(f) /\ Responses(h) \in Seq(Nat)
              /\ outbound = Responses(h) \o SubSeq(Answer(f), 1, state)
              /\ Outgoing = Answer(f) /\ Len(Answer(f)) = DataAt + buffer.len
              /\ Answer(f) \in Seq(Nat) /\ DataAt = 3 /\ buffer.len \in Nat
              /\ Responses(handled) = Responses(h) \o Answer(f)
  BY <1>1, WritingNow, Zenon
<1>3. PICK num \in 1 .. Block(state) - state :
          /\ outbound' = outbound \o SubSeq(Outgoing, state + 1, state + num)
          /\ state' = state + num
  BY Zenon DEF Write
<1>4. PICK a, n, r, p, q :
         /\ a = Answer(f) /\ n = Len(a) /\ r = Responses(h)
         /\ p = SubSeq(a, 1, state) /\ q = SubSeq(a, state + 1, state + num)
  BY Zenon
<1>5. n \in Nat /\ n = 3 + buffer.len /\ num \in Nat /\ state + num \in Nat /\ state + num <= n
  <2>1. /\ n = 3 + buffer.len /\ buffer.len \in Nat /\ state < 3 + buffer.len
    BY <1>1, <1>2, <1>4, Zenon
  <2>2. Block(state) \in Nat /\ Block(state) <= 3 + buffer.len
    <3>1. CASE state < 3
      <4>1. Block(state) = 3
        BY <1>2, <3>1 DEF Block, HEADER
      <4> QED BY <2>1, <4>1
    <3>2. CASE state >= 3
      <4>1. ~(state < 3)
        BY <1>1, <3>2
      <4>2. Block(state) = 3 + buffer.len
        BY <1>2, <4>1, Zenon DEF Block, HEADER
      <4> QED BY <2>1, <4>2
    <3> QED BY <1>1, <3>1, <3>2
  <2> QED BY <1>1, <1>3, <2>1, <2>2, SMTT(30)
<1>6. p \in Seq(Nat) /\ q \in Seq(Nat) /\ p \o q = SubSeq(a, 1, state + num)
  <2>1. a \in Seq(Nat) /\ n = Len(a)
    BY <1>2, <1>4
  <2>2. 1 \in 1 .. n + 1 /\ state \in 1 - 1 .. n /\ state + num \in state .. n
    BY <1>1, <1>5
  <2>3. p \o q = SubSeq(a, 1, state + num)
    BY <1>4, <2>1, <2>2, ConcatAdjacentSubSeq, Zenon
  <2>4. 0 \in Nat /\ 0 <= state /\ state <= n /\ 0 + 1 = 1 /\ state <= state + num
    BY <1>1, <1>5
  <2>5. SubSeq(a, 0 + 1, state) \in Seq(Nat) /\ SubSeq(a, state + 1, state + num) \in Seq(Nat)
    BY <1>1, <1>5, <2>1, <2>4, Taken, ZenonT(40)
  <2> QED BY <1>4, <2>3, <2>4, <2>5, Zenon
<1>7. outbound' = r \o SubSeq(a, 1, state')
  <2>1. outbound' = (r \o p) \o q /\ r \in Seq(Nat)
    BY <1>2, <1>3, <1>4, Zenon
  <2>2. (r \o p) \o q = r \o (p \o q)
    <3>1. r \in Seq(Nat) /\ p \in Seq(Nat) /\ q \in Seq(Nat)
      BY <1>6, <2>1
    <3> QED BY <3>1, Regrouped, Zenon
  <2> QED BY <1>3, <1>6, <2>1, <2>2, Zenon
<1>8. state' \in Nat /\ outbound' \in Seq(Nat)
  <2>1. outbound' = (r \o p) \o q /\ r \in Seq(Nat)
    BY <1>2, <1>3, <1>4, Zenon
  <2>2. r \o p \in Seq(Nat)
    BY <1>6, <2>1, Joined, Zenon DEF Join
  <2>3. (r \o p) \o q \in Seq(Nat)
    BY <1>6, <2>2, Joined, Zenon DEF Join
  <2> QED BY <1>3, <1>5, <2>1, <2>3, Zenon
<1>9. Typed' /\ Handled' /\ Reading'
  BY <1>1, <1>8 DEF FInv, Typed, Handled, Reading, Count
<1>10. Incoming'
  <2>1. Running /\ Started' = Started
    BY <1>1 DEF Running, Started
  <2> QED BY <1>1, <2>1, SameIncoming DEF FInv
<1>11. Writes(f)'
  <2>1. state' <= 3 + buffer.len
    BY <1>3, <1>5
  <2> QED BY <1>1, <1>2, <2>1 DEF Writes, Contents, HEADER
<1>12. Writing'
  <2>1. /\ handled' = Append(h, f) /\ Responses(h) \in Seq(Nat) /\ serve' = "write"
        /\ outbound' = Responses(h) \o SubSeq(Answer(f), 1, state')
    BY <1>1, <1>2, <1>4, <1>7, Zenon
  <2> QED BY <1>11, <2>1, Zenon DEF Writing
<1> QED BY <1>9, <1>10, <1>12 DEF FInv

\* A response that was written whole is the response to the last frame.
LEMMA WrittenKeeps ==
    ASSUME FInv, Written
    PROVE  FInv'
<1>1. /\ serve = "write" /\ state = DataAt + buffer.len
      /\ serve' = "read" /\ state' = 0 /\ code' = 0
      /\ UNCHANGED <<sent, inbound, outbound, open, options, buffer, handled>>
  BY DEF Written
<1>2. PICK h \in Seq(FrameSet), f \in FrameSet :
              /\ outbound = Responses(h) \o SubSeq(Answer(f), 1, state)
              /\ Len(Answer(f)) = DataAt + buffer.len
              /\ Answer(f) \in Seq(Nat)
              /\ Responses(handled) = Responses(h) \o Answer(f)
  BY <1>1, WritingNow, Zenon
<1>3. SubSeq(Answer(f), 1, state) = Answer(f)
  BY <1>1, <1>2, SubSeqFull
<1>4. outbound' = Responses(handled')
  BY <1>1, <1>2, <1>3, Zenon
<1>5. Typed' /\ Handled' /\ Reading'
  BY <1>1 DEF FInv, Typed, Handled, Reading, Count
<1>6. Incoming'
  <2>1. Running /\ Started' = Started
    BY <1>1 DEF Running, Started
  <2> QED BY <1>1, <2>1, SameIncoming DEF FInv
<1>7. Writing'
  BY <1>1, <1>4 DEF Writing
<1> QED BY <1>5, <1>6, <1>7 DEF FInv

-----------------------------------------------------------------------------
(* The theorem.                                                            *)

\* The invariant holds at first,
LEMMA FInvInit ==
    ASSUME Init
    PROVE  FInv
<1>1. /\ sent = <<>> /\ inbound = <<>> /\ outbound = <<>> /\ handled = <<>>
      /\ open = TRUE /\ serve = "read" /\ state = 0 /\ code = 0
      /\ options = NoBuffer /\ buffer = NoBuffer
  BY DEF Init
<1>2. <<>> \in Seq(Nat) /\ <<>> \in Seq(FrameSet) /\ Len(<<>>) = 0
  OBVIOUS
<1>3. Typed
  BY <1>1, <1>2 DEF Typed, NoBuffer, Buffers
<1>4. Handled /\ Reading
  BY <1>1, <1>2 DEF Handled, Count, Reading
<1>5. Incoming
  <2>1. PICK ends : ends = [i \in 0 .. 0 |-> 0]
    BY Zenon
  <2>2. ends[0] = 0 /\ ends \in [0 .. 0 -> Nat]
    BY <2>1
  <2>3. Stream(sent, <<>>, ends)
    BY <1>1, <1>2, <2>2 DEF Stream
  <2>4. Count = 0 /\ Started = 0
    BY <1>1, <1>2 DEF Count, Started
  <2>5. Continues(inbound, open, <<>>, ends[Count] + Started)
    BY <1>1, <1>2, <2>2, <2>4 DEF Continues
  <2> QED BY <2>3, <2>5, Zenon DEF Incoming
<1>6. Writing
  BY <1>1, NoResponses DEF Writing
<1> QED BY <1>3, <1>4, <1>5, <1>6 DEF FInv

\* is kept by every step,
LEMMA FInvNext ==
    ASSUME ConstantsOK, FInv, [Next]_vars
    PROVE  FInv'
<1>1. CASE Send
  BY <1>1, SendKeeps
<1>2. CASE Stop
  BY <1>2, StopKeeps
<1>3. CASE ReadHeader
  BY <1>3, ReadHeaderKeeps, SMTT(30)
<1>4. CASE ReadOptions
  BY <1>4, ReadOptionsKeeps
<1>5. CASE ReadData
  BY <1>5, ReadDataKeeps
<1>6. CASE Respond
  BY <1>6, RespondKeeps
<1>7. CASE Write
  BY <1>7, WriteKeeps
<1>8. CASE Written
  BY <1>8, WrittenKeeps
<1>9. CASE UNCHANGED vars
  <2>1. UNCHANGED <<sent, inbound, outbound, open, serve, state, code, options, buffer,
                    handled>>
    BY <1>9, SMTT(30) DEF vars
  <2>2. Typed' /\ Handled' /\ Reading' /\ Writing'
    BY <2>1, Zenon DEF FInv, Typed, Handled, Reading, Reads, Writing, Writes,
       Count
  <2>3. Incoming'
    <3>1. PICK units, ends :
            /\ Stream(sent, units, ends)
            /\ Running => Continues(inbound, open, units, ends[Count] + Started)
      BY DEF FInv, Incoming
    <3>2. Count' = Count /\ Started' = Started /\ Running' = Running
      BY <2>1 DEF Count, Started, Running
    <3>3. /\ Stream(sent', units, ends)
          /\ Running' => Continues(inbound', open', units, ends[Count'] + Started')
      BY <2>1, <3>1, <3>2
    <3> QED BY <3>3, Zenon DEF Incoming
  <2> QED BY <2>2, <2>3 DEF FInv
<1> QED BY <1>1, <1>2, <1>3, <1>4, <1>5, <1>6, <1>7, <1>8, <1>9 DEF Next, Done

\* and says that the frames are intact.
LEMMA FInvIntact ==
    ASSUME FInv
    PROVE  FramesIntact
<1>1. handled = SubSeq(sent, 1, Len(handled))
  <2>1. PICK h, s, k, c : h = handled /\ s = sent /\ k = Len(h) /\ c = SubSeq(s, 0 + 1, k)
    BY Zenon
  <2>2. /\ h \in Seq(FrameSet) /\ s \in Seq(FrameSet) /\ k \in Nat /\ k <= Len(s)
        /\ \A i \in 1 .. k : h[i] = s[i]
    BY <2>1 DEF FInv, Typed, Handled, Count
  <2>3. 0 \in Nat /\ 0 <= k /\ 0 + 1 = 1 /\ k - 0 = k /\ \A i \in 1 .. k : 0 + i = i
    BY <2>2
  <2>4. c \in Seq(FrameSet) /\ Len(c) = k - 0 /\ \A j \in 1 .. k - 0 : c[j] = s[0 + j]
    BY <2>1, <2>2, <2>3, Taken
  <2>5. Len(h) = Len(c) /\ \A i \in 1 .. Len(h) : h[i] = c[i]
    BY <2>1, <2>2, <2>3, <2>4
  <2>6. h = c
    BY <2>2, <2>4, <2>5, SeqEqual, Zenon
  <2> QED BY <2>1, <2>3, <2>6, Zenon
<1>2. CASE serve # "write"
  <2>1. outbound = Responses(handled) /\ outbound \in Seq(Nat)
    BY <1>2 DEF FInv, Writing, Typed
  <2>2. Len(outbound) \in Nat /\ SubSeq(outbound, 1, Len(outbound)) = outbound
    BY <2>1, SubSeqFull
  <2>3. Len(outbound) <= Len(outbound)
    BY <2>2
  <2> QED BY <1>1, <2>1, <2>2, <2>3, Zenon DEF FramesIntact
<1>3. CASE serve = "write"
  <2>1. PICK h \in Seq(FrameSet), f \in FrameSet :
              /\ Responses(h) \in Seq(Nat) /\ Writes(f)
              /\ outbound = Responses(h) \o SubSeq(Answer(f), 1, state)
              /\ Len(Answer(f)) = DataAt + buffer.len
              /\ Answer(f) \in Seq(Nat) /\ DataAt = 3 /\ buffer.len \in Nat
              /\ Responses(handled) = Responses(h) \o Answer(f)
    BY <1>3, WritingNow, Zenon
  <2>2. PICK r, a, n, k, p, all, w, x :
           /\ r = Responses(h) /\ a = Answer(f) /\ n = Len(a) /\ k = state
           /\ p = SubSeq(a, 1, k) /\ all = r \o a /\ w = r \o p /\ x = Len(r)
    BY Zenon
  <2>3. /\ r \in Seq(Nat) /\ a \in Seq(Nat) /\ n \in Nat /\ k \in Nat /\ k <= n
    <3>1. state <= 3 + buffer.len /\ state \in Nat
      BY <2>1 DEF Writes, HEADER, FInv, Typed
    <3>2. n = 3 + buffer.len
      BY <2>1, <2>2, Zenon
    <3> QED BY <2>1, <2>2, <3>1, <3>2
  <2>4. p \in Seq(Nat) /\ Len(p) = k /\ \A j \in 1 .. k : p[j] = a[j]
    <3>1. k <= Len(a) /\ k \in Nat /\ p = SubSeq(a, 1, k)
      BY <2>2, <2>3
    <3> QED BY <2>3, <3>1, TakenFirst, Zenon
  <2>5. Join(all, r, a) /\ Join(w, r, p)
    BY <2>2, <2>3, <2>4, Joined, Zenon
  <2>6. /\ all \in Seq(Nat) /\ x \in Nat /\ Len(all) = x + n
        /\ \A j \in 1 .. x : all[j] = r[j]
        /\ \A j \in 1 .. n : all[x + j] = a[j]
    BY <2>2, <2>5, Zenon DEF Join
  <2>7. /\ w \in Seq(Nat) /\ Len(w) = x + k
        /\ \A j \in 1 .. x : w[j] = r[j]
        /\ \A j \in 1 .. k : w[x + j] = p[j]
    BY <2>2, <2>4, <2>5, Zenon DEF Join
  <2>8. PICK c, y : c = SubSeq(all, 1, y) /\ y = x + k
    BY Zenon
  <2>9. y \in Nat /\ y <= x + n
    BY <2>3, <2>6, <2>8
  <2>10. c \in Seq(Nat) /\ Len(c) = y /\ \A j \in 1 .. y : c[j] = all[j]
    BY <2>6, <2>8, <2>9, TakenFirst, Zenon
  <2>11. ASSUME NEW j \in 1 .. y PROVE w[j] = all[j]
    <3>1. CASE j \in 1 .. x
      BY <2>6, <2>7, <3>1, Zenon
    <3>2. CASE j \notin 1 .. x
      <4>1. x \in Nat /\ k \in Nat /\ n \in Nat /\ k <= n /\ y = x + k
        BY <2>3, <2>6, <2>8
      <4>2. PICK i \in 1 .. k : j = x + i
        <5>1. j - x \in 1 .. k /\ j = x + (j - x)
          BY <3>2, <4>1
        <5> QED BY <5>1, Zenon
      <4>3. i \in 1 .. n
        BY <4>1
      <4> QED BY <2>4, <2>6, <2>7, <4>2, <4>3, Zenon
    <3> QED BY <3>1, <3>2
  <2>12. w = c
    <3>1. Len(w) = Len(c) /\ \A i \in 1 .. Len(w) : w[i] = c[i]
      BY <2>7, <2>8, <2>10, <2>11
    <3> QED BY <2>7, <2>10, <3>1, SeqEqual, Zenon
  <2>13. outbound = w /\ Responses(handled) = all /\ Len(outbound) = y
    BY <2>1, <2>2, <2>3, <2>7, <2>8, Zenon
  <2>14. /\ Len(outbound) <= Len(Responses(handled))
         /\ outbound = SubSeq(Responses(handled), 1, Len(outbound))
    BY <2>3, <2>6, <2>8, <2>9, <2>12, <2>13, Zenon
  <2> QED BY <1>1, <1>3, <2>14 DEF FramesIntact
<1> QED BY <1>2, <1>3

(* However the stream is cut up, and whatever was in the buffers before, the *)
(* remote handles the frames that were sent, whole and in order, and writes  *)
(* one response per frame, with the frame's code (p11_rpc_transport_read and *)
(* p11_rpc_transport_write, called from p11_kit_remote_serve_module).        *)
THEOREM FramesAlwaysIntact ==
    ASSUME ConstantsOK
    PROVE  Spec => []FramesIntact
<1>1. Init => FInv
  BY FInvInit
<1>2. FInv /\ [Next]_vars => FInv'
  BY FInvNext
<1>3. FInv => FramesIntact
  BY FInvIntact
<1> QED BY <1>1, <1>2, <1>3, PTL DEF Spec
=============================================================================
