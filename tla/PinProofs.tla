------------------------------- MODULE PinProofs -------------------------------
(***************************************************************************)
(* Reference counts of PIN callbacks and of PINs (p11-kit/pin.c), for any  *)
(* threads, sources and callbacks: the counts are exact, so that nothing   *)
(* is destroyed early, twice or never.                                     *)
(***************************************************************************)
EXTENDS Pin, FiniteSetTheorems, SequenceTheorems, TLAPS

Registration == [cb : Callbacks, refs : Nat, destroyed : Nat]
PinObject == [refs : Nat, destroyed : Nat]
Request == [pc : {"idle", "calling", "destroy"}, snapshot : Seq(Nat), left : Nat, pin : Nat]

TypeOK ==
    /\ pin_sources \in [Sources \cup {Fallback} -> Seq(Nat)]
    /\ regs \in Seq(Registration)
    /\ pins \in Seq(PinObject)
    /\ Len(pins) <= MaxPins
    /\ request \in [PinThreads -> Request]
    /\ holds \in [PinThreads -> [Pins -> Nat]]

OnlyOnce(s) == \A i, j \in DOMAIN s : s[i] = s[j] => i = j

\* A registration is in one list, once; so it is in a snapshot once.
Once ==
    /\ \A s \in Sources \cup {Fallback} :
           Ids(pin_sources[s]) \subseteq DOMAIN regs /\ OnlyOnce(pin_sources[s])
    /\ \A r, s \in Sources \cup {Fallback} :
           r # s => Ids(pin_sources[r]) \cap Ids(pin_sources[s]) = {}

Calling(t) == request[t].pc = "calling"

\* What a thread is doing: only a request has a snapshot, and only one that
\* has got a PIN, or a thread that is about to destroy one, names a PIN.
Doing ==
    \A t \in PinThreads :
        /\ Ids(request[t].snapshot) \subseteq DOMAIN regs
        /\ request[t].left <= Len(request[t].snapshot)
        /\ ~Calling(t) => request[t].snapshot = <<>>
        /\ request[t].pc = "idle" => request[t] = Idle
        /\ request[t].pc = "destroy" => request[t].pin # 0
        /\ request[t].pin \in 0..Len(pins)

Listed(id) == \E s \in Sources \cup {Fallback} : id \in Ids(pin_sources[s])
Callers(id) == {t \in PinThreads : id \in Ids(request[t].snapshot)}

\* The count of a registration: one while it is listed, and one for every
\* request that has it in its snapshot.
RegistrationCount ==
    \A id \in DOMAIN regs :
        /\ IsFiniteSet(Callers(id))
        /\ regs[id].refs = Cardinality(Callers(id)) + (IF Listed(id) THEN 1 ELSE 0)
        /\ regs[id].destroyed = IF regs[id].refs = 0 THEN 1 ELSE 0

\* The references to a PIN: those the threads hold, numbered from 1, and that
\* of the request which got it and has not returned yet.
References(p) ==
    {r \in PinThreads \X Nat :
        \/ r[2] \in 1..holds[r[1]][p]
        \/ r[2] = 0 /\ Calling(r[1]) /\ request[r[1]].pin = p}

Destroying(t, p) == request[t].pc = "destroy" /\ request[t].pin = p

PinCounted(p) ==
    IF p \in DOMAIN pins
    THEN /\ IsFiniteSet(References(p))
         /\ pins[p].refs = Cardinality(References(p))
         /\ \A t \in PinThreads : Destroying(t, p) => pins[p].refs = 0
         /\ \A t, u \in PinThreads : Destroying(t, p) /\ Destroying(u, p) => t = u
         /\ pins[p].destroyed =
                IF pins[p].refs = 0 /\ ~\E t \in PinThreads : Destroying(t, p) THEN 1 ELSE 0
    ELSE \A t \in PinThreads : holds[t][p] = 0

PinCount == \A p \in Pins : PinCounted(p)

PInv == TypeOK /\ Once /\ Doing /\ RegistrationCount /\ PinCount

--------------------------------------------------------------------------------
(***************************************************************************)
(* Sequences                                                               *)
(***************************************************************************)

\* A function over the places of a sequence is a sequence as long.
LEMMA SameLength ==
    ASSUME NEW S, NEW s \in Seq(S), NEW f \in [DOMAIN s -> S]
    PROVE  f \in Seq(S) /\ Len(f) = Len(s) /\ DOMAIN f = DOMAIN s
PROOF OBVIOUS

\* A sequence without its element at i, element by element.
LEMMA WithoutAt ==
    ASSUME NEW s \in Seq(Nat), NEW i \in 1..Len(s)
    PROVE  LET r == SubSeq(s, 1, i - 1) \o SubSeq(s, i + 1, Len(s))
           IN  /\ r \in Seq(Nat) /\ Len(r) = Len(s) - 1
               /\ \A k \in 1..(Len(s) - 1) : r[k] = IF k < i THEN s[k] ELSE s[k + 1]
<1> DEFINE a == SubSeq(s, 1, i - 1)
           b == SubSeq(s, i + 1, Len(s))
           n == Len(s)
<1>1. n \in Nat /\ i \in Nat /\ i >= 1 /\ i <= n /\ \A k \in 1..n : s[k] \in Nat
  OBVIOUS
<1> HIDE DEF n
<1>2. /\ 1 \in Int /\ i - 1 \in Int /\ i + 1 \in Int /\ n \in Int
      /\ \A k \in 1..(i - 1) : s[k] \in Nat
      /\ \A k \in (i + 1)..n : s[k] \in Nat
  BY <1>1
<1>3. /\ SubSeq(s, 1, i - 1) \in Seq(Nat)
      /\ Len(SubSeq(s, 1, i - 1)) = IF 1 <= i - 1 THEN i - 1 - 1 + 1 ELSE 0
      /\ \A k \in 1..(i - 1 - 1 + 1) : SubSeq(s, 1, i - 1)[k] = s[1 + k - 1]
  BY <1>2, SubSeqProperties
<1>4. /\ SubSeq(s, i + 1, n) \in Seq(Nat)
      /\ Len(SubSeq(s, i + 1, n)) = IF i + 1 <= n THEN n - (i + 1) + 1 ELSE 0
      /\ \A k \in 1..(n - (i + 1) + 1) : SubSeq(s, i + 1, n)[k] = s[i + 1 + k - 1]
  BY <1>2, SubSeqProperties
<1>5. a \in Seq(Nat) /\ b \in Seq(Nat)
  BY <1>3, <1>4 DEF n
<1> HIDE DEF a, b
<1>6. Len(a) = i - 1 /\ Len(b) = n - i
  BY <1>1, <1>3, <1>4 DEF a, b, n
<1>7. (\A k \in 1..(i - 1) : a[k] = s[k]) /\ (\A k \in 1..(n - i) : b[k] = s[i + k])
  BY <1>1, <1>3, <1>4 DEF a, b, n
<1>8. /\ a \o b \in Seq(Nat) /\ Len(a \o b) = Len(a) + Len(b)
      /\ \A k \in 1..(Len(a) + Len(b)) :
             (a \o b)[k] = IF k <= Len(a) THEN a[k] ELSE b[k - Len(a)]
  BY <1>5, ConcatProperties, Zenon
<1>9. Len(a) + Len(b) = n - 1
  BY <1>1, <1>6
<1> DEFINE r == a \o b
<1>10. r \in Seq(Nat) /\ Len(r) = n - 1
  BY <1>8, <1>9
<1>11. \A k \in 1..(n - 1) : r[k] = IF k <= Len(a) THEN a[k] ELSE b[k - Len(a)]
  BY <1>8, <1>9
<1> HIDE DEF r
<1>12. ASSUME NEW k \in 1..(n - 1) PROVE r[k] = IF k < i THEN s[k] ELSE s[k + 1]
  <2>1. r[k] = IF k <= i - 1 THEN a[k] ELSE b[k - (i - 1)]
    BY <1>11, <1>6
  <2>2. CASE k < i
    <3>1. k \in 1..(i - 1) /\ k <= i - 1
      BY <1>1, <2>2
    <3> QED BY <2>1, <3>1, <2>2, <1>7
  <2>3. CASE ~(k < i)
    <3>1. k - (i - 1) \in 1..(n - i) /\ i + (k - (i - 1)) = k + 1 /\ ~(k <= i - 1)
      BY <1>1, <2>3
    <3>2. b[k - (i - 1)] = s[i + (k - (i - 1))]
      BY <3>1, <1>7, Zenon
    <3> QED BY <2>1, <3>1, <3>2, <2>3, Zenon
  <2> QED BY <2>2, <2>3
<1> QED BY <1>10, <1>12, Zenon DEF a, b, n, r

\* p11_array_remove: the others stay.
Removed(n, s, r, i) ==
    /\ n \in Nat /\ i \in 1..n /\ DOMAIN s = 1..n /\ DOMAIN r = 1..(n - 1)
    /\ \A k \in 1..(n - 1) : r[k] = IF k < i THEN s[k] ELSE s[k + 1]

LEMMA RemoveAt ==
    ASSUME NEW n, NEW s, NEW r, NEW i, Removed(n, s, r, i), OnlyOnce(s)
    PROVE  OnlyOnce(r) /\ Ids(r) = Ids(s) \ {s[i]}
<1> USE DEF Removed
<1>6. OnlyOnce(r)
  <2> SUFFICES ASSUME NEW a \in 1..(n - 1), NEW b \in 1..(n - 1), r[a] = r[b] PROVE a = b
    BY DEF OnlyOnce
  <2>1. PICK x \in 1..n : x = (IF a < i THEN a ELSE a + 1) /\ r[a] = s[x]
    OBVIOUS
  <2>2. PICK y \in 1..n : y = (IF b < i THEN b ELSE b + 1) /\ r[b] = s[y]
    OBVIOUS
  <2>3. x = y
    BY <2>1, <2>2, Zenon DEF OnlyOnce
  <2> QED BY <2>1, <2>2, <2>3
<1>7. Ids(r) \subseteq Ids(s) \ {s[i]}
  <2> SUFFICES ASSUME NEW k \in 1..(n - 1) PROVE r[k] \in Ids(s) /\ r[k] # s[i]
    BY DEF Ids
  <2>1. PICK m \in 1..n : m # i /\ r[k] = s[m]
    <3>1. CASE k < i
      BY <3>1
    <3>2. CASE k >= i
      BY <3>2
    <3> QED BY <3>1, <3>2
  <2> QED BY <2>1, Zenon DEF OnlyOnce, Ids
<1>8. ASSUME NEW k \in 1..n, k # i PROVE s[k] \in Ids(r)
  <2>1. CASE k < i
    <3>1. k \in DOMAIN r /\ r[k] = s[k]
      BY <2>1
    <3> QED BY <3>1 DEF Ids
  <2>2. CASE k > i
    <3>1. k - 1 \in DOMAIN r /\ r[k - 1] = s[k]
      BY <2>2
    <3> QED BY <3>1 DEF Ids
  <2> QED BY <2>1, <2>2, <1>8
<1>9. Ids(s) \ {s[i]} \subseteq Ids(r)
  BY <1>8, Zenon DEF Ids
<1> QED BY <1>6, <1>7, <1>9

\* p11_array_push: one more, at the end.
LEMMA AppendOne ==
    ASSUME NEW s \in Seq(Nat), NEW n \in Nat
    PROVE  /\ Append(s, n) \in Seq(Nat)
           /\ Ids(Append(s, n)) = Ids(s) \cup {n}
           /\ OnlyOnce(s) /\ n \notin Ids(s) => OnlyOnce(Append(s, n))
<1>1. /\ Append(s, n) \in Seq(Nat) /\ DOMAIN Append(s, n) = 1..(Len(s) + 1)
      /\ DOMAIN s = 1..Len(s) /\ Len(s) \in Nat
  OBVIOUS
<1>2. Append(s, n)[Len(s) + 1] = n /\ \A k \in 1..Len(s) : Append(s, n)[k] = s[k]
  OBVIOUS
<1>3. Ids(Append(s, n)) \subseteq Ids(s) \cup {n}
  BY <1>1, <1>2 DEF Ids
<1>4. Ids(s) \subseteq Ids(Append(s, n)) /\ n \in Ids(Append(s, n))
  BY <1>1, <1>2 DEF Ids
<1>5. OnlyOnce(s) /\ n \notin Ids(s) => OnlyOnce(Append(s, n))
  BY <1>1, <1>2 DEF Ids, OnlyOnce
<1> QED BY <1>1, <1>3, <1>4, <1>5

\* An empty snapshot has nothing in it.
LEMMA NoIds == Ids(<<>>) = {}
BY DEF Ids

--------------------------------------------------------------------------------
(***************************************************************************)
(* What the invariant says at hand                                         *)
(***************************************************************************)

\* The shape of the state.
LEMMA Shape ==
    ASSUME TypeOK
    PROVE  /\ Len(regs) \in Nat /\ DOMAIN regs = 1..Len(regs)
           /\ Len(pins) \in Nat /\ DOMAIN pins = 1..Len(pins)
           /\ \A id \in DOMAIN regs : regs[id] \in Registration
           /\ \A p \in DOMAIN pins : pins[p] \in PinObject
           /\ \A t \in PinThreads : request[t] \in Request
           /\ DOMAIN pin_sources = Sources \cup {Fallback}
BY DEF TypeOK

\* Whoever can reach a registration has counted it.
LEMMA RegistrationPositive ==
    ASSUME TypeOK, RegistrationCount, NEW id \in DOMAIN regs,
           Listed(id) \/ Callers(id) # {}
    PROVE  regs[id].refs \in Nat /\ regs[id].refs >= 1 /\ regs[id].destroyed = 0
<1>1. /\ IsFiniteSet(Callers(id))
      /\ regs[id].refs = Cardinality(Callers(id)) + (IF Listed(id) THEN 1 ELSE 0)
      /\ regs[id].destroyed = IF regs[id].refs = 0 THEN 1 ELSE 0
  BY DEF RegistrationCount
<1>2. Cardinality(Callers(id)) \in Nat
  BY <1>1, FS_CardinalityType
<1>3. Callers(id) # {} => Cardinality(Callers(id)) # 0
  BY <1>1, FS_EmptySet
<1> QED BY <1>1, <1>2, <1>3

\* Whoever holds a PIN has counted it.
LEMMA PinPositive ==
    ASSUME TypeOK, PinCount, NEW p \in DOMAIN pins, p \in Pins, References(p) # {}
    PROVE  /\ pins[p].refs \in Nat /\ pins[p].refs >= 1 /\ pins[p].destroyed = 0
           /\ \A t \in PinThreads : ~Destroying(t, p)
<1>1. /\ IsFiniteSet(References(p))
      /\ pins[p].refs = Cardinality(References(p))
      /\ \A t \in PinThreads : Destroying(t, p) => pins[p].refs = 0
      /\ pins[p].destroyed =
             IF pins[p].refs = 0 /\ ~\E t \in PinThreads : Destroying(t, p) THEN 1 ELSE 0
  BY DEF PinCount, PinCounted
<1>2. Cardinality(References(p)) \in Nat
  BY <1>1, FS_CardinalityType
<1>3. Cardinality(References(p)) # 0
  BY <1>1, FS_EmptySet
<1> QED BY <1>1, <1>2, <1>3

\* A step that leaves the lists alone keeps every registration in one place.
LEMMA ListsUnmoved ==
    ASSUME Once, pin_sources' = pin_sources, DOMAIN regs' = DOMAIN regs
    PROVE  Once'
<1>1. \A s \in Sources \cup {Fallback} :
          /\ Ids(pin_sources[s])' = Ids(pin_sources[s])
          /\ OnlyOnce(pin_sources[s])' <=> OnlyOnce(pin_sources[s])
  BY DEF Ids, OnlyOnce
<1> QED BY <1>1 DEF Once

\* A step that leaves the lists, the registrations and the snapshots alone
\* keeps what is said of them.
LEMMA RegistrationsUnmoved ==
    ASSUME Once, RegistrationCount, regs' = regs, pin_sources' = pin_sources,
           \A t \in PinThreads : request'[t].snapshot = request[t].snapshot
    PROVE  Once' /\ RegistrationCount'
<1>1. Once'
  BY ListsUnmoved
<1>2. \A id : Callers(id)' = Callers(id)
  BY DEF Callers
<1>3. \A id : Listed(id)' <=> Listed(id)
  BY DEF Listed
<1>4. RegistrationCount'
  BY <1>2, <1>3 DEF RegistrationCount
<1> QED BY <1>1, <1>4

\* A step that leaves a PIN alone, with the references to it, keeps what is
\* said of it.
LEMMA PinUnmoved ==
    ASSUME NEW p \in Pins, PinCounted(p),
           p \in DOMAIN pins' <=> p \in DOMAIN pins,
           p \in DOMAIN pins => pins'[p] = pins[p],
           \A t \in PinThreads :
               /\ holds'[t][p] = holds[t][p]
               /\ (request'[t].pc = "calling" /\ request'[t].pin = p)
                  <=> (request[t].pc = "calling" /\ request[t].pin = p)
               /\ (request'[t].pc = "destroy" /\ request'[t].pin = p)
                  <=> (request[t].pc = "destroy" /\ request[t].pin = p)
    PROVE  PinCounted(p)'
<1>1. References(p)' = References(p)
  <2>1. \A r \in PinThreads \X Nat : r[1] \in PinThreads
    OBVIOUS
  <2> QED BY <2>1, Zenon DEF References, Calling
<1>2. \A t \in PinThreads : Destroying(t, p)' <=> Destroying(t, p)
  BY DEF Destroying
<1> QED BY <1>1, <1>2 DEF PinCounted

LEMMA PinsUnmoved ==
    ASSUME PinCount, pins' = pins, holds' = holds,
           \A t \in PinThreads, p \in Pins :
               /\ (request'[t].pc = "calling" /\ request'[t].pin = p)
                  <=> (request[t].pc = "calling" /\ request[t].pin = p)
               /\ (request'[t].pc = "destroy" /\ request'[t].pin = p)
                  <=> (request[t].pc = "destroy" /\ request[t].pin = p)
    PROVE  PinCount'
<1>1. ASSUME NEW p \in Pins PROVE PinCounted(p)'
  <2>1. PinCounted(p)
    BY DEF PinCount
  <2> QED BY <2>1, PinUnmoved
<1> QED BY <1>1 DEF PinCount

\* One reference more, and one less.
LEMMA RefIs ==
    ASSUME NEW r \in Registration
    PROVE  /\ ref_pin_callback(r) \in Registration
           /\ ref_pin_callback(r).refs = r.refs + 1
           /\ ref_pin_callback(r).destroyed = r.destroyed
           /\ ref_pin_callback(r).cb = r.cb
BY DEF ref_pin_callback, Registration

LEMMA UnrefIs ==
    ASSUME NEW r \in Registration, r.refs >= 1
    PROVE  /\ unref_pin_callback(r) \in Registration
           /\ unref_pin_callback(r).refs = r.refs - 1
           /\ unref_pin_callback(r).destroyed = IF r.refs = 1 THEN r.destroyed + 1 ELSE r.destroyed
           /\ unref_pin_callback(r).cb = r.cb
<1>1. PICK n \in Nat : n = r.refs - 1
  BY DEF Registration
<1>2. PICK d \in Nat : d = IF r.refs = 1 THEN r.destroyed + 1 ELSE r.destroyed
  BY DEF Registration
<1>3. unref_pin_callback(r) = [r EXCEPT !.refs = n, !.destroyed = d]
  BY <1>1, <1>2 DEF unref_pin_callback, Registration
<1>4. [r EXCEPT !.refs = n, !.destroyed = d] \in Registration
  BY Zenon DEF Registration
<1> QED BY <1>1, <1>2, <1>3, <1>4 DEF Registration

\* What is said of the requests, thread by thread, in the next state.
LEMMA DoingStep ==
    ASSUME \A t \in PinThreads :
               /\ Ids(request'[t].snapshot) \subseteq DOMAIN regs'
               /\ request'[t].left <= Len(request'[t].snapshot)
               /\ request'[t].pc # "calling" => request'[t].snapshot = <<>>
               /\ request'[t].pc = "idle" => request'[t] = Idle
               /\ request'[t].pc = "destroy" => request'[t].pin # 0
               /\ request'[t].pin \in 0..Len(pins')
    PROVE  Doing'
BY Zenon DEF Doing, Calling, Idle, Ids

\* What is said of the registrations, one by one, in the next state.
LEMMA CountStep ==
    ASSUME \A id \in DOMAIN regs' :
               /\ IsFiniteSet(Callers(id)')
               /\ regs'[id].refs = Cardinality(Callers(id)') + (IF Listed(id)' THEN 1 ELSE 0)
               /\ regs'[id].destroyed = IF regs'[id].refs = 0 THEN 1 ELSE 0
    PROVE  RegistrationCount'
BY DEF RegistrationCount

--------------------------------------------------------------------------------
(***************************************************************************)
(* Every step keeps the invariant                                          *)
(***************************************************************************)

LEMMA RegisterKeeps ==
    ASSUME PInv, NEW source \in Sources \cup {Fallback}, NEW cb \in Callbacks,
           p11_kit_pin_register_callback(source, cb)
    PROVE  PInv'
<1> USE DEF PInv
<1> DEFINE new == [cb |-> cb, refs |-> 1, destroyed |-> 0]
<1>0. PICK n : n = Len(regs) + 1
  OBVIOUS
<1>1. /\ regs' = Append(regs, new)
      /\ pin_sources' = [pin_sources EXCEPT ![source] = Append(@, n)]
      /\ pins' = pins /\ request' = request /\ holds' = holds
  BY <1>0 DEF p11_kit_pin_register_callback, register_callback_unlocked
<1>2. /\ n \in Nat /\ new \in Registration /\ n \notin DOMAIN regs
      /\ regs' \in Seq(Registration) /\ DOMAIN regs' = DOMAIN regs \cup {n} /\ regs'[n] = new
      /\ \A id \in DOMAIN regs : regs'[id] = regs[id]
  BY <1>0, <1>1, Shape, SMTT(30) DEF TypeOK, Registration
<1>3. /\ pin_sources'[source] = Append(pin_sources[source], n)
      /\ \A s \in Sources \cup {Fallback} : s # source => pin_sources'[s] = pin_sources[s]
      /\ pin_sources[source] \in Seq(Nat)
      /\ pin_sources \in [Sources \cup {Fallback} -> Seq(Nat)]
  BY <1>1 DEF TypeOK
<1>4. /\ pin_sources'[source] \in Seq(Nat)
      /\ Ids(pin_sources'[source]) = Ids(pin_sources[source]) \cup {n}
      /\ OnlyOnce(pin_sources[source]) /\ n \notin Ids(pin_sources[source])
         => OnlyOnce(pin_sources'[source])
  BY <1>2, <1>3, AppendOne
<1>5. pin_sources' \in [Sources \cup {Fallback} -> Seq(Nat)]
  BY <1>1, <1>3, <1>4
<1>6. TypeOK'
  BY <1>1, <1>2, <1>5 DEF TypeOK
<1>7. \A s \in Sources \cup {Fallback} : n \notin Ids(pin_sources[s])
  BY <1>2 DEF Once
<1>8. Once'
  <2>1. \A s \in Sources \cup {Fallback} :
            Ids(pin_sources'[s]) \subseteq DOMAIN regs' /\ OnlyOnce(pin_sources'[s])
    BY <1>2, <1>3, <1>4, <1>7, Zenon DEF Once
  <2>2. \A r, s \in Sources \cup {Fallback} :
            r # s => Ids(pin_sources'[r]) \cap Ids(pin_sources'[s]) = {}
    <3> SUFFICES ASSUME NEW r \in Sources \cup {Fallback}, NEW s \in Sources \cup {Fallback},
                        r # s
                 PROVE  Ids(pin_sources'[r]) \cap Ids(pin_sources'[s]) = {}
      OBVIOUS
    <3>1. Ids(pin_sources[r]) \cap Ids(pin_sources[s]) = {}
      BY DEF Once
    <3>2. n \notin Ids(pin_sources[r]) /\ n \notin Ids(pin_sources[s])
      BY <1>7
    <3>3. CASE r = source
      BY <3>1, <3>2, <3>3, <1>3, <1>4
    <3>4. CASE s = source
      BY <3>1, <3>2, <3>4, <1>3, <1>4
    <3>5. CASE r # source /\ s # source
      BY <3>1, <3>5, <1>3
    <3> QED BY <3>3, <3>4, <3>5
  <2> QED BY <2>1, <2>2 DEF Once
<1>9. Doing'
  BY <1>1, <1>2, DoingStep DEF Doing, Calling
<1>10. RegistrationCount'
  <2>1. \A id : Callers(id)' = Callers(id)
    BY <1>1 DEF Callers
  <2>2. \A id \in DOMAIN regs : Listed(id)' <=> Listed(id)
    BY <1>2, <1>3, <1>4, Zenon DEF Listed
  <2>3. Listed(n)'
    BY <1>4 DEF Listed
  <2>5. Callers(n) = {}
    BY <1>2 DEF Callers, Doing
  <2>4. IsFiniteSet({}) /\ Cardinality({}) = 0
    BY FS_EmptySet
  <2>6. /\ IsFiniteSet(Callers(n)')
        /\ regs'[n].refs = Cardinality(Callers(n)') + (IF Listed(n)' THEN 1 ELSE 0)
        /\ regs'[n].destroyed = IF regs'[n].refs = 0 THEN 1 ELSE 0
    <3>1. Callers(n)' = {}
      BY <2>1, <2>5
    <3>2. IsFiniteSet(Callers(n)') /\ Cardinality(Callers(n)') = 0
      BY <2>4, <3>1, Zenon
    <3> QED BY <1>2, <2>3, <3>2
  <2>7. ASSUME NEW id \in DOMAIN regs
        PROVE  /\ IsFiniteSet(Callers(id)')
               /\ regs'[id].refs = Cardinality(Callers(id)') + (IF Listed(id)' THEN 1 ELSE 0)
               /\ regs'[id].destroyed = IF regs'[id].refs = 0 THEN 1 ELSE 0
    BY <1>2, <2>1, <2>2 DEF RegistrationCount
  <2> QED BY <1>2, <2>6, <2>7, CountStep
<1>11. PinCount'
  BY <1>1, PinsUnmoved
<1> QED BY <1>6, <1>8, <1>9, <1>10, <1>11

LEMMA UnregisterKeeps ==
    ASSUME PInv, NEW source \in Sources \cup {Fallback}, NEW cb \in Callbacks,
           p11_kit_pin_unregister_callback(source, cb)
    PROVE  PInv'
<1> USE DEF PInv
<1>1. PICK i \in DOMAIN pin_sources[source] :
          /\ pin_sources' = [pin_sources EXCEPT ![source] =
                 SubSeq(pin_sources[source], 1, i - 1)
                 \o SubSeq(pin_sources[source], i + 1, Len(pin_sources[source]))]
          /\ regs' = [regs EXCEPT ![pin_sources[source][i]] = unref_pin_callback(@)]
          /\ pins' = pins /\ request' = request /\ holds' = holds
  BY Zenon DEF p11_kit_pin_unregister_callback
<1>2. PICK gone : gone = pin_sources[source][i]
  OBVIOUS
<1>3. PICK of : of = pin_sources[source]
  OBVIOUS
<1>4. PICK left : left = SubSeq(of, 1, i - 1) \o SubSeq(of, i + 1, Len(of))
  BY Zenon
<1>5. /\ of \in Seq(Nat) /\ i \in 1..Len(of) /\ Len(of) \in Nat /\ DOMAIN of = 1..Len(of)
      /\ gone = of[i] /\ OnlyOnce(of)
  BY <1>1, <1>2, <1>3, SMTT(30) DEF TypeOK, Once
<1>6. /\ left \in Seq(Nat) /\ Len(left) = Len(of) - 1
      /\ \A k \in 1..(Len(of) - 1) : left[k] = IF k < i THEN of[k] ELSE of[k + 1]
  BY <1>4, <1>5, WithoutAt, Zenon
<1>7. PICK n : n = Len(of)
  BY Zenon
<1>8. OnlyOnce(left) /\ Ids(left) = Ids(of) \ {gone}
  <2>1. Removed(n, of, left, i)
    BY <1>5, <1>6, <1>7 DEF Removed
  <2>2. OnlyOnce(left) /\ Ids(left) = Ids(of) \ {of[i]}
    BY <1>5, <2>1, RemoveAt
  <2> QED BY <2>2, <1>5
<1>9. /\ pin_sources'[source] = left /\ pin_sources[source] = of
      /\ pin_sources' \in [Sources \cup {Fallback} -> Seq(Nat)]
      /\ \A s \in Sources \cup {Fallback} : s # source => pin_sources'[s] = pin_sources[s]
  BY <1>1, <1>3, <1>4, <1>6, Zenon DEF TypeOK
<1>10. gone \in Ids(of) /\ gone \in DOMAIN regs /\ Listed(gone)
  BY <1>5, <1>9, Zenon DEF Ids, Once, Listed
<1>11. regs[gone].refs \in Nat /\ regs[gone].refs >= 1 /\ regs[gone].destroyed = 0
  BY <1>10, RegistrationPositive
<1>12. /\ unref_pin_callback(regs[gone]) \in Registration
       /\ unref_pin_callback(regs[gone]).refs = regs[gone].refs - 1
       /\ unref_pin_callback(regs[gone]).destroyed = IF regs[gone].refs = 1 THEN 1 ELSE 0
  BY <1>10, <1>11, Shape, UnrefIs
<1>13. /\ regs' = [regs EXCEPT ![gone] = unref_pin_callback(regs[gone])]
       /\ DOMAIN regs' = DOMAIN regs /\ regs'[gone] = unref_pin_callback(regs[gone])
       /\ \A id \in DOMAIN regs : id # gone => regs'[id] = regs[id]
  BY <1>1, <1>2, <1>10
<1>14. regs' \in Seq(Registration)
  <2>1. regs' \in [DOMAIN regs -> Registration]
    BY <1>12, <1>13, Shape, Zenon
  <2> QED BY <2>1, SameLength DEF TypeOK
<1>15. TypeOK'
  BY <1>1, <1>9, <1>14, Zenon DEF TypeOK
<1>16. \A s \in Sources \cup {Fallback} : s # source => gone \notin Ids(pin_sources[s])
  BY <1>9, <1>10, Zenon DEF Once
<1>17. Once'
  <2>1. \A s \in Sources \cup {Fallback} :
            /\ Ids(pin_sources'[s]) \subseteq Ids(pin_sources[s])
            /\ OnlyOnce(pin_sources'[s])
    BY <1>8, <1>9 DEF Once
  <2> QED BY <2>1, <1>13, ZenonT(40) DEF Once
<1>18. Doing'
  BY <1>1, <1>13, DoingStep DEF Doing, Calling
<1>19. RegistrationCount'
  <2>1. \A id : Callers(id)' = Callers(id)
    BY <1>1 DEF Callers
  <2>2. \A id \in DOMAIN regs : id # gone => (Listed(id)' <=> Listed(id))
    BY <1>8, <1>9 DEF Listed
  <2>3. ~Listed(gone)'
    BY <1>8, <1>9, <1>16 DEF Listed
  <2>4. /\ IsFiniteSet(Callers(gone)) /\ Cardinality(Callers(gone)) \in Nat
        /\ regs[gone].refs = Cardinality(Callers(gone)) + 1
    BY <1>10, FS_CardinalityType DEF RegistrationCount
  <2>5. /\ IsFiniteSet(Callers(gone)')
        /\ regs'[gone].refs = Cardinality(Callers(gone)') + (IF Listed(gone)' THEN 1 ELSE 0)
        /\ regs'[gone].destroyed = IF regs'[gone].refs = 0 THEN 1 ELSE 0
    BY <1>11, <1>12, <1>13, <2>1, <2>3, <2>4
  <2>6. ASSUME NEW id \in DOMAIN regs, id # gone
        PROVE  /\ IsFiniteSet(Callers(id)')
               /\ regs'[id].refs = Cardinality(Callers(id)') + (IF Listed(id)' THEN 1 ELSE 0)
               /\ regs'[id].destroyed = IF regs'[id].refs = 0 THEN 1 ELSE 0
    BY <1>13, <2>1, <2>2, <2>6 DEF RegistrationCount
  <2> QED BY <1>13, <2>5, <2>6, CountStep
<1>20. PinCount'
  BY <1>1, PinsUnmoved
<1> QED BY <1>15, <1>17, <1>18, <1>19, <1>20

LEMMA SnapshotKeeps ==
    ASSUME PInv, NEW t \in PinThreads, NEW source \in Sources, RequestSnapshot(t, source)
    PROVE  PInv'
<1> USE DEF PInv
<1>1. PICK s \in Sources \cup {Fallback} :
          s = IF pin_sources[source] # <<>> THEN source ELSE Fallback
  OBVIOUS
<1>2. PICK callbacks : callbacks = pin_sources[s]
  OBVIOUS
<1>3. PICK new : new = [pc |-> "calling", snapshot |-> callbacks, left |-> Len(callbacks), pin |-> 0]
  BY Zenon
<1>4. /\ request[t] = Idle
      /\ regs' = [id \in DOMAIN regs |->
             IF id \in Ids(callbacks) THEN ref_pin_callback(regs[id]) ELSE regs[id]]
      /\ request' = [request EXCEPT ![t] = new]
      /\ pin_sources' = pin_sources /\ pins' = pins /\ holds' = holds
  BY <1>1, <1>2, <1>3, Zenon DEF RequestSnapshot
<1>5. callbacks \in Seq(Nat) /\ Len(callbacks) \in Nat /\ Ids(callbacks) \subseteq DOMAIN regs
  BY <1>2 DEF TypeOK, Once
<1>6. new \in Request /\ request'[t] = new /\ \A u \in PinThreads : u # t => request'[u] = request[u]
  BY <1>3, <1>4, <1>5 DEF TypeOK, Request
<1>7. /\ regs' \in Seq(Registration) /\ DOMAIN regs' = DOMAIN regs
      /\ \A id \in DOMAIN regs :
             regs'[id] = IF id \in Ids(callbacks) THEN ref_pin_callback(regs[id]) ELSE regs[id]
  <2>1. regs' \in [DOMAIN regs -> Registration]
    BY <1>4, Shape, RefIs
  <2> QED BY <1>4, <2>1, SameLength DEF TypeOK
<1>8. TypeOK'
  <2>1. request' \in [PinThreads -> Request]
    BY <1>4, <1>6 DEF TypeOK
  <2> QED BY <1>4, <1>7, <2>1 DEF TypeOK
<1>9. Once'
  BY <1>4, <1>7, ListsUnmoved
<1>10. Doing'
  <2>1. /\ Ids(request'[t].snapshot) \subseteq DOMAIN regs'
        /\ request'[t].left <= Len(request'[t].snapshot)
        /\ request'[t].pc = "calling" /\ request'[t].pin \in 0..Len(pins')
    BY <1>3, <1>4, <1>5, <1>6, <1>7, Shape
  <2> QED BY <2>1, <1>4, <1>6, <1>7, DoingStep DEF Doing, Calling
<1>11. RegistrationCount'
  <2>1. \A id : t \notin Callers(id)
    BY <1>4, NoIds DEF Callers, Idle
  <2>2. \A id : Callers(id)' = IF id \in Ids(callbacks) THEN Callers(id) \cup {t} ELSE Callers(id)
    BY <1>3, <1>6, <2>1 DEF Callers
  <2>3. \A id : Listed(id)' <=> Listed(id)
    BY <1>4 DEF Listed
  <2>4. ASSUME NEW id \in DOMAIN regs, id \in Ids(callbacks)
        PROVE  /\ IsFiniteSet(Callers(id)')
               /\ regs'[id].refs = Cardinality(Callers(id)') + (IF Listed(id)' THEN 1 ELSE 0)
               /\ regs'[id].destroyed = IF regs'[id].refs = 0 THEN 1 ELSE 0
    <3>1. Listed(id)
      BY <2>4, <1>2 DEF Listed
    <3>2. regs[id].refs \in Nat /\ regs[id].refs >= 1 /\ regs[id].destroyed = 0
      BY <3>1, RegistrationPositive
    <3>3. regs'[id].refs = regs[id].refs + 1 /\ regs'[id].destroyed = 0
      BY <1>7, <2>4, <3>2, Shape, RefIs
    <3>4. IsFiniteSet(Callers(id)) /\ regs[id].refs = Cardinality(Callers(id)) + 1
      BY <3>1 DEF RegistrationCount
    <3>5. /\ IsFiniteSet(Callers(id) \cup {t}) /\ Cardinality(Callers(id)) \in Nat
          /\ Cardinality(Callers(id) \cup {t}) = Cardinality(Callers(id)) + 1
      BY <2>1, <3>4, FS_AddElement, FS_CardinalityType
    <3>6. Callers(id)' = Callers(id) \cup {t}
      BY <2>2, <2>4
    <3> QED BY <2>3, <3>1, <3>2, <3>3, <3>4, <3>5, <3>6
  <2>5. ASSUME NEW id \in DOMAIN regs, id \notin Ids(callbacks)
        PROVE  /\ IsFiniteSet(Callers(id)')
               /\ regs'[id].refs = Cardinality(Callers(id)') + (IF Listed(id)' THEN 1 ELSE 0)
               /\ regs'[id].destroyed = IF regs'[id].refs = 0 THEN 1 ELSE 0
    BY <1>7, <2>2, <2>3, <2>5 DEF RegistrationCount
  <2> QED BY <1>7, <2>4, <2>5, CountStep
<1>12. PinCount'
  <2>1. request'[t].pin = 0 /\ request[t].pin = 0 /\ \A p \in Pins : p # 0
    BY <1>3, <1>4, <1>6 DEF Idle, Pins
  <2> QED BY <1>4, <1>6, <2>1, PinsUnmoved
<1> QED BY <1>8, <1>9, <1>10, <1>11, <1>12

\* A request that calls the next callback of its snapshot: it gives a PIN, or
\* the one before it is next.
LEMMA CallKeeps ==
    ASSUME ConstantsOK, PInv, NEW t \in PinThreads, RequestCall(t)
    PROVE  PInv'
<1> USE DEF PInv
<1> DEFINE gives == CanGive(regs[request[t].snapshot[request[t].left]].cb)
<1>2. PICK new : new = [request[t] EXCEPT !.left = @ - 1, !.pin = IF gives THEN Len(pins) + 1 ELSE 0]
  BY ZenonT(40)
<1>3. /\ Calling(t) /\ request[t].left > 0 /\ request[t].pin = 0
      /\ gives => Len(pins) < MaxPins
      /\ pins' = IF gives THEN Append(pins, [refs |-> 1, destroyed |-> 0]) ELSE pins
      /\ request' = [request EXCEPT ![t] = new]
      /\ pin_sources' = pin_sources /\ regs' = regs /\ holds' = holds
  BY <1>2 DEF RequestCall, p11_kit_pin_new_for_buffer, Calling
<1> HIDE DEF gives
<1>4. /\ new.pc = "calling" /\ new.snapshot = request[t].snapshot
      /\ new.left = request[t].left - 1 /\ new.pin = IF gives THEN Len(pins) + 1 ELSE 0
      /\ new \in Request
  <2>1. PICK l \in Nat : l = request[t].left - 1
    BY <1>3, Shape DEF Request
  <2>2. PICK p \in Nat : p = IF gives THEN Len(pins) + 1 ELSE 0
    BY Shape
  <2>3. new = [request[t] EXCEPT !.left = l, !.pin = p]
    BY <1>2, <2>1, <2>2, Shape DEF Request
  <2>4. [request[t] EXCEPT !.left = l, !.pin = p] \in Request
    BY Shape, Zenon DEF Request
  <2> QED BY <1>3, <2>1, <2>2, <2>3, <2>4, Shape DEF Request, Calling
<1>5. request'[t] = new /\ \A u \in PinThreads : u # t => request'[u] = request[u]
  BY <1>3 DEF TypeOK
<1>6. /\ pins' \in Seq(PinObject) /\ Len(pins') = Len(pins) + (IF gives THEN 1 ELSE 0)
      /\ DOMAIN pins' = 1..Len(pins')
      /\ \A p \in DOMAIN pins : pins'[p] = pins[p]
      /\ gives => pins'[Len(pins) + 1] = [refs |-> 1, destroyed |-> 0]
  <2>1. CASE gives
    BY <1>3, <2>1, Shape DEF TypeOK, PinObject
  <2>2. CASE ~gives
    BY <1>3, <2>2, Shape DEF TypeOK, PinObject
  <2> QED BY <2>1, <2>2
<1>7. TypeOK'
  <2>1. request' \in [PinThreads -> Request]
    BY <1>3, <1>4 DEF TypeOK
  <2>2. Len(pins') <= MaxPins
    BY <1>3, <1>6, Shape DEF TypeOK, ConstantsOK
  <2> QED BY <1>3, <1>6, <2>1, <2>2 DEF TypeOK
<1>8. Once' /\ RegistrationCount'
  BY <1>3, <1>4, <1>5, RegistrationsUnmoved
<1>9. Doing'
  <2>1. /\ Ids(request'[t].snapshot) \subseteq DOMAIN regs'
        /\ request'[t].left <= Len(request'[t].snapshot)
        /\ request'[t].pc = "calling" /\ request'[t].pin \in 0..Len(pins')
    <3>1. /\ request[t].left \in Nat /\ request[t].left <= Len(request[t].snapshot)
          /\ request[t].snapshot \in Seq(Nat) /\ Ids(request[t].snapshot) \subseteq DOMAIN regs
      BY Shape, SMTT(30) DEF Doing, Request
    <3> QED BY <1>3, <1>4, <1>5, <1>6, <3>1, Shape
  <2>2. \A u \in PinThreads : request[u].pin \in 0..Len(pins')
    BY <1>6, Shape DEF Doing
  <2> QED BY <2>1, <2>2, <1>3, <1>5, DoingStep, Zenon DEF Doing, Calling
<1>10. ASSUME NEW p \in Pins PROVE PinCounted(p)'
  <2>0. PinCounted(p) /\ p # 0 /\ p \in Nat
    BY DEF PinCount, Pins
  <2>1. CASE ~(gives /\ p = Len(pins) + 1)
    <3>1. (p \in DOMAIN pins' <=> p \in DOMAIN pins) /\ (p \in DOMAIN pins => pins'[p] = pins[p])
      BY <1>6, <2>0, <2>1, Shape
    <3>2. \A u \in PinThreads :
              /\ (request'[u].pc = "calling" /\ request'[u].pin = p)
                 <=> (request[u].pc = "calling" /\ request[u].pin = p)
              /\ (request'[u].pc = "destroy" /\ request'[u].pin = p)
                 <=> (request[u].pc = "destroy" /\ request[u].pin = p)
      BY <1>3, <1>4, <1>5, <2>0, <2>1 DEF Calling
    <3> QED BY <1>3, <2>0, <3>1, <3>2, PinUnmoved, SMTT(30)
  <2>2. CASE gives /\ p = Len(pins) + 1
    <3>1. /\ p \notin DOMAIN pins /\ p \in DOMAIN pins'
          /\ pins'[p].refs = 1 /\ pins'[p].destroyed = 0
      BY <1>6, <2>2, Shape, SMTT(30)
    <3>2. \A u \in PinThreads : holds'[u][p] = 0 /\ request[u].pin # p
      BY <1>3, <2>0, <2>2, <3>1, Shape DEF PinCounted, Doing
    <3>3. /\ Calling(t)' /\ request'[t].pin = p
          /\ \A u \in PinThreads : u # t => request'[u].pin # p
          /\ \A u \in PinThreads : ~Destroying(u, p)'
      BY <1>4, <1>5, <2>2, <3>2 DEF Calling, Destroying
    <3>4. References(p)' = {<<t, 0>>}
      <4>1. \A r \in PinThreads \X Nat : r[1] \in PinThreads /\ r[2] \in Nat /\ r = <<r[1], r[2]>>
        OBVIOUS
      <4>2. \A r \in PinThreads \X Nat : r \in References(p)' <=> r = <<t, 0>>
        BY <3>2, <3>3, <4>1 DEF References
      <4>3. References(p)' \subseteq PinThreads \X Nat /\ <<t, 0>> \in PinThreads \X Nat
        BY DEF References
      <4> QED BY <4>2, <4>3
    <3>5. IsFiniteSet({<<t, 0>>}) /\ Cardinality({<<t, 0>>}) = 1
      BY FS_Singleton, Zenon
    <3> QED BY <3>1, <3>3, <3>4, <3>5 DEF PinCounted
  <2> QED BY <2>1, <2>2
<1>11. PinCount'
  BY <1>10 DEF PinCount
<1> QED BY <1>7, <1>8, <1>9, <1>11

\* The pairs that number references are known by their two parts.
LEMMA Pairs ==
    /\ \A r \in PinThreads \X Nat : r[1] \in PinThreads /\ r[2] \in Nat /\ r = <<r[1], r[2]>>
    /\ \A u \in PinThreads, k \in Nat :
           <<u, k>> \in PinThreads \X Nat /\ <<u, k>>[1] = u /\ <<u, k>>[2] = k
OBVIOUS

\* The references to a PIN, by thread and number.
LEMMA ReferencesAre ==
    ASSUME NEW p
    PROVE  /\ References(p) \subseteq PinThreads \X Nat
           /\ \A u \in PinThreads, m \in Nat :
                  <<u, m>> \in References(p) <=>
                      \/ m \in 1..holds[u][p]
                      \/ m = 0 /\ request[u].pc = "calling" /\ request[u].pin = p
BY Pairs DEF References, Calling

LEMMA ReferencesNext ==
    ASSUME NEW p
    PROVE  /\ References(p)' \subseteq PinThreads \X Nat
           /\ \A u \in PinThreads, m \in Nat :
                  <<u, m>> \in References(p)' <=>
                      \/ m \in 1..holds'[u][p]
                      \/ m = 0 /\ request'[u].pc = "calling" /\ request'[u].pin = p
BY Pairs DEF References, Calling

\* A request that returns gives up its snapshot, and its caller holds the PIN.
LEMMA ReleaseKeeps ==
    ASSUME PInv, NEW t \in PinThreads, RequestRelease(t)
    PROVE  PInv'
<1> USE DEF PInv
<1>1. PICK snap : snap = Ids(request[t].snapshot)
  OBVIOUS
<1>2. PICK got \in Nat : got = request[t].pin
  BY Shape DEF Request
<1>3. /\ Calling(t)
      /\ regs' = [id \in DOMAIN regs |->
             IF id \in snap THEN unref_pin_callback(regs[id]) ELSE regs[id]]
      /\ holds' = [holds EXCEPT ![t] =
             [p \in DOMAIN holds[t] |-> IF p = got THEN holds[t][p] + 1 ELSE holds[t][p]]]
      /\ request' = [request EXCEPT ![t] = Idle]
      /\ pin_sources' = pin_sources /\ pins' = pins
  BY <1>1, <1>2 DEF RequestRelease, Calling
<1>4. snap \subseteq DOMAIN regs /\ got \in 0..Len(pins)
  BY <1>1, <1>2 DEF Doing
<1>5. \A id \in snap : t \in Callers(id)
  BY <1>1 DEF Callers
<1>6. \A id \in snap : regs[id].refs \in Nat /\ regs[id].refs >= 1 /\ regs[id].destroyed = 0
  BY <1>4, <1>5, RegistrationPositive
<1>7. Idle \in Request /\ request'[t] = Idle /\ \A u \in PinThreads : u # t => request'[u] = request[u]
  BY <1>3 DEF TypeOK, Idle, Request
<1>8. \A u \in PinThreads, p \in Pins :
          /\ holds'[u][p] = IF u = t /\ p = got THEN holds[u][p] + 1 ELSE holds[u][p]
          /\ holds[u][p] \in Nat
  BY <1>3 DEF TypeOK
<1>9. regs' \in [DOMAIN regs -> Registration]
  BY <1>3, <1>6, Shape, UnrefIs
<1>10. /\ regs' \in Seq(Registration) /\ DOMAIN regs' = DOMAIN regs
       /\ \A id \in DOMAIN regs :
              regs'[id] = IF id \in snap THEN unref_pin_callback(regs[id]) ELSE regs[id]
  BY <1>3, <1>9, SameLength DEF TypeOK
<1>11. TypeOK'
  <2>1. request' \in [PinThreads -> Request]
    BY <1>3, <1>7 DEF TypeOK
  <2>2. holds' \in [PinThreads -> [Pins -> Nat]]
    BY <1>3 DEF TypeOK
  <2> QED BY <1>3, <1>10, <2>1, <2>2 DEF TypeOK
<1>12. Once'
  BY <1>3, <1>10, ListsUnmoved
<1>13. Doing'
  <2>1. /\ Ids(request'[t].snapshot) \subseteq DOMAIN regs'
        /\ request'[t].left <= Len(request'[t].snapshot)
        /\ request'[t].snapshot = <<>> /\ request'[t].pc = "idle"
        /\ request'[t].pin \in 0..Len(pins')
    BY <1>3, <1>7, NoIds, Shape DEF Idle
  <2> QED BY <2>1, <1>3, <1>7, <1>10, DoingStep DEF Doing, Calling
<1>14. RegistrationCount'
  <2>1. \A id : Callers(id)' = Callers(id) \ {t}
    BY <1>7, NoIds DEF Callers, Idle
  <2>2. \A id : Listed(id)' <=> Listed(id)
    BY <1>3 DEF Listed
  <2>3. ASSUME NEW id \in DOMAIN regs, id \in snap
        PROVE  /\ IsFiniteSet(Callers(id)')
               /\ regs'[id].refs = Cardinality(Callers(id)') + (IF Listed(id)' THEN 1 ELSE 0)
               /\ regs'[id].destroyed = IF regs'[id].refs = 0 THEN 1 ELSE 0
    <3>1. /\ regs'[id].refs = regs[id].refs - 1
          /\ regs'[id].destroyed = IF regs[id].refs = 1 THEN 1 ELSE 0
      BY <1>6, <1>10, <2>3, Shape, UnrefIs
    <3>2. /\ IsFiniteSet(Callers(id))
          /\ regs[id].refs = Cardinality(Callers(id)) + (IF Listed(id) THEN 1 ELSE 0)
      BY DEF RegistrationCount
    <3>3. /\ IsFiniteSet(Callers(id) \ {t}) /\ Cardinality(Callers(id)) \in Nat
          /\ Cardinality(Callers(id) \ {t}) = Cardinality(Callers(id)) - 1
      BY <1>5, <2>3, <3>2, FS_RemoveElement, FS_CardinalityType
    <3>4. Callers(id)' = Callers(id) \ {t}
      BY <2>1
    <3> QED BY <1>6, <2>2, <2>3, <3>1, <3>2, <3>3, <3>4
  <2>4. ASSUME NEW id \in DOMAIN regs, id \notin snap
        PROVE  /\ IsFiniteSet(Callers(id)')
               /\ regs'[id].refs = Cardinality(Callers(id)') + (IF Listed(id)' THEN 1 ELSE 0)
               /\ regs'[id].destroyed = IF regs'[id].refs = 0 THEN 1 ELSE 0
    <3>1. Callers(id)' = Callers(id)
      BY <1>1, <2>1, <2>4 DEF Callers
    <3> QED BY <1>10, <2>2, <2>4, <3>1 DEF RegistrationCount
  <2> QED BY <1>10, <2>3, <2>4, CountStep
<1>15. ASSUME NEW p \in Pins PROVE PinCounted(p)'
  <2>0. PinCounted(p) /\ p # 0 /\ p \in Nat
    BY DEF PinCount, Pins
  <2>1. CASE p # got
    <3>1. \A u \in PinThreads :
              /\ holds'[u][p] = holds[u][p]
              /\ (request'[u].pc = "calling" /\ request'[u].pin = p)
                 <=> (request[u].pc = "calling" /\ request[u].pin = p)
              /\ (request'[u].pc = "destroy" /\ request'[u].pin = p)
                 <=> (request[u].pc = "destroy" /\ request[u].pin = p)
      BY <1>2, <1>3, <1>7, <1>8, <2>0, <2>1 DEF Calling, Idle
    <3> QED BY <1>3, <2>0, <3>1, PinUnmoved
  <2>2. CASE p = got
    <3>1. p \in DOMAIN pins
      BY <1>4, <2>0, <2>2, Shape
    <3>2. PICK k \in Nat : k = holds[t][p] + 1
      BY <1>8
    <3>0. \A u \in PinThreads, m \in Nat :
              <<u, m>> \in References(p) <=>
                  \/ m \in 1..holds[u][p]
                  \/ m = 0 /\ request[u].pc = "calling" /\ request[u].pin = p
      BY ReferencesAre, Zenon
    <3>3. <<t, 0>> \in References(p) /\ <<t, k>> \notin References(p) /\ k # 0
      <4>1. k # 0 /\ k \notin 1..holds[t][p]
        BY <1>8, <3>2
      <4>2. 0 \in Nat /\ request[t].pc = "calling" /\ request[t].pin = p
        BY <1>2, <1>3, <2>2 DEF Calling
      <4> QED BY <3>0, <4>1, <4>2, Zenon
    <3>4. References(p)' = (References(p) \ {<<t, 0>>}) \cup {<<t, k>>}
      <4>1. \A r \in PinThreads \X Nat :
                r \in References(p)' <=> r \in (References(p) \ {<<t, 0>>}) \cup {<<t, k>>}
        <5> SUFFICES ASSUME NEW u \in PinThreads, NEW m \in Nat
                     PROVE  <<u, m>> \in References(p)'
                            <=> <<u, m>> \in (References(p) \ {<<t, 0>>}) \cup {<<t, k>>}
          BY Pairs
        <5>1. <<u, m>> \in References(p)' <=>
                  \/ m \in 1..holds'[u][p]
                  \/ m = 0 /\ request'[u].pc = "calling" /\ request'[u].pin = p
          BY ReferencesNext
        <5>2. (<<u, m>> = <<t, 0>> <=> u = t /\ m = 0) /\ (<<u, m>> = <<t, k>> <=> u = t /\ m = k)
          OBVIOUS
        <5>3. CASE u = t
          <6>1. <<u, m>> \in References(p)' <=> m \in 1..k
            BY <5>1, <5>3, <1>7, <1>8, <2>2, <3>2 DEF Idle
          <6>2. <<u, m>> \in References(p) <=> m \in 1..holds[t][p] \/ m = 0
            BY <5>3, <1>2, <1>3, <2>2, <3>0 DEF Calling
          <6> QED BY <5>2, <5>3, <6>1, <6>2, <3>2, <1>8
        <5>4. CASE u # t
          BY <5>1, <5>2, <5>4, <1>7, <1>8, <3>0, Zenon
        <5> QED BY <5>3, <5>4
      <4>2. /\ References(p)' \subseteq PinThreads \X Nat /\ References(p) \subseteq PinThreads \X Nat
            /\ <<t, k>> \in PinThreads \X Nat
        BY Pairs DEF References
      <4> QED BY <4>1, <4>2
    <3>5. /\ pins[p].refs \in Nat /\ pins[p].refs >= 1 /\ pins[p].destroyed = 0
          /\ \A u \in PinThreads : ~Destroying(u, p)
      BY <3>1, <3>3, PinPositive
    <3>6. \A u \in PinThreads : ~Destroying(u, p)'
      BY <1>7, <3>5 DEF Destroying, Idle
    <3>7. IsFiniteSet(References(p)) /\ pins[p].refs = Cardinality(References(p))
      BY <2>0, <3>1 DEF PinCounted
    <3>8. /\ IsFiniteSet(References(p) \ {<<t, 0>>})
          /\ Cardinality(References(p) \ {<<t, 0>>}) = Cardinality(References(p)) - 1
      BY <3>3, <3>7, FS_RemoveElement, Zenon
    <3>9. /\ IsFiniteSet(References(p)')
          /\ Cardinality(References(p)') = Cardinality(References(p)) - 1 + 1
      BY <3>3, <3>4, <3>8, FS_AddElement, ZenonT(40)
    <3> QED BY <1>3, <3>1, <3>5, <3>6, <3>7, <3>9 DEF PinCounted
  <2> QED BY <2>1, <2>2
<1>16. PinCount'
  BY <1>15 DEF PinCount
<1> QED BY <1>11, <1>12, <1>13, <1>14, <1>16

\* A thread that holds a PIN shares it with another one, or with itself.
LEMMA RefKeeps ==
    ASSUME PInv, NEW t \in PinThreads, NEW u \in PinThreads, NEW p \in Pins,
           p11_kit_pin_ref(t, u, p)
    PROVE  PInv'
<1> USE DEF PInv
<1>1. /\ holds[t][p] > 0 /\ pins' = [pins EXCEPT ![p].refs = @ + 1]
      /\ holds' = [holds EXCEPT ![u][p] = @ + 1]
      /\ pin_sources' = pin_sources /\ regs' = regs /\ request' = request
  BY DEF p11_kit_pin_ref
<1>2. /\ \A v \in PinThreads, q \in Pins : holds[v][q] \in Nat
      /\ holds' \in [PinThreads -> [Pins -> Nat]]
      /\ \A v \in PinThreads, q \in Pins :
             holds'[v][q] = IF v = u /\ q = p THEN holds[v][q] + 1 ELSE holds[v][q]
  BY <1>1 DEF TypeOK
<1>3. p \in DOMAIN pins /\ PinCounted(p) /\ p \in Nat /\ p # 0
  BY <1>1, <1>2 DEF PinCount, PinCounted, Pins
<1>4. <<t, 1>> \in References(p)
  BY <1>1, <1>2, ReferencesAre
<1>5. /\ pins[p].refs \in Nat /\ pins[p].refs >= 1 /\ pins[p].destroyed = 0
      /\ \A v \in PinThreads : ~Destroying(v, p)
  BY <1>3, <1>4, PinPositive
<1>6. /\ DOMAIN pins' = DOMAIN pins /\ pins'[p].refs = pins[p].refs + 1
      /\ pins'[p].destroyed = pins[p].destroyed
      /\ \A q \in DOMAIN pins : q # p => pins'[q] = pins[q]
      /\ pins' \in Seq(PinObject) /\ Len(pins') = Len(pins)
  <2>1. [pins[p] EXCEPT !.refs = @ + 1] \in PinObject
    BY <1>3, Shape DEF PinObject
  <2>2. pins' \in [DOMAIN pins -> PinObject]
    BY <1>1, <1>3, <2>1, Shape, Zenon
  <2>3. pins' \in Seq(PinObject) /\ Len(pins') = Len(pins) /\ DOMAIN pins' = DOMAIN pins
    BY <2>2, SameLength DEF TypeOK
  <2> QED BY <1>1, <1>3, <2>3, Shape, Zenon DEF PinObject
<1>7. TypeOK'
  BY <1>1, <1>2, <1>6 DEF TypeOK
<1>8. Once' /\ RegistrationCount'
  BY <1>1, RegistrationsUnmoved
<1>9. Doing'
  BY <1>1, <1>6, DoingStep, ZenonT(40) DEF Doing, Calling
<1>10. PinCounted(p)'
  <2>1. PICK k \in Nat : k = holds[u][p] + 1
    BY <1>2
  <2>2. References(p)' = References(p) \cup {<<u, k>>} /\ <<u, k>> \notin References(p)
    <3>1. ASSUME NEW v \in PinThreads, NEW m \in Nat
          PROVE  <<v, m>> \in References(p)' <=> <<v, m>> \in References(p) \/ (v = u /\ m = k)
      <4>1. m \in 1..holds'[v][p] <=> m \in 1..holds[v][p] \/ (v = u /\ m = k)
        <5>1. CASE v = u
          <6>1. PICK h \in Nat : h = holds[v][p]
            BY <1>2
          <6>2. holds'[v][p] = h + 1 /\ k = h + 1
            BY <1>2, <2>1, <5>1, <6>1
          <6> QED BY <5>1, <6>1, <6>2
        <5>2. CASE v # u
          BY <1>2, <5>2
        <5> QED BY <5>1, <5>2
      <4> QED BY <1>1, <4>1, ReferencesAre, ReferencesNext
    <3>2. <<u, k>> \notin References(p) /\ <<u, k>> \in PinThreads \X Nat
      BY <1>2, <2>1, ReferencesAre
    <3>3. \A r \in PinThreads \X Nat : r \in References(p)' <=> r \in References(p) \/ r = <<u, k>>
      BY <3>1, Pairs
    <3> QED BY <3>2, <3>3, ReferencesAre, ReferencesNext
  <2>3. IsFiniteSet(References(p)) /\ pins[p].refs = Cardinality(References(p))
    BY <1>3 DEF PinCounted
  <2>4. IsFiniteSet(References(p)') /\ Cardinality(References(p)') = Cardinality(References(p)) + 1
    BY <2>2, <2>3, FS_AddElement, Zenon
  <2>5. \A v \in PinThreads : ~Destroying(v, p)'
    BY <1>1, <1>5 DEF Destroying
  <2> QED BY <1>3, <1>5, <1>6, <2>3, <2>4, <2>5 DEF PinCounted
<1>11. ASSUME NEW q \in Pins, q # p PROVE PinCounted(q)'
  <2>1. PinCounted(q)
    BY DEF PinCount
  <2> QED BY <1>1, <1>2, <1>6, <1>11, <2>1, PinUnmoved
<1> QED BY <1>7, <1>8, <1>9, <1>10, <1>11 DEF PinCount

\* A thread gives up a reference; the one that gives up the last goes on to
\* destroy the PIN.
LEMMA UnrefKeeps ==
    ASSUME PInv, NEW t \in PinThreads, NEW p \in Pins, p11_kit_pin_unref(t, p)
    PROVE  PInv'
<1> USE DEF PInv
<1>1. PICK last \in BOOLEAN : last <=> pins[p].refs = 1
  BY Zenon
<1>2. PICK new : new = [Idle EXCEPT !.pc = "destroy", !.pin = p]
  OBVIOUS
<1>3. /\ request[t] = Idle /\ holds[t][p] > 0
      /\ pins' = [pins EXCEPT ![p].refs = @ - 1]
      /\ holds' = [holds EXCEPT ![t][p] = @ - 1]
      /\ request' = IF last THEN [request EXCEPT ![t] = new] ELSE request
      /\ pin_sources' = pin_sources /\ regs' = regs
  BY <1>1, <1>2 DEF p11_kit_pin_unref
<1>4. /\ \A v \in PinThreads, q \in Pins : holds[v][q] \in Nat
      /\ holds' \in [PinThreads -> [Pins -> Nat]]
      /\ \A v \in PinThreads, q \in Pins :
             holds'[v][q] = IF v = t /\ q = p THEN holds[v][q] - 1 ELSE holds[v][q]
  BY <1>3 DEF TypeOK
<1>5. p \in DOMAIN pins /\ PinCounted(p) /\ p \in Nat /\ p # 0
  BY <1>3, <1>4 DEF PinCount, PinCounted, Pins
<1>6. PICK k \in Nat : k = holds[t][p] /\ k > 0
  BY <1>3, <1>4
<1>7. <<t, k>> \in References(p)
  BY <1>6, ReferencesAre
<1>8. /\ pins[p].refs \in Nat /\ pins[p].refs >= 1 /\ pins[p].destroyed = 0
      /\ \A v \in PinThreads : ~Destroying(v, p)
  BY <1>5, <1>7, PinPositive
<1>9. /\ DOMAIN pins' = DOMAIN pins /\ pins'[p].refs = pins[p].refs - 1
      /\ pins'[p].destroyed = pins[p].destroyed
      /\ \A q \in DOMAIN pins : q # p => pins'[q] = pins[q]
      /\ pins' \in Seq(PinObject) /\ Len(pins') = Len(pins)
  <2>1. [pins[p] EXCEPT !.refs = @ - 1] \in PinObject
    BY <1>5, <1>8, Shape DEF PinObject
  <2>2. pins' \in [DOMAIN pins -> PinObject]
    BY <1>3, <1>5, <2>1, Shape, Zenon
  <2>3. pins' \in Seq(PinObject) /\ Len(pins') = Len(pins) /\ DOMAIN pins' = DOMAIN pins
    BY <2>2, SameLength DEF TypeOK
  <2> QED BY <1>3, <1>5, <2>3, Shape, Zenon DEF PinObject
<1>10. /\ new \in Request /\ new.pc = "destroy" /\ new.snapshot = <<>> /\ new.left = 0 /\ new.pin = p
       /\ request'[t] = (IF last THEN new ELSE Idle)
       /\ \A v \in PinThreads : v # t => request'[v] = request[v]
       /\ request' \in [PinThreads -> Request]
  BY <1>2, <1>3, <1>5, Zenon DEF TypeOK, Request, Idle
<1>11. TypeOK'
  BY <1>3, <1>4, <1>9, <1>10 DEF TypeOK
<1>12. Once' /\ RegistrationCount'
  <2>1. \A v \in PinThreads : request'[v].snapshot = request[v].snapshot
    BY <1>3, <1>10 DEF Idle
  <2> QED BY <1>3, <2>1, RegistrationsUnmoved
<1>13. Doing'
  <2>1. /\ Ids(request'[t].snapshot) \subseteq DOMAIN regs'
        /\ request'[t].left <= Len(request'[t].snapshot)
        /\ request'[t].snapshot = <<>>
        /\ request'[t].pc = "idle" => request'[t] = Idle
        /\ request'[t].pc = "destroy" => request'[t].pin # 0
        /\ request'[t].pin \in 0..Len(pins')
    BY <1>5, <1>9, <1>10, NoIds, Shape, SMTT(30) DEF Idle
  <2> QED BY <2>1, <1>3, <1>9, <1>10, DoingStep, SMTT(30) DEF Doing, Calling
<1>14. PinCounted(p)'
  <2>1. References(p)' = References(p) \ {<<t, k>>}
    <3>1. ASSUME NEW v \in PinThreads, NEW m \in Nat
          PROVE  <<v, m>> \in References(p)' <=> <<v, m>> \in References(p) /\ ~(v = t /\ m = k)
      <4>1. m \in 1..holds'[v][p] <=> m \in 1..holds[v][p] /\ ~(v = t /\ m = k)
        <5>1. CASE v = t
          BY <1>4, <1>6, <5>1
        <5>2. CASE v # t
          BY <1>4, <5>2
        <5> QED BY <5>1, <5>2
      <4>2. (request'[v].pc = "calling" /\ request'[v].pin = p)
            <=> (request[v].pc = "calling" /\ request[v].pin = p)
        BY <1>3, <1>10 DEF Idle
      <4> QED BY <1>6, <4>1, <4>2, ReferencesAre, ReferencesNext
    <3>2. \A r \in PinThreads \X Nat : r \in References(p)' <=> r \in References(p) /\ r # <<t, k>>
      BY <3>1, Pairs
    <3> QED BY <3>2, ReferencesAre, ReferencesNext
  <2>2. IsFiniteSet(References(p)) /\ pins[p].refs = Cardinality(References(p))
    BY <1>5 DEF PinCounted
  <2>3. IsFiniteSet(References(p)') /\ Cardinality(References(p)') = Cardinality(References(p)) - 1
    BY <1>7, <2>1, <2>2, FS_RemoveElement, Zenon
  <2>4. \A v \in PinThreads : Destroying(v, p)' <=> v = t /\ last
    BY <1>8, <1>10 DEF Destroying, Idle
  <2> QED BY <1>1, <1>5, <1>8, <1>9, <2>2, <2>3, <2>4, SMTT(30) DEF PinCounted
<1>15. ASSUME NEW q \in Pins, q # p PROVE PinCounted(q)'
  <2>1. PinCounted(q) /\ q # 0
    BY DEF PinCount, Pins
  <2>2. \A v \in PinThreads :
            /\ holds'[v][q] = holds[v][q]
            /\ (request'[v].pc = "calling" /\ request'[v].pin = q)
               <=> (request[v].pc = "calling" /\ request[v].pin = q)
            /\ (request'[v].pc = "destroy" /\ request'[v].pin = q)
               <=> (request[v].pc = "destroy" /\ request[v].pin = q)
    BY <1>3, <1>4, <1>10, <1>15, <2>1 DEF Idle
  <2> QED BY <1>9, <1>15, <2>1, <2>2, PinUnmoved
<1> QED BY <1>11, <1>12, <1>13, <1>14, <1>15 DEF PinCount

\* The PIN whose last reference was given up is destroyed.
LEMMA DestroyKeeps ==
    ASSUME ConstantsOK, PInv, NEW t \in PinThreads, UnrefDestroy(t)
    PROVE  PInv'
<1> USE DEF PInv
<1>1. PICK p : p = request[t].pin
  OBVIOUS
<1>2. /\ Destroying(t, p) /\ pins' = [pins EXCEPT ![p].destroyed = @ + 1]
      /\ request' = [request EXCEPT ![t] = Idle]
      /\ pin_sources' = pin_sources /\ regs' = regs /\ holds' = holds
  BY <1>1 DEF UnrefDestroy, Destroying
<1>3. p \in DOMAIN pins /\ p \in Pins /\ p # 0 /\ p \in Nat
  <2>1. p # 0 /\ p \in 0..Len(pins) /\ Len(pins) <= MaxPins
    BY <1>1, <1>2 DEF Doing, Destroying, TypeOK
  <2> QED BY <2>1, Shape DEF Pins, ConstantsOK
<1>4. PinCounted(p)
  BY <1>3 DEF PinCount
<1>5. /\ DOMAIN pins' = DOMAIN pins /\ pins'[p].refs = pins[p].refs
      /\ pins'[p].destroyed = pins[p].destroyed + 1
      /\ \A q \in DOMAIN pins : q # p => pins'[q] = pins[q]
      /\ pins' \in Seq(PinObject) /\ Len(pins') = Len(pins)
  <2>1. [pins[p] EXCEPT !.destroyed = @ + 1] \in PinObject
    BY <1>3, Shape DEF PinObject
  <2>2. pins' \in [DOMAIN pins -> PinObject]
    BY <1>2, <1>3, <2>1, Shape, Zenon
  <2>3. pins' \in Seq(PinObject) /\ Len(pins') = Len(pins) /\ DOMAIN pins' = DOMAIN pins
    BY <2>2, SameLength DEF TypeOK
  <2> QED BY <1>2, <1>3, <2>3, Shape, SMTT(30) DEF PinObject
<1>6. /\ request'[t] = Idle /\ request' \in [PinThreads -> Request]
      /\ \A v \in PinThreads : v # t => request'[v] = request[v]
  BY <1>2 DEF TypeOK, Request, Idle
<1>7. TypeOK'
  BY <1>2, <1>5, <1>6 DEF TypeOK
<1>8. Once' /\ RegistrationCount'
  <2>1. request[t].snapshot = <<>>
    BY <1>2 DEF Doing, Destroying, Calling
  <2>2. \A v \in PinThreads : request'[v].snapshot = request[v].snapshot
    BY <1>6, <2>1 DEF Idle
  <2> QED BY <1>2, <2>2, RegistrationsUnmoved
<1>9. Doing'
  <2>1. /\ Ids(request'[t].snapshot) \subseteq DOMAIN regs'
        /\ request'[t].left <= Len(request'[t].snapshot)
        /\ request'[t].snapshot = <<>> /\ request'[t].pc = "idle"
        /\ request'[t].pin \in 0..Len(pins')
    BY <1>5, <1>6, NoIds, Shape DEF Idle
  <2> QED BY <2>1, <1>2, <1>5, <1>6, DoingStep, ZenonT(40) DEF Doing, Calling
<1>10. \A v \in PinThreads, q \in Pins :
           /\ (request'[v].pc = "calling" /\ request'[v].pin = q)
              <=> (request[v].pc = "calling" /\ request[v].pin = q)
           /\ (request'[v].pc = "destroy" /\ request'[v].pin = q)
              <=> (request[v].pc = "destroy" /\ request[v].pin = q /\ v # t)
  BY <1>2, <1>6, ZenonT(40) DEF Destroying, Idle
<1>11. PinCounted(p)'
  <2>1. References(p)' = References(p)
    <3>1. ASSUME NEW v \in PinThreads, NEW m \in Nat
          PROVE  <<v, m>> \in References(p)' <=> <<v, m>> \in References(p)
      <4>1. /\ holds'[v][p] = holds[v][p]
            /\ (request'[v].pc = "calling" /\ request'[v].pin = p)
               <=> (request[v].pc = "calling" /\ request[v].pin = p)
        BY <1>2, <1>3, <1>10
      <4> QED BY <4>1, ReferencesAre, ReferencesNext
    <3>2. \A r \in PinThreads \X Nat : r \in References(p)' <=> r \in References(p)
      BY <3>1, Pairs
    <3> QED BY <3>2, ReferencesAre, ReferencesNext
  <2>2. /\ IsFiniteSet(References(p)) /\ pins[p].refs = Cardinality(References(p))
        /\ pins[p].refs = 0 /\ pins[p].destroyed = 0
        /\ \A v \in PinThreads : Destroying(v, p) => v = t
    BY <1>2, <1>3, <1>4 DEF PinCounted
  <2>3. \A v \in PinThreads : ~Destroying(v, p)'
    BY <1>3, <1>10, <2>2 DEF Destroying
  <2> QED BY <1>3, <1>5, <2>1, <2>2, <2>3, SMTT(30) DEF PinCounted
<1>12. ASSUME NEW q \in Pins, q # p PROVE PinCounted(q)'
  <2>1. PinCounted(q)
    BY DEF PinCount
  <2>2. \A v \in PinThreads :
            (request'[v].pc = "destroy" /\ request'[v].pin = q)
            <=> (request[v].pc = "destroy" /\ request[v].pin = q)
    BY <1>1, <1>10, <1>12
  <2> QED BY <1>2, <1>5, <1>10, <1>12, <2>1, <2>2, PinUnmoved
<1> QED BY <1>7, <1>8, <1>9, <1>11, <1>12 DEF PinCount

--------------------------------------------------------------------------------
LEMMA InitPInv ==
    ASSUME ConstantsOK, Init
    PROVE  PInv
<1>1. /\ regs = <<>> /\ pins = <<>> /\ Len(pins) = 0 /\ DOMAIN regs = {} /\ DOMAIN pins = {}
      /\ \A t \in PinThreads : request[t] = Idle
      /\ \A s \in Sources \cup {Fallback} : pin_sources[s] = <<>>
  BY DEF Init
<1>2. TypeOK
  BY <1>1 DEF Init, TypeOK, Idle, Request, ConstantsOK
<1>3. Once
  BY <1>1, NoIds DEF Once, OnlyOnce
<1>4. Doing
  <2>1. \A t \in PinThreads :
            /\ request[t].snapshot = <<>> /\ request[t].left = 0
            /\ request[t].pc = "idle" /\ request[t].pin = 0
    BY <1>1 DEF Idle
  <2>2. Len(<<>>) = 0
    OBVIOUS
  <2> QED BY <1>1, <2>1, <2>2, NoIds DEF Doing, Calling
<1>5. RegistrationCount
  BY <1>1 DEF RegistrationCount
<1>6. PinCount
  BY <1>1 DEF PinCount, PinCounted, Init
<1> QED BY <1>2, <1>3, <1>4, <1>5, <1>6 DEF PInv

\* A step that changes nothing.
LEMMA StutterKeeps ==
    ASSUME PInv, UNCHANGED vars
    PROVE  PInv'
<1> USE DEF PInv
<1>1. /\ pin_sources' = pin_sources /\ regs' = regs /\ pins' = pins
      /\ request' = request /\ holds' = holds
  BY DEF vars
<1>2. TypeOK'
  BY <1>1 DEF TypeOK
<1>3. Once' /\ RegistrationCount'
  BY <1>1, RegistrationsUnmoved
<1>4. Doing'
  BY <1>1, SMTT(30) DEF Doing, Calling
<1>5. PinCount'
  BY <1>1 DEF PinCount, PinCounted, References, Destroying, Calling
<1> QED BY <1>2, <1>3, <1>4, <1>5

LEMMA NextKeeps ==
    ASSUME ConstantsOK, PInv, Next
    PROVE  PInv'
<1>1. CASE \E s \in Sources \cup {Fallback}, cb \in Callbacks :
               p11_kit_pin_register_callback(s, cb)
  BY <1>1, RegisterKeeps
<1>2. CASE \E s \in Sources \cup {Fallback}, cb \in Callbacks :
               p11_kit_pin_unregister_callback(s, cb)
  BY <1>2, UnregisterKeeps
<1>3. CASE \E t \in PinThreads, s \in Sources : RequestSnapshot(t, s)
  BY <1>3, SnapshotKeeps
<1>4. CASE \E t \in PinThreads : RequestCall(t)
  BY <1>4, CallKeeps
<1>5. CASE \E t \in PinThreads : RequestRelease(t)
  BY <1>5, ReleaseKeeps
<1>6. CASE \E t \in PinThreads : UnrefDestroy(t)
  BY <1>6, DestroyKeeps
<1>7. CASE \E t \in PinThreads, pin \in Pins : p11_kit_pin_unref(t, pin)
  BY <1>7, UnrefKeeps
<1>8. CASE \E t \in PinThreads, pin \in Pins, u \in PinThreads : p11_kit_pin_ref(t, u, pin)
  BY <1>8, RefKeeps
<1> QED BY <1>1, <1>2, <1>3, <1>4, <1>5, <1>6, <1>7, <1>8 DEF Next

\* The counts of pin.c are exact in every state: the count of a registration
\* is the list it is in and the requests that have it in their snapshot, the
\* count of a PIN the references the threads have to it, and each object has
\* been destroyed once where its count is zero, and never where it is not.
THEOREM CountsAlwaysExact ==
    ASSUME ConstantsOK
    PROVE  Spec => []PInv
<1>1. Init => PInv
  BY InitPInv
<1>2. PInv /\ [Next]_vars => PInv'
  BY NextKeeps, StutterKeeps
<1> QED BY <1>1, <1>2, PTL DEF Spec

\* Whatever is exactly counted is kept exactly as long as it is needed.
LEMMA CountsKeep ==
    ASSUME ConstantsOK, PInv
    PROVE  CallbacksKept
<1> USE DEF PInv
<1>1. ASSUME NEW id \in DOMAIN regs
      PROVE  regs[id].destroyed =
                 IF \/ \E s \in DOMAIN pin_sources : id \in Ids(pin_sources[s])
                    \/ \E t \in PinThreads : id \in Ids(request[t].snapshot)
                 THEN 0 ELSE 1
  <2>1. CASE Listed(id) \/ Callers(id) # {}
    BY <2>1, RegistrationPositive, Shape DEF Listed, Callers
  <2>2. CASE ~Listed(id) /\ Callers(id) = {}
    <3>1. regs[id].destroyed = 1
      BY <2>2, FS_EmptySet DEF RegistrationCount
    <3> QED BY <2>2, <3>1, Shape DEF Listed, Callers
  <2> QED BY <2>1, <2>2
<1>2. ASSUME NEW p \in DOMAIN pins
      PROVE  pins[p].destroyed =
                 IF \E t \in PinThreads : holds[t][p] > 0 \/ request[t].pin = p THEN 0 ELSE 1
  <2>1. p \in Pins /\ p # 0 /\ PinCounted(p)
    BY Shape DEF TypeOK, PinCount, Pins, ConstantsOK
  <2>2. \A t \in PinThreads : holds[t][p] \in Nat
    BY <2>1 DEF TypeOK
  <2>3. CASE \E t \in PinThreads : holds[t][p] > 0 \/ request[t].pin = p
    <3>1. PICK t \in PinThreads : holds[t][p] > 0 \/ request[t].pin = p
      BY <2>3
    <3>2. CASE holds[t][p] > 0
      <4>1. <<t, 1>> \in References(p)
        BY <2>2, <3>2, ReferencesAre
      <4> QED BY <2>1, <2>3, <4>1, PinPositive
    <3>3. CASE request[t].pin = p
      <4>1. Calling(t) \/ Destroying(t, p)
        BY <2>1, <3>3, Shape DEF Doing, Idle, Calling, Destroying, Request
      <4>2. CASE Calling(t)
        <5>1. <<t, 0>> \in References(p)
          BY <3>3, <4>2, ReferencesAre, SMTT(30) DEF Calling
        <5> QED BY <2>1, <2>3, <5>1, PinPositive
      <4>3. CASE Destroying(t, p)
        BY <2>1, <2>3, <4>3, SMTT(30) DEF PinCounted
      <4> QED BY <4>1, <4>2, <4>3, SMTT(30)
    <3> QED BY <3>1, <3>2, <3>3
  <2>4. CASE ~\E t \in PinThreads : holds[t][p] > 0 \/ request[t].pin = p
    <3>1. References(p) = {}
      <4>1. ASSUME NEW u \in PinThreads, NEW m \in Nat PROVE <<u, m>> \notin References(p)
        BY <2>2, <2>4, ReferencesAre, SMTT(30)
      <4> QED BY <4>1, Pairs, ReferencesAre
    <3>2. pins[p].refs = 0
      BY <2>1, <3>1, FS_EmptySet DEF PinCounted
    <3>3. ~\E t \in PinThreads : Destroying(t, p)
      BY <2>4 DEF Destroying
    <3> QED BY <2>1, <2>4, <3>2, <3>3 DEF PinCounted
  <2> QED BY <2>3, <2>4
<1> QED BY <1>1, <1>2 DEF CallbacksKept

\* The data of a callback and a PIN live exactly as long as they are needed
\* (pin.c), whatever the threads, sources and callbacks and however a request,
\* which calls its snapshot without the lock, interleaves with registrations
\* and unregistrations: nothing is destroyed early, twice or never.
THEOREM CallbacksAlwaysKept ==
    ASSUME ConstantsOK
    PROVE  Spec => []CallbacksKept
<1>1. PInv => CallbacksKept
  BY CountsKeep
<1> QED BY <1>1, CountsAlwaysExact, PTL
================================================================================
