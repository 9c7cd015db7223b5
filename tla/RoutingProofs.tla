--------------------------- MODULE RoutingProofs ---------------------------
(***************************************************************************)
(* Both routers find the longest registration by whole segments, and the   *)
(* macro, whose paths are the texts they compare, lets no path through     *)
(* that they would take apart elsewhere.  What a text splits into, what is *)
(* built of a list of services, what a list matches and what is below a    *)
(* type are recursive functions over data: that they are what their        *)
(* definitions say, and what they compute, is by induction, which needs no *)
(* operator: a counterexample would have a least one.                      *)
(***************************************************************************)
EXTENDS Routing, SvcMacro, WellFoundedInduction, SequenceTheorems, FiniteSetTheorems, TLAPS

-----------------------------------------------------------------------------
(* Induction and recursion, for sets and functions instead of operators.    *)

(* A set of numbers that has any has a least.                               *)
LEMMA LeastOf ==
  ASSUME NEW S \in SUBSET Nat, S # {}
  PROVE  \E n \in S : \A m \in S : n <= m
<1>1. \A m, n \in Nat : m < n => <<m, n>> \in OpToRel(<, Nat)
  BY DEF OpToRel
<1>2. PICK R : IsWellFoundedOn(R, Nat) /\ \A m, n \in Nat : m < n => <<m, n>> \in R
  BY <1>1, NatLessThanWellFounded
<1>3. \E n \in S : \A m \in S : ~(<<m, n>> \in R)
  <2>1. IsWellFoundedOn(R, Nat)
    BY <1>2
  <2>2. S \subseteq Nat /\ S # {}
    OBVIOUS
  <2> QED
    BY <2>1, <2>2, WFMin, Zenon
<1>4. PICK n \in S : \A m \in S : ~(<<m, n>> \in R)
  BY <1>3
<1>5. ASSUME NEW m \in S
      PROVE  n <= m
  <2>1. m \in Nat /\ n \in Nat
    OBVIOUS
  <2>2. ~(m < n)
    BY <1>2, <1>4, <2>1
  <2> QED
    BY <2>1, <2>2
<1> QED
  BY <1>5

(* What holds at 0, and at n + 1 whenever at n, holds at every number.      *)
LEMMA Counting ==
  ASSUME NEW S, 0 \in S, \A n \in Nat : n \in S => n + 1 \in S
  PROVE  Nat \subseteq S
<1> SUFFICES ASSUME ~ (Nat \subseteq S)
             PROVE  FALSE
  OBVIOUS
<1>1. PICK n \in Nat \ S : \A m \in Nat \ S : n <= m
  <2>1. (Nat \ S) \in SUBSET Nat /\ Nat \ S # {}
    OBVIOUS
  <2> QED
    BY <2>1, LeastOf
<1>2. n - 1 \in Nat /\ n - 1 \in S /\ (n - 1) + 1 = n
  BY <1>1
<1> QED
  BY <1>2

(* A step taken n times from a base is a function of n.                     *)
LEMMA Iterates ==
  ASSUME NEW X, NEW base \in X, NEW len \in Nat, NEW step \in [1 .. len -> [X -> X]]
  PROVE  \E f \in [0 .. len -> X] : f[0] = base /\ \A n \in 1 .. len : f[n] = step[n][f[n - 1]]
<1> DEFINE IsRun(f, k) ==
             f \in [0 .. k -> X] /\ f[0] = base /\ \A n \in 1 .. k : f[n] = step[n][f[n - 1]]
           S == {k \in Nat : k <= len => \E f \in [0 .. k -> X] : IsRun(f, k)}
<1>1. 0 \in S
  <2>1. IsRun([n \in 0 .. 0 |-> base], 0)
    OBVIOUS
  <2> QED
    BY <2>1
<1>2. ASSUME NEW k \in Nat, k \in S
      PROVE  k + 1 \in S
  <2> SUFFICES ASSUME k + 1 <= len
               PROVE  \E g \in [0 .. k + 1 -> X] : IsRun(g, k + 1)
    OBVIOUS
  <2>1. PICK f \in [0 .. k -> X] : IsRun(f, k)
    BY <1>2
  <2> DEFINE g == [n \in 0 .. k + 1 |-> IF n = k + 1 THEN step[n][f[n - 1]] ELSE f[n]]
  <2>2. step[k + 1][f[k]] \in X
    BY <2>1
  <2>3. g \in [0 .. k + 1 -> X]
    BY <2>1, <2>2
  <2>4. g[0] = base /\ \A n \in 0 .. k : g[n] = f[n]
    BY <2>1
  <2>5. \A n \in 1 .. k + 1 : g[n] = step[n][g[n - 1]]
    BY <2>1, <2>4
  <2> QED
    BY <2>3, <2>4, <2>5
<1> HIDE DEF S
<1>3. Nat \subseteq S
  BY <1>1, <1>2, Counting
<1>4. len \in S
  BY <1>3
<1> QED
  BY <1>4 DEF S

(* A set of numbers up to N that has any has a greatest.                    *)
LEMMA GreatestOf ==
  ASSUME NEW N \in Nat, NEW S \in SUBSET (1 .. N), S # {}
  PROVE  \E n \in S : \A m \in S : m <= n
<1> DEFINE D == {d \in Nat : N - d \in S}
<1>1. D # {}
  <2>1. PICK n \in S : TRUE
    OBVIOUS
  <2>2. N - n \in Nat /\ N - (N - n) = n
    BY <2>1
  <2> QED
    BY <2>1, <2>2
<1>2. PICK d \in D : \A e \in D : d <= e
  <2>1. D \in SUBSET Nat
    OBVIOUS
  <2> HIDE DEF D
  <2> QED
    BY <1>1, <2>1, LeastOf
<1>3. ASSUME NEW m \in S
      PROVE  m <= N - d
  <2>1. N - m \in D /\ N - (N - m) = m
    OBVIOUS
  <2>2. d <= N - m
    BY <1>2, <2>1
  <2> QED
    BY <2>2
<1> QED
  BY <1>2, <1>3

-----------------------------------------------------------------------------
(* Sequences: prefixes, what is left after them, and the reverse.           *)

(* A prefix is what its length cuts off.                                    *)
LEMMA PrefixIs ==
  ASSUME NEW T, NEW p \in Seq(T), NEW q \in Seq(T)
  PROVE  IsPrefix(p, q) <=> Len(p) <= Len(q) /\ p = SubSeq(q, 1, Len(p))
<1>1. SubSeq(p, 1, Len(p)) = p
  BY SubSeqFull
<1> QED
  BY <1>1 DEF IsPrefix

(* A prefix agrees with the whole at every place it has.                    *)
LEMMA PrefixEach ==
  ASSUME NEW T, NEW p \in Seq(T), NEW q \in Seq(T)
  PROVE  IsPrefix(p, q) <=> Len(p) <= Len(q) /\ \A i \in 1 .. Len(p) : p[i] = q[i]
<1>1. CASE Len(p) <= Len(q)
  <2>1. PICK s : s = SubSeq(q, 1, Len(p))
    OBVIOUS
  <2>2. s \in Seq(T) /\ Len(s) = Len(p) /\ \A i \in 1 .. Len(p) : s[i] = q[i]
    BY <1>1, <2>1
  <2>3. p = s <=> \A i \in 1 .. Len(p) : p[i] = s[i]
    BY <2>2, SeqEqual
  <2> QED
    BY <1>1, <2>1, <2>2, <2>3, PrefixIs
<1>2. CASE ~(Len(p) <= Len(q))
  BY <1>2, PrefixIs
<1> QED
  BY <1>1, <1>2

(* A concatenation, place by place.                                         *)
LEMMA ConcatIs ==
  ASSUME NEW h \in Seq(Chars), NEW t \in Seq(Chars)
  PROVE  /\ h \o t \in Seq(Chars) /\ Len(h \o t) = Len(h) + Len(t)
         /\ \A n \in 1 .. Len(h) : (h \o t)[n] = h[n]
         /\ \A n \in 1 .. Len(t) : (h \o t)[Len(h) + n] = t[n]
OBVIOUS

(* Where one sequence begins another, so does what follows the first of each. *)
LEMMA HeadAndRest ==
  ASSUME NEW T, NEW h \in T, NEW s \in Seq(T), NEW g \in T, NEW t \in Seq(T),
         IsPrefix(<<h>> \o s, <<g>> \o t)
  PROVE  h = g /\ IsPrefix(s, t)
<1>1. PICK u, v : u = <<h>> \o s /\ v = <<g>> \o t
  OBVIOUS
<1>2. /\ u \in Seq(T) /\ Len(u) = 1 + Len(s) /\ u[1] = h /\ \A i \in 1 .. Len(s) : u[1 + i] = s[i]
      /\ v \in Seq(T) /\ Len(v) = 1 + Len(t) /\ v[1] = g /\ \A i \in 1 .. Len(t) : v[1 + i] = t[i]
      /\ Len(s) \in Nat /\ Len(t) \in Nat
  <2>1. <<h>> \in Seq(T) /\ <<g>> \in Seq(T) /\ Len(s) \in Nat /\ Len(t) \in Nat
    OBVIOUS
  <2>2. u \in Seq(T) /\ Len(u) = 1 + Len(s) /\ u[1] = h /\ \A i \in 1 .. Len(s) : u[1 + i] = s[i]
    BY <1>1, <2>1
  <2>3. v \in Seq(T) /\ Len(v) = 1 + Len(t) /\ v[1] = g /\ \A i \in 1 .. Len(t) : v[1 + i] = t[i]
    BY <1>1, <2>1
  <2> QED
    BY <2>1, <2>2, <2>3
<1>3. Len(u) <= Len(v) /\ \A i \in 1 .. Len(u) : u[i] = v[i]
  <2>1. u \in Seq(T) /\ v \in Seq(T) /\ IsPrefix(u, v)
    BY <1>1, <1>2
  <2> QED
    BY <2>1, PrefixEach
<1>4. Len(s) <= Len(t)
  BY <1>2, <1>3
<1>5. ASSUME NEW i \in 1 .. Len(s)
      PROVE  s[i] = t[i]
  <2>1. 1 + i \in 1 .. Len(u) /\ i \in 1 .. Len(t)
    BY <1>2, <1>4
  <2> QED
    BY <1>2, <1>3, <2>1
<1>6. h = g
  <2>1. 1 \in 1 .. Len(u)
    BY <1>2
  <2> QED
    BY <1>2, <1>3, <2>1
<1> QED
  BY <1>4, <1>5, <1>6, PrefixEach

(* What After leaves: the places behind the n-th, in order.                 *)
LEMMA AfterIs ==
  ASSUME NEW T, NEW seq \in Seq(T), NEW n \in 0 .. Len(seq)
  PROVE  /\ After(seq, n) \in Seq(T) /\ Len(After(seq, n)) = Len(seq) - n
         /\ \A k \in 1 .. Len(seq) - n : After(seq, n)[k] = seq[n + k]
BY DEF After

(* Reverse, from either end.                                                *)
LEMMA ReverseIs ==
  ASSUME NEW T, NEW s \in Seq(T)
  PROVE  /\ Reverse(s) \in Seq(T) /\ Len(Reverse(s)) = Len(s) /\ Len(s) \in Nat
         /\ \A k \in 1 .. Len(s) : Len(s) + 1 - k \in 1 .. Len(s)
                                   /\ Reverse(s)[Len(s) + 1 - k] = s[k]
                                   /\ Reverse(s)[k] = s[Len(s) + 1 - k]
<1>1. Len(s) \in Nat
  OBVIOUS
<1>2. PICK n : n = Len(s)
  OBVIOUS
<1>3. \A k \in 1 .. n : n - k + 1 \in 1 .. n /\ s[n - k + 1] \in T
  BY <1>1, <1>2
<1>4. PICK r : r = [k \in 1 .. n |-> s[n - k + 1]]
  OBVIOUS
<1>5. r = Reverse(s)
  BY <1>2, <1>4 DEF Reverse
<1>6. r \in Seq(T) /\ Len(r) = n
  BY <1>1, <1>2, <1>3, <1>4
<1>7. \A k \in 1 .. n : n + 1 - k \in 1 .. n /\ r[n + 1 - k] = s[k] /\ r[k] = s[n + 1 - k]
  <2> SUFFICES ASSUME NEW k \in 1 .. n
               PROVE  n + 1 - k \in 1 .. n /\ r[n + 1 - k] = s[k] /\ r[k] = s[n + 1 - k]
    OBVIOUS
  <2>1. n + 1 - k \in 1 .. n /\ n - (n + 1 - k) + 1 = k /\ n - k + 1 = n + 1 - k
    BY <1>1, <1>2
  <2> QED
    BY <1>4, <2>1
<1> QED
  BY <1>1, <1>2, <1>5, <1>6, <1>7

-----------------------------------------------------------------------------
(* split_segments_: every character is read once, from the front.           *)
Texts == Seq(Chars)
TextLists == Seq(Texts)
Reads == [segs : Seq(Texts), cur : Texts]

Nothing == [segs |-> << >>, cur |-> << >>]

(* One character more keeps what was read of the right kind.                *)
LEMMA ReadIsRead ==
  ASSUME NEW r \in Reads, NEW ch \in Chars
  PROVE  Read(r, ch) \in Reads
<1>1. r.segs \in Seq(Texts) /\ r.cur \in Texts
  BY DEF Reads
<1>2. Ended(r) \in Seq(Texts)
  BY <1>1 DEF Ended
<1>3. Append(r.cur, ch) \in Texts /\ << >> \in Texts
  BY <1>1 DEF Texts
<1> QED
  BY <1>1, <1>2, <1>3 DEF Read, Reads

(* Reading is the function its definition describes.                        *)
LEMMA ReadingIs ==
  ASSUME NEW text \in Seq(Chars)
  PROVE  /\ Reading(text) \in [0 .. Len(text) -> Reads]
         /\ Reading(text)[0] = Nothing
         /\ \A n \in 1 .. Len(text) : Reading(text)[n] = Read(Reading(text)[n - 1], text[n])
<1> DEFINE len == Len(text)
           step == [n \in 1 .. len |-> [r \in Reads |-> Read(r, text[n])]]
<1>1. len \in Nat /\ Nothing \in Reads
  BY DEF Reads, Nothing, Texts
<1>2. step \in [1 .. len -> [Reads -> Reads]]
  BY ReadIsRead
<1>3. PICK f \in [0 .. len -> Reads] : f[0] = Nothing /\ \A n \in 1 .. len : f[n] = step[n][f[n - 1]]
  <2> HIDE DEF step, len
  <2> QED
    BY <1>1, <1>2, Iterates
<1>4. \A n \in 1 .. len : f[n - 1] \in Reads /\ f[n] = Read(f[n - 1], text[n])
  <2>1. \A n \in 1 .. len : f[n - 1] \in Reads
    BY <1>1
  <2> QED
    BY <1>3, <2>1
<1>5. f = [n \in 0 .. len |-> IF n = 0 THEN Nothing ELSE Read(f[n - 1], text[n])]
  BY <1>1, <1>3, <1>4
<1>6. Reading(text) = CHOOSE g : g = [n \in 0 .. len |-> IF n = 0 THEN Nothing ELSE Read(g[n - 1], text[n])]
  BY DEF Reading, Nothing
<1>7. PICK g : g = Reading(text)
  OBVIOUS
<1>8. g = [n \in 0 .. len |-> IF n = 0 THEN Nothing ELSE Read(g[n - 1], text[n])]
  <2> HIDE DEF len
  <2> QED
    BY <1>5, <1>6, <1>7
<1>9. /\ DOMAIN g = 0 .. len /\ g[0] = Nothing
      /\ \A n \in 1 .. len : g[n] = Read(g[n - 1], text[n])
  BY <1>1, <1>8
<1>10. \A n \in 0 .. len : g[n] \in Reads
  <2> DEFINE S == {n \in Nat : n <= len => g[n] \in Reads}
  <2>1. 0 \in S
    BY <1>1, <1>9
  <2>2. ASSUME NEW n \in Nat, n \in S
        PROVE  n + 1 \in S
    <3> SUFFICES ASSUME n + 1 <= len
                 PROVE  g[n + 1] \in Reads
      OBVIOUS
    <3>1. n + 1 \in 1 .. len /\ text[n + 1] \in Chars /\ g[n] \in Reads
      BY <1>1, <2>2
    <3>2. g[n + 1] = Read(g[n], text[n + 1])
      BY <1>9, <3>1
    <3> QED
      BY <3>1, <3>2, ReadIsRead
  <2> HIDE DEF S
  <2>3. Nat \subseteq S
    BY <2>1, <2>2, Counting
  <2> QED
    BY <1>1, <2>3 DEF S
<1>11. g \in [0 .. len -> Reads]
  BY <1>8, <1>9, <1>10
<1> QED
  BY <1>7, <1>9, <1>11

(* A text splits into texts.                                                *)
LEMMA SplitIs ==
  ASSUME NEW text \in Seq(Chars)
  PROVE  Split(text) \in Seq(Texts) /\ Len(Split(text)) \in Nat
<1>1. Reading(text)[Len(text)] \in Reads
  BY ReadingIs
<1> QED
  BY <1>1 DEF Split, Ended, Reads

(* The same for every place of a text.                                      *)
LEMMA ReadingAt ==
  ASSUME NEW text \in Texts
  PROVE  /\ Len(text) \in Nat /\ Reading(text)[0] = Nothing /\ Split(text) \in Seq(Texts)
         /\ \A n \in 0 .. Len(text) : Reading(text)[n] \in Reads
         /\ \A n \in 1 .. Len(text) : Reading(text)[n] = Read(Reading(text)[n - 1], text[n])
<1>1. text \in Seq(Chars)
  BY DEF Texts
<1> QED
  BY <1>1, ReadingIs, SplitIs

(* Appending to a concatenation appends to its second part.                 *)
LEMMA AppendAfter ==
  \A s, t \in Seq(Texts) : \A e \in Texts : Append(s \o t, e) = s \o Append(t, e)
OBVIOUS

(* What was read of n characters depends on no other.                       *)
LEMMA ReadingAgrees ==
  ASSUME NEW p \in Texts, NEW q \in Texts, NEW n \in Nat, n <= Len(p), n <= Len(q),
         \A i \in 1 .. n : p[i] = q[i]
  PROVE  Reading(p)[n] = Reading(q)[n]
<1> DEFINE S == {k \in Nat : k <= n => Reading(p)[k] = Reading(q)[k]}
<1>1. 0 \in S
  BY ReadingIs DEF Texts
<1>2. ASSUME NEW k \in Nat, k \in S
      PROVE  k + 1 \in S
  <2> SUFFICES ASSUME k + 1 <= n
               PROVE  Reading(p)[k + 1] = Reading(q)[k + 1]
    OBVIOUS
  <2>1. k + 1 \in 1 .. Len(p) /\ k + 1 \in 1 .. Len(q) /\ k + 1 \in 1 .. n /\ (k + 1) - 1 = k
    BY DEF Texts
  <2>2. /\ Reading(p)[k + 1] = Read(Reading(p)[k], p[k + 1])
        /\ Reading(q)[k + 1] = Read(Reading(q)[k], q[k + 1])
    BY <2>1, ReadingIs DEF Texts
  <2>3. Reading(p)[k] = Reading(q)[k] /\ p[k + 1] = q[k + 1]
    BY <1>2, <2>1
  <2> QED
    BY <2>2, <2>3
<1> HIDE DEF S
<1>3. Nat \subseteq S
  BY <1>1, <1>2, Counting
<1> QED
  BY <1>3 DEF S

(* Where no segment is open, reading goes on as from the beginning.         *)
LEMMA ReadingGoesOn ==
  ASSUME NEW text \in Texts, NEW a \in 0 .. Len(text), Reading(text)[a].cur = << >>,
         NEW k \in 0 .. Len(text) - a
  PROVE  Reading(text)[a + k] = [segs |-> Reading(text)[a].segs \o Reading(After(text, a))[k].segs,
                                 cur |-> Reading(After(text, a))[k].cur]
<1> DEFINE rest == After(text, a)
           head == Reading(text)[a].segs
           On(j) == [segs |-> head \o Reading(rest)[j].segs, cur |-> Reading(rest)[j].cur]
           S == {j \in Nat : j <= Len(text) - a => Reading(text)[a + j] = On(j)}
<1>1. Len(text) \in Nat /\ rest \in Texts /\ Len(rest) = Len(text) - a
  BY AfterIs DEF Texts
<1>2. /\ \A j \in 0 .. Len(text) : Reading(text)[j] \in Reads
      /\ \A j \in 0 .. Len(rest) : Reading(rest)[j] \in Reads
  BY <1>1, ReadingIs DEF Texts
<1>3. head \in Seq(Texts)
  BY <1>2 DEF Reads
<1>4. 0 \in S
  <2>1. On(0) = [segs |-> head \o << >>, cur |-> << >>]
    <3>1. Reading(rest)[0] = Nothing
      BY <1>1, ReadingAt
    <3> HIDE DEF rest, head
    <3> QED
      BY <3>1 DEF Nothing
  <2>2. head \o << >> = head
    BY <1>3, ConcatEmptySeq
  <2>3. Reading(text)[a] = [segs |-> head, cur |-> << >>]
    BY <1>2 DEF Reads
  <2> HIDE DEF On
  <2> QED
    BY <2>1, <2>2, <2>3
<1>5. ASSUME NEW j \in Nat, j \in S
      PROVE  j + 1 \in S
  <2> SUFFICES ASSUME j + 1 <= Len(text) - a
               PROVE  Reading(text)[a + j + 1] = On(j + 1)
    BY <1>1
  <2>1. PICK ch, r : ch = text[a + j + 1] /\ r = Reading(rest)[j]
    OBVIOUS
  <2>2. /\ a + j + 1 \in 1 .. Len(text) /\ j + 1 \in 1 .. Len(rest) /\ j \in 0 .. Len(rest)
        /\ (a + j + 1) - 1 = a + j /\ (j + 1) - 1 = j /\ a + (j + 1) = a + j + 1
    BY <1>1
  <2>3. rest[j + 1] = ch
    <3>1. \A i \in 1 .. Len(text) - a : rest[i] = text[a + i]
      BY AfterIs DEF Texts
    <3>2. j + 1 \in 1 .. Len(text) - a
      BY <1>1, <2>2
    <3> QED
      BY <2>1, <2>2, <3>1, <3>2
  <2>4. Reading(text)[a + j + 1] = Read(Reading(text)[a + j], ch)
    BY <2>1, <2>2, ReadingAt
  <2>5. Reading(rest)[j + 1] = Read(r, ch)
    BY <1>1, <2>1, <2>2, <2>3, ReadingAt
  <2>6. Reading(text)[a + j] = [segs |-> head \o r.segs, cur |-> r.cur]
    BY <1>5, <2>1
  <2>7. r \in Reads
    BY <1>2, <2>1, <2>2
  <2>8. Read([segs |-> head \o r.segs, cur |-> r.cur], ch)
          = [segs |-> head \o Read(r, ch).segs, cur |-> Read(r, ch).cur]
    <3>1. r.segs \in Seq(Texts) /\ r.cur \in Texts
      BY <2>7 DEF Reads
    <3> HIDE DEF head
    <3>2. Append(head \o r.segs, r.cur) = head \o Append(r.segs, r.cur)
      BY <1>3, <3>1, AppendAfter
    <3> QED
      BY <3>2 DEF Read, Ended
  <2> QED
    BY <2>4, <2>5, <2>6, <2>8
<1> HIDE DEF S
<1>6. Nat \subseteq S
  BY <1>4, <1>5, Counting
<1>7. k \in S /\ k <= Len(text) - a
  BY <1>1, <1>6
<1> QED
  BY <1>7 DEF S

(* A slash ends what is before it: the segments of a text are those before  *)
(* the slash and those after it.                                            *)
LEMMA SplitAtSlash ==
  ASSUME NEW text \in Texts, NEW a \in 1 .. Len(text), text[a] = Slash
  PROVE  Split(text) = Split(SubSeq(text, 1, a - 1)) \o Split(After(text, a))
<1>1. PICK p, rest : p = SubSeq(text, 1, a - 1) /\ rest = After(text, a)
  OBVIOUS
<1>2. /\ Len(text) \in Nat /\ p \in Texts /\ Len(p) = a - 1 /\ \A i \in 1 .. a - 1 : p[i] = text[i]
      /\ rest \in Texts /\ Len(rest) = Len(text) - a
  <2>1. text \in Seq(Chars) /\ Len(text) \in Nat
    BY DEF Texts
  <2>2. p \in Seq(Chars) /\ Len(p) = a - 1 /\ \A i \in 1 .. a - 1 : p[i] = text[i]
    BY <1>1, <2>1
  <2>3. rest \in Seq(Chars) /\ Len(rest) = Len(text) - a
    <3>1. a \in 0 .. Len(text)
      BY <2>1
    <3> QED
      BY <1>1, <2>1, <3>1, AfterIs
  <2> QED
    BY <2>1, <2>2, <2>3 DEF Texts
<1>3. Reading(text)[a - 1] = Reading(p)[a - 1]
  <2>1. a - 1 \in Nat /\ a - 1 <= Len(p) /\ a - 1 <= Len(text)
    BY <1>2
  <2> QED
    BY <1>2, <2>1, ReadingAgrees
<1>4. Reading(text)[a] = [segs |-> Split(p), cur |-> << >>]
  <2>1. Reading(text)[a] = Read(Reading(text)[a - 1], Slash)
    BY ReadingAt
  <2> QED
    BY <1>2, <1>3, <2>1 DEF Read, Split
<1>5. Reading(text)[Len(text)] = [segs |-> Split(p) \o Reading(rest)[Len(rest)].segs,
                                  cur |-> Reading(rest)[Len(rest)].cur]
  <2>1. /\ Len(rest) \in 0 .. Len(text) - a /\ a \in 0 .. Len(text) /\ a + Len(rest) = Len(text)
    BY <1>2
  <2>2. Reading(text)[a].cur = << >> /\ Reading(text)[a].segs = Split(p)
    BY <1>4
  <2> QED
    BY <1>1, <2>1, <2>2, ReadingGoesOn
<1>6. PICK r : r = Reading(rest)[Len(rest)]
  OBVIOUS
<1>7. r \in Reads /\ Split(p) \in Seq(Texts)
  BY <1>2, <1>6, ReadingAt
<1>8. Append(Split(p) \o r.segs, r.cur) = Split(p) \o Append(r.segs, r.cur)
  <2>1. r.segs \in Seq(Texts) /\ r.cur \in Texts
    BY <1>7 DEF Reads
  <2> QED
    BY <1>7, <2>1, AppendAfter
<1>9. Split(text) = Split(p) \o Ended(r)
  <2>1. Split(text) = Ended([segs |-> Split(p) \o r.segs, cur |-> r.cur])
    BY <1>5, <1>6 DEF Split
  <2> HIDE DEF Split
  <2> QED
    BY <1>8, <2>1 DEF Ended
<1> QED
  BY <1>1, <1>6, <1>9 DEF Split

(* Slashes alone are no segment.                                            *)
LEMMA SlashesSplit ==
  ASSUME NEW text \in Texts, \A i \in 1 .. Len(text) : text[i] = Slash
  PROVE  Split(text) = << >>
<1> DEFINE S == {n \in Nat : n <= Len(text) => Reading(text)[n] = Nothing}
<1>1. 0 \in S
  BY ReadingIs DEF Texts
<1>2. ASSUME NEW n \in Nat, n \in S
      PROVE  n + 1 \in S
  <2> SUFFICES ASSUME n + 1 <= Len(text)
               PROVE  Reading(text)[n + 1] = Nothing
    OBVIOUS
  <2>1. n + 1 \in 1 .. Len(text) /\ (n + 1) - 1 = n /\ n <= Len(text)
    BY DEF Texts
  <2>2. Reading(text)[n + 1] = Read(Nothing, Slash)
    BY <1>2, <2>1, ReadingIs DEF Texts
  <2> QED
    BY <2>2 DEF Read, Nothing, Ended
<1> HIDE DEF S
<1>3. Nat \subseteq S
  BY <1>1, <1>2, Counting
<1>4. Len(text) \in S /\ Len(text) \in Nat
  BY <1>3 DEF Texts
<1> QED
  BY <1>4 DEF S, Split, Ended, Nothing

(* A text without a slash is its own only segment.                          *)
LEMMA SegmentSplit ==
  ASSUME NEW text \in Texts, text # << >>, \A i \in 1 .. Len(text) : text[i] # Slash
  PROVE  Split(text) = <<text>>
<1> DEFINE S == {n \in Nat : n <= Len(text) =>
                   Reading(text)[n] = [segs |-> << >>, cur |-> SubSeq(text, 1, n)]}
<1>1. 0 \in S
  <2>1. SubSeq(text, 1, 0) = << >>
    BY DEF Texts
  <2> QED
    BY <2>1, ReadingIs DEF Texts, Nothing
<1>2. ASSUME NEW n \in Nat, n \in S
      PROVE  n + 1 \in S
  <2> SUFFICES ASSUME n + 1 <= Len(text)
               PROVE  Reading(text)[n + 1] = [segs |-> << >>, cur |-> SubSeq(text, 1, n + 1)]
    OBVIOUS
  <2>1. n + 1 \in 1 .. Len(text) /\ (n + 1) - 1 = n /\ n <= Len(text)
    BY DEF Texts
  <2>2. Reading(text)[n + 1] = Read([segs |-> << >>, cur |-> SubSeq(text, 1, n)], text[n + 1])
    BY <1>2, <2>1, ReadingIs DEF Texts
  <2>3. Append(SubSeq(text, 1, n), text[n + 1]) = SubSeq(text, 1, n + 1)
    BY <2>1 DEF Texts
  <2> QED
    BY <2>1, <2>2, <2>3 DEF Read
<1> HIDE DEF S
<1>3. Nat \subseteq S
  BY <1>1, <1>2, Counting
<1>4. Len(text) \in S /\ Len(text) \in Nat
  BY <1>3 DEF Texts
<1>5. SubSeq(text, 1, Len(text)) = text
  BY SubSeqFull DEF Texts
<1>6. Reading(text)[Len(text)] = [segs |-> << >>, cur |-> text]
  BY <1>4, <1>5 DEF S
<1> QED
  BY <1>6 DEF Split, Ended

(* A text with no slash at an end and nowhere two together.                 *)
Plain(text) ==
  /\ text \in Texts
  /\ text = << >> \/ (text[1] # Slash /\ text[Len(text)] # Slash)
  /\ \A n \in 1 .. Len(text) - 1 : ~(text[n] = Slash /\ text[n + 1] = Slash)

(* What is trimmed off: nothing is left, or what is left ends in no slash.  *)
LEMMA TrimIs ==
  ASSUME NEW text \in Texts
  PROVE  \/ Trim(text) = << >> /\ \A i \in 1 .. Len(text) : text[i] = Slash
         \/ \E a, b \in 1 .. Len(text) :
              /\ a <= b /\ Trim(text) = SubSeq(text, a, b)
              /\ text[a] # Slash /\ text[b] # Slash
              /\ \A i \in 1 .. a - 1 : text[i] = Slash
              /\ \A i \in b + 1 .. Len(text) : text[i] = Slash
<1> DEFINE inner == {i \in 1 .. Len(text) : text[i] # Slash}
<1>0. Len(text) \in Nat
  BY DEF Texts
<1>1. CASE inner = {}
  BY <1>1 DEF Trim
<1>2. CASE inner # {}
  <2>1. inner \in SUBSET Nat /\ inner \in SUBSET (1 .. Len(text))
    BY <1>0
  <2>2. \E a \in inner : \A i \in inner : a <= i
    <3> HIDE DEF inner
    <3> QED
      BY <1>2, <2>1, LeastOf
  <2>3. \E b \in inner : \A i \in inner : i <= b
    <3> HIDE DEF inner
    <3> QED
      BY <1>0, <1>2, <2>1, GreatestOf
  <2>4. /\ Min(inner) \in inner /\ \A i \in inner : Min(inner) <= i
        /\ Max(inner) \in inner /\ \A i \in inner : i <= Max(inner)
    <3> HIDE DEF inner
    <3>1. Min(inner) \in inner /\ \A i \in inner : Min(inner) <= i
      BY <2>2 DEF Min
    <3>2. \E b \in inner : \A i \in inner : b >= i
      BY <2>1, <2>3
    <3>3. Max(inner) \in inner /\ \A i \in inner : Max(inner) >= i
      BY <3>2 DEF Max
    <3> QED
      BY <2>1, <3>1, <3>3
  <2>5. PICK a, b : a = Min(inner) /\ b = Max(inner)
    OBVIOUS
  <2>6. Trim(text) = SubSeq(text, a, b)
    BY <1>2, <2>5 DEF Trim
  <2>7. a \in 1 .. Len(text) /\ b \in 1 .. Len(text) /\ a <= b /\ text[a] # Slash /\ text[b] # Slash
    BY <2>4, <2>5
  <2>8. \A i \in 1 .. Len(text) : i < a \/ i > b => text[i] = Slash
    BY <1>0, <2>4, <2>5, <2>7
  <2>9. /\ \A i \in 1 .. a - 1 : i \in 1 .. Len(text) /\ i < a
        /\ \A i \in b + 1 .. Len(text) : i \in 1 .. Len(text) /\ i > b
    BY <1>0, <2>7
  <2> QED
    BY <2>6, <2>7, <2>8, <2>9
<1> QED
  BY <1>1, <1>2

(* A part of a text is a text.                                              *)
LEMMA PartIs ==
  ASSUME NEW text \in Texts, NEW a \in 1 .. Len(text), NEW b \in a .. Len(text)
  PROVE  /\ SubSeq(text, a, b) \in Texts /\ Len(SubSeq(text, a, b)) = b - a + 1
         /\ \A i \in 1 .. b - a + 1 : SubSeq(text, a, b)[i] = text[a + i - 1]
BY DEF Texts

(* Trimming takes no segment.                                               *)
LEMMA TrimKeepsSegments ==
  ASSUME NEW text \in Texts
  PROVE  Trim(text) \in Texts /\ Split(Trim(text)) = Split(text)
<1>0. Len(text) \in Nat /\ << >> \in Texts /\ Split(<< >>) = << >>
  <2>1. << >> \in Texts /\ \A i \in 1 .. Len(<< >>) : << >>[i] = Slash
    BY DEF Texts
  <2>2. Len(text) \in Nat
    BY DEF Texts
  <2> QED
    BY <2>1, <2>2, SlashesSplit
<1>1. CASE Trim(text) = << >> /\ \A i \in 1 .. Len(text) : text[i] = Slash
  BY <1>0, <1>1, SlashesSplit
<1>2. ASSUME NEW a \in 1 .. Len(text), NEW b \in 1 .. Len(text),
             a <= b, Trim(text) = SubSeq(text, a, b),
             \A i \in 1 .. a - 1 : text[i] = Slash,
             \A i \in b + 1 .. Len(text) : text[i] = Slash
      PROVE  Trim(text) \in Texts /\ Split(Trim(text)) = Split(text)
  <2>1. PICK u, v : u = SubSeq(text, 1, b) /\ v = SubSeq(text, a, b)
    OBVIOUS
  <2>2. /\ u \in Texts /\ v \in Texts /\ Len(u) = b
        /\ \A i \in 1 .. b : u[i] = text[i]
    BY <1>0, <1>2, <2>1, PartIs
  <2>3. Split(text) = Split(u)
    <3>1. CASE b = Len(text)
      BY <2>1, <3>1, SubSeqFull DEF Texts
    <3>2. CASE b < Len(text)
      <4>1. b + 1 \in 1 .. Len(text) /\ text[b + 1] = Slash /\ (b + 1) - 1 = b
        BY <1>0, <1>2, <3>2
      <4>2. Split(text) = Split(u) \o Split(After(text, b + 1))
        BY <2>1, <4>1, SplitAtSlash
      <4>3. /\ After(text, b + 1) \in Texts
            /\ \A i \in 1 .. Len(After(text, b + 1)) : After(text, b + 1)[i] = Slash
        <5>1. PICK c, t : c = b + 1 /\ t = After(text, c)
          OBVIOUS
        <5>2. c \in 0 .. Len(text)
          BY <1>0, <4>1, <5>1
        <5>3. t \in Texts /\ Len(t) = Len(text) - c /\ \A i \in 1 .. Len(text) - c : t[i] = text[c + i]
          BY <5>1, <5>2, AfterIs DEF Texts
        <5>4. \A i \in 1 .. Len(text) - c : c + i \in b + 1 .. Len(text)
          BY <1>0, <5>1, <5>2
        <5> QED
          BY <1>2, <5>1, <5>3, <5>4
      <4>4. Split(After(text, b + 1)) = << >>
        BY <4>3, SlashesSplit
      <4>5. Split(u) \in Seq(Texts)
        BY <2>2, ReadingAt
      <4> QED
        BY <4>2, <4>4, <4>5, ConcatEmptySeq
    <3> QED
      BY <1>0, <3>1, <3>2
  <2>4. Split(u) = Split(v)
    <3>1. CASE a = 1
      BY <2>1, <3>1
    <3>2. CASE a > 1
      <4>1. a - 1 \in 1 .. Len(u) /\ u[a - 1] = Slash
        BY <1>0, <1>2, <2>2, <3>2
      <4>2. Split(u) = Split(SubSeq(u, 1, (a - 1) - 1)) \o Split(After(u, a - 1))
        BY <2>2, <4>1, SplitAtSlash
      <4>3. After(u, a - 1) = v
        BY <1>0, <1>2, <2>1, <2>2, <4>1 DEF After, Texts
      <4>4. /\ SubSeq(u, 1, (a - 1) - 1) \in Texts
            /\ \A i \in 1 .. Len(SubSeq(u, 1, (a - 1) - 1)) : SubSeq(u, 1, (a - 1) - 1)[i] = Slash
        <5>1. PICK c, t : c = (a - 1) - 1 /\ t = SubSeq(u, 1, c)
          OBVIOUS
        <5>2. c \in Nat /\ c <= Len(u) /\ c <= a - 1 /\ c <= b
          BY <1>0, <1>2, <2>2, <4>1, <5>1
        <5>3. t \in Texts /\ Len(t) = c /\ \A i \in 1 .. c : t[i] = u[i]
          BY <2>2, <5>1, <5>2 DEF Texts
        <5>4. \A i \in 1 .. c : i \in 1 .. a - 1 /\ i \in 1 .. b
          BY <1>0, <5>2
        <5> QED
          BY <1>2, <2>2, <5>1, <5>3, <5>4
      <4>5. Split(SubSeq(u, 1, (a - 1) - 1)) = << >>
        BY <4>4, SlashesSplit
      <4>6. Split(v) \in Seq(Texts)
        BY <2>2, ReadingAt
      <4> QED
        BY <4>2, <4>3, <4>5, <4>6, ConcatEmptySeq
    <3> QED
      BY <3>1, <3>2
  <2> QED
    BY <1>2, <2>1, <2>2, <2>3, <2>4
<1> QED
  BY <1>1, <1>2, TrimIs

(* What trimming leaves of a text with no empty segment inside is plain.    *)
LEMMA CanonicalIsPlain ==
  ASSUME NEW text \in Texts, Canonical(text)
  PROVE  Plain(Trim(text))
<1>1. PICK t : t = Trim(text)
  OBVIOUS
<1>2. t \in Texts /\ Len(t) \in Nat
  BY <1>1, TrimKeepsSegments, ReadingAt
<1>3. ASSUME NEW n \in 1 .. Len(t) - 1, t[n] = Slash, t[n + 1] = Slash
      PROVE  FALSE
  <2>1. SubSeq(t, n, n + 1) # <<Slash, Slash>>
    BY <1>1 DEF Canonical
  <2>2. SubSeq(t, n, n + 1) = <<Slash, Slash>>
    <3>1. n \in 1 .. Len(t) /\ n + 1 \in n .. Len(t) /\ (n + 1) - n + 1 = 2
      BY <1>2
    <3>2. PICK s : s = SubSeq(t, n, n + 1)
      OBVIOUS
    <3>3. s \in Seq(Chars) /\ Len(s) = 2 /\ \A i \in 1 .. 2 : s[i] = t[n + i - 1]
      BY <1>2, <3>1, <3>2, PartIs DEF Texts
    <3>4. s[1] = Slash /\ s[2] = Slash
      BY <1>2, <1>3, <3>3
    <3>5. s = <<s[1], s[2]>>
      BY <3>3
    <3> QED
      BY <3>2, <3>4, <3>5
  <2> QED
    BY <2>1, <2>2
<1>4. t = << >> \/ (t[1] # Slash /\ t[Len(t)] # Slash)
  <2>1. ASSUME NEW a \in 1 .. Len(text), NEW b \in 1 .. Len(text), a <= b,
               t = SubSeq(text, a, b), text[a] # Slash, text[b] # Slash
        PROVE  t[1] # Slash /\ t[Len(t)] # Slash
    BY <2>1, PartIs DEF Texts
  <2> QED
    BY <1>1, <2>1, TrimIs
<1> QED
  BY <1>1, <1>2, <1>3, <1>4 DEF Plain

(* Trimming a plain text leaves it.                                         *)
LEMMA PlainIsTrimmed ==
  ASSUME NEW text, Plain(text)
  PROVE  Trim(text) = text
<1>1. text \in Texts /\ Len(text) \in Nat
  BY DEF Plain, Texts
<1>2. CASE text = << >>
  BY <1>2 DEF Trim
<1>3. CASE text # << >>
  <2>1. Len(text) \in 1 .. Len(text) /\ 1 \in 1 .. Len(text)
    BY <1>1, <1>3 DEF Texts
  <2>2. text[1] # Slash /\ text[Len(text)] # Slash
    BY <1>3 DEF Plain
  <2>3. ASSUME NEW a \in 1 .. Len(text), NEW b \in 1 .. Len(text),
               Trim(text) = SubSeq(text, a, b),
               \A i \in 1 .. a - 1 : text[i] = Slash,
               \A i \in b + 1 .. Len(text) : text[i] = Slash
        PROVE  Trim(text) = text
    <3>1. a = 1 /\ b = Len(text)
      BY <1>1, <2>1, <2>2, <2>3
    <3> QED
      BY <2>3, <3>1, <1>1, SubSeqFull DEF Texts
  <2> QED
    BY <1>1, <2>1, <2>2, <2>3, TrimIs
<1> QED
  BY <1>2, <1>3

(* A text begins another where a segment of it ends.                        *)
Begins(p, q) ==
  IsPrefix(p, q) /\ (p = << >> \/ Len(p) = Len(q) \/ q[Len(p) + 1] = Slash)

(* What every text is.                                                      *)
LEMMA TextsAre ==
  ASSUME NEW text \in Texts
  PROVE  /\ text \in Seq(Chars) /\ Len(text) \in Nat
         /\ Split(text) \in Seq(Texts) /\ Len(Split(text)) \in Nat
         /\ text = << >> <=> Len(text) = 0
BY SplitIs DEF Texts

(* The empty text has no segment.                                           *)
LEMMA EmptySplits ==
  << >> \in Texts /\ Split(<< >>) = << >>
<1>1. << >> \in Texts /\ \A i \in 1 .. Len(<< >>) : << >>[i] = Slash
  BY DEF Texts
<1> QED
  BY <1>1, SlashesSplit

(* What follows a slash of a plain text is plain, and there is some.        *)
LEMMA AfterIsPlain ==
  ASSUME NEW text, Plain(text), NEW a \in 1 .. Len(text), text[a] = Slash
  PROVE  a < Len(text) /\ a > 1 /\ Plain(After(text, a)) /\ After(text, a) # << >>
<1>1. text \in Texts /\ text \in Seq(Chars) /\ Len(text) \in Nat
  BY TextsAre DEF Plain
<1>2. a < Len(text) /\ a > 1
  BY <1>1, TextsAre DEF Plain
<1>3. PICK t, n : t = After(text, a) /\ n = Len(text) - a
  OBVIOUS
<1>4. /\ n \in Nat \ {0} /\ a \in 0 .. Len(text)
      /\ t \in Texts /\ Len(t) = n /\ \A k \in 1 .. n : t[k] = text[a + k]
  <2>1. n \in Nat \ {0} /\ a \in 0 .. Len(text)
    BY <1>1, <1>2, <1>3
  <2>2. t \in Seq(Chars) /\ Len(t) = n /\ \A k \in 1 .. n : t[k] = text[a + k]
    BY <1>1, <1>3, <2>1, AfterIs
  <2> QED
    BY <2>1, <2>2 DEF Texts
<1>5. ASSUME NEW k \in 1 .. n - 1, t[k] = Slash, t[k + 1] = Slash
      PROVE  FALSE
  <2>1. a + k \in 1 .. Len(text) - 1 /\ text[a + k] = Slash /\ text[(a + k) + 1] = Slash
    BY <1>1, <1>3, <1>4, <1>5
  <2> QED
    BY <2>1 DEF Plain
<1>6. t[1] # Slash
  <2>1. a \in 1 .. Len(text) - 1 /\ t[1] = text[a + 1]
    BY <1>1, <1>2, <1>4
  <2> QED
    BY <2>1 DEF Plain
<1>7. t[Len(t)] # Slash
  <2>1. t[Len(t)] = text[Len(text)] /\ text # << >>
    BY <1>1, <1>2, <1>3, <1>4
  <2> QED
    BY <2>1 DEF Plain
<1>8. t # << >>
  BY <1>4
<1> QED
  BY <1>2, <1>3, <1>4, <1>5, <1>6, <1>7, <1>8 DEF Plain

(* The first segment of a plain text ends before b; the rest are what the   *)
(* text after the slash splits into.                                        *)
FirstEnds(text, b, rest) ==
  /\ Split(text) = <<SubSeq(text, 1, b - 1)>> \o rest
  /\ b = Len(text) + 1 => rest = << >>
  /\ b <= Len(text) => text[b] = Slash /\ rest = Split(After(text, b))

(* Every plain text but the empty one has a first segment.                  *)
LEMMA FirstSegment ==
  ASSUME NEW text, Plain(text), text # << >>
  PROVE  \E b \in 2 .. Len(text) + 1 : \E rest \in Seq(Texts) : FirstEnds(text, b, rest)
<1>1. text \in Texts /\ text \in Seq(Chars) /\ Len(text) \in Nat /\ Len(text) # 0
  BY TextsAre DEF Plain
<1> DEFINE S == {i \in 1 .. Len(text) : text[i] = Slash}
<1>2. CASE S = {}
  <2>1. \A i \in 1 .. Len(text) : text[i] # Slash
    BY <1>2
  <2>2. Split(text) = <<text>>
    BY <1>1, <2>1, SegmentSplit
  <2>3. PICK b : b = Len(text) + 1
    OBVIOUS
  <2>4. b \in 2 .. Len(text) + 1 /\ ~(b <= Len(text))
    BY <1>1, <2>3
  <2>5. SubSeq(text, 1, b - 1) = text
    BY <1>1, <2>3, SubSeqFull
  <2>6. <<text>> \o << >> = <<text>> /\ << >> \in Seq(Texts)
    BY <1>1
  <2> QED
    BY <2>2, <2>4, <2>5, <2>6 DEF FirstEnds
<1>3. CASE S # {}
  <2>1. PICK b \in S : \A i \in S : b <= i
    <3>1. S \in SUBSET Nat
      BY <1>1
    <3> HIDE DEF S
    <3> QED
      BY <1>3, <3>1, LeastOf
  <2>2. b \in 1 .. Len(text) /\ text[b] = Slash
    OBVIOUS
  <2>3. \A i \in 1 .. b - 1 : text[i] # Slash
    BY <1>1, <2>1, <2>2
  <2>4. b > 1
    BY <2>2, AfterIsPlain
  <2>5. PICK head : head = SubSeq(text, 1, b - 1)
    OBVIOUS
  <2>6. head \in Texts /\ Len(head) = b - 1 /\ \A i \in 1 .. b - 1 : head[i] = text[i]
    BY <1>1, <2>2, <2>5 DEF Texts
  <2>7. Split(head) = <<head>>
    <3>1. head # << >> /\ \A i \in 1 .. Len(head) : head[i] # Slash
      BY <2>3, <2>4, <2>6
    <3> QED
      BY <2>6, <3>1, SegmentSplit
  <2>8. Split(text) = <<head>> \o Split(After(text, b))
    BY <1>1, <2>2, <2>5, <2>7, SplitAtSlash
  <2>9. b \in 2 .. Len(text) + 1 /\ b <= Len(text) /\ b # Len(text) + 1
    BY <1>1, <2>2, <2>4
  <2>10. Split(After(text, b)) \in Seq(Texts)
    <3>1. b \in 0 .. Len(text)
      BY <2>2
    <3>2. After(text, b) \in Texts
      BY <1>1, <3>1, AfterIs DEF Texts
    <3> QED
      BY <3>2, TextsAre
  <2> QED
    BY <2>2, <2>5, <2>8, <2>9, <2>10 DEF FirstEnds
<1> QED
  BY <1>2, <1>3

(* And so it has segments.                                                  *)
LEMMA PlainSplits ==
  ASSUME NEW text, Plain(text), text # << >>
  PROVE  Split(text) # << >>
<1>1. PICK b \in 2 .. Len(text) + 1 : \E rest \in Seq(Texts) : FirstEnds(text, b, rest)
  BY FirstSegment
<1>2. PICK rest \in Seq(Texts) : FirstEnds(text, b, rest)
  BY <1>1
<1>3. PICK head : head = SubSeq(text, 1, b - 1)
  OBVIOUS
<1>4. <<head>> \o rest # << >>
  OBVIOUS
<1> QED
  BY <1>2, <1>3, <1>4 DEF FirstEnds

(* A text that begins a plain one takes whole segments of it, and leaves    *)
(* the others to what follows.                                              *)
LEMMA BeginsTakesSegments ==
  ASSUME NEW p, NEW q, Plain(p), Plain(q), Begins(p, q)
  PROVE  \/ p = << >> /\ Split(p) = << >>
         \/ p = q
         \/ /\ Len(p) + 1 \in 1 .. Len(q) /\ q[Len(p) + 1] = Slash
            /\ Split(q) = Split(p) \o Split(After(q, Len(p) + 1))
<1>1. /\ p \in Texts /\ p \in Seq(Chars) /\ Len(p) \in Nat
      /\ q \in Texts /\ q \in Seq(Chars) /\ Len(q) \in Nat
  BY TextsAre DEF Plain
<1>2. Len(p) <= Len(q) /\ p = SubSeq(q, 1, Len(p)) /\ \A i \in 1 .. Len(p) : p[i] = q[i]
  BY <1>1, PrefixIs, PrefixEach DEF Begins
<1>3. CASE p = << >>
  BY <1>3, EmptySplits
<1>4. CASE Len(p) = Len(q)
  BY <1>1, <1>2, <1>4, SubSeqFull
<1>5. CASE Len(p) # Len(q) /\ q[Len(p) + 1] = Slash
  <2>1. Len(p) + 1 \in 1 .. Len(q) /\ (Len(p) + 1) - 1 = Len(p)
    BY <1>1, <1>2, <1>5
  <2> QED
    BY <1>1, <1>2, <1>5, <2>1, SplitAtSlash
<1> QED
  BY <1>3, <1>4, <1>5 DEF Begins

(* One text whose segments begin another's begins it, by the first segment  *)
(* and then by what follows it.                                             *)
LEMMA BeginsStep ==
  ASSUME NEW p, NEW q, Plain(p), Plain(q), p # << >>, IsPrefix(Split(p), Split(q)),
         \A r, s : /\ Plain(r) /\ Plain(s) /\ Len(r) < Len(p) /\ IsPrefix(Split(r), Split(s))
                   => Begins(r, s)
  PROVE  Begins(p, q)
<1>1. /\ p \in Texts /\ p \in Seq(Chars) /\ Len(p) \in Nat /\ Split(p) \in Seq(Texts)
      /\ q \in Texts /\ q \in Seq(Chars) /\ Len(q) \in Nat /\ Split(q) \in Seq(Texts)
  BY TextsAre DEF Plain
<1>2. /\ Len(Split(p)) <= Len(Split(q))
      /\ \A i \in 1 .. Len(Split(p)) : Split(p)[i] = Split(q)[i]
  BY <1>1, PrefixEach
<1>3. Split(p) # << >> /\ Len(Split(p)) \in Nat \ {0}
  BY <1>1, PlainSplits
<1>4. q # << >>
  BY <1>1, <1>2, <1>3, EmptySplits
<1>5. PICK b \in 2 .. Len(p) + 1 : \E r \in Seq(Texts) : FirstEnds(p, b, r)
  BY FirstSegment
<1>6. PICK c \in 2 .. Len(q) + 1 : \E s \in Seq(Texts) : FirstEnds(q, c, s)
  BY <1>4, FirstSegment
<1>7. PICK h, g : h = SubSeq(p, 1, b - 1) /\ g = SubSeq(q, 1, c - 1)
  OBVIOUS
<1>8. /\ h \in Texts /\ Len(h) = b - 1 /\ \A i \in 1 .. b - 1 : h[i] = p[i]
      /\ g \in Texts /\ Len(g) = c - 1 /\ \A i \in 1 .. c - 1 : g[i] = q[i]
  BY <1>1, <1>7 DEF Texts
<1>9. PICK r \in Seq(Texts) : FirstEnds(p, b, r)
  BY <1>5
<1>10. PICK s \in Seq(Texts) : FirstEnds(q, c, s)
  BY <1>6
<1>11. /\ b = Len(p) + 1 => r = << >>
       /\ b <= Len(p) => p[b] = Slash /\ r = Split(After(p, b))
       /\ c = Len(q) + 1 => s = << >>
       /\ c <= Len(q) => q[c] = Slash /\ s = Split(After(q, c))
  BY <1>9, <1>10 DEF FirstEnds
<1>12. h = g /\ IsPrefix(r, s)
  <2>1. IsPrefix(<<h>> \o r, <<g>> \o s)
    BY <1>7, <1>9, <1>10 DEF FirstEnds
  <2> QED
    BY <1>8, <2>1, HeadAndRest
<1>13. b = c /\ \A i \in 1 .. b - 1 : p[i] = q[i]
  BY <1>8, <1>12
<1>14. CASE b = Len(p) + 1
  <2>1. Len(p) <= Len(q) /\ \A i \in 1 .. Len(p) : p[i] = q[i]
    BY <1>1, <1>6, <1>13, <1>14
  <2>2. Len(p) = Len(q) \/ q[Len(p) + 1] = Slash
    <3>1. b = c /\ c \in 2 .. Len(q) + 1 /\ Len(p) + 1 = b
      BY <1>13, <1>14
    <3> QED
      BY <1>1, <1>11, <3>1
  <2> QED
    BY <1>1, <2>1, <2>2, PrefixEach DEF Begins
<1>15. CASE b <= Len(p)
  <2>1. PICK x, y : x = After(p, b) /\ y = After(q, b)
    OBVIOUS
  <2>2. p[b] = Slash /\ b \in 1 .. Len(p)
    BY <1>1, <1>11, <1>15
  <2>3. Plain(x) /\ x # << >>
    BY <2>1, <2>2, AfterIsPlain
  <2>4. Split(x) # << >>
    BY <2>3, PlainSplits
  <2>5. b <= Len(q)
    <3>1. r # << >> /\ Len(r) \in Nat \ {0}
      BY <1>11, <1>15, <2>1, <2>4
    <3>2. Len(r) <= Len(s)
      BY <1>12, PrefixEach
    <3>3. s # << >>
      BY <3>1, <3>2
    <3> QED
      BY <1>1, <1>11, <1>13, <3>3
  <2>6. Plain(y)
    <3>1. q[b] = Slash /\ b \in 1 .. Len(q)
      BY <1>1, <1>11, <1>13, <2>5
    <3> QED
      BY <2>1, <3>1, AfterIsPlain
  <2>7. IsPrefix(Split(x), Split(y))
    BY <1>11, <1>12, <1>13, <1>15, <2>1, <2>5
  <2>8. b \in 0 .. Len(p) /\ b \in 0 .. Len(q)
    BY <1>1, <2>2, <2>5
  <2>9. /\ x \in Seq(Chars) /\ Len(x) = Len(p) - b /\ \A k \in 1 .. Len(p) - b : x[k] = p[b + k]
        /\ y \in Seq(Chars) /\ Len(y) = Len(q) - b /\ \A k \in 1 .. Len(q) - b : y[k] = q[b + k]
    BY <1>1, <2>1, <2>8, AfterIs
  <2>10. Len(x) = Len(p) - b /\ Len(y) = Len(q) - b
    BY <2>9
  <2>11. Begins(x, y)
    BY <1>1, <1>15, <2>3, <2>6, <2>7, <2>9
  <2>12. Len(x) <= Len(y) /\ \A i \in 1 .. Len(x) : x[i] = y[i]
    BY <2>9, <2>11, PrefixEach DEF Begins
  <2>13. Len(x) = Len(y) \/ y[Len(x) + 1] = Slash
    BY <2>3, <2>11 DEF Begins
  <2>14. Len(p) <= Len(q)
    BY <1>1, <2>9, <2>12
  <2>15. ASSUME NEW i \in 1 .. Len(p)
         PROVE  p[i] = q[i]
    <3>1. CASE i < b
      BY <1>1, <1>13, <3>1
    <3>2. CASE i = b
      BY <1>11, <1>13, <2>2, <2>5, <3>2
    <3>3. CASE i > b
      <4>1. i - b \in 1 .. Len(p) - b /\ i - b \in 1 .. Len(q) - b /\ b + (i - b) = i
        BY <1>1, <2>14, <3>3
      <4> QED
        BY <2>9, <2>12, <4>1
    <3> QED
      BY <3>1, <3>2, <3>3
  <2>16. Len(p) = Len(q) \/ q[Len(p) + 1] = Slash
    <3>0. PICK m, n, k, j \in Nat : m = Len(p) /\ n = Len(q) /\ k = Len(x) /\ j = Len(y)
      <4>1. Len(p) - b \in Nat /\ Len(q) - b \in Nat
        BY <1>1, <2>8
      <4>2. Len(x) \in Nat /\ Len(y) \in Nat
        BY <2>10, <4>1
      <4> QED
        BY <1>1, <4>2
    <3>1. b \in Nat /\ b + k = m /\ b + j = n /\ k <= j
      BY <2>12, <2>8, <2>10, <3>0
    <3>2. CASE k = j
      BY <3>0, <3>1, <3>2
    <3>3. CASE k # j /\ y[k + 1] = Slash
      <4>1. k + 1 \in 1 .. n - b /\ b + (k + 1) = m + 1
        BY <3>1, <3>3
      <4> QED
        BY <2>9, <3>0, <3>3, <4>1
    <3> QED
      BY <2>13, <3>0, <3>2, <3>3
  <2> QED
    BY <1>1, <2>14, <2>15, <2>16, PrefixEach DEF Begins
<1> QED
  BY <1>1, <1>14, <1>15

(* The same for texts of every length, by induction on it.                  *)
LEMMA SegmentsBegin ==
  ASSUME NEW p, NEW q, Plain(p), Plain(q), IsPrefix(Split(p), Split(q))
  PROVE  Begins(p, q)
<1> DEFINE Upto(n) == \A r, s : /\ Plain(r) /\ Plain(s) /\ Len(r) <= n
                                /\ IsPrefix(Split(r), Split(s))
                                => Begins(r, s)
           S == {n \in Nat : Upto(n)}
<1>1. ASSUME NEW r, NEW s, Plain(r), Plain(s), r = << >>
      PROVE  Begins(r, s)
  <2>1. << >> \in Seq(Chars) /\ s \in Seq(Chars) /\ Len(s) \in Nat
    <3>1. s \in Texts
      BY <1>1 DEF Plain
    <3> QED
      BY <3>1, TextsAre
  <2>2. IsPrefix(<< >>, s)
    <3>1. SubSeq(<< >>, 1, 0) = << >> /\ SubSeq(s, 1, 0) = << >>
      BY <2>1
    <3> QED
      BY <2>1, <3>1 DEF IsPrefix
  <2> QED
    BY <1>1, <2>2 DEF Begins
<1>2. ASSUME NEW r, Plain(r)
      PROVE  Len(r) \in Nat /\ (Len(r) = 0 => r = << >>)
  <2>1. r \in Texts
    BY <1>2 DEF Plain
  <2> QED
    BY <2>1, TextsAre
<1>3. Upto(0)
  BY <1>1, <1>2
<1>4. ASSUME NEW n \in Nat, Upto(n)
      PROVE  Upto(n + 1)
  <2> SUFFICES ASSUME NEW r, NEW s, Plain(r), Plain(s), Len(r) <= n + 1,
                      IsPrefix(Split(r), Split(s))
               PROVE  Begins(r, s)
    OBVIOUS
  <2>1. \A x, y : /\ Plain(x) /\ Plain(y) /\ Len(x) < Len(r) /\ IsPrefix(Split(x), Split(y))
                  => Begins(x, y)
    BY <1>2, <1>4
  <2>2. CASE r = << >>
    BY <1>1, <2>2
  <2>3. CASE r # << >>
    BY <2>1, <2>3, BeginsStep
  <2> QED
    BY <2>2, <2>3
<1> HIDE DEF Upto
<1>5. 0 \in S /\ \A n \in Nat : n \in S => n + 1 \in S
  BY <1>3, <1>4
<1> HIDE DEF S
<1>6. Nat \subseteq S
  BY <1>5, Counting
<1>7. Upto(Len(p)) /\ Len(p) <= Len(p)
  BY <1>2, <1>6 DEF S
<1> QED
  BY <1>7 DEF Upto

(* A concatenation begins with its first part and goes on with its second.  *)
LEMMA ConcatBegins ==
  \A s, t \in Seq(Texts) : IsPrefix(s, s \o t) /\ After(s \o t, Len(s)) = t
<1> SUFFICES ASSUME NEW s \in Seq(Texts), NEW t \in Seq(Texts)
             PROVE  IsPrefix(s, s \o t) /\ After(s \o t, Len(s)) = t
  OBVIOUS
<1>1. PICK u : u = s \o t
  OBVIOUS
<1>2. /\ Len(s) \in Nat /\ Len(t) \in Nat
      /\ u \in Seq(Texts) /\ Len(u) = Len(s) + Len(t)
      /\ \A i \in 1 .. Len(s) : u[i] = s[i]
      /\ \A i \in 1 .. Len(t) : u[Len(s) + i] = t[i]
  BY <1>1
<1>3. IsPrefix(s, u)
  <2>0. PICK m, n : m = Len(s) /\ n = Len(t)
    OBVIOUS
  <2>1. Len(s) <= Len(u) /\ \A i \in 1 .. Len(s) : s[i] = u[i]
    <3>1. m \in Nat /\ n \in Nat /\ Len(u) = m + n
      BY <1>2, <2>0
    <3> QED
      BY <1>2, <2>0, <3>1
  <2>2. s \in Seq(Texts) /\ u \in Seq(Texts)
    BY <1>2
  <2> QED
    BY <2>1, <2>2, PrefixEach
<1>4. After(u, Len(s)) = t
  <2>1. Len(s) \in 0 .. Len(u) /\ Len(u) - Len(s) = Len(t)
    BY <1>2
  <2>2. PICK v : v = After(u, Len(s))
    OBVIOUS
  <2>3. v \in Seq(Texts) /\ Len(v) = Len(t) /\ \A i \in 1 .. Len(t) : v[i] = t[i]
    <3>1. PICK m : m = Len(s)
      OBVIOUS
    <3>2. u \in Seq(Texts) /\ m \in 0 .. Len(u)
      BY <1>2, <2>1, <3>1
    <3>3. /\ v \in Seq(Texts) /\ Len(v) = Len(u) - m
          /\ \A i \in 1 .. Len(u) - m : v[i] = u[m + i]
      BY <2>2, <3>1, <3>2, AfterIs
    <3> QED
      BY <1>2, <2>1, <3>1, <3>3
  <2> QED
    BY <2>2, <2>3, SeqEqual
<1> QED
  BY <1>1, <1>3, <1>4

(* Comparing plain texts and comparing their segments is one question.      *)
LEMMA BeginsBySegments ==
  ASSUME NEW p, NEW q, Plain(p), Plain(q)
  PROVE  Begins(p, q) <=> IsPrefix(Split(p), Split(q))
<1>1. p \in Texts /\ q \in Texts /\ Split(p) \in Seq(Texts) /\ Split(q) \in Seq(Texts)
  BY TextsAre DEF Plain
<1>2. ASSUME Begins(p, q)
      PROVE  IsPrefix(Split(p), Split(q))
  <2>1. CASE p = << >> /\ Split(p) = << >>
    <3>1. SubSeq(<< >>, 1, 0) = << >> /\ SubSeq(Split(q), 1, 0) = << >> /\ Len(Split(q)) \in Nat
      BY <1>1
    <3> QED
      BY <2>1, <3>1 DEF IsPrefix
  <2>2. CASE p = q
    BY <1>1, <2>2, PrefixEach
  <2>3. CASE /\ Len(p) + 1 \in 1 .. Len(q) /\ q[Len(p) + 1] = Slash
             /\ Split(q) = Split(p) \o Split(After(q, Len(p) + 1))
    <3>1. Split(After(q, Len(p) + 1)) \in Seq(Texts)
      <4>1. Plain(After(q, Len(p) + 1))
        BY <2>3, AfterIsPlain
      <4> QED
        BY <4>1, TextsAre DEF Plain
    <3> QED
      BY <1>1, <2>3, <3>1, ConcatBegins
  <2> QED
    BY <1>2, <2>1, <2>2, <2>3, BeginsTakesSegments
<1> QED
  BY <1>2, SegmentsBegin

(* Of two texts that begin a third, the longer has the more segments.       *)
LEMMA LongerHasMore ==
  ASSUME NEW p, NEW r, NEW q, Plain(p), Plain(r), Plain(q), Begins(p, q), Begins(r, q)
  PROVE  Len(p) <= Len(r) <=> Len(Split(p)) <= Len(Split(r))
<1>1. /\ p \in Seq(Chars) /\ Len(p) \in Nat /\ Split(p) \in Seq(Texts)
      /\ r \in Seq(Chars) /\ Len(r) \in Nat /\ Split(r) \in Seq(Texts)
      /\ q \in Seq(Chars) /\ Len(q) \in Nat /\ Split(q) \in Seq(Texts)
      /\ Len(Split(p)) \in Nat /\ Len(Split(r)) \in Nat /\ Len(Split(q)) \in Nat
  BY TextsAre DEF Plain
<1>2. /\ Len(p) <= Len(q) /\ \A i \in 1 .. Len(p) : p[i] = q[i]
      /\ Len(r) <= Len(q) /\ \A i \in 1 .. Len(r) : r[i] = q[i]
  BY <1>1, PrefixEach DEF Begins
<1>3. ASSUME Len(p) <= Len(r)
      PROVE  Len(Split(p)) <= Len(Split(r))
  <2>1. IsPrefix(p, r)
    <3>1. \A i \in 1 .. Len(p) : p[i] = r[i]
      BY <1>1, <1>2, <1>3
    <3> QED
      BY <1>1, <1>3, <3>1, PrefixEach
  <2>2. p = << >> \/ Len(p) = Len(r) \/ r[Len(p) + 1] = Slash
    <3>1. CASE Len(p) < Len(r)
      <4>1. Len(p) + 1 \in 1 .. Len(r) /\ Len(p) # Len(q)
        BY <1>1, <1>2, <3>1
      <4> QED
        BY <1>2, <4>1 DEF Begins
    <3> QED
      BY <1>1, <1>3, <3>1
  <2>3. IsPrefix(Split(p), Split(r))
    BY <2>1, <2>2, BeginsBySegments DEF Begins
  <2> QED
    BY <1>1, <2>3, PrefixEach
<1>4. ASSUME Len(Split(p)) <= Len(Split(r))
      PROVE  Len(p) <= Len(r)
  <2>1. IsPrefix(Split(p), Split(q)) /\ IsPrefix(Split(r), Split(q))
    BY BeginsBySegments
  <2>2. IsPrefix(Split(p), Split(r))
    <3>1. PICK u, v, w \in Seq(Texts) : u = Split(p) /\ v = Split(r) /\ w = Split(q)
      BY <1>1
    <3>2. /\ \A i \in 1 .. Len(u) : u[i] = w[i]
          /\ \A i \in 1 .. Len(v) : v[i] = w[i]
      BY <2>1, <3>1, PrefixEach
    <3>3. Len(u) <= Len(v) /\ \A i \in 1 .. Len(u) : u[i] = v[i]
      BY <1>1, <1>4, <3>1, <3>2
    <3> QED
      BY <3>1, <3>3, PrefixEach
  <2>3. Begins(p, r)
    BY <2>2, BeginsBySegments
  <2> QED
    BY <1>1, <2>3, PrefixEach DEF Begins
<1> QED
  BY <1>3, <1>4

(* What is left of a location after its interface: the segments after the   *)
(* interface's (strip_interface_prefix_).                                   *)
LEMMA StripLeavesSegments ==
  ASSUME NEW interface \in Texts, NEW location \in Texts,
         Plain(Trim(interface)), Plain(Trim(location)), Begins(Trim(interface), Trim(location))
  PROVE  \E rest : /\ StripInterfacePrefix(interface, location) = {rest} /\ Plain(rest)
                   /\ Split(rest) = After(Split(location), Len(Split(interface)))
<1>1. PICK p, q : p = Trim(interface) /\ q = Trim(location)
  OBVIOUS
<1>2. /\ Plain(p) /\ Plain(q) /\ Begins(p, q)
      /\ Split(p) = Split(interface) /\ Split(q) = Split(location)
  BY <1>1, TrimKeepsSegments
<1>3. /\ p \in Seq(Chars) /\ Len(p) \in Nat /\ Split(p) \in Seq(Texts) /\ IsPrefix(p, q)
      /\ q \in Seq(Chars) /\ Len(q) \in Nat /\ Split(q) \in Seq(Texts)
  BY <1>2, TextsAre DEF Plain, Begins
<1>4. \A s \in Seq(Texts) : After(s, 0) = s /\ After(s, Len(s)) = << >>
  BY DEF After
<1>5. CASE p = << >> /\ Split(p) = << >>
  <2>1. StripInterfacePrefix(interface, location) = {q}
    <3>1. Trim(interface) = << >> /\ q = Trim(location)
      BY <1>1, <1>5
    <3> QED
      BY <3>1, Zenon DEF StripInterfacePrefix
  <2> QED
    BY <1>2, <1>3, <1>4, <1>5, <2>1
<1>6. CASE p # << >> /\ p = q
  <2>1. StripInterfacePrefix(interface, location) = {<< >>}
    BY <1>1, <1>3, <1>6 DEF StripInterfacePrefix
  <2>2. Plain(<< >>)
    BY EmptySplits DEF Plain
  <2> QED
    BY <1>2, <1>3, <1>4, <1>6, <2>1, <2>2, EmptySplits
<1>7. CASE /\ p # << >> /\ Len(p) + 1 \in 1 .. Len(q) /\ q[Len(p) + 1] = Slash
           /\ Split(q) = Split(p) \o Split(After(q, Len(p) + 1))
  <2>1. PICK rest : rest = After(q, Len(p) + 1)
    OBVIOUS
  <2>2. StripInterfacePrefix(interface, location) = {rest}
    <3>1. Len(p) # Len(q) /\ Len(p) < Len(q)
      BY <1>3, <1>7
    <3> QED
      BY <1>1, <1>3, <1>7, <2>1, <3>1 DEF StripInterfacePrefix
  <2>3. Plain(rest)
    BY <1>2, <1>7, <2>1, AfterIsPlain
  <2>4. Split(rest) \in Seq(Texts)
    BY <2>3, TextsAre DEF Plain
  <2>5. After(Split(q), Len(Split(p))) = Split(rest)
    BY <1>3, <1>7, <2>1, <2>4, ConcatBegins
  <2> QED
    BY <1>2, <2>2, <2>3, <2>5
<1>8. \/ p = << >> /\ Split(p) = << >>
      \/ p = q
      \/ /\ Len(p) + 1 \in 1 .. Len(q) /\ q[Len(p) + 1] = Slash
         /\ Split(q) = Split(p) \o Split(After(q, Len(p) + 1))
  BY <1>2, BeginsTakesSegments
<1>9. p = << >> => Split(p) = << >>
  BY EmptySplits
<1> QED
  BY <1>5, <1>6, <1>7, <1>8, <1>9

-----------------------------------------------------------------------------
(* A value at a path that had none leaves every other where it was.         *)
LEMMA InsertAdds ==
  ASSUME NEW trie, NEW text, NEW v, ~TrieContains(trie, text)
  PROVE  LET grown == Insert(trie, text, v)
         IN /\ DOMAIN grown.value = DOMAIN trie.value \cup {Split(text)}
            /\ grown.value[Split(text)] = v
            /\ \A p \in DOMAIN trie.value : grown.value[p] = trie.value[p]
            /\ grown.nodes = trie.nodes \cup Ways(Split(text))
BY DEF TrieContains, Insert, Ways

(* build_service_trie_, as a function of how many services it has inserted. *)
Entries == [interface : Texts, service : Texts]
Tries == [nodes : SUBSET Seq(Texts),
          value : UNION {[D -> Entries] : D \in SUBSET Seq(Texts)}]

EntryOf(interface, service) == [interface |-> interface, service |-> service]

(* Inserting into a trie makes a trie.                                      *)
LEMMA InsertIsTrie ==
  ASSUME NEW t \in Tries, NEW text \in Seq(Chars), NEW e \in Entries
  PROVE  Insert(t, text, e) \in Tries
<1> DEFINE path == Split(text)
           D == DOMAIN t.value \cup {path}
           value == [p \in D |-> IF p = path THEN e ELSE t.value[p]]
<1>1. path \in Seq(Texts) /\ Len(path) \in Nat
  BY SplitIs
<1>2. PICK E \in SUBSET Seq(Texts) : t.value \in [E -> Entries]
  BY DEF Tries
<1>3. D \in SUBSET Seq(Texts) /\ value \in [D -> Entries]
  BY <1>1, <1>2
<1>4. \A n \in 0 .. Len(path) : SubSeq(path, 1, n) \in Seq(Texts)
  BY <1>1
<1>5. t.nodes \cup {SubSeq(path, 1, n) : n \in 0 .. Len(path)} \in SUBSET Seq(Texts)
  BY <1>4 DEF Tries
<1> QED
  BY <1>3, <1>5 DEF Insert, Tries

(* Building is the function its definition describes.                       *)
LEMMA BuildingIs ==
  ASSUME NEW interface \in Texts, NEW services \in TextLists
  PROVE  LET built == Building(interface, services)
         IN /\ built[0] = {NewTrie}
            /\ \A n \in 1 .. Len(services) :
                 built[n] = {Insert(t, services[n], EntryOf(interface, services[n])) :
                               t \in {t \in built[n - 1] : ~TrieContains(t, services[n])}}
<1> DEFINE len == Len(services)
           X == SUBSET Tries
           base == {NewTrie}
           Then(n, ts) == {Insert(t, services[n], EntryOf(interface, services[n])) :
                             t \in {t \in ts : ~TrieContains(t, services[n])}}
           step == [n \in 1 .. len |-> [ts \in X |-> Then(n, ts)]]
<1>0. len \in Nat
  BY DEF TextLists
<1>1. base \in X
  <2>1. << >> \in Seq(Texts) /\ << >> \in [{} -> Entries]
    OBVIOUS
  <2>2. << >> \in UNION {[D -> Entries] : D \in SUBSET Seq(Texts)}
    <3>1. {} \in SUBSET Seq(Texts)
      OBVIOUS
    <3> QED
      BY <2>1, <3>1
  <2>3. NewTrie \in Tries
    BY <2>1, <2>2 DEF NewTrie, Tries
  <2> QED
    BY <2>3
<1>2. ASSUME NEW n \in 1 .. len, NEW ts \in X
      PROVE  Then(n, ts) \in X
  <2>1. services[n] \in Texts
    BY DEF TextLists
  <2>2. services[n] \in Seq(Chars) /\ EntryOf(interface, services[n]) \in Entries
    BY <2>1 DEF EntryOf, Entries, Texts
  <2> QED
    BY <2>2, InsertIsTrie
<1>3. step \in [1 .. len -> [X -> X]]
  <2> HIDE DEF Then, X, len
  <2> QED
    BY <1>2
<1>4. PICK f \in [0 .. len -> X] :
        f[0] = base /\ \A n \in 1 .. len : f[n] = step[n][f[n - 1]]
  <2> HIDE DEF step, len, X, base
  <2> QED
    BY <1>0, <1>1, <1>3, Iterates
<1>5. \A n \in 1 .. len : f[n] = Then(n, f[n - 1])
  <2> HIDE DEF Then, X, len
  <2>1. \A n \in 1 .. len : n - 1 \in 0 .. len /\ f[n - 1] \in X
    BY <1>0
  <2> QED
    BY <1>4, <2>1
<1>6. f = [n \in 0 .. len |-> IF n = 0 THEN base ELSE Then(n, f[n - 1])]
  <2> HIDE DEF Then, X, base
  <2> QED
    BY <1>0, <1>4, <1>5
<1>7. Building(interface, services)
        = CHOOSE g : g = [n \in 0 .. len |-> IF n = 0 THEN base ELSE Then(n, g[n - 1])]
  BY DEF Building, EntryOf
<1>8. PICK g : g = Building(interface, services)
  OBVIOUS
<1>9. g = [n \in 0 .. len |-> IF n = 0 THEN base ELSE Then(n, g[n - 1])]
  <2> HIDE DEF len, Then, base
  <2> QED
    BY <1>6, <1>7, <1>8
<1>10. g[0] = base /\ \A n \in 1 .. len : g[n] = Then(n, g[n - 1])
  <2> HIDE DEF Then, base
  <2>1. 0 \in 0 .. len /\ \A n \in 1 .. len : n \in 0 .. len /\ n # 0
    BY <1>0
  <2> QED
    BY <1>9, <2>1
<1> QED
  BY <1>8, <1>10

(* A trie of n services, each with a path of its own, and no other node.    *)
Holds(t, interface, services, n) ==
  /\ \A j, k \in 1 .. n : Split(services[j]) = Split(services[k]) => j = k
  /\ DOMAIN t.value = {Split(services[k]) : k \in 1 .. n}
  /\ \A k \in 1 .. n : t.value[Split(services[k])] = EntryOf(interface, services[k])
  /\ t.nodes = {<< >>} \cup UNION {Ways(Split(services[k])) : k \in 1 .. n}

(* What is built of a list of services holds them all, and nothing is built *)
(* of a list in which two have one path.                                    *)
LEMMA BuiltHoldsAll ==
  ASSUME NEW interface \in Texts, NEW services \in TextLists,
         NEW t \in BuildServiceTrie(interface, services)
  PROVE  Holds(t, interface, services, Len(services))
<1> DEFINE len == Len(services)
           built == Building(interface, services)
           S == {n \in Nat : n <= len => \A u \in built[n] : Holds(u, interface, services, n)}
<1>0. len \in Nat
  BY DEF TextLists
<1>1. 0 \in S
  <2> SUFFICES ASSUME NEW u \in built[0]
               PROVE  Holds(u, interface, services, 0)
    OBVIOUS
  <2>1. u = NewTrie
    BY BuildingIs
  <2>2. 1 .. 0 = {}
    OBVIOUS
  <2> QED
    BY <2>1, <2>2 DEF NewTrie, Holds
<1>2. ASSUME NEW n \in Nat, n \in S
      PROVE  n + 1 \in S
  <2> SUFFICES ASSUME n + 1 <= len, NEW u \in built[n + 1]
               PROVE  Holds(u, interface, services, n + 1)
    OBVIOUS
  <2>1. PICK s : s = services[n + 1]
    OBVIOUS
  <2>2. PICK v \in built[n] : ~TrieContains(v, s) /\ u = Insert(v, s, EntryOf(interface, s))
    <3>1. n + 1 \in 1 .. len /\ (n + 1) - 1 = n
      BY <1>0
    <3> QED
      BY <3>1, <2>1, BuildingIs
  <2>3. Holds(v, interface, services, n)
    BY <1>2, <1>0
  <2>4. PICK new, old : new = n + 1 /\ old = 1 .. n /\ 1 .. n + 1 = old \cup {new}
    <3>1. 1 .. n + 1 = (1 .. n) \cup {n + 1}
      OBVIOUS
    <3> QED
      BY <3>1
  <2>5. /\ DOMAIN u.value = DOMAIN v.value \cup {Split(s)} /\ Split(s) \notin DOMAIN v.value
        /\ u.value[Split(s)] = EntryOf(interface, s)
        /\ \A p \in DOMAIN v.value : u.value[p] = v.value[p]
        /\ u.nodes = v.nodes \cup Ways(Split(s))
    BY <2>2, InsertAdds DEF TrieContains
  <2>6. \A k \in 1 .. n : Split(services[k]) \in DOMAIN v.value
    BY <2>3 DEF Holds
  <2>7. \A j, k \in 1 .. n + 1 : Split(services[j]) = Split(services[k]) => j = k
    <3>1. \A j, k \in 1 .. n : Split(services[j]) = Split(services[k]) => j = k
      BY <2>3 DEF Holds
    <3>2. \A k \in 1 .. n : Split(services[k]) # Split(services[n + 1])
      BY <2>1, <2>5, <2>6
    <3>3. \A k \in 1 .. n + 1 : k \in 1 .. n \/ k = n + 1
      OBVIOUS
    <3> QED
      BY <3>1, <3>2, <3>3
  <2>8. DOMAIN u.value = {Split(services[k]) : k \in 1 .. n + 1}
    BY <2>1, <2>3, <2>4, <2>5 DEF Holds
  <2>9. \A k \in 1 .. n + 1 : u.value[Split(services[k])] = EntryOf(interface, services[k])
    BY <2>1, <2>3, <2>4, <2>5, <2>6 DEF Holds
  <2>10. u.nodes = {<< >>} \cup UNION {Ways(Split(services[k])) : k \in 1 .. n + 1}
    BY <2>1, <2>3, <2>4, <2>5 DEF Holds
  <2> QED
    BY <2>7, <2>8, <2>9, <2>10 DEF Holds
<1> HIDE DEF S
<1>3. Nat \subseteq S
  BY <1>1, <1>2, Counting
<1>4. len \in S /\ t \in built[len]
  BY <1>0, <1>3 DEF BuildServiceTrie
<1> QED
  BY <1>0, <1>4 DEF S

(* The longest of the paths that begin with ... segs begins with. *)
Longest(paths, segs) ==
  {p \in paths : IsPrefix(p, segs) /\ \A q \in paths : IsPrefix(q, segs) => Len(q) <= Len(p)}

(* Two of them are one.                                                     *)
LEMMA LongestIsOne ==
  ASSUME NEW T, NEW paths \in SUBSET Seq(T), NEW segs \in Seq(T),
         NEW p \in Longest(paths, segs), NEW q \in Longest(paths, segs)
  PROVE  p = q
<1>1. p \in Seq(T) /\ q \in Seq(T) /\ Len(p) \in Nat /\ Len(q) \in Nat
  BY DEF Longest
<1>2. Len(p) = Len(q)
  BY <1>1 DEF Longest
<1>3. p = SubSeq(segs, 1, Len(p)) /\ q = SubSeq(segs, 1, Len(q))
  BY <1>1, PrefixIs DEF Longest
<1> QED
  BY <1>2, <1>3

(* A way's way is a way.                                                    *)
LEMMA WayOfWay ==
  ASSUME NEW T, NEW segs \in Seq(T), NEW n \in 0 .. Len(segs)
  PROVE  /\ SubSeq(segs, 1, n) \in Seq(T) /\ Len(SubSeq(segs, 1, n)) = n
         /\ \A m \in 0 .. n : SubSeq(segs, 1, m) \in Ways(SubSeq(segs, 1, n))
<1>1. SubSeq(segs, 1, n) \in Seq(T) /\ Len(SubSeq(segs, 1, n)) = n
  OBVIOUS
<1>2. ASSUME NEW m \in 0 .. n
      PROVE  SubSeq(SubSeq(segs, 1, n), 1, m) = SubSeq(segs, 1, m)
  OBVIOUS
<1> QED
  BY <1>1, <1>2 DEF Ways

(* A walk that ends at the first missing child misses no value, where every *)
(* node on the way to a value is there: what is found is the longest path.  *)
LEMMA FoundIs ==
  ASSUME NEW T, NEW trie, NEW segs \in Seq(T),
         DOMAIN trie.value \subseteq Seq(T),
         \A p \in DOMAIN trie.value : Ways(p) \subseteq trie.nodes
  PROVE  Found(trie, segs) = {[value |-> trie.value[p], depth |-> Len(p)] :
                                p \in Longest(DOMAIN trie.value, segs)}
<1> DEFINE way(n) == SubSeq(segs, 1, n)
<1>1. MatchLongest(trie, segs) = Deepest(Valued(trie, segs))
  <2>1. ASSUME NEW n \in Valued(trie, segs), NEW m \in 1 .. n
        PROVE  way(m) \in trie.nodes
    <3>1. way(n) \in DOMAIN trie.value /\ n \in 0 .. Len(segs) /\ m \in 0 .. n
      BY DEF Valued
    <3>2. way(m) \in Ways(way(n))
      BY <3>1, WayOfWay
    <3> QED
      BY <3>1, <3>2
  <2>2. {n \in Valued(trie, segs) : \A m \in 1 .. n : way(m) \in trie.nodes} = Valued(trie, segs)
    BY <2>1
  <2> QED
    BY <2>2 DEF MatchLongest
<1>2. \A n \in Valued(trie, segs) :
        /\ way(n) \in DOMAIN trie.value /\ Len(way(n)) = n
        /\ IsPrefix(way(n), segs) /\ n \in 0 .. Len(segs)
  <2> SUFFICES ASSUME NEW n \in Valued(trie, segs)
               PROVE  /\ way(n) \in DOMAIN trie.value /\ Len(way(n)) = n
                      /\ IsPrefix(way(n), segs) /\ n \in 0 .. Len(segs)
    OBVIOUS
  <2>1. way(n) \in DOMAIN trie.value /\ n \in 0 .. Len(segs)
    BY DEF Valued
  <2>2. way(n) \in Seq(T) /\ Len(way(n)) = n
    BY <2>1, WayOfWay
  <2>3. IsPrefix(way(n), segs)
    <3> HIDE DEF way
    <3>1. way(n) = SubSeq(segs, 1, Len(way(n))) /\ Len(way(n)) <= Len(segs)
      BY <2>1, <2>2 DEF way
    <3> QED
      BY <2>2, <3>1, PrefixIs
  <2> QED
    BY <2>1, <2>2, <2>3
<1>3. ASSUME NEW p \in DOMAIN trie.value, IsPrefix(p, segs)
      PROVE  Len(p) \in Valued(trie, segs) /\ p = way(Len(p))
  <2>1. p \in Seq(T)
    OBVIOUS
  <2>2. Len(p) <= Len(segs) /\ p = SubSeq(segs, 1, Len(p))
    BY <1>3, <2>1, PrefixIs
  <2>3. Len(p) \in 0 .. Len(segs)
    BY <2>1, <2>2
  <2> QED
    BY <2>2, <2>3 DEF Valued
<1>4. ASSUME NEW n \in MatchLongest(trie, segs)
      PROVE  way(n) \in Longest(DOMAIN trie.value, segs) /\ Len(way(n)) = n
  <2> HIDE DEF way
  <2>1. n \in Valued(trie, segs) /\ \A m \in Valued(trie, segs) : m <= n
    BY <1>1, <1>4 DEF Deepest
  <2> QED
    BY <1>2, <1>3, <2>1 DEF Longest
<1>5. ASSUME NEW p \in Longest(DOMAIN trie.value, segs)
      PROVE  Len(p) \in MatchLongest(trie, segs) /\ p = way(Len(p))
  <2> HIDE DEF way
  <2>1. p \in DOMAIN trie.value /\ IsPrefix(p, segs)
    BY DEF Longest
  <2>2. Len(p) \in Valued(trie, segs) /\ p = way(Len(p))
    BY <1>3, <2>1
  <2>3. \A m \in Valued(trie, segs) : m <= Len(p)
    BY <1>2 DEF Longest
  <2> QED
    BY <1>1, <2>2, <2>3 DEF Deepest
<1>6. Found(trie, segs) = {[value |-> trie.value[way(n)], depth |-> n] : n \in MatchLongest(trie, segs)}
  BY DEF Found
<1> HIDE DEF way
<1> QED
  BY <1>4, <1>5, <1>6

(* Of what was registered, the service that answers a location.             *)
PathsTaken == {PathOf(m) : m \in Taken}
PathsOf(services) == {Split(services[k]) : k \in 1 .. Len(services)}
RestAt(location, n) == After(Split(location), Len(PathOf(n)))
Answers(location, n, k) ==
  /\ PathOf(n) \in Longest(PathsTaken, Split(location))
  /\ Split(asked[n].services[k]) \in Longest(PathsOf(asked[n].services), RestAt(location, n))
Answered(n, k) == EntryOf(asked[n].interface, asked[n].services[k])

(* What was taken is made of texts.                                         *)
LEMMA TakenAreTexts ==
  ASSUME TrieHolds, NEW n \in Taken
  PROVE  /\ asked[n].interface \in Texts /\ asked[n].services \in TextLists
         /\ PathOf(n) \in TextLists
         /\ \A k \in 1 .. Len(asked[n].services) :
              asked[n].services[k] \in Texts /\ Split(asked[n].services[k]) \in TextLists
<1>1. asked[n] \in Registrations
  BY DEF TrieHolds, Taken
<1>2. asked[n].interface \in Texts /\ asked[n].services \in TextLists
  BY <1>1, RoutingAssumption DEF Registrations, Texts, TextLists
<1>3. \A text \in Texts : Split(text) \in TextLists
  BY SplitIs DEF Texts, TextLists
<1>4. \A k \in 1 .. Len(asked[n].services) : asked[n].services[k] \in Texts
  BY <1>2 DEF TextLists
<1> QED
  BY <1>2, <1>3, <1>4 DEF PathOf

(* Two services that answer one location are one service.                   *)
LEMMA AnswerIsOne ==
  ASSUME TrieHolds, NEW l \in Locations,
         NEW n \in Taken, NEW k \in 1 .. Len(asked[n].services), Answers(l, n, k),
         NEW m \in Taken, NEW j \in 1 .. Len(asked[m].services), Answers(l, m, j)
  PROVE  n = m /\ k = j
<1>1. l \in Texts /\ Split(l) \in TextLists /\ PathsTaken \in SUBSET TextLists
  <2>1. l \in Texts
    BY RoutingAssumption DEF Texts
  <2> QED
    BY <2>1, TakenAreTexts, SplitIs DEF Texts, TextLists, PathsTaken
<1>2. PathOf(n) = PathOf(m)
  BY <1>1, LongestIsOne DEF Answers, TextLists
<1>3. n = m
  BY <1>2 DEF TrieHolds
<1>4. /\ PathsOf(asked[n].services) \in SUBSET TextLists /\ RestAt(l, n) \in TextLists
      /\ PathOf(n) \in TextLists
  <2>1. PathOf(n) \in TextLists
    BY TakenAreTexts
  <2>2. RestAt(l, n) \in TextLists
    BY <1>1, <2>1 DEF RestAt, After, TextLists
  <2> QED
    BY <2>1, <2>2, TakenAreTexts DEF PathsOf
<1>5. Split(asked[n].services[k]) = Split(asked[n].services[j])
  BY <1>3, <1>4, LongestIsOne DEF Answers, TextLists
<1>6. PICK t \in BuildServiceTrie(asked[n].interface, asked[n].services) : TRUE
  BY DEF TrieHolds
<1>7. Holds(t, asked[n].interface, asked[n].services, Len(asked[n].services))
  BY <1>6, BuiltHoldsAll, TakenAreTexts
<1> QED
  BY <1>3, <1>5, <1>7 DEF Holds

-----------------------------------------------------------------------------
(* One registration more, and what it says of itself.                       *)
LEMMA AskedGrows ==
  ASSUME asked \in Seq(Registrations), NEW r \in Registrations, asked' = Append(asked, r)
  PROVE  /\ asked' \in Seq(Registrations) /\ Last(asked') = r
         /\ Len(asked) \in Nat /\ Len(asked') = Len(asked) + 1
         /\ asked'[Len(asked) + 1] = r
         /\ \A n \in 1 .. Len(asked) : asked'[n] = asked[n] /\ PathOf(n)' = PathOf(n)
         /\ Taken' = IF r.done THEN Taken \cup {Len(asked) + 1} ELSE Taken
         /\ Len(asked) + 1 \notin Taken
<1>1. /\ asked' \in Seq(Registrations) /\ Len(asked) \in Nat /\ Len(asked') = Len(asked) + 1
      /\ asked'[Len(asked) + 1] = r
      /\ \A n \in 1 .. Len(asked) : asked'[n] = asked[n]
  OBVIOUS
<1>2. Last(asked') = r
  BY <1>1 DEF Last
<1>3. \A n \in 1 .. Len(asked) : PathOf(n)' = PathOf(n)
  BY <1>1 DEF PathOf
<1>4. Taken' = IF r.done THEN Taken \cup {Len(asked) + 1} ELSE Taken
  BY <1>1 DEF Taken
<1> QED
  BY <1>1, <1>2, <1>3, <1>4 DEF Taken

(* What a step is: asked grows by what was asked, and the trie by what was  *)
(* built, if the path is new and anything was.                              *)
LEMMA StepRegisters ==
  ASSUME Next
  PROVE  \E r \in Registrations :
           /\ asked' = Append(asked, r)
           /\ ~r.done => interfaces' = interfaces
           /\ r.done => /\ ~TrieContains(interfaces, r.interface)
                        /\ \E t \in BuildServiceTrie(r.interface, r.services) :
                             interfaces' = Insert(interfaces, r.interface, t)
<1>1. PICK i \in InterfaceTexts, n \in 1 .. MaxServices :
        \E services \in [1 .. n -> ServiceTexts] : AddInterface(i, services)
  BY DEF Next, Register
<1>2. PICK services \in [1 .. n -> ServiceTexts] : AddInterface(i, services)
  BY <1>1
<1>3. services \in Seq(ServiceTexts)
  <2>1. n \in Nat
    BY RoutingAssumption
  <2> QED
    BY <1>2, <2>1
<1>4. CASE TrieContains(interfaces, i) \/ BuildServiceTrie(i, services) = {}
  <2> DEFINE r == [interface |-> i, services |-> services, done |-> FALSE]
  <2>1. r \in Registrations /\ ~r.done
    BY <1>3 DEF Registrations
  <2>2. asked' = Append(asked, r) /\ interfaces' = interfaces
    BY <1>2, <1>4 DEF AddInterface
  <2> QED
    BY <2>1, <2>2
<1>5. CASE ~TrieContains(interfaces, i) /\ BuildServiceTrie(i, services) # {}
  <2> DEFINE r == [interface |-> i, services |-> services, done |-> TRUE]
  <2>1. r \in Registrations /\ r.done /\ r.interface = i /\ r.services = services
    BY <1>3 DEF Registrations
  <2>2. /\ asked' = Append(asked, r)
        /\ \E t \in BuildServiceTrie(i, services) : interfaces' = Insert(interfaces, i, t)
    BY <1>2, <1>5 DEF AddInterface
  <2> QED
    BY <1>5, <2>1, <2>2
<1> QED
  BY <1>4, <1>5

(* No step makes the trie hold anything else.                               *)
LEMMA TrieStep ==
  ASSUME TrieHolds, [Next]_vars
  PROVE  TrieHolds'
<1>1. CASE UNCHANGED vars
  BY <1>1 DEF TrieHolds, Taken, PathOf, vars
<1>2. CASE Next
  <2>1. PICK r \in Registrations :
           /\ asked' = Append(asked, r)
           /\ ~r.done => interfaces' = interfaces
           /\ r.done => /\ ~TrieContains(interfaces, r.interface)
                        /\ \E t \in BuildServiceTrie(r.interface, r.services) :
                             interfaces' = Insert(interfaces, r.interface, t)
    BY <1>2, StepRegisters
  <2>2. /\ asked' \in Seq(Registrations) /\ Len(asked) \in Nat
        /\ asked'[Len(asked) + 1] = r
        /\ \A n \in 1 .. Len(asked) : asked'[n] = asked[n] /\ PathOf(n)' = PathOf(n)
        /\ Taken' = IF r.done THEN Taken \cup {Len(asked) + 1} ELSE Taken
        /\ Len(asked) + 1 \notin Taken /\ Taken \subseteq 1 .. Len(asked)
    BY <2>1, AskedGrows DEF TrieHolds, Taken
  <2>3. CASE ~r.done
    <3>1. Taken' = Taken /\ interfaces' = interfaces
      BY <2>1, <2>2, <2>3
    <3>2. \A n \in Taken : asked'[n] = asked[n] /\ PathOf(n)' = PathOf(n)
      BY <2>2
    <3>3. /\ {PathOf(n)' : n \in Taken} = {PathOf(n) : n \in Taken}
          /\ {Ways(PathOf(n)') : n \in Taken} = {Ways(PathOf(n)) : n \in Taken}
      BY <3>2
    <3> QED
      BY <2>2, <3>1, <3>2, <3>3 DEF TrieHolds
  <2>4. CASE r.done
    <3> DEFINE path == Split(r.interface)
    <3>0. PICK new \in Nat : new = Len(asked) + 1
      BY <2>2
    <3>1. PICK t \in BuildServiceTrie(r.interface, r.services) :
            interfaces' = Insert(interfaces, r.interface, t)
      BY <2>1, <2>4
    <3>2. /\ DOMAIN interfaces'.value = DOMAIN interfaces.value \cup {path}
          /\ interfaces'.value[path] = t
          /\ \A p \in DOMAIN interfaces.value : interfaces'.value[p] = interfaces.value[p]
          /\ interfaces'.nodes = interfaces.nodes \cup Ways(path)
      BY <2>1, <2>4, <3>1, InsertAdds
    <3>3. Taken' = Taken \cup {new} /\ PathOf(new)' = path /\ asked'[new] = r
      BY <2>2, <2>4, <3>0 DEF PathOf
    <3>4. \A n \in Taken : asked'[n] = asked[n] /\ PathOf(n)' = PathOf(n)
      BY <2>2
    <3>5. path \notin DOMAIN interfaces.value
      BY <2>1, <2>4 DEF TrieContains
    <3>6. \A n \in Taken : PathOf(n) \in DOMAIN interfaces.value
      BY DEF TrieHolds
    <3>7. \A m, n \in Taken' : PathOf(m)' = PathOf(n)' => m = n
      BY <3>3, <3>4, <3>5, <3>6 DEF TrieHolds
    <3>8. DOMAIN interfaces'.value = {PathOf(n)' : n \in Taken'}
      BY <3>2, <3>3, <3>4 DEF TrieHolds
    <3>9. \A n \in Taken' :
            interfaces'.value[PathOf(n)'] \in BuildServiceTrie(asked'[n].interface, asked'[n].services)
      BY <3>1, <3>2, <3>3, <3>4, <3>6 DEF TrieHolds
    <3>10. interfaces'.nodes = {<< >>} \cup UNION {Ways(PathOf(n)') : n \in Taken'}
      BY <3>2, <3>3, <3>4 DEF TrieHolds
    <3> QED
      BY <2>2, <3>7, <3>8, <3>9, <3>10 DEF TrieHolds
  <2> QED
    BY <2>3, <2>4
<1> QED
  BY <1>1, <1>2

-----------------------------------------------------------------------------
(* What the trie router was given and took is what it holds, each interface *)
(* once (add_interface, insert).                                            *)
THEOREM TrieIsWhatItTook == Spec => []TrieHolds
<1>1. Init => TrieHolds
  <2> SUFFICES ASSUME Init
               PROVE  TrieHolds
    OBVIOUS
  <2>1. asked = << >> /\ asked \in Seq(Registrations) /\ Taken = {}
    BY DEF Init, Taken
  <2>2. DOMAIN interfaces.value = {} /\ interfaces.nodes = {<< >>}
    BY DEF Init, NewTrie
  <2> QED
    BY <2>1, <2>2 DEF TrieHolds
<1> QED
  BY <1>1, TrieStep, PTL DEF Spec

(* A refused registration changes nothing, an accepted one only what it     *)
(* adds (add_interface returns before it inserts).                          *)
THEOREM RefusalsLeaveNothing == Spec => RefusedChangesNothing
<1>1. TrieHolds /\ [Next]_vars => [~Last(asked').done => interfaces' = interfaces]_vars
  <2> SUFFICES ASSUME TrieHolds, Next
               PROVE  ~Last(asked').done => interfaces' = interfaces
    OBVIOUS
  <2> QED
    BY StepRegisters, AskedGrows DEF TrieHolds
<1> QED
  BY <1>1, TrieIsWhatItTook, PTL DEF Spec, RefusedChangesNothing

-----------------------------------------------------------------------------
(* So are locations and what an interface leaves of them.                   *)
LEMMA LocationsAreTexts ==
  ASSUME TrieHolds, NEW l \in Locations, NEW n \in Taken
  PROVE  Split(l) \in TextLists /\ RestAt(l, n) \in TextLists
<1>1. l \in Seq(Chars)
  BY RoutingAssumption
<1>2. Split(l) \in Seq(Texts)
  BY <1>1, SplitIs
<1>3. PathOf(n) \in Seq(Texts)
  BY TakenAreTexts DEF TextLists
<1>4. Len(PathOf(n)) \in Nat /\ Len(Split(l)) \in Nat
  BY <1>2, <1>3
<1> QED
  BY <1>2, <1>4 DEF RestAt, After, TextLists

(* What a service's trie finds of the rest of a location.                   *)
LEMMA ServiceFound ==
  ASSUME TrieHolds, NEW l \in Locations, NEW n \in Taken
  PROVE  LET services == asked[n].services
             found == Found(interfaces.value[PathOf(n)], RestAt(l, n))
         IN {s.value : s \in found} =
            {Answered(n, k) : k \in {k \in 1 .. Len(services) :
               Split(services[k]) \in Longest(PathsOf(services), RestAt(l, n))}}
<1>1. PICK services, t : services = asked[n].services /\ t = interfaces.value[PathOf(n)]
  OBVIOUS
<1>2. /\ services \in TextLists
      /\ \A k \in 1 .. Len(services) : Split(services[k]) \in TextLists
  BY <1>1, TakenAreTexts
<1>3. Holds(t, asked[n].interface, services, Len(services))
  BY <1>1, BuiltHoldsAll, TakenAreTexts DEF TrieHolds
<1>4. DOMAIN t.value = PathsOf(services) /\ PathsOf(services) \subseteq TextLists
  BY <1>2, <1>3 DEF Holds, PathsOf
<1>5. \A p \in DOMAIN t.value : Ways(p) \subseteq t.nodes
  BY <1>3 DEF Holds
<1>6. Found(t, RestAt(l, n)) = {[value |-> t.value[p], depth |-> Len(p)] :
                                 p \in Longest(PathsOf(services), RestAt(l, n))}
  BY <1>4, <1>5, FoundIs, LocationsAreTexts DEF TextLists
<1> DEFINE found == {s.value : s \in Found(t, RestAt(l, n))}
           best == Longest(PathsOf(services), RestAt(l, n))
<1>7. \A x : x \in found <=> \E p \in best : x = t.value[p]
  <2>1. PICK hits : hits = Found(t, RestAt(l, n))
    OBVIOUS
  <2>2. hits = {[value |-> t.value[p], depth |-> Len(p)] : p \in best}
    BY <1>6, <2>1
  <2>3. \A x : x \in found <=> \E s \in hits : x = s.value
    BY <2>1
  <2>4. ASSUME NEW p \in best
        PROVE  t.value[p] \in found
    <3>1. [value |-> t.value[p], depth |-> Len(p)] \in hits
      BY <2>2
    <3> QED
      BY <2>3, <3>1
  <2>5. ASSUME NEW x \in found
        PROVE  \E p \in best : x = t.value[p]
    <3>1. PICK s \in hits : x = s.value
      BY <2>3
    <3>2. PICK p \in best : s = [value |-> t.value[p], depth |-> Len(p)]
      BY <2>2
    <3> QED
      BY <3>1, <3>2
  <2> QED
    BY <2>4, <2>5
<1>8. \A p \in best :
        \E k \in 1 .. Len(services) : p = Split(services[k]) /\ t.value[p] = Answered(n, k)
  BY <1>1, <1>3 DEF Longest, PathsOf, Holds, Answered
<1>9. \A k \in 1 .. Len(services) : t.value[Split(services[k])] = Answered(n, k)
  BY <1>1, <1>3 DEF Holds, Answered
<1> HIDE DEF found, best
<1>10. \A x : x \in found <=>
         \E k \in 1 .. Len(services) : Split(services[k]) \in best /\ x = Answered(n, k)
  BY <1>7, <1>8, <1>9
<1>11. found = {Answered(n, k) : k \in {k \in 1 .. Len(services) : Split(services[k]) \in best}}
  BY <1>10
<1> QED
  BY <1>1, <1>11 DEF found, best

(* What the two levels of tries find is what answers.                       *)
LEMMA ResolveIs ==
  ASSUME TrieHolds, NEW l \in Locations
  PROVE  \A x : x \in Resolve(l) <=>
           \E n \in Taken : \E k \in 1 .. Len(asked[n].services) :
             Answers(l, n, k) /\ x = Answered(n, k)
<1> DEFINE segs == Split(l)
           services(i) == {s.value : s \in Found(i.value, After(segs, i.depth))}
           at(n) == {k \in 1 .. Len(asked[n].services) :
                       Split(asked[n].services[k]) \in Longest(PathsOf(asked[n].services), RestAt(l, n))}
           of(p) == [value |-> interfaces.value[p], depth |-> Len(p)]
<1>1. DOMAIN interfaces.value = PathsTaken /\ PathsTaken \subseteq TextLists
  BY TakenAreTexts DEF TrieHolds, PathsTaken
<1>2. \A p \in PathsTaken : Ways(p) \subseteq interfaces.nodes
  BY DEF TrieHolds, PathsTaken
<1>3. segs \in TextLists
  BY SplitIs, RoutingAssumption DEF TextLists
<1>4. Found(interfaces, segs) = {of(p) : p \in Longest(PathsTaken, segs)}
  BY <1>1, <1>2, <1>3, FoundIs DEF TextLists
<1>5. \A n \in Taken : services(of(PathOf(n))) = {Answered(n, k) : k \in at(n)}
  BY ServiceFound DEF RestAt
<1>6. Resolve(l) = UNION {services(i) : i \in Found(interfaces, segs)}
  BY DEF Resolve
<1> HIDE DEF services, segs, of
<1>7. Resolve(l) = UNION {services(of(p)) : p \in Longest(PathsTaken, segs)}
  BY <1>4, <1>6
<1>8. \A p \in Longest(PathsTaken, segs) : \E n \in Taken : p = PathOf(n)
  BY DEF Longest, PathsTaken
<1>9. \A x : x \in Resolve(l) <=>
        \E n \in Taken : PathOf(n) \in Longest(PathsTaken, segs) /\ x \in services(of(PathOf(n)))
  BY <1>7, <1>8
<1> QED
  BY <1>5, <1>9 DEF Answers, segs

(* And so is what the reference finds.                                      *)
LEMMA ReferenceIs ==
  ASSUME TrieHolds, NEW l \in Locations
  PROVE  \A x : x \in Reference(l) <=>
           \E n \in Taken : \E k \in 1 .. Len(asked[n].services) :
             Answers(l, n, k) /\ x = Answered(n, k)
<1> DEFINE segs == Split(l)
           begins(text, from) == IsPrefix(Split(text), from)
           is == {n \in 1 .. Len(asked) : asked[n].done /\ begins(asked[n].interface, segs)}
           longest == {n \in is : \A m \in is :
                         Len(Split(asked[n].interface)) >= Len(Split(asked[m].interface))}
           rest(n) == After(segs, Len(Split(asked[n].interface)))
           ss(n) == {s \in ToSet(asked[n].services) : begins(s, rest(n))}
           best(n) == {s \in ss(n) : \A t \in ss(n) : Len(Split(s)) >= Len(Split(t))}
           hits(n) == {[interface |-> asked[n].interface, service |-> s] : s \in best(n)}
<1>1. Reference(l) = UNION {hits(n) : n \in longest}
  BY DEF Reference
<1>2. \A n : n \in longest <=> n \in Taken /\ PathOf(n) \in Longest(PathsTaken, segs)
  <2>1. \A n \in Taken : Len(PathOf(n)) \in Nat
    BY TakenAreTexts DEF TextLists
  <2>2. \A n : n \in is <=> n \in Taken /\ IsPrefix(PathOf(n), segs)
    BY DEF Taken, PathOf
  <2>3. \A n : n \in longest <=> n \in is /\ \A m \in is : Len(PathOf(n)) >= Len(PathOf(m))
    BY DEF PathOf
  <2> HIDE DEF is, longest, segs
  <2> QED
    BY <2>1, <2>2, <2>3 DEF Longest, PathsTaken
<1>3. ASSUME NEW n \in Taken
      PROVE  hits(n) = {Answered(n, k) : k \in {k \in 1 .. Len(asked[n].services) :
               Split(asked[n].services[k]) \in Longest(PathsOf(asked[n].services), RestAt(l, n))}}
  <2>1. PICK services : services = asked[n].services
    OBVIOUS
  <2>2. services \in TextLists /\ \A k \in 1 .. Len(services) : Len(Split(services[k])) \in Nat
    BY <2>1, TakenAreTexts DEF TextLists
  <2>3. ToSet(services) = {services[k] : k \in 1 .. Len(services)}
    BY <2>2 DEF ToSet, TextLists
  <2>4. rest(n) = RestAt(l, n)
    BY DEF RestAt, PathOf
  <2>5. \A s : s \in best(n) <=>
          \E k \in 1 .. Len(services) :
            s = services[k] /\ Split(services[k]) \in Longest(PathsOf(services), RestAt(l, n))
    <3>1. \A s : s \in ss(n) <=>
            \E k \in 1 .. Len(services) : s = services[k] /\ IsPrefix(Split(services[k]), RestAt(l, n))
      BY <2>1, <2>3, <2>4
    <3> HIDE DEF ss
    <3>2. \A s : s \in best(n) <=> s \in ss(n) /\ \A t \in ss(n) : Len(Split(s)) >= Len(Split(t))
      OBVIOUS
    <3> HIDE DEF best
    <3>3. PICK among, from : among = PathsOf(services) /\ from = RestAt(l, n)
      OBVIOUS
    <3>4. \A p : p \in among <=> \E k \in 1 .. Len(services) : p = Split(services[k])
      BY <3>3 DEF PathsOf
    <3>5. \A p : p \in Longest(among, from) <=>
            /\ p \in among /\ IsPrefix(p, from)
            /\ \A q \in among : IsPrefix(q, from) => Len(q) <= Len(p)
      BY DEF Longest
    <3>6. \A s, t : Len(Split(s)) \in Nat /\ Len(Split(t)) \in Nat =>
            (Len(Split(s)) >= Len(Split(t)) <=> Len(Split(t)) <= Len(Split(s)))
      OBVIOUS
    <3>7. ASSUME NEW k \in 1 .. Len(services)
          PROVE  services[k] \in best(n) <=> Split(services[k]) \in Longest(among, from)
      <4>1. \A t : t \in ss(n) => Len(Split(t)) \in Nat
        BY <2>2, <3>1
      <4>2. services[k] \in ss(n) <=> IsPrefix(Split(services[k]), from)
        BY <3>1, <3>3
      <4>3. (\A t \in ss(n) : Len(Split(t)) <= Len(Split(services[k])))
              <=> \A q \in among : IsPrefix(q, from) => Len(q) <= Len(Split(services[k]))
        BY <3>1, <3>3, <3>4
      <4> QED
        BY <2>2, <3>2, <3>4, <3>5, <3>6, <4>1, <4>2, <4>3
    <3> QED
      BY <3>1, <3>2, <3>3, <3>7
  <2> HIDE DEF best
  <2> QED
    BY <2>1, <2>5 DEF Answered, EntryOf
<1> HIDE DEF hits, longest, segs
<1> QED
  BY <1>1, <1>2, <1>3 DEF Answers, segs

(* The trie router finds what the longest prefixes by whole segments find,  *)
(* and one thing only, wherever registrations left it (RpcRouter::resolve). *)
THEOREM ResolvesLongestPrefix == Spec => []ResolveIsLongestPrefix
<1>1. TrieHolds => ResolveIsLongestPrefix
  <2> SUFFICES ASSUME TrieHolds, NEW l \in Locations
               PROVE  Resolve(l) = Reference(l) /\ Cardinality(Resolve(l)) <= 1
    BY DEF ResolveIsLongestPrefix
  <2>1. Resolve(l) = Reference(l)
    BY ResolveIs, ReferenceIs
  <2>2. \A x, y \in Resolve(l) : x = y
    BY ResolveIs, AnswerIsOne
  <2>3. Cardinality(Resolve(l)) <= 1
    <3>1. CASE Resolve(l) = {}
      BY <3>1, FS_EmptySet
    <3>2. CASE Resolve(l) # {}
      <4>1. PICK x : Resolve(l) = {x}
        BY <2>2, <3>2
      <4>2. Cardinality({x}) = 1
        BY FS_Singleton
      <4> QED
        BY <4>1, <4>2
    <3> QED
      BY <3>1, <3>2
  <2> QED
    BY <2>1, <2>3
<1> QED
  BY <1>1, TrieIsWhatItTook, PTL

-----------------------------------------------------------------------------
(* match_route: what the list matches, from its last element to its first.  *)
Hits == [index : Nat, len : Nat]
HeadHit(prefixes, path, n) ==
  {[index |-> n, len |-> len] : len \in PathPrefixLen(prefixes[n], path)}
Kept(head, tail) == IF head # {} /\ \A h \in head, t \in tail : h.len >= t.len THEN head ELSE tail

(* An element of the list against the path.                                 *)
LEMMA HeadHitIs ==
  ASSUME NEW prefixes \in TextLists, NEW path \in Texts, NEW n \in 1 .. Len(prefixes)
  PROVE  /\ HeadHit(prefixes, path, n) =
              IF Begins(Trim(prefixes[n]), Trim(path))
              THEN {[index |-> n, len |-> Len(Trim(prefixes[n]))]} ELSE {}
         /\ HeadHit(prefixes, path, n) \in SUBSET Hits
<1>1. prefixes[n] \in Texts /\ Len(prefixes) \in Nat
  BY DEF TextLists
<1>2. Len(Trim(prefixes[n])) \in Nat
  BY <1>1, TrimKeepsSegments, TextsAre
<1>3. PathPrefixLen(prefixes[n], path) =
        IF Begins(Trim(prefixes[n]), Trim(path)) THEN {Len(Trim(prefixes[n]))} ELSE {}
  BY DEF PathPrefixLen, Begins
<1>4. HeadHit(prefixes, path, n) =
        IF Begins(Trim(prefixes[n]), Trim(path))
        THEN {[index |-> n, len |-> Len(Trim(prefixes[n]))]} ELSE {}
  BY <1>3 DEF HeadHit
<1> QED
  BY <1>1, <1>2, <1>4 DEF Hits

(* Matching is the function its definition describes.                       *)
LEMMA MatchingIs ==
  ASSUME NEW prefixes \in TextLists, NEW path \in Texts
  PROVE  LET match == Matching(prefixes, path)
         IN /\ match[0] = {}
            /\ \A k \in 1 .. Len(prefixes) :
                 match[k] = Kept(HeadHit(prefixes, path, Len(prefixes) - k + 1), match[k - 1])
<1> DEFINE len == Len(prefixes)
           X == SUBSET Hits
           Then(k, tail) == Kept(HeadHit(prefixes, path, len - k + 1), tail)
           step == [k \in 1 .. len |-> [tail \in X |-> Then(k, tail)]]
<1>0. len \in Nat /\ {} \in X
  BY DEF TextLists
<1>1. ASSUME NEW k \in 1 .. len, NEW tail \in X
      PROVE  Then(k, tail) \in X
  <2>1. len - k + 1 \in 1 .. len
    BY <1>0
  <2>2. HeadHit(prefixes, path, len - k + 1) \in X
    BY <2>1, HeadHitIs
  <2> HIDE DEF X
  <2> QED
    BY <2>2 DEF Kept
<1>2. step \in [1 .. len -> [X -> X]]
  <2> HIDE DEF Then, X, len
  <2> QED
    BY <1>1
<1>3. PICK f \in [0 .. len -> X] :
        f[0] = {} /\ \A k \in 1 .. len : f[k] = step[k][f[k - 1]]
  <2> HIDE DEF step, len, X
  <2> QED
    BY <1>0, <1>2, Iterates
<1>4. \A k \in 1 .. len : f[k] = Then(k, f[k - 1])
  <2> HIDE DEF Then, X, len
  <2>1. \A k \in 1 .. len : k - 1 \in 0 .. len /\ f[k - 1] \in X
    BY <1>0
  <2> QED
    BY <1>3, <2>1
<1>5. f = [k \in 0 .. len |-> IF k = 0 THEN {} ELSE Then(k, f[k - 1])]
  <2> HIDE DEF Then, X
  <2> QED
    BY <1>0, <1>3, <1>4
<1>6. Matching(prefixes, path)
        = CHOOSE g : g = [k \in 0 .. len |-> IF k = 0 THEN {} ELSE Then(k, g[k - 1])]
  BY DEF Matching, Kept, HeadHit
<1>7. PICK g : g = Matching(prefixes, path)
  OBVIOUS
<1>8. g = [k \in 0 .. len |-> IF k = 0 THEN {} ELSE Then(k, g[k - 1])]
  <2> HIDE DEF len, Then
  <2> QED
    BY <1>5, <1>6, <1>7
<1>9. g[0] = {} /\ \A k \in 1 .. len : g[k] = Then(k, g[k - 1])
  <2> HIDE DEF Then
  <2>1. 0 \in 0 .. len /\ \A k \in 1 .. len : k \in 0 .. len /\ k # 0
    BY <1>0
  <2> QED
    BY <1>8, <2>1
<1> QED
  BY <1>7, <1>9

(* What a list matches: one of its elements that begin the path, none of    *)
(* them longer; nothing if none does.                                       *)
BestOf(prefixes, path, from, hit) ==
  LET begins(n) == Begins(Trim(prefixes[n]), Trim(path))
  IN \/ hit = {} /\ \A n \in from .. Len(prefixes) : ~begins(n)
     \/ \E n \in from .. Len(prefixes) :
          /\ begins(n) /\ hit = {[index |-> n, len |-> Len(Trim(prefixes[n]))]}
          /\ \A m \in from .. Len(prefixes) :
               begins(m) => Len(Trim(prefixes[m])) <= Len(Trim(prefixes[n]))

(* The rule of one element against the best of the rest.                    *)
LEMMA KeepsBest ==
  ASSUME NEW prefixes \in TextLists, NEW path \in Texts, NEW n \in 1 .. Len(prefixes),
         NEW hit, BestOf(prefixes, path, n + 1, hit)
  PROVE  BestOf(prefixes, path, n, Kept(HeadHit(prefixes, path, n), hit))
<1> DEFINE begins(i) == Begins(Trim(prefixes[i]), Trim(path))
           size(i) == Len(Trim(prefixes[i]))
           best(i, from) == /\ begins(i)
                            /\ \A m \in from .. Len(prefixes) : begins(m) => size(m) <= size(i)
<1>1. Len(prefixes) \in Nat /\ \A i \in 1 .. Len(prefixes) : size(i) \in Nat
  <2>1. Len(prefixes) \in Nat /\ \A i \in 1 .. Len(prefixes) : prefixes[i] \in Texts
    BY DEF TextLists
  <2> QED
    BY <2>1, TrimKeepsSegments, TextsAre
<1>2. HeadHit(prefixes, path, n) = IF begins(n) THEN {[index |-> n, len |-> size(n)]} ELSE {}
  BY HeadHitIs
<1>3. \A i : i \in n .. Len(prefixes) <=> i = n \/ i \in n + 1 .. Len(prefixes)
  BY <1>1
<1>4. BestOf(prefixes, path, n, {}) <=> \A i \in n .. Len(prefixes) : ~begins(i)
  BY DEF BestOf
<1>5. \A i \in n .. Len(prefixes) :
        best(i, n) => BestOf(prefixes, path, n, {[index |-> i, len |-> size(i)]})
  BY DEF BestOf
<1>6. \/ hit = {} /\ \A i \in n + 1 .. Len(prefixes) : ~begins(i)
      \/ \E i \in n + 1 .. Len(prefixes) :
           best(i, n + 1) /\ hit = {[index |-> i, len |-> size(i)]}
  BY DEF BestOf
<1> HIDE DEF begins, size
<1>7. CASE hit = {} /\ \A i \in n + 1 .. Len(prefixes) : ~begins(i)
  <2>1. CASE begins(n)
    <3>1. Kept(HeadHit(prefixes, path, n), hit) = {[index |-> n, len |-> size(n)]}
      BY <1>2, <1>7, <2>1 DEF Kept
    <3>2. n \in n .. Len(prefixes) /\ best(n, n)
      BY <1>1, <1>3, <1>7, <2>1
    <3> QED
      BY <1>5, <3>1, <3>2
  <2>2. CASE ~begins(n)
    <3>1. Kept(HeadHit(prefixes, path, n), hit) = {}
      BY <1>2, <1>7, <2>2 DEF Kept
    <3> QED
      BY <1>3, <1>4, <1>7, <2>2, <3>1
  <2> QED
    BY <2>1, <2>2
<1>8. ASSUME NEW i \in n + 1 .. Len(prefixes),
             best(i, n + 1), hit = {[index |-> i, len |-> size(i)]}
      PROVE  BestOf(prefixes, path, n, Kept(HeadHit(prefixes, path, n), hit))
  <2>0. i \in n .. Len(prefixes) /\ n \in n .. Len(prefixes) /\ size(i) \in Nat /\ size(n) \in Nat
    BY <1>1, <1>3
  <2>1. CASE begins(n) /\ size(n) >= size(i)
    <3>1. Kept(HeadHit(prefixes, path, n), hit) = {[index |-> n, len |-> size(n)]}
      <4>1. PICK head : head = HeadHit(prefixes, path, n)
        OBVIOUS
      <4>2. head = {[index |-> n, len |-> size(n)]}
        BY <1>2, <2>1, <4>1
      <4>3. \A h \in head, t \in hit : h.len >= t.len
        BY <1>8, <2>1, <4>2
      <4> QED
        BY <4>1, <4>2, <4>3 DEF Kept
    <3>2. best(n, n)
      BY <1>1, <1>3, <1>8, <2>0, <2>1
    <3> QED
      BY <1>5, <2>0, <3>1, <3>2
  <2>2. CASE ~(begins(n) /\ size(n) >= size(i))
    <3>1. Kept(HeadHit(prefixes, path, n), hit) = {[index |-> i, len |-> size(i)]}
      BY <1>2, <1>8, <2>2 DEF Kept
    <3>2. best(i, n)
      BY <1>1, <1>3, <1>8, <2>0, <2>2
    <3> QED
      BY <1>5, <2>0, <3>1, <3>2
  <2> QED
    BY <2>1, <2>2
<1> QED
  BY <1>6, <1>7, <1>8

(* And so of the whole list.                                                *)
LEMMA MatchListIs ==
  ASSUME NEW prefixes \in TextLists, NEW path \in Texts
  PROVE  BestOf(prefixes, path, 1, MatchList(prefixes, path))
<1> DEFINE len == Len(prefixes)
           match == Matching(prefixes, path)
           S == {k \in Nat : k <= len => BestOf(prefixes, path, len - k + 1, match[k])}
<1>0. len \in Nat
  BY DEF TextLists
<1>1. 0 \in S
  <2>1. match[0] = {} /\ (len - 0 + 1) .. len = {}
    BY <1>0, MatchingIs
  <2> QED
    BY <2>1 DEF BestOf
<1>2. ASSUME NEW k \in Nat, k \in S
      PROVE  k + 1 \in S
  <2> SUFFICES ASSUME k + 1 <= len
               PROVE  BestOf(prefixes, path, len - (k + 1) + 1, match[k + 1])
    OBVIOUS
  <2>1. PICK n \in 1 .. len : n = len - k
    BY <1>0
  <2>2. k + 1 \in 1 .. len /\ (k + 1) - 1 = k /\ len - (k + 1) + 1 = n /\ len - k + 1 = n + 1
    BY <1>0, <2>1
  <2>3. match[k + 1] = Kept(HeadHit(prefixes, path, n), match[k])
    <3> HIDE DEF match
    <3>1. match[k + 1] = Kept(HeadHit(prefixes, path, len - (k + 1) + 1), match[(k + 1) - 1])
      BY <2>2, MatchingIs DEF match
    <3> QED
      BY <2>2, <3>1
  <2>4. BestOf(prefixes, path, n + 1, match[k])
    <3> HIDE DEF match
    <3> QED
      BY <1>0, <1>2, <2>2
  <2>5. BestOf(prefixes, path, n, Kept(HeadHit(prefixes, path, n), match[k]))
    BY <2>4, KeepsBest
  <2> QED
    BY <2>2, <2>3, <2>5
<1> HIDE DEF S
<1>3. Nat \subseteq S
  BY <1>1, <1>2, Counting
<1>4. len \in S /\ len - len + 1 = 1
  BY <1>0, <1>3
<1> QED
  BY <1>0, <1>4 DEF S, MatchList

(* Where no text has an empty segment inside it, what a list matches is the *)
(* longest of its paths by segments.                                        *)
LEMMA MatchIsLongest ==
  ASSUME NEW prefixes \in TextLists, NEW path \in Texts, Canonical(path),
         \A n \in 1 .. Len(prefixes) : Canonical(prefixes[n])
  PROVE  \/ MatchList(prefixes, path) = {} /\ Longest(PathsOf(prefixes), Split(path)) = {}
         \/ \E n \in 1 .. Len(prefixes) :
              /\ MatchList(prefixes, path) = {[index |-> n, len |-> Len(Trim(prefixes[n]))]}
              /\ Split(prefixes[n]) \in Longest(PathsOf(prefixes), Split(path))
              /\ Begins(Trim(prefixes[n]), Trim(path))
<1> DEFINE begins(n) == Begins(Trim(prefixes[n]), Trim(path))
           size(n) == Len(Trim(prefixes[n]))
           long(n) == Len(Split(prefixes[n]))
           match == MatchList(prefixes, path)
<1>1. \A n \in 1 .. Len(prefixes) :
        /\ prefixes[n] \in Texts /\ Plain(Trim(prefixes[n]))
        /\ Split(Trim(prefixes[n])) = Split(prefixes[n])
  <2>1. \A n \in 1 .. Len(prefixes) : prefixes[n] \in Texts
    BY DEF TextLists
  <2> QED
    BY <2>1, CanonicalIsPlain, TrimKeepsSegments
<1>2. Plain(Trim(path)) /\ Split(Trim(path)) = Split(path)
  BY CanonicalIsPlain, TrimKeepsSegments
<1>3. \A n \in 1 .. Len(prefixes) : begins(n) <=> IsPrefix(Split(prefixes[n]), Split(path))
  <2> SUFFICES ASSUME NEW n \in 1 .. Len(prefixes)
               PROVE  begins(n) <=> IsPrefix(Split(prefixes[n]), Split(path))
    OBVIOUS
  <2>1. PICK p, q : p = Trim(prefixes[n]) /\ q = Trim(path)
    OBVIOUS
  <2>2. Plain(p) /\ Plain(q) /\ Split(p) = Split(prefixes[n]) /\ Split(q) = Split(path)
    BY <1>1, <1>2, <2>1
  <2>3. Begins(p, q) <=> IsPrefix(Split(p), Split(q))
    BY <2>2, BeginsBySegments
  <2> QED
    BY <2>1, <2>2, <2>3
<1>4. \A m, n \in 1 .. Len(prefixes) :
        begins(m) /\ begins(n) => (size(m) <= size(n) <=> long(m) <= long(n))
  <2> SUFFICES ASSUME NEW m \in 1 .. Len(prefixes), NEW n \in 1 .. Len(prefixes),
                      begins(m), begins(n)
               PROVE  size(m) <= size(n) <=> long(m) <= long(n)
    OBVIOUS
  <2>1. PICK p, r, q : p = Trim(prefixes[m]) /\ r = Trim(prefixes[n]) /\ q = Trim(path)
    OBVIOUS
  <2>2. /\ Plain(p) /\ Plain(r) /\ Plain(q)
        /\ Split(p) = Split(prefixes[m]) /\ Split(r) = Split(prefixes[n])
    BY <1>1, <1>2, <2>1
  <2>3. Len(p) <= Len(r) <=> Len(Split(p)) <= Len(Split(r))
    BY <2>1, <2>2, LongerHasMore
  <2> QED
    BY <2>1, <2>2, <2>3
<1>5. \/ match = {} /\ \A n \in 1 .. Len(prefixes) : ~begins(n)
      \/ \E n \in 1 .. Len(prefixes) :
           /\ begins(n) /\ match = {[index |-> n, len |-> size(n)]}
           /\ \A m \in 1 .. Len(prefixes) : begins(m) => size(m) <= size(n)
  BY MatchListIs DEF BestOf
<1>6. \A p : p \in PathsOf(prefixes) <=> \E n \in 1 .. Len(prefixes) : p = Split(prefixes[n])
  BY DEF PathsOf
<1> HIDE DEF begins, size, match
<1>7. CASE match = {} /\ \A n \in 1 .. Len(prefixes) : ~begins(n)
  <2>1. Longest(PathsOf(prefixes), Split(path)) = {}
    BY <1>3, <1>6, <1>7 DEF Longest
  <2> QED
    BY <1>7, <2>1 DEF match
<1>8. ASSUME NEW n \in 1 .. Len(prefixes),
             begins(n), match = {[index |-> n, len |-> size(n)]},
             \A m \in 1 .. Len(prefixes) : begins(m) => size(m) <= size(n)
      PROVE  Split(prefixes[n]) \in Longest(PathsOf(prefixes), Split(path))
  <2>1. \A p \in PathsOf(prefixes) : IsPrefix(p, Split(path)) => Len(p) <= Len(Split(prefixes[n]))
    BY <1>3, <1>4, <1>6, <1>8
  <2>2. Split(prefixes[n]) \in PathsOf(prefixes) /\ IsPrefix(Split(prefixes[n]), Split(path))
    BY <1>3, <1>6, <1>8
  <2> QED
    BY <2>1, <2>2 DEF Longest
<1> QED
  BY <1>5, <1>7, <1>8 DEF match, begins, size

-----------------------------------------------------------------------------
(* The inline routers hold what was asked, the last first: every interface, *)
(* taken or not, each with its services the last first.                     *)
RouteOf(r) == [interface |-> r.interface, services |-> Reverse(r.services)]
RoutesHold ==
  /\ asked \in Seq(Registrations)
  /\ routes \in Seq([interface : InterfaceTexts, services : Seq(ServiceTexts)])
  /\ Len(routes) = Len(asked)
  /\ \A n \in 1 .. Len(asked) : routes[Len(asked) + 1 - n] = RouteOf(asked[n])

(* A step puts what it asks for in front of them.                           *)
LEMMA RoutesStep ==
  ASSUME RoutesHold, [Next]_vars
  PROVE  RoutesHold'
<1>1. CASE UNCHANGED vars
  BY <1>1 DEF RoutesHold, RouteOf, vars
<1>2. CASE Next
  <2>1. PICK i \in InterfaceTexts, n \in 1 .. MaxServices :
          \E services \in [1 .. n -> ServiceTexts] : Register(i, services)
    BY <1>2 DEF Next
  <2>2. PICK services \in [1 .. n -> ServiceTexts] : Register(i, services)
    BY <2>1
  <2>3. services \in Seq(ServiceTexts)
    <3>1. n \in Nat
      BY RoutingAssumption
    <3> QED
      BY <2>2, <3>1
  <2>4. PICK done \in BOOLEAN :
          asked' = Append(asked, [interface |-> i, services |-> services, done |-> done])
    BY <2>2 DEF Register, AddInterface
  <2>5. PICK r, x : /\ r = [interface |-> i, services |-> services, done |-> done]
                    /\ x = [interface |-> i, services |-> Reverse(services)]
    OBVIOUS
  <2>6. PICK X : X = [interface : InterfaceTexts, services : Seq(ServiceTexts)]
    OBVIOUS
  <2>7. r \in Registrations /\ x \in X /\ x = RouteOf(r)
    BY <2>3, <2>5, <2>6, ReverseIs DEF Registrations, RouteOf
  <2>8. asked' = Append(asked, r) /\ routes' = <<x>> \o routes
    BY <2>2, <2>4, <2>5 DEF Register, Call
  <2>9. PICK len \in Nat : len = Len(asked) /\ len = Len(routes)
    BY DEF RoutesHold
  <2>10. /\ asked' \in Seq(Registrations) /\ Len(asked') = len + 1
         /\ asked'[len + 1] = r /\ \A m \in 1 .. len : asked'[m] = asked[m]
    BY <2>7, <2>8, <2>9 DEF RoutesHold
  <2>11. /\ routes' \in Seq(X) /\ Len(routes') = len + 1
         /\ routes'[1] = x /\ \A m \in 1 .. len : routes'[m + 1] = routes[m]
    <3>1. routes \in Seq(X) /\ <<x>> \in Seq(X) /\ Len(<<x>>) = 1
      BY <2>6, <2>7 DEF RoutesHold
    <3> QED
      BY <2>8, <2>9, <3>1
  <2>12. ASSUME NEW m \in 1 .. len + 1
         PROVE  routes'[(len + 1) + 1 - m] = RouteOf(asked'[m])
    <3>1. CASE m = len + 1
      <4>1. (len + 1) + 1 - m = 1
        BY <3>1
      <4> QED
        BY <2>7, <2>10, <2>11, <3>1, <4>1
    <3>2. CASE m # len + 1
      <4>1. m \in 1 .. len /\ len + 1 - m \in 1 .. len /\ (len + 1) + 1 - m = (len + 1 - m) + 1
        BY <3>2
      <4>2. routes[len + 1 - m] = RouteOf(asked[m])
        BY <2>9, <4>1 DEF RoutesHold
      <4> QED
        BY <2>10, <2>11, <4>1, <4>2
    <3> QED
      BY <3>1, <3>2
  <2>13. \A m \in 1 .. len + 1 : RouteOf(asked[m])' = RouteOf(asked'[m])
    BY DEF RouteOf
  <2> QED
    BY <2>6, <2>10, <2>11, <2>12, <2>13 DEF RoutesHold
<1> QED
  BY <1>1, <1>2

(* Everything was taken, and no text of it has an empty segment inside.     *)
AllCanonical ==
  \A n \in 1 .. Len(asked) :
    asked[n].done /\ \A t \in {asked[n].interface} \cup ToSet(asked[n].services) : Canonical(t)

(* The services an inline router finds once it has matched an interface.    *)
ServicesOf(r, l) ==
  UNION {{[interface |-> routes[r.index].interface,
           service |-> routes[r.index].services[s.index]] :
            s \in MatchList(routes[r.index].services, rest)} :
         rest \in StripInterfacePrefix(routes[r.index].interface, l)}

Interfaces == [n \in 1 .. Len(routes) |-> routes[n].interface]

(* InlineResolve, by these.                                                 *)
LEMMA InlineIs ==
  ASSUME NEW l
  PROVE  InlineResolve(l) = UNION {ServicesOf(r, l) : r \in MatchList(Interfaces, l)}
BY DEF InlineResolve, ServicesOf, Interfaces, MatchService

(* What that gives for each registration.                                   *)
LEMMA AllCanonicalIs ==
  ASSUME TrieHolds, AllCanonical
  PROVE  /\ Taken = 1 .. Len(asked)
         /\ \A n \in Taken : Canonical(asked[n].interface)
         /\ \A n \in Taken : \A k \in 1 .. Len(asked[n].services) : Canonical(asked[n].services[k])
<1>1. Taken = 1 .. Len(asked)
  BY DEF Taken, AllCanonical
<1>2. \A n \in Taken : Canonical(asked[n].interface)
  BY <1>1 DEF AllCanonical
<1>3. ASSUME NEW n \in Taken, NEW k \in 1 .. Len(asked[n].services)
      PROVE  Canonical(asked[n].services[k])
  <2>1. PICK services : services = asked[n].services
    OBVIOUS
  <2>2. services[k] \in ToSet(services)
    BY <2>1 DEF ToSet
  <2> QED
    BY <1>1, <2>1, <2>2 DEF AllCanonical
<1> QED
  BY <1>1, <1>2, <1>3

(* The list of interfaces matches what the trie of interfaces finds.        *)
LEMMA InterfaceMatched ==
  ASSUME TrieHolds, RoutesHold, AllCanonical, NEW l \in Locations, Canonical(l)
  PROVE  \/ MatchList(Interfaces, l) = {} /\ Longest(PathsTaken, Split(l)) = {}
         \/ \E n \in Taken : \E r \in MatchList(Interfaces, l) :
              /\ MatchList(Interfaces, l) = {r} /\ routes[r.index] = RouteOf(asked[n])
              /\ PathOf(n) \in Longest(PathsTaken, Split(l))
              /\ Begins(Trim(asked[n].interface), Trim(l))
<1>1. PICK len \in Nat : len = Len(asked) /\ len = Len(routes)
  BY DEF RoutesHold
<1>2. \A n \in 1 .. len : /\ n \in Taken /\ len + 1 - n \in 1 .. len
                          /\ routes[len + 1 - n] = RouteOf(asked[n])
                          /\ len + 1 - (len + 1 - n) = n
  <2>1. \A n \in 1 .. len : len + 1 - n \in 1 .. len /\ len + 1 - (len + 1 - n) = n
    OBVIOUS
  <2>2. \A n \in 1 .. len : n \in Taken
    BY <1>1, AllCanonicalIs
  <2>3. \A n \in 1 .. len : routes[len + 1 - n] = RouteOf(asked[n])
    BY <1>1 DEF RoutesHold
  <2> QED
    BY <2>1, <2>2, <2>3
<1>3. \A n \in 1 .. len : Interfaces[len + 1 - n] = asked[n].interface
  <2>1. \A j \in 1 .. len : Interfaces[j] = routes[j].interface
    BY <1>1 DEF Interfaces
  <2>2. \A n \in 1 .. len : RouteOf(asked[n]).interface = asked[n].interface
    BY DEF RouteOf
  <2> QED
    BY <1>2, <2>1, <2>2
<1>4. \A j \in 1 .. len : len + 1 - j \in 1 .. len /\ len + 1 - (len + 1 - j) = j
  OBVIOUS
<1>5. \A j \in 1 .. len : /\ Interfaces[j] = asked[len + 1 - j].interface
                          /\ routes[j] = RouteOf(asked[len + 1 - j])
  BY <1>2, <1>3, <1>4
<1>6. Interfaces \in TextLists /\ Len(Interfaces) = len
  <2>1. \A j \in 1 .. len : Interfaces[j] \in Texts
    BY <1>2, <1>4, <1>5, TakenAreTexts
  <2>2. Interfaces = [j \in 1 .. len |-> Interfaces[j]]
    BY <1>1 DEF Interfaces
  <2> HIDE DEF Interfaces
  <2>3. Interfaces \in [1 .. len -> Texts]
    BY <2>1, <2>2
  <2> QED
    BY <2>3 DEF TextLists
<1>7. \A p : p \in PathsOf(Interfaces) <=> p \in PathsTaken
  <2>1. \A p : p \in PathsOf(Interfaces) <=> \E j \in 1 .. len : p = Split(Interfaces[j])
    BY <1>6 DEF PathsOf
  <2>2. \A p : p \in PathsTaken <=> \E n \in 1 .. len : p = Split(asked[n].interface)
    BY <1>1, AllCanonicalIs DEF PathsTaken, PathOf
  <2>3. ASSUME NEW j \in 1 .. len
        PROVE  Split(Interfaces[j]) \in PathsTaken
    BY <1>4, <1>5, <2>2
  <2>4. ASSUME NEW n \in 1 .. len
        PROVE  Split(asked[n].interface) \in PathsOf(Interfaces)
    BY <1>2, <1>3, <2>1
  <2> QED
    BY <2>1, <2>2, <2>3, <2>4
<1>8. PathsOf(Interfaces) = PathsTaken
  BY <1>7
<1>9. \A j \in 1 .. len : Canonical(Interfaces[j])
  BY <1>2, <1>4, <1>5, AllCanonicalIs
<1>10. l \in Texts
  BY RoutingAssumption DEF Texts
<1>11. \/ MatchList(Interfaces, l) = {} /\ Longest(PathsTaken, Split(l)) = {}
       \/ \E j \in 1 .. len :
            /\ MatchList(Interfaces, l) = {[index |-> j, len |-> Len(Trim(Interfaces[j]))]}
            /\ Split(Interfaces[j]) \in Longest(PathsTaken, Split(l))
            /\ Begins(Trim(Interfaces[j]), Trim(l))
  BY <1>6, <1>8, <1>9, <1>10, MatchIsLongest
<1>12. ASSUME NEW j \in 1 .. len,
              MatchList(Interfaces, l) = {[index |-> j, len |-> Len(Trim(Interfaces[j]))]},
              Split(Interfaces[j]) \in Longest(PathsTaken, Split(l)),
              Begins(Trim(Interfaces[j]), Trim(l))
       PROVE  \E n \in Taken : \E r \in MatchList(Interfaces, l) :
                /\ MatchList(Interfaces, l) = {r} /\ routes[r.index] = RouteOf(asked[n])
                /\ PathOf(n) \in Longest(PathsTaken, Split(l))
                /\ Begins(Trim(asked[n].interface), Trim(l))
  <2>1. PICK r : r = [index |-> j, len |-> Len(Trim(Interfaces[j]))]
    OBVIOUS
  <2>2. PICK n \in 1 .. len : n = len + 1 - j
    BY <1>4
  <2>3. routes[r.index] = RouteOf(asked[n]) /\ n \in Taken /\ Interfaces[j] = asked[n].interface
    BY <1>2, <1>5, <2>1, <2>2
  <2> QED
    BY <1>12, <2>1, <2>3 DEF PathOf
<1> QED
  BY <1>11, <1>12

(* The list of an interface's services matches what its trie finds.         *)
LEMMA ServiceMatched ==
  ASSUME TrieHolds, AllCanonical, NEW l \in Locations, Canonical(l),
         NEW n \in Taken, NEW r, routes[r.index] = RouteOf(asked[n]),
         Begins(Trim(asked[n].interface), Trim(l))
  PROVE  LET services == asked[n].services
             best == Longest(PathsOf(services), RestAt(l, n))
         IN \/ ServicesOf(r, l) = {} /\ best = {}
            \/ \E k \in 1 .. Len(services) :
                 ServicesOf(r, l) = {Answered(n, k)} /\ Split(services[k]) \in best
<1>1. PICK i, services, back :
        i = asked[n].interface /\ services = asked[n].services /\ back = Reverse(services)
  OBVIOUS
<1>2. l \in Texts /\ i \in Texts /\ services \in TextLists /\ Canonical(i)
  BY <1>1, RoutingAssumption, TakenAreTexts, AllCanonicalIs DEF Texts
<1>3. /\ back \in TextLists /\ Len(back) = Len(services) /\ Len(services) \in Nat
      /\ \A k \in 1 .. Len(services) : Len(services) + 1 - k \in 1 .. Len(services)
                                       /\ back[Len(services) + 1 - k] = services[k]
                                       /\ back[k] = services[Len(services) + 1 - k]
  BY <1>1, <1>2, ReverseIs DEF TextLists
<1>4. \A k \in 1 .. Len(back) : Canonical(back[k])
  BY <1>1, <1>3, AllCanonicalIs
<1>5. PICK rest : /\ StripInterfacePrefix(i, l) = {rest} /\ Plain(rest)
                  /\ Split(rest) = After(Split(l), Len(Split(i)))
  <2>1. Plain(Trim(i)) /\ Plain(Trim(l)) /\ Begins(Trim(i), Trim(l))
    BY <1>1, <1>2, CanonicalIsPlain
  <2> QED
    BY <1>2, <2>1, StripLeavesSegments
<1>6. Split(rest) = RestAt(l, n)
  BY <1>1, <1>5 DEF RestAt, PathOf
<1>7. rest \in Texts /\ Canonical(rest)
  <2>1. rest \in Texts /\ Trim(rest) = rest
    BY <1>5, PlainIsTrimmed DEF Plain
  <2>2. \A m \in 1 .. Len(rest) - 1 : SubSeq(rest, m, m + 1) # <<Slash, Slash>>
    <3> SUFFICES ASSUME NEW m \in 1 .. Len(rest) - 1, SubSeq(rest, m, m + 1) = <<Slash, Slash>>
                 PROVE  FALSE
      OBVIOUS
    <3>1. Len(rest) \in Nat
      BY <2>1, TextsAre
    <3>2. m \in 1 .. Len(rest) /\ m + 1 \in m .. Len(rest) /\ (m + 1) - m + 1 = 2
      BY <3>1
    <3>3. \A j \in 1 .. 2 : SubSeq(rest, m, m + 1)[j] = rest[m + j - 1]
      BY <2>1, <3>2, PartIs
    <3>4. rest[m] = Slash /\ rest[m + 1] = Slash
      <4>1. m + 1 - 1 = m /\ m + 2 - 1 = m + 1 /\ 1 \in 1 .. 2 /\ 2 \in 1 .. 2
        OBVIOUS
      <4>2. <<Slash, Slash>>[1] = Slash /\ <<Slash, Slash>>[2] = Slash
        OBVIOUS
      <4> QED
        BY <3>3, <4>1, <4>2
    <3> QED
      BY <1>5, <3>4 DEF Plain
  <2> QED
    BY <2>1, <2>2 DEF Canonical
<1>8. PICK match : match = MatchList(back, rest)
  OBVIOUS
<1>9. PathsOf(back) = PathsOf(services)
  <2>1. \A p : p \in PathsOf(back) <=> \E k \in 1 .. Len(services) : p = Split(back[k])
    BY <1>3 DEF PathsOf
  <2>2. \A p : p \in PathsOf(services) <=> \E k \in 1 .. Len(services) : p = Split(services[k])
    BY DEF PathsOf
  <2>3. \A k \in 1 .. Len(services) : Split(back[k]) \in PathsOf(services)
    BY <1>3, <2>2
  <2>4. \A k \in 1 .. Len(services) : Split(services[k]) \in PathsOf(back)
    BY <1>3, <2>1
  <2>5. \A p : p \in PathsOf(back) <=> p \in PathsOf(services)
    BY <2>1, <2>2, <2>3, <2>4
  <2> QED
    BY <2>5
<1>10. PICK best : best = Longest(PathsOf(services), RestAt(l, n))
  OBVIOUS
<1>11. \/ match = {} /\ best = {}
       \/ \E j \in 1 .. Len(services) :
            /\ match = {[index |-> j, len |-> Len(Trim(back[j]))]}
            /\ Split(back[j]) \in best
  BY <1>3, <1>4, <1>6, <1>7, <1>8, <1>9, <1>10, MatchIsLongest
<1>12. routes[r.index].interface = i /\ routes[r.index].services = back
  BY <1>1 DEF RouteOf
<1>13. ServicesOf(r, l) = {[interface |-> i, service |-> back[s.index]] : s \in match}
  BY <1>5, <1>8, <1>12 DEF ServicesOf
<1>14. ASSUME NEW j \in 1 .. Len(services),
              match = {[index |-> j, len |-> Len(Trim(back[j]))]}, Split(back[j]) \in best
       PROVE  \E k \in 1 .. Len(services) :
                ServicesOf(r, l) = {Answered(n, k)} /\ Split(services[k]) \in best
  <2>1. PICK k \in 1 .. Len(services) : back[j] = services[k]
    BY <1>3
  <2>2. ServicesOf(r, l) = {[interface |-> i, service |-> back[j]]}
    BY <1>13, <1>14
  <2>3. Answered(n, k) = [interface |-> i, service |-> back[j]]
    BY <1>1, <2>1 DEF Answered, EntryOf
  <2> QED
    BY <1>14, <2>1, <2>2, <2>3
<1>15. match = {} => ServicesOf(r, l) = {}
  BY <1>13
<1> QED
  BY <1>1, <1>10, <1>11, <1>14, <1>15

(* Both find one thing, or neither finds any.                               *)
LEMMA InlineFinds ==
  ASSUME TrieHolds, RoutesHold, AllCanonical, NEW l \in Locations, Canonical(l)
  PROVE  InlineResolve(l) = Resolve(l)
<1>1. CASE MatchList(Interfaces, l) = {} /\ Longest(PathsTaken, Split(l)) = {}
  <2>1. InlineResolve(l) = {}
    BY <1>1, InlineIs
  <2>2. Resolve(l) = {}
    BY <1>1, ResolveIs DEF Answers
  <2> QED
    BY <2>1, <2>2
<1>2. ASSUME NEW n \in Taken, NEW r,
             MatchList(Interfaces, l) = {r}, routes[r.index] = RouteOf(asked[n]),
             PathOf(n) \in Longest(PathsTaken, Split(l)),
             Begins(Trim(asked[n].interface), Trim(l))
      PROVE  InlineResolve(l) = Resolve(l)
  <2>1. InlineResolve(l) = ServicesOf(r, l)
    BY <1>2, InlineIs
  <2>2. \A m \in Taken : PathOf(m) \in Longest(PathsTaken, Split(l)) => m = n
    <3>1. Split(l) \in TextLists /\ PathsTaken \in SUBSET TextLists
      BY LocationsAreTexts, TakenAreTexts DEF PathsTaken
    <3>2. \A m \in Taken : PathOf(m) \in Longest(PathsTaken, Split(l)) => PathOf(m) = PathOf(n)
      BY <1>2, <3>1, LongestIsOne DEF TextLists
    <3> QED
      BY <3>2 DEF TrieHolds
  <2>3. PICK best : best = Longest(PathsOf(asked[n].services), RestAt(l, n))
    OBVIOUS
  <2>4. \A x : x \in Resolve(l) <=>
          \E k \in 1 .. Len(asked[n].services) :
            Split(asked[n].services[k]) \in best /\ x = Answered(n, k)
    BY <1>2, <2>2, <2>3, ResolveIs DEF Answers
  <2>5. CASE ServicesOf(r, l) = {} /\ best = {}
    BY <2>1, <2>4, <2>5
  <2>6. ASSUME NEW k \in 1 .. Len(asked[n].services),
               ServicesOf(r, l) = {Answered(n, k)}, Split(asked[n].services[k]) \in best
        PROVE  InlineResolve(l) = Resolve(l)
    <3>1. \A j \in 1 .. Len(asked[n].services) : Split(asked[n].services[j]) \in best => j = k
      BY <1>2, <2>3, <2>6, AnswerIsOne DEF Answers
    <3>2. \A x : x \in Resolve(l) <=> x = Answered(n, k)
      BY <2>4, <2>6, <3>1
    <3> QED
      BY <2>1, <2>6, <3>2
  <2>7. \/ ServicesOf(r, l) = {} /\ best = {}
        \/ \E k \in 1 .. Len(asked[n].services) :
             ServicesOf(r, l) = {Answered(n, k)} /\ Split(asked[n].services[k]) \in best
    BY <1>2, <2>3, ServiceMatched
  <2> QED
    BY <2>5, <2>6, <2>7
<1> QED
  BY <1>1, <1>2, InterfaceMatched

(* Where every registration was taken and no text has an empty segment      *)
(* inside it, the inline routers, which compare texts, find the service the *)
(* trie router finds (path_prefix_len_, match_route and                     *)
(* strip_interface_prefix_ against RpcRouter::resolve).                     *)
THEOREM InlineAgrees == Spec => []RoutersAgree
<1>1. Init => RoutesHold
  <2> SUFFICES ASSUME Init
               PROVE  RoutesHold
    OBVIOUS
  <2>1. \A T : << >> \in Seq(T)
    OBVIOUS
  <2>2. asked = << >> /\ routes = << >> /\ Len(<< >>) = 0
    BY DEF Init
  <2> QED
    BY <2>1, <2>2 DEF RoutesHold
<1>2. TrieHolds /\ RoutesHold => RoutersAgree
  <2> SUFFICES ASSUME TrieHolds, RoutesHold, AllCanonical, NEW l \in Locations, Canonical(l)
               PROVE  InlineResolve(l) = Resolve(l)
    BY DEF RoutersAgree, AllCanonical
  <2> QED
    BY InlineFinds
<1> QED
  BY <1>1, <1>2, RoutesStep, TrieIsWhatItTook, PTL DEF Spec

-----------------------------------------------------------------------------
(* Paths the macro lets through, joined and taken apart again.              *)

(* A text the macro takes for a path is plain.                              *)
LEMMA ValidIsPlain ==
  ASSUME NEW text \in Texts, ValidatePath(text)
  PROVE  Plain(text) /\ Trim(text) = text /\ text # << >> /\ Len(text) \in Nat \ {0}
<1>1. text \in Seq(Chars) /\ Len(text) \in Nat \ {0}
  BY TextsAre DEF ValidatePath
<1>2. ASSUME NEW n \in 1 .. Len(text) - 1, text[n] = Slash, text[n + 1] = Slash
      PROVE  FALSE
  <2>1. PICK s : s = SubSeq(text, n, n + 1)
    OBVIOUS
  <2>2. n \in 1 .. Len(text) /\ n + 1 \in n .. Len(text) /\ (n + 1) - n + 1 = 2
    BY <1>1
  <2>3. s \in Seq(Chars) /\ Len(s) = 2 /\ \A i \in 1 .. 2 : s[i] = text[n + i - 1]
    BY <2>1, <2>2, PartIs DEF Texts
  <2>4. s[1] = Slash /\ s[2] = Slash
    BY <1>1, <1>2, <2>3
  <2>5. s = <<s[1], s[2]>>
    BY <2>3
  <2> QED
    BY <2>1, <2>4, <2>5 DEF ValidatePath
<1>3. Plain(text)
  BY <1>2 DEF ValidatePath, Plain
<1> QED
  BY <1>1, <1>3, PlainIsTrimmed DEF ValidatePath

(* Of a plain text behind a slash, trimming leaves the text.                *)
LEMMA TrimsOneSlash ==
  ASSUME NEW text, Plain(text), text # << >>
  PROVE  Trim(<<Slash>> \o text) = text
<1>1. /\ text \in Texts /\ text \in Seq(Chars) /\ Len(text) \in Nat /\ Len(text) # 0
      /\ text[1] # Slash /\ text[Len(text)] # Slash
  BY TextsAre DEF Plain
<1>2. PICK u : u = <<Slash>> \o text
  OBVIOUS
<1>3. /\ u \in Texts /\ Len(u) = Len(text) + 1 /\ u[1] = Slash
      /\ \A i \in 1 .. Len(text) : u[i + 1] = text[i]
  <2>1. <<Slash>> \in Seq(Chars) /\ Len(<<Slash>>) = 1
    BY CharsAssumption
  <2> QED
    BY <1>1, <1>2, <2>1 DEF Texts
<1>4. PICK m \in Nat : m = Len(text)
  BY <1>1
<1>5. u[2] # Slash /\ u[m + 1] # Slash
  BY <1>1, <1>3, <1>4
<1>6. ASSUME NEW a \in 1 .. Len(u), NEW b \in 1 .. Len(u), a <= b,
             Trim(u) = SubSeq(u, a, b), u[a] # Slash, u[b] # Slash,
             \A i \in 1 .. a - 1 : u[i] = Slash,
             \A i \in b + 1 .. Len(u) : u[i] = Slash
      PROVE  Trim(u) = text
  <2>1. a = 2
    BY <1>1, <1>3, <1>4, <1>5, <1>6
  <2>2. b = m + 1
    BY <1>1, <1>3, <1>4, <1>5, <1>6
  <2>3. PICK t : t = SubSeq(u, 2, m + 1)
    OBVIOUS
  <2>4. 2 \in 1 .. Len(u) /\ m + 1 \in 2 .. Len(u) /\ (m + 1) - 2 + 1 = m
    BY <1>1, <1>3, <1>4
  <2>5. t \in Seq(Chars) /\ Len(t) = m /\ \A i \in 1 .. m : t[i] = u[2 + i - 1]
    BY <1>3, <2>3, <2>4, PartIs DEF Texts
  <2>6. \A i \in 1 .. m : t[i] = text[i]
    <3>1. \A i \in 1 .. m : 2 + i - 1 = i + 1
      OBVIOUS
    <3> QED
      BY <1>3, <1>4, <2>5, <3>1
  <2>7. t = text
    BY <1>1, <1>4, <2>5, <2>6, SeqEqual
  <2> QED
    BY <1>6, <2>1, <2>2, <2>3, <2>7
<1>7. ~ \A i \in 1 .. Len(u) : u[i] = Slash
  BY <1>1, <1>3, <1>4, <1>5
<1>8. Trim(u) = text
  BY <1>3, <1>6, <1>7, TrimIs
<1> QED
  BY <1>2, <1>8

(* Which two of three texts are joined first is all the same.               *)
LEMMA JoinsAssociate ==
  \A t, u, v \in Seq(Chars) : (t \o u) \o v = t \o (u \o v)
<1> SUFFICES ASSUME NEW t \in Seq(Chars), NEW u \in Seq(Chars), NEW v \in Seq(Chars)
             PROVE  (t \o u) \o v = t \o (u \o v)
  OBVIOUS
<1> QED
  BY ConcatAssociative

(* Two plain texts with a slash between them are plain.                     *)
LEMMA JoinIsPlain ==
  ASSUME NEW i, NEW s, Plain(i), Plain(s), i # << >>, s # << >>
  PROVE  LET both == i \o <<Slash>> \o s
         IN /\ Plain(both) /\ both # << >> /\ IsPrefix(i, both)
            /\ Len(i) + 1 \in 1 .. Len(both) /\ both[Len(i) + 1] = Slash
            /\ SubSeq(both, 1, Len(i)) = i /\ After(both, Len(i) + 1) = s
<1>1. PICK both : both = i \o <<Slash>> \o s
  OBVIOUS
<1>2. /\ i \in Seq(Chars) /\ s \in Seq(Chars)
      /\ i[1] # Slash /\ i[Len(i)] # Slash /\ s[1] # Slash /\ s[Len(s)] # Slash
      /\ \A n \in 1 .. Len(i) - 1 : ~(i[n] = Slash /\ i[n + 1] = Slash)
      /\ \A n \in 1 .. Len(s) - 1 : ~(s[n] = Slash /\ s[n + 1] = Slash)
  BY DEF Plain, Texts
<1>3. PICK m, k \in Nat \ {0} : m = Len(i) /\ k = Len(s)
  <2>1. Len(i) \in Nat \ {0} /\ Len(s) \in Nat \ {0}
    BY <1>2
  <2> QED
    BY <2>1
<1>4. /\ both \in Seq(Chars) /\ Len(both) = m + 1 + k
      /\ \A n \in 1 .. m : both[n] = i[n]
      /\ both[m + 1] = Slash
      /\ \A n \in 1 .. k : both[m + 1 + n] = s[n]
  <2>1. <<Slash>> \in Seq(Chars) /\ Len(<<Slash>>) = 1 /\ <<Slash>>[1] = Slash
    BY CharsAssumption
  <2>2. PICK head : head = i \o <<Slash>>
    OBVIOUS
  <2>3. /\ head \in Seq(Chars) /\ Len(head) = m + 1 /\ head[m + 1] = Slash
        /\ \A n \in 1 .. m : head[n] = i[n]
    BY <1>2, <1>3, <2>1, <2>2
  <2>4. both = head \o s
    BY <1>1, <2>2
  <2>5. /\ both \in Seq(Chars) /\ Len(both) = Len(head) + Len(s)
        /\ \A n \in 1 .. Len(head) : both[n] = head[n]
        /\ \A n \in 1 .. Len(s) : both[Len(head) + n] = s[n]
    <3>1. head \in Seq(Chars) /\ s \in Seq(Chars)
      BY <1>2, <2>3
    <3>2. /\ head \o s \in Seq(Chars) /\ Len(head \o s) = Len(head) + Len(s)
          /\ \A n \in 1 .. Len(head) : (head \o s)[n] = head[n]
          /\ \A n \in 1 .. Len(s) : (head \o s)[Len(head) + n] = s[n]
      BY <3>1, ConcatIs, Zenon
    <3> QED
      BY <2>4, <3>2
  <2>6. \A n \in 1 .. m + 1 : both[n] = head[n]
    BY <2>3, <2>5
  <2>7. \A n \in 1 .. k : both[m + 1 + n] = s[n]
    BY <1>3, <2>3, <2>5
  <2> QED
    BY <1>3, <2>3, <2>5, <2>6, <2>7
<1>5. ASSUME NEW n \in 1 .. Len(both) - 1, both[n] = Slash, both[n + 1] = Slash
      PROVE  FALSE
  <2>1. CASE n < m
    <3>1. n \in 1 .. m - 1 /\ both[n] = i[n] /\ both[n + 1] = i[n + 1]
      BY <1>3, <1>4, <2>1
    <3>2. ~(i[n] = Slash /\ i[n + 1] = Slash)
      BY <1>2, <1>3, <3>1
    <3> QED
      BY <1>5, <3>1, <3>2
  <2>2. CASE n = m
    <3>1. both[n] = i[Len(i)] /\ i[Len(i)] # Slash
      BY <1>2, <1>3, <1>4, <2>2
    <3> QED
      BY <1>5, <3>1
  <2>3. CASE n = m + 1
    <3>1. both[n + 1] = s[1]
      BY <1>3, <1>4, <2>3
    <3>2. s[1] # Slash
      BY <1>2
    <3> QED
      BY <1>5, <3>1, <3>2
  <2>4. CASE n > m + 1
    <3>1. PICK j \in 1 .. k - 1 : n = m + 1 + j
      <4>1. n - (m + 1) \in 1 .. k - 1 /\ n = m + 1 + (n - (m + 1))
        BY <1>3, <1>4, <2>4
      <4> QED
        BY <4>1
    <3>2. j \in 1 .. k /\ j + 1 \in 1 .. k /\ n + 1 = m + 1 + (j + 1)
      BY <1>3, <3>1
    <3>3. both[n] = s[j] /\ both[n + 1] = s[j + 1]
      BY <1>4, <3>1, <3>2
    <3>4. ~(s[j] = Slash /\ s[j + 1] = Slash)
      BY <1>2, <1>3, <3>1
    <3> QED
      BY <1>5, <3>3, <3>4
  <2> QED
    BY <1>3, <1>4, <2>1, <2>2, <2>3, <2>4
<1>6. both[1] # Slash /\ both[Len(both)] # Slash /\ both # << >>
  <2>1. both[1] = i[1]
    BY <1>3, <1>4
  <2>2. both[Len(both)] = s[k]
    BY <1>3, <1>4
  <2> QED
    BY <1>2, <1>3, <1>4, <2>1, <2>2
<1>7. Plain(both)
  <2>1. both \in Texts
    BY <1>4 DEF Texts
  <2>2. \A n \in 1 .. Len(both) - 1 : ~(both[n] = Slash /\ both[n + 1] = Slash)
    BY <1>5
  <2> QED
    BY <1>6, <2>1, <2>2 DEF Plain
<1>8. IsPrefix(i, both)
  <2>1. Len(i) <= Len(both) /\ \A n \in 1 .. Len(i) : i[n] = both[n]
    BY <1>3, <1>4
  <2> QED
    BY <1>2, <1>4, <2>1, PrefixEach
<1>9. SubSeq(both, 1, m) = i
  BY <1>2, <1>3, <1>4, <1>8, PrefixIs
<1>10. After(both, m + 1) = s
  <2>1. m + 1 \in 0 .. Len(both) /\ Len(both) - (m + 1) = k
    BY <1>3, <1>4
  <2>2. PICK t, c : c = m + 1 /\ t = After(both, c)
    OBVIOUS
  <2>3. t \in Seq(Chars) /\ Len(t) = k /\ \A n \in 1 .. k : t[n] = both[c + n]
    BY <1>4, <2>1, <2>2, AfterIs
  <2>4. \A n \in 1 .. k : t[n] = s[n]
    BY <1>4, <2>2, <2>3
  <2> QED
    BY <1>2, <1>3, <2>2, <2>3, <2>4, SeqEqual
<1> QED
  BY <1>1, <1>3, <1>4, <1>6, <1>7, <1>8, <1>9, <1>10

(* Two paths the macro takes, joined, come apart into the two again.        *)
LEMMA JoinComesApart ==
  ASSUME NEW i \in Texts, NEW s \in Texts, ValidatePath(i), ValidatePath(s)
  PROVE  LET location == ConcatLocation(i, s)
         IN /\ StripInterfacePrefix(i, location) = {s}
            /\ PathPrefixLen(s, s) = {Len(s)}
            /\ Split(location) = Split(i) \o Split(s) /\ Canonical(location)
<1>1. /\ Plain(i) /\ Trim(i) = i /\ i # << >> /\ Len(i) \in Nat \ {0}
      /\ Plain(s) /\ Trim(s) = s /\ s # << >> /\ Len(s) \in Nat \ {0}
  BY ValidIsPlain
<1>2. PICK both, location : both = i \o <<Slash>> \o s /\ location = <<Slash>> \o both
  OBVIOUS
<1>3. /\ Plain(both) /\ both # << >> /\ IsPrefix(i, both)
      /\ Len(i) + 1 \in 1 .. Len(both) /\ both[Len(i) + 1] = Slash
      /\ SubSeq(both, 1, Len(i)) = i /\ After(both, Len(i) + 1) = s
  BY <1>1, <1>2, JoinIsPlain
<1>4. both \in Texts /\ both \in Seq(Chars) /\ Len(both) \in Nat
  BY <1>3, TextsAre DEF Plain
<1>5. ConcatLocation(i, s) = location
  <2>1. <<Slash>> \in Seq(Chars) /\ i \in Seq(Chars) /\ s \in Seq(Chars)
    BY CharsAssumption DEF Texts
  <2>2. ConcatLocation(i, s) = <<Slash>> \o i \o <<Slash>> \o s
    BY <1>1 DEF ConcatLocation
  <2>3. PICK h \in Seq(Chars) : h = <<Slash>>
    BY <2>1
  <2>4. i \o h \in Seq(Chars)
    BY <2>1, ConcatIs
  <2>5. (h \o i) \o h = h \o (i \o h)
    BY <2>1, <2>3, JoinsAssociate
  <2>6. (h \o (i \o h)) \o s = h \o ((i \o h) \o s)
    BY <2>1, <2>3, <2>4, JoinsAssociate
  <2> QED
    BY <1>2, <2>2, <2>3, <2>5, <2>6
<1>6. Trim(location) = both /\ location \in Texts
  <2>1. <<Slash>> \in Seq(Chars)
    BY CharsAssumption
  <2>2. location \in Seq(Chars)
    BY <1>2, <1>4, <2>1, ConcatIs
  <2>3. Trim(location) = both
    BY <1>2, <1>3, TrimsOneSlash
  <2> QED
    BY <2>2, <2>3 DEF Texts
<1>7. StripInterfacePrefix(i, location) = {s}
  <2>1. Len(i) # Len(both)
    BY <1>1, <1>3, <1>4
  <2> QED
    BY <1>1, <1>3, <1>6, <2>1 DEF StripInterfacePrefix
<1>8. PathPrefixLen(s, s) = {Len(s)}
  <2>1. IsPrefix(s, s)
    BY <1>1, PrefixEach DEF Plain, Texts
  <2> QED
    BY <1>1, <2>1 DEF PathPrefixLen
<1>9. Split(location) = Split(i) \o Split(s)
  <2>1. Split(location) = Split(both)
    BY <1>6, TrimKeepsSegments
  <2>2. (Len(i) + 1) - 1 = Len(i)
    BY <1>1
  <2>3. Split(both) = Split(SubSeq(both, 1, (Len(i) + 1) - 1)) \o Split(After(both, Len(i) + 1))
    BY <1>3, <1>4, SplitAtSlash
  <2> QED
    BY <1>3, <2>1, <2>2, <2>3
<1>10. Canonical(location)
  <2> SUFFICES ASSUME NEW n \in 1 .. Len(both) - 1, SubSeq(both, n, n + 1) = <<Slash, Slash>>
               PROVE  FALSE
    BY <1>6 DEF Canonical
  <2>1. n \in 1 .. Len(both) /\ n + 1 \in n .. Len(both) /\ (n + 1) - n + 1 = 2
    BY <1>4
  <2>2. \A j \in 1 .. 2 : SubSeq(both, n, n + 1)[j] = both[n + j - 1]
    BY <1>4, <2>1, PartIs
  <2>3. n + 1 - 1 = n /\ n + 2 - 1 = n + 1 /\ 1 \in 1 .. 2 /\ 2 \in 1 .. 2
    OBVIOUS
  <2>4. <<Slash, Slash>>[1] = Slash /\ <<Slash, Slash>>[2] = Slash
    OBVIOUS
  <2>5. both[n] = Slash /\ both[n + 1] = Slash
    BY <2>2, <2>3, <2>4
  <2> QED
    BY <1>3, <2>5 DEF Plain
<1> QED
  BY <1>5, <1>7, <1>8, <1>9, <1>10

-----------------------------------------------------------------------------
(* Types: what is below them, and what stands for a borrow.                 *)

(* What may be below a type is what a family of sets holds that begins with *)
(* the type and is closed under going down.                                 *)
Closed(ty, X) == {ty} \in X /\ \A types \in X : Below(types) \in X

LEMMA PartsWithin ==
  ASSUME NEW ty, NEW X, Closed(ty, X)
  PROVE  Parts(ty) \subseteq UNION X
<1>1. MaxDepth \in Nat
  BY MacroAssumption
<1>2. PICK base : base = {ty}
  OBVIOUS
<1>3. PICK step \in [1 .. MaxDepth -> [X -> X]] :
        \A n \in 1 .. MaxDepth : \A types \in X : step[n][types] = Below(types)
  <2>1. [n \in 1 .. MaxDepth |-> [types \in X |-> Below(types)]] \in [1 .. MaxDepth -> [X -> X]]
    BY DEF Closed
  <2> QED
    BY <2>1
<1>4. PICK f \in [0 .. MaxDepth -> X] :
        f[0] = base /\ \A n \in 1 .. MaxDepth : f[n] = step[n][f[n - 1]]
  <2>1. base \in X
    BY <1>2 DEF Closed
  <2>2. MaxDepth \in Nat /\ step \in [1 .. MaxDepth -> [X -> X]]
    BY <1>1, <1>3
  <2> QED
    BY <2>1, <2>2, Iterates
<1>5. \A n \in 1 .. MaxDepth : f[n] = Below(f[n - 1])
  <2>1. \A n \in 1 .. MaxDepth : n - 1 \in 0 .. MaxDepth /\ f[n - 1] \in X
    BY <1>1
  <2> QED
    BY <1>3, <1>4, <2>1
<1>6. f = [n \in 0 .. MaxDepth |-> IF n = 0 THEN base ELSE Below(f[n - 1])]
  BY <1>1, <1>4, <1>5
<1>7. Level(ty) = CHOOSE g : g = [n \in 0 .. MaxDepth |-> IF n = 0 THEN base ELSE Below(g[n - 1])]
  BY <1>2 DEF Level
<1>8. PICK g : g = Level(ty)
  OBVIOUS
<1>9. g = [n \in 0 .. MaxDepth |-> IF n = 0 THEN base ELSE Below(g[n - 1])]
  BY <1>6, <1>7, <1>8
<1>10. g[0] = base /\ \A n \in 1 .. MaxDepth : g[n] = Below(g[n - 1])
  BY <1>1, <1>9
<1> DEFINE S == {n \in Nat : n <= MaxDepth => g[n] \in X}
<1>11. 0 \in S
  BY <1>2, <1>10 DEF Closed
<1>12. ASSUME NEW n \in Nat, n \in S
       PROVE  n + 1 \in S
  <2> SUFFICES ASSUME n + 1 <= MaxDepth
               PROVE  g[n + 1] \in X
    OBVIOUS
  <2>1. n + 1 \in 1 .. MaxDepth /\ (n + 1) - 1 = n /\ g[n] \in X
    BY <1>1, <1>12
  <2>2. g[n + 1] = Below(g[(n + 1) - 1])
    BY <1>10, <2>1
  <2> QED
    BY <2>1, <2>2 DEF Closed
<1> HIDE DEF S
<1>13. Nat \subseteq S
  BY <1>11, <1>12, Counting
<1>14. \A n \in 0 .. MaxDepth : g[n] \in X
  BY <1>1, <1>13 DEF S
<1> QED
  BY <1>8, <1>14 DEF Parts

(* Names stand for themselves, and Vec<u8> has u8 below it.                 *)
LEMMA OwnedParts ==
  /\ \A name : Parts(Path(name, << >>)) \subseteq {Path(name, << >>)}
  /\ Parts(VecU8) \subseteq {VecU8, U8}
<1>1. ASSUME NEW name
      PROVE  Parts(Path(name, << >>)) \subseteq {Path(name, << >>)}
  <2>1. PICK ty : ty = Path(name, << >>)
    OBVIOUS
  <2>2. ty.sub = << >>
    BY <2>1 DEF Path
  <2>3. Below({ty}) = {} /\ Below({}) = {}
    BY <2>2 DEF Below
  <2>4. PICK X : X = {{ty}, {}}
    OBVIOUS
  <2>5. Parts(ty) \subseteq UNION X
    BY <2>3, <2>4, PartsWithin DEF Closed
  <2> QED
    BY <2>1, <2>4, <2>5
<1>2. Parts(VecU8) \subseteq {VecU8, U8}
  <2>1. U8.sub = << >> /\ VecU8.sub = <<U8>>
    BY DEF U8, VecU8, Path
  <2>2. Below({VecU8}) = {U8}
    <3>1. DOMAIN <<U8>> = {1} /\ <<U8>>[1] = U8
      OBVIOUS
    <3> QED
      BY <2>1, <3>1 DEF Below
  <2>3. Below({U8}) = {} /\ Below({}) = {}
    BY <2>1 DEF Below
  <2>4. PICK X : X = {{VecU8}, {U8}, {}}
    OBVIOUS
  <2>5. Parts(VecU8) \subseteq UNION X
    BY <2>2, <2>3, <2>4, PartsWithin DEF Closed
  <2> QED
    BY <2>4, <2>5
<1> QED
  BY <1>1, <1>2

(* What a borrow becomes holds no borrow, and both halves fit the borrow.   *)
LEMMA BorrowFits ==
  ASSUME NEW ty, ty.kind = "ref",
         LET inner == ty.sub[1]
         IN  inner.kind = "path" /\ inner.name \in {"str", "String"} \cup Scalars
             => inner = Path(inner.name, << >>),
         NEW b \in BorrowedToOwned(ty.sub[1])
  PROVE  /\ ConvertExpr(b.convert, ty) = b.owned
         /\ Coerces(RefTo(b.owned), ty)
         /\ ~ContainsReference(b.owned) /\ ~ContainsNonStaticLifetime(b.owned)
<1>1. PICK inner : inner = ty.sub[1]
  OBVIOUS
<1>2. \A name : /\ ~ContainsReference(Path(name, << >>))
                /\ ~ContainsNonStaticLifetime(Path(name, << >>))
  <2> SUFFICES ASSUME NEW name
               PROVE  /\ ~ContainsReference(Path(name, << >>))
                      /\ ~ContainsNonStaticLifetime(Path(name, << >>))
    OBVIOUS
  <2>1. PICK p : p = Path(name, << >>)
    OBVIOUS
  <2>2. p.kind = "path" /\ p.life = ""
    BY <2>1 DEF Path
  <2>3. \A q \in Parts(p) : q = p
    BY <2>1, OwnedParts
  <2> QED
    BY <2>1, <2>2, <2>3 DEF ContainsReference, ContainsNonStaticLifetime
<1>3. ~ContainsReference(VecU8) /\ ~ContainsNonStaticLifetime(VecU8)
  <2>1. /\ VecU8.kind = "path" /\ VecU8.life = ""
        /\ U8.kind = "path" /\ U8.life = ""
    BY DEF VecU8, U8, Path
  <2>2. \A p \in Parts(VecU8) : p = VecU8 \/ p = U8
    BY OwnedParts
  <2> QED
    BY <2>1, <2>2 DEF ContainsReference, ContainsNonStaticLifetime
<1>4. \A owned : RefTo(owned).kind = "ref" /\ RefTo(owned).sub[1] = owned
  BY DEF RefTo
<1>5. \A owned : \/ owned = inner
                 \/ owned = StringType /\ inner = Path("str", << >>)
                 \/ /\ owned.kind = "path" /\ owned.name = "Vec"
                    /\ inner.kind = "slice" /\ owned.sub = inner.sub
                 => Coerces(RefTo(owned), ty)
  <2> SUFFICES ASSUME NEW owned, NEW from, from = RefTo(owned),
                      \/ owned = inner
                      \/ owned = StringType /\ inner = Path("str", << >>)
                      \/ /\ owned.kind = "path" /\ owned.name = "Vec"
                         /\ inner.kind = "slice" /\ owned.sub = inner.sub
               PROVE  Coerces(from, ty)
    OBVIOUS
  <2>1. from.kind = "ref" /\ from.sub[1] = owned
    BY <1>4
  <2>2. Coerces(from, ty) <=>
          \/ from = ty
          \/ owned = inner
          \/ owned = StringType /\ inner = Path("str", << >>)
          \/ owned.kind = "path" /\ owned.name = "Vec" /\ inner.kind = "slice" /\ owned.sub = inner.sub
    BY <1>1, <2>1 DEF Coerces
  <2> QED
    BY <2>2
<1>6. /\ VecU8.kind = "path" /\ VecU8.name = "Vec"
      /\ {"str", "String", "Vec"} \cap Scalars = {}
  BY DEF VecU8, Path, Scalars
<1>7. CASE inner.kind = "path" /\ inner.name = "str"
  <2>1. b = [owned |-> StringType, convert |-> "ToString"]
    BY <1>1, <1>7, <1>6 DEF BorrowedToOwned
  <2>2. inner = Path("str", << >>)
    BY <1>1, <1>7
  <2>3. Coerces(RefTo(StringType), ty)
    BY <1>5, <2>2
  <2>4. ~ContainsReference(StringType) /\ ~ContainsNonStaticLifetime(StringType)
    BY <1>2 DEF StringType
  <2> QED
    BY <2>1, <2>3, <2>4 DEF ConvertExpr
<1>8. CASE inner.kind = "path" /\ inner.name = "String"
  <2>1. b = [owned |-> StringType, convert |-> "Clone"]
    BY <1>1, <1>8, <1>6 DEF BorrowedToOwned
  <2>2. inner = StringType
    BY <1>1, <1>8 DEF StringType
  <2>3. Coerces(RefTo(StringType), ty)
    BY <1>5, <2>2
  <2>4. ~ContainsReference(StringType) /\ ~ContainsNonStaticLifetime(StringType)
    BY <1>2 DEF StringType
  <2> QED
    BY <1>1, <2>1, <2>2, <2>3, <2>4 DEF ConvertExpr
<1>9. CASE inner.kind = "path" /\ inner.name \in Scalars
  <2>1. b = [owned |-> inner, convert |-> "Deref"]
    BY <1>1, <1>9, <1>6 DEF BorrowedToOwned
  <2>2. inner = Path(inner.name, << >>)
    BY <1>1, <1>9
  <2> QED
    BY <1>1, <1>2, <1>5, <2>1, <2>2 DEF ConvertExpr
<1>10. CASE inner = VecU8
  <2>1. b = [owned |-> VecU8, convert |-> "Clone"]
    BY <1>1, <1>10, <1>6 DEF BorrowedToOwned
  <2> QED
    BY <1>1, <1>3, <1>5, <1>10, <2>1 DEF ConvertExpr
<1>11. CASE inner.kind = "slice" /\ inner.sub = <<U8>>
  <2>1. VecU8.kind = "path" /\ VecU8.name = "Vec" /\ VecU8.sub = <<U8>> /\ VecU8 = Path("Vec", <<U8>>)
    BY DEF VecU8, Path
  <2>2. b = [owned |-> VecU8, convert |-> "ToVec"]
    BY <1>1, <1>11, <2>1 DEF BorrowedToOwned
  <2>3. ConvertExpr("ToVec", ty) = Path("Vec", inner.sub)
    BY <1>1 DEF ConvertExpr
  <2>4. Coerces(RefTo(VecU8), ty)
    BY <1>5, <1>11, <2>1
  <2> QED
    BY <1>3, <1>11, <2>1, <2>2, <2>3, <2>4
<1>12. \/ inner.kind = "path" /\ inner.name = "str"
       \/ inner.kind = "path" /\ inner.name = "String"
       \/ inner.kind = "path" /\ inner.name \in Scalars
       \/ inner = VecU8
       \/ inner.kind = "slice" /\ inner.sub = <<U8>>
  BY <1>1 DEF BorrowedToOwned
<1> QED
  BY <1>7, <1>8, <1>9, <1>10, <1>11, <1>12

(* Whatever type an argument is accepted at, both halves fit it.            *)
LEMMA ArgumentFits ==
  ASSUME NEW member \in Members, NEW n \in DOMAIN member.args,
         NEW a \in AnalyzeArg(member.args[n].type)
  PROVE  LET ty == member.args[n].type
         IN /\ ConvertExpr(a.convert, ty) = a.owned
            /\ Coerces(CallArg(a), ty)
            /\ ~ContainsReference(a.owned) /\ ~ContainsNonStaticLifetime(a.owned)
<1>1. PICK ty : ty = member.args[n].type
  OBVIOUS
<1>2. CASE ty.kind = "ref"
  <2>1. PICK b \in BorrowedToOwned(ty.sub[1]) : a = ArgModel(b.owned, TRUE, b.convert)
    BY <1>1, <1>2 DEF AnalyzeArg
  <2>2. ty.sub[1].kind = "path" /\ ty.sub[1].name \in {"str", "String"} \cup Scalars
        => ty.sub[1] = Path(ty.sub[1].name, << >>)
    BY <1>1, <1>2, MacroAssumption
  <2>3. /\ ConvertExpr(b.convert, ty) = b.owned /\ Coerces(RefTo(b.owned), ty)
        /\ ~ContainsReference(b.owned) /\ ~ContainsNonStaticLifetime(b.owned)
    BY <1>2, <2>2, BorrowFits
  <2>4. a.owned = b.owned /\ a.convert = b.convert /\ CallArg(a) = RefTo(b.owned)
    BY <2>1 DEF ArgModel, CallArg
  <2> QED
    BY <1>1, <2>3, <2>4
<1>3. CASE ty.kind # "ref"
  <2>1. a = ArgModel(ty, FALSE, "None") /\ ~ContainsReference(ty) /\ ~ContainsNonStaticLifetime(ty)
    BY <1>1, <1>3 DEF AnalyzeArg
  <2>2. a.owned = ty /\ a.convert = "None" /\ CallArg(a) = ty
    BY <2>1 DEF ArgModel, CallArg
  <2>3. ConvertExpr("None", ty) = ty /\ Coerces(ty, ty)
    BY DEF ConvertExpr, Coerces
  <2> QED
    BY <1>1, <2>1, <2>2, <2>3
<1> QED
  BY <1>2, <1>3

-----------------------------------------------------------------------------
(* The attribute and the trait, step by step.                               *)

(* Names are as many as arguments when none comes twice.                    *)
LEMMA NamesCount ==
  ASSUME NEW args \in Seq(Arguments)
  PROVE  /\ Cardinality(Names(args)) = Len(args)
            <=> \A m, n \in 1 .. Len(args) : args[m].name = args[n].name => m = n
         /\ IsFiniteSet(Names(args))
<1>1. PICK len \in Nat : len = Len(args)
  OBVIOUS
<1>2. PICK f : f = [n \in 1 .. len |-> args[n].name]
  OBVIOUS
<1>3. PICK S : S = 1 .. len
  OBVIOUS
<1>4. IsFiniteSet(S) /\ Cardinality(S) = len
  BY <1>3, FS_Interval
<1>5. \A x : x \in Names(args) <=> \E n \in 1 .. len : x = args[n].name
  BY <1>1 DEF Names
<1>6. f \in Surjection(S, Names(args))
  <2>1. f \in [S -> Names(args)]
    BY <1>2, <1>3, <1>5
  <2>2. \A x \in Names(args) : \E n \in S : f[n] = x
    BY <1>2, <1>3, <1>5
  <2> QED
    BY <2>1, <2>2 DEF Surjection
<1>7. /\ IsFiniteSet(Names(args))
      /\ Cardinality(Names(args)) = Cardinality(S) <=> f \in Injection(S, Names(args))
  BY <1>4, <1>6, FS_Surjection
<1>8. f \in Injection(S, Names(args)) <=> \A m, n \in S : f[m] = f[n] => m = n
  BY <1>6 DEF Surjection, Injection, IsInjective
<1>9. (\A m, n \in S : f[m] = f[n] => m = n)
      <=> \A m, n \in 1 .. len : args[m].name = args[n].name => m = n
  BY <1>2, <1>3
<1> QED
  BY <1>1, <1>4, <1>7, <1>8, <1>9

(* The names that make a form are as many as its arguments.                 *)
LEMMA FormNeeds ==
  ASSUME NEW args \in Seq(Arguments), \A n \in 1 .. Len(args) : ArgIsFine(args[n]),
         Cardinality(Names(args)) = Len(args)
  PROVE  FormOf(Names(args)) # "none" <=> WellFormed(args)
<1>1. Len(args) \in Nat /\ DOMAIN args = 1 .. Len(args)
  OBVIOUS
<1>2. \A n \in 1 .. Len(args) : args[n].name \in {"service", "path", "services", "service_of"}
  BY DEF ArgIsFine
<1>3. \A x : x \in Names(args) <=> \E n \in 1 .. Len(args) : x = args[n].name
  BY <1>1 DEF Names
<1>4. FormOf(Names(args)) # "none" <=>
        \/ Names(args) = {"service"}
        \/ Names(args) = {"path", "services"}
        \/ Names(args) = {"service_of"}
  BY DEF FormOf
<1>5. \A x : Cardinality({x}) = 1
  BY FS_Singleton
<1>6. Cardinality({"path", "services"}) = 2
  <2>1. PICK one : one = {"path"}
    OBVIOUS
  <2>2. IsFiniteSet(one) /\ Cardinality(one) = 1
    BY <2>1, FS_Singleton
  <2>3. Cardinality(one \cup {"services"}) = IF "services" \in one THEN Cardinality(one)
                                           ELSE Cardinality(one) + 1
    BY <2>2, FS_AddElement
  <2>4. "services" \notin one /\ one \cup {"services"} = {"path", "services"}
    BY <2>1
  <2>5. Cardinality(one \cup {"services"}) = 2
    BY <2>2, <2>3, <2>4
  <2> QED
    BY <2>4, <2>5
<1>7. Len(args) = 1 => \/ Names(args) = {"service"} \/ Names(args) = {"path"}
                       \/ Names(args) = {"services"} \/ Names(args) = {"service_of"}
  BY <1>2, <1>3
<1>8. WellFormed(args) <=>
        \/ Len(args) = 1 /\ Names(args) # {"path"} /\ Names(args) # {"services"}
        \/ Len(args) = 2 /\ Names(args) = {"path", "services"}
  BY <1>1 DEF WellFormed
<1> QED
  BY <1>4, <1>5, <1>6, <1>7, <1>8

(* What the macro knows while it reads, and what it has decided after.      *)
ArgumentsRead ==
  /\ given \in Seq(Arguments)
  /\ phase = "args" => /\ form = "none"
                       /\ \A n \in 1 .. Len(given) : ArgIsFine(given[n])
                       /\ Cardinality(Names(given)) = Len(given)
  /\ phase # "args" => (form # "none" <=> WellFormed(given))

(* Each method analysed is what the analysis makes of some member.          *)
MethodsAnalysed == methods \in Seq(UNION {AnalyzeMethod(m) : m \in Members})

(* What an argument that is fine, and one that is not, make of that.        *)
LEMMA ReadArgStep ==
  ASSUME ArgumentsRead, NEW arg \in Arguments, ReadArg(arg)
  PROVE  ArgumentsRead'
<1>1. PICK len \in Nat : len = Len(given)
  BY DEF ArgumentsRead
<1>2. /\ given \in Seq(Arguments) /\ form = "none" /\ form' = form
      /\ \A n \in 1 .. len : ArgIsFine(given[n])
      /\ Cardinality(Names(given)) = len
  BY <1>1 DEF ArgumentsRead, ReadArg
<1>3. PICK now : now = given' /\ now = Append(given, arg)
  BY DEF ReadArg
<1>4. /\ now \in Seq(Arguments) /\ Len(now) = len + 1 /\ now[len + 1] = arg
      /\ DOMAIN now = 1 .. len + 1
      /\ \A n \in 1 .. len : now[n] = given[n]
  BY <1>1, <1>2, <1>3
<1>5. \A m, n \in 1 .. len : given[m].name = given[n].name => m = n
  BY <1>1, <1>2, NamesCount
<1>6. \A x : x \in Names(given) <=> \E n \in 1 .. len : x = given[n].name
  BY <1>1, <1>2 DEF Names
<1>7. CASE arg.name \notin Names(given) /\ ArgIsFine(arg)
  <2>1. phase' = "args"
    BY <1>7 DEF ReadArg
  <2>2. \A n \in 1 .. len + 1 : ArgIsFine(now[n])
    BY <1>2, <1>4, <1>7
  <2>3. \A m, n \in 1 .. len + 1 : now[m].name = now[n].name => m = n
    BY <1>4, <1>5, <1>6, <1>7
  <2>4. Cardinality(Names(now)) = len + 1
    BY <1>4, <2>3, NamesCount
  <2>5. Names(given)' = Names(now)
    BY <1>3 DEF Names
  <2> QED
    BY <1>2, <1>3, <1>4, <2>1, <2>2, <2>4, <2>5 DEF ArgumentsRead
<1>8. CASE ~(arg.name \notin Names(given) /\ ArgIsFine(arg))
  <2>1. phase' = "error"
    BY <1>8 DEF ReadArg
  <2>2. ~WellFormed(now)
    <3>1. CASE ~ArgIsFine(arg)
      BY <1>4, <3>1 DEF WellFormed
    <3>2. CASE arg.name \in Names(given)
      <4>1. PICK n \in 1 .. len : now[n].name = now[len + 1].name
        BY <1>4, <1>6, <3>2
      <4>2. ~ \A m, k \in 1 .. len + 1 : now[m].name = now[k].name => m = k
        BY <4>1
      <4>3. Cardinality(Names(now)) # Len(now)
        BY <1>4, <4>2, NamesCount
      <4> QED
        BY <4>3 DEF WellFormed
    <3> QED
      BY <1>8, <3>1, <3>2
  <2>3. WellFormed(given)' <=> WellFormed(now)
    BY <1>3 DEF WellFormed, Names
  <2> QED
    BY <1>2, <1>3, <1>4, <2>1, <2>2, <2>3 DEF ArgumentsRead
<1> QED
  BY <1>7, <1>8

(* Every step keeps both.                                                   *)
LEMMA MacroStep ==
  ASSUME ArgumentsRead, MethodsAnalysed, [MacroNext]_macroVars
  PROVE  ArgumentsRead' /\ MethodsAnalysed'
<1>1. CASE UNCHANGED macroVars
  BY <1>1 DEF macroVars, ArgumentsRead, MethodsAnalysed, WellFormed, Names
<1>2. ASSUME NEW arg \in Arguments, ReadArg(arg)
      PROVE  ArgumentsRead' /\ MethodsAnalysed'
  BY <1>2, ReadArgStep DEF ReadArg, MethodsAnalysed
<1>3. ASSUME NEW kind \in DOMAIN Items, NEW features \in Items[kind], ReadItem(kind, features)
      PROVE  ArgumentsRead' /\ MethodsAnalysed'
  <2>1. given' = given /\ methods' = methods /\ phase' # "args" /\ form' = FormOf(Names(given))
    BY <1>3 DEF ReadItem
  <2>2. FormOf(Names(given)) # "none" <=> WellFormed(given)
    BY <1>3, FormNeeds DEF ArgumentsRead, ReadItem
  <2>3. WellFormed(given)' <=> WellFormed(given)
    BY <2>1 DEF WellFormed, Names
  <2> QED
    BY <2>1, <2>2, <2>3 DEF ArgumentsRead, MethodsAnalysed
<1>4. ASSUME NEW member \in Members, ReadMember(member)
      PROVE  ArgumentsRead' /\ MethodsAnalysed'
  <2>1. given' = given /\ form' = form /\ phase # "args" /\ phase' # "args"
    BY <1>4 DEF ReadMember
  <2>2. WellFormed(given)' <=> WellFormed(given)
    BY <2>1 DEF WellFormed, Names
  <2>3. ArgumentsRead'
    BY <2>1, <2>2 DEF ArgumentsRead
  <2>4. CASE MemberRefused(member) \/ member.kind # "fn"
    BY <1>4, <2>3, <2>4 DEF ReadMember, MethodsAnalysed
  <2>5. CASE ~MemberRefused(member) /\ member.kind = "fn"
    <3>1. AnalyzeMethod(member) # {}
      BY <2>5 DEF MemberRefused
    <3>2. PICK method : method = CHOOSE m \in AnalyzeMethod(member) : TRUE
      OBVIOUS
    <3>3. method \in AnalyzeMethod(member)
      BY <3>1, <3>2
    <3>4. methods' = Append(methods, method)
      BY <1>4, <2>5, <3>2 DEF ReadMember
    <3> QED
      BY <2>3, <3>3, <3>4 DEF MethodsAnalysed
  <2> QED
    BY <2>4, <2>5
<1>5. ASSUME EndOfTrait
      PROVE  ArgumentsRead' /\ MethodsAnalysed'
  <2>1. given' = given /\ form' = form /\ phase # "args" /\ phase' # "args" /\ methods' = methods
    BY <1>5 DEF EndOfTrait
  <2>2. WellFormed(given)' <=> WellFormed(given)
    BY <2>1 DEF WellFormed, Names
  <2> QED
    BY <2>1, <2>2 DEF ArgumentsRead, MethodsAnalysed
<1> QED
  BY <1>1, <1>2, <1>3, <1>4, <1>5 DEF MacroNext

(* So both hold while the macro runs.                                       *)
LEMMA MacroKnows == MacroSpec => [](ArgumentsRead /\ MethodsAnalysed)
<1>1. MacroInit => ArgumentsRead /\ MethodsAnalysed
  <2> SUFFICES ASSUME MacroInit
               PROVE  ArgumentsRead /\ MethodsAnalysed
    OBVIOUS
  <2>1. \A T : << >> \in Seq(T)
    OBVIOUS
  <2>2. Names(<< >>) = {} /\ Cardinality({}) = 0 /\ Len(<< >>) = 0
    BY FS_EmptySet DEF Names
  <2> QED
    BY <2>1, <2>2 DEF MacroInit, ArgumentsRead, MethodsAnalysed
<1> QED
  BY <1>1, MacroStep, PTL DEF MacroSpec

(* Whatever types the analysis accepts, the client's expression has the     *)
(* type of the enum's field, the dispatch arm's coerces to the declared one *)
(* and the enum owns what it holds (analyze_arg_, borrowed_to_owned_,       *)
(* convert_expr_).                                                          *)
THEOREM MacroHalvesFit == MacroSpec => []HalvesFit
<1>1. MethodsAnalysed => HalvesFit
  <2> SUFFICES ASSUME MethodsAnalysed, NEW n \in DOMAIN methods, NEW k \in DOMAIN methods[n].args
               PROVE  LET a == methods[n].args[k]
                      IN /\ ConvertExpr(a.model.convert, a.declared) = a.model.owned
                         /\ Coerces(CallArg(a.model), a.declared)
                         /\ ~ContainsReference(a.model.owned)
                         /\ ~ContainsNonStaticLifetime(a.model.owned)
    BY DEF HalvesFit
  <2>1. methods[n] \in UNION {AnalyzeMethod(m) : m \in Members}
    BY DEF MethodsAnalysed
  <2>2. PICK member \in Members : methods[n] \in AnalyzeMethod(member)
    BY <2>1
  <2>3. PICK args : args = [j \in DOMAIN member.args |->
                              [name |-> member.args[j].name, declared |-> member.args[j].type,
                               model |-> CHOOSE a \in AnalyzeArg(member.args[j].type) : TRUE]]
    OBVIOUS
  <2>4. methods[n] = MethodModel(member.name, args)
        /\ \A j \in DOMAIN member.args : AnalyzeArg(member.args[j].type) # {}
    BY <2>2, <2>3 DEF AnalyzeMethod
  <2>5. methods[n].args = args
    BY <2>4 DEF MethodModel
  <2>6. PICK ty, model : /\ ty = member.args[k].type
                         /\ model = CHOOSE a \in AnalyzeArg(ty) : TRUE
    OBVIOUS
  <2>7. /\ k \in DOMAIN member.args
        /\ methods[n].args[k].declared = ty /\ methods[n].args[k].model = model
    BY <2>3, <2>5, <2>6
  <2>8. model \in AnalyzeArg(ty)
    BY <2>4, <2>6, <2>7
  <2>9. /\ ConvertExpr(model.convert, ty) = model.owned /\ Coerces(CallArg(model), ty)
        /\ ~ContainsReference(model.owned) /\ ~ContainsNonStaticLifetime(model.owned)
    BY <2>6, <2>7, <2>8, ArgumentFits
  <2> QED
    BY <2>7, <2>9
<1> QED
  BY <1>1, MacroKnows, PTL

(* The attribute is taken in one of its three ways exactly when its         *)
(* arguments, in any order, are those of that way, each once and each fine  *)
(* (parse_rpc_args_).                                                       *)
THEOREM MacroArgumentsDecide == MacroSpec => []ArgumentsDecide
<1>1. ArgumentsRead => ArgumentsDecide
  BY DEF ArgumentsRead, ArgumentsDecide
<1> QED
  BY <1>1, MacroKnows, PTL

(* An interface's path and a service's, each let through by validate_path_, *)
(* joined by concat_location, come apart into the same two again: by prefix *)
(* in the inline routers, by segments in the trie router.                   *)
THEOREM MacroPathsComeApart == MacroSpec => []PathsComeApart
<1>1. ArgumentsRead => PathsComeApart
  <2> SUFFICES ASSUME ArgumentsRead,
                      NEW i, NEW n \in DOMAIN given, form = "interface",
                      given[n].name = "path", i = given[n].text,
                      NEW s, NEW a \in Arguments, a.name = "service", ArgIsFine(a), s = a.text
               PROVE  LET location == ConcatLocation(i, s)
                      IN /\ StripInterfacePrefix(i, location) = {s}
                         /\ PathPrefixLen(s, s) = {Len(s)}
                         /\ Split(location) = Split(i) \o Split(s) /\ Canonical(location)
    BY Zenon DEF PathsComeApart
  <2>1. WellFormed(given) /\ given[n] \in Arguments
    BY DEF ArgumentsRead
  <2>2. ArgIsFine(given[n])
    BY <2>1 DEF WellFormed
  <2>3. ValidatePath(given[n].text) /\ ValidatePath(a.text)
    BY <2>2 DEF ArgIsFine
  <2>4. given[n].text \in Texts /\ a.text \in Texts
    BY <2>1, MacroAssumption DEF Texts
  <2> QED
    BY <2>3, <2>4, JoinComesApart
<1> QED
  BY <1>1, MacroKnows, PTL
=============================================================================
