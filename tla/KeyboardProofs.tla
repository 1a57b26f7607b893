--------------------------- MODULE KeyboardProofs ---------------------------
(***************************************************************************)
(* Proofs about Keyboard: the line editors never index outside the line,   *)
(* the row of the terminal shows the line, Up loses no line, for every byte*)
(* one arrives, once and in order, and a key edits the line at the cursor, *)
(* for all keys, histories, prompts and tab widths.                        *)
(***************************************************************************)
EXTENDS Keyboard, FiniteSetTheorems, SequenceTheorems, WellFoundedInduction, TLAPS

-----------------------------------------------------------------------------
(* Runes and bytes.                                                        *)

\* The runes that are one byte long.
Plain == Typable \ Wide

\* What a key is made of.
Tokens == Typable \cup Inner

\* Keys are made of bytes, old lines of runes; a space is one of a single byte.
LEMMA Runes ==
    /\ Presses \subseteq Seq(Tokens) \ {<<>>}
    /\ Pasts \subseteq Seq(Seq(Plain))
    /\ Blank \in Plain
<1>1. ASSUME NEW k \in Presses PROVE k \in Seq(Tokens) /\ k # <<>>
  <2>1. k \in Seq(STRING) /\ k # <<>>
    BY PressesAssumption
  <2>2. k \in Seq(Range(k))
    BY <2>1, SeqOfRange
  <2>3. ASSUME NEW b \in Range(k) PROVE b \in Tokens
    <3>1. b \in Pressed
      BY DEF Pressed
    <3> QED
      BY <3>1 DEF Typable, Tokens
  <2> QED
    BY <2>1, <2>2, <2>3, SeqMonotonic
<1>2. ASSUME NEW h \in Pasts PROVE h \in Seq(Seq(Plain))
  <2>1. h \in Seq(Seq(STRING \ Wide))
    BY LineAssumption
  <2>2. h \in Seq(Range(h))
    BY <2>1, SeqOfRange
  <2>3. ASSUME NEW s \in Range(h) PROVE s \in Seq(Plain)
    <3>1. s \in Seq(STRING \ Wide)
      BY <2>1, RangeOfSeq
    <3>2. s \in Seq(Range(s)) /\ Range(s) \subseteq STRING \ Wide
      BY <3>1, SeqOfRange, RangeOfSeq
    <3>3. Range(s) \subseteq Typable
      BY DEF Typable, Recorded
    <3>4. Range(s) \subseteq Plain
      BY <3>2, <3>3 DEF Plain
    <3> QED
      BY <3>2, <3>4, SeqMonotonic
  <2>4. Range(h) \subseteq Seq(Plain)
    BY <2>3
  <2> QED
    BY <2>2, <2>4, SeqMonotonic
<1>3. Blank \in Plain
  <2>1. Blank \in Typable
    BY Zenon DEF Typable
  <2> QED
    BY <2>1, LineAssumption, Zenon DEF Plain
<1> QED
  BY <1>1, <1>2, <1>3

\* The length in bytes is that in runes, unless a rune is wide.
LEMMA BytesAre ==
    ASSUME NEW T, NEW s \in Seq(T)
    PROVE  /\ Bytes(s) \in Nat /\ Bytes(s) >= Len(s)
           /\ T \cap Wide = {} => Bytes(s) = Len(s)
<1> DEFINE W == {k \in DOMAIN s : s[k] \in Wide}
<1>1. DOMAIN s = 1 .. Len(s) /\ Len(s) \in Nat /\ \A k \in 1 .. Len(s) : s[k] \in T
  BY LenProperties
<1>2. IsFiniteSet(1 .. Len(s))
  BY <1>1, FS_Interval
<1>3. IsFiniteSet(W)
  BY <1>1, <1>2, FS_Subset
<1>4. Cardinality(W) \in Nat
  BY <1>3, FS_CardinalityType
<1>5. ASSUME T \cap Wide = {} PROVE Cardinality(W) = 0
  <2>1. W = {}
    BY <1>1, <1>5
  <2> QED
    BY <2>1, FS_EmptySet
<1>6. Bytes(s) = Len(s) + 2 * Cardinality(W)
  BY DEF Bytes
<1>7. ASSUME NEW n \in Nat PROVE Len(s) + 2 * n \in Nat /\ Len(s) + 2 * n >= Len(s)
  BY <1>1
<1>8. Bytes(s) \in Nat /\ Bytes(s) >= Len(s)
  BY <1>4, <1>6, <1>7
<1>9. ASSUME T \cap Wide = {} PROVE Bytes(s) = Len(s)
  BY <1>1, <1>5, <1>6, <1>9
<1> QED
  BY <1>8, <1>9

\* A tab is a sequence of TAB runes.
LEMMA TabIs ==
    ASSUME NEW T, NEW e \in T
    PROVE  [k \in 1 .. TAB |-> e] \in Seq(T) /\ Len([k \in 1 .. TAB |-> e]) = TAB
<1>1. TAB \in Nat
  BY LineAssumption
<1>2. [k \in 1 .. TAB |-> e] \in Seq(T)
  BY <1>1
<1> QED
  BY <1>1, <1>2

\* A keystroke stands for at least one rune.
LEMMA TextIs ==
    ASSUME NEW T, Blank \in T, NEW key \in Seq(T), key # <<>>
    PROVE  Text(key) \in Seq(T) /\ Len(Text(key)) \in Nat \ {0}
<1>1. CASE key = <<"tab">>
  <2>1. Text(key) = [k \in 1 .. TAB |-> Blank]
    BY <1>1 DEF Text
  <2>2. TAB \in Nat \ {0}
    BY LineAssumption
  <2> QED
    BY <2>1, <2>2, TabIs
<1>2. CASE key # <<"tab">>
  BY <1>2, EmptySeq DEF Text
<1> QED
  BY <1>1, <1>2

\* The line behind place n.
LEMMA FromIs ==
    ASSUME NEW T, NEW s \in Seq(T), NEW n \in Nat
    PROVE  /\ From(s, n) \in Seq(T)
           /\ Len(From(s, n)) = IF n <= Len(s) THEN Len(s) - n ELSE 0
           /\ \A i \in 1 .. (Len(s) - n) : From(s, n)[i] = s[n + i]
<1>1. Len(s) \in Nat /\ \A i \in 1 .. Len(s) : s[i] \in T
  BY LenProperties
<1>2. n + 1 \in Int /\ Len(s) \in Int /\ \A i \in (n + 1) .. Len(s) : s[i] \in T
  BY <1>1
<1>3. /\ SubSeq(s, n + 1, Len(s)) \in Seq(T)
      /\ Len(SubSeq(s, n + 1, Len(s))) = IF n + 1 <= Len(s) THEN Len(s) - (n + 1) + 1 ELSE 0
      /\ \A i \in 1 .. (Len(s) - (n + 1) + 1) : SubSeq(s, n + 1, Len(s))[i] = s[(n + 1) + i - 1]
  BY <1>2, SubSeqProperties
<1> QED
  BY <1>1, <1>3 DEF From

\* The line up to place n.
LEMMA FirstIs ==
    ASSUME NEW T, NEW s \in Seq(T), NEW n \in 0 .. Len(s)
    PROVE  /\ SubSeq(s, 1, n) \in Seq(T) /\ Len(SubSeq(s, 1, n)) = n
           /\ \A i \in 1 .. n : SubSeq(s, 1, n)[i] = s[i]
<1>1. Len(s) \in Nat /\ \A i \in 1 .. Len(s) : s[i] \in T
  BY LenProperties
<1>2. 1 \in Int /\ n \in Int /\ \A i \in 1 .. n : s[i] \in T
  BY <1>1
<1>3. /\ SubSeq(s, 1, n) \in Seq(T)
      /\ Len(SubSeq(s, 1, n)) = IF 1 <= n THEN n - 1 + 1 ELSE 0
      /\ \A i \in 1 .. (n - 1 + 1) : SubSeq(s, 1, n)[i] = s[1 + i - 1]
  BY <1>2, SubSeqProperties
<1> QED
  BY <1>1, <1>3

\* A line with one rune more.
LEMMA EndIs ==
    ASSUME NEW T, NEW s \in Seq(T), NEW e \in T
    PROVE  /\ s \o <<e>> \in Seq(T) /\ Len(s \o <<e>>) = Len(s) + 1
           /\ \A i \in 1 .. (Len(s) + 1) : (s \o <<e>>)[i] = IF i <= Len(s) THEN s[i] ELSE e
OBVIOUS

\* Two lines, one behind the other.
LEMMA ConcatIs ==
    ASSUME NEW T, NEW s \in Seq(T), NEW t \in Seq(T)
    PROVE  /\ s \o t \in Seq(T) /\ Len(s \o t) = Len(s) + Len(t)
           /\ \A i \in 1 .. (Len(s) + Len(t)) :
                 (s \o t)[i] = IF i <= Len(s) THEN s[i] ELSE t[i - Len(s)]
OBVIOUS

-----------------------------------------------------------------------------
(* The row of the terminal. *)

\* What a row may show.
Shown == Typable \cup {"*"}

Screen == [row : Seq(Shown), col : Int]

\* The row after s has been written.
LEMMA OverIs ==
    ASSUME NEW scr \in Screen, NEW s \in Seq(Shown)
    PROVE  /\ Over(scr, s) \in Screen /\ Over(scr, s).col = scr.col + Len(s)
           /\ Len(Over(scr, s).row) = Larger(Len(scr.row), scr.col + Len(s))
           /\ \A k \in 1 .. Larger(Len(scr.row), scr.col + Len(s)) :
                 Over(scr, s).row[k] = IF k > scr.col /\ k <= scr.col + Len(s) THEN s[k - scr.col]
                                       ELSE IF k <= Len(scr.row) THEN scr.row[k] ELSE Blank
<1> DEFINE n == Larger(Len(scr.row), scr.col + Len(s))
           e(k) == IF k > scr.col /\ k <= scr.col + Len(s) THEN s[k - scr.col]
                   ELSE IF k <= Len(scr.row) THEN scr.row[k] ELSE Blank
           r == [k \in 1 .. n |-> e(k)]
<1>1. /\ scr.row \in Seq(Shown) /\ scr.col \in Int /\ Len(scr.row) \in Nat /\ Len(s) \in Nat
      /\ \A k \in 1 .. Len(s) : s[k] \in Shown
      /\ \A k \in 1 .. Len(scr.row) : scr.row[k] \in Shown
  BY LenProperties DEF Screen
<1>2. n \in Nat
  BY <1>1 DEF Larger
<1>3. Blank \in Shown
  BY Runes DEF Shown, Plain
<1>4. ASSUME NEW k \in 1 .. n PROVE e(k) \in Shown
  <2>1. CASE k > scr.col /\ k <= scr.col + Len(s)
    BY <1>1, <1>2, <2>1
  <2>2. CASE ~(k > scr.col /\ k <= scr.col + Len(s))
    BY <1>1, <1>2, <1>3, <2>2
  <2> QED
    BY <2>1, <2>2
<1>5. Over(scr, s) = [row |-> r, col |-> scr.col + Len(s)]
  BY DEF Over
<1>6. \A k \in 1 .. n : r[k] = e(k)
  OBVIOUS
<1>7. r \in [1 .. n -> Shown]
  BY <1>4
<1> HIDE DEF n, e
<1>8. r \in Seq(Shown) /\ Len(r) = n
  BY <1>2, <1>7
<1> HIDE DEF r
<1>9. Over(scr, s) \in Screen /\ Over(scr, s).row = r /\ Over(scr, s).col = scr.col + Len(s)
  BY <1>1, <1>5, <1>8 DEF Screen
<1> QED
  BY <1>6, <1>8, <1>9 DEF n, e

\* The cursor taken back, not further than the beginning of the prompt.
LEMMA BackIs ==
    ASSUME NEW scr \in Screen, NEW n \in Int
    PROVE  /\ Back(scr, n) \in Screen /\ Back(scr, n).row = scr.row
           /\ Back(scr, n).col = Larger(scr.col - n, -PROMPT) /\ Back(scr, n).col >= -PROMPT
<1>1. scr.col \in Int /\ PROMPT \in Nat
  BY LineAssumption DEF Screen
<1>2. Larger(scr.col - n, -PROMPT) \in Int /\ Larger(scr.col - n, -PROMPT) >= -PROMPT
  BY <1>1 DEF Larger
<1>3. Back(scr, n) = [scr EXCEPT !.col = Larger(scr.col - n, -PROMPT)]
  BY DEF Back
<1> HIDE DEF Larger
<1> QED
  BY <1>2, <1>3 DEF Screen

\* scr shows the line, and nothing behind it, with the cursor at place at.
Shows(scr, line, at) ==
    /\ Len(scr.row) >= Len(line) /\ scr.col = at
    /\ \A k \in 1 .. Len(scr.row) : scr.row[k] = IF k <= Len(line) THEN line[k] ELSE Blank

\* The tail of a line written again makes the row show the line, when the part
\* before the cursor is right and at most one rune behind its end is not.
LEMMA TailShows ==
    ASSUME NEW scr \in Screen, NEW line \in Seq(Plain), NEW at \in 0 .. Len(line),
           scr.col = at, Len(scr.row) >= at,
           \A k \in 1 .. at : scr.row[k] = line[k],
           \A k \in 1 .. Len(scr.row) :
              k > Len(line) + 1 \/ (k > Len(line) /\ at = Len(line)) => scr.row[k] = Blank
    PROVE  Shows(TailShown(scr, From(line, at)), line, at)
<1> DEFINE right == From(line, at)
           L == Len(line)
<1>1. /\ L \in Nat /\ at \in Nat /\ at <= L /\ Len(scr.row) \in Nat /\ scr.row \in Seq(Shown)
      /\ Plain \subseteq Shown /\ Plain \cap Wide = {} /\ Blank \in Plain
  BY LenProperties, Runes DEF Screen, Plain, Shown
<1>2. /\ right \in Seq(Plain) /\ Len(right) = L - at
      /\ \A i \in 1 .. (L - at) : right[i] = line[at + i]
  BY <1>1, FromIs
<1>3. Bytes(right) = L - at
  BY <1>1, <1>2, BytesAre
<1> HIDE DEF right, L
<1>4. CASE right = <<>>
  <2>1. TailShown(scr, right) = scr /\ at = L
    BY <1>1, <1>2, <1>4 DEF TailShown
  <2> QED
    BY <1>1, <2>1 DEF Shows, right, L
<1>5. CASE right # <<>>
  <2> DEFINE s == right \o <<Blank>>
             o == Over(scr, s)
             t == Back(o, Bytes(right) + 1)
  <2>1. TailShown(scr, right) = t
    BY <1>5 DEF TailShown
  <2>2. /\ s \in Seq(Plain) /\ Len(s) = L - at + 1
        /\ \A i \in 1 .. (L - at + 1) : s[i] = IF i <= L - at THEN right[i] ELSE Blank
    <3>1. /\ s \in Seq(Plain) /\ Len(s) = Len(right) + 1
          /\ \A i \in 1 .. (Len(right) + 1) : s[i] = IF i <= Len(right) THEN right[i] ELSE Blank
      BY <1>1, <1>2, EndIs
    <3> HIDE DEF s
    <3> QED
      BY <1>1, <1>2, <3>1
  <2>3. s \in Seq(Shown)
    BY <1>1, <2>2, SeqMonotonic
  <2> HIDE DEF s
  <2>4. /\ o \in Screen /\ o.col = L + 1
        /\ Len(o.row) = Larger(Len(scr.row), L + 1)
        /\ \A k \in 1 .. Larger(Len(scr.row), L + 1) :
              o.row[k] = IF k > at /\ k <= L + 1 THEN s[k - at]
                         ELSE IF k <= Len(scr.row) THEN scr.row[k] ELSE Blank
    <3>1. scr.col + Len(s) = L + 1
      BY <1>1, <2>2
    <3> QED
      BY <2>3, <3>1, OverIs
  <2> HIDE DEF o
  <2>5. t.row = o.row /\ t.col = at
    <3>1. Bytes(right) + 1 \in Int /\ o.col - (Bytes(right) + 1) = at
      BY <1>1, <1>3, <2>4
    <3>2. t.row = o.row /\ t.col = Larger(at, -PROMPT)
      BY <2>4, <3>1, BackIs
    <3> QED
      BY <1>1, <3>2, LineAssumption DEF Larger
  <2>6. Len(o.row) >= L /\ Len(o.row) \in Nat
    BY <1>1, <2>4 DEF Larger
  <2>7. ASSUME NEW k \in 1 .. Len(o.row) PROVE o.row[k] = IF k <= L THEN line[k] ELSE Blank
    <3>0. k \in Nat /\ k >= 1 /\ k \in 1 .. Larger(Len(scr.row), L + 1)
      BY <2>4, <2>6
    <3>1. CASE k <= at
      BY <1>1, <2>4, <3>0, <3>1 DEF L
    <3>2. CASE k > at /\ k <= L
      <4>1. o.row[k] = s[k - at] /\ k - at \in 1 .. (L - at)
        BY <1>1, <2>4, <3>0, <3>2
      <4>2. s[k - at] = right[k - at]
        BY <1>1, <2>2, <4>1
      <4>3. right[k - at] = line[at + (k - at)] /\ at + (k - at) = k
        BY <1>1, <1>2, <3>0, <4>1
      <4> QED
        BY <3>2, <4>1, <4>2, <4>3
    <3>3. CASE k = L + 1
      <4>1. o.row[k] = s[k - at]
        BY <1>1, <2>4, <3>0, <3>3
      <4>2. s[k - at] = Blank
        BY <1>1, <2>2, <3>3
      <4> QED
        BY <1>1, <3>3, <4>1, <4>2
    <3>4. CASE k > L + 1
      <4>1. k <= Len(scr.row) => scr.row[k] = Blank
        BY <1>1, <3>0, <3>4 DEF L
      <4> QED
        BY <1>1, <2>4, <3>0, <3>4, <4>1
    <3> QED
      BY <1>1, <3>0, <3>1, <3>2, <3>3, <3>4
  <2> QED
    BY <2>1, <2>5, <2>6, <2>7 DEF Shows, right, L
<1> QED
  BY <1>4, <1>5 DEF right
-----------------------------------------------------------------------------
(* What the keys do to a line. *)

\* The line with runes put in behind place c, and with the one there taken out.
Inserted(line, r, c) == SubSeq(line, 1, c) \o r \o From(line, c)

Deleted(line, c) == RemoveAt(line, c + 1)

\* What the line with runes put in holds.
LEMMA InsertIs ==
    ASSUME NEW T, NEW line \in Seq(T), NEW r \in Seq(T), NEW c \in 0 .. Len(line)
    PROVE  /\ Inserted(line, r, c) \in Seq(T)
           /\ Len(Inserted(line, r, c)) = Len(line) + Len(r)
           /\ \A i \in 1 .. (Len(line) + Len(r)) :
                 Inserted(line, r, c)[i] = IF i <= c THEN line[i]
                                           ELSE IF i <= c + Len(r) THEN r[i - c] ELSE line[i - Len(r)]
<1> DEFINE a == SubSeq(line, 1, c)
           z == From(line, c)
           b == a \o r
           l == b \o z
           M == Len(line)
           n == Len(r)
<1>1. M \in Nat /\ n \in Nat /\ c \in Nat /\ c <= M
  BY LenProperties
<1>2. a \in Seq(T) /\ Len(a) = c /\ \A i \in 1 .. c : a[i] = line[i]
  BY FirstIs
<1>3. z \in Seq(T) /\ Len(z) = M - c /\ \A i \in 1 .. (M - c) : z[i] = line[c + i]
  BY <1>1, FromIs
<1>4. Inserted(line, r, c) = l
  BY DEF Inserted
<1> HIDE DEF a, z
<1>5. /\ b \in Seq(T) /\ Len(b) = c + n
      /\ \A i \in 1 .. (c + n) : b[i] = IF i <= c THEN a[i] ELSE r[i - c]
  BY <1>2, ConcatIs
<1> HIDE DEF b
<1>6. /\ l \in Seq(T) /\ Len(l) = Len(b) + Len(z)
      /\ \A i \in 1 .. (Len(b) + Len(z)) : l[i] = IF i <= Len(b) THEN b[i] ELSE z[i - Len(b)]
  BY <1>3, <1>5, ConcatIs
<1> HIDE DEF l, M, n
<1>7. Len(l) = M + n /\ \A i \in 1 .. (M + n) : l[i] = IF i <= c + n THEN b[i] ELSE z[i - (c + n)]
  BY <1>1, <1>3, <1>5, <1>6
<1>8. ASSUME NEW i \in 1 .. (M + n)
      PROVE  l[i] = IF i <= c THEN line[i] ELSE IF i <= c + n THEN r[i - c] ELSE line[i - n]
  <2>1. CASE i <= c + n
    BY <1>1, <1>2, <1>5, <1>7, <2>1
  <2>2. CASE ~(i <= c + n)
    <3>1. i - (c + n) \in 1 .. (M - c) /\ c + (i - (c + n)) = i - n
      BY <1>1, <2>2
    <3>2. l[i] = z[i - (c + n)] /\ z[i - (c + n)] = line[i - n]
      BY <1>3, <1>7, <2>2, <3>1
    <3> QED
      BY <1>1, <2>2, <3>2
  <2> QED
    BY <2>1, <2>2
<1> QED
  BY <1>4, <1>6, <1>7, <1>8 DEF M, n

\* What the line with a rune taken out holds.
LEMMA DeleteIs ==
    ASSUME NEW T, NEW line \in Seq(T), NEW c \in Nat, c < Len(line)
    PROVE  /\ Deleted(line, c) \in Seq(T) /\ Len(Deleted(line, c)) = Len(line) - 1
           /\ \A i \in 1 .. (Len(line) - 1) :
                 Deleted(line, c)[i] = IF i <= c THEN line[i] ELSE line[i + 1]
<1> DEFINE a == SubSeq(line, 1, c)
           z == From(line, c + 1)
           l == a \o z
           M == Len(line)
<1>1. M \in Nat /\ c \in 0 .. M
  BY LenProperties
<1>2. a \in Seq(T) /\ Len(a) = c /\ \A i \in 1 .. c : a[i] = line[i]
  BY <1>1, FirstIs
<1>3. /\ z \in Seq(T) /\ Len(z) = M - (c + 1)
      /\ \A i \in 1 .. (M - (c + 1)) : z[i] = line[(c + 1) + i]
  <2> DEFINE d == c + 1
  <2>1. d \in Nat /\ d <= M
    BY <1>1
  <2> HIDE DEF d
  <2>2. /\ From(line, d) \in Seq(T) /\ Len(From(line, d)) = M - d
        /\ \A i \in 1 .. (M - d) : From(line, d)[i] = line[d + i]
    BY <2>1, FromIs
  <2> QED
    BY <2>2 DEF d
<1>4. Deleted(line, c) = l
  <2>1. (c + 1) - 1 = c
    OBVIOUS
  <2> QED
    BY <2>1 DEF Deleted, RemoveAt, From
<1> HIDE DEF a, z
<1>5. /\ l \in Seq(T) /\ Len(l) = Len(a) + Len(z)
      /\ \A i \in 1 .. (Len(a) + Len(z)) : l[i] = IF i <= Len(a) THEN a[i] ELSE z[i - Len(a)]
  BY <1>2, <1>3, ConcatIs
<1> HIDE DEF l, M
<1>6. Len(l) = M - 1 /\ \A i \in 1 .. (M - 1) : l[i] = IF i <= c THEN a[i] ELSE z[i - c]
  BY <1>1, <1>2, <1>3, <1>5
<1>7. ASSUME NEW i \in 1 .. (M - 1) PROVE l[i] = IF i <= c THEN line[i] ELSE line[i + 1]
  <2>1. CASE i <= c
    BY <1>1, <1>2, <1>6, <2>1
  <2>2. CASE ~(i <= c)
    <3>1. i - c \in 1 .. (M - (c + 1)) /\ (c + 1) + (i - c) = i + 1
      BY <1>1, <2>2
    <3>2. l[i] = z[i - c] /\ z[i - c] = line[i + 1]
      BY <1>3, <1>6, <2>2, <3>1
    <3> QED
      BY <2>2, <3>2
  <2> QED
    BY <2>1, <2>2
<1> QED
  BY <1>4, <1>5, <1>6, <1>7 DEF M

-----------------------------------------------------------------------------
(* The inductive invariant of the line editors. *)

EditTyped ==
    /\ reader \in {"sh", "login", "secret", "adduser", "secret2"}
    /\ phase \in {"read", "busy", "closed", "dead"}
    /\ busy \in [key : Seq(Typable), cursor : Nat]
    /\ phase = "busy" => busy.key # <<>>
    /\ buffer \in Seq(Typable) /\ cursor \in Nat
    /\ history \in Seq(Seq(Typable)) /\ draft \in Seq(Typable)
    /\ \/ posInHistory = -1
       \/ reader = "sh" /\ posInHistory \in 0 .. (Len(history) - 2) /\ Last(history) = draft
    /\ screen \in Screen /\ screen.col >= -PROMPT
    /\ wide \in BOOLEAN /\ raced \in BOOLEAN /\ garbled \in BOOLEAN

\* No rune that counts for more than one byte has got into a line.
PlainLines ==
    ~wide => /\ buffer \in Seq(Plain) /\ history \in Seq(Seq(Plain))
             /\ busy.key \in Seq(Plain)

\* The place a keystroke leaves the cursor at before it takes effect.
Arrived == IF busy.key = Del /\ busy.cursor > 0 THEN busy.cursor - 1 ELSE busy.cursor

\* The cursor is in the line, and a keystroke under way has found it there.
InLine ==
    ~wide /\ ~raced =>
        /\ cursor <= Len(buffer)
        /\ phase = "busy" => busy.cursor <= Len(buffer) /\ cursor = Arrived

\* The row can be trusted.
Clean == ~Masked /\ ~wide /\ ~raced /\ ~garbled

\* What the echo of the keystroke under way has made of the row scr.
Follows(scr) ==
    /\ busy.key \notin Ignored \ {CtrlU}
    /\ busy.key = Del => screen = IF busy.cursor > 0 THEN Rubbed(scr) ELSE scr
    /\ busy.key \in {Up, Down, CtrlU} => screen = scr
    /\ busy.key = Right => screen = IF busy.cursor = Len(buffer) THEN scr ELSE [scr EXCEPT !.col = @ + 1]
    /\ busy.key = Left => screen = IF busy.cursor = 0 THEN scr ELSE Back(scr, 1)
    /\ busy.key \notin {Enter, Del, Up, Down, CtrlU, Right, Left} => screen = Over(scr, Text(busy.key))

\* The row shows the line, or did before the echo of the keystroke under way.
RowShows ==
    /\ Clean /\ phase = "read" => Shows(screen, buffer, cursor)
    /\ Clean /\ phase = "busy" /\ busy.key # Enter =>
          \E scr \in Screen : Shows(scr, buffer, busy.cursor) /\ Follows(scr)

EInv == EditTyped /\ PlainLines /\ InLine /\ RowShows /\ NoPanic

-----------------------------------------------------------------------------
(* Keys, lines and rows of the next state. *)

\* The editing keys are not the same.
LEMMA KeysApart ==
    /\ Enter # Del /\ Enter \notin {Up, Down, Right, Left} /\ Del \notin {Up, Down, Right, Left}
    /\ Up # Down /\ Up # Right /\ Up # Left /\ Down # Right /\ Down # Left /\ Right # Left
    /\ Ignored \cap {Up, Down, Right, Left, Enter, Del} = {}
    /\ CtrlU \in Ignored
<1>1. /\ Len(Up) = 3 /\ Len(Down) = 3 /\ Len(Right) = 3 /\ Len(Left) = 3
      /\ Up[3] = "A" /\ Down[3] = "B" /\ Right[3] = "C" /\ Left[3] = "D"
      /\ Len(Enter) = 1 /\ Len(Del) = 1 /\ Enter[1] = "cr" /\ Del[1] = "del"
  BY DEF Up, Down, Right, Left, Enter, Del
<1>2. \A key \in Ignored : Len(key) \in {1, 2} /\ key[1] \in {"esc", "nak", "stx"}
  BY DEF Ignored, CtrlU
<1>3. CtrlU \in Ignored
  BY DEF Ignored
<1> QED
  BY <1>1, <1>2, <1>3

\* A keystroke that is only echoed, and not Ctrl-U, has a control character.
LEMMA IgnoredGarble ==
    ASSUME NEW key \in Ignored \ {CtrlU}
    PROVE  Range(key) \cap {"esc", "stx"} # {}
<1>1. key \in {<<"esc">>, <<"esc", "w">>, <<"esc", "del">>, <<"stx">>}
  BY DEF Ignored
<1>2. 1 \in DOMAIN key /\ key[1] \in {"esc", "stx"}
  BY <1>1
<1> QED
  BY <1>2 DEF Range

\* Lines stay sequences over any set of runes with the blank that the key is of.
LEMMA LinesStay ==
    ASSUME NEW T, Blank \in T, EditTyped,
           buffer \in Seq(T), history \in Seq(Seq(T)), busy.key \in Seq(T),
           Finish \/ Sigint
    PROVE  buffer' \in Seq(T) /\ history' \in Seq(Seq(T))
<1>0. <<>> \in Seq(T)
  OBVIOUS
<1>1. CASE EnterShell
  BY <1>0, <1>1 DEF EnterShell
<1>2. CASE EnterLine \/ SigintShell \/ SigintLine
  BY <1>0, <1>2 DEF EnterLine, SigintShell, SigintLine, shell
<1>3. CASE Delete
  <2>1. history' = history
    BY <1>3 DEF Delete, shell
  <2>2. CASE busy.cursor > 0 /\ cursor < Len(buffer)
    <3>1. buffer' = Deleted(buffer, cursor) /\ cursor \in Nat
      BY <1>3, <2>2 DEF Delete, Deleted, EditTyped
    <3> QED
      BY <2>1, <2>2, <3>1, DeleteIs
  <2>3. CASE ~(busy.cursor > 0 /\ cursor < Len(buffer))
    BY <1>3, <2>1, <2>3 DEF Delete
  <2> QED
    BY <2>2, <2>3
<1>4. CASE MoveRight \/ MoveLeft \/ NoEffect \/ InsertPanics \/ RacePanics
  BY <1>4 DEF MoveRight, MoveLeft, NoEffect, InsertPanics, RacePanics, shell
<1>5. ASSUME NEW h \in Seq(Seq(T)), NEW pos \in -1 .. (Len(h) - 1), h # <<>>, Recall(h, pos)
      PROVE  buffer' \in Seq(T) /\ history' \in Seq(Seq(T))
  <2>1. (IF pos = -1 THEN Len(h) ELSE pos + 1) \in 1 .. Len(h)
    BY <1>5, EmptySeq, LenProperties
  <2> QED
    BY <1>5, <2>1 DEF Recall
<1>6. CASE HistoryUp
  <2>1. Len(history) \in Nat \ {0}
    BY <1>6, EmptySeq DEF HistoryUp
  <2>2. CASE posInHistory = -1
    <3> DEFINE h == Append(history, buffer)
    <3>1. h \in Seq(Seq(T)) /\ Len(h) = Len(history) + 1 /\ h # <<>>
      OBVIOUS
    <3>2. Recall(h, Len(history) - 1)
      BY <1>6, <2>2 DEF HistoryUp
    <3> HIDE DEF h
    <3>3. Len(history) - 1 \in -1 .. (Len(h) - 1)
      BY <2>1, <3>1
    <3> QED
      BY <1>5, <3>1, <3>2, <3>3
  <2>3. CASE posInHistory # -1
    <3> DEFINE h == Edited
               pos == IF posInHistory > 0 THEN posInHistory - 1 ELSE 0
    <3>1. posInHistory \in 0 .. (Len(history) - 2)
      BY <2>3 DEF EditTyped
    <3>2. h \in Seq(Seq(T)) /\ Len(h) = Len(history) /\ h # <<>>
      BY <2>1, <3>1 DEF Edited
    <3>3. Recall(h, pos)
      BY <1>6, <2>3 DEF HistoryUp
    <3>4. pos \in -1 .. (Len(h) - 1)
      BY <2>1, <3>1, <3>2
    <3> HIDE DEF h, pos
    <3> QED
      BY <1>5, <3>2, <3>3, <3>4
  <2> QED
    BY <2>2, <2>3
<1>7. CASE HistoryDown
  <2> DEFINE h == Edited
             pos == IF posInHistory = Len(history) - 2 THEN -1 ELSE posInHistory + 1
  <2>1. Len(history) \in Nat \ {0}
    BY <1>7, EmptySeq DEF HistoryDown
  <2>2. posInHistory \in 0 .. (Len(history) - 2)
    BY <1>7 DEF HistoryDown, EditTyped
  <2>3. h \in Seq(Seq(T)) /\ Len(h) = Len(history) /\ h # <<>>
    BY <2>1, <2>2 DEF Edited
  <2>4. Recall(h, pos)
    BY <1>7 DEF HistoryDown
  <2>5. pos \in -1 .. (Len(h) - 1)
    BY <2>1, <2>2, <2>3
  <2> HIDE DEF h, pos
  <2> QED
    BY <1>5, <2>3, <2>4, <2>5
<1>8. CASE Insert
  <2>1. /\ phase = "busy" /\ busy.cursor \in 0 .. Len(buffer) /\ history' = history
        /\ buffer' = Inserted(buffer, Text(busy.key), busy.cursor)
    BY <1>8 DEF Insert, IsText, Inserted, shell, EditTyped
  <2>2. Text(busy.key) \in Seq(T)
    BY <2>1, TextIs DEF EditTyped
  <2> QED
    BY <2>1, <2>2, InsertIs
<1> QED
  BY <1>1, <1>2, <1>3, <1>4, <1>6, <1>7, <1>8 DEF Finish, Sigint

\* What is echoed where the text is shown.
LEMMA EchoIs ==
    ASSUME ~Masked, NEW key
    PROVE  /\ key = Del => Echoed(key) = IF cursor > 0 THEN Rubbed(screen) ELSE screen
           /\ key \in {Up, Down, CtrlU} => Echoed(key) = screen
           /\ key = Right => Echoed(key) = IF cursor = Bytes(buffer) THEN screen ELSE [screen EXCEPT !.col = @ + 1]
           /\ key = Left => Echoed(key) = IF cursor = 0 THEN screen ELSE Back(screen, 1)
           /\ key \notin {Enter, Del, Up, Down, CtrlU, Right, Left} => Echoed(key) = Over(screen, Text(key))
<1>1. CtrlU \notin {Enter, Del, Up, Down, Right, Left}
  BY KeysApart
<1>2. key = Del => Echoed(key) = IF cursor > 0 THEN Rubbed(screen) ELSE screen
  BY KeysApart, Zenon DEF Echoed
<1>3. key \in {Up, Down, CtrlU} => Echoed(key) = screen
  BY <1>1, KeysApart, Zenon DEF Echoed
<1>4. key = Right => Echoed(key) = IF cursor = Bytes(buffer) THEN screen ELSE [screen EXCEPT !.col = @ + 1]
  BY <1>1, KeysApart, Zenon DEF Echoed
<1>5. key = Left => Echoed(key) = IF cursor = 0 THEN screen ELSE Back(screen, 1)
  BY <1>1, KeysApart, Zenon DEF Echoed
<1>6. key \notin {Enter, Del, Up, Down, CtrlU, Right, Left} => Echoed(key) = Over(screen, Text(key))
  BY Zenon DEF Echoed
<1> QED
  BY <1>2, <1>3, <1>4, <1>5, <1>6

\* A row that gets an echo stays a row.
LEMMA EchoTyped ==
    ASSUME EditTyped, NEW key \in Seq(Typable), key # <<>>
    PROVE  Echoed(key) \in Screen /\ Echoed(key).col >= -PROMPT
<1>0. /\ screen \in Screen /\ screen.col \in Int /\ screen.col >= -PROMPT /\ PROMPT \in Nat
      /\ Blank \in Typable /\ Typable \subseteq Shown
  BY LineAssumption, Runes DEF EditTyped, Screen, Plain, Shown
<1>1. ASSUME NEW s \in Seq(Shown)
      PROVE  Over(screen, s) \in Screen /\ Over(screen, s).col >= -PROMPT
  <2>1. Len(s) \in Nat /\ Over(screen, s) \in Screen /\ Over(screen, s).col = screen.col + Len(s)
    BY <1>0, OverIs, LenProperties
  <2> QED
    BY <1>0, <2>1
<1>2. Over(screen, <<"*">>) \in Screen /\ Over(screen, <<"*">>).col >= -PROMPT
  <2> DEFINE s == <<"*">>
  <2>1. s \in Seq(Shown)
    BY DEF Shown
  <2> HIDE DEF s
  <2>2. Over(screen, s) \in Screen /\ Over(screen, s).col >= -PROMPT
    BY <1>1, <2>1
  <2> QED
    BY <2>2 DEF s
<1>3. Over(screen, Text(key)) \in Screen /\ Over(screen, Text(key)).col >= -PROMPT
  <2>1. Text(key) \in Seq(Typable)
    BY <1>0, TextIs
  <2>2. Text(key) \in Seq(Shown)
    BY <1>0, <2>1, SeqMonotonic
  <2> QED
    BY <1>1, <2>2
<1>4. /\ Back(screen, 1) \in Screen /\ Back(screen, 1).col >= -PROMPT
      /\ Back(screen, screen.col + PROMPT) \in Screen /\ Back(screen, screen.col + PROMPT).col >= -PROMPT
  <2>1. 1 \in Int /\ screen.col + PROMPT \in Int
    BY <1>0
  <2> QED
    BY <1>0, <2>1, BackIs
<1>5. Rubbed(screen) \in Screen /\ Rubbed(screen).col >= -PROMPT
  <2> DEFINE s == <<Blank>>
             o == Over(Back(screen, 1), s)
  <2>1. s \in Seq(Shown)
    BY <1>0
  <2> HIDE DEF s
  <2>2. o \in Screen
    BY <1>4, <2>1, OverIs
  <2> HIDE DEF o
  <2>3. Back(o, 1) \in Screen /\ Back(o, 1).col >= -PROMPT
    BY <2>2, BackIs
  <2> QED
    BY <2>3 DEF Rubbed, o, s
<1>6. [screen EXCEPT !.col = @ + 1] \in Screen /\ [screen EXCEPT !.col = @ + 1].col >= -PROMPT
  BY <1>0 DEF Screen
<1>7. CASE Masked /\ key \notin {Enter, Del}
  <2>1. Echoed(key) = Over(screen, <<"*">>)
    BY <1>7, Zenon DEF Echoed
  <2> QED
    BY <1>2, <2>1
<1>8. CASE key = Enter
  <2>1. Echoed(key) = Back(screen, screen.col + PROMPT)
    BY <1>8, KeysApart, Zenon DEF Echoed
  <2> QED
    BY <1>4, <2>1
<1>9. CASE key = Del
  <2>1. Echoed(key) = IF cursor > 0 THEN Rubbed(screen) ELSE screen
    BY <1>9, KeysApart, Zenon DEF Echoed
  <2> QED
    BY <1>0, <1>5, <2>1
<1>10. CASE ~Masked /\ key \notin {Enter, Del}
  <2>1. CASE key \in {Up, Down, CtrlU}
    BY <1>0, <1>10, <2>1, EchoIs
  <2>2. CASE key = Right
    BY <1>0, <1>6, <1>10, <2>2, EchoIs
  <2>3. CASE key = Left
    BY <1>0, <1>4, <1>10, <2>3, EchoIs
  <2>4. CASE key \notin {Up, Down, CtrlU, Right, Left}
    BY <1>3, <1>10, <2>4, EchoIs
  <2> QED
    BY <2>1, <2>2, <2>3, <2>4
<1> QED
  BY <1>7, <1>8, <1>9, <1>10

\* Begin: the keystroke finds the cursor in the line, and the row follows it.
LEMMA BeginKeeps ==
    ASSUME EInv, NEW key \in Seq(Typable), key # <<>>, Begin(key)
    PROVE  EInv'
<1> USE DEF EInv
<1>1. CASE Skipped(key)
  <2>1. UNCHANGED <<reader, phase, busy, buffer, cursor, history, posInHistory, draft, screen, wide, raced, garbled>>
    BY <1>1 DEF Begin, shell
  <2> QED
    BY <2>1 DEF EditTyped, PlainLines, InLine, Arrived, RowShows, Clean, Masked, Follows, NoPanic
<1>2. CASE ~Skipped(key)
  <2>1. /\ phase = "read" /\ phase' = "busy" /\ busy' = [key |-> key, cursor |-> cursor]
        /\ cursor' = IF key = Del /\ cursor > 0 THEN cursor - 1 ELSE cursor
        /\ screen' = Echoed(key)
        /\ wide' = (wide \/ \E k \in DOMAIN key : key[k] \in Wide)
        /\ garbled' = (garbled \/ (Range(key) \cap {"esc", "stx"} # {} /\ key \notin {Up, Down, Right, Left}))
        /\ UNCHANGED <<reader, buffer, history, posInHistory, draft, raced>>
    BY <1>2 DEF Begin, shell
  <2>2. busy'.key = key /\ busy'.cursor = cursor
    BY <2>1
  <2>3. wide' \in BOOLEAN /\ (~wide' => ~wide)
    BY <2>1 DEF EditTyped
  <2>4. garbled' \in BOOLEAN /\ (~garbled' => ~garbled)
    BY <2>1 DEF EditTyped
  <2>5. EditTyped'
    <3>1. Echoed(key) \in Screen /\ Echoed(key).col >= -PROMPT
      BY EchoTyped
    <3>2. cursor' \in Nat /\ busy' \in [key : Seq(Typable), cursor : Nat]
      BY <2>1 DEF EditTyped
    <3> QED
      BY <2>1, <2>2, <2>3, <2>4, <3>1, <3>2 DEF EditTyped
  <2>6. PlainLines'
    <3>1. ASSUME ~wide' PROVE key \in Seq(Plain)
      <4>1. \A k \in DOMAIN key : key[k] \in Plain
        BY <2>1, <3>1, LenProperties DEF Plain
      <4>2. key \in [1 .. Len(key) -> Plain] /\ Len(key) \in Nat
        BY <4>1, LenProperties
      <4> QED
        BY <4>2, SeqDef
    <3> QED
      BY <2>1, <2>2, <2>3, <3>1 DEF PlainLines
  <2>7. InLine'
    <3>1. cursor' = Arrived'
      BY <2>1, <2>2 DEF Arrived
    <3>2. cursor \in Nat /\ Len(buffer) \in Nat /\ cursor' <= cursor
      BY <2>1, LenProperties DEF EditTyped
    <3>3. ~wide' /\ ~raced' => cursor <= Len(buffer)
      BY <2>1, <2>3 DEF InLine
    <3>4. ~wide' /\ ~raced' => cursor' <= Len(buffer)
      BY <2>1, <3>2, <3>3
    <3> QED
      BY <2>1, <2>2, <3>1, <3>3, <3>4 DEF InLine
  <2>8. RowShows'
    <3> SUFFICES ASSUME Clean', busy'.key # Enter
                 PROVE  \E scr \in Screen : Shows(scr, buffer', busy'.cursor) /\ Follows(scr)'
      BY <2>1 DEF RowShows
    <3>1. Clean /\ ~Masked /\ ~wide'
      BY <2>1, <2>3, <2>4 DEF Clean, Masked
    <3>2. Shows(screen, buffer, cursor)
      BY <2>1, <3>1 DEF RowShows
    <3>3. Bytes(buffer) = Len(buffer)
      <4>1. buffer \in Seq(Plain) /\ Plain \cap Wide = {}
        BY <3>1 DEF PlainLines, Clean, Plain
      <4> QED
        BY <4>1, BytesAre
    <3>4. key \notin Ignored \ {CtrlU}
      BY <2>1, KeysApart, IgnoredGarble DEF Clean
    <3>5. PICK scr \in Screen : scr = screen
      BY DEF EditTyped
    <3>6. Follows(scr)'
      BY <2>1, <2>2, <3>1, <3>3, <3>4, <3>5, EchoIs DEF Follows
    <3> QED
      BY <2>1, <2>2, <3>2, <3>5, <3>6
  <2>9. NoPanic'
    BY <2>1 DEF NoPanic
  <2> QED
    BY <2>5, <2>6, <2>7, <2>8, <2>9
<1> QED
  BY <1>1, <1>2

\* An empty row shows an empty line.
LEMMA FreshShows == Fresh \in Screen /\ Fresh.col >= -PROMPT /\ Shows(Fresh, <<>>, 0)
<1>1. PROMPT \in Nat
  BY LineAssumption
<1>2. Fresh.row = <<>> /\ Fresh.col = 0 /\ Fresh \in Screen
  BY DEF Fresh, Screen
<1> QED
  BY <1>1, <1>2 DEF Shows

\* A recalled line is all of the row, with the cursor behind it.
LEMMA RedrawnShows ==
    ASSUME NEW line \in Seq(Typable)
    PROVE  /\ Redrawn(line) \in Screen /\ Redrawn(line).col >= -PROMPT
           /\ Shows(Redrawn(line), line, Len(line))
<1>1. PROMPT \in Nat /\ Len(line) \in Nat /\ line \in Seq(Shown)
  BY LineAssumption, LenProperties, SeqMonotonic DEF Shown
<1>2. Redrawn(line).row = line /\ Redrawn(line).col = Len(line) /\ Redrawn(line) \in Screen
  BY <1>1 DEF Redrawn, Screen
<1> QED
  BY <1>1, <1>2 DEF Shows

\* The tail of a line written again leaves a row.
LEMMA TailTyped ==
    ASSUME NEW scr \in Screen, scr.col >= -PROMPT, NEW right \in Seq(Typable)
    PROVE  TailShown(scr, right) \in Screen /\ TailShown(scr, right).col >= -PROMPT
<1>1. CASE right = <<>>
  BY <1>1 DEF TailShown
<1>2. CASE right # <<>>
  <2> DEFINE s == right \o <<Blank>>
             o == Over(scr, s)
  <2>0. Blank \in Typable /\ Typable \subseteq Shown
    BY Runes DEF Plain, Shown
  <2>1. s \in Seq(Typable)
    BY <2>0, EndIs
  <2> HIDE DEF s
  <2>2. s \in Seq(Shown)
    BY <2>0, <2>1, SeqMonotonic
  <2>3. o \in Screen
    BY <2>2, OverIs
  <2> HIDE DEF o
  <2>4. Bytes(right) + 1 \in Int
    BY BytesAre
  <2>5. Back(o, Bytes(right) + 1) \in Screen /\ Back(o, Bytes(right) + 1).col >= -PROMPT
    BY <2>3, <2>4, BackIs
  <2> QED
    BY <1>2, <2>5 DEF TailShown, o, s
<1> QED
  BY <1>1, <1>2

\* Rubbing out blanks the place before the cursor and leaves the cursor there.
LEMMA RubbedIs ==
    ASSUME NEW scr \in Screen, NEW c \in Nat \ {0}, scr.col = c, Len(scr.row) >= c
    PROVE  /\ Rubbed(scr).col = c - 1 /\ Len(Rubbed(scr).row) = Len(scr.row)
           /\ \A k \in 1 .. Len(scr.row) : Rubbed(scr).row[k] = IF k = c THEN Blank ELSE scr.row[k]
<1> DEFINE b == Back(scr, 1)
           s == <<Blank>>
           o == Over(b, s)
           L == Len(scr.row)
<1>1. L \in Nat /\ PROMPT \in Nat /\ Blank \in Shown
  BY LineAssumption, LenProperties, Runes DEF Screen, Plain, Shown
<1>2. b \in Screen /\ b.row = scr.row /\ b.col = c - 1
  <2>1. \A n \in Int : /\ Back(scr, n) \in Screen /\ Back(scr, n).row = scr.row
                        /\ Back(scr, n).col = Larger(scr.col - n, -PROMPT)
    BY BackIs
  <2> QED
    BY <1>1, <2>1 DEF Larger
<1>3. s \in Seq(Shown) /\ Len(s) = 1 /\ s[1] = Blank
  BY <1>1
<1> HIDE DEF b, s
<1>4. b.col + Len(s) = c /\ Larger(Len(b.row), c) = L
  BY <1>1, <1>2, <1>3 DEF Larger
<1> HIDE DEF L
<1>5. /\ o \in Screen /\ o.col = c /\ Len(o.row) = L
      /\ \A k \in 1 .. L : o.row[k] = IF k > b.col /\ k <= c THEN s[k - b.col]
                                      ELSE IF k <= Len(b.row) THEN b.row[k] ELSE Blank
  <2>1. /\ o \in Screen /\ o.col = b.col + Len(s) /\ Len(o.row) = Larger(Len(b.row), b.col + Len(s))
        /\ \A k \in 1 .. Larger(Len(b.row), b.col + Len(s)) :
              o.row[k] = IF k > b.col /\ k <= b.col + Len(s) THEN s[k - b.col]
                         ELSE IF k <= Len(b.row) THEN b.row[k] ELSE Blank
    BY <1>2, <1>3, OverIs
  <2> QED
    BY <1>4, <2>1
<1> HIDE DEF o
<1>6. \A k \in 1 .. L : o.row[k] = IF k = c THEN Blank ELSE scr.row[k]
  <2> TAKE k \in 1 .. L
  <2>1. CASE k = c
    <3>1. k - b.col = 1 /\ k > b.col /\ k <= c
      BY <1>2, <2>1
    <3> QED
      BY <1>3, <1>5, <2>1, <3>1
  <2>2. CASE k # c
    <3>1. ~(k > b.col /\ k <= c) /\ k <= Len(b.row)
      BY <1>1, <1>2, <2>2 DEF L
    <3> QED
      BY <1>2, <1>5, <2>2, <3>1
  <2> QED
    BY <2>1, <2>2
<1>7. Back(o, 1).row = o.row /\ Back(o, 1).col = c - 1
  <2>1. \A n \in Int : Back(o, n).row = o.row /\ Back(o, n).col = Larger(o.col - n, -PROMPT)
    BY <1>5, BackIs
  <2> QED
    BY <1>1, <1>5, <2>1 DEF Larger
<1>8. Rubbed(scr) = Back(o, 1)
  BY DEF Rubbed, o, b, s
<1> QED
  BY <1>5, <1>6, <1>7, <1>8 DEF L

-----------------------------------------------------------------------------
(* Each step keeps the invariant. *)

\* Whatever begins a new line.
LEMMA NewLineKeeps ==
    ASSUME EInv, Finish \/ Sigint,
           buffer' = <<>>, cursor' = 0, posInHistory' = -1,
           UNCHANGED <<busy, draft, wide>>,
           reader' \in {"sh", "login", "secret", "adduser", "secret2"},
           phase' \in {"read", "busy", "closed"}, phase' = "busy" => phase = "busy" /\ raced',
           raced' \in BOOLEAN, garbled' \in BOOLEAN,
           screen' = Fresh \/ (screen' = screen /\ garbled' = TRUE)
    PROVE  EInv'
<1> USE DEF EInv
<1>0. Blank \in Plain /\ Blank \in Typable
  BY Runes DEF Plain
<1>1. history' \in Seq(Seq(Typable))
  BY <1>0, LinesStay DEF EditTyped
<1>2. ~wide => history' \in Seq(Seq(Plain))
  BY <1>0, LinesStay DEF PlainLines
<1>3. Len(buffer') = 0 /\ \A T : buffer' \in Seq(T)
  OBVIOUS
<1>4. EditTyped'
  BY <1>1, <1>3, FreshShows DEF EditTyped
<1>5. PlainLines'
  BY <1>2, <1>3 DEF PlainLines
<1>6. InLine'
  BY <1>3 DEF InLine
<1>7. RowShows'
  <2>1. Clean' => screen' = Fresh /\ ~raced'
    BY DEF Clean
  <2> QED
    BY <2>1, FreshShows DEF RowShows
<1>8. NoPanic'
  BY DEF NoPanic
<1> QED
  BY <1>4, <1>5, <1>6, <1>7, <1>8

\* Whatever else ends a keystroke.
LEMMA DoneKeeps ==
    ASSUME EInv, Finish, phase' = "read", UNCHANGED <<reader, busy, wide, raced, garbled>>,
           cursor' \in Nat, draft' \in Seq(Typable),
           \/ posInHistory' = -1
           \/ reader = "sh" /\ posInHistory' \in 0 .. (Len(history') - 2) /\ Last(history') = draft',
           screen' \in Screen, screen'.col >= -PROMPT,
           ~wide /\ ~raced => cursor' <= Len(buffer'),
           Clean => Shows(screen', buffer', cursor')
    PROVE  EInv'
<1> USE DEF EInv
<1>0. Blank \in Plain /\ Blank \in Typable
  BY Runes DEF Plain
<1>1. buffer' \in Seq(Typable) /\ history' \in Seq(Seq(Typable))
  BY <1>0, LinesStay DEF EditTyped
<1>2. ~wide => buffer' \in Seq(Plain) /\ history' \in Seq(Seq(Plain))
  BY <1>0, LinesStay DEF PlainLines
<1>4. EditTyped'
  BY <1>1 DEF EditTyped
<1>5. PlainLines'
  BY <1>2 DEF PlainLines
<1>6. InLine'
  BY DEF InLine
<1>7. RowShows'
  <2>1. Clean' => Clean
    BY DEF Clean, Masked
  <2> QED
    BY <2>1 DEF RowShows
<1>8. NoPanic'
  BY DEF NoPanic
<1> QED
  BY <1>4, <1>5, <1>6, <1>7, <1>8

\* EnterShell, EnterLine and SIGINT begin a new line.
LEMMA NewLines ==
    ASSUME EInv, EnterShell \/ EnterLine \/ SigintShell \/ SigintLine
    PROVE  EInv'
<1>0. raced \in BOOLEAN /\ EditTyped
  BY DEF EInv, EditTyped
<1>1. CASE EnterShell
  <2>1. /\ Finish /\ buffer' = <<>> /\ cursor' = 0 /\ posInHistory' = -1
        /\ UNCHANGED <<busy, draft, wide, raced>> /\ reader = "sh"
    BY <1>1 DEF EnterShell, Takes, Finish
  <2>2. CASE buffer = <<>>
    <3>1. garbled' = TRUE /\ phase' = "read" /\ UNCHANGED <<reader, screen>>
      BY <1>1, <2>2 DEF EnterShell
    <3> QED
      BY <1>0, <2>1, <3>1, NewLineKeeps
  <2>3. CASE buffer # <<>>
    <3>1. /\ garbled' = FALSE /\ screen' = Fresh
          /\ reader' \in {"sh", "adduser"} /\ phase' \in {"read", "closed"}
      BY <1>1, <2>3 DEF EnterShell, GoesOn
    <3> QED
      BY <1>0, <2>1, <3>1, NewLineKeeps
  <2> QED
    BY <2>2, <2>3
<1>2. CASE EnterLine
  <2>1. /\ Finish /\ buffer' = <<>> /\ cursor' = 0 /\ posInHistory' = -1
        /\ UNCHANGED <<busy, draft, wide, raced>> /\ garbled' = FALSE /\ screen' = Fresh
    BY <1>0, <1>2 DEF EnterLine, Takes, Finish, shell, EditTyped
  <2>2. reader' \in {"sh", "login", "secret", "secret2"} /\ phase' \in {"read", "closed"}
    BY <1>2 DEF EnterLine, AfterLine, GoesOn
  <2> QED
    BY <1>0, <2>1, <2>2, NewLineKeeps
<1>3. CASE SigintShell
  <2>1. /\ Sigint /\ buffer' = <<>> /\ cursor' = 0 /\ posInHistory' = -1
        /\ UNCHANGED <<reader, phase, busy, draft, wide>> /\ garbled' = FALSE /\ screen' = Fresh
        /\ reader = "sh" /\ phase \in {"read", "busy"} /\ raced' = (raced \/ phase = "busy")
    BY <1>3 DEF SigintShell, Sigint
  <2>2. raced' \in BOOLEAN /\ (phase' = "busy" => raced')
    BY <1>0, <2>1
  <2> QED
    BY <2>1, <2>2, NewLineKeeps
<1>4. CASE SigintLine
  <2>1. /\ Sigint /\ buffer' = <<>> /\ cursor' = 0 /\ posInHistory' = -1
        /\ UNCHANGED <<busy, draft, wide>> /\ garbled' = FALSE /\ screen' = Fresh
        /\ raced' = (raced \/ phase = "busy")
    BY <1>0, <1>4 DEF SigintLine, Sigint, shell, EditTyped
  <2>2. reader' \in {"sh", "login", "secret"} /\ phase' \in {"read", "closed"}
    BY <1>4 DEF SigintLine, GoesOn
  <2>3. raced' \in BOOLEAN
    BY <1>0, <2>1
  <2> QED
    BY <2>1, <2>2, <2>3, NewLineKeeps
<1> QED
  BY <1>1, <1>2, <1>3, <1>4

\* While a keystroke is under way, the cursor is where the keystroke has left it.
LEMMA Under ==
    ASSUME EInv, phase = "busy", ~wide, ~raced
    PROVE  /\ buffer \in Seq(Plain) /\ Bytes(buffer) = Len(buffer) /\ Len(buffer) \in Nat
           /\ busy.cursor \in Nat /\ busy.cursor <= Len(buffer)
           /\ cursor = IF busy.key = Del /\ busy.cursor > 0 THEN busy.cursor - 1 ELSE busy.cursor
           /\ busy.key \in Seq(Plain)
<1>1. buffer \in Seq(Plain) /\ busy.key \in Seq(Plain) /\ Plain \cap Wide = {}
  BY DEF EInv, PlainLines, Plain
<1>2. Bytes(buffer) = Len(buffer) /\ Len(buffer) \in Nat
  BY <1>1, BytesAre, LenProperties
<1> QED
  BY <1>1, <1>2 DEF EInv, EditTyped, InLine, Arrived

\* The cursor moves by one, within the line, and the row's with it.
LEMMA MovesKeep ==
    ASSUME EInv, MoveRight \/ MoveLeft
    PROVE  EInv'
<1>0. EditTyped
  BY DEF EInv
<1>1. /\ phase = "busy" /\ phase' = "read" /\ Finish /\ busy.key \in {Right, Left} /\ busy.key # Del
      /\ UNCHANGED <<reader, buffer, busy, history, posInHistory, draft, screen, wide, raced, garbled>>
  BY KeysApart DEF MoveRight, MoveLeft, Handles, Takes, shell, marks, Finish
<1>2. Bytes(buffer) \in Nat /\ cursor \in Nat
  BY <1>0, BytesAre DEF EditTyped
<1>3. cursor' \in Nat
  BY <1>2 DEF MoveRight, MoveLeft
<1>4. ASSUME ~wide, ~raced PROVE cursor' <= Len(buffer')
  <2>1. cursor = busy.cursor /\ busy.cursor <= Len(buffer) /\ Bytes(buffer) = Len(buffer) /\ Len(buffer) \in Nat
    BY <1>1, <1>4, Under
  <2> QED
    BY <1>1, <1>2, <2>1 DEF MoveRight, MoveLeft
<1>5. ASSUME Clean PROVE Shows(screen', buffer', cursor')
  <2>1. cursor = busy.cursor /\ busy.cursor <= Len(buffer) /\ Bytes(buffer) = Len(buffer) /\ Len(buffer) \in Nat
    BY <1>1, <1>5, Under DEF Clean
  <2>2. PICK scr \in Screen : Shows(scr, buffer, busy.cursor) /\ Follows(scr)
    BY <1>1, <1>5, KeysApart DEF EInv, RowShows
  <2>3. CASE MoveRight
    <3>1. busy.key = Right /\ cursor' = IF cursor # Len(buffer) THEN cursor + 1 ELSE cursor
      BY <1>5, <2>1, <2>3 DEF MoveRight, Handles, Takes, Clean
    <3>2. screen = IF busy.cursor = Len(buffer) THEN scr ELSE [scr EXCEPT !.col = @ + 1]
      BY <2>2, <3>1 DEF Follows
    <3>3. screen.row = scr.row /\ screen.col = cursor'
      BY <1>2, <2>1, <2>2, <3>1, <3>2 DEF Shows, Screen
    <3> QED
      BY <1>1, <2>2, <3>3 DEF Shows
  <2>4. CASE MoveLeft
    <3>1. busy.key = Left /\ cursor' = IF cursor # 0 THEN cursor - 1 ELSE cursor
      BY <1>5, <2>1, <2>4 DEF MoveLeft, Handles, Takes, Clean
    <3>2. screen = IF busy.cursor = 0 THEN scr ELSE Back(scr, 1)
      BY <2>2, <3>1 DEF Follows
    <3>3. Back(scr, 1).row = scr.row /\ (cursor # 0 => Back(scr, 1).col = cursor - 1)
      <4>1. \A n \in Int : Back(scr, n).row = scr.row /\ Back(scr, n).col = Larger(scr.col - n, -PROMPT)
        BY BackIs
      <4>2. scr.col = cursor
        BY <2>1, <2>2 DEF Shows
      <4> QED
        BY <1>2, <4>1, <4>2, LineAssumption DEF Larger
    <3>4. screen.row = scr.row /\ screen.col = cursor'
      BY <1>2, <2>1, <2>2, <3>1, <3>2, <3>3 DEF Shows
    <3> QED
      BY <1>1, <2>2, <3>4 DEF Shows
  <2> QED
    BY <2>3, <2>4
<1> QED
  BY <1>0, <1>1, <1>3, <1>4, <1>5, DoneKeeps DEF EditTyped

\* A keystroke without effect on the line has none on the row.
LEMMA NoEffectKeeps ==
    ASSUME EInv, NoEffect
    PROVE  EInv'
<1>0. EditTyped
  BY DEF EInv
<1>1. /\ phase = "busy" /\ phase' = "read" /\ Finish /\ busy.key \in Ignored \cup {Up, Down}
      /\ UNCHANGED <<reader, buffer, cursor, busy, history, posInHistory, draft, screen, wide, raced, garbled>>
  BY DEF NoEffect, Handles, Takes, shell, marks, Finish
<1>2. busy.key # Del /\ busy.key # Enter
  BY <1>1, KeysApart
<1>3. ~wide /\ ~raced => cursor = busy.cursor
  BY <1>1, <1>2, Under
<1>4. ASSUME Clean PROVE Shows(screen', buffer', cursor')
  <2>1. PICK scr \in Screen : Shows(scr, buffer, busy.cursor) /\ Follows(scr)
    BY <1>1, <1>2, <1>4 DEF EInv, RowShows
  <2>2. busy.key \in {Up, Down, CtrlU}
    BY <1>1, <2>1 DEF Follows
  <2>3. screen = scr
    BY <2>1, <2>2 DEF Follows
  <2> QED
    BY <1>1, <1>3, <1>4, <2>1, <2>3 DEF Clean
<1>5. ~wide /\ ~raced => cursor' <= Len(buffer')
  BY <1>1 DEF EInv, InLine
<1> QED
  BY <1>0, <1>1, <1>4, <1>5, DoneKeeps DEF EditTyped

\* The engine dies only of a wide rune or a race.
LEMMA PanicsKeep ==
    ASSUME EInv, InsertPanics \/ RacePanics
    PROVE  EInv'
<1>1. /\ phase = "busy" /\ phase' = "dead"
      /\ UNCHANGED <<reader, buffer, cursor, busy, history, posInHistory, draft, screen, wide, raced, garbled>>
  BY DEF InsertPanics, RacePanics, IsText, shell, marks
<1>2. wide \/ raced
  <2>1. CASE InsertPanics
    <3>1. busy.cursor > Len(buffer)
      BY <2>1 DEF InsertPanics
    <3> QED
      BY <1>1, <3>1, Under
  <2>2. CASE RacePanics
    BY <2>2 DEF RacePanics
  <2> QED
    BY <2>1, <2>2
<1> QED
  BY <1>1, <1>2 DEF EInv, EditTyped, PlainLines, InLine, RowShows, NoPanic

\* Delete takes out the rune before the cursor, and the row closes the gap.
LEMMA DeleteKeeps ==
    ASSUME EInv, Delete
    PROVE  EInv'
<1>0. EditTyped
  BY DEF EInv
<1>1. /\ phase = "busy" /\ phase' = "read" /\ Finish /\ busy.key = Del
      /\ UNCHANGED <<reader, busy, cursor, history, posInHistory, draft, wide, raced, garbled>>
  BY DEF Delete, Handles, Takes, shell, marks, Finish
<1>2. buffer' \in Seq(Typable) /\ cursor \in Nat
  BY <1>0, <1>1, Runes, LinesStay DEF EditTyped, Plain
<1>3. screen' \in Screen /\ screen'.col >= -PROMPT
  <2>1. screen' = screen \/ screen' = TailShown(screen, From(buffer', cursor))
    BY DEF Delete
  <2>2. From(buffer', cursor) \in Seq(Typable)
    BY <1>2, FromIs
  <2> QED
    BY <1>0, <2>1, <2>2, TailTyped DEF EditTyped
<1>4. ASSUME ~wide, ~raced
      PROVE  /\ cursor' <= Len(buffer')
             /\ busy.cursor > 0 => /\ cursor = busy.cursor - 1 /\ buffer' = Deleted(buffer, cursor)
                                   /\ buffer' \in Seq(Plain) /\ Len(buffer') = Len(buffer) - 1
                                   /\ \A i \in 1 .. (Len(buffer) - 1) :
                                         buffer'[i] = IF i <= cursor THEN buffer[i] ELSE buffer[i + 1]
             /\ ~(busy.cursor > 0) => cursor = busy.cursor /\ UNCHANGED <<buffer, screen>>
  <2>1. /\ buffer \in Seq(Plain) /\ Len(buffer) \in Nat /\ busy.cursor \in Nat /\ busy.cursor <= Len(buffer)
        /\ cursor = IF busy.cursor > 0 THEN busy.cursor - 1 ELSE busy.cursor
    BY <1>1, <1>4, Under
  <2>2. CASE busy.cursor > 0
    <3>1. cursor = busy.cursor - 1 /\ cursor \in Nat /\ cursor < Len(buffer)
      BY <2>1, <2>2
    <3>2. buffer' = Deleted(buffer, cursor)
      BY <2>2, <3>1 DEF Delete, Deleted
    <3>3. /\ buffer' \in Seq(Plain) /\ Len(buffer') = Len(buffer) - 1
          /\ \A i \in 1 .. (Len(buffer) - 1) : buffer'[i] = IF i <= cursor THEN buffer[i] ELSE buffer[i + 1]
      BY <2>1, <3>1, <3>2, DeleteIs
    <3> QED
      BY <1>1, <2>1, <2>2, <3>1, <3>2, <3>3
  <2>3. CASE ~(busy.cursor > 0)
    <3>1. UNCHANGED <<buffer, screen>>
      BY <2>3 DEF Delete
    <3> QED
      BY <1>1, <2>1, <2>3, <3>1
  <2> QED
    BY <2>2, <2>3
<1>5. ASSUME Clean PROVE Shows(screen', buffer', cursor')
  <2>0. ~wide /\ ~raced /\ ~Masked
    BY <1>5 DEF Clean
  <2>1. PICK scr \in Screen : Shows(scr, buffer, busy.cursor) /\ Follows(scr)
    BY <1>1, <1>5, KeysApart DEF EInv, RowShows
  <2>2. screen = IF busy.cursor > 0 THEN Rubbed(scr) ELSE scr
    BY <1>1, <2>1 DEF Follows
  <2>3. CASE ~(busy.cursor > 0)
    BY <1>1, <1>4, <2>0, <2>1, <2>2, <2>3
  <2>4. CASE busy.cursor > 0
    <3> DEFINE c == busy.cursor
    <3>1. /\ c \in Nat \ {0} /\ c <= Len(buffer) /\ Len(buffer) \in Nat
          /\ scr.col = c /\ Len(scr.row) >= Len(buffer) /\ Len(scr.row) \in Nat
          /\ \A k \in 1 .. Len(scr.row) : scr.row[k] = IF k <= Len(buffer) THEN buffer[k] ELSE Blank
      <4>1. c \in Nat /\ c <= Len(buffer) /\ Len(buffer) \in Nat
        BY <1>1, <2>0, Under
      <4>2. scr.row \in Seq(Shown)
        BY DEF Screen
      <4> QED
        BY <2>1, <2>4, <4>1, <4>2, LenProperties DEF Shows
    <3>2. /\ cursor = c - 1 /\ buffer' \in Seq(Plain) /\ Len(buffer') = Len(buffer) - 1
          /\ \A i \in 1 .. (Len(buffer) - 1) : buffer'[i] = IF i <= cursor THEN buffer[i] ELSE buffer[i + 1]
      BY <1>4, <2>0, <2>4
    <3>3. screen' = TailShown(screen, From(buffer', cursor))
      <4>1. cursor < Len(buffer)
        BY <3>1, <3>2
      <4> QED
        BY <2>0, <2>4, <4>1 DEF Delete
    <3> HIDE DEF c
    <3>4. c <= Len(scr.row)
      BY <3>1
    <3>5. /\ screen.col = c - 1 /\ Len(screen.row) = Len(scr.row)
          /\ \A k \in 1 .. Len(scr.row) : screen.row[k] = IF k = c THEN Blank ELSE scr.row[k]
      BY <2>2, <2>4, <3>1, <3>4, RubbedIs
    <3>6. screen.col = cursor /\ Len(screen.row) >= cursor /\ cursor \in 0 .. Len(buffer')
      BY <3>1, <3>2, <3>5
    <3>7. ASSUME NEW k \in 1 .. cursor PROVE screen.row[k] = buffer'[k]
      <4>1. k \in 1 .. Len(scr.row) /\ k # c /\ k <= Len(buffer) /\ k \in 1 .. (Len(buffer) - 1) /\ k <= cursor
        BY <3>1, <3>2
      <4> QED
        BY <3>1, <3>2, <3>5, <4>1
    <3>8. ASSUME NEW k \in 1 .. Len(screen.row),
                 k > Len(buffer') + 1 \/ (k > Len(buffer') /\ cursor = Len(buffer'))
          PROVE  screen.row[k] = Blank
      <4>1. k \in 1 .. Len(scr.row) /\ (k = c \/ k > Len(buffer))
        BY <3>1, <3>2, <3>5, <3>8
      <4> QED
        BY <3>1, <3>5, <4>1
    <3>9. screen \in Screen
      BY <1>0 DEF EditTyped
    <3>10. Shows(TailShown(screen, From(buffer', cursor)), buffer', cursor)
      BY <3>2, <3>6, <3>7, <3>8, <3>9, TailShows
    <3> QED
      BY <1>1, <3>3, <3>10
  <2> QED
    BY <2>3, <2>4
<1> QED
  BY <1>0, <1>1, <1>2, <1>3, <1>4, <1>5, DoneKeeps DEF EditTyped

\* Insert puts the runes in at the cursor, and the row makes room.
LEMMA InsertKeeps ==
    ASSUME EInv, Insert
    PROVE  EInv'
<1> DEFINE r == Text(busy.key)
           n == Len(r)
<1>0. EditTyped /\ Blank \in Plain /\ Blank \in Typable /\ Typable \subseteq Shown
  BY Runes DEF EInv, Plain, Shown
<1>1. /\ phase = "busy" /\ phase' = "read" /\ Finish
      /\ busy.key \notin {Up, Down, Right, Left, Enter, Del, CtrlU}
      /\ busy.cursor <= Len(buffer) /\ cursor' = cursor + n
      /\ buffer' = Inserted(buffer, r, busy.cursor)
      /\ screen' = IF Masked THEN screen ELSE TailShown(screen, From(buffer', cursor'))
      /\ UNCHANGED <<reader, busy, history, posInHistory, draft, wide, raced, garbled>>
  BY KeysApart DEF Insert, IsText, Handles, Takes, shell, marks, Finish, Inserted
<1>2. /\ busy.key # <<>> /\ busy.key \in Seq(Typable) /\ cursor \in Nat /\ busy.cursor \in Nat
      /\ buffer \in Seq(Typable) /\ Len(buffer) \in Nat
  BY <1>0, <1>1, LenProperties DEF EditTyped
<1>3. r \in Seq(Typable) /\ n \in Nat \ {0}
  BY <1>0, <1>2, TextIs
<1>4. buffer' \in Seq(Typable) /\ cursor' \in Nat
  BY <1>0, <1>1, <1>2, <1>3, LinesStay DEF EditTyped
<1>5. screen' \in Screen /\ screen'.col >= -PROMPT
  <2>1. From(buffer', cursor') \in Seq(Typable)
    BY <1>4, FromIs
  <2> QED
    BY <1>0, <1>1, <2>1, TailTyped DEF EditTyped
<1>6. ASSUME ~wide, ~raced
      PROVE  /\ cursor = busy.cursor /\ cursor' <= Len(buffer') /\ buffer' \in Seq(Plain)
             /\ Len(buffer') = Len(buffer) + n
             /\ \A i \in 1 .. (Len(buffer) + n) :
                   buffer'[i] = IF i <= cursor THEN buffer[i]
                                ELSE IF i <= cursor + n THEN r[i - cursor] ELSE buffer[i - n]
  <2>1. buffer \in Seq(Plain) /\ cursor = busy.cursor /\ busy.key \in Seq(Plain)
    BY <1>1, <1>6, Under
  <2>2. r \in Seq(Plain)
    BY <1>0, <1>2, <2>1, TextIs
  <2>3. cursor \in 0 .. Len(buffer) /\ buffer' = Inserted(buffer, r, cursor)
    BY <1>1, <1>2, <2>1
  <2> HIDE DEF r
  <2>4. /\ buffer' \in Seq(Plain) /\ Len(buffer') = Len(buffer) + n
        /\ \A i \in 1 .. (Len(buffer) + n) :
              buffer'[i] = IF i <= cursor THEN buffer[i]
                           ELSE IF i <= cursor + n THEN r[i - cursor] ELSE buffer[i - n]
    <3> DEFINE l == Inserted(buffer, r, cursor)
    <3>1. /\ l \in Seq(Plain) /\ Len(l) = Len(buffer) + Len(r)
          /\ \A i \in 1 .. (Len(buffer) + Len(r)) :
                l[i] = IF i <= cursor THEN buffer[i]
                       ELSE IF i <= cursor + Len(r) THEN r[i - cursor] ELSE buffer[i - Len(r)]
      BY <2>1, <2>2, <2>3, InsertIs
    <3>2. buffer' = l
      BY <2>3
    <3> HIDE DEF l
    <3> QED
      BY <3>1, <3>2
  <2> HIDE DEF n
  <2> QED
    BY <1>1, <1>2, <1>3, <2>1, <2>3, <2>4
<1>7. ASSUME Clean PROVE Shows(screen', buffer', cursor')
  <2>0. ~wide /\ ~raced /\ ~Masked
    BY <1>7 DEF Clean
  <2>1. PICK scr \in Screen : Shows(scr, buffer, busy.cursor) /\ Follows(scr)
    BY <1>1, <1>7 DEF EInv, RowShows
  <2>2. screen = Over(scr, r)
    BY <1>1, <2>1 DEF Follows
  <2> DEFINE c == cursor
             m == Len(scr.row)
             L == Len(buffer)
  <2>3. /\ c \in Nat /\ c <= L /\ L \in Nat /\ scr.col = c /\ m >= L /\ m \in Nat
        /\ \A k \in 1 .. m : scr.row[k] = IF k <= L THEN buffer[k] ELSE Blank
    <3>1. scr.row \in Seq(Shown) /\ c = busy.cursor
      BY <1>6, <2>0 DEF Screen
    <3> QED
      BY <1>1, <1>2, <2>1, <3>1, LenProperties DEF Shows
  <2>4. r \in Seq(Shown)
    BY <1>0, <1>3, SeqMonotonic
  <2> HIDE DEF r, n, c, m, L
  <2>5. /\ screen \in Screen /\ screen.col = c + n /\ Len(screen.row) = Larger(m, c + n)
        /\ \A k \in 1 .. Larger(m, c + n) :
              screen.row[k] = IF k > c /\ k <= c + n THEN r[k - c]
                              ELSE IF k <= m THEN scr.row[k] ELSE Blank
    <3>1. /\ Over(scr, r) \in Screen /\ Over(scr, r).col = scr.col + Len(r)
          /\ Len(Over(scr, r).row) = Larger(Len(scr.row), scr.col + Len(r))
          /\ \A k \in 1 .. Larger(Len(scr.row), scr.col + Len(r)) :
                Over(scr, r).row[k] = IF k > scr.col /\ k <= scr.col + Len(r) THEN r[k - scr.col]
                                      ELSE IF k <= Len(scr.row) THEN scr.row[k] ELSE Blank
      BY <2>4, OverIs
    <3> QED
      BY <2>2, <2>3, <3>1 DEF m, n
  <2>6. /\ buffer' \in Seq(Plain) /\ Len(buffer') = L + n /\ cursor' = c + n
        /\ \A i \in 1 .. (L + n) :
              buffer'[i] = IF i <= c THEN buffer[i] ELSE IF i <= c + n THEN r[i - c] ELSE buffer[i - n]
    BY <1>1, <1>6, <2>0 DEF c, L
  <2>7. Larger(m, c + n) \in Nat /\ Larger(m, c + n) >= c + n /\ Larger(m, c + n) >= m
    BY <1>3, <2>3 DEF Larger
  <2>8. screen.col = cursor' /\ Len(screen.row) >= cursor' /\ cursor' \in 0 .. Len(buffer')
    BY <1>3, <2>3, <2>5, <2>6, <2>7
  <2>9. ASSUME NEW k \in 1 .. cursor' PROVE screen.row[k] = buffer'[k]
    <3>1. k \in Nat /\ k >= 1 /\ k <= c + n /\ k \in 1 .. Larger(m, c + n) /\ k \in 1 .. (L + n)
      BY <1>3, <2>3, <2>6, <2>7
    <3>2. CASE k <= c
      <4>1. k \in 1 .. m /\ k <= L
        BY <2>3, <3>1, <3>2
      <4>2. screen.row[k] = scr.row[k] /\ scr.row[k] = buffer[k] /\ buffer'[k] = buffer[k]
        BY <2>3, <2>5, <2>6, <3>1, <3>2, <4>1
      <4> QED
        BY <4>2
    <3>3. CASE k > c
      BY <2>3, <2>5, <2>6, <3>1, <3>3
    <3> QED
      BY <2>3, <3>1, <3>2, <3>3
  <2>10. ASSUME NEW k \in 1 .. Len(screen.row),
                k > Len(buffer') + 1 \/ (k > Len(buffer') /\ cursor' = Len(buffer'))
         PROVE  screen.row[k] = Blank
    <3>1. k \in 1 .. Larger(m, c + n) /\ ~(k > c /\ k <= c + n) /\ (k <= m => k \in 1 .. m /\ ~(k <= L))
      BY <1>3, <2>3, <2>5, <2>6, <2>7, <2>10
    <3> QED
      BY <2>3, <2>5, <3>1
  <2>11. Shows(TailShown(screen, From(buffer', cursor')), buffer', cursor')
    BY <2>5, <2>6, <2>8, <2>9, <2>10, TailShows
  <2> QED
    BY <1>1, <2>0, <2>11
<1> QED
  BY <1>0, <1>1, <1>4, <1>5, <1>6, <1>7, DoneKeeps DEF EditTyped

\* A recalled line stands in the row with the cursor behind it, and the line
\* that was being typed keeps its place at the end of the history.
LEMMA RecallKeeps ==
    ASSUME EInv, Finish, phase' = "read", UNCHANGED busy, reader = "sh",
           NEW h \in Seq(Seq(Typable)), NEW pos, Recall(h, pos), draft' \in Seq(Typable),
           pos = -1 \/ (pos \in 0 .. (Len(h) - 2) /\ Last(h) = draft')
    PROVE  EInv'
<1>0. EditTyped
  BY DEF EInv
<1>1. /\ history' = h /\ posInHistory' = pos /\ cursor' = Bytes(buffer') /\ screen' = Redrawn(buffer')
      /\ UNCHANGED <<reader, wide, raced, garbled>>
  BY DEF Recall, marks
<1>2. buffer' \in Seq(Typable)
  BY <1>0, Runes, LinesStay DEF EditTyped, Plain
<1>3. cursor' \in Nat
  BY <1>1, <1>2, BytesAre
<1>4. /\ screen' \in Screen /\ screen'.col >= -PROMPT
      /\ Shows(screen', buffer', Len(buffer'))
  BY <1>1, <1>2, RedrawnShows
<1>5. ASSUME ~wide PROVE cursor' = Len(buffer') /\ Len(buffer') \in Nat
  <2>1. buffer' \in Seq(Plain) /\ Plain \cap Wide = {}
    BY <1>0, <1>5, Runes, LinesStay DEF EInv, PlainLines, Plain
  <2> QED
    BY <1>1, <2>1, BytesAre, LenProperties
<1>6. ~wide /\ ~raced => cursor' <= Len(buffer')
  BY <1>5
<1>7. Clean => Shows(screen', buffer', cursor')
  BY <1>4, <1>5 DEF Clean
<1> QED
  BY <1>1, <1>3, <1>4, <1>6, <1>7, DoneKeeps

\* The edited line goes to its place in the history, never to the last one.
LEMMA EditedIs ==
    ASSUME EditTyped, posInHistory # -1
    PROVE  /\ Edited \in Seq(Seq(Typable)) /\ Len(Edited) = Len(history)
           /\ posInHistory \in 0 .. (Len(history) - 2) /\ Last(Edited) = draft
<1>1. /\ posInHistory \in 0 .. (Len(history) - 2) /\ Last(history) = draft
      /\ history \in Seq(Seq(Typable)) /\ buffer \in Seq(Typable)
  BY DEF EditTyped
<1>2. Len(history) \in Nat
  BY <1>1, LenProperties
<1>3. Edited = [history EXCEPT ![posInHistory + 1] = buffer]
  BY DEF Edited
<1>4. Edited \in Seq(Seq(Typable)) /\ Len(Edited) = Len(history)
  BY <1>1, <1>2, <1>3
<1>5. Edited[Len(history)] = history[Len(history)]
  BY <1>1, <1>2, <1>3
<1> QED
  BY <1>1, <1>4, <1>5 DEF Last

\* Up and Down keep the line that was being typed.
LEMMA HistoryKeeps ==
    ASSUME EInv, HistoryUp \/ HistoryDown
    PROVE  EInv'
<1>0. EditTyped /\ Finish
  BY DEF EInv, Finish
<1>1. /\ phase' = "read" /\ UNCHANGED busy /\ reader = "sh"
      /\ history \in Seq(Seq(Typable)) /\ buffer \in Seq(Typable) /\ draft \in Seq(Typable)
      /\ Len(history) \in Nat \ {0}
  BY <1>0, EmptySeq, LenProperties DEF HistoryUp, HistoryDown, Handles, Takes, EditTyped
<1>2. CASE HistoryUp /\ posInHistory = -1
  <2> DEFINE h == Append(history, buffer)
             pos == Len(history) - 1
  <2>1. h \in Seq(Seq(Typable)) /\ Len(h) = Len(history) + 1 /\ Last(h) = buffer
    BY <1>1 DEF Last
  <2>2. Recall(h, pos) /\ draft' = buffer
    BY <1>2 DEF HistoryUp
  <2> HIDE DEF h
  <2>3. pos \in 0 .. (Len(h) - 2)
    BY <1>1, <2>1
  <2> HIDE DEF pos
  <2> QED
    BY <1>0, <1>1, <2>1, <2>2, <2>3, RecallKeeps
<1>3. CASE HistoryUp /\ posInHistory # -1
  <2> DEFINE h == Edited
             pos == IF posInHistory > 0 THEN posInHistory - 1 ELSE 0
  <2>1. /\ h \in Seq(Seq(Typable)) /\ Len(h) = Len(history) /\ Last(h) = draft
        /\ posInHistory \in 0 .. (Len(history) - 2)
    BY <1>0, <1>3, EditedIs
  <2>2. Recall(h, pos) /\ draft' = draft
    BY <1>3 DEF HistoryUp
  <2> HIDE DEF h
  <2>3. pos \in 0 .. (Len(h) - 2)
    BY <1>1, <2>1
  <2> HIDE DEF pos
  <2> QED
    BY <1>0, <1>1, <2>1, <2>2, <2>3, RecallKeeps
<1>4. CASE HistoryDown
  <2> DEFINE h == Edited
             pos == IF posInHistory = Len(history) - 2 THEN -1 ELSE posInHistory + 1
  <2>1. /\ h \in Seq(Seq(Typable)) /\ Len(h) = Len(history) /\ Last(h) = draft
        /\ posInHistory \in 0 .. (Len(history) - 2)
    BY <1>0, <1>4, EditedIs DEF HistoryDown
  <2>2. Recall(h, pos) /\ draft' = draft
    BY <1>4 DEF HistoryDown
  <2> HIDE DEF h
  <2>3. pos = -1 \/ pos \in 0 .. (Len(h) - 2)
    BY <1>1, <2>1
  <2> HIDE DEF pos
  <2> QED
    BY <1>0, <1>1, <2>1, <2>2, <2>3, RecallKeeps
<1> QED
  BY <1>2, <1>3, <1>4

\* Every step of an editor after Begin.
LEMMA EditsKeep ==
    ASSUME EInv, Finish \/ Sigint
    PROVE  EInv'
BY NewLines, DeleteKeeps, MovesKeep, HistoryKeeps, NoEffectKeeps, InsertKeeps, PanicsKeep
   DEF Finish, Sigint

-----------------------------------------------------------------------------
(* The bytes of a sequence of messages. *)

\* A set of numbers has a least one.
LEMMA Least ==
    ASSUME NEW M, M \subseteq Nat, M # {}
    PROVE  \E x \in M : \A y \in M : ~(y < x)
<1> DEFINE R == OpToRel(<, Nat)
<1>1. IsWellFoundedOn(R, Nat)
  BY NatLessThanWellFounded
<1>2. \A y, x \in Nat : y < x => <<y, x>> \in R
  BY DEF OpToRel
<1> HIDE DEF R
<1>3. \E x \in M : \A y \in M : ~(<<y, x>> \in R)
  BY <1>1, WFMin
<1> QED
  BY <1>2, <1>3

\* f[i] is what the first i messages of w hold, for the first n.
Chain(f, w, n) == f = [i \in 1 .. n |-> IF i = 1 THEN w[i] ELSE f[i - 1] \o w[i]]

\* FlattenSeq takes the last of such a chain.
LEMMA FlattenIs ==
    ASSUME NEW w
    PROVE  FlattenSeq(w) = IF Len(w) = 0 THEN w ELSE (CHOOSE f : Chain(f, w, Len(w)))[Len(w)]
BY Zenon DEF FlattenSeq, Chain

\* There is a chain for every number of messages.
LEMMA ChainExists ==
    ASSUME NEW w
    PROVE  \A n \in Nat : \E f : Chain(f, w, n)
<1> DEFINE M == {n \in Nat : ~\E f : Chain(f, w, n)}
<1> SUFFICES ASSUME M # {} PROVE FALSE
  OBVIOUS
<1>1. PICK n \in M : \A m \in M : ~(m < n)
  <2>1. M \subseteq Nat
    OBVIOUS
  <2> HIDE DEF M
  <2> QED
    BY <2>1, Least
<1>2. n \in Nat /\ ~\E f : Chain(f, w, n)
  BY <1>1
<1>3. CASE n = 0
  <2> DEFINE f == [i \in 1 .. 0 |-> w]
  <2>1. f = [i \in 1 .. 0 |-> IF i = 1 THEN w[i] ELSE f[i - 1] \o w[i]]
    OBVIOUS
  <2> QED
    BY <1>2, <1>3, <2>1 DEF Chain
<1>4. CASE n # 0
  <2> DEFINE m == n - 1
  <2>1. m \in Nat /\ m < n
    BY <1>2, <1>4
  <2>2. PICK f : Chain(f, w, m)
    BY <1>1, <2>1
  <2> DEFINE g == [i \in 1 .. n |-> IF i = n THEN (IF i = 1 THEN w[i] ELSE f[i - 1] \o w[i]) ELSE f[i]]
             e(i) == IF i = 1 THEN w[i] ELSE g[i - 1] \o w[i]
  <2>3. ASSUME NEW i \in 1 .. n PROVE g[i] = e(i)
    <3>1. i = 1 \/ i - 1 \in 1 .. m
      BY <1>2
    <3>2. i = 1 \/ g[i - 1] = f[i - 1]
      BY <1>2, <3>1
    <3>3. CASE i = n
      BY <3>2, <3>3
    <3>4. CASE i # n
      <4>1. i \in 1 .. m /\ g[i] = f[i]
        BY <1>2, <3>4
      <4>2. f[i] = IF i = 1 THEN w[i] ELSE f[i - 1] \o w[i]
        BY <2>2, <4>1 DEF Chain
      <4> QED
        BY <3>2, <4>1, <4>2
    <3> QED
      BY <3>3, <3>4
  <2>4. g = [i \in 1 .. n |-> e(i)]
    <3>1. DOMAIN g = 1 .. n /\ g = [i \in 1 .. n |-> g[i]]
      OBVIOUS
    <3> HIDE DEF g, e
    <3> QED
      BY <2>3, <3>1
  <2> QED
    BY <1>2, <2>4 DEF Chain
<1> QED
  BY <1>3, <1>4

\* The values of a chain are sequences, and do not depend on later messages.
LEMMA ChainIs ==
    ASSUME NEW T, NEW w \in Seq(Seq(T)), NEW v \in Seq(Seq(T)), Len(w) <= Len(v),
           \A i \in 1 .. Len(w) : w[i] = v[i],
           NEW f, Chain(f, w, Len(w)), NEW g, Chain(g, v, Len(v))
    PROVE  \A i \in 1 .. Len(w) : f[i] = g[i] /\ f[i] \in Seq(T)
<1> DEFINE Bad(i) == ~(f[i] = g[i] /\ f[i] \in Seq(T))
           M == {i \in 1 .. Len(w) : Bad(i)}
<1>0. /\ Len(w) \in Nat /\ Len(v) \in Nat /\ \A i \in 1 .. Len(w) : w[i] \in Seq(T)
  BY LenProperties
<1>f. \A i \in 1 .. Len(w) : f[i] = IF i = 1 THEN w[i] ELSE f[i - 1] \o w[i]
  BY DEF Chain
<1>g. \A i \in 1 .. Len(v) : g[i] = IF i = 1 THEN v[i] ELSE g[i - 1] \o v[i]
  BY DEF Chain
<1> SUFFICES ASSUME M # {} PROVE FALSE
  OBVIOUS
<1>1. PICK n \in M : \A m \in M : ~(m < n)
  <2>1. M \subseteq Nat
    BY <1>0
  <2> HIDE DEF M
  <2> QED
    BY <2>1, Least
<1>2. n \in 1 .. Len(w) /\ n \in 1 .. Len(v) /\ Bad(n)
  BY <1>0, <1>1
<1>3. CASE n = 1
  BY <1>0, <1>2, <1>3, <1>f, <1>g
<1>4. CASE n # 1
  <2> DEFINE m == n - 1
  <2>1. m \in 1 .. Len(w) /\ m < n
    BY <1>0, <1>2, <1>4
  <2>2. f[m] = g[m] /\ f[m] \in Seq(T)
    BY <1>1, <2>1
  <2>3. f[n] = f[m] \o w[n] /\ g[n] = g[m] \o v[n] /\ w[n] = v[n] /\ w[n] \in Seq(T)
    BY <1>0, <1>2, <1>4, <1>f, <1>g
  <2> HIDE DEF m
  <2>4. f[m] \o w[n] \in Seq(T)
    BY <2>2, <2>3, ConcatIs
  <2> QED
    BY <1>2, <2>2, <2>3, <2>4
<1> QED
  BY <1>3, <1>4

\* Messages put together are bytes; another message comes behind them.
LEMMA FlattenAppend ==
    ASSUME NEW T, NEW w \in Seq(Seq(T)), NEW k \in Seq(T)
    PROVE  /\ FlattenSeq(w) \in Seq(T)
           /\ FlattenSeq(Append(w, k)) = FlattenSeq(w) \o k
<1> DEFINE v == Append(w, k)
           n == Len(w)
<1>1. /\ v \in Seq(Seq(T)) /\ Len(v) = n + 1 /\ n \in Nat /\ v[n + 1] = k
      /\ \A i \in 1 .. n : w[i] = v[i]
  BY AppendProperties, LenProperties
<1> HIDE DEF v
<1>2. PICK f : Chain(f, w, n) /\ f = (CHOOSE x : Chain(x, w, n))
  <2>1. \E f : Chain(f, w, n)
    BY <1>1, ChainExists
  <2> QED
    BY <2>1, Zenon
<1>3. PICK g : Chain(g, v, Len(v)) /\ g = (CHOOSE x : Chain(x, v, Len(v)))
  <2>0. Len(v) \in Nat
    BY <1>1
  <2>1. \E g : Chain(g, v, Len(v))
    BY <2>0, ChainExists
  <2> QED
    BY <2>1, Zenon
<1>4. FlattenSeq(v) = g[n + 1]
  <2>1. FlattenSeq(v) = IF Len(v) = 0 THEN v ELSE g[Len(v)]
    BY <1>3, FlattenIs, Zenon
  <2> QED
    BY <1>1, <2>1
<1>5. FlattenSeq(w) = IF n = 0 THEN w ELSE f[n]
  BY <1>2, FlattenIs, Zenon
<1>6. g[n + 1] = IF n + 1 = 1 THEN v[n + 1] ELSE g[(n + 1) - 1] \o v[n + 1]
  <2>1. n + 1 \in 1 .. Len(v)
    BY <1>1
  <2> QED
    BY <1>3, <2>1 DEF Chain
<1>7. \A i \in 1 .. n : f[i] = g[i] /\ f[i] \in Seq(T)
  <2>1. Len(w) <= Len(v) /\ \A i \in 1 .. Len(w) : w[i] = v[i]
    BY <1>1
  <2>2. Chain(f, w, Len(w)) /\ Chain(g, v, Len(v)) /\ v \in Seq(Seq(T))
    BY <1>1, <1>2, <1>3
  <2>3. \A i \in 1 .. Len(w) : f[i] = g[i] /\ f[i] \in Seq(T)
    BY <2>1, <2>2, ChainIs
  <2> QED
    BY <2>3
<1>8. CASE n = 0
  <2>1. w = <<>>
    BY <1>8, EmptySeq
  <2>2. FlattenSeq(w) = <<>> /\ FlattenSeq(v) = k
    BY <1>1, <1>4, <1>5, <1>6, <1>8, <2>1
  <2> QED
    BY <2>2, ConcatEmptySeq, EmptySeq DEF v
<1>9. CASE n # 0
  <2>1. n \in 1 .. n /\ (n + 1) - 1 = n /\ n + 1 # 1
    BY <1>1, <1>9
  <2> QED
    BY <1>1, <1>4, <1>5, <1>6, <1>7, <1>9, <2>1 DEF v
<1> QED
  BY <1>8, <1>9

\* s \o t, for steps that need not know what it holds.
Join(s, t) == s \o t

\* What is put together in either order is the same.
LEMMA JoinIs ==
    ASSUME NEW T
    PROVE  /\ <<>> \in Seq(T)
           /\ \A a \in Seq(T) : Join(a, <<>>) = a /\ Join(<<>>, a) = a
           /\ \A a, b \in Seq(T) : Join(a, b) \in Seq(T)
           /\ \A a, b, c \in Seq(T) : Join(Join(a, b), c) = Join(a, Join(b, c))
<1>1. ASSUME NEW a \in Seq(T) PROVE Join(a, <<>>) = a /\ Join(<<>>, a) = a
  BY ConcatEmptySeq DEF Join
<1>2. ASSUME NEW a \in Seq(T), NEW b \in Seq(T) PROVE Join(a, b) \in Seq(T)
  BY ConcatIs DEF Join
<1>3. ASSUME NEW a \in Seq(T), NEW b \in Seq(T), NEW c \in Seq(T)
      PROVE  Join(Join(a, b), c) = Join(a, Join(b, c))
  BY ConcatAssociative DEF Join
<1> QED
  BY <1>1, <1>2, <1>3

\* The first message comes first.
LEMMA FlattenHead ==
    ASSUME NEW T, NEW w \in Seq(Seq(T)), w # <<>>
    PROVE  FlattenSeq(w) = Head(w) \o FlattenSeq(Tail(w))
<1> DEFINE Bad(s) == s # <<>> /\ FlattenSeq(s) # Head(s) \o FlattenSeq(Tail(s))
           M == {n \in Nat : \E s \in Seq(Seq(T)) : Len(s) = n /\ Bad(s)}
<1> SUFFICES ASSUME Bad(w) PROVE FALSE
  OBVIOUS
<1>1. PICK n \in M : \A m \in M : ~(m < n)
  <2>1. M \subseteq Nat /\ Len(w) \in M
    BY LenProperties
  <2> HIDE DEF M
  <2> QED
    BY <2>1, Least
<1>2. PICK s \in Seq(Seq(T)) : Len(s) = n /\ Bad(s)
  BY <1>1
<1>3. PICK v \in Seq(Seq(T)), k \in Seq(T) : s = Append(v, k)
  BY <1>2, SequenceEmptyOrAppend
<1>4. Len(v) \in Nat /\ Len(v) < n
  <2>1. Len(s) = Len(v) + 1 /\ Len(v) \in Nat
    BY <1>3, AppendProperties, LenProperties
  <2> QED
    BY <1>2, <2>1
<1>5. /\ v # <<>> => FlattenSeq(v) = Head(v) \o FlattenSeq(Tail(v))
      /\ FlattenSeq(s) # Head(s) \o FlattenSeq(Tail(s))
  BY <1>1, <1>2, <1>4
<1> HIDE DEF Bad, M
<1>6. /\ FlattenSeq(v) \in Seq(T) /\ FlattenSeq(s) = FlattenSeq(v) \o k
      /\ FlattenSeq(<<>>) \in Seq(T) /\ FlattenSeq(<<>>) = <<>>
  <2>1. <<>> \in Seq(Seq(T)) /\ Len(<<>>) = 0
    BY EmptySeq
  <2>2. FlattenSeq(<<>>) = <<>>
    BY <2>1, FlattenIs, Zenon
  <2> QED
    BY <1>3, <2>1, <2>2, FlattenAppend
<1>7. CASE v = <<>>
  <2>1. Head(s) = k /\ Tail(s) = <<>>
    BY <1>3, <1>7, HeadTailAppend
  <2>2. FlattenSeq(s) = k
    BY <1>6, <1>7, ConcatEmptySeq
  <2> QED
    BY <1>5, <1>6, <2>1, <2>2, ConcatEmptySeq
<1>8. CASE v # <<>>
  <2>1. Head(s) = Head(v) /\ Tail(s) = Append(Tail(v), k)
    BY <1>3, <1>8, HeadTailAppend
  <2>2. Head(v) \in Seq(T) /\ Tail(v) \in Seq(Seq(T))
    BY <1>8, HeadTailProperties
  <2>3. /\ FlattenSeq(Tail(v)) \in Seq(T)
        /\ FlattenSeq(Append(Tail(v), k)) = FlattenSeq(Tail(v)) \o k
    BY <2>2, FlattenAppend
  <2>4. FlattenSeq(v) = Head(v) \o FlattenSeq(Tail(v))
    BY <1>5, <1>8
  <2>5. (Head(v) \o FlattenSeq(Tail(v))) \o k = Head(v) \o (FlattenSeq(Tail(v)) \o k)
    <3>1. Join(Join(Head(v), FlattenSeq(Tail(v))), k) = Join(Head(v), Join(FlattenSeq(Tail(v)), k))
      <4>1. \A a, b, c \in Seq(T) : Join(Join(a, b), c) = Join(a, Join(b, c))
        BY JoinIs
      <4>2. k \in Seq(T) /\ Head(v) \in Seq(T) /\ FlattenSeq(Tail(v)) \in Seq(T)
        BY <2>2, <2>3
      <4> QED
        BY <4>1, <4>2
    <3> QED
      BY <3>1 DEF Join
  <2> QED
    BY <1>5, <1>6, <2>1, <2>3, <2>4, <2>5
<1> QED
  BY <1>7, <1>8

\* Some message is not empty, so not all of them together are.
LEMMA FlattenSome ==
    ASSUME NEW T, NEW w \in Seq(Seq(T)), NEW i \in 1 .. Len(w), w[i] # <<>>
    PROVE  FlattenSeq(w) # <<>>
<1> DEFINE Bad(s) == FlattenSeq(s) = <<>> /\ \E h \in 1 .. Len(s) : s[h] # <<>>
           M == {n \in Nat : \E s \in Seq(Seq(T)) : Len(s) = n /\ Bad(s)}
<1> SUFFICES ASSUME Bad(w) PROVE FALSE
  OBVIOUS
<1>1. PICK n \in M : \A m \in M : ~(m < n)
  <2>1. M \subseteq Nat /\ Len(w) \in M
    BY LenProperties
  <2> HIDE DEF M
  <2> QED
    BY <2>1, Least
<1>2. PICK s \in Seq(Seq(T)) : Len(s) = n /\ Bad(s)
  BY <1>1
<1>3. PICK h \in 1 .. Len(s) : s[h] # <<>>
  BY <1>2
<1>4. PICK v \in Seq(Seq(T)), k \in Seq(T) : s = Append(v, k)
  <2>1. s # <<>>
    BY <1>3, EmptySeq
  <2> QED
    BY <2>1, SequenceEmptyOrAppend
<1>5. /\ Len(v) \in Nat /\ Len(s) = Len(v) + 1 /\ s[Len(v) + 1] = k
      /\ \A m \in 1 .. Len(v) : s[m] = v[m]
  BY <1>4, AppendProperties, LenProperties
<1>6. FlattenSeq(v) \in Seq(T) /\ FlattenSeq(s) = FlattenSeq(v) \o k
  BY <1>4, FlattenAppend
<1>7. FlattenSeq(v) = <<>> /\ k = <<>>
  <2>1. Len(FlattenSeq(v) \o k) = Len(FlattenSeq(v)) + Len(k) /\ Len(FlattenSeq(v)) \in Nat /\ Len(k) \in Nat
    BY <1>6, ConcatIs, LenProperties
  <2>2. Len(FlattenSeq(v) \o k) = 0
    BY <1>2, <1>6, EmptySeq
  <2> QED
    BY <1>6, <2>1, <2>2, EmptySeq
<1>8. \E m \in 1 .. Len(v) : v[m] # <<>>
  <2>0. s[h] # <<>> /\ h \in 1 .. (Len(v) + 1)
    BY <1>3, <1>5
  <2>1. h # Len(v) + 1
    BY <1>5, <1>7, <2>0
  <2>2. h \in 1 .. Len(v)
    BY <1>5, <2>0, <2>1
  <2> QED
    BY <1>5, <2>0, <2>2
<1>9. Bad(v)
  BY <1>7, <1>8
<1>10. Len(v) \in M /\ Len(v) < n
  <2> HIDE DEF Bad
  <2> QED
    BY <1>2, <1>4, <1>5, <1>9
<1> QED
  BY <1>1, <1>10

-----------------------------------------------------------------------------
(* The coding of a message. *)

\* What may be on the wire: not all of it belongs to characters that have begun
\* before.
Messages == {k \in Seq(Tokens) : \E n \in 1 .. Len(k) : k[n] \notin Inner}

\* The coding leaves every byte as it is, or replaces it.
LEMMA CodedIs ==
    ASSUME NEW k \in Seq(Tokens)
    PROVE  Coded(k) \in Seq(Tokens) /\ Len(Coded(k)) = Len(k) /\ Fits(k, Coded(k))
<1>1. Len(k) \in Nat /\ DOMAIN k = 1 .. Len(k) /\ \A n \in 1 .. Len(k) : k[n] \in Tokens
  BY LenProperties
<1> DEFINE e(n) == IF k[n] \in Beyond /\ ~Whole(k, n) THEN Replacement ELSE k[n]
<1>2. Coded(k) = [n \in 1 .. Len(k) |-> e(n)]
  BY <1>1 DEF Coded
<1>3. Replacement \in Tokens
  BY Zenon DEF Tokens, Typable
<1>4. \A n \in 1 .. Len(k) : e(n) \in Tokens /\ (e(n) = k[n] \/ (e(n) = Replacement /\ k[n] \in Beyond))
  BY <1>1, <1>3
<1> HIDE DEF e
<1>5. Coded(k) \in Seq(Tokens)
  BY <1>1, <1>2, <1>4, SeqDef
<1>6. Len(Coded(k)) = Len(k)
  BY <1>1, <1>2, <1>5, LenProperties
<1>7. \A n \in 1 .. Len(k) : Coded(k)[n] = e(n)
  BY <1>2
<1> QED
  BY <1>1, <1>4, <1>5, <1>6, <1>7 DEF Fits

\* Where a byte inside a character is left, so is the first one.
LEMMA CodedStarts ==
    ASSUME NEW k \in Seq(Tokens), k # <<>>
    PROVE  Coded(k) \in Messages
<1>1. Len(k) \in Nat \ {0} /\ DOMAIN k = 1 .. Len(k)
  BY LenProperties, EmptySeq
<1>2. Coded(k) \in Seq(Tokens) /\ Len(Coded(k)) = Len(k)
  BY CodedIs
<1>3. \A n \in 1 .. Len(k) : Coded(k)[n] = IF k[n] \in Beyond /\ ~Whole(k, n) THEN Replacement ELSE k[n]
  BY <1>1 DEF Coded
<1>4. Replacement \notin Inner /\ Inner \subseteq Beyond
  BY PressesAssumption, Zenon DEF Beyond
<1>5. CASE Coded(k)[1] \notin Inner
  <2>1. 1 \in 1 .. Len(Coded(k))
    BY <1>1, <1>2
  <2> QED
    BY <1>2, <1>5, <2>1 DEF Messages
<1>6. CASE Coded(k)[1] \in Inner
  <2>1. 1 \in 1 .. Len(k)
    BY <1>1
  <2>2. k[1] \in Beyond /\ Whole(k, 1) /\ k[1] \in Inner
    BY <1>3, <1>4, <1>6, <2>1
  <2>3. PICK c \in Wides, m \in 0 .. 0 : m + Len(c) <= Len(k) /\ SubSeq(k, m + 1, m + Len(c)) = c
    BY <2>2 DEF Whole
  <2>4. c \in Seq(STRING) /\ c # <<>>
    BY PressesAssumption
  <2>5. Len(c) \in Nat \ {0}
    BY <2>4, LenProperties, EmptySeq
  <2>6. SubSeq(k, 1, Len(c)) = c /\ Len(c) \in 0 .. Len(k)
    BY <1>1, <2>3, <2>5
  <2>7. SubSeq(k, 1, Len(c))[1] = k[1]
    BY <2>5, <2>6, FirstIs
  <2>8. k[1] = Head(c)
    BY <2>4, <2>6, <2>7
  <2>9. k[1] \in Leads
    BY <2>8 DEF Leads
  <2> QED
    BY <2>2, <2>9, PressesAssumption
<1> QED
  BY <1>5, <1>6

\* A message is made of runes, and has one.
LEMMA DecodedIs ==
    ASSUME NEW k \in Messages
    PROVE  Decoded(k) \in Seq(Typable) \ {<<>>}
<1>1. /\ k \in Seq(Tokens) /\ Len(k) \in Nat /\ DOMAIN k = 1 .. Len(k)
      /\ \A n \in 1 .. Len(k) : k[n] \in Tokens
  BY LenProperties DEF Messages
<1>2. PICK i \in 1 .. Len(k) : k[i] \notin Inner
  BY DEF Messages
<1>3. CASE Range(k) \cap Inner = {}
  <2>1. Decoded(k) = k
    BY <1>3 DEF Decoded
  <2>2. \A n \in 1 .. Len(k) : k[n] \in Typable
    BY <1>1, <1>3 DEF Range, Tokens
  <2>3. k \in Seq(Typable)
    BY <1>1, <2>2, SeqDef
  <2>4. k # <<>>
    BY <1>2, EmptySeq
  <2> QED
    BY <2>1, <2>3, <2>4
<1>4. CASE Range(k) \cap Inner # {}
  <2> DEFINE e(n) == IF k[n] \in Inner THEN <<>> ELSE <<k[n]>>
             w == [n \in 1 .. Len(k) |-> e(n)]
  <2>1. Decoded(k) = FlattenSeq(w)
    BY <1>1, <1>4 DEF Decoded
  <2>2. \A n \in 1 .. Len(k) : e(n) \in Seq(Typable)
    <3> SUFFICES ASSUME NEW n \in 1 .. Len(k) PROVE e(n) \in Seq(Typable)
      OBVIOUS
    <3>1. <<>> \in Seq(Typable)
      OBVIOUS
    <3>2. k[n] \notin Inner => <<k[n]>> \in Seq(Typable)
      BY <1>1 DEF Tokens
    <3> QED
      BY <3>1, <3>2
  <2>3. e(i) # <<>>
    BY <1>2
  <2> HIDE DEF e
  <2>4. w \in Seq(Seq(Typable))
    BY <1>1, <2>2, SeqDef
  <2>5. Len(w) = Len(k) /\ w[i] # <<>>
    BY <1>1, <2>3, <2>4, LenProperties
  <2> HIDE DEF w
  <2>6. FlattenSeq(w) # <<>>
    BY <2>4, <2>5, FlattenSome
  <2>7. <<>> \in Seq(Typable)
    OBVIOUS
  <2>8. FlattenSeq(w) \in Seq(Typable)
    BY <2>4, <2>7, FlattenAppend
  <2> QED
    BY <2>1, <2>6, <2>8
<1> QED
  BY <1>3, <1>4

-----------------------------------------------------------------------------
(* The client and the connection. *)

\* Bytes on their way are tokens, and no message is empty.
ClientTyped ==
    /\ stdin \in Seq(Tokens) /\ keystroke \in Seq(Tokens) /\ due \in Seq(Tokens)
    /\ wire \in Seq(Messages)

\* Sending a keystroke.
LEMMA SendTyped ==
    ASSUME ClientTyped, NEW k \in Seq(Tokens) \ {<<>>}, Send(k)
    PROVE  wire' \in Seq(Messages) /\ keystroke' \in Seq(Tokens)
BY CodedStarts DEF Send, ClientTyped

\* Reading a byte.
LEMMA ReadTyped ==
    ASSUME ClientTyped, NEW p, NEW ends, Read(p, ends)
    PROVE  ClientTyped'
<1> DEFINE k == Append(p, Head(stdin))
<1>1. /\ keystroke = p /\ stdin # <<>> /\ stdin' = Tail(stdin)
      /\ IF ends THEN Send(k) ELSE keystroke' = k /\ UNCHANGED wire
      /\ due' = due
  BY DEF Read
<1>2. p \in Seq(Tokens) /\ Head(stdin) \in Tokens /\ Tail(stdin) \in Seq(Tokens)
  BY <1>1, HeadTailProperties DEF ClientTyped
<1>3. k \in Seq(Tokens) \ {<<>>}
  BY <1>2
<1> HIDE DEF k
<1>4. wire' \in Seq(Messages) /\ keystroke' \in Seq(Tokens)
  BY <1>1, <1>3, SendTyped DEF ClientTyped
<1> QED
  BY <1>1, <1>2, <1>4 DEF ClientTyped

\* The steps of the client.
LEMMA ClientKeeps ==
    ASSUME ClientTyped, ClientNext
    PROVE  ClientTyped'
<1>1. ASSUME NEW k \in Presses, Press(k) PROVE ClientTyped'
  <2>1. k \in Seq(Tokens)
    BY Runes
  <2>2. due \o k \in Seq(Tokens)
    BY <2>1, ConcatIs DEF ClientTyped
  <2> QED
    BY <1>1, <2>1, <2>2 DEF Press, ClientTyped
<1>2. CASE ReadFirst \/ ReadEscaped \/ ReadSequence
  BY <1>2, ReadTyped DEF ReadFirst, ReadEscaped, ReadSequence
<1>3. CASE Timeout \/ ReadBehindAlt
  <2>1. Send(keystroke) /\ keystroke # <<>> /\ due' = due /\ stdin' \in Seq(Tokens)
    <3>1. CASE Timeout
      BY <1>3, <3>1 DEF Timeout, ClientTyped
    <3>2. CASE ReadBehindAlt
      <4>1. stdin \in Seq(Tokens) /\ stdin # <<>> /\ stdin' = Tail(stdin)
        BY <3>2 DEF ReadBehindAlt, ClientTyped
      <4>2. Tail(stdin) \in Seq(Tokens)
        BY <4>1, HeadTailProperties
      <4>3. keystroke # <<>>
        <5>1. keystroke \in Seq(Tokens) /\ Len(keystroke) = 2
          BY <3>2 DEF ReadBehindAlt, ClientTyped
        <5> QED
          BY <5>1, EmptySeq
      <4> QED
        BY <3>2, <4>1, <4>2, <4>3 DEF ReadBehindAlt
    <3> QED
      BY <1>3, <3>1, <3>2
  <2>2. wire' \in Seq(Messages) /\ keystroke' \in Seq(Tokens)
    BY <2>1, SendTyped DEF ClientTyped
  <2> QED
    BY <2>1, <2>2 DEF ClientTyped
<1> QED
  BY <1>1, <1>2, <1>3 DEF ClientNext

\* What a reader has got is not due.
LEMMA SettledTyped ==
    ASSUME ClientTyped, NEW k, Len(k) \in Nat, Settled(k)
    PROVE  due' \in Seq(Tokens)
<1>1. From(due, Len(k)) \in Seq(Tokens)
  BY FromIs DEF ClientTyped
<1> QED
  BY <1>1 DEF Settled, ClientTyped

\* A message taken from the wire is a keystroke.
LEMMA ConsumeTyped ==
    ASSUME ClientTyped, Consume, UNCHANGED <<stdin, keystroke>>
    PROVE  ClientTyped' /\ Head(wire) \in Messages
<1>1. Head(wire) \in Messages /\ Tail(wire) \in Seq(Messages)
  BY HeadTailProperties DEF Consume, ClientTyped
<1>2. Len(Head(wire)) \in Nat
  BY <1>1, LenProperties DEF Messages
<1>3. due' \in Seq(Tokens)
  BY <1>2, SettledTyped DEF Consume
<1> QED
  BY <1>1, <1>3 DEF Consume, ClientTyped

\* So is what a scanner leaves there.
LEMMA HandOnTyped ==
    ASSUME ClientTyped, NEW n \in Nat, NEW next, HandOn(next, n)
    PROVE  wire' \in Seq(Messages)
BY FromIs DEF HandOn, ClientTyped

-----------------------------------------------------------------------------
(* The theorems. *)

IInv == EInv /\ ClientTyped

\* A behaviour begins in the invariant.
LEMMA InitIInv == Init => IInv
<1> SUFFICES ASSUME Init PROVE IInv
  OBVIOUS
<1>1. ClientTyped
  BY DEF Init, ClientInit, ClientTyped
<1>2. /\ reader \in {"sh", "login", "secret"} /\ phase = "read" /\ busy = [key |-> <<>>, cursor |-> 0]
      /\ buffer = <<>> /\ cursor = 0 /\ posInHistory = -1 /\ draft = <<>> /\ screen = Fresh
      /\ wide = FALSE /\ raced = FALSE /\ garbled = FALSE
      /\ history = <<>> \/ history \in Pasts
  BY DEF Init, EditorInit
<1>3. history \in Seq(Seq(Plain))
  <2>1. <<>> \in Seq(Seq(Plain))
    OBVIOUS
  <2> QED
    BY <1>2, <2>1, Runes
<1>4. history \in Seq(Seq(Typable))
  <2>1. Seq(Plain) \subseteq Seq(Typable)
    BY SeqMonotonic DEF Plain
  <2> QED
    BY <1>3, <2>1, SeqMonotonic
<1>5. EditTyped
  <2>1. busy \in [key : Seq(Typable), cursor : Nat] /\ buffer \in Seq(Typable) /\ draft \in Seq(Typable)
    BY <1>2
  <2> QED
    BY <1>2, <1>4, <2>1, FreshShows DEF EditTyped
<1>6. PlainLines
  BY <1>2, <1>3 DEF PlainLines
<1>7. InLine
  BY <1>2 DEF InLine
<1>8. RowShows
  BY <1>2, FreshShows DEF RowShows
<1>9. NoPanic
  BY <1>2 DEF NoPanic
<1> QED
  BY <1>1, <1>5, <1>6, <1>7, <1>8, <1>9 DEF IInv, EInv

\* Nothing happens to the editors.
LEMMA EditorRests ==
    ASSUME EInv, UNCHANGED editor
    PROVE  EInv'
BY DEF EInv, EditTyped, PlainLines, InLine, Arrived, RowShows, Clean, Masked, Follows, NoPanic,
       editor, shell, marks

\* Every step keeps the invariant.
LEMMA NextIInv == IInv /\ [Next]_vars => IInv'
<1> SUFFICES ASSUME IInv, [Next]_vars PROVE IInv'
  OBVIOUS
<1> USE DEF IInv
<1>1. CASE ClientNext /\ UNCHANGED <<editor, stage, swallowed>>
  BY <1>1, ClientKeeps, EditorRests
<1>2. CASE Finish /\ UNCHANGED <<clientVars, stage, swallowed>>
  <2>1. ClientTyped'
    BY <1>2 DEF ClientTyped, clientVars
  <2> QED
    BY <1>2, <2>1, EditsKeep
<1>3. CASE Connect
  <2>1. PICK n \in 0 .. Len(wire) : HandOn("select", n)
    BY <1>3 DEF Connect
  <2>2. n \in Nat
    BY LenProperties DEF ClientTyped
  <2>3. wire' \in Seq(Messages)
    BY <2>1, <2>2, HandOnTyped
  <2>4. UNCHANGED <<stdin, keystroke, due, editor>>
    BY <1>3 DEF Connect
  <2>5. ClientTyped'
    BY <2>3, <2>4 DEF ClientTyped
  <2> QED
    BY <2>4, <2>5, EditorRests
<1>4. CASE SelectKey
  BY <1>4, ConsumeTyped, EditorRests DEF SelectKey
<1>5. CASE SelectNode
  <2>1. PICK n \in 1 .. Len(wire), next \in {"node", "closed"} : HandOn(next, n)
    BY <1>5 DEF SelectNode
  <2>2. n \in Nat
    BY LenProperties DEF ClientTyped
  <2>3. wire' \in Seq(Messages)
    BY <2>1, <2>2, HandOnTyped
  <2>4. UNCHANGED <<stdin, keystroke, editor>> /\ Settled(Enter)
    BY <1>5 DEF SelectNode
  <2>5. due' \in Seq(Tokens)
    <3>1. Len(Enter) \in Nat
      BY DEF Enter
    <3> QED
      BY <2>4, <3>1, SettledTyped
  <2>6. ClientTyped'
    BY <2>3, <2>4, <2>5 DEF ClientTyped
  <2> QED
    BY <2>4, <2>6, EditorRests
<1>6. CASE Interrupt
  BY <1>6, ConsumeTyped, EditsKeep DEF Interrupt
<1>7. CASE Deliver
  <2>1. ClientTyped' /\ Head(wire) \in Messages
    BY <1>7, ConsumeTyped DEF Deliver
  <2>2. Begin(Decoded(Head(wire)))
    BY <1>7 DEF Deliver
  <2>3. Decoded(Head(wire)) \in Seq(Typable) \ {<<>>}
    BY <2>1, DecodedIs
  <2> QED
    BY <2>1, <2>2, <2>3, BeginKeeps
<1>8. CASE UNCHANGED vars
  <2>1. ClientTyped'
    BY <1>8 DEF vars, clientVars, ClientTyped
  <2> QED
    BY <1>8, <2>1, EditorRests DEF vars
<1> QED
  BY <1>1, <1>2, <1>3, <1>4, <1>5, <1>6, <1>7, <1>8 DEF Next

\* The invariant holds always.
LEMMA Invariant == Spec => []IInv
BY InitIInv, NextIInv, PTL DEF Spec

\* The editors' variables have their types: whoever is busy has a keystroke, only
\* the shell is in its history, and the column stays within prompt and text
\* (buffer_logic.go:11-191, tty.go:124-241).
THEOREM TypeCorrect == Spec => []TypeOK
<1>1. IInv => TypeOK
  BY BytesAre DEF IInv, EInv, EditTyped, TypeOK
<1> QED
  BY <1>1, Invariant, PTL

\* The slices of the line editor are in range, so that it brings the engine down
\* only after a wide character or a Ctrl-C that has overtaken a key
\* (buffer_logic.go:35, 77, 168-177).
THEOREM NoPanics == Spec => []NoPanic
<1>1. IInv => NoPanic
  BY DEF IInv, EInv
<1> QED
  BY <1>1, Invariant, PTL

\* Between keys the row of the user's terminal is the line, with the cursor at its
\* place, whatever has been inserted, deleted and recalled (buffer_logic.go:20-44,
\* 61-74, 121-123, 181-186, tty.go:134-163, 176-191, 226-233).
THEOREM RowIsLine == Spec => []ScreenShows
<1>1. IInv => ScreenShows
  <2> SUFFICES ASSUME IInv, phase = "read", ~Masked, ~wide, ~raced, ~garbled
               PROVE  /\ Len(screen.row) >= Len(buffer) /\ screen.col = cursor
                      /\ \A k \in DOMAIN screen.row :
                            screen.row[k] = IF k <= Len(buffer) THEN buffer[k] ELSE Blank
    BY DEF ScreenShows
  <2>1. Shows(screen, buffer, cursor)
    BY DEF IInv, EInv, RowShows, Clean
  <2>2. DOMAIN screen.row = 1 .. Len(screen.row)
    BY LenProperties DEF IInv, EInv, EditTyped, Screen
  <2> QED
    BY <2>1, <2>2 DEF Shows
<1> QED
  BY <1>1, Invariant, PTL

\* Up and Down never lose the line that was being typed (buffer_logic.go:85-162).
THEOREM DraftsKept == Spec => []DraftKept
<1>1. IInv => DraftKept
  BY DEF IInv, EInv, EditTyped, DraftKept
<1> QED
  BY <1>1, Invariant, PTL

-----------------------------------------------------------------------------
(* Bytes arrive once and in order. *)

\* The same bytes fit.
LEMMA FitsSame ==
    ASSUME NEW a
    PROVE  Fits(a, a)
BY DEF Fits

\* A byte that is replaced twice is replaced once.
LEMMA FitsTwice ==
    ASSUME NEW T, NEW a \in Seq(T), NEW b \in Seq(T), NEW c \in Seq(T), Fits(a, b), Fits(b, c)
    PROVE  Fits(a, c)
<1>1. /\ DOMAIN a = 1 .. Len(a) /\ DOMAIN b = 1 .. Len(b) /\ Len(a) = Len(b) /\ Len(b) = Len(c)
  BY LenProperties DEF Fits
<1>2. ASSUME NEW n \in DOMAIN a PROVE c[n] = a[n] \/ (c[n] = Replacement /\ a[n] \in Beyond)
  <2>1. b[n] = a[n] \/ (b[n] = Replacement /\ a[n] \in Beyond)
    BY DEF Fits
  <2>2. c[n] = b[n] \/ (c[n] = Replacement /\ b[n] \in Beyond)
    BY <1>1 DEF Fits
  <2> QED
    BY <2>1, <2>2
<1> QED
  BY <1>1, <1>2 DEF Fits

\* What fits piece by piece fits as a whole.
LEMMA FitsJoin ==
    ASSUME NEW T, NEW a \in Seq(T), NEW b \in Seq(T), NEW c \in Seq(T), NEW d \in Seq(T),
           Fits(a, b), Fits(c, d)
    PROVE  Fits(Join(a, c), Join(b, d))
<1> DEFINE s == a \o c
           t == b \o d
<1>1. /\ s \in Seq(T) /\ Len(s) = Len(a) + Len(c) /\ Len(a) \in Nat /\ Len(c) \in Nat
      /\ \A n \in 1 .. (Len(a) + Len(c)) : s[n] = IF n <= Len(a) THEN a[n] ELSE c[n - Len(a)]
  BY ConcatIs, LenProperties
<1>2. /\ t \in Seq(T) /\ Len(t) = Len(b) + Len(d)
      /\ \A n \in 1 .. (Len(b) + Len(d)) : t[n] = IF n <= Len(b) THEN b[n] ELSE d[n - Len(b)]
  BY ConcatIs
<1>3. Len(a) = Len(b) /\ Len(c) = Len(d) /\ DOMAIN a = 1 .. Len(a) /\ DOMAIN c = 1 .. Len(c)
  BY LenProperties DEF Fits
<1> HIDE DEF s, t
<1>4. DOMAIN s = 1 .. (Len(a) + Len(c))
  BY <1>1, LenProperties
<1>5. ASSUME NEW n \in DOMAIN s PROVE t[n] = s[n] \/ (t[n] = Replacement /\ s[n] \in Beyond)
  <2>1. CASE n <= Len(a)
    <3>1. n \in DOMAIN a /\ s[n] = a[n] /\ t[n] = b[n]
      BY <1>1, <1>2, <1>3, <1>4, <2>1
    <3> QED
      BY <3>1 DEF Fits
  <2>2. CASE ~(n <= Len(a))
    <3>1. n - Len(a) \in DOMAIN c /\ s[n] = c[n - Len(a)] /\ t[n] = d[n - Len(a)]
      BY <1>1, <1>2, <1>3, <1>4, <2>2
    <3> QED
      BY <3>1 DEF Fits
  <2> QED
    BY <2>1, <2>2
<1>6. Fits(s, t)
  BY <1>1, <1>2, <1>3, <1>5 DEF Fits
<1> QED
  BY <1>6 DEF Join, s, t

\* A message at the front fits the first bytes typed, and what follows it the
\* rest.
LEMMA FitsOff ==
    ASSUME NEW T, NEW a \in Seq(T), NEW k \in Seq(T), NEW r \in Seq(T), Fits(a, Join(k, r))
    PROVE  Fits(SubSeq(a, 1, Len(k)), k) /\ Fits(From(a, Len(k)), r)
<1> DEFINE s == k \o r
           n == Len(k)
<1>1. /\ s \in Seq(T) /\ Len(s) = n + Len(r) /\ n \in Nat /\ Len(r) \in Nat
      /\ \A i \in 1 .. (n + Len(r)) : s[i] = IF i <= n THEN k[i] ELSE r[i - n]
  BY ConcatIs, LenProperties
<1>2. Fits(a, s)
  BY DEF Join
<1> HIDE DEF s
<1>3. /\ Len(a) = n + Len(r)
      /\ \A i \in 1 .. (n + Len(r)) : s[i] = a[i] \/ (s[i] = Replacement /\ a[i] \in Beyond)
  BY <1>1, <1>2, LenProperties DEF Fits
<1> HIDE DEF n
<1>4. n \in 0 .. Len(a)
  BY <1>1, <1>3
<1> DEFINE b == SubSeq(a, 1, n)
           c == From(a, n)
<1>5. b \in Seq(T) /\ Len(b) = n /\ \A i \in 1 .. n : b[i] = a[i]
  BY <1>4, FirstIs
<1>6. c \in Seq(T) /\ Len(c) = Len(r) /\ \A i \in 1 .. Len(r) : c[i] = a[n + i]
  <2>0. n \in Nat
    BY <1>1
  <2>1. /\ From(a, n) \in Seq(T) /\ Len(From(a, n)) = IF n <= Len(a) THEN Len(a) - n ELSE 0
        /\ \A i \in 1 .. (Len(a) - n) : From(a, n)[i] = a[n + i]
    BY <2>0, FromIs
  <2> QED
    BY <1>1, <1>3, <2>1
<1> HIDE DEF b, c
<1>7. DOMAIN b = 1 .. n /\ DOMAIN c = 1 .. Len(r)
  BY <1>5, <1>6, LenProperties
<1>8. Fits(b, k)
  <2>1. Len(b) = Len(k)
    BY <1>5 DEF n
  <2>2. ASSUME NEW i \in 1 .. n PROVE k[i] = b[i] \/ (k[i] = Replacement /\ b[i] \in Beyond)
    <3>1. i \in 1 .. (n + Len(r)) /\ i <= n
      BY <1>1
    <3> QED
      BY <1>1, <1>3, <1>5, <3>1
  <2> QED
    BY <1>7, <2>1, <2>2 DEF Fits
<1>9. Fits(c, r)
  <2>1. ASSUME NEW i \in 1 .. Len(r) PROVE r[i] = c[i] \/ (r[i] = Replacement /\ c[i] \in Beyond)
    <3>1. n + i \in 1 .. (n + Len(r)) /\ ~(n + i <= n) /\ (n + i) - n = i
      BY <1>1
    <3> QED
      BY <1>1, <1>3, <1>6, <3>1
  <2> QED
    BY <1>6, <1>7, <2>1 DEF Fits
<1> QED
  BY <1>8, <1>9 DEF b, c, n

\* All that has been typed and not been got is on its way, in this order.
OnTheWay == Join(Join(FlattenSeq(wire), keystroke), stdin)

OInv ==
    /\ ClientTyped
    /\ ~dropped /\ ~swallowed => Fits(due, OnTheWay)
    /\ stage = "connect" => ~swallowed

\* The operands are sequences.
LEMMA WayTyped ==
    ASSUME ClientTyped
    PROVE  /\ wire \in Seq(Seq(Tokens)) /\ FlattenSeq(wire) \in Seq(Tokens)
           /\ keystroke \in Seq(Tokens) /\ stdin \in Seq(Tokens) /\ due \in Seq(Tokens)
<1>1. Messages \subseteq Seq(Tokens)
  BY DEF Messages
<1>2. wire \in Seq(Seq(Tokens))
  BY <1>1, SeqMonotonic DEF ClientTyped
<1>3. <<>> \in Seq(Tokens)
  OBVIOUS
<1>4. FlattenSeq(wire) \in Seq(Tokens)
  BY <1>2, <1>3, FlattenAppend
<1> QED
  BY <1>2, <1>4 DEF ClientTyped

\* A keystroke sent is behind the others.
LEMMA SendJoins ==
    ASSUME ClientTyped, NEW k \in Seq(Tokens), Send(k)
    PROVE  FlattenSeq(wire') = Join(FlattenSeq(wire), Coded(k)) /\ keystroke' = <<>>
<1>1. wire' = Append(wire, Coded(k)) /\ keystroke' = <<>>
  BY DEF Send
<1>2. Coded(k) \in Seq(Tokens)
  BY CodedIs
<1>3. FlattenSeq(Append(wire, Coded(k))) = FlattenSeq(wire) \o Coded(k)
  BY <1>2, WayTyped, FlattenAppend
<1> QED
  BY <1>1, <1>3 DEF Join

\* What is on its way is tokens.
LEMMA WayIs == ClientTyped => OnTheWay \in Seq(Tokens)
<1> SUFFICES ASSUME ClientTyped PROVE OnTheWay \in Seq(Tokens)
  OBVIOUS
<1>1. FlattenSeq(wire) \in Seq(Tokens) /\ keystroke \in Seq(Tokens) /\ stdin \in Seq(Tokens)
  BY WayTyped
<1>2. \A a, b \in Seq(Tokens) : Join(a, b) \in Seq(Tokens)
  BY JoinIs
<1> QED
  BY <1>1, <1>2 DEF OnTheWay

\* A byte read goes from the front of stdin to the end of the keystroke, which
\* may then be coded.
LEMMA ReadJoins ==
    ASSUME ClientTyped, NEW p, NEW ends, Read(p, ends)
    PROVE  Fits(OnTheWay, OnTheWay') /\ UNCHANGED <<due, dropped>>
<1> DEFINE T == Tokens
           F == FlattenSeq(wire)
           h == <<Head(stdin)>>
           t == Tail(stdin)
           k == Append(p, Head(stdin))
           c == IF ends THEN Coded(k) ELSE k
<1>1. /\ keystroke = p /\ stdin # <<>> /\ stdin' = t
      /\ IF ends THEN Send(k) ELSE keystroke' = k /\ UNCHANGED wire
      /\ UNCHANGED <<due, dropped>>
  BY DEF Read
<1>2. p \in Seq(T) /\ Head(stdin) \in T /\ t \in Seq(T) /\ F \in Seq(T) /\ stdin \in Seq(T)
  BY <1>1, WayTyped, HeadTailProperties
<1>3. h \in Seq(T) /\ k \in Seq(T)
  BY <1>2
<1>4. stdin = Join(h, t) /\ k = Join(p, h)
  <2>1. h \o t \in Seq(T) /\ Len(h \o t) = Len(stdin) /\ \A i \in 1 .. Len(stdin) : (h \o t)[i] = stdin[i]
    BY <1>1, <1>2
  <2>2. stdin = h \o t
    BY <1>2, <2>1, SeqEqual
  <2>3. k = p \o h
    BY <1>2, AppendIsConcat
  <2> QED
    BY <2>2, <2>3 DEF Join
<1> HIDE DEF k
<1>5. c \in Seq(T) /\ Fits(k, c)
  BY <1>3, CodedIs, FitsSame
<1>6. (ends /\ FlattenSeq(wire') = Join(F, Coded(k)) /\ keystroke' = <<>>) \/ (~ends /\ FlattenSeq(wire') = F /\ keystroke' = k)
  BY <1>1, <1>3, SendJoins
<1>7. (FlattenSeq(wire') = Join(F, c) /\ keystroke' = <<>>) \/ (FlattenSeq(wire') = F /\ keystroke' = c)
  BY <1>6
<1> HIDE DEF T, F, h, t, c
<1>8. /\ <<>> \in Seq(T) /\ \A a \in Seq(T) : Join(a, <<>>) = a
      /\ \A a, b \in Seq(T) : Join(a, b) \in Seq(T)
      /\ \A a, b, d \in Seq(T) : Join(Join(a, b), d) = Join(a, Join(b, d))
  BY JoinIs
<1>9. OnTheWay = Join(Join(F, k), t)
  <2>1. OnTheWay = Join(Join(F, p), Join(h, t))
    BY <1>1, <1>4 DEF OnTheWay, F
  <2>2. Join(F, p) \in Seq(T)
    BY <1>2, <1>8
  <2>3. Join(Join(F, p), Join(h, t)) = Join(Join(Join(F, p), h), t)
    BY <1>2, <1>3, <1>8, <2>2
  <2>4. Join(Join(F, p), h) = Join(F, Join(p, h))
    BY <1>2, <1>3, <1>8
  <2> QED
    BY <1>4, <2>1, <2>3, <2>4
<1>10. OnTheWay' = Join(Join(F, c), t)
  <2>1. OnTheWay' = Join(Join(FlattenSeq(wire'), keystroke'), t)
    BY <1>1 DEF OnTheWay
  <2>2. Join(FlattenSeq(wire'), keystroke') = Join(F, c)
    <3>1. Join(Join(F, c), <<>>) = Join(F, c)
      BY <1>2, <1>5, <1>8
    <3> QED
      BY <1>7, <3>1
  <2> QED
    BY <2>1, <2>2
<1>11. Fits(Join(Join(F, k), t), Join(Join(F, c), t))
  <2>1. Fits(F, F) /\ Fits(t, t)
    BY FitsSame
  <2>2. Fits(Join(F, k), Join(F, c))
    BY <1>2, <1>3, <1>5, <2>1, FitsJoin
  <2>3. Join(F, k) \in Seq(T) /\ Join(F, c) \in Seq(T)
    BY <1>2, <1>3, <1>5, <1>8
  <2> QED
    BY <1>2, <2>1, <2>2, <2>3, FitsJoin
<1> QED
  BY <1>1, <1>9, <1>10, <1>11

\* The steps of the client.
LEMMA ClientInOrder ==
    ASSUME OInv, ClientNext, UNCHANGED <<stage, swallowed>>
    PROVE  OInv'
<1> USE DEF OInv
<1>0. ClientTyped'
  BY ClientKeeps
<1> DEFINE T == Tokens
           F == FlattenSeq(wire)
<1>1. F \in Seq(T) /\ keystroke \in Seq(T) /\ stdin \in Seq(T) /\ due \in Seq(T)
  BY WayTyped
<1>2. /\ <<>> \in Seq(T) /\ \A a \in Seq(T) : Join(a, <<>>) = a
      /\ \A a, b \in Seq(T) : Join(a, b) \in Seq(T)
      /\ \A a, b, c \in Seq(T) : Join(Join(a, b), c) = Join(a, Join(b, c))
  BY JoinIs
<1>w. OnTheWay \in Seq(T) /\ OnTheWay' \in Seq(T)
  <2>1. (ClientTyped => OnTheWay \in Seq(Tokens))'
    BY WayIs, PTL
  <2>2. OnTheWay' \in Seq(Tokens)
    BY <1>0, <2>1
  <2> QED
    BY <2>2, WayIs
<1>3. ASSUME NEW k \in Presses, Press(k) PROVE OInv'
  <2>1. /\ stdin = <<>> /\ stdin' = k /\ due' = Join(due, k) /\ UNCHANGED <<keystroke, wire, dropped>>
    BY <1>3 DEF Press, Join
  <2> HIDE DEF F, T
  <2>2. OnTheWay = Join(F, keystroke)
    BY <1>1, <1>2, <2>1 DEF OnTheWay, F
  <2>3. OnTheWay' = Join(Join(F, keystroke), k)
    BY <2>1 DEF OnTheWay, F
  <2>4. k \in Seq(T)
    BY Runes DEF T
  <2>5. Fits(k, k)
    BY FitsSame
  <2>6. Fits(due, OnTheWay) => Fits(Join(due, k), Join(OnTheWay, k))
    BY <1>1, <1>w, <2>4, <2>5, FitsJoin
  <2> QED
    BY <1>0, <2>1, <2>2, <2>3, <2>6
<1>4. CASE ReadFirst \/ ReadEscaped \/ ReadSequence
  <2>1. Fits(OnTheWay, OnTheWay') /\ UNCHANGED <<due, dropped>>
    BY <1>4, ReadJoins DEF ReadFirst, ReadEscaped, ReadSequence
  <2>2. Fits(due, OnTheWay) => Fits(due, OnTheWay')
    BY <1>1, <1>w, <2>1, FitsTwice
  <2> QED
    BY <1>0, <2>1, <2>2
<1>5. CASE Timeout
  <2>1. Send(keystroke) /\ UNCHANGED <<stdin, due, dropped>>
    BY <1>5 DEF Timeout
  <2> DEFINE c == Coded(keystroke)
  <2>2. FlattenSeq(wire') = Join(F, c) /\ keystroke' = <<>>
    BY <1>1, <2>1, SendJoins
  <2>3. c \in Seq(T) /\ Fits(keystroke, c)
    BY <1>1, CodedIs
  <2> HIDE DEF F, T, c
  <2>4. OnTheWay' = Join(Join(F, c), stdin)
    <3>1. OnTheWay' = Join(Join(Join(F, c), <<>>), stdin)
      BY <2>1, <2>2 DEF OnTheWay
    <3> QED
      BY <1>1, <1>2, <2>3, <3>1
  <2>5. Fits(OnTheWay, OnTheWay')
    <3>1. Fits(F, F) /\ Fits(stdin, stdin)
      BY FitsSame
    <3>2. Fits(Join(F, keystroke), Join(F, c))
      BY <1>1, <2>3, <3>1, FitsJoin
    <3>3. Join(F, keystroke) \in Seq(T) /\ Join(F, c) \in Seq(T)
      BY <1>1, <1>2, <2>3
    <3>4. Fits(Join(Join(F, keystroke), stdin), Join(Join(F, c), stdin))
      BY <1>1, <3>1, <3>2, <3>3, FitsJoin
    <3> QED
      BY <2>4, <3>4 DEF OnTheWay, F
  <2>6. Fits(due, OnTheWay) => Fits(due, OnTheWay')
    BY <1>1, <1>w, <2>5, FitsTwice
  <2> QED
    BY <1>0, <2>1, <2>6
<1>6. CASE ReadBehindAlt
  BY <1>0, <1>6 DEF ReadBehindAlt
<1> QED
  BY <1>3, <1>4, <1>5, <1>6 DEF ClientNext

\* A reader gets the oldest message.
LEMMA ConsumeInOrder ==
    ASSUME OInv, wire # <<>>, Settled(Head(wire)), wire' = Tail(wire),
           UNCHANGED <<stdin, keystroke, dropped>>, ~dropped, ~swallowed
    PROVE  Fits(due', OnTheWay')
<1> DEFINE T == Tokens
           k == Head(wire)
           G == FlattenSeq(Tail(wire))
           r == Join(Join(G, keystroke), stdin)
<1>1. /\ wire \in Seq(Seq(T)) /\ FlattenSeq(wire) \in Seq(T)
      /\ keystroke \in Seq(T) /\ stdin \in Seq(T)
  BY WayTyped DEF OInv
<1>2. k \in Seq(T) /\ Tail(wire) \in Seq(Seq(T))
  BY <1>1, HeadTailProperties
<1>3. G \in Seq(T)
  <2>1. <<>> \in Seq(T)
    OBVIOUS
  <2> QED
    BY <1>2, <2>1, FlattenAppend
<1>4. FlattenSeq(wire) = Join(k, G)
  BY <1>1, FlattenHead DEF Join
<1>5. Fits(due, OnTheWay) /\ due \in Seq(T)
  BY WayTyped DEF OInv
<1>6. due' = IF Fits(SubSeq(due, 1, Len(k)), k) THEN From(due, Len(k)) ELSE due
  BY DEF Settled
<1>7. OnTheWay' = r
  BY DEF OnTheWay
<1> HIDE DEF T, k, G
<1>8. /\ \A a, b \in Seq(T) : Join(a, b) \in Seq(T)
      /\ \A a, b, c \in Seq(T) : Join(Join(a, b), c) = Join(a, Join(b, c))
  BY JoinIs
<1>9. r \in Seq(T)
  BY <1>1, <1>3, <1>8
<1>10. OnTheWay = Join(k, r)
  <2>1. Join(G, keystroke) \in Seq(T)
    BY <1>1, <1>3, <1>8
  <2>2. OnTheWay = Join(Join(Join(k, G), keystroke), stdin)
    BY <1>4 DEF OnTheWay
  <2>3. Join(Join(k, G), keystroke) = Join(k, Join(G, keystroke))
    BY <1>1, <1>2, <1>3, <1>8
  <2> QED
    BY <1>1, <1>2, <1>8, <2>1, <2>2, <2>3
<1> HIDE DEF r
<1>11. Fits(SubSeq(due, 1, Len(k)), k) /\ Fits(From(due, Len(k)), r)
  BY <1>2, <1>5, <1>9, <1>10, FitsOff
<1> QED
  BY <1>5, <1>6, <1>7, <1>10, <1>11

\* Every step.
LEMMA NextInOrder == OInv /\ IInv /\ [Next]_vars => OInv'
<1> SUFFICES ASSUME OInv, IInv, [Next]_vars PROVE OInv'
  OBVIOUS
<1>0. ClientTyped'
  BY NextIInv DEF IInv
<1>1. CASE ClientNext /\ UNCHANGED <<editor, stage, swallowed>>
  BY <1>1, ClientInOrder
<1>2. CASE (Finish /\ UNCHANGED <<clientVars, stage, swallowed>>) \/ UNCHANGED vars
  BY <1>0, <1>2 DEF OInv, OnTheWay, clientVars, vars
<1>3. CASE Connect
  <2>1. PICK n \in 0 .. Len(wire) : HandOn("select", n) /\ swallowed' = (n > 0)
    BY <1>3 DEF Connect
  <2>2. ~swallowed /\ stage' = "select" /\ UNCHANGED <<stdin, keystroke, due, dropped>>
    BY <1>3, <2>1 DEF Connect, OInv, HandOn
  <2>3. ASSUME ~swallowed' PROVE wire' = wire
    <3>0. ~(n > 0) /\ Len(wire) \in Nat
      BY <2>1, <2>3, LenProperties DEF OInv, ClientTyped
    <3>1. n = 0 /\ n + 1 = 1
      BY <3>0
    <3>2. wire' = SubSeq(wire, 1, Len(wire))
      BY <2>1, <3>1 DEF HandOn, From
    <3> QED
      BY <3>2, SubSeqFull DEF OInv, ClientTyped
  <2>4. ~swallowed' => OnTheWay' = OnTheWay
    BY <2>2, <2>3 DEF OnTheWay
  <2> QED
    BY <1>0, <2>2, <2>4 DEF OInv
<1>4. CASE SelectKey \/ Interrupt \/ Deliver
  <2>1. Consume /\ stage' # "connect" /\ UNCHANGED <<stdin, keystroke, dropped, swallowed>>
    BY <1>4 DEF SelectKey, Interrupt, Deliver
  <2> QED
    BY <1>0, <2>1, ConsumeInOrder DEF Consume, OInv
<1>5. CASE SelectNode
  <2>1. PICK n \in 1 .. Len(wire), next \in {"node", "closed"} :
            HandOn(next, n) /\ swallowed' = (swallowed \/ n > 1)
    BY <1>5 DEF SelectNode
  <2>2. /\ stage' # "connect" /\ UNCHANGED <<stdin, keystroke, dropped>>
        /\ wire # <<>> /\ Settled(Head(wire))
    BY <1>5, <2>1 DEF SelectNode, HandOn
  <2>3. ASSUME ~swallowed' PROVE ~swallowed /\ wire' = Tail(wire)
    <3>0. ~(n > 1) /\ ~swallowed /\ Len(wire) \in Nat
      BY <2>1, <2>3, LenProperties DEF OInv, ClientTyped
    <3>1. n = 1 /\ n + 1 = 2 /\ ~swallowed
      BY <3>0
    <3>2. wire' = SubSeq(wire, 2, Len(wire))
      BY <2>1, <3>1 DEF HandOn, From
    <3> QED
      BY <2>2, <3>1, <3>2, TailIsSubSeq DEF OInv, ClientTyped
  <2> QED
    BY <1>0, <2>2, <2>3, ConsumeInOrder DEF OInv
<1> QED
  BY <1>1, <1>2, <1>3, <1>4, <1>5 DEF Next

\* No byte is lost, doubled or moved between the keyboard and a reader of the
\* engine, whatever the client's timeout decides, except behind an Alt combination
\* and where a scanner has read ahead; none but those beyond ASCII is changed, and
\* these only to U+FFFD (client/main.go:41-97, client/connection.go:20-22,
\* engine/server.go:34-45, engine/handler.go:39-56).
THEOREM BytesInOrder == Spec => []InOrder
<1>1. Init => OInv
  <2> SUFFICES ASSUME Init PROVE OInv
    OBVIOUS
  <2>1. /\ wire = <<>> /\ keystroke = <<>> /\ stdin = <<>> /\ due = <<>> /\ swallowed = FALSE
    BY DEF Init, ClientInit
  <2>2. FlattenSeq(<<>>) = <<>>
    <3>1. Len(<<>>) = 0
      OBVIOUS
    <3> QED
      BY <3>1, FlattenIs, Zenon
  <2>3. <<>> \in Seq(Tokens) /\ \A a \in Seq(Tokens) : Join(a, <<>>) = a
    BY JoinIs
  <2>4. Join(Join(<<>>, <<>>), <<>>) = <<>>
    BY <2>3
  <2>5. ClientTyped
    BY <2>1 DEF ClientTyped
  <2>6. Fits(<<>>, <<>>)
    BY FitsSame
  <2> QED
    BY <2>1, <2>2, <2>4, <2>5, <2>6 DEF OInv, OnTheWay
<1>2. OInv => InOrder
  BY DEF OInv, InOrder, OnTheWay, Join
<1> QED
  BY <1>1, <1>2, NextInOrder, Invariant, PTL DEF Spec

-----------------------------------------------------------------------------
(* A line with a cursor in it. *)

\* The line up to place n.
Before(line, n) == [k \in 1 .. n |-> IF k <= Len(line) THEN line[k] ELSE "nothing"]

\* What the line is up to a place in it.
LEMMA BeforeIs ==
    ASSUME NEW T, NEW line \in Seq(T), NEW n \in 0 .. Len(line)
    PROVE  /\ Before(line, n) \in Seq(T) /\ Len(Before(line, n)) = n
           /\ \A i \in 1 .. n : Before(line, n)[i] = line[i]
<1>1. Len(line) \in Nat /\ \A i \in 1 .. Len(line) : line[i] \in T
  BY LenProperties
<1>2. \A i \in 1 .. n : Before(line, n)[i] = line[i] /\ line[i] \in T
  BY <1>1 DEF Before
<1>3. Before(line, n) \in [1 .. n -> T]
  BY <1>2 DEF Before
<1> QED
  BY <1>1, <1>2, <1>3

\* Both parts together are the line.
LEMMA Halves ==
    ASSUME NEW T, NEW line \in Seq(T), NEW n \in 0 .. Len(line)
    PROVE  Join(Before(line, n), From(line, n)) = line
<1> DEFINE b == Before(line, n)
           a == From(line, n)
           s == b \o a
           L == Len(line)
<1>1. L \in Nat /\ n \in Nat /\ n <= L
  BY LenProperties
<1>2. b \in Seq(T) /\ Len(b) = n /\ \A i \in 1 .. n : b[i] = line[i]
  BY BeforeIs
<1>3. a \in Seq(T) /\ Len(a) = L - n /\ \A i \in 1 .. (L - n) : a[i] = line[n + i]
  BY <1>1, FromIs
<1> HIDE DEF a, b, L
<1>4. /\ s \in Seq(T) /\ Len(s) = Len(b) + Len(a)
      /\ \A i \in 1 .. (Len(b) + Len(a)) : s[i] = IF i <= Len(b) THEN b[i] ELSE a[i - Len(b)]
  BY <1>2, <1>3, ConcatIs
<1> HIDE DEF s
<1>5. Len(s) = L
  BY <1>1, <1>2, <1>3, <1>4
<1>6. ASSUME NEW i \in 1 .. L PROVE s[i] = line[i]
  <2>1. CASE i <= n
    BY <1>1, <1>2, <1>3, <1>4, <2>1
  <2>2. CASE ~(i <= n)
    <3>1. i - n \in 1 .. (L - n) /\ n + (i - n) = i
      BY <1>1, <2>2
    <3>2. s[i] = a[i - n]
      BY <1>1, <1>2, <1>3, <1>4, <2>2
    <3> QED
      BY <1>3, <3>1, <3>2
  <2> QED
    BY <2>1, <2>2
<1>7. s = line
  BY <1>4, <1>5, <1>6, SeqEqual DEF L
<1> QED
  BY <1>7 DEF Join, s, a, b

\* Runes put in at the cursor end up before it.
LEMMA InsertSplits ==
    ASSUME NEW T, NEW line \in Seq(T), NEW r \in Seq(T), NEW c \in 0 .. Len(line)
    PROVE  /\ IsPrefix(Before(line, c), Before(Inserted(line, r, c), c + Len(r)))
           /\ From(Inserted(line, r, c), c + Len(r)) = From(line, c)
<1> DEFINE l == Inserted(line, r, c)
           M == Len(line)
           n == Len(r)
           d == c + n
           b == Before(line, c)
           e == Before(l, d)
<1>1. M \in Nat /\ n \in Nat /\ c \in Nat /\ c <= M
  BY LenProperties
<1>2. /\ l \in Seq(T) /\ Len(l) = M + n
      /\ \A i \in 1 .. (M + n) : l[i] = IF i <= c THEN line[i] ELSE IF i <= c + n THEN r[i - c] ELSE line[i - n]
  BY InsertIs
<1>3. b \in Seq(T) /\ Len(b) = c /\ \A i \in 1 .. c : b[i] = line[i]
  BY BeforeIs
<1> HIDE DEF l, M, n, b
<1>4. d \in Nat /\ d >= c /\ d \in 0 .. Len(l)
  BY <1>1, <1>2
<1>5. e \in Seq(T) /\ Len(e) = d /\ \A i \in 1 .. d : e[i] = l[i]
  <2> HIDE DEF d
  <2> QED
    BY <1>2, <1>4, BeforeIs
<1>6. IsPrefix(b, e)
  <2> HIDE DEF d, e
  <2>1. c \in 0 .. Len(e)
    BY <1>1, <1>4, <1>5
  <2>2. /\ SubSeq(e, 1, c) \in Seq(T) /\ Len(SubSeq(e, 1, c)) = c
        /\ \A i \in 1 .. c : SubSeq(e, 1, c)[i] = e[i]
    BY <1>5, <2>1, FirstIs
  <2>3. \A i \in 1 .. c : SubSeq(e, 1, c)[i] = b[i]
    <3> TAKE i \in 1 .. c
    <3>1. i \in 1 .. d /\ i \in 1 .. (M + n) /\ i <= c
      BY <1>1, <1>4
    <3> QED
      BY <1>2, <1>3, <1>5, <2>2, <3>1
  <2>4. SubSeq(e, 1, c) = b
    BY <1>3, <2>2, <2>3, SeqEqual
  <2>5. SubSeq(b, 1, c) = b
    BY <1>3, SubSeqFull
  <2> QED
    BY <1>3, <1>4, <1>5, <2>4, <2>5 DEF IsPrefix
<1>7. From(l, d) = From(line, c)
  <2> DEFINE x == From(l, d)
             y == From(line, c)
  <2>1. y \in Seq(T) /\ Len(y) = M - c /\ \A i \in 1 .. (M - c) : y[i] = line[c + i]
    BY <1>1, FromIs DEF M
  <2>2. Len(l) - d = M - c /\ d <= Len(l)
    BY <1>1, <1>2
  <2> HIDE DEF d, y
  <2>3. x \in Seq(T) /\ Len(x) = M - c /\ \A i \in 1 .. (M - c) : x[i] = l[d + i]
    BY <1>2, <1>4, <2>2, FromIs
  <2> HIDE DEF x
  <2>4. ASSUME NEW i \in 1 .. (M - c) PROVE x[i] = y[i]
    <3>1. d + i \in 1 .. (M + n) /\ ~(d + i <= c) /\ ~(d + i <= c + n) /\ (d + i) - n = c + i
      BY <1>1 DEF d
    <3>2. l[d + i] = line[c + i]
      BY <1>2, <3>1
    <3> QED
      BY <2>1, <2>3, <3>2
  <2>5. x = y
    BY <2>1, <2>3, <2>4, SeqEqual
  <2> QED
    BY <2>5 DEF x, y
<1> QED
  BY <1>6, <1>7 DEF b, l, n

\* A rune taken out is the last before the cursor.
LEMMA DeleteSplits ==
    ASSUME NEW T, NEW line \in Seq(T), NEW c \in Nat, c < Len(line)
    PROVE  /\ Before(Deleted(line, c), c) = Front(Before(line, c + 1))
           /\ From(Deleted(line, c), c) = From(line, c + 1)
<1> DEFINE l == Deleted(line, c)
           M == Len(line)
           d == c + 1
           b == Before(line, d)
           e == Before(l, c)
<1>1. M \in Nat /\ d \in Nat /\ d \in 0 .. M
  BY LenProperties
<1>2. /\ l \in Seq(T) /\ Len(l) = M - 1
      /\ \A i \in 1 .. (M - 1) : l[i] = IF i <= c THEN line[i] ELSE line[i + 1]
  BY DeleteIs
<1> HIDE DEF l
<1>3. c \in 0 .. Len(l)
  BY <1>1, <1>2
<1>4. e \in Seq(T) /\ Len(e) = c /\ \A i \in 1 .. c : e[i] = l[i]
  BY <1>2, <1>3, BeforeIs
<1>5. b \in Seq(T) /\ Len(b) = d /\ \A i \in 1 .. d : b[i] = line[i]
  <2> HIDE DEF d
  <2> QED
    BY <1>1, BeforeIs
<1>6. e = Front(b)
  <2> HIDE DEF b, e
  <2>1. c \in 0 .. Len(b) /\ Len(b) - 1 = c
    BY <1>1, <1>5
  <2>2. /\ SubSeq(b, 1, c) \in Seq(T) /\ Len(SubSeq(b, 1, c)) = c
        /\ \A i \in 1 .. c : SubSeq(b, 1, c)[i] = b[i]
    BY <1>5, <2>1, FirstIs
  <2>3. \A i \in 1 .. c : e[i] = SubSeq(b, 1, c)[i]
    <3> TAKE i \in 1 .. c
    <3>1. i \in 1 .. d /\ i \in 1 .. (M - 1) /\ i <= c
      BY <1>1
    <3> QED
      BY <1>2, <1>4, <1>5, <2>2, <3>1
  <2>4. e = SubSeq(b, 1, c)
    BY <1>4, <2>2, <2>3, SeqEqual
  <2> QED
    BY <2>1, <2>4 DEF Front
<1>7. From(l, c) = From(line, d)
  <2> DEFINE x == From(l, c)
             y == From(line, d)
  <2>1. d <= M /\ M - d = (M - 1) - c /\ c <= Len(l)
    BY <1>1, <1>2
  <2> HIDE DEF d
  <2>2. y \in Seq(T) /\ Len(y) = M - d /\ \A i \in 1 .. (M - d) : y[i] = line[d + i]
    BY <1>1, <2>1, FromIs
  <2>3. x \in Seq(T) /\ Len(x) = M - d /\ \A i \in 1 .. (M - d) : x[i] = l[c + i]
    BY <1>2, <2>1, FromIs
  <2> HIDE DEF x, y
  <2>4. ASSUME NEW i \in 1 .. (M - d) PROVE x[i] = y[i]
    <3>1. c + i \in 1 .. (M - 1) /\ ~(c + i <= c) /\ (c + i) + 1 = d + i
      BY <1>1 DEF d
    <3>2. l[c + i] = line[d + i]
      BY <1>2, <3>1
    <3> QED
      BY <2>2, <2>3, <3>2
  <2>5. x = y
    BY <2>2, <2>3, <2>4, SeqEqual
  <2> QED
    BY <2>5 DEF x, y
<1> QED
  BY <1>6, <1>7 DEF l

-----------------------------------------------------------------------------
(* The editors implement LineEdit. *)

\* The abstract line, in this state.
LineBefore == IF Countable THEN UpTo(Place) ELSE <<>>
LineAfter  == IF Countable THEN From(buffer, Place) ELSE <<>>

\* While the editor counts right, the place is in the line.
LEMMA PlaceIs ==
    ASSUME EInv, Countable
    PROVE  buffer \in Seq(Typable) /\ Place \in 0 .. Len(buffer) /\ Len(buffer) \in Nat
<1>1. buffer \in Seq(Typable) /\ Len(buffer) \in Nat /\ cursor \in Nat /\ busy.cursor \in Nat
  BY LenProperties DEF EInv, EditTyped
<1>2. cursor <= Len(buffer) /\ (phase = "busy" => busy.cursor <= Len(buffer))
  BY DEF EInv, InLine, Countable
<1> QED
  BY <1>1, <1>2 DEF Place

\* The parts of the abstract line while the editor counts right.
LEMMA PartsAre ==
    ASSUME Countable, Countable'
    PROVE  /\ LineBefore = Before(buffer, Place) /\ LineAfter = From(buffer, Place)
           /\ LineBefore' = Before(buffer', Place') /\ LineAfter' = From(buffer', Place')
BY DEF LineBefore, LineAfter, UpTo, Before

\* Steps of the abstract editor, by what they do to line and place.
LEMMA AbstractStutter ==
    ASSUME Countable, Countable', buffer' = buffer, Place' = Place
    PROVE  UNCHANGED Abstract!vars
<1>1. LineBefore' = LineBefore /\ LineAfter' = LineAfter
  BY PartsAre
<1> QED
  BY <1>1 DEF Abstract!vars, LineBefore, LineAfter

\* What each key asks for.
LEMMA AskedIs ==
    /\ phase # "busy" \/ busy.key = Enter => Asked = "clear"
    /\ phase = "busy" /\ busy.key \in {Up, Down} => Asked = "recall"
    /\ phase = "busy" /\ busy.key \in {Right, Left} => Asked = "move"
    /\ phase = "busy" /\ busy.key = Del => Asked = "delete"
    /\ phase = "busy" /\ busy.key \notin {Enter, Up, Down, Right, Left, Del} => Asked = "text"
BY KeysApart DEF Asked

\* The line is emptied.
LEMMA AbstractClear ==
    ASSUME Countable, Countable', buffer' = <<>>, Place' = 0, Asked = "clear"
    PROVE  Abstract!Next
<1>1. LineBefore' = <<>> /\ LineAfter' = <<>>
  BY PartsAre DEF Before, From
<1>2. Abstract!Clear
  BY <1>1 DEF Abstract!Clear, LineBefore, LineAfter
<1> QED
  BY <1>2 DEF Abstract!Next, Countable

\* A line that is recalled has its cursor at the end.
LEMMA AbstractRecall ==
    ASSUME Countable, Countable', buffer' \in Seq(Typable), Place' = Len(buffer'), Asked = "recall"
    PROVE  Abstract!Next
<1>0. Len(buffer') \in Nat
  BY LenProperties
<1>1. LineBefore' \in Seq(Typable) /\ LineAfter' = <<>>
  <2> DEFINE l == buffer'
             n == Len(l)
  <2>1. n \in 0 .. Len(l)
    BY <1>0
  <2>2. Before(l, n) \in Seq(Typable)
    BY <2>1, BeforeIs
  <2>3. n + 1 \in Int /\ n \in Int /\ n < n + 1
    BY <1>0
  <2>4. From(l, n) = <<>>
    BY <2>3, SubSeqEmpty DEF From
  <2> QED
    BY <2>2, <2>4, PartsAre
<1>2. Range(LineBefore') \subseteq Typable
  BY <1>1, RangeOfSeq
<1>3. Abstract!Recall
  BY <1>1, <1>2 DEF Abstract!Recall, Abstract!Range, Range, LineBefore, LineAfter
<1> QED
  BY <1>3 DEF Abstract!Next, Countable

\* The cursor moves by one.
LEMMA AbstractMove ==
    ASSUME EInv, EInv', Countable, Countable', buffer' = buffer,
           Place' = Place + 1 \/ Place' = Place - 1, Asked = "move"
    PROVE  Abstract!Next
<1>1. buffer \in Seq(Typable) /\ Place \in 0 .. Len(buffer) /\ Len(buffer) \in Nat
  BY PlaceIs
<1>2. Place' \in 0 .. Len(buffer)
  <2>1. cursor' \in Nat /\ busy'.cursor \in Nat
    BY DEF EInv, EditTyped
  <2>2. cursor' <= Len(buffer') /\ (phase' = "busy" => busy'.cursor <= Len(buffer'))
    BY DEF EInv, InLine, Countable
  <2> QED
    BY <1>1, <2>1, <2>2 DEF Place
<1>3. Join(LineBefore, LineAfter) = buffer /\ Len(LineBefore) = Place
  BY <1>1, PartsAre, Halves, BeforeIs
<1>4. Join(LineBefore', LineAfter') = buffer /\ Len(LineBefore') = Place'
  <2> DEFINE p == Place'
  <2>1. p \in 0 .. Len(buffer)
    BY <1>2
  <2> HIDE DEF p
  <2>2. Join(Before(buffer, p), From(buffer, p)) = buffer /\ Len(Before(buffer, p)) = p
    BY <1>1, <2>1, Halves, BeforeIs
  <2> QED
    BY <2>2, PartsAre DEF p
<1>5. LineBefore' \o LineAfter' = LineBefore \o LineAfter
  BY <1>3, <1>4 DEF Join
<1>6. Len(LineBefore') - Len(LineBefore) \in {-1, 1}
  BY <1>1, <1>3, <1>4
<1>7. Abstract!Move
  BY <1>5, <1>6 DEF Abstract!Move, LineBefore, LineAfter
<1> QED
  BY <1>7 DEF Abstract!Next, Countable

\* Runes are put in at the cursor.
LEMMA AbstractInsert ==
    ASSUME EInv, Countable, Countable', NEW r \in Seq(Typable), Len(r) \in Nat \ {0},
           buffer' = Inserted(buffer, r, Place), Place' = Place + Len(r), Asked = "text"
    PROVE  Abstract!Next
<1> DEFINE c == Place
           l == Inserted(buffer, r, c)
           d == c + Len(r)
<1>1. buffer \in Seq(Typable) /\ c \in 0 .. Len(buffer) /\ Len(buffer) \in Nat
  BY PlaceIs
<1> HIDE DEF c
<1>2. l \in Seq(Typable) /\ Len(l) = Len(buffer) + Len(r)
  BY <1>1, InsertIs
<1>3. IsPrefix(Before(buffer, c), Before(l, d)) /\ From(l, d) = From(buffer, c)
  BY <1>1, InsertSplits
<1> HIDE DEF l
<1>4. d \in 0 .. Len(l) /\ d > c
  BY <1>1, <1>2
<1> HIDE DEF d
<1>5. Before(l, d) \in Seq(Typable) /\ Len(Before(l, d)) = d /\ Len(Before(buffer, c)) = c
  BY <1>1, <1>2, <1>4, BeforeIs
<1>6. LineBefore = Before(buffer, c) /\ LineAfter = From(buffer, c) /\ LineBefore' = Before(l, d) /\ LineAfter' = From(l, d)
  BY PartsAre DEF c, d, l
<1>7. Range(LineBefore') \subseteq Typable
  BY <1>5, <1>6, RangeOfSeq
<1>8. Abstract!Insert
  BY <1>3, <1>4, <1>5, <1>6, <1>7 DEF Abstract!Insert, Abstract!IsPrefix, IsPrefix, Abstract!Range, Range, LineBefore, LineAfter
<1> QED
  BY <1>8 DEF Abstract!Next, Countable

\* The rune before the cursor is taken out.
LEMMA AbstractDelete ==
    ASSUME EInv, Countable, Countable', NEW c \in Nat, Place = c + 1,
           buffer' = Deleted(buffer, c), Place' = c, Asked = "delete"
    PROVE  Abstract!Next
<1> DEFINE l == Deleted(buffer, c)
           d == c + 1
<1>1. buffer \in Seq(Typable) /\ d \in 0 .. Len(buffer) /\ Len(buffer) \in Nat
  BY PlaceIs
<1>2. c < Len(buffer)
  BY <1>1
<1>3. Before(l, c) = Front(Before(buffer, d)) /\ From(l, c) = From(buffer, d)
  BY <1>1, <1>2, DeleteSplits
<1>4. Before(buffer, d) # <<>>
  <2>1. d # 0
    OBVIOUS
  <2> HIDE DEF d
  <2>2. Len(Before(buffer, d)) = d
    BY <1>1, BeforeIs
  <2> QED
    BY <2>1, <2>2, EmptySeq
<1>5. LineBefore = Before(buffer, d) /\ LineAfter = From(buffer, d) /\ LineBefore' = Before(l, c) /\ LineAfter' = From(l, c)
  BY PartsAre
<1> HIDE DEF l, d
<1>6. Abstract!Delete
  BY <1>3, <1>4, <1>5 DEF Abstract!Delete, Abstract!Front, Front, LineBefore, LineAfter
<1> QED
  BY <1>6 DEF Abstract!Next, Countable

\* A step of an editor after Begin is a step of the abstract one, or none.
LEMMA EditsAreAbstract ==
    ASSUME EInv, EInv', Countable, Countable', Finish \/ Sigint
    PROVE  Abstract!Next \/ UNCHANGED Abstract!vars
<1>0. ~wide /\ ~raced /\ ~wide' /\ ~raced'
  BY DEF Countable
<1>1. buffer' \in Seq(Typable)
  BY DEF EInv, EditTyped
<1>2. CASE EnterShell \/ EnterLine \/ SigintShell \/ SigintLine
  <2>1. buffer' = <<>> /\ cursor' = 0
    BY <1>2 DEF EnterShell, EnterLine, SigintShell, SigintLine
  <2>2. phase' # "busy"
    <3>1. CASE EnterShell
      BY <3>1 DEF EnterShell, GoesOn
    <3>2. CASE EnterLine
      BY <3>2 DEF EnterLine, AfterLine, GoesOn
    <3>3. CASE SigintShell
      BY <1>0, <3>3 DEF SigintShell
    <3>4. CASE SigintLine
      BY <3>4 DEF SigintLine, GoesOn
    <3> QED
      BY <1>2, <3>1, <3>2, <3>3, <3>4
  <2>3. Place' = 0
    BY <2>1, <2>2 DEF Place
  <2>4. phase # "busy" \/ busy.key = Enter
    <3>1. CASE EnterShell \/ EnterLine
      BY <3>1 DEF EnterShell, EnterLine, Takes
    <3>2. CASE SigintShell \/ SigintLine
      BY <1>0, <3>2 DEF SigintShell, SigintLine
    <3> QED
      BY <1>2, <3>1, <3>2
  <2> QED
    BY <2>1, <2>3, <2>4, AskedIs, AbstractClear
<1>3. CASE InsertPanics \/ RacePanics
  <2>1. phase' = "dead"
    BY <1>3 DEF InsertPanics, RacePanics
  <2> QED
    BY <1>0, <2>1 DEF EInv, NoPanic
<1>4. ASSUME phase = "busy", phase' = "read", UNCHANGED busy
      PROVE  /\ Place = busy.cursor /\ Place' = cursor'
             /\ cursor = IF busy.key = Del /\ busy.cursor > 0 THEN busy.cursor - 1 ELSE busy.cursor
             /\ busy.cursor \in Nat /\ busy.cursor <= Len(buffer) /\ Len(buffer) \in Nat
             /\ Bytes(buffer) = Len(buffer)
  BY <1>0, <1>4, Under DEF Place
<1>5. CASE Delete
  <2>1. busy.key = Del /\ phase = "busy" /\ phase' = "read" /\ UNCHANGED <<busy, cursor>>
    BY <1>5 DEF Delete, Handles, Takes
  <2>2. CASE busy.cursor > 0
    <3>1. /\ cursor \in Nat /\ Place = cursor + 1 /\ Place' = cursor /\ cursor < Len(buffer)
      BY <1>4, <2>1, <2>2
    <3>2. buffer' = Deleted(buffer, cursor)
      BY <1>5, <2>2, <3>1 DEF Delete, Deleted
    <3> QED
      BY <2>1, <3>1, <3>2, AskedIs, AbstractDelete
  <2>3. CASE ~(busy.cursor > 0)
    <3>1. buffer' = buffer
      BY <1>5, <2>3 DEF Delete
    <3>2. Place' = Place
      BY <1>4, <2>1, <2>3
    <3> QED
      BY <3>1, <3>2, AbstractStutter
  <2> QED
    BY <2>2, <2>3
<1>6. CASE MoveRight \/ MoveLeft
  <2>1. /\ phase = "busy" /\ phase' = "read" /\ UNCHANGED <<busy, buffer>> /\ busy.key # Del
        /\ busy.key \in {Right, Left}
    BY <1>6, KeysApart DEF MoveRight, MoveLeft, Handles, Takes
  <2>2. Place = cursor /\ Place' = cursor'
    BY <1>4, <2>1
  <2>3. cursor' \in {cursor, cursor + 1, cursor - 1}
    BY <1>6 DEF MoveRight, MoveLeft
  <2> QED
    BY <2>1, <2>2, <2>3, AskedIs, AbstractStutter, AbstractMove
<1>7. CASE HistoryUp \/ HistoryDown
  <2>1. /\ phase = "busy" /\ phase' = "read" /\ UNCHANGED busy /\ cursor' = Bytes(buffer')
        /\ busy.key \in {Up, Down}
    BY <1>7 DEF HistoryUp, HistoryDown, Handles, Takes, Recall
  <2>2. buffer' \in Seq(Plain) /\ Plain \cap Wide = {}
    BY <1>0 DEF EInv, PlainLines, Plain
  <2>3. Place' = Len(buffer')
    BY <1>4, <2>1, <2>2, BytesAre
  <2> QED
    BY <1>1, <2>1, <2>3, AskedIs, AbstractRecall
<1>8. CASE NoEffect
  <2>1. /\ phase = "busy" /\ phase' = "read" /\ busy.key \in Ignored \cup {Up, Down}
        /\ UNCHANGED <<busy, buffer, cursor>>
    BY <1>8 DEF NoEffect, Handles, Takes
  <2>2. busy.key # Del
    BY <2>1, KeysApart
  <2>3. Place' = Place
    BY <1>4, <2>1, <2>2
  <2> QED
    BY <2>1, <2>3, AbstractStutter
<1>9. CASE Insert
  <2> DEFINE r == Text(busy.key)
  <2>1. /\ phase = "busy" /\ phase' = "read" /\ UNCHANGED busy
        /\ busy.key \notin {Enter, Up, Down, Right, Left, Del}
        /\ buffer' = Inserted(buffer, r, busy.cursor) /\ cursor' = cursor + Len(r)
    BY <1>9 DEF Insert, IsText, Handles, Takes, Inserted
  <2>2. busy.key \in Seq(Typable) /\ busy.key # <<>> /\ Blank \in Typable
    BY <2>1, Runes DEF EInv, EditTyped, Plain
  <2>3. r \in Seq(Typable) /\ Len(r) \in Nat \ {0}
    BY <2>2, TextIs
  <2> HIDE DEF r
  <2>4. Place = busy.cursor /\ Place' = Place + Len(r)
    BY <1>4, <2>1
  <2> QED
    BY <2>1, <2>3, <2>4, AskedIs, AbstractInsert
<1> QED
  BY <1>2, <1>3, <1>5, <1>6, <1>7, <1>8, <1>9 DEF Finish, Sigint

\* What is counted wrong once stays so.
LEMMA StaysUncountable ==
    ASSUME EInv, [Next]_vars, Countable'
    PROVE  Countable
<1>1. CASE UNCHANGED editor
  BY <1>1 DEF Countable, editor, marks
<1>2. CASE Finish
  BY <1>2 DEF Countable, Finish, EnterShell, EnterLine, Delete, MoveRight, MoveLeft, HistoryUp, HistoryDown,
              Recall, NoEffect, Insert, InsertPanics, RacePanics, marks
<1>3. CASE Sigint
  <2>1. raced' = (raced \/ phase = "busy") /\ wide' = wide
    BY <1>3 DEF Sigint, SigintShell, SigintLine
  <2> QED
    BY <2>1 DEF Countable
<1>4. ASSUME NEW key, Begin(key) PROVE Countable
  BY <1>4 DEF Countable, Begin
<1> QED
  BY <1>1, <1>2, <1>3, <1>4 DEF Next, Connect, SelectKey, SelectNode, Interrupt, Deliver, vars

\* Both editors implement a line with a cursor: for all keys and histories, a key
\* changes the line at the cursor as it asks for and nowhere else, Up and Down
\* replace the line, and only Enter and Ctrl-C empty it (buffer_logic.go:11-191,
\* tty.go:124-241).
THEOREM EditsLines == Spec => ImplementsLineEdit
<1>1. Init => Abstract!Init
  <2> SUFFICES ASSUME Init PROVE Abstract!Init
    OBVIOUS
  <2>1. phase = "read" /\ buffer = <<>> /\ cursor = 0 /\ Countable = TRUE
    BY DEF Init, EditorInit, Countable
  <2>2. UpTo(Place) = <<>> /\ From(buffer, Place) = <<>>
    BY <2>1 DEF UpTo, Place, From
  <2> QED
    BY <2>1, <2>2 DEF Abstract!Init
<1>2. IInv /\ IInv' /\ [Next]_vars => [Abstract!Next]_(Abstract!vars)
  <2> SUFFICES ASSUME IInv, IInv', [Next]_vars PROVE Abstract!Next \/ UNCHANGED Abstract!vars
    OBVIOUS
  <2>0. EInv /\ EInv'
    BY DEF IInv
  <2>1. CASE ~Countable'
    <3>1. Countable' = FALSE
      BY <2>1 DEF Countable
    <3> QED
      BY <3>1 DEF Abstract!Next
  <2>2. CASE Countable'
    <3>0. Countable
      BY <2>0, <2>2, StaysUncountable
    <3>1. CASE UNCHANGED editor
      <4>1. buffer' = buffer /\ Place' = Place
        BY <3>1 DEF Place, editor
      <4> QED
        BY <2>2, <3>0, <4>1, AbstractStutter
    <3>2. CASE Finish \/ Sigint
      BY <2>0, <2>2, <3>0, <3>2, EditsAreAbstract
    <3>3. ASSUME NEW key, Begin(key) PROVE UNCHANGED Abstract!vars
      <4>1. CASE Skipped(key)
        <5>1. buffer' = buffer /\ Place' = Place
          BY <3>3, <4>1 DEF Begin, Place
        <5> QED
          BY <2>2, <3>0, <5>1, AbstractStutter
      <4>2. CASE ~Skipped(key)
        <5>1. phase = "read" /\ phase' = "busy" /\ busy' = [key |-> key, cursor |-> cursor] /\ buffer' = buffer
          BY <3>3, <4>2 DEF Begin
        <5>2. Place' = Place
          BY <5>1 DEF Place
        <5> QED
          BY <2>2, <3>0, <5>1, <5>2, AbstractStutter
      <4> QED
        BY <4>1, <4>2
    <3> QED
      BY <3>1, <3>2, <3>3 DEF Next, Connect, SelectKey, SelectNode, Interrupt, Deliver, vars
  <2> QED
    BY <2>1, <2>2
<1> QED
  BY <1>1, <1>2, Invariant, PTL DEF Spec, ImplementsLineEdit, Abstract!Spec
=============================================================================
