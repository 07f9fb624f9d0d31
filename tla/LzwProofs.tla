------------------------------ MODULE LzwProofs ------------------------------
(***************************************************************************)
(* Proofs about Lzw, for any number of characters and of codes and chunks  *)
(* of any length: a chunk gives no more codes than it has characters, and  *)
(* Decompress restores every chunk that is not longer than LongestSafe.    *)
(***************************************************************************)
EXTENDS Lzw, TLAPS

\* How much of the chunk the encoder has seen.
Seen == IF i <= Len(chunk) THEN i ELSE Len(chunk)

\* The encoder's dictionary: a bijection between the strings in it and the
\* codes given out, the strings of one character being those below Chars.
TableInv ==
  /\ DOMAIN table \subseteq Seq(Char)
  /\ \A s \in DOMAIN table :
       /\ table[s] \in 0 .. code - 1
       /\ Len(s) >= 1
       /\ Len(s) = 1 => table[s] = s[1]
       /\ table[s] < Chars => Len(s) = 1
  /\ \A x \in Char : << x >> \in DOMAIN table
  /\ \A s, t \in DOMAIN table : table[s] = table[t] => s = t

EncoderInv ==
  /\ chunk \in Seq(Char) /\ Len(chunk) >= 1
  /\ i \in 1 .. Len(chunk) + 1
  /\ p \in Seq(Char) /\ Len(p) >= 1 /\ p \in DOMAIN table
  /\ codes \in Seq(Nat)
  /\ code \in Nat
  /\ finished \in BOOLEAN
  /\ TableInv
  /\ ~finished => code = Chars + Len(codes) /\ Len(codes) + Len(p) <= Seen
  /\ finished => i = Len(chunk) + 1 /\ Len(codes) \in 1 .. Len(chunk)

\* The j-th code stands for the string w[j], which is the part of the chunk
\* behind pos[j]; with the character behind that part it is the j-th entry.
Phrase(w, pos, j) ==
  /\ w[j] \in DOMAIN table /\ table[w[j]] = codes[j]
  /\ codes[j] < Chars + j - 1
  /\ pos[j + 1] = pos[j] + Len(w[j]) /\ pos[j + 1] <= Len(chunk)
  /\ \A x \in 1 .. Len(w[j]) : w[j][x] = chunk[pos[j] + x]
  /\ j < Len(codes) \/ ~finished =>
       /\ pos[j + 1] < Len(chunk)
       /\ w[j] \o << chunk[pos[j + 1] + 1] >> \in DOMAIN table
       /\ table[w[j] \o << chunk[pos[j + 1] + 1] >>] = Chars + j - 1

EncoderPhrases(w, pos) ==
  /\ w \in [ 1 .. Len(codes) -> Seq(Char) ]
  /\ pos \in [ 1 .. Len(codes) + 1 -> Nat ]
  /\ pos[1] = 0
  /\ \A j \in 1 .. Len(codes) : Phrase(w, pos, j)
  /\ ~finished => /\ pos[Len(codes) + 1] + Len(p) = Seen
                  /\ \A x \in 1 .. Len(p) : p[x] = chunk[pos[Len(codes) + 1] + x]
  /\ finished => pos[Len(codes) + 1] = Len(chunk)

\* The decoder has written the strings of the codes it has taken, and its
\* dictionary is the encoder's, one entry behind them.
DecoderPhrases(w, pos) ==
  /\ taken \in 0 .. Len(codes)
  /\ Output \in Seq(Char) /\ Len(Output) = pos[taken + 1]
  /\ \A k \in 1 .. Len(Output) : Output[k] = chunk[k]
  /\ Code_table \in Seq(Seq(Char))
  /\ Len(Code_table) = IF taken = 0 THEN Chars ELSE Chars + taken - 1
  /\ \A n \in 1 .. Len(Code_table) :
       Code_table[n] \in DOMAIN table /\ table[Code_table[n]] = n - 1
  /\ taken > 0 => Old = codes[taken] /\ Symbol = << w[taken][1] >>

Phrases ==
  Len(chunk) <= LongestSafe =>
    \E w, pos : EncoderPhrases(w, pos) /\ DecoderPhrases(w, pos)

LzwInv ==
  /\ EncoderInv
  /\ ~finished => taken = 0
  /\ Phrases

-----------------------------------------------------------------------------

\* What Append and concatenation do.
LEMMA OneMore ==
  ASSUME NEW S, NEW s \in Seq(S), NEW x \in S
  PROVE  /\ s \o << x >> \in Seq(S)
         /\ Len(s \o << x >>) = Len(s) + 1
         /\ \A k \in 1 .. Len(s) : (s \o << x >>)[k] = s[k]
         /\ (s \o << x >>)[Len(s) + 1] = x
OBVIOUS

LEMMA Joined ==
  ASSUME NEW S, NEW s \in Seq(S), NEW t \in Seq(S)
  PROVE  /\ s \o t \in Seq(S)
         /\ Len(s \o t) = Len(s) + Len(t)
         /\ \A k \in 1 .. Len(s) : (s \o t)[k] = s[k]
         /\ \A k \in 1 .. Len(t) : (s \o t)[Len(s) + k] = t[k]
OBVIOUS

\* What c is.
LEMMA Ahead ==
  ASSUME EncoderInv
  PROVE  /\ i < Len(chunk) => c = << chunk[i + 1] >> /\ chunk[i + 1] \in Char
         /\ i >= Len(chunk) => c = << >> /\ p \o c = p
<1>1. i \in Nat /\ Len(chunk) \in Nat /\ chunk \in Seq(Char) /\ p \in Seq(Char)
  BY DEF EncoderInv
<1>2. i < Len(chunk) => c = << chunk[i + 1] >> /\ chunk[i + 1] \in Char
  BY <1>1 DEF c, EncoderInv
<1>3. i >= Len(chunk) => c = << >>
  BY <1>1 DEF c
<1>4. p \o << >> = p
  BY <1>1
<1> QED
  BY <1>2, <1>3, <1>4

\* A code is not masked as long as the chunk is safe: the string of the newest
\* entry has two characters or more, and the codes before it one each.
LEMMA NotMasked ==
  ASSUME EncoderInv, ~finished, Len(chunk) <= LongestSafe
  PROVE  Emitted(p) = table[p]
<1> DEFINE m == Len(codes)
           l == Len(p)
           n == Len(chunk)
           value == table[p]
<1>1. /\ value \in Nat /\ value <= Chars + m - 1
      /\ value >= Chars => l # 1
      /\ l >= 1 /\ l \in Nat /\ m \in Nat /\ n \in Nat
  <2>1. /\ value \in 0 .. code - 1 /\ (l = 1 => value = p[1])
        /\ l >= 1 /\ l \in Nat /\ m \in Nat /\ n \in Nat /\ p \in Seq(Char)
        /\ code = Chars + m /\ code \in Nat
    BY DEF EncoderInv, TableInv
  <2>2. ASSUME l = 1 PROVE value \in Char
    <3>1. p \in Seq(Char) /\ 1 \in 1 .. Len(p)
      BY <2>1, <2>2
    <3>2. p[1] \in Char
      BY <3>1
    <3> QED
      BY <2>1, <2>2, <3>2
  <2> HIDE DEF value, l, m, n
  <2> QED
    BY <2>1, <2>2, LzwAssumption DEF Char, LzwAssumption
<1>2. m + l <= n
  <2>1. i \in 1 .. n + 1 /\ m + l <= Seen
    BY DEF EncoderInv
  <2> HIDE DEF m, l
  <2> QED
    BY <1>1, <2>1 DEF Seen
<1>3. n <= CODES - Chars + 2
  BY DEF LongestSafe
<1> HIDE DEF value, l, m, n
<1>4. value < CODES
  BY <1>1, <1>2, <1>3, LzwAssumption DEF LzwAssumption
<1>5. value % CODES = value
  BY <1>1, <1>4, LzwAssumption DEF LzwAssumption
<1> QED
  BY <1>5 DEF Emitted, value

-----------------------------------------------------------------------------
(* The encoder.                                                            *)

\* At the start the dictionary holds the characters.
LEMMA InvInit == LzwInit => LzwInv
<1> SUFFICES ASSUME LzwInit PROVE LzwInv
  OBVIOUS
<1>1. chunk \in Seq(Char) /\ chunk # << >>
  BY LzwAssumption DEF LzwInit, LzwAssumption
<1>2. Len(chunk) \in Nat \ {0} /\ Chars \in Nat \ {0}
  BY <1>1, LzwAssumption DEF LzwAssumption
<1>3. chunk \in Seq(Char) /\ chunk[1] \in Char
  BY <1>1, <1>2
<1>4. /\ i = 1 /\ p = << chunk[1] >> /\ code = Chars /\ codes = << >>
      /\ table = [ s \in { << x >> : x \in Char } |-> s[1] ]
      /\ taken = 0 /\ Output = << >>
      /\ Code_table = [ n \in 1 .. Chars |-> << n - 1 >> ]
  BY DEF LzwInit
<1>f. finished = FALSE
  BY Zenon DEF LzwInit
<1>5. /\ DOMAIN table = { << x >> : x \in Char }
      /\ \A x \in Char : << x >> \in DOMAIN table /\ table[<< x >>] = x
  BY <1>4
<1>6. ASSUME NEW s \in DOMAIN table
      PROVE  \E x \in Char : s = << x >> /\ table[s] = x
  BY <1>5
<1>7. TableInv
  <2>1. DOMAIN table \subseteq Seq(Char)
    <3>1. \A x \in Char : << x >> \in Seq(Char)
      OBVIOUS
    <3> QED
      BY <1>5, <3>1, Zenon
  <2>2. ASSUME NEW s \in DOMAIN table
        PROVE  /\ table[s] \in 0 .. code - 1 /\ Len(s) >= 1
               /\ Len(s) = 1 => table[s] = s[1]
               /\ table[s] < Chars => Len(s) = 1
    <3>1. PICK x \in Char : s = << x >> /\ table[s] = x
      BY <1>6
    <3>2. x \in 0 .. Chars - 1 /\ Len(s) = 1 /\ s[1] = x
      BY <3>1 DEF Char
    <3> QED
      BY <1>4, <3>1, <3>2
  <2>3. ASSUME NEW s \in DOMAIN table, NEW t \in DOMAIN table, table[s] = table[t]
        PROVE  s = t
    <3>1. PICK x \in Char : s = << x >> /\ table[s] = x
      BY <1>6
    <3>2. PICK y \in Char : t = << y >> /\ table[t] = y
      BY <1>6
    <3> QED
      BY <2>3, <3>1, <3>2
  <2> QED
    BY <1>5, <2>1, <2>2, <2>3 DEF TableInv
<1>8. EncoderInv
  <2>1. /\ i \in 1 .. Len(chunk) + 1 /\ p \in Seq(Char) /\ Len(p) = 1
        /\ codes \in Seq(Nat) /\ Len(codes) = 0 /\ code \in Nat /\ code = Chars + Len(codes)
        /\ p \in DOMAIN table
    BY <1>2, <1>3, <1>4, <1>5
  <2>2. Len(codes) + Len(p) <= Seen
    BY <1>2, <1>3, <1>4, <2>1 DEF Seen
  <2>3. Len(p) >= 1 /\ Len(chunk) >= 1
    BY <1>2, <1>3, <2>1
  <2>4. finished \in BOOLEAN /\ ~finished
    BY <1>f, Zenon
  <2> QED
    BY <1>3, <1>7, <2>1, <2>2, <2>3, <2>4, Zenon DEF EncoderInv
<1>9. Phrases
  <2> DEFINE w == [ j \in 1 .. 0 |-> << >> ]
             pos == [ j \in 1 .. 1 |-> 0 ]
  <2>1. EncoderPhrases(w, pos)
    <3>1. Len(codes) = 0 /\ Len(p) = 1 /\ p[1] = chunk[1] /\ Seen = 1
      BY <1>2, <1>3, <1>4 DEF Seen
    <3>2. /\ w \in [ 1 .. Len(codes) -> Seq(Char) ] /\ pos \in [ 1 .. Len(codes) + 1 -> Nat ]
          /\ pos[1] = 0 /\ pos[Len(codes) + 1] = 0
      BY <3>1
    <3> HIDE DEF w, pos
    <3>3. \A j \in 1 .. Len(codes) : Phrase(w, pos, j)
      BY <3>1
    <3>4. /\ pos[Len(codes) + 1] + Len(p) = Seen
          /\ \A x \in 1 .. Len(p) : p[x] = chunk[pos[Len(codes) + 1] + x]
      BY <3>1, <3>2
    <3> QED
      BY <1>f, <3>2, <3>3, <3>4, Zenon DEF EncoderPhrases
  <2>2. DecoderPhrases(w, pos)
    <3>1. /\ Code_table \in Seq(Seq(Char)) /\ Len(Code_table) = Chars
          /\ \A n \in 1 .. Chars : Code_table[n] = << n - 1 >> /\ n - 1 \in Char
      BY <1>2, <1>4 DEF Char
    <3>2. \A n \in 1 .. Len(Code_table) :
            Code_table[n] \in DOMAIN table /\ table[Code_table[n]] = n - 1
      BY <1>5, <3>1
    <3>3. taken = 0 /\ taken \in 0 .. Len(codes) /\ Output \in Seq(Char) /\ Len(Output) = 0
      BY <1>4
    <3>4. pos[taken + 1] = 0
      BY <3>3
    <3> HIDE DEF w, pos
    <3> QED
      BY <3>1, <3>2, <3>3, <3>4 DEF DecoderPhrases
  <2> HIDE DEF w, pos
  <2> QED
    BY <2>1, <2>2 DEF Phrases
<1> QED
  BY <1>4, <1>8, <1>9 DEF LzwInv

\* What one grows by the other does.
LEMMA SameRoom ==
  ASSUME NEW m \in Nat, NEW a \in Nat, NEW b \in Nat, NEW s \in Nat, NEW t \in Int,
         m + a <= s, b - a = t - s
  PROVE  m + b <= t
OBVIOUS

\* The encoder sees one character more, and the matched string is longer.
LEMMA ExtendInv == LzwInv /\ Extend => LzwInv'
<1> SUFFICES ASSUME LzwInv, Extend PROVE LzwInv'
  OBVIOUS
<1>1. EncoderInv /\ (~finished => taken = 0) /\ Phrases
  BY DEF LzwInv
<1>2. /\ i <= Len(chunk) /\ p \o c \in DOMAIN table /\ p' = p \o c /\ i' = i + 1
      /\ UNCHANGED << chunk, table, code, codes, finished, taken, Code_table, Old, Symbol, Output >>
  BY DEF Extend, decoderVars
<1>3. /\ i \in 1 .. Len(chunk) /\ Len(chunk) \in Nat /\ chunk \in Seq(Char)
      /\ p \in Seq(Char) /\ Len(p) >= 1 /\ Len(p) \in Nat /\ Len(codes) \in Nat
  BY <1>1, <1>2 DEF EncoderInv
<1>4. ~finished
  <2>1. finished => i = Len(chunk) + 1
    BY <1>1 DEF EncoderInv
  <2> QED
    BY <1>3, <2>1
<1>5. /\ p' \in Seq(Char) /\ Len(p') - Len(p) = Seen' - Seen
      /\ \A x \in 1 .. Len(p) : p'[x] = p[x]
      /\ Len(p') > Len(p) => Len(p') = Len(p) + 1 /\ p'[Len(p')] = chunk[i + 1] /\ Seen = i
      /\ Len(p') \in Nat /\ Len(p') >= Len(p) /\ Seen \in Nat
  <2>1. CASE i < Len(chunk)
    <3>1. p' = p \o << chunk[i + 1] >> /\ chunk[i + 1] \in Char
      BY <1>1, <1>2, <2>1, Ahead
    <3>2. Seen = i /\ Seen' = i + 1
      BY <1>2, <1>3, <2>1 DEF Seen
    <3> QED
      BY <1>3, <3>1, <3>2, OneMore
  <2>2. CASE i = Len(chunk)
    <3>1. p' = p
      BY <1>1, <1>2, <1>3, <2>2, Ahead
    <3>2. Seen = i /\ Seen' = i
      BY <1>2, <1>3, <2>2 DEF Seen
    <3> QED
      BY <1>3, <3>1, <3>2
  <2> QED
    BY <1>3, <2>1, <2>2
<1>6. EncoderInv'
  <2>1. TableInv'
    BY <1>1, <1>2 DEF EncoderInv, TableInv
  <2>2. i' \in 1 .. Len(chunk') + 1 /\ Len(p') >= 1 /\ p' \in DOMAIN table'
    BY <1>2, <1>3, <1>5
  <2>3. code' = Chars + Len(codes') /\ Len(codes') + Len(p') <= Seen'
    <3>1. code = Chars + Len(codes) /\ Len(codes) + Len(p) <= Seen
      BY <1>1, <1>4 DEF EncoderInv
    <3>2. Seen' \in Int
      BY <1>2, <1>3 DEF Seen
    <3>3. Len(codes) + Len(p') <= Seen'
      <4> DEFINE a == Len(p)
                 b == Len(p')
                 m == Len(codes)
      <4>1. /\ a \in Nat /\ b \in Nat /\ m \in Nat /\ m + a <= Seen
            /\ b - a = Seen' - Seen /\ Seen \in Nat /\ Seen' \in Int
        BY <1>3, <1>5, <3>1, <3>2
      <4>2. m + b <= Seen'
        BY <4>1, SameRoom
      <4> QED
        BY <4>2 DEF b, m
    <3> QED
      BY <1>2, <3>1, <3>3
  <2> QED
    BY <1>1, <1>2, <1>4, <1>5, <2>1, <2>2, <2>3 DEF EncoderInv
<1>7. ASSUME NEW w, NEW pos, EncoderPhrases(w, pos), DecoderPhrases(w, pos)
      PROVE  EncoderPhrases(w, pos)' /\ DecoderPhrases(w, pos)'
  <2>1. DecoderPhrases(w, pos)'
    BY <1>2, <1>7 DEF DecoderPhrases
  <2>2. \A j \in 1 .. Len(codes) : Phrase(w, pos, j)'
    BY <1>2, <1>7 DEF EncoderPhrases, Phrase
  <2> DEFINE at == pos[Len(codes) + 1]
  <2>3. at \in Nat /\ at + Len(p) = Seen /\ \A x \in 1 .. Len(p) : p[x] = chunk[at + x]
    BY <1>3, <1>4, <1>7 DEF EncoderPhrases
  <2> HIDE DEF at
  <2>4. at + Len(p') = Seen'
    <3>1. Seen' \in Int
      BY <1>2, <1>3 DEF Seen
    <3> QED
      BY <1>3, <1>5, <2>3, <3>1
  <2>5. ASSUME NEW x \in 1 .. Len(p') PROVE p'[x] = chunk[at + x]
    <3>1. CASE x <= Len(p)
      BY <1>3, <1>5, <2>3, <3>1
    <3>2. CASE x > Len(p)
      <4>1. x = Len(p) + 1 /\ x = Len(p') /\ at + x = i + 1
        BY <1>3, <1>5, <2>3, <3>2
      <4> QED
        BY <1>3, <1>5, <4>1
    <3> QED
      BY <1>3, <1>5, <3>1, <3>2
  <2>6. EncoderPhrases(w, pos)'
    <3>1. /\ w \in [ 1 .. Len(codes) -> Seq(Char) ]
          /\ pos \in [ 1 .. Len(codes) + 1 -> Nat ] /\ pos[1] = 0
      BY <1>7 DEF EncoderPhrases
    <3> QED
      BY <1>2, <1>4, <2>2, <2>4, <2>5, <3>1 DEF EncoderPhrases, at
  <2> QED
    BY <2>1, <2>6
<1>8. Phrases'
  BY <1>1, <1>2, <1>7 DEF Phrases, LongestSafe
<1> QED
  BY <1>1, <1>2, <1>6, <1>8 DEF LzwInv

\* A code for the matched string, and an entry one character longer.
LEMMA EmitInv == LzwInv /\ Emit => LzwInv'
<1> SUFFICES ASSUME LzwInv, Emit PROVE LzwInv'
  OBVIOUS
<1> DEFINE m == Len(codes)
           entry == p \o c
<1>1. EncoderInv /\ (~finished => taken = 0) /\ Phrases
  BY DEF LzwInv
<1>2. /\ i <= Len(chunk) /\ entry \notin DOMAIN table
      /\ codes' = Append(codes, Emitted(p))
      /\ table' = [ t \in DOMAIN table \cup {entry} |-> IF t = entry THEN code ELSE table[t] ]
      /\ code' = code + 1 /\ p' = c /\ i' = i + 1
      /\ UNCHANGED << chunk, finished, taken, Code_table, Old, Symbol, Output >>
  BY DEF Emit, EmitAndInsert, Insert, decoderVars
<1>3. /\ i \in 1 .. Len(chunk) /\ Len(chunk) \in Nat /\ chunk \in Seq(Char)
      /\ p \in Seq(Char) /\ Len(p) >= 1 /\ Len(p) \in Nat /\ m \in Nat
      /\ codes \in Seq(Nat) /\ code \in Nat /\ p \in DOMAIN table
  BY <1>1, <1>2 DEF EncoderInv
<1>4. ~finished /\ taken = 0 /\ code = Chars + m /\ m + Len(p) <= Seen
  <2>1. finished => i = Len(chunk) + 1
    BY <1>1 DEF EncoderInv
  <2>2. ~finished
    BY <1>3, <2>1
  <2> QED
    BY <1>1, <2>2 DEF EncoderInv
<1>5. i < Len(chunk)
  <2>1. i = Len(chunk) => p \o c = p
    BY <1>1, <1>3, Ahead
  <2>2. i # Len(chunk)
    BY <1>2, <1>3, <2>1, Zenon
  <2> QED
    BY <1>3, <2>2
<1>6. /\ c = << chunk[i + 1] >> /\ chunk[i + 1] \in Char
      /\ Seen = i /\ Seen' = i + 1
  BY <1>1, <1>2, <1>3, <1>5, Ahead DEF Seen
<1>7. /\ entry \in Seq(Char) /\ Len(entry) = Len(p) + 1
      /\ entry = p \o << chunk[i + 1] >>
  BY <1>3, <1>6, OneMore
<1>8. /\ p' \in Seq(Char) /\ Len(p') = 1 /\ p'[1] = chunk[i + 1]
  BY <1>2, <1>6
<1> HIDE DEF entry
<1>9. /\ DOMAIN table' = DOMAIN table \cup {entry}
      /\ table'[entry] = code
      /\ \A s \in DOMAIN table : table'[s] = table[s]
  BY <1>2
<1>10. Emitted(p) \in Nat
  <2>1. table[p] \in Nat
    BY <1>1, <1>3 DEF EncoderInv, TableInv
  <2> QED
    BY <2>1, LzwAssumption DEF Emitted, LzwAssumption
<1>11. /\ codes' \in Seq(Nat) /\ Len(codes') = m + 1
       /\ codes'[m + 1] = Emitted(p)
       /\ \A j \in 1 .. m : codes'[j] = codes[j]
  BY <1>2, <1>3, <1>10
<1>12. TableInv'
  <2>1. TableInv
    BY <1>1 DEF EncoderInv
  <2>2. DOMAIN table' \subseteq Seq(Char)
    BY <1>7, <1>9, <2>1 DEF TableInv
  <2>3. ASSUME NEW s \in DOMAIN table'
        PROVE  /\ table'[s] \in 0 .. code' - 1 /\ Len(s) >= 1
               /\ Len(s) = 1 => table'[s] = s[1]
               /\ table'[s] < Chars => Len(s) = 1
    <3>1. CASE s = entry
      <4>1. code >= Chars
        BY <1>3, <1>4, LzwAssumption DEF LzwAssumption
      <4>2. table'[s] = code /\ code' = code + 1
        BY <1>2, <1>9, <3>1, Zenon
      <4>3. code \in 0 .. (code + 1) - 1 /\ Chars \in Nat /\ code \in Nat
        BY <1>3, LzwAssumption DEF LzwAssumption
      <4>4. table'[s] \in 0 .. code' - 1
        BY <4>2, <4>3, Zenon
      <4>5. ~(code < Chars)
        BY <4>1, <4>3
      <4>6. Len(s) >= 1 /\ Len(s) # 1
        <5>1. Len(p) + 1 >= 1 /\ Len(p) + 1 # 1
          BY <1>3
        <5> QED
          BY <1>7, <3>1, <5>1, Zenon
      <4> QED
        BY <4>2, <4>4, <4>5, <4>6, Zenon
    <3>2. CASE s \in DOMAIN table
      <4>1. /\ table[s] \in 0 .. code - 1 /\ Len(s) >= 1
            /\ Len(s) = 1 => table[s] = s[1]
            /\ table[s] < Chars => Len(s) = 1
        BY <2>1, <3>2 DEF TableInv
      <4>2. table'[s] = table[s] /\ code' = code + 1 /\ code \in Nat
        BY <1>2, <1>3, <1>9, <3>2
      <4> QED
        BY <4>1, <4>2
    <3> QED
      BY <1>9, <3>1, <3>2
  <2>4. \A x \in Char : << x >> \in DOMAIN table'
    BY <1>9, <2>1 DEF TableInv
  <2>5. ASSUME NEW s \in DOMAIN table', NEW t \in DOMAIN table', table'[s] = table'[t]
        PROVE  s = t
    <3>1. \A r \in DOMAIN table : table'[r] # code
      <4>1. \A r \in DOMAIN table : table[r] \in 0 .. code - 1
        BY <2>1 DEF TableInv
      <4> QED
        BY <1>3, <1>9, <4>1
    <3>2. \A r, u \in DOMAIN table : table'[r] = table'[u] => r = u
      BY <1>9, <2>1 DEF TableInv
    <3> QED
      BY <1>9, <2>5, <3>1, <3>2
  <2> QED
    BY <2>2, <2>3, <2>4, <2>5 DEF TableInv
<1>13. EncoderInv'
  <2>1. p' \in DOMAIN table'
    BY <1>1, <1>2, <1>6, <1>9 DEF EncoderInv, TableInv
  <2>2. i' \in 1 .. Len(chunk') + 1 /\ Len(p') >= 1
    BY <1>2, <1>3, <1>8
  <2>3. code' = Chars + Len(codes') /\ Len(codes') + Len(p') <= Seen'
    <3>1. m + 1 <= i
      BY <1>3, <1>4, <1>6
    <3>2. code' = Chars + (m + 1)
      BY <1>2, <1>3, <1>4, LzwAssumption DEF LzwAssumption
    <3>3. (m + 1) + 1 <= i + 1
      BY <1>3, <3>1
    <3> HIDE DEF m
    <3> QED
      BY <1>6, <1>8, <1>11, <3>2, <3>3
  <2>4. code' \in Nat
    BY <1>2, <1>3
  <2> QED
    BY <1>1, <1>2, <1>4, <1>8, <1>11, <1>12, <2>1, <2>2, <2>3, <2>4 DEF EncoderInv
<1>14. ASSUME NEW w, NEW pos, EncoderPhrases(w, pos), DecoderPhrases(w, pos),
              Len(chunk) <= LongestSafe
       PROVE  \E v, q : EncoderPhrases(v, q)' /\ DecoderPhrases(v, q)'
  <2>v. PICK v : v = [ j \in 1 .. m + 1 |-> IF j = m + 1 THEN p ELSE w[j] ]
    OBVIOUS
  <2>q. PICK q : q = [ j \in 1 .. m + 2 |-> IF j = m + 2 THEN i ELSE pos[j] ]
    OBVIOUS
  <2> DEFINE at == pos[m + 1]
  <2>1. /\ w \in [ 1 .. m -> Seq(Char) ] /\ pos \in [ 1 .. m + 1 -> Nat ] /\ pos[1] = 0
        /\ at + Len(p) = i /\ \A x \in 1 .. Len(p) : p[x] = chunk[at + x]
        /\ at \in Nat
    <3>1. /\ w \in [ 1 .. m -> Seq(Char) ] /\ pos \in [ 1 .. m + 1 -> Nat ] /\ pos[1] = 0
          /\ at + Len(p) = Seen /\ \A x \in 1 .. Len(p) : p[x] = chunk[at + x]
      BY <1>4, <1>14, Zenon DEF EncoderPhrases
    <3>2. m + 1 \in 1 .. m + 1
      BY <1>3
    <3>3. at \in Nat
      BY <3>1, <3>2
    <3>4. at + Len(p) = i
      BY <1>6, <3>1, Zenon
    <3> QED
      BY <3>1, <3>3, <3>4, Zenon
  <2>2. /\ v \in [ 1 .. m + 1 -> Seq(Char) ] /\ q \in [ 1 .. (m + 1) + 1 -> Nat ]
        /\ v[m + 1] = p /\ q[m + 2] = i /\ q[1] = 0 /\ q[m + 1] = at
        /\ \A j \in 1 .. m : v[j] = w[j] /\ q[j] = pos[j] /\ q[j + 1] = pos[j + 1]
    <3>1. i \in Nat
      BY <1>3
    <3>2. /\ v \in [ 1 .. m + 1 -> Seq(Char) ] /\ q \in [ 1 .. (m + 1) + 1 -> Nat ]
          /\ v[m + 1] = p /\ q[m + 2] = i /\ q[1] = pos[1]
          /\ \A j \in 1 .. m : v[j] = w[j]
          /\ \A j \in 1 .. m + 1 : q[j] = pos[j]
      <4>1. m \in Nat
        BY <1>3
      <4> HIDE DEF m
      <4> QED
        BY <1>3, <2>1, <2>v, <2>q, <3>1, <4>1
    <3>3. \A j \in 1 .. m : j \in 1 .. m + 1 /\ j + 1 \in 1 .. m + 1
      BY <1>3
    <3>4. m + 1 \in 1 .. m + 1
      BY <1>3
    <3> QED
      BY <2>1, <3>2, <3>3, <3>4
  <2> HIDE DEF at
  <2>3. Emitted(p) = table[p] /\ table[p] < Chars + (m + 1) - 1
    <3>1. Emitted(p) = table[p]
      BY <1>1, <1>4, <1>14, NotMasked
    <3>2. table[p] \in 0 .. code - 1
      BY <1>1, <1>3 DEF EncoderInv, TableInv
    <3> QED
      BY <1>3, <1>4, <3>1, <3>2, LzwAssumption DEF LzwAssumption
  <2>4. ASSUME NEW j \in 1 .. m + 1 PROVE Phrase(v, q, j)'
    <3>1. CASE j \in 1 .. m
      <4>1. Phrase(w, pos, j)
        BY <1>14, <3>1 DEF EncoderPhrases
      <4>2. /\ v[j] = w[j] /\ q[j] = pos[j] /\ q[j + 1] = pos[j + 1]
            /\ codes'[j] = codes[j]
        BY <1>11, <2>2, <3>1
      <4>3. /\ w[j] \in DOMAIN table /\ table[w[j]] = codes[j]
            /\ codes[j] < Chars + j - 1
            /\ pos[j + 1] = pos[j] + Len(w[j]) /\ pos[j + 1] < Len(chunk)
            /\ \A x \in 1 .. Len(w[j]) : w[j][x] = chunk[pos[j] + x]
            /\ w[j] \o << chunk[pos[j + 1] + 1] >> \in DOMAIN table
            /\ table[w[j] \o << chunk[pos[j + 1] + 1] >>] = Chars + j - 1
            /\ pos[j + 1] <= Len(chunk)
        BY <1>4, <4>1 DEF Phrase
      <4>4. /\ w[j] \in DOMAIN table' /\ table'[w[j]] = codes[j]
            /\ w[j] \o << chunk[pos[j + 1] + 1] >> \in DOMAIN table'
            /\ table'[w[j] \o << chunk[pos[j + 1] + 1] >>] = Chars + j - 1
        BY <1>9, <4>3
      <4>5. /\ v[j] \in DOMAIN table' /\ table'[v[j]] = codes'[j]
            /\ codes'[j] < Chars + j - 1
            /\ q[j + 1] = q[j] + Len(v[j]) /\ q[j + 1] <= Len(chunk') /\ q[j + 1] < Len(chunk')
            /\ \A x \in 1 .. Len(v[j]) : v[j][x] = chunk'[q[j] + x]
            /\ v[j] \o << chunk'[q[j + 1] + 1] >> \in DOMAIN table'
            /\ table'[v[j] \o << chunk'[q[j + 1] + 1] >>] = Chars + j - 1
        <5>1. chunk' = chunk
          BY <1>2
        <5> QED
          BY <4>2, <4>3, <4>4, <5>1, Zenon
      <4> QED
        BY <4>5, Zenon DEF Phrase
    <3>2. CASE j = m + 1
      <4>1. /\ v[j] = p /\ q[j] = at /\ q[j + 1] = i /\ codes'[j] = table[p]
        <5>1. j + 1 = m + 2
          BY <1>3, <3>2
        <5> QED
          BY <1>11, <2>2, <2>3, <3>2, <5>1
      <4>2. table'[p] = table[p] /\ p \in DOMAIN table'
        BY <1>3, <1>9
      <4>3. entry \in DOMAIN table' /\ table'[entry] = Chars + j - 1
        <5>1. code = Chars + j - 1
          BY <1>3, <1>4, <3>2, LzwAssumption DEF LzwAssumption
        <5> QED
          BY <1>9, <5>1
      <4>4. i <= Len(chunk) /\ i < Len(chunk) /\ i = at + Len(p)
        BY <1>2, <1>5, <2>1
      <4>5. table[p] < Chars + j - 1
        BY <2>3, <3>2
      <4>6. /\ v[j] \in DOMAIN table' /\ table'[v[j]] = codes'[j]
            /\ codes'[j] < Chars + j - 1
            /\ q[j + 1] = q[j] + Len(v[j]) /\ q[j + 1] <= Len(chunk') /\ q[j + 1] < Len(chunk')
            /\ \A x \in 1 .. Len(v[j]) : v[j][x] = chunk'[q[j] + x]
            /\ v[j] \o << chunk'[q[j + 1] + 1] >> \in DOMAIN table'
            /\ table'[v[j] \o << chunk'[q[j + 1] + 1] >>] = Chars + j - 1
        <5>1. chunk' = chunk
          BY <1>2
        <5> QED
          BY <1>7, <2>1, <4>1, <4>2, <4>3, <4>4, <4>5, <5>1, Zenon
      <4> QED
        BY <4>6, Zenon DEF Phrase
    <3> QED
      BY <1>3, <3>1, <3>2
  <2>5. EncoderPhrases(v, q)'
    <3>1. q[(m + 1) + 1] = i
      BY <1>3, <2>2
    <3>2. /\ q[Len(codes') + 1] + Len(p') = Seen'
          /\ \A x \in 1 .. Len(p') : p'[x] = chunk'[q[Len(codes') + 1] + x]
      BY <1>2, <1>6, <1>8, <1>11, <3>1
    <3>3. ~finished' /\ Len(codes') = m + 1
      BY <1>2, <1>4, <1>11, Zenon
    <3>4. /\ v \in [ 1 .. Len(codes') -> Seq(Char) ]
          /\ q \in [ 1 .. Len(codes') + 1 -> Nat ] /\ q[1] = 0
      BY <2>2, <3>3, Zenon
    <3>5. \A j \in 1 .. Len(codes') : Phrase(v, q, j)'
      BY <2>4, <3>3, Zenon
    <3> QED
      BY <3>2, <3>3, <3>4, <3>5, Zenon DEF EncoderPhrases
  <2>6. DecoderPhrases(v, q)'
    <3>1. q[1] = pos[1] /\ taken = 0 /\ taken' = 0 /\ taken + 1 = 1
      BY <1>2, <1>4, <2>1, <2>2
    <3>2. /\ Output \in Seq(Char) /\ Len(Output) = q[1]
          /\ \A k \in 1 .. Len(Output) : Output[k] = chunk[k]
          /\ Code_table \in Seq(Seq(Char)) /\ Len(Code_table) = Chars
      BY <1>14, <3>1 DEF DecoderPhrases
    <3>3. \A n \in 1 .. Len(Code_table) :
            Code_table[n] \in DOMAIN table' /\ table'[Code_table[n]] = n - 1
      <4>1. \A n \in 1 .. Len(Code_table) :
              Code_table[n] \in DOMAIN table /\ table[Code_table[n]] = n - 1
        BY <1>14 DEF DecoderPhrases
      <4> QED
        BY <1>9, <4>1
    <3>4. taken' \in 0 .. Len(codes')
      BY <1>3, <1>11, <3>1
    <3>5. /\ Output' = Output /\ Code_table' = Code_table /\ chunk' = chunk
          /\ ~(taken' > 0) /\ taken' + 1 = 1
      BY <1>2, <3>1
    <3> QED
      BY <3>1, <3>2, <3>3, <3>4, <3>5, Zenon DEF DecoderPhrases
  <2> QED
    BY <2>5, <2>6
<1>15. Phrases'
  BY <1>1, <1>2, <1>14 DEF Phrases, LongestSafe
<1> QED
  BY <1>2, <1>4, <1>13, <1>15 DEF LzwInv

\* The code for what is left makes the chunk complete.
LEMMA EmitLastInv == LzwInv /\ EmitLast => LzwInv'
<1> SUFFICES ASSUME LzwInv, EmitLast PROVE LzwInv'
  OBVIOUS
<1> DEFINE m == Len(codes)
<1>1. EncoderInv /\ (~finished => taken = 0) /\ Phrases
  BY DEF LzwInv
<1>2. /\ i > Len(chunk) /\ ~finished /\ finished' = TRUE
      /\ codes' = Append(codes, Emitted(p))
      /\ UNCHANGED << chunk, i, p, table, code, taken, Code_table, Old, Symbol, Output >>
  BY DEF EmitLast, decoderVars
<1>3. /\ i \in 1 .. Len(chunk) + 1 /\ Len(chunk) \in Nat /\ chunk \in Seq(Char)
      /\ p \in Seq(Char) /\ Len(p) >= 1 /\ Len(p) \in Nat /\ m \in Nat
      /\ codes \in Seq(Nat) /\ code \in Nat /\ p \in DOMAIN table
  BY <1>1 DEF EncoderInv
<1>4. taken = 0 /\ code = Chars + m /\ m + Len(p) <= Seen
  BY <1>1, <1>2 DEF EncoderInv
<1>5. i = Len(chunk) + 1 /\ Seen = Len(chunk)
  BY <1>2, <1>3 DEF Seen
<1>6. Emitted(p) \in Nat
  <2>1. table[p] \in Nat
    BY <1>1, <1>3 DEF EncoderInv, TableInv
  <2> QED
    BY <2>1, LzwAssumption DEF Emitted, LzwAssumption
<1>7. /\ codes' \in Seq(Nat) /\ Len(codes') = m + 1
      /\ codes'[m + 1] = Emitted(p)
      /\ \A j \in 1 .. m : codes'[j] = codes[j]
  BY <1>2, <1>3, <1>6
<1>8. EncoderInv'
  <2>1. m + 1 \in 1 .. Len(chunk)
    BY <1>3, <1>4, <1>5
  <2>2. Len(codes') \in 1 .. Len(chunk')
    BY <1>2, <1>7, <2>1, Zenon
  <2>3. TableInv'
    BY <1>1, <1>2 DEF EncoderInv, TableInv
  <2>4. finished' /\ finished' \in BOOLEAN
    BY <1>2, Zenon
  <2>5. /\ i' \in 1 .. Len(chunk') + 1 /\ i' = Len(chunk') + 1 /\ p' \in DOMAIN table'
        /\ p' \in Seq(Char) /\ Len(p') >= 1 /\ chunk' \in Seq(Char) /\ Len(chunk') >= 1
        /\ code' \in Nat
    <3>1. Len(chunk) >= 1
      BY <1>1 DEF EncoderInv
    <3> QED
      BY <1>2, <1>3, <1>5, <3>1
  <2> QED
    BY <1>7, <2>2, <2>3, <2>4, <2>5, Zenon DEF EncoderInv
<1>9. ASSUME NEW w, NEW pos, EncoderPhrases(w, pos), DecoderPhrases(w, pos),
              Len(chunk) <= LongestSafe
      PROVE  \E v, q : EncoderPhrases(v, q)' /\ DecoderPhrases(v, q)'
  <2>v. PICK v : v = [ j \in 1 .. m + 1 |-> IF j = m + 1 THEN p ELSE w[j] ]
    OBVIOUS
  <2> DEFINE n == Len(chunk)
             at == pos[m + 1]
  <2>q. PICK q : q = [ j \in 1 .. m + 2 |-> IF j = m + 2 THEN n ELSE pos[j] ]
    OBVIOUS
  <2>1. /\ w \in [ 1 .. m -> Seq(Char) ] /\ pos \in [ 1 .. m + 1 -> Nat ] /\ pos[1] = 0
        /\ at + Len(p) = Len(chunk) /\ \A x \in 1 .. Len(p) : p[x] = chunk[at + x]
        /\ at \in Nat
    <3>1. /\ w \in [ 1 .. m -> Seq(Char) ] /\ pos \in [ 1 .. m + 1 -> Nat ] /\ pos[1] = 0
          /\ at + Len(p) = Seen /\ \A x \in 1 .. Len(p) : p[x] = chunk[at + x]
      BY <1>2, <1>9, Zenon DEF EncoderPhrases
    <3>2. m + 1 \in 1 .. m + 1
      BY <1>3
    <3>3. at \in Nat
      BY <3>1, <3>2
    <3>4. at + Len(p) = Len(chunk)
      BY <1>5, <3>1, Zenon
    <3> QED
      BY <3>1, <3>3, <3>4, Zenon
  <2>2. /\ v \in [ 1 .. m + 1 -> Seq(Char) ] /\ q \in [ 1 .. (m + 1) + 1 -> Nat ]
        /\ v[m + 1] = p /\ q[m + 2] = Len(chunk) /\ q[1] = 0 /\ q[m + 1] = at
        /\ \A j \in 1 .. m : v[j] = w[j] /\ q[j] = pos[j] /\ q[j + 1] = pos[j + 1]
    <3>2. /\ v \in [ 1 .. m + 1 -> Seq(Char) ] /\ q \in [ 1 .. (m + 1) + 1 -> Nat ]
          /\ v[m + 1] = p /\ q[m + 2] = n /\ q[1] = pos[1]
          /\ \A j \in 1 .. m : v[j] = w[j]
          /\ \A j \in 1 .. m + 1 : q[j] = pos[j]
      <4>1. m \in Nat /\ n \in Nat /\ p \in Seq(Char)
            /\ w \in [ 1 .. m -> Seq(Char) ] /\ pos \in [ 1 .. m + 1 -> Nat ]
        BY <1>3, <2>1
      <4> HIDE DEF m, n
      <4> QED
        BY <2>v, <2>q, <4>1
    <3>3. \A j \in 1 .. m : j \in 1 .. m + 1 /\ j + 1 \in 1 .. m + 1
      BY <1>3
    <3>4. m + 1 \in 1 .. m + 1
      BY <1>3
    <3> QED
      BY <2>1, <3>2, <3>3, <3>4
  <2> HIDE DEF at
  <2>3. Emitted(p) = table[p] /\ table[p] < Chars + (m + 1) - 1
    <3>1. Emitted(p) = table[p]
      BY <1>1, <1>2, <1>9, NotMasked
    <3>2. table[p] \in 0 .. code - 1
      BY <1>1, <1>3 DEF EncoderInv, TableInv
    <3> QED
      BY <1>3, <1>4, <3>1, <3>2, LzwAssumption DEF LzwAssumption
  <2>4. ASSUME NEW j \in 1 .. m + 1 PROVE Phrase(v, q, j)'
    <3>1. CASE j \in 1 .. m
      <4>1. Phrase(w, pos, j)
        BY <1>9, <3>1 DEF EncoderPhrases
      <4>2. /\ v[j] = w[j] /\ q[j] = pos[j] /\ q[j + 1] = pos[j + 1]
            /\ codes'[j] = codes[j]
        BY <1>7, <2>2, <3>1
      <4>3. /\ v[j] \in DOMAIN table' /\ table'[v[j]] = codes'[j]
            /\ codes'[j] < Chars + j - 1
            /\ q[j + 1] = q[j] + Len(v[j]) /\ q[j + 1] <= Len(chunk') /\ q[j + 1] < Len(chunk')
            /\ \A x \in 1 .. Len(v[j]) : v[j][x] = chunk'[q[j] + x]
            /\ v[j] \o << chunk'[q[j + 1] + 1] >> \in DOMAIN table'
            /\ table'[v[j] \o << chunk'[q[j + 1] + 1] >>] = Chars + j - 1
        <5>1. chunk' = chunk /\ table' = table
          BY <1>2
        <5> QED
          BY <1>2, <4>1, <4>2, <5>1, Zenon DEF Phrase
      <4> QED
        BY <4>3, Zenon DEF Phrase
    <3>2. CASE j = m + 1
      <4>1. /\ v[j] = p /\ q[j] = at /\ q[j + 1] = Len(chunk) /\ codes'[j] = table[p]
        <5>1. j + 1 = m + 2
          BY <1>3, <3>2
        <5> QED
          BY <1>7, <2>2, <2>3, <3>2, <5>1
      <4>2. /\ Len(chunk) <= Len(chunk) /\ Len(chunk) = at + Len(p)
            /\ table[p] < Chars + j - 1
        BY <1>3, <2>1, <2>3, <3>2
      <4>3. /\ v[j] \in DOMAIN table' /\ table'[v[j]] = codes'[j]
            /\ codes'[j] < Chars + j - 1
            /\ q[j + 1] = q[j] + Len(v[j]) /\ q[j + 1] <= Len(chunk')
            /\ \A x \in 1 .. Len(v[j]) : v[j][x] = chunk'[q[j] + x]
        <5>1. chunk' = chunk /\ table' = table
          BY <1>2
        <5> QED
          BY <1>3, <2>1, <4>1, <4>2, <5>1, Zenon
      <4>4. ~(j < Len(codes')) /\ finished'
        BY <1>2, <1>3, <1>7, <3>2
      <4> QED
        BY <4>3, <4>4, Zenon DEF Phrase
    <3> QED
      BY <1>3, <3>1, <3>2
  <2>5. EncoderPhrases(v, q)'
    <3>1. q[(m + 1) + 1] = Len(chunk)
      BY <1>3, <2>2
    <3>2. q[Len(codes') + 1] = Len(chunk')
      BY <1>2, <1>7, <3>1
    <3>3. finished' /\ Len(codes') = m + 1
      BY <1>2, <1>7, Zenon
    <3>4. /\ v \in [ 1 .. Len(codes') -> Seq(Char) ]
          /\ q \in [ 1 .. Len(codes') + 1 -> Nat ] /\ q[1] = 0
      BY <2>2, <3>3, Zenon
    <3>5. \A j \in 1 .. Len(codes') : Phrase(v, q, j)'
      BY <2>4, <3>3, Zenon
    <3> QED
      BY <3>2, <3>3, <3>4, <3>5, Zenon DEF EncoderPhrases
  <2>6. DecoderPhrases(v, q)'
    <3>1. q[1] = pos[1] /\ taken = 0 /\ taken' = 0 /\ taken + 1 = 1
      BY <1>2, <1>4, <2>1, <2>2
    <3>2. /\ Output \in Seq(Char) /\ Len(Output) = q[1]
          /\ \A k \in 1 .. Len(Output) : Output[k] = chunk[k]
          /\ Code_table \in Seq(Seq(Char)) /\ Len(Code_table) = Chars
          /\ \A x \in 1 .. Len(Code_table) :
               Code_table[x] \in DOMAIN table /\ table[Code_table[x]] = x - 1
      BY <1>9, <3>1 DEF DecoderPhrases
    <3>3. taken' \in 0 .. Len(codes')
      BY <1>3, <1>7, <3>1
    <3>4. /\ Output' = Output /\ Code_table' = Code_table /\ chunk' = chunk /\ table' = table
          /\ ~(taken' > 0) /\ taken' + 1 = 1
      BY <1>2, <3>1
    <3> QED
      BY <3>1, <3>2, <3>3, <3>4, Zenon DEF DecoderPhrases
  <2> QED
    BY <2>5, <2>6
<1>10. Phrases'
  BY <1>1, <1>2, <1>9 DEF Phrases, LongestSafe
<1>11. ~finished' => taken' = 0
  BY <1>2, Zenon
<1> QED
  BY <1>8, <1>10, <1>11, Zenon DEF LzwInv

-----------------------------------------------------------------------------
(* The decoder.                                                            *)

\* The strings of the codes depend on the encoder's state only.
LEMMA PhrasesStay ==
  ASSUME UNCHANGED << chunk, i, p, table, codes, finished >>,
         NEW w, NEW pos, EncoderPhrases(w, pos)
  PROVE  EncoderPhrases(w, pos)'
<1>1. \A j \in 1 .. Len(codes) : Phrase(w, pos, j)'
  BY DEF EncoderPhrases, Phrase
<1>2. Seen' = Seen /\ codes' = codes /\ finished' = finished /\ p' = p /\ chunk' = chunk
  BY DEF Seen
<1>3. /\ w \in [ 1 .. Len(codes') -> Seq(Char) ]
      /\ pos \in [ 1 .. Len(codes') + 1 -> Nat ] /\ pos[1] = 0
  BY <1>2, Zenon DEF EncoderPhrases
<1>4. \A j \in 1 .. Len(codes') : Phrase(w, pos, j)'
  BY <1>1, <1>2, Zenon
<1>5. /\ ~finished' => /\ pos[Len(codes') + 1] + Len(p') = Seen'
                       /\ \A x \in 1 .. Len(p') : p'[x] = chunk'[pos[Len(codes') + 1] + x]
      /\ finished' => pos[Len(codes') + 1] = Len(chunk')
  BY <1>2 DEF EncoderPhrases
<1> QED
  BY <1>3, <1>4, <1>5, Zenon DEF EncoderPhrases

\* No step of the decoder changes what the codes stand for.
LEMMA DecoderKeeps ==
  ASSUME LzwInv, UNCHANGED << chunk, encoderVars >>, finished,
         Len(chunk) <= LongestSafe =>
           \A w, pos : EncoderPhrases(w, pos) /\ DecoderPhrases(w, pos) => DecoderPhrases(w, pos)'
  PROVE  LzwInv'
<1>1. EncoderInv /\ Phrases
  BY DEF LzwInv
<1>2. UNCHANGED << chunk, i, p, table, code, codes, finished >>
  BY DEF encoderVars
<1>3. EncoderInv'
  BY <1>1, <1>2 DEF EncoderInv, TableInv, Seen
<1>4. ASSUME NEW w, NEW pos, EncoderPhrases(w, pos) PROVE EncoderPhrases(w, pos)'
  BY <1>2, <1>4, PhrasesStay
<1>5. Phrases'
  BY <1>1, <1>2, <1>4 DEF Phrases, LongestSafe
<1>6. finished'
  BY <1>2
<1> QED
  BY <1>3, <1>5, <1>6, Zenon DEF LzwInv

\* The first code is a character, because no string of two had a code then.
LEMMA DecodeFirstInv == LzwInv /\ DecodeFirst => LzwInv'
<1> SUFFICES ASSUME LzwInv, DecodeFirst PROVE LzwInv'
  OBVIOUS
<1>1. /\ finished /\ taken = 0 /\ taken' = 1 /\ Old' = codes[1]
      /\ Symbol' = << codes[1] % Chars >> /\ Output' = << codes[1] % Chars >>
      /\ UNCHANGED << chunk, encoderVars, Code_table >>
  BY DEF DecodeFirst, TakeFirst
<1>2. UNCHANGED << chunk, table, codes >>
  BY <1>1 DEF encoderVars
<1>3. EncoderInv
  BY DEF LzwInv
<1>4. Len(codes) \in Nat /\ Len(codes) >= 1 /\ codes \in Seq(Nat) /\ TableInv /\ Len(chunk) \in Nat
  BY <1>1, <1>3 DEF EncoderInv
<1>5. ASSUME NEW w, NEW pos, EncoderPhrases(w, pos), DecoderPhrases(w, pos)
      PROVE  DecoderPhrases(w, pos)'
  <2>1. 1 \in 1 .. Len(codes)
    BY <1>4
  <2>2. Phrase(w, pos, 1) /\ pos[1] = 0 /\ w[1] \in Seq(Char)
    BY <1>5, <2>1 DEF EncoderPhrases
  <2>3. /\ w[1] \in DOMAIN table /\ table[w[1]] = codes[1] /\ codes[1] < Chars + 1 - 1
        /\ pos[1 + 1] = pos[1] + Len(w[1])
        /\ \A x \in 1 .. Len(w[1]) : w[1][x] = chunk[pos[1] + x]
    BY <2>2, Zenon DEF Phrase
  <2>4. codes[1] < Chars /\ codes[1] \in Nat /\ codes[1] % Chars = codes[1]
    <3> DEFINE x == codes[1]
    <3>1. x \in Nat
      BY <1>4, <2>1
    <3>2. x < Chars + 1 - 1
      BY <2>3, Zenon
    <3> HIDE DEF x
    <3>3. x < Chars /\ x % Chars = x
      BY <3>1, <3>2, LzwAssumption DEF LzwAssumption
    <3> QED
      BY <3>1, <3>3, Zenon DEF x
  <2>5. Len(w[1]) = 1 /\ table[w[1]] = w[1][1]
    BY <1>4, <2>3, <2>4, Zenon DEF TableInv
  <2>6. w[1][1] = codes[1] /\ w[1][1] = chunk[1] /\ pos[2] = 1 /\ codes[1] \in Char
    <3>1. w[1][1] = codes[1]
      BY <2>3, <2>5, Zenon
    <3>2. pos[1 + 1] = 0 + 1
      BY <2>2, <2>3, <2>5, Zenon
    <3>3. 1 \in 1 .. 1
      OBVIOUS
    <3>4. w[1][1] = chunk[0 + 1]
      BY <2>2, <2>3, <2>5, <3>3, Zenon
    <3>5. codes[1] \in Char
      BY <2>4, LzwAssumption DEF Char, LzwAssumption
    <3> QED
      BY <3>1, <3>2, <3>4, <3>5
  <2>7. /\ Output' \in Seq(Char) /\ Len(Output') = 1 /\ Output'[1] = chunk[1]
        /\ Symbol' = << w[1][1] >> /\ Old' = codes[1]
    BY <1>1, <2>4, <2>6
  <2>8. /\ Code_table \in Seq(Seq(Char)) /\ Len(Code_table) = Chars
        /\ \A n \in 1 .. Len(Code_table) :
             Code_table[n] \in DOMAIN table /\ table[Code_table[n]] = n - 1
    BY <1>1, <1>5 DEF DecoderPhrases
  <2>9. Chars + 1 - 1 = Chars
    BY LzwAssumption DEF LzwAssumption
  <2> QED
    BY <1>1, <1>2, <1>4, <2>6, <2>7, <2>8, <2>9 DEF DecoderPhrases
<1> QED
  BY <1>1, <1>5, DecoderKeeps

\* The string the decoder looks up or makes for the next code is the one that
\* the encoder had.
LEMMA RightSymbols ==
  ASSUME EncoderInv, finished, taken \in 1 .. Len(codes) - 1,
         NEW w, NEW pos, EncoderPhrases(w, pos), DecoderPhrases(w, pos)
  PROVE  /\ Symbols(codes[taken + 1]) = w[taken + 1]
         /\ Code_table[Old + 1] = w[taken]
<1> DEFINE t == taken
<1>1. /\ t \in Nat /\ t >= 1 /\ t \in 1 .. Len(codes) /\ t + 1 \in 1 .. Len(codes)
      /\ t < Len(codes) /\ t # 0 /\ t > 0 /\ codes \in Seq(Nat) /\ TableInv
      /\ chunk \in Seq(Char) /\ Len(chunk) \in Nat /\ Chars \in Nat \ {0}
  BY LzwAssumption DEF EncoderInv, LzwAssumption
<1>2. /\ Phrase(w, pos, t) /\ Phrase(w, pos, t + 1)
      /\ w[t] \in Seq(Char) /\ w[t + 1] \in Seq(Char)
      /\ pos[t + 1] \in Nat
  BY <1>1 DEF EncoderPhrases
<1>3. /\ Len(Code_table) = Chars + t - 1
      /\ \A n \in 1 .. Len(Code_table) :
           Code_table[n] \in DOMAIN table /\ table[Code_table[n]] = n - 1
      /\ Old = codes[t] /\ Symbol = << w[t][1] >>
  BY <1>1 DEF DecoderPhrases
<1> HIDE DEF t
<1>4. /\ w[t] \in DOMAIN table /\ table[w[t]] = codes[t] /\ codes[t] < Chars + t - 1
      /\ w[t] \o << chunk[pos[t + 1] + 1] >> \in DOMAIN table
      /\ table[w[t] \o << chunk[pos[t + 1] + 1] >>] = Chars + t - 1
      /\ pos[t + 1] < Len(chunk)
  BY <1>1, <1>2, Zenon DEF Phrase
<1>5. /\ w[t + 1] \in DOMAIN table /\ table[w[t + 1]] = codes[t + 1]
      /\ codes[t + 1] < Chars + (t + 1) - 1
      /\ \A x \in 1 .. Len(w[t + 1]) : w[t + 1][x] = chunk[pos[t + 1] + x]
  BY <1>2, Zenon DEF Phrase
<1>6. /\ codes[t] \in Nat /\ codes[t + 1] \in Nat
      /\ Len(w[t]) >= 1 /\ Len(w[t + 1]) >= 1
  BY <1>1, <1>4, <1>5 DEF TableInv
<1>7. \A r, u \in DOMAIN table : table[r] = table[u] => r = u
  BY <1>1 DEF TableInv
<1> DEFINE old == codes[t]
           new == codes[t + 1]
           entries == Len(Code_table)
<1>n. /\ entries = Chars + t - 1 /\ t \in Nat /\ t >= 1 /\ Chars \in Nat \ {0}
      /\ old \in Nat /\ old < Chars + t - 1 /\ new \in Nat /\ new < Chars + (t + 1) - 1
  BY <1>1, <1>3, <1>4, <1>5, <1>6, Zenon
<1>8. Code_table[codes[t] + 1] = w[t]
  <2>1. codes[t] + 1 \in 1 .. Len(Code_table) /\ (codes[t] + 1) - 1 = codes[t]
    <3> HIDE DEF old, new, entries
    <3>1. old + 1 \in 1 .. entries /\ (old + 1) - 1 = old
      BY <1>n
    <3> QED
      BY <3>1, Zenon DEF old, entries
  <2> QED
    BY <1>3, <1>4, <1>7, <2>1, Zenon
<1>9. CASE codes[t + 1] < Chars + t - 1
  <2>1. /\ codes[t + 1] + 1 \in 1 .. Len(Code_table) /\ (codes[t + 1] + 1) - 1 = codes[t + 1]
        /\ ~(codes[t + 1] >= Len(Code_table))
    <3>0. new < Chars + t - 1
      BY <1>9
    <3> HIDE DEF old, new, entries
    <3>1. new + 1 \in 1 .. entries /\ (new + 1) - 1 = new /\ ~(new >= entries)
      BY <1>n, <3>0
    <3> QED
      BY <3>1, Zenon DEF new, entries
  <2>2. Code_table[codes[t + 1] + 1] = w[t + 1]
    <3>1. /\ Code_table[codes[t + 1] + 1] \in DOMAIN table
          /\ table[Code_table[codes[t + 1] + 1]] = codes[t + 1]
      BY <1>3, <2>1
    <3> QED
      BY <1>5, <1>7, <3>1, Zenon
  <2> QED
    BY <1>3, <1>8, <2>1, <2>2, Zenon DEF Symbols, t
<1>10. CASE codes[t + 1] >= Chars + t - 1
  <2>1. codes[t + 1] = Chars + t - 1 /\ codes[t + 1] >= Len(Code_table)
    <3>0. new >= Chars + t - 1
      BY <1>10
    <3> HIDE DEF old, new, entries
    <3>1. new = Chars + t - 1 /\ new >= entries
      BY <1>n, <3>0
    <3> QED
      BY <3>1, Zenon DEF new, entries
  <2>2. w[t + 1] = w[t] \o << chunk[pos[t + 1] + 1] >>
    BY <1>4, <1>5, <1>7, <2>1, Zenon
  <2>3. w[t + 1][1] = w[t][1] /\ w[t + 1][1] = chunk[pos[t + 1] + 1]
    <3>1. chunk[pos[t + 1] + 1] \in Char
      BY <1>1, <1>2, <1>4
    <3>2. w[t + 1][1] = w[t][1]
      BY <1>2, <1>6, <2>2, <3>1, OneMore
    <3>3. 1 \in 1 .. Len(w[t + 1])
      BY <1>2, <1>6
    <3> QED
      BY <1>5, <3>2, <3>3
  <2>4. w[t + 1] = w[t] \o Symbol
    BY <1>3, <2>2, <2>3, Zenon
  <2> QED
    BY <1>3, <1>8, <2>1, <2>4, Zenon DEF Symbols, t
<1> QED
  BY <1>1, <1>6, <1>9, <1>10

\* The decoder writes one more string and enters what the encoder entered
\* after the code before.
LEMMA DecodeNextInv == LzwInv /\ DecodeNext => LzwInv'
<1> SUFFICES ASSUME LzwInv, DecodeNext PROVE LzwInv'
  OBVIOUS
<1> DEFINE t == taken
           New == codes[t + 1]
           first == Symbols(New)[1]
<1>1. /\ finished /\ t \in 1 .. Len(codes) - 1
      /\ Output' = Output \o Symbols(New)
      /\ Symbol' = << first >>
      /\ Code_table' = Append(Code_table, Code_table[Old + 1] \o << first >>)
      /\ Old' = New /\ taken' = t + 1
      /\ UNCHANGED << chunk, encoderVars >>
  BY DEF DecodeNext, TakeNext, TakeWith
<1>2. UNCHANGED << chunk, table, codes >>
  BY <1>1 DEF encoderVars
<1>3. EncoderInv
  BY DEF LzwInv
<1>4. /\ t \in Nat /\ t >= 1 /\ t \in 1 .. Len(codes) /\ t + 1 \in 1 .. Len(codes)
      /\ t < Len(codes) /\ codes \in Seq(Nat) /\ Len(codes) \in Nat /\ Chars \in Nat
      /\ chunk \in Seq(Char) /\ Len(chunk) \in Nat
  BY <1>1, <1>3, LzwAssumption DEF EncoderInv, LzwAssumption
<1>5. ASSUME NEW w, NEW pos, EncoderPhrases(w, pos), DecoderPhrases(w, pos)
      PROVE  DecoderPhrases(w, pos)'
  <2>1. Symbols(New) = w[t + 1] /\ Code_table[Old + 1] = w[t]
    BY <1>1, <1>3, <1>5, RightSymbols
  <2>2. first = w[t + 1][1]
    BY <2>1
  <2> HIDE DEF New, first, t
  <2>3. /\ Phrase(w, pos, t) /\ Phrase(w, pos, t + 1)
        /\ w[t] \in Seq(Char) /\ w[t + 1] \in Seq(Char)
        /\ pos[t + 1] \in Nat
    <3>1. /\ w \in [ 1 .. Len(codes) -> Seq(Char) ] /\ pos \in [ 1 .. Len(codes) + 1 -> Nat ]
          /\ \A j \in 1 .. Len(codes) : Phrase(w, pos, j)
      BY <1>5, Zenon DEF EncoderPhrases
    <3>2. t \in 1 .. Len(codes) /\ t + 1 \in 1 .. Len(codes) /\ t + 1 \in 1 .. Len(codes) + 1
      BY <1>4
    <3> HIDE DEF Phrase
    <3>3. Phrase(w, pos, t) /\ Phrase(w, pos, t + 1)
      BY <3>1, <3>2, Zenon
    <3>4. w[t] \in Seq(Char) /\ w[t + 1] \in Seq(Char) /\ pos[t + 1] \in Nat
      BY <3>1, <3>2
    <3> QED
      BY <3>3, <3>4
  <2>4. /\ w[t] \o << chunk[pos[t + 1] + 1] >> \in DOMAIN table
        /\ table[w[t] \o << chunk[pos[t + 1] + 1] >>] = Chars + t - 1
    BY <1>4, <2>3, Zenon DEF Phrase
  <2>5. /\ pos[(t + 1) + 1] = pos[t + 1] + Len(w[t + 1])
        /\ \A x \in 1 .. Len(w[t + 1]) : w[t + 1][x] = chunk[pos[t + 1] + x]
        /\ w[t + 1] \in DOMAIN table
    BY <2>3, Zenon DEF Phrase
  <2>6. Len(w[t + 1]) >= 1 /\ first \in Char /\ first = chunk[pos[t + 1] + 1]
    <3>1. Len(w[t + 1]) >= 1
      BY <1>3, <2>5 DEF EncoderInv, TableInv
    <3>2. 1 \in 1 .. Len(w[t + 1])
      BY <2>3, <3>1
    <3> QED
      BY <2>2, <2>3, <2>5, <3>1, <3>2
  <2>7. /\ Code_table \in Seq(Seq(Char)) /\ Len(Code_table) = Chars + t - 1
        /\ \A n \in 1 .. Len(Code_table) :
             Code_table[n] \in DOMAIN table /\ table[Code_table[n]] = n - 1
        /\ Output \in Seq(Char) /\ Len(Output) = pos[t + 1]
        /\ \A k \in 1 .. Len(Output) : Output[k] = chunk[k]
    <3>1. taken # 0
      BY <1>4 DEF t
    <3> QED
      BY <1>5, <3>1, Zenon DEF DecoderPhrases, t
  <2>8. /\ Output' \in Seq(Char) /\ Len(Output') = pos[(t + 1) + 1]
        /\ \A k \in 1 .. Len(Output') : Output'[k] = chunk[k]
    <3>1. Output' = Output \o w[t + 1]
      BY <1>1, <2>1, Zenon
    <3>2. /\ Output' \in Seq(Char) /\ Len(Output') = Len(Output) + Len(w[t + 1])
          /\ \A k \in 1 .. Len(Output) : Output'[k] = Output[k]
          /\ \A k \in 1 .. Len(w[t + 1]) : Output'[Len(Output) + k] = w[t + 1][k]
      <4>1. /\ Output \o w[t + 1] \in Seq(Char)
            /\ Len(Output \o w[t + 1]) = Len(Output) + Len(w[t + 1])
            /\ \A k \in 1 .. Len(Output) : (Output \o w[t + 1])[k] = Output[k]
            /\ \A k \in 1 .. Len(w[t + 1]) : (Output \o w[t + 1])[Len(Output) + k] = w[t + 1][k]
        <5> DEFINE s == Output
                   u == w[t + 1]
        <5>1. s \in Seq(Char) /\ u \in Seq(Char)
          BY <2>3, <2>7, Zenon
        <5> HIDE DEF s, u
        <5>2. /\ s \o u \in Seq(Char) /\ Len(s \o u) = Len(s) + Len(u)
              /\ \A k \in 1 .. Len(s) : (s \o u)[k] = s[k]
              /\ \A k \in 1 .. Len(u) : (s \o u)[Len(s) + k] = u[k]
          BY <5>1, Joined
        <5> QED
          BY <5>2, Zenon DEF s, u
      <4> QED
        BY <3>1, <4>1, Zenon
    <3>3. ASSUME NEW k \in 1 .. Len(Output') PROVE Output'[k] = chunk[k]
      <4>1. CASE k <= Len(Output)
        BY <2>7, <3>2, <4>1
      <4>2. CASE k > Len(Output)
        <5> DEFINE x == k - Len(Output)
        <5>1. x \in 1 .. Len(w[t + 1]) /\ Len(Output) + x = k
          BY <2>3, <2>7, <3>2, <4>2
        <5> HIDE DEF x
        <5> QED
          BY <2>5, <2>7, <3>2, <5>1
      <4> QED
        BY <2>7, <4>1, <4>2
    <3> QED
      BY <2>5, <2>7, <3>2, <3>3
  <2>9. /\ Code_table' \in Seq(Seq(Char)) /\ Len(Code_table') = Chars + (t + 1) - 1
        /\ \A n \in 1 .. Len(Code_table') :
             Code_table'[n] \in DOMAIN table /\ table[Code_table'[n]] = n - 1
    <3> DEFINE entry == w[t] \o << first >>
    <3>1. Code_table' = Append(Code_table, entry) /\ entry \in Seq(Char)
      BY <1>1, <2>1, <2>3, <2>6, OneMore
    <3>2. entry \in DOMAIN table /\ table[entry] = Chars + t - 1
      BY <2>4, <2>6, Zenon
    <3> HIDE DEF entry
    <3>3. /\ Code_table' \in Seq(Seq(Char)) /\ Len(Code_table') = Chars + t
          /\ \A n \in 1 .. Len(Code_table) : Code_table'[n] = Code_table[n]
          /\ Code_table'[Chars + t] = entry
      BY <1>4, <2>7, <3>1
    <3>4. ASSUME NEW n \in 1 .. Len(Code_table')
          PROVE  Code_table'[n] \in DOMAIN table /\ table[Code_table'[n]] = n - 1
      <4>1. CASE n <= Len(Code_table)
        BY <2>7, <3>3, <4>1
      <4>2. CASE n > Len(Code_table)
        <5>1. n = Chars + t
          BY <1>4, <2>7, <3>3, <4>2
        <5>2. Code_table'[n] = entry /\ n - 1 = Chars + t - 1
          BY <1>4, <3>3, <5>1
        <5> QED
          BY <3>2, <5>2, Zenon
      <4> QED
        BY <2>7, <4>1, <4>2
    <3> QED
      BY <1>4, <3>3, <3>4
  <2>10. /\ taken' \in 0 .. Len(codes') /\ taken' # 0 /\ taken' = t + 1
         /\ Old' = codes'[taken'] /\ Symbol' = << w[taken'][1] >>
         /\ chunk' = chunk /\ table' = table
    <3>1. taken' = t + 1 /\ t + 1 # 0 /\ t + 1 \in 0 .. Len(codes)
      BY <1>1, <1>4
    <3>2. Old' = codes[t + 1] /\ Symbol' = << w[t + 1][1] >>
      BY <1>1, <2>2, Zenon DEF New
    <3> QED
      BY <1>2, <3>1, <3>2
  <2> QED
    BY <2>8, <2>9, <2>10, Zenon DEF DecoderPhrases
<1> QED
  BY <1>1, <1>5, DecoderKeeps

-----------------------------------------------------------------------------

\* No step breaks the invariant.
LEMMA InvStep == LzwInv /\ [LzwNext]_lzwVars => LzwInv'
<1> SUFFICES ASSUME LzwInv, [LzwNext]_lzwVars PROVE LzwInv'
  OBVIOUS
<1>1. CASE Extend
  BY <1>1, ExtendInv
<1>2. CASE Emit
  BY <1>2, EmitInv
<1>3. CASE EmitLast
  BY <1>3, EmitLastInv
<1>4. CASE DecodeFirst
  BY <1>4, DecodeFirstInv
<1>5. CASE DecodeNext
  BY <1>5, DecodeNextInv
<1>6. CASE UNCHANGED lzwVars
  <2>1. UNCHANGED << chunk, i, p, table, code, codes, finished, taken, Code_table, Old, Symbol, Output >>
    BY <1>6 DEF lzwVars, encoderVars, decoderVars
  <2>2. EncoderInv'
    BY <2>1 DEF LzwInv, EncoderInv, TableInv, Seen
  <2>3. ASSUME NEW w, NEW pos, EncoderPhrases(w, pos), DecoderPhrases(w, pos)
        PROVE  EncoderPhrases(w, pos)' /\ DecoderPhrases(w, pos)'
    <3>1. EncoderPhrases(w, pos)'
      BY <2>1, <2>3, PhrasesStay
    <3>2. DecoderPhrases(w, pos)'
      BY <2>1, <2>3 DEF DecoderPhrases
    <3> QED
      BY <3>1, <3>2
  <2>4. Phrases'
    BY <2>1, <2>3 DEF LzwInv, Phrases, LongestSafe
  <2> QED
    BY <2>1, <2>2, <2>4, Zenon DEF LzwInv
<1> QED
  BY <1>1, <1>2, <1>3, <1>4, <1>5, <1>6 DEF LzwNext

\* LzwInv holds in every reachable state.
THEOREM LzwInvariant == LzwSpec => []LzwInv
BY InvInit, InvStep, PTL DEF LzwSpec

\* LZW emits no more codes than the chunk has characters, so that the buffer
\* that encode() gives it is long enough for them.
THEOREM FewCodes == LzwSpec => []CodesWithinLength
<1>1. ASSUME EncoderInv PROVE CodesWithinLength
  <2>1. /\ Len(codes) \in Nat /\ Len(p) \in Nat /\ Len(p) >= 1 /\ Len(chunk) \in Nat
        /\ i \in 1 .. Len(chunk) + 1
        /\ ~finished => Len(codes) + Len(p) <= Seen
        /\ finished => Len(codes) \in 1 .. Len(chunk)
    BY <1>1 DEF EncoderInv
  <2>2. Seen <= Len(chunk) /\ Seen \in Nat
    BY <2>1 DEF Seen
  <2>3. CASE finished
    BY <2>1, <2>3 DEF CodesWithinLength
  <2>4. CASE ~finished
    BY <2>1, <2>2, <2>4 DEF CodesWithinLength
  <2> QED
    BY <2>3, <2>4
<1>2. LzwInv => CodesWithinLength
  BY <1>1 DEF LzwInv
<1> QED
  BY <1>2, LzwInvariant, PTL

\* The decoder's dictionary is the encoder's, one entry behind, though none of
\* it is transmitted.
THEOREM DictionariesAgree == LzwSpec => []TablesAgree
<1>1. ASSUME LzwInv PROVE TablesAgree
  <2> SUFFICES ASSUME Len(chunk) <= LongestSafe
               PROVE  /\ \A n \in 1 .. Len(Code_table) :
                           Code_table[n] \in DOMAIN table /\ table[Code_table[n]] = n - 1
                      /\ taken > 0 => Len(Code_table) = Chars + taken - 1
    BY DEF TablesAgree
  <2>1. PICK w, pos : DecoderPhrases(w, pos)
    BY <1>1 DEF LzwInv, Phrases
  <2>2. taken > 0 => taken # 0
    BY <2>1 DEF DecoderPhrases
  <2> QED
    BY <2>1, <2>2, Zenon DEF DecoderPhrases
<1> QED
  BY <1>1, LzwInvariant, PTL

\* Decompress restores the chunk: what it has written is a prefix of it, and
\* all of it when it has taken the last code.
THEOREM ChunkRestored == LzwSpec => []RestoresChunk
<1>1. ASSUME LzwInv PROVE RestoresChunk
  <2> SUFFICES ASSUME Len(chunk) <= LongestSafe
               PROVE  /\ Len(Output) <= Len(chunk)
                      /\ \A k \in 1 .. Len(Output) : Output[k] = chunk[k]
                      /\ finished /\ taken = Len(codes) => Len(Output) = Len(chunk)
    BY DEF RestoresChunk
  <2>1. PICK w, pos : EncoderPhrases(w, pos) /\ DecoderPhrases(w, pos)
    BY <1>1 DEF LzwInv, Phrases
  <2>2. EncoderInv /\ (~finished => taken = 0)
    BY <1>1 DEF LzwInv
  <2>3. /\ taken \in 0 .. Len(codes) /\ Len(codes) \in Nat /\ Len(chunk) \in Nat
        /\ Len(Output) = pos[taken + 1]
        /\ \A k \in 1 .. Len(Output) : Output[k] = chunk[k]
    BY <2>1, <2>2 DEF DecoderPhrases, EncoderInv
  <2>4. pos[taken + 1] <= Len(chunk)
    <3>1. CASE taken = 0
      <4>1. taken + 1 = 1
        BY <3>1
      <4>2. pos[1] = 0
        BY <2>1 DEF EncoderPhrases
      <4> QED
        BY <2>3, <4>1, <4>2
    <3>2. CASE taken # 0
      <4>1. taken \in 1 .. Len(codes)
        BY <2>3, <3>2
      <4> QED
        BY <2>1, <4>1, Zenon DEF EncoderPhrases, Phrase
    <3> QED
      BY <3>1, <3>2
  <2>5. finished /\ taken = Len(codes) => Len(Output) = Len(chunk)
    BY <2>1, <2>3, Zenon DEF EncoderPhrases
  <2> QED
    BY <2>3, <2>4, <2>5, Zenon
<1> QED
  BY <1>1, LzwInvariant, PTL
=============================================================================
