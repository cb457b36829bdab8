---------------------------- MODULE Protocol_proofs ----------------------------
(***************************************************************************)
(* What comes out of the forms that flags and addresses go through: of the *)
(* strings, the words and the messages.                                    *)
(***************************************************************************)
EXTENDS Protocol, SequenceTheorems, TLAPS

Flags == {"F", "S", "R", "P", "A", "U", "E", "C", "N"}

-------------------------------------------------------------------------------
\* Flags as strings.

\* The nine letters as a set.
LEMMA FlagsAreLetters == Range(Letters) = Flags
BY DEF Range, Letters, Flags

\* One flag of a string, there or not.
LEMMA FieldRange ==
  ASSUME NEW l \in Flags, NEW f
  PROVE  Field(l, f) \in Seq(Flags) /\ Range(Field(l, f)) = f \cap {l}
BY DEF Field, Range

\* A string with one more flag.
LEMMA FieldsRange ==
  ASSUME NEW s \in Seq(Flags), NEW l \in Flags, NEW f
  PROVE  /\ s \o Field(l, f) \in Seq(Flags)
         /\ Range(s \o Field(l, f)) = Range(s) \cup (f \cap {l})
BY FieldRange, RangeConcatenation, ConcatProperties

\* tcpfToStr writes every flag of the first element and no other.
LEMMA StringRange ==
  ASSUME NEW list, list # <<>>, list[1] \in SUBSET Flags
  PROVE  Range(tcpfToStr(list)) = list[1]
<1> DEFINE f == list[1]
           s1 == Field("F", f)
           s2 == s1 \o Field("S", f)
           s3 == s2 \o Field("R", f)
           s4 == s3 \o Field("P", f)
           s5 == s4 \o Field("A", f)
           s6 == s5 \o Field("U", f)
           s7 == s6 \o Field("E", f)
           s8 == s7 \o Field("C", f)
           s9 == s8 \o Field("N", f)
<1>0. tcpfToStr(list) = s9
  BY DEF tcpfToStr
<1> HIDE DEF f
<1>1. s1 \in Seq(Flags) /\ Range(s1) = f \cap {"F"}
  BY FieldRange DEF Flags
<1> HIDE DEF s1
<1>2. s2 \in Seq(Flags) /\ Range(s2) = f \cap {"F", "S"}
  BY <1>1, FieldsRange DEF Flags
<1> HIDE DEF s2
<1>3. s3 \in Seq(Flags) /\ Range(s3) = f \cap {"F", "S", "R"}
  BY <1>2, FieldsRange DEF Flags
<1> HIDE DEF s3
<1>4. s4 \in Seq(Flags) /\ Range(s4) = f \cap {"F", "S", "R", "P"}
  BY <1>3, FieldsRange DEF Flags
<1> HIDE DEF s4
<1>5. s5 \in Seq(Flags) /\ Range(s5) = f \cap {"F", "S", "R", "P", "A"}
  BY <1>4, FieldsRange DEF Flags
<1> HIDE DEF s5
<1>6. s6 \in Seq(Flags) /\ Range(s6) = f \cap {"F", "S", "R", "P", "A", "U"}
  BY <1>5, FieldsRange DEF Flags
<1> HIDE DEF s6
<1>7. s7 \in Seq(Flags) /\ Range(s7) = f \cap {"F", "S", "R", "P", "A", "U", "E"}
  BY <1>6, FieldsRange DEF Flags
<1> HIDE DEF s7
<1>8. s8 \in Seq(Flags) /\ Range(s8) = f \cap {"F", "S", "R", "P", "A", "U", "E", "C"}
  BY <1>7, FieldsRange DEF Flags
<1> HIDE DEF s8
<1>9. Range(s9) = f \cap Flags
  BY <1>8, FieldsRange DEF Flags
<1> QED BY <1>0, <1>9 DEF f

\* The string form of the cycler keeps a combination of flags: what parseFlagStr
\* makes of tcpfToStr's string is the first element that was given.
THEOREM StringRoundTrip ==
  ASSUME NEW list, list # <<>>, list[1] \in SUBSET Flags
  PROVE  parseFlagStr(tcpfToStr(list)) = <<list[1]>>
BY StringRange, FlagsAreLetters DEF parseFlagStr, strTCPF

-------------------------------------------------------------------------------
\* Flags as words.

\* The nine letters by position.
LEMMA LettersInOrder ==
  /\ DOMAIN Letters = 1 .. 9
  /\ \A m \in 1 .. 9 : m \in {1, 2, 3, 4, 5, 6, 7, 8, 9} /\ Letters[m] \in Flags
  /\ Letters[1] = "F" /\ Letters[2] = "S" /\ Letters[3] = "R" /\ Letters[4] = "P"
  /\ Letters[5] = "A" /\ Letters[6] = "U" /\ Letters[7] = "E" /\ Letters[8] = "C"
  /\ Letters[9] = "N"
<1>1. /\ DOMAIN Letters = 1 .. 9
      /\ Letters[1] = "F" /\ Letters[2] = "S" /\ Letters[3] = "R" /\ Letters[4] = "P"
      /\ Letters[5] = "A" /\ Letters[6] = "U" /\ Letters[7] = "E" /\ Letters[8] = "C"
      /\ Letters[9] = "N"
  BY DEF Letters
<1>2. \A m \in 1 .. 9 : m \in {1, 2, 3, 4, 5, 6, 7, 8, 9}
  OBVIOUS
<1> QED BY <1>1, <1>2 DEF Flags

\* Which bit of v each flag is.
LEMMA FlagsOfBits ==
  ASSUME NEW v \in Nat, NEW l \in Flags
  PROVE  l \in FlagsOf(v) <=>
           \/ l = "F" /\ (v \div 1) % 2 = 1
           \/ l = "S" /\ (v \div 2) % 2 = 1
           \/ l = "R" /\ (v \div 4) % 2 = 1
           \/ l = "P" /\ (v \div 8) % 2 = 1
           \/ l = "A" /\ (v \div 16) % 2 = 1
           \/ l = "U" /\ (v \div 32) % 2 = 1
           \/ l = "E" /\ (v \div 64) % 2 = 1
           \/ l = "C" /\ (v \div 128) % 2 = 1
           \/ l = "N" /\ (v \div 256) % 2 = 1
<1> DEFINE bit == [m \in 1 .. 9 |-> (v \div 2^(m - 1)) % 2]
<1>1. l \in FlagsOf(v) <=> \E m \in 1 .. 9 : l = Letters[m] /\ bit[m] = 1
  BY LettersInOrder DEF FlagsOf
<1>2. /\ 2^(1 - 1) = 1 /\ 2^(2 - 1) = 2 /\ 2^(3 - 1) = 4 /\ 2^(4 - 1) = 8 /\ 2^(5 - 1) = 16
      /\ 2^(6 - 1) = 32 /\ 2^(7 - 1) = 64 /\ 2^(8 - 1) = 128 /\ 2^(9 - 1) = 256
  OBVIOUS
<1>3. /\ bit[1] = (v \div 1) % 2 /\ bit[2] = (v \div 2) % 2 /\ bit[3] = (v \div 4) % 2
      /\ bit[4] = (v \div 8) % 2 /\ bit[5] = (v \div 16) % 2 /\ bit[6] = (v \div 32) % 2
      /\ bit[7] = (v \div 64) % 2 /\ bit[8] = (v \div 128) % 2 /\ bit[9] = (v \div 256) % 2
  BY <1>2
<1> HIDE DEF bit
<1>4. l \in FlagsOf(v) <=>
           \/ l = "F" /\ bit[1] = 1
           \/ l = "S" /\ bit[2] = 1
           \/ l = "R" /\ bit[3] = 1
           \/ l = "P" /\ bit[4] = 1
           \/ l = "A" /\ bit[5] = 1
           \/ l = "U" /\ bit[6] = 1
           \/ l = "E" /\ bit[7] = 1
           \/ l = "C" /\ bit[8] = 1
           \/ l = "N" /\ bit[9] = 1
  <2>1. ASSUME NEW m \in 1 .. 9, l = Letters[m], bit[m] = 1
        PROVE  \/ l = "F" /\ bit[1] = 1
               \/ l = "S" /\ bit[2] = 1
               \/ l = "R" /\ bit[3] = 1
               \/ l = "P" /\ bit[4] = 1
               \/ l = "A" /\ bit[5] = 1
               \/ l = "U" /\ bit[6] = 1
               \/ l = "E" /\ bit[7] = 1
               \/ l = "C" /\ bit[8] = 1
               \/ l = "N" /\ bit[9] = 1
    <3>1. m \in {1, 2, 3, 4, 5, 6, 7, 8, 9}
      BY LettersInOrder
    <3> QED BY <2>1, <3>1, LettersInOrder
  <2>2. ASSUME \/ l = "F" /\ bit[1] = 1
               \/ l = "S" /\ bit[2] = 1
               \/ l = "R" /\ bit[3] = 1
               \/ l = "P" /\ bit[4] = 1
               \/ l = "A" /\ bit[5] = 1
               \/ l = "U" /\ bit[6] = 1
               \/ l = "E" /\ bit[7] = 1
               \/ l = "C" /\ bit[8] = 1
               \/ l = "N" /\ bit[9] = 1
        PROVE  \E m \in 1 .. 9 : l = Letters[m] /\ bit[m] = 1
    <3>1. \A m \in {1, 2, 3, 4, 5, 6, 7, 8, 9} : m \in 1 .. 9
      OBVIOUS
    <3> QED BY <2>2, <3>1, LettersInOrder
  <2> QED BY <1>1, <2>1, <2>2
<1>5. \/ l = "F" \/ l = "S" \/ l = "R" \/ l = "P" \/ l = "A"
      \/ l = "U" \/ l = "E" \/ l = "C" \/ l = "N"
  BY DEF Flags
<1> QED BY <1>3, <1>4, <1>5

\* The word of a TCPF message keeps a combination of flags.
THEOREM WordRoundTrip ==
  ASSUME NEW f \in SUBSET Flags
  PROVE  Word(f) \in Nat /\ FlagsOf(Word(f)) = f
<1> DEFINE b == [l \in Flags |-> IF l \in f THEN 1 ELSE 0]
           v == Word(f)
<1>1. v = b["F"] + 2 * b["S"] + 4 * b["R"] + 8 * b["P"] + 16 * b["A"] + 32 * b["U"]
            + 64 * b["E"] + 128 * b["C"] + 256 * b["N"]
  BY DEF Word, Flags
<1>2. \A l \in Flags : b[l] \in {0, 1} /\ (b[l] = 1 <=> l \in f)
  OBVIOUS
<1> HIDE DEF b, v
<1>3. v \in Nat
  BY <1>1, <1>2 DEF Flags
<1>4. /\ (v \div 1) % 2 = b["F"] /\ (v \div 2) % 2 = b["S"] /\ (v \div 4) % 2 = b["R"]
      /\ (v \div 8) % 2 = b["P"] /\ (v \div 16) % 2 = b["A"] /\ (v \div 32) % 2 = b["U"]
      /\ (v \div 64) % 2 = b["E"] /\ (v \div 128) % 2 = b["C"] /\ (v \div 256) % 2 = b["N"]
  <2> DEFINE b1 == b["F"]
             b2 == b["S"]
             b3 == b["R"]
             b4 == b["P"]
             b5 == b["A"]
             b6 == b["U"]
             b7 == b["E"]
             b8 == b["C"]
             b9 == b["N"]
  <2>1. /\ b1 \in {0, 1} /\ b2 \in {0, 1} /\ b3 \in {0, 1} /\ b4 \in {0, 1} /\ b5 \in {0, 1}
        /\ b6 \in {0, 1} /\ b7 \in {0, 1} /\ b8 \in {0, 1} /\ b9 \in {0, 1}
    BY <1>2 DEF Flags
  <2>2. v = b1 + 2 * b2 + 4 * b3 + 8 * b4 + 16 * b5 + 32 * b6 + 64 * b7 + 128 * b8 + 256 * b9
    BY <1>1
  <2> HIDE DEF b1, b2, b3, b4, b5, b6, b7, b8, b9
  <2>3. /\ (v \div 1) % 2 = b1 /\ (v \div 2) % 2 = b2 /\ (v \div 4) % 2 = b3
        /\ (v \div 8) % 2 = b4 /\ (v \div 16) % 2 = b5 /\ (v \div 32) % 2 = b6
        /\ (v \div 64) % 2 = b7 /\ (v \div 128) % 2 = b8 /\ (v \div 256) % 2 = b9
    BY <2>1, <2>2
  <2> QED BY <2>3 DEF b1, b2, b3, b4, b5, b6, b7, b8, b9
<1>5. ASSUME NEW l \in Flags
      PROVE  l \in FlagsOf(v) <=> l \in f
  <2>1. l \in FlagsOf(v) <=> b[l] = 1
    BY <1>3, <1>4, FlagsOfBits DEF Flags
  <2> QED BY <1>2, <2>1
<1>6. FlagsOf(v) \subseteq Flags
  BY LettersInOrder DEF FlagsOf
<1> QED BY <1>3, <1>5, <1>6 DEF v

-------------------------------------------------------------------------------
\* The messages.

\* A TCPF message tells the server exactly the client's flags, for as many as its
\* count can say.
THEOREM FlagsMessage ==
  ASSUME NEW list \in Seq(SUBSET Flags), Len(list) < 2^8
  PROVE  Read(Write([type |-> PTCPF, tcpf |-> list])) = [type |-> PTCPF, tcpf |-> list]
<1> DEFINE words == [n \in DOMAIN list |-> Word(list[n])]
           w == Write([type |-> PTCPF, tcpf |-> list])
           k == Len(list)
<1>1. k \in Nat /\ k % 2^8 = k /\ DOMAIN list = 1 .. k
  BY DEF PTCPF
<1>2. words \in Seq(Nat) /\ Len(words) = k
  BY <1>1, WordRoundTrip
<1>3. w = <<PTCPF, k>> \o words
  BY <1>1 DEF Write, PPING, PPONG, PTCP, PUDP, PTCPF
<1> HIDE DEF words, w, k
<1>4. <<PTCPF, k>> \in Seq(Nat) /\ Len(<<PTCPF, k>>) = 2
  BY <1>1 DEF PTCPF
<1>5. /\ w \in Seq(Nat) /\ Len(w) = 2 + k
      /\ \A n \in 1 .. 2 + k : w[n] = IF n <= 2 THEN <<PTCPF, k>>[n] ELSE words[n - 2]
  BY <1>2, <1>3, <1>4, ConcatProperties
<1>6. w # <<>> /\ w[1] = PTCPF /\ w[2] = k
  BY <1>1, <1>4, <1>5
<1>7. ASSUME NEW n \in 1 .. k
      PROVE  FlagsOf(w[n + 2]) = list[n]
  <2>1. w[n + 2] = words[n]
    BY <1>1, <1>5
  <2>2. list[n] \in SUBSET Flags /\ words[n] = Word(list[n])
    BY <1>1 DEF words
  <2> QED BY <2>1, <2>2, WordRoundTrip
<1>8. Read(w) = [type |-> PTCPF, tcpf |-> [n \in 1 .. w[2] |-> FlagsOf(w[n + 2])]]
  BY <1>1, <1>5, <1>6 DEF Read, PPING, PPONG, PTCP, PUDP, PTCPF
<1>9. [n \in 1 .. k |-> FlagsOf(w[n + 2])] = list
  BY <1>1, <1>7
<1> QED BY <1>6, <1>8, <1>9 DEF w

\* An address message that arrives in full names the host and the low 16 bits of
\* the port; one that is cut off anywhere is an error and never another address.
THEOREM AddressMessage ==
  ASSUME NEW host \in Seq(STRING), Len(host) <= MaxHost, MaxHost \in Nat,
         NEW port \in Nat,
         NEW n \in 0 .. Len(Write([type |-> PTCP, host |-> host, port |-> port]))
  PROVE  LET w == Write([type |-> PTCP, host |-> host, port |-> port])
         IN  /\ Len(w) = 3 + Len(host)
             /\ Read(SubSeq(w, 1, n)) =
                  IF n = Len(w) THEN [type |-> PTCP, port |-> port % 2^16, host |-> host]
                  ELSE Failed
<1> DEFINE h == Len(host)
           p16 == port % 2^16
           w == Write([type |-> PTCP, host |-> host, port |-> port])
           S == Nat \cup STRING
           m == SubSeq(w, 1, n)
           head == <<PTCP, p16, h>>
<1>1. h \in Nat /\ p16 \in Nat /\ host \in Seq(S) /\ Len(host) = h
  BY SeqMonotonic
<1>2. w = head \o host
  BY DEF Write, PPING, PPONG, PTCP, PUDP, PTCPF
<1>3. head \in Seq(S) /\ Len(head) = 3 /\ head[1] = PTCP /\ head[2] = p16 /\ head[3] = h
  BY <1>1 DEF PTCP
<1> HIDE DEF h, p16, w, S, head
<1>4. /\ w \in Seq(S) /\ Len(w) = 3 + h
      /\ \A j \in 1 .. 3 + h : w[j] = IF j <= 3 THEN head[j] ELSE host[j - 3]
  <2>1. /\ head \o host \in Seq(S) /\ Len(head \o host) = Len(head) + Len(host)
        /\ \A j \in 1 .. Len(head) + Len(host) :
             (head \o host)[j] = IF j <= Len(head) THEN head[j] ELSE host[j - Len(head)]
    BY <1>1, <1>3, ConcatProperties
  <2> QED BY <1>1, <1>2, <1>3, <2>1
<1>5. w[1] = PTCP /\ w[2] = p16 /\ w[3] = h
  BY <1>1, <1>3, <1>4
<1>6. n \in 0 .. 3 + h
  BY <1>4 DEF w
<1>7. /\ m \in Seq(S) /\ Len(m) = n
      /\ \A j \in 1 .. n : m[j] = w[j]
  <2>1. \A j \in 1 .. n : w[j] \in S
    BY <1>1, <1>4, <1>6, ElementOfSeq
  <2> QED BY <1>1, <1>6, <2>1, SubSeqProperties
<1> HIDE DEF m
<1>8. CASE n = 3 + h
  <2>1. m = w
    BY <1>4, <1>7, <1>8, SeqEqual
  <2>2. SubSeq(w, 4, 3 + h) = host
    <3>1. \A j \in 4 .. 3 + h : w[j] \in S
      BY <1>1, <1>4, ElementOfSeq
    <3>2. /\ SubSeq(w, 4, 3 + h) \in Seq(S) /\ Len(SubSeq(w, 4, 3 + h)) = h
          /\ \A j \in 1 .. h : SubSeq(w, 4, 3 + h)[j] = w[4 + j - 1]
      BY <1>1, <3>1, SubSeqProperties
    <3>3. \A j \in 1 .. h : SubSeq(w, 4, 3 + h)[j] = host[j]
      BY <1>1, <1>4, <3>2
    <3> QED BY <1>1, <3>2, <3>3, SeqEqual DEF h
  <2>3. Read(w) = [type |-> PTCP, port |-> p16, host |-> host]
    <3>1. w # <<>> /\ Len(w) >= 3 /\ Len(w) >= 3 + w[3] /\ SubSeq(w, 4, 3 + w[3]) = host
      BY <1>1, <1>4, <1>5, <2>2
    <3>2. Read(w) = [type |-> w[1], port |-> w[2], host |-> SubSeq(w, 4, 3 + w[3])]
      BY <1>5, <3>1 DEF Read, PPING, PPONG, PTCP, PUDP, PTCPF
    <3> QED BY <1>5, <3>1, <3>2
  <2> QED BY <1>4, <1>8, <2>1, <2>3 DEF w, h, p16, m
<1>9. CASE n < 3 + h
  <2>1. m = <<>> \/ (m # <<>> /\ m[1] = PTCP)
    BY <1>5, <1>7
  <2>2. ~(Len(m) >= 3 /\ Len(m) >= 3 + m[3])
    BY <1>1, <1>5, <1>6, <1>7, <1>9
  <2>3. Read(m) = Failed
    BY <2>1, <2>2 DEF Read, PPING, PPONG, PTCP, PUDP, PTCPF
  <2> QED BY <1>1, <1>4, <1>9, <2>3 DEF w, h, m
<1> QED BY <1>1, <1>6, <1>8, <1>9
-------------------------------------------------------------------------------
\* The cycler's list.

\* The strings of fallbackCombos, and what tells their flags apart.
FallbackStrings ==
  {<<"P", "A">>, <<"A">>, <<"P">>, <<"S">>, <<"S", "A">>, <<"F", "A">>, <<"F", "P", "A">>,
   <<"E", "A">>, <<"C", "A">>}

\* The fallbacks consist of those strings.
LEMMA FallbacksAreStrings ==
  /\ DOMAIN fallbackCombos = 1 .. 19 /\ Len(fallbackCombos) = 19
  /\ \A n \in 1 .. 19 : fallbackCombos[n] \in FallbackStrings \X FallbackStrings
<1>1. DOMAIN fallbackCombos = 1 .. 19 /\ Len(fallbackCombos) = 19
  BY DEF fallbackCombos
<1>2. \A n \in 1 .. 19 : n \in {1, 2, 3, 4, 5, 6, 7, 8, 9, 10, 11, 12, 13, 14, 15, 16, 17, 18, 19}
  OBVIOUS
<1>3. \A n \in 1 .. 19 : fallbackCombos[n] \in FallbackStrings \X FallbackStrings
  BY <1>2 DEF fallbackCombos, PA, FallbackStrings
<1> QED BY <1>1, <1>3

\* Each flag by the strings that have it.
LEMMA StringFlags ==
  ASSUME NEW s \in FallbackStrings
  PROVE  /\ strTCPF(s) \subseteq Flags
         /\ "F" \in strTCPF(s) <=> s \in {<<"F", "A">>, <<"F", "P", "A">>}
         /\ "S" \in strTCPF(s) <=> s \in {<<"S">>, <<"S", "A">>}
         /\ "P" \in strTCPF(s) <=> s \in {<<"P", "A">>, <<"P">>, <<"F", "P", "A">>}
         /\ "A" \in strTCPF(s) <=> s \notin {<<"P">>, <<"S">>}
         /\ "E" \in strTCPF(s) <=> s = <<"E", "A">>
         /\ "C" \in strTCPF(s) <=> s = <<"C", "A">>
<1>1. strTCPF(s) = Range(s) \cap Flags
  BY FlagsAreLetters DEF strTCPF
<1>2. CASE s = <<"P", "A">>
  <2>1. Range(s) = {"P", "A"}
    BY <1>2 DEF Range
  <2> QED BY <1>1, <1>2, <2>1 DEF Flags
<1>3. CASE s = <<"A">>
  <2>1. Range(s) = {"A"}
    BY <1>3 DEF Range
  <2> QED BY <1>1, <1>3, <2>1 DEF Flags
<1>4. CASE s = <<"P">>
  <2>1. Range(s) = {"P"}
    BY <1>4 DEF Range
  <2> QED BY <1>1, <1>4, <2>1 DEF Flags
<1>5. CASE s = <<"S">>
  <2>1. Range(s) = {"S"}
    BY <1>5 DEF Range
  <2> QED BY <1>1, <1>5, <2>1 DEF Flags
<1>6. CASE s = <<"S", "A">>
  <2>1. Range(s) = {"S", "A"}
    BY <1>6 DEF Range
  <2> QED BY <1>1, <1>6, <2>1 DEF Flags
<1>7. CASE s = <<"F", "A">>
  <2>1. Range(s) = {"F", "A"}
    BY <1>7 DEF Range
  <2> QED BY <1>1, <1>7, <2>1 DEF Flags
<1>8. CASE s = <<"F", "P", "A">>
  <2>1. Range(s) = {"F", "P", "A"}
    BY <1>8 DEF Range
  <2> QED BY <1>1, <1>8, <2>1 DEF Flags
<1>9. CASE s = <<"E", "A">>
  <2>1. Range(s) = {"E", "A"}
    BY <1>9 DEF Range
  <2> QED BY <1>1, <1>9, <2>1 DEF Flags
<1>10. CASE s = <<"C", "A">>
  <2>1. Range(s) = {"C", "A"}
    BY <1>10 DEF Range
  <2> QED BY <1>1, <1>10, <2>1 DEF Flags
<1> QED BY <1>2, <1>3, <1>4, <1>5, <1>6, <1>7, <1>8, <1>9, <1>10 DEF FallbackStrings

\* No two strings of the fallbacks mean the same flags.
LEMMA StringsDiffer ==
  ASSUME NEW s \in FallbackStrings, NEW t \in FallbackStrings,
         parseFlagStr(s) = parseFlagStr(t)
  PROVE  s = t
<1>1. strTCPF(s) = strTCPF(t)
  BY DEF parseFlagStr
<1> QED BY <1>1, StringFlags DEF FallbackStrings

\* The default's string is the first fallback's.
LEMMA DefaultString == tcpfToStr(<<{"P", "A"}>>) = PA
<1>1. Field("P", {"P", "A"}) = <<"P">> /\ Field("A", {"P", "A"}) = <<"A">>
  BY DEF Field
<1>2. \A l \in Flags \ {"P", "A"} : Field(l, {"P", "A"}) = <<>>
  BY DEF Field
<1>3. /\ <<>> \o <<"P">> = <<"P">>
      /\ <<>> \o <<>> = <<>>
      /\ <<"P">> \o <<"A">> = <<"P", "A">>
      /\ <<"P", "A">> \o <<>> = <<"P", "A">>
  <2>1. /\ <<>> \in Seq(Flags)
        /\ <<"P">> \in Seq(Flags)
        /\ <<"A">> \in Seq(Flags)
        /\ <<"P", "A">> \in Seq(Flags)
    BY DEF Flags
  <2>2. <<"P">> \o <<"A">> = <<"P", "A">>
    <3> DEFINE p == <<"P">>
               a == <<"A">>
               pa == <<"P", "A">>
               c == p \o a
    <3>1. /\ Len(p) = 1 /\ p[1] = "P" /\ Len(a) = 1 /\ a[1] = "A"
          /\ Len(pa) = 2 /\ pa[1] = "P" /\ pa[2] = "A"
      OBVIOUS
    <3>2. p \in Seq(Flags) /\ a \in Seq(Flags) /\ pa \in Seq(Flags)
      BY <2>1
    <3> HIDE DEF p, a, pa
    <3>3. /\ c \in Seq(Flags) /\ Len(c) = 2
          /\ c[1] = "P" /\ c[2] = "A"
      BY <3>1, <3>2, ConcatProperties
    <3> HIDE DEF c
    <3>4. c = pa
      BY <3>1, <3>2, <3>3, SeqEqual
    <3> QED BY <3>4 DEF c, p, a, pa
  <2> QED BY <2>1, <2>2, ConcatEmptySeq
<1> QED BY <1>1, <1>2, <1>3 DEF tcpfToStr, PA, Flags

\* The part of fallbackCombos that is used.
Used == SubSeq(fallbackCombos, 1, NFallbacks)

\* Its pairs are those of fallbackCombos, the default first.
LEMMA UsedFallbacks ==
  /\ Used \in Seq(FallbackStrings \X FallbackStrings) /\ Len(Used) = NFallbacks
  /\ NFallbacks \in 1 .. 19
  /\ \A n \in 1 .. NFallbacks : Used[n] = fallbackCombos[n]
  /\ Used[1] = <<PA, PA>>
<1> DEFINE N == NFallbacks
           fc == fallbackCombos
<1>1. N \in 1 .. 19 /\ \A n \in 1 .. N : fc[n] \in FallbackStrings \X FallbackStrings
  BY NFallbacksAssumption, FallbacksAreStrings
<1>2. fc[1] = <<PA, PA>>
  BY DEF fallbackCombos
<1> HIDE DEF fc, N
<1>3. /\ SubSeq(fc, 1, N) \in Seq(FallbackStrings \X FallbackStrings)
      /\ Len(SubSeq(fc, 1, N)) = N
      /\ \A n \in 1 .. N : SubSeq(fc, 1, N)[n] = fc[n]
  BY <1>1, SubSeqProperties
<1> QED BY <1>1, <1>2, <1>3 DEF Used, fc, N

\* The user's pair, when it is the default, is the first fallback, and is left out
\* there.
LEMMA FirstRemoved ==
  ASSUME NEW S, NEW s \in Seq(S), s # <<>>
  PROVE  <<s[1]>> \o RemoveFirst(s, s[1]) = s
<1> DEFINE I == {n \in 1 .. Len(s) : s[n] = s[1]}
           Same(v) == v = s[1]
<1>1. Len(s) \in Nat \ {0}
  OBVIOUS
<1>2. 1 \in I /\ \A n \in I : n \in Int /\ 1 <= n
  BY <1>1
<1>3. Min(I) = 1
  BY <1>2 DEF Min
<1>4. SelectInSeq(s, LAMBDA v : v = s[1]) = 1
  BY <1>2, <1>3 DEF SelectInSeq
<1>5. RemoveFirst(s, s[1]) = SubSeq(s, 1, 0) \o SubSeq(s, 2, Len(s))
  <2>1. \E n \in 1 .. Len(s) : s[n] = s[1]
    BY <1>2
  <2>2. RemoveFirst(s, s[1]) = RemoveAt(s, SelectInSeq(s, LAMBDA v : v = s[1]))
    BY <2>1, Zenon DEF RemoveFirst
  <2>3. RemoveFirst(s, s[1]) = RemoveAt(s, 1)
    BY <1>4, <2>2, Zenon
  <2>4. 1 - 1 = 0 /\ 1 + 1 = 2
    OBVIOUS
  <2> QED BY <2>3, <2>4, Zenon DEF RemoveAt
<1>6. SubSeq(s, 1, 0) = <<>>
  BY SubSeqEmpty
<1>7. SubSeq(s, 2, Len(s)) \in Seq(S)
  BY <1>1, ElementOfSeq, SubSeqProperties
<1>8. RemoveFirst(s, s[1]) = SubSeq(s, 2, Len(s))
  BY <1>5, <1>6, <1>7, ConcatEmptySeq
<1>9. SubSeq(s, 1, Len(s)) = <<s[1]>> \o SubSeq(s, 2, Len(s))
  <2>1. 1 \in 1 .. Len(s) /\ Len(s) \in 1 .. Len(s) /\ 1 + 1 = 2
    BY <1>1
  <2> QED BY <2>1, SubSeqRecursiveFirst
<1> QED BY <1>8, <1>9, SubSeqFull

\* With explicit flags the list is the user's pair.
LEMMA CombosExplicit ==
  ASSUME NEW lf, NEW rf
  PROVE  CombosFor(lf, rf, TRUE) = << <<tcpfToStr(lf), tcpfToStr(rf)>> >>
<1> DEFINE user == <<tcpfToStr(lf), tcpfToStr(rf)>>
<1>1. CombosFor(lf, rf, TRUE) = <<user>> \o <<>>
  BY DEF CombosFor
<1> HIDE DEF user
<1>2. <<user>> \in Seq({user})
  OBVIOUS
<1>3. <<user>> \o <<>> = <<user>>
  BY <1>2, ConcatEmptySeq
<1> QED BY <1>1, <1>3 DEF user

\* Without, it is the fallbacks as they stand, since the default is their first.
LEMMA CombosDefault ==
  ASSUME NEW lf, NEW rf, lf = <<{"P", "A"}>>, rf = <<{"P", "A"}>>
  PROVE  CombosFor(lf, rf, FALSE) = Used
<1>1. CombosFor(lf, rf, FALSE) = << <<PA, PA>> >> \o RemoveFirst(Used, <<PA, PA>>)
  BY DefaultString DEF CombosFor, Used
<1>2. Used # <<>>
  BY UsedFallbacks
<1> QED BY <1>1, <1>2, UsedFallbacks, FirstRemoved

\* The list a cycler goes through is not empty, starts with the pair of flags it was
\* given, and names no pair of flags twice: its strings differ as flags, not only
\* as strings.
THEOREM CyclerList ==
  ASSUME NEW lf, lf # <<>>, lf[1] \in SUBSET Flags,
         NEW rf, rf # <<>>, rf[1] \in SUBSET Flags,
         NEW explicit \in BOOLEAN,
         ~explicit => lf = <<{"P", "A"}>> /\ rf = <<{"P", "A"}>>
  PROVE  LET c == CombosFor(lf, rf, explicit)
             flags == [n \in DOMAIN c |-> <<parseFlagStr(c[n][1]), parseFlagStr(c[n][2])>>]
         IN  /\ Len(c) \in Nat \ {0} /\ DOMAIN c = 1 .. Len(c)
             /\ explicit => Len(c) = 1
             /\ flags[1] = << <<lf[1]>>, <<rf[1]>> >>
             /\ IsInjective(flags)
<1> DEFINE c == CombosFor(lf, rf, explicit)
           flags == [n \in DOMAIN c |-> <<parseFlagStr(c[n][1]), parseFlagStr(c[n][2])>>]
<1>1. CASE explicit
  <2>1. c = << <<tcpfToStr(lf), tcpfToStr(rf)>> >>
    BY <1>1, CombosExplicit
  <2>2. Len(c) = 1 /\ DOMAIN c = 1 .. 1 /\ c[1] = <<tcpfToStr(lf), tcpfToStr(rf)>>
    BY <2>1
  <2> HIDE DEF c
  <2>3. flags[1] = << <<lf[1]>>, <<rf[1]>> >>
    BY <2>2, StringRoundTrip
  <2>4. IsInjective(flags)
    BY <2>2 DEF IsInjective
  <2> QED BY <2>2, <2>3, <2>4 DEF c
<1>2. CASE ~explicit
  <2>1. lf = <<{"P", "A"}>> /\ rf = <<{"P", "A"}>> /\ explicit = FALSE
    BY <1>2
  <2>2. c = Used
    BY <2>1, CombosDefault
  <2> HIDE DEF c
  <2>3. /\ Len(c) = NFallbacks /\ DOMAIN c = 1 .. NFallbacks /\ NFallbacks \in Nat \ {0}
        /\ c[1] = <<PA, PA>>
        /\ \A n \in 1 .. NFallbacks :
             n \in 1 .. 19 /\ c[n] = fallbackCombos[n] /\ c[n] \in FallbackStrings \X FallbackStrings
    BY <2>2, UsedFallbacks, FallbacksAreStrings
  <2>4. parseFlagStr(PA) = <<{"P", "A"}>>
    <3>1. <<{"P", "A"}>> # <<>> /\ <<{"P", "A"}>>[1] = {"P", "A"} /\ {"P", "A"} \in SUBSET Flags
      BY DEF Flags
    <3> QED BY <3>1, DefaultString, StringRoundTrip
  <2>5. flags[1] = << <<lf[1]>>, <<rf[1]>> >>
    BY <2>1, <2>3, <2>4
  <2>6. ASSUME NEW m \in 1 .. NFallbacks, NEW n \in 1 .. NFallbacks, flags[m] = flags[n]
        PROVE  m = n
    <3>1. parseFlagStr(c[m][1]) = parseFlagStr(c[n][1]) /\ parseFlagStr(c[m][2]) = parseFlagStr(c[n][2])
      BY <2>3, <2>6
    <3>2. /\ c[m][1] \in FallbackStrings /\ c[m][2] \in FallbackStrings
          /\ c[n][1] \in FallbackStrings /\ c[n][2] \in FallbackStrings
      BY <2>3
    <3>3. c[m][1] = c[n][1] /\ c[m][2] = c[n][2]
      BY <3>1, <3>2, StringsDiffer
    <3>4. fallbackCombos[m] = fallbackCombos[n]
      BY <2>3, <3>3
    <3> QED BY <2>3, <3>4, FallbacksAreStrings, FallbacksAssumption DEF IsInjective
  <2>7. IsInjective(flags)
    BY <2>3, <2>6 DEF IsInjective
  <2> QED BY <1>2, <2>3, <2>5, <2>7 DEF c
<1> QED BY <1>1, <1>2
===============================================================================
