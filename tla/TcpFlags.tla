------------------------------- MODULE TcpFlags -------------------------------
(***************************************************************************)
(* TCP flag combinations in the forms the program gives them: the string   *)
(* of the configuration and of the cycler ("PA", here a sequence of        *)
(* letters), conf.TCPF (here the set of the letters that are true) and the *)
(* 16-bit word of the TCPF message, and the list of pairs a flag cycler    *)
(* goes through.                                                           *)
(***************************************************************************)
EXTENDS Integers, SequencesExt

CONSTANTS
  NFallbacks   \* how much of fallbackCombos is used (all 19 in the code)

\* The letters in the order of conf.TCPF's fields and of the word's bits.
Letters == <<"F", "S", "R", "P", "A", "U", "E", "C", "N">>

PA == <<"P", "A">>

\* strTCPF, and whether it returns an error.
ValidStr(s) == Range(s) \subseteq Range(Letters)
strTCPF(s) == Range(s) \cap Range(Letters)

Field(flag, f) == IF flag \in f THEN <<flag>> ELSE <<>>

\* Mutant: the flags are written in the order of the alphabet.
tcpfToStrSorted(flags) ==
  IF flags = <<>> THEN PA
  ELSE LET f == flags[1]
       IN  Field("A", f) \o Field("C", f) \o Field("E", f) \o Field("F", f) \o Field("N", f)
             \o Field("P", f) \o Field("R", f) \o Field("S", f) \o Field("U", f)

\* tcpfToStr: of the first element only, in the fields' order.
tcpfToStr(flags) ==
  IF flags = <<>> THEN PA
  ELSE LET f == flags[1]
       IN  Field("F", f) \o Field("S", f) \o Field("R", f) \o Field("P", f) \o Field("A", f)
             \o Field("U", f) \o Field("E", f) \o Field("C", f) \o Field("N", f)

parseFlagStr(s) == <<strTCPF(s)>>

\* The word of a TCPF message, bit n-1 for the n-th letter, and back.
Word(f) ==
  LET Bit(flag, v) == IF flag \in f THEN v ELSE 0
  IN  Bit("F", 1) + Bit("S", 2) + Bit("R", 4) + Bit("P", 8) + Bit("A", 16)
        + Bit("U", 32) + Bit("E", 64) + Bit("C", 128) + Bit("N", 256)

\* Mutant: the low byte only.
FlagsOfByte(v) == {Letters[n] : n \in {m \in 1 .. 8 : (v \div 2^(m - 1)) % 2 = 1}}

FlagsOf(v) ==
  {Letters[n] : n \in {m \in DOMAIN Letters : (v \div 2^(m - 1)) % 2 = 1}}

fallbackCombos ==
  LET A == <<"A">>  P == <<"P">>  S == <<"S">>  SA == <<"S", "A">>
      FA == <<"F", "A">>  FPA == <<"F", "P", "A">>
      EA == <<"E", "A">>  CA == <<"C", "A">>
  IN  << <<PA, PA>>, <<A, PA>>, <<PA, A>>, <<A, A>>, <<P, PA>>,
         <<S, SA>>, <<SA, PA>>, <<SA, SA>>,
         <<FA, FA>>, <<FA, PA>>, <<FA, A>>, <<PA, FA>>, <<FPA, PA>>,
         <<EA, PA>>, <<CA, PA>>, <<PA, EA>>, <<PA, CA>>, <<EA, EA>>,
         <<PA, SA>> >>

ASSUME NFallbacksAssumption == NFallbacks \in 1 .. Len(fallbackCombos)
ASSUME FallbacksAssumption == IsInjective(fallbackCombos)

\* newFlagCycler's combos: the user's pair, then the fallbacks except that pair,
\* which is among them once at most, unless the user has set flags.
CombosFor(lf, rf, explicit) ==
  LET user == <<tcpfToStr(lf), tcpfToStr(rf)>>
  IN  <<user>> \o (IF explicit THEN <<>>
                   ELSE RemoveFirst(SubSeq(fallbackCombos, 1, NFallbacks), user))
===============================================================================
