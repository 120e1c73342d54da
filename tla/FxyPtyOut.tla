----------------------------- MODULE FxyPtyOut -----------------------------
(***************************************************************************)
(* The digit loops of _fxypty_out: a native value and its scale become a   *)
(* text.  The absolute value is split at 10^18 into two 64-bit words, and  *)
(* digits are taken from the low end of the words, four at a time where    *)
(* that is possible, into a buffer that is filled from its end.            *)
(*                                                                         *)
(* A string of digits is kept as its length and the number it spells,      *)
(* which determine it.  The text has an integer part and a fractional      *)
(* part; an empty integer part is the one the code prints as "0".          *)
(*                                                                         *)
(* The scale is read from the object and not checked.  An object that no   *)
(* cast has made may hold any: with it the loops can run past the start of *)
(* the buffer, where the behaviour of the program is undefined and the     *)
(* model stops.                                                            *)
(***************************************************************************)
EXTENDS FxyPtyNumbers

CONSTANTS
  LoDigits,     \* digits in the low word: 18
  ChunkDigits,  \* digits of one FOUR_DIGITS entry: 4
  BufSize,      \* bytes in the buffers tmp and out: 42
  IntWord,      \* how many values an int has: 2^32
  Inputs,       \* the native values the function is called with
  Scales        \* the scales it is called with: of an object that no cast
                \* has made, whatever its bytes 16 to 19 hold

HalfInt == IntWord \div 2

ASSUME OutAssumption ==
  /\ LoDigits \in Nat /\ 0 < LoDigits /\ LoDigits < MaxDigits
  /\ Pow[LoDigits] <= HalfWord
  /\ ChunkDigits \in Nat /\ 0 < ChunkDigits /\ ChunkDigits <= LoDigits
  /\ HalfWord * Pow[LoDigits] <= Pow[MaxDigits]
  /\ BufSize \in Nat /\ MaxDigits + 4 <= BufSize /\ BufSize <= MaxPow
  /\ IntWord \in Nat /\ IntWord % 2 = 0
  /\ MaxDigits < HalfInt /\ HalfInt % ChunkDigits = 0
  /\ Inputs \subseteq Native
  /\ Scales \subseteq 0..(IntWord - 1)

VARIABLES
  pc,       \* the loop the function is in
  value,    \* native_value, unpacked from the argument
  scale,    \* decimal->scale
  word,     \* the two words hi and lo
  left,     \* fractional_digit, or lo_scale in the loops of case 2B
  text,     \* the digits written so far, by part
  garbled   \* whether some character written is not a digit

vars == <<pc, value, scale, word, left, text, garbled>>

Words == {"lo", "hi"}
Parts == {"int", "frac"}

NoDigits == [len |-> 0, num |-> 0]

\* The n characters that are written for the number d: an entry of
\* FOUR_DIGITS, or one digit.
Entry(d, n) == [len |-> n, num |-> d]

\* Copying the characters e in front of the string t.
Push(t, e) == [len |-> t.len + e.len, num |-> t.num + e.num * Pow[t.len]]

\* A uint32_t that is stored in an int.
ToInt(v) == ((v + HalfInt) % IntWord) - HalfInt

\* Each loop takes its digits from one word and writes one part.
Counted == {"frac_lo", "frac_hi", "int_lo"}
Tail    == {"tail_lo", "tail_hi"}
Phases  == {"call", "done", "overrun"} \union Counted \union Tail

WordOf(phase) == IF phase \in {"frac_hi", "tail_hi"} THEN "hi" ELSE "lo"
PartOf(phase) == IF phase \in {"frac_lo", "frac_hi"} THEN "frac" ELSE "int"

\* -native_value: negating the least __int128_t overflows, and wraps.
AbsValue(v) == IF v < 0 /\ v # -NativeLimit THEN -v ELSE v

Init ==
  /\ pc = "call"
  /\ value \in Inputs
  /\ scale \in Scales
  /\ word = [w \in Words |-> 0]
  /\ left = 0
  /\ text = [p \in Parts |-> NoDigits]
  /\ garbled = FALSE

\* Variants with a mistake in them; each is used to see that a property
\* notices the mistake.  Here the whole scale is counted off the low word,
\* and then the scale is kept as it is, unsigned.
SplitUncapped ==
  LET abs == AbsValue(value)
  IN  /\ pc = "call"
      /\ pc' = "frac_lo"
      /\ word' = [lo |-> ToInt64(CMod(abs, Pow[LoDigits])),
                   hi |-> ToInt64(CDiv(abs, Pow[LoDigits]))]
      /\ left' = ToInt(scale)
      /\ UNCHANGED <<value, scale, text, garbled>>

SplitUnsigned ==
  LET abs == AbsValue(value)
      hi  == ToInt64(CDiv(abs, Pow[LoDigits]))
  IN  /\ pc = "call"
      /\ pc' = "frac_lo"
      /\ word' = [lo |-> ToInt64(CMod(abs, Pow[LoDigits])), hi |-> hi]
      /\ left' = IF hi # 0 /\ scale > LoDigits THEN LoDigits ELSE scale
      /\ UNCHANGED <<value, scale, text, garbled>>

\* The split into words and the choice of case 1, 2A or 2B: the low word is
\* used up before the high word only when the scale exceeds its digits.
Split ==
  LET abs == AbsValue(value)
      hi  == ToInt64(CDiv(abs, Pow[LoDigits]))
      lo  == ToInt64(CMod(abs, Pow[LoDigits]))
  IN  /\ pc = "call"
      /\ pc' = "frac_lo"
      /\ word' = [lo |-> lo, hi |-> hi]
      /\ left' = IF hi # 0 /\ scale > LoDigits THEN LoDigits ELSE ToInt(scale)
      /\ UNCHANGED <<value, scale, text, garbled>>

\* The characters in tmp, with the NUL and, once it is written, the dot.
Used ==
  1 + text["frac"].len + text["int"].len
    + (IF pc \in {"int_lo"} \union Tail THEN 1 ELSE 0)

Room(n) == Used + n <= BufSize

\* The n lowest digits of the phase's word go to the front of its part.  A
\* negative word gives characters below '0', or an index outside FOUR_DIGITS:
\* the text is then no number, and what num holds for it has no meaning.
Emit(phase, n) ==
  LET w == word[WordOf(phase)]
  IN  /\ word' = [word EXCEPT ![WordOf(phase)] = CDiv(w, Pow[n])]
      /\ text' = [text EXCEPT ![PartOf(phase)] = Push(@, Entry(CMod(w, Pow[n]), n))]
      /\ garbled' = (garbled \/ CMod(w, Pow[n]) < 0)

\* Nothing checks that tmp has room: without it the write is undefined.
Write(phase, n) ==
  \/ Room(n) /\ Emit(phase, n) /\ UNCHANGED pc
  \/ ~Room(n) /\ pc' = "overrun" /\ UNCHANGED <<word, text, garbled>>

\* The dot, with which the next loop begins.
WriteDot(phase) == pc' = IF Room(1) THEN phase ELSE "overrun"

CountedDigit(phase) ==
  /\ pc = phase
  /\ left % ChunkDigits # 0
  /\ Write(phase, 1)
  /\ left' = left - 1
  /\ UNCHANGED <<value, scale>>

CountedChunk(phase) ==
  /\ pc = phase
  /\ left % ChunkDigits = 0 /\ left > 0
  /\ Write(phase, ChunkDigits)
  /\ left' = left - ChunkDigits
  /\ UNCHANGED <<value, scale>>

\* Both loops that count digits are over; a scale that is negative as an int
\* leaves less than zero.
CountedOff == left % ChunkDigits = 0 /\ left <= 0

\* Case 1: without an integer part the function returns, else the dot is
\* written and the rest of the low word follows.
EndCase1 ==
  /\ pc = "frac_lo" /\ CountedOff /\ word["hi"] = 0
  /\ IF word["lo"] = 0 THEN pc' = "done" ELSE WriteDot("tail_lo")
  /\ UNCHANGED <<value, scale, word, left, text, garbled>>

\* A variant that forgets the digits that came from the low word.
EndLo2AWhole ==
  /\ pc = "frac_lo" /\ CountedOff /\ word["hi"] # 0 /\ scale > LoDigits
  /\ pc' = "frac_hi"
  /\ left' = ToInt(scale)
  /\ UNCHANGED <<value, scale, word, text, garbled>>

\* Case 2A: the rest of the fraction comes from the high word.
EndLo2A ==
  /\ pc = "frac_lo" /\ CountedOff /\ word["hi"] # 0 /\ scale > LoDigits
  /\ pc' = "frac_hi"
  /\ left' = ToInt(scale - LoDigits)
  /\ UNCHANGED <<value, scale, word, text, garbled>>

EndHi2A ==
  /\ pc = "frac_hi" /\ CountedOff
  /\ IF word["hi"] = 0 THEN pc' = "done" ELSE WriteDot("tail_hi")
  /\ UNCHANGED <<value, scale, word, left, text, garbled>>

\* A variant that writes all digits of a low word after the dot.
EndFrac2BWhole ==
  /\ pc = "frac_lo" /\ CountedOff /\ word["hi"] # 0 /\ scale <= LoDigits
  /\ WriteDot("int_lo")
  /\ left' = LoDigits
  /\ UNCHANGED <<value, scale, word, text, garbled>>

\* Case 2B: after the dot, the rest of the low word with its leading zeros.
EndFrac2B ==
  /\ pc = "frac_lo" /\ CountedOff /\ word["hi"] # 0 /\ scale <= LoDigits
  /\ WriteDot("int_lo")
  /\ left' = LoDigits - scale
  /\ UNCHANGED <<value, scale, word, text, garbled>>

EndInt2B ==
  /\ pc = "int_lo" /\ CountedOff
  /\ pc' = "tail_hi"
  /\ UNCHANGED <<value, scale, word, left, text, garbled>>

\* The leading digits: chunks while more than one chunk is left, then digits.
TailChunk(phase) ==
  /\ pc = phase
  /\ word[WordOf(phase)] > Pow[ChunkDigits]
  /\ Write(phase, ChunkDigits)
  /\ UNCHANGED <<value, scale, left>>

TailDigit(phase) ==
  /\ pc = phase
  /\ word[WordOf(phase)] \in 1..Pow[ChunkDigits]
  /\ Write(phase, 1)
  /\ UNCHANGED <<value, scale, left>>

\* A variant that waits for the word to be zero, which a negative word is not.
EndTailAtZero(phase) ==
  /\ pc = phase
  /\ word[WordOf(phase)] = 0
  /\ pc' = "done"
  /\ UNCHANGED <<value, scale, word, left, text, garbled>>

EndTail(phase) ==
  /\ pc = phase
  /\ word[WordOf(phase)] <= 0
  /\ pc' = "done"
  /\ UNCHANGED <<value, scale, word, left, text, garbled>>

Next ==
  \/ Split
  \/ \E phase \in Counted : CountedDigit(phase) \/ CountedChunk(phase)
  \/ EndCase1 \/ EndLo2A \/ EndHi2A \/ EndFrac2B \/ EndInt2B
  \/ \E phase \in Tail : TailChunk(phase) \/ TailDigit(phase) \/ EndTail(phase)

Spec == Init /\ [][Next]_vars

FairSpec == Spec /\ WF_vars(Next)

-----------------------------------------------------------------------------
\* Every variable keeps its type; in particular no counter of digits leaves
\* the range of an int, whatever scale it starts from.
TypeOK ==
  /\ pc \in Phases
  /\ value \in Inputs
  /\ scale \in Scales
  /\ word \in [Words -> Int]
  /\ left \in -HalfInt .. HalfInt - 1
  /\ text \in [Parts -> [len : Nat, num : Int]]
  /\ garbled \in BOOLEAN

\* The scales that a cast can give (see TableTypeOK of FxyPtyTable).
OfCast == scale <= MaxDigits

\* The values whose high word is an int64_t: 10^18 * 2^63 and no more.
Fits(v) == -(HalfWord * Pow[LoDigits]) < v /\ v < HalfWord * Pow[LoDigits]

Magnitude(v) == IF v < 0 THEN -v ELSE v

\* The text spells the value: scale digits after the dot, which with the
\* integer part make up the absolute value, and no superfluous leading zero.
\* (The sign character is no part of it; it is counted in Chars, and printed
\* has it.)
Spells ==
  /\ ~garbled
  /\ text["frac"].len = scale
  /\ text["frac"].num \in 0..Pow[scale] - 1
  /\ text["int"].num * Pow[scale] + text["frac"].num = Magnitude(value)
  /\ text["int"].len > 0 => text["int"].num >= Pow[text["int"].len - 1]
  /\ text["int"].len = 0 => text["int"].num = 0

\* When _fxypty_out returns, its text spells the argument, whichever of the
\* three cases it went through, provided that the high word fits an int64_t
\* and the object was made by a cast.
OutCorrect == (pc = "done" /\ OfCast /\ Fits(value)) => Spells

\* The characters that are written to out: the sign, the digits, the dot, the
\* terminating NUL, and a leading "0" where nothing is left of the words.
Chars ==
  (IF value < 0 THEN 1 ELSE 0) + text["frac"].len + 1 + 1
    + (IF text["int"].len = 0 /\ word["lo"] = 0 /\ word["hi"] = 0
       THEN 1 ELSE text["int"].len)

\* No write to tmp is before its start, and none to out is past its end.
InBuffers == pc # "overrun" /\ (pc = "done" => Chars <= BufSize)

\* A call for an object that a cast has made stays in its buffers, whatever
\* value and scale the object has: also where the high word does not fit.
BufferFits == OfCast => InBuffers

\* fxypty_out generates a string from the fxypty object: it stays in its
\* buffers for every object it is called with, also one that no cast has made.
NeverOverruns == InBuffers

\* Every loop ends, for any value and scale: the function returns, or a write
\* outside tmp stops it before.
Returns == <>(pc \in {"done", "overrun"})

\* The text that is returned, as the abstract specification sees it.
printed ==
  IF pc \notin {"done", "overrun"} THEN <<>>
  ELSE <<[neg |-> value < 0, int |-> text["int"].num,
          frac |-> text["frac"].num, digits |-> text["frac"].len]>>

Text == INSTANCE FxyPtyText WITH
  Printable <- 1 - (HalfWord * Pow[LoDigits]) .. (HalfWord * Pow[LoDigits]) - 1

\* The digit loops implement the abstract specification: the function
\* returns, once, with the decimal number it was given where its high word
\* fits and a cast has made it.
ImplementsText == Text!ReturningSpec

\* MAXIMUM_DIGIT promises 38 digits: the text of every value of that many
\* digits, cast to any modifier, spells the value.
OutMaximumDigit ==
  (pc = "done" /\ OfCast /\ Magnitude(value) < Pow[MaxDigits]) => Spells

=============================================================================
