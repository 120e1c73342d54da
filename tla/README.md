# A verification project for pgfixeypointy

pgfixeypointy is a PostgreSQL extension: a user-defined type `fxypty`, a fixed-point
decimal of a 128-bit integer and a scale. This directory holds TLA+ models of it, the
TLC runs that check them, and proofs that the TLA+ proof system (TLAPS) checks.

## The system

| Component | Code | State | Operations |
| --- | --- | --- | --- |
| stored form | `src/src/fxypty_impl.cpp` 27-38, `digits.hpp` | `int64_t bytes[2]`, `scale` | write the `__int128_t`, read it (`_pack128`) |
| text output | `_fxypty_out`, `fxypty_out` | `hi`, `lo`, the digit count, `tmp` and `cur_digit` | three cases of digit loops |
| text input and cast | `fxypty_in`, `fxypty`, `fxypty_out_casted`, `fxypty_in_casted`, `_fxypty_in` | the object behind a pointer: text or decimal | make a text; turn it into a decimal, free it |
| operators | `_fxypty_add` ... `_fxypty_compare`, `fxypty_add` ... `fxypty_gte` | none | a new object, a truth value, or an error |
| minimum and maximum | `fxypty_smaller`, `fxypty_larger` | none | one of the two argument pointers |
| type modifier | `fxypty_typmod_in`, `fxypty_typmod_out` | the column's int32 | pack, unpack, print |
| aggregates | `pgfixeypointy--0.0.1.sql` 150-172 | the transition state | sum, min, max |
| SQL script | `pgfixeypointy--0.0.1.sql` | catalog entries | which function an operator calls, commutators, negators, the length of the type |
| columns | all of the above | a row, its dump | assignment, dump, restore by INSERT or COPY |
| libfixeypointy | empty directory: external | a 128-bit integer | arithmetic, comparison, parsing |

The rest (vendored numeric, benchmarks, two unused digit tables, an unused header, build
scripts) has no part in the running extension.

How they interact: the parser calls `fxypty_in`, which only stores the characters of a
literal. Where a modifier is asked for, the planner adds a call of `fxypty(fxypty, int4)`;
it passes its argument through `fxypty_out_casted` (the identity on the pointer) to
`fxypty_in_casted`, which decodes the modifier, scans the argument as a text, makes a decimal
of it and frees the argument. Operators take pointers and return new objects, or `NULL`, which
is an error of the statement. `fxypty_smaller` and `fxypty_larger` return an argument. A
value that is read from a table points into the row.

What is hard: there are no threads and no messages. The difficulties are those of numbers (a
128-bit value split at 10^18 into two 64-bit words, words that are signed, three cases of
loops, exact buffers), of protocol (a value is a text until it is cast, once; then it must
never be cast again), of aliasing (frees and returned arguments), and of order (the operands'
scales, the rows of an aggregate). A restored dump is a long protocol of all parts: the
modifier and the row are printed, both texts are parsed again, and both must come out as they
were. `PROJECT.json` lists them one by one under `hazards`.

What makes each component correct: the stored form gives the value back; the text spells the
value, in bounds; a modifier and a row survive dumps; the planner may rewrite comparisons;
statements compute with exact numbers; a statement never touches a row it does not store;
aggregates do not depend on the order of rows.

## The modules

* `FxyPtyNumbers`: C conversions and divisions (`ToInt64`, `CDiv`, `CMod`), `Unpack128` and
  `Pack128`, the table `Pow`. Base, word size, precision and table are parameters.
* `FxyPtyOut`: `_fxypty_out`. `pc` names the loop; each iteration of a loop is an action
  (`CountedDigit`, `CountedChunk`, `TailChunk`, `TailDigit`), and so is each passage between
  loops (`Split`, `EndCase1`, `EndLo2A`, `EndHi2A`, `EndFrac2B`, `EndInt2B`, `EndTail`). The
  loops `frac_lo` of the three cases have the same body and share a name. Digits in the
  buffer are kept as their number and their count; a character that is no digit, which only a
  negative word can give, sets `garbled`. Sign, dot and NUL are counted (`Used`, `Chars`) and
  the sign is in `printed`; `Spells` is about the digits. The scale is a `uint32_t` of the
  object that nobody checks, stored in an int (`ToInt`): an object that no cast has made may
  hold any. A write that would be before the start of `tmp` leads to the phase `overrun`, where
  the program's behaviour is undefined and the model stops.
* `FxyPtyText`: what `fxypty_out` promises, printing in one step: the decimal number for the
  values in `Printable` at a scale that a cast gives, an arbitrary outcome for the others, but
  never a call without an end. `FxyPtyOut` implements it, with the values whose high word fits
  as `Printable`.
* `FxyPtyTypmod`: a column is declared, with or without a modifier, used by casts, dumped and
  restored.
* `FxyPtyDecimal`: the functions of `fxypty_impl.cpp` on objects, each as the set of objects it
  may return (empty for `NULL`), over the external operations of the library.
* `FxyPtyPlanner`: the commutators and negators of the SQL script, and the answers a comparison
  may give in every form that follows from them. `FxyPtySession` asks all comparisons this way.
* `FxyPtySession`: a statement and a row. Places hold values, a value points to a cell (or to
  the row) and has the modifier the planner sees; cells hold a text, a decimal, or nothing. A
  literal is a sequence of words, of which `sscanf` takes the first. The actions are
  `Literal`, `LiteralError`, `Cast`, `CastError`, `Operate`, `OperateError`, `Choose` (minimum
  and maximum), `Ask` (comparisons), `Store`, `Fetch`, `End`. An object that is read as what
  it is not gives any result, and may have a scale that no cast gives (`UncastScale` stands
  for all of these). `Spec` lets the planner cast any value that has another modifier;
  `CastFirstSpec` is the discipline of `sql/test.sql`: literals are cast, once, before use,
  nothing else is.
* `FxyPtyExact`: what users are promised of a statement: exact numbers. `FxyPtySession`
  implements it, under the discipline and with one scale.
* `FxyPtyAgg`: the executor hands the rows in any order to the transition function.
* `FxyPtyTable`: a column and one row of it. It extends `FxyPtyTypmod` (each of its actions is
  an action of that module with the row's part added, or leaves it alone), reads texts by
  `FxyPtyDecimal!In` and prints them by the step of an instance of `FxyPtyText`, the
  specification that `FxyPtyOut` was shown to implement. `Insert` casts a literal to the
  column's modifier (`Assign`: `fxypty_in`, `fxypty`, `fxypty_in_casted`), or leaves its
  characters in the row where the planner skips the cast; `DumpTable` and `RestoreTable` go
  through text, for which a row that is no decimal has none in particular, or none at all;
  `Load` inserts the row again, `LoadCopy` calls `fxypty_in` alone. `Cut` is what is read of a
  literal that was copied at the length of the type. `wrote` and `old` record what was written
  and dumped, for the properties.
* `FxyPtyNumbersProofs`, `FxyPtyOutProofs`, `FxyPtyTypmodProofs`, `FxyPtyPlannerProofs`,
  `FxyPtySessionProofs`, `FxyPtyExactProofs` (session against the machine of exact numbers),
  `FxyPtyTableProofs`, `FxyPtyAggProofs`: proofs.
* `MCFxyPtyOut`, `MCFxyPtyTypmod`, `MCFxyPtySession`, `MCFxyPtyTable`, `MCFxyPtyAgg`: instances
  for TLC.

Some modules hold variants of a definition, marked as such: a plausible mistake with which a
property must fail. They are not used by any specification.

## The runs

| Configuration | Shows |
| --- | --- |
| `MCFxyPtyOutAll` | every value, at every scale of a cast: `OutCorrect`, `BufferFits`; at others too: `TypeOK`, `Returns`, `ImplementsText` |
| `MCFxyPtyOutDigits` | scales of a cast, fails: `OutMaximumDigit` |
| `MCFxyPtyOutUncast` | any scale, fails: `NeverOverruns` |
| `MCFxyPtyTypmodNegative` | fails: `AcceptedRepresented` |
| `MCFxyPtyTable` | restores by INSERT: `TypeOK` and `TableTypeOK`; `Represented` of the modifier; `RowRight` and `LoadedAsDumped` of the row |
| `MCFxyPtyTableCopy` | restores by COPY too, fails: `RowRight` |
| `MCFxyPtyTableCut` | literals of any length, fails: `InsertedRight` |
| `MCFxyPtySession` | one scale, disciplined: `TypeOK`, `LiveDecimals`, `RowKept`, `ImplementsExact`, `OperatorsExact`, `ComparesValues` |
| `MCFxyPtySessionAdd` | two scales, disciplined, fails: `AddIsSum` |
| `MCFxyPtySessionRecast` | free, fails: `CastKeepsNumber` |
| `MCFxyPtySessionFreed` | free, fails: `RowKept` |
| `MCFxyPtyAgg` | `TypeOK`, `ExtremeRight`, `SumRight`, `ErrorDeserved` |

The configurations that fail check what a comment or document of the repository says; the
`findings` of `PROJECT.json` quote it. Seven things to know about them. Comparisons, like sums,
are of the integers and never of the scales: `ComparesValues` holds with one scale and fails
with two, for the reason that `AddIsSum` does. A value of 38 digits is misprinted from 9.23e36
on. Printing an object that no cast has made, such as a literal without a modifier or a row
loaded by COPY, takes characters or bytes that were never written for the scale, and the text
then need not fit the buffers; `BufferFits` and `OutCorrect` are about objects that a cast has
made (`OfCast`), whose scales `TableTypeOK` bounds. The bytes of a decimal that is cast again
usually are no text of a number and the cast then fails; sometimes they are (0.49 is stored as
the character `1` and NULs), and the model allows for any outcome, since the library is not
there to say. Freeing a row's object is the release of memory that was never allocated, and
what the server makes of it is not modelled beyond the loss of the object. A row restored by
COPY is the characters of its text; the same characters are what `x = '1.5'` compares, where
no modifier asks for a cast. A literal is cut only where a copy of it is made between the
parser and the cast, which is PostgreSQL's choice; the model allows for both.

`RowRight` and `LoadedAsDumped` hold for texts that fit the length of the type and values that
are printable (`Safe`, `SafeValue`); for the others the failing runs show why they cannot.

### Bounds

* `FxyPtyOut`: base 3, words of 128 values, a low word of 3 digits, chunks of 2, 8 digits at
  most and buffers of 12 bytes. As in the code, the digits of the low word are no multiple of
  a chunk, a low word is less than half of an int64_t's range, values of the full precision
  overflow the high word, and all three cases, several chunks per loop and both signs occur.
  All 16384 values are initial states, each with the 9 scales of a cast and with 5 others: the
  first beyond them, one just below and one at the size of the buffer, one that is negative as
  an int of 5 bits, and the largest.
* `FxyPtyTypmod`, on its own: halves of 4 bits and 6 digits; lists of one to three numbers on
  both sides of every bound of the check.
* `FxyPtyTable`: binary digits, native values of two three-bit words, 4 digits, halves of 3
  bits, 6 bytes for a value; again lists on both sides of every bound. The texts have both
  signs, one is rounded, one is cut in its fraction and one before its dot, one has no room, and
  the values of some are not printable. Dumps and restores are not bounded.
* `FxyPtySession`: binary digits, native values of two two-bit words (16 values), three
  digits; two places and three cells. No step reads more than two values, and a result may
  take the place of an operand. The literals have no word, one or two; they have both signs,
  one is rounded and one has no room. The properties name no cell and no place and are of
  states and steps, so both are symmetric. The two free runs that end with a cast of a decimal
  need one place only.
* `FxyPtyAgg`: the same numbers, four rows, five values and NULL.

### Fairness and stopping

`Returns` and `ImplementsText` assume weak fairness of the next-state relation of
`_fxypty_out`: it is one sequential call, which runs on. The abstract specification states no
fairness of its own but that the call is over in the end. No other property needs fairness.
`CHECK_DEADLOCK FALSE` is given where a call returns, a column is rejected or a query is
answered.

### Assumptions

* The library: a result that is an `__int128_t` is returned, exactly, or as one of the two
  neighbours at the scale; any other result, division by zero and a text without room throw.
* PostgreSQL: the cast is called where the value has another modifier and skipped for a negative
  one; values of a column point into the row; memory of a statement is freed when it ends;
  strict functions are not called with NULL; aggregate states are copied. The planner may ask a
  comparison in any form that follows from the declared pairs. While it plans, it may copy a
  constant with the length of the type; the bytes behind such a copy are any digits, or no part
  of a number. COPY calls the input function and no cast; a dump with INSERTs is loaded as any
  INSERT. A failed INSERT of a restore loses its row and the restore goes on.
* Negating the least `__int128_t` wraps, and so does a scale that is stored in an int. Reading
  an object as what it is not gives any value and any scale. After a write outside `tmp`
  nothing is known of the program.

## What is proved

For every value of the constants that satisfies the modules' assumptions; those of the
code (base 10, words of 2^64, ints of 2^32, 18, 4, 38 and 42) do. `Pow` is the mathematical
table; the code's POWER_OF_TEN has 38 entries, of which it uses the one at 18.

* `PackUnpack`: the stored words give every value back. The table of powers is only assumed
  to start with 1 and to grow by a factor of the base; that exponents add (`PowSum`) follows.
* `TypeCorrect`, `TextFitsBuffer`, `TextSpellsValue`, `PrintsDecimal` (in `FxyPtyOutProofs`).
  `TypeOK` holds at every scale an object may have: the counter stays an int, and what is used
  of `tmp` stays within it up to the write that overruns it (`TypeInv`). The buffer bound, for
  the scales of a cast, is inductive only with the number of digits each loop may still write:
  `SizeInv` bounds, by loop, the digits written against the size of what is left of the word,
  for all values. `TextSpellsValue` needs `ValueInv`: what the words still hold, shifted by
  the digits written, and the number spelled so far add up to the absolute value; it is kept
  for values whose high word fits, at those scales. With both, the last step of the loops maps
  to the one step of `FxyPtyText` and all others to a stutter.
* `StepsBounded`: every step writes a digit or goes on to a later loop, for words of either
  sign and any scale, so a call takes at most `BufSize + 3` steps, and `MaxDigits + 4` for an
  object that a cast has made. From this to `Returns` only the
  fairness of the step is missing.
* `TextIsString`, `DigitsStay`: what the model keeps of a text, lengths and numbers, loses
  nothing and behaves as the buffer does. A number below the power of its length is spelled by
  one string of digits, found by division and unique digit by digit from the left
  (`StringExists`, `StringUnique`); pushing digits puts them in front of the others
  (`InFrontSpells`), so no step changes a digit that is written.
* `RewritingSafe`: a comparison and its rewritings have one answer, for objects of any scales,
  since all are about the sign of the same comparison of two integers. `OperandsCommute`: sums
  and products of one scale do not depend on the order, as their declared commutators require.
* `DecodeEncode`, `TypeCorrect`, `ModifierKept` (in `FxyPtyTypmodProofs`): the two
  halves of the int32 do not touch, so dumping and restoring is the identity on what was
  declared with a fraction of at least 0, and a cast reads what was declared (`CastKept`).
* `ReadsPrinted`, `RowKeeps`, `DumpsReload`, `TableTypeCorrect` (in `FxyPtyTableProofs`):
  every step of the table is a step of `FxyPtyTypmod` or leaves it unchanged, so the
  invariants of the modifier hold of it. `RowRight` is not inductive: while a table is dumped
  there is no row. `DataInv` adds that the object in the dump is as right as the row was and
  that the dump has its text, which is read back as that very object; so no restore rounds a
  second time. `TableTypeCorrect` needs that a cast reads a scale of at most the maximum from
  the int32 of any accepted modifier, those with a negative fraction included.
* `TypeCorrect`, `ValuesLive`, `OnlyStoresChangeRow` (in `FxyPtySessionProofs`), of
  `CastFirstSpec`, for any numbers of places and cells and any scales. That no free hits a value
  in use is inductive only with `BareInv`: a bare literal is a text, outside the row, in a cell
  that no other value points to, although other values share cells (minimum, maximum) and even
  the row's.
* `SessionExact`, `ResultsExact`, `ComparisonsExact` (in `FxyPtyExactProofs`), of
  `CastFirstSpec`, assuming `OneScale`: all modifiers have the column's scale. A stored integer
  times `Grain` is its number in units of the last digit, so sums and comparisons of the words
  are those of the numbers; a rounded product or quotient is one of the two neighbours of the
  true one, each less than one away. With `ValuesLive` every action of the session maps to the
  corresponding step of `FxyPtyExact` or to a stutter, errors for lack of room included.
* `TypeCorrect`, `ExtremesCorrect` (in `FxyPtyAggProofs`): `ExtremeRight` is inductive with the
  types; comparing two objects is comparing the integers read back from their words.
* `SumsCorrect`, `ErrorsDeserved` (in `FxyPtyAggProofs`): the state of a sum is the total of the
  rows seen. The total is a fold that picks rows in an order of its own, the query picks
  another; the proof shows that there is an additive function of the sets of rows and that the
  fold is that function, so that a row adds its value whenever it comes. A failing addition
  means that the rows seen and the next one have a total that no `__int128_t` holds.

Inductions over numbers, lengths and sets of rows are written as the choice of a least
counterexample (`LeastNatural`, `MinimalSubset`), from the library's facts on well-founded
relations.

Model-checked only: `Returns` and the liveness part of `ImplementsText`, as the prover has no
rules for fairness.

## The plan

1. Done: numbers, text output with its abstract specification, modifier, session with its
   abstract specification, aggregates.
2. Done: the operator pairs and the planner's rewriting (`FxyPtyPlanner`).
3. Done: columns, with the data's way through input and output, dumps and restores, and copies
   cut at 24 bytes (`FxyPtyTable`), composed of modifier, input and abstract output.
4. Done: proofs of all safety invariants of `FxyPtyOut`, `FxyPtyTypmod`, `FxyPtySession` and
   `FxyPtyTable` and `FxyPtyAgg`, and of the refinement `ImplementsExact`.
5. Done: proofs about the models themselves: how long a call of the digit loops may run, and
   that lengths and numbers stand for the strings in the buffer.
6. Left to the model checker: that the digit loops return, which needs fairness.

## Not modelled

* Texts of 42 characters or more, which overrun `input_buffer`, and words that are no numbers:
  what the library makes of them is not in the repository.
* What is read of an object that is not what it is taken for, beyond "any value and any scale",
  and what the program does after a write outside its buffers.
* The number of digits of a modifier, which the code decodes and does not use (`fxypty.c` 125),
  and fractions below -2^16 in a modifier.
* A comparison for which the library throws: nothing in the repository shows that it can.
* Logging by `printf`, the unused digit tables and header, the build, and all vendored code.
