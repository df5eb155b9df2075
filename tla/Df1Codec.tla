------------------------------ MODULE Df1Codec ------------------------------
(***************************************************************************)
(* Reads and writes of SLC tags over DF1: which function an address calls  *)
(* for, its fields and its bit, and how a value goes through a word        *)
(* (df1.c).  The line itself is Df1Link.                                   *)
(*                                                                         *)
(* An address is [letter, file, element, sub, bit], with a name and a      *)
(* number or None.                                                         *)
(***************************************************************************)
EXTENDS Words

CONSTANT None

-----------------------------------------------------------------------------
Words3 == {"ACC", "PRE", "LEN", "POS"}
Flags == {"EN", "TT", "DN"}

\* select_fnct; LEN has an EN in it.
Function(a) ==
    IF a.sub \in Flags \union {"LEN"} THEN "boolean"
    ELSE IF a.sub \in Words3 THEN "integer"
    ELSE IF a.bit # None THEN "boolean"
    ELSE IF a.letter = "F" THEN "float" ELSE "integer"

\* The sub element that a name is.
SubNumber == [ACC |-> 2, PRE |-> 1, LEN |-> 1, POS |-> 2, EN |-> 13, TT |-> 14, DN |-> 15]

\* calc_address: the fields are bytes.  A name with a bit behind it is not
\* known.
CalcAddress(a) ==
    [file |-> CASE a.letter = "O" -> 0 [] a.letter = "I" -> 1 [] OTHER -> a.file % 256,
     element |-> a.element % 256,
     sub |-> IF a.sub # None THEN IF a.bit = None THEN SubNumber[a.sub] ELSE 0
             ELSE IF a.bit # None THEN a.bit % 256 ELSE 0]

\* Mutant: the sub element is left in the address of a bit.
WordOf_Sub(a) == <<CalcAddress(a).file, CalcAddress(a).element, CalcAddress(a).sub>>

\* The word a command is for: read_boolean and write_boolean ask for the
\* first, and look for the bit in it.
WordOf(a) == <<CalcAddress(a).file, CalcAddress(a).element,
               IF Function(a) = "boolean" THEN 0 ELSE CalcAddress(a).sub>>

\* An element 255 announces two bytes more to the device.
Known(table, a) == CalcAddress(a).element < 255 /\ WordOf(a) \in DOMAIN table

-----------------------------------------------------------------------------
\* read_Tag.  Without an answer, or with a status, there is an error.
ReadTag(table, a) ==
    {None} \union
    (IF ~Known(table, a) THEN {}
     ELSE LET w == table[WordOf(a)] IN
          {CASE Function(a) = "boolean" -> IF CalcAddress(a).sub > 15 THEN 0 ELSE Bit(w, CalcAddress(a).sub)
             [] Function(a) = "integer" -> Signed(w)
             [] Function(a) = "float" -> w})

\* write_AB: the bits of the mask are those of the value.
Masked(w, mask, value) == OfBits((BitsOf(w) \ mask) \union (value \cap mask))

Written(w, a, v) ==
    CASE Function(a) = "boolean" -> Masked(w, {CalcAddress(a).sub} \cap 0 .. 15,
                                           IF v # 0 THEN {CalcAddress(a).sub} ELSE {})
      [] Function(a) = "integer" -> Word(v)
      [] Function(a) = "float" -> v

\* write_Tag: a write whose reply is lost may have been done.
WriteTag(table, a, v) ==
    LET done == IF Known(table, a) THEN [table EXCEPT ![WordOf(a)] = Written(@, a, v)] ELSE table IN
    {[table |-> table, res |-> -1], [table |-> done, res |-> -1]}
        \union (IF Known(table, a) THEN {[table |-> done, res |-> 0]} ELSE {})
=============================================================================
