------------------------------ MODULE Numerals ------------------------------
(***************************************************************************)
(* Numbers and their text: itoa and atoi, which kernel (lib.c) and user    *)
(* land (stdlib.c) both have, the isnum of commands.c, and the printf and  *)
(* scanf of stdio.c.                                                       *)
(*                                                                         *)
(* Numbers are typed, or printed with a format, and read back with it.  An *)
(* int has WIDTH bits, and a character is its code.                        *)
(***************************************************************************)
EXTENDS Integers, Sequences, SequencesExt

CONSTANTS
    WIDTH,
    Typed,    \* the characters that are typed
    MaxText,  \* bound: the length of a text that is typed
    Format    \* the formats, of one or two symbols, no number before a digit

VARIABLES
    format,
    args,   \* what to print
    text,
    got,    \* what was read
    step    \* "print", "read" or "done"

vars == <<format, args, text, got, step>>

Minimum == -(2 ^ (WIDTH - 1))
Maximum == 2 ^ (WIDTH - 1) - 1
Int_Wrapped(n) == ((n - Minimum) % (2 ^ WIDTH)) + Minimum

Space == 32
Plus == 43
Minus == 45
Zero == 48

isdigit(c) == c \in Zero .. Zero + 9
isspace(c) == c = Space

(* The division of C, towards zero.                                        *)
Quotient(a, b) == IF a < 0 THEN -((-a) \div b) ELSE a \div b
Remainder(a, b) == a - b * Quotient(a, b)

DigitChar(r) == IF r < 10 THEN r + Zero ELSE r + 65 - 10

(* The digits of every v, most significant first.                          *)
Digits(b) ==
    LET D[v \in Minimum .. Maximum] ==
          LET digit == <<DigitChar(Remainder(v, b))>>
          IN  IF Quotient(v, b) = 0 THEN digit ELSE D[Quotient(v, b)] \o digit
    IN  D

itoa_Unsigned(v, b) == Digits(b)[v]

(* -v is v again for the minimum, whose digits are then below "0".         *)
itoa(v, b) ==
    IF v < 0 /\ b = 10
    THEN <<Minus>> \o Digits(b)[Int_Wrapped(-v)]
    ELSE Digits(b)[v]

DropWhile(Test(_), s) ==
    LET kept == {i \in DOMAIN s : ~Test(s[i])}
    IN  IF kept = {} THEN <<>> ELSE SubSeq(s, CHOOSE i \in kept : \A j \in kept : i <= j, Len(s))

atoi(str) ==
    LET s == DropWhile(isspace, str)
        signed == s # <<>> /\ Head(s) \in {Minus, Plus}
        d == IF signed THEN Tail(s) ELSE s
        rest == DropWhile(isdigit, d)
        num == FoldLeft(LAMBDA n, c : Int_Wrapped(n * 10 + c - Zero),
                        0, SubSeq(d, 1, Len(d) - Len(rest)))
    IN  Int_Wrapped(num * (IF signed /\ Head(s) = Minus THEN -1 ELSE 1))

(* Digits, and a sign before them, up to a space or the end.               *)
isnum(str) ==
    LET sign == IF str # <<>> /\ Head(str) = Minus THEN 1 ELSE 0
    IN  /\ Len(str) > sign /\ isdigit(str[sign + 1])
        /\ \A i \in sign + 1 .. Len(str) :
             isdigit(str[i]) \/ \E j \in sign + 1 .. i : str[j] = Space

-----------------------------------------------------------------------------
(* Formats. *)

Percent == 37
SymbolD == 100
SymbolS == 115
SymbolC == 99

Based == (SymbolD :> 10) @@ (105 :> 10) @@ (98 :> 2) @@ (120 :> 16)

(* printi, printb, printx, prints, and a character.                        *)
Converted(symbol, arg) ==
    CASE symbol \in DOMAIN Based -> itoa(arg, Based[symbol])
      [] symbol = SymbolS -> arg
      [] symbol = SymbolC -> <<arg % 256>>

(* An unknown symbol ends it.                                              *)
fprintformat(f, values) ==
    LET Put(p, c) ==
          CASE p.over -> p
            [] ~p.over /\ ~p.symbol /\ c # Percent -> [p EXCEPT !.out = Append(@, c)]
            [] ~p.over /\ ~p.symbol /\ c = Percent -> [p EXCEPT !.symbol = TRUE]
            [] ~p.over /\ p.symbol /\ c = Percent ->
                 [p EXCEPT !.symbol = FALSE, !.out = Append(@, c)]
            [] ~p.over /\ p.symbol /\ c \in DOMAIN Based \cup {SymbolS, SymbolC} ->
                 [p EXCEPT !.symbol = FALSE, !.left = Tail(@),
                           !.out = @ \o Converted(c, Head(p.left))]
            [] OTHER -> [p EXCEPT !.over = TRUE]
    IN  FoldLeft(Put, [out |-> <<>>, left |-> values, symbol |-> FALSE, over |-> FALSE], f).out

From(t, j) == SubSeq(t, j, Len(t))

(* while (isdigit(aux[j+1])) j++                                           *)
AfterNumber(t, j) == CHOOSE k \in j + 1 .. Len(t) + 1 :
                       /\ \A l \in j + 1 .. k - 1 : isdigit(t[l])
                       /\ k = Len(t) + 1 \/ ~isdigit(t[k])

(* What is read from t, up to what does not fit.  A "%%" skips one         *)
(* character more than the one it stands for.                              *)
scanf(f, t) ==
    LET S[i \in 1 .. Len(f) + 2, j \in 1 .. Len(t) + 2] ==
          CASE i > Len(f) \/ j > Len(t) -> <<>>
            [] f[i] # Percent -> IF f[i] = t[j] THEN S[i + 1, j + 1] ELSE <<>>
            [] f[i + 1] = SymbolD ->
                 IF t[j] \in {Plus, Minus} \/ isdigit(t[j])
                 THEN <<atoi(From(t, j))>> \o S[i + 2, AfterNumber(t, j)] ELSE <<>>
            [] f[i + 1] = SymbolS -> <<From(t, j)>>
            [] f[i + 1] = Percent -> IF t[j] = Percent THEN S[i + 2, j + 2] ELSE <<>>
            [] OTHER -> S[i + 2, j + 1]
    IN  S[1, 1]

-----------------------------------------------------------------------------
Symbols(f) == [n \in 1 .. Len(f) - 1 |-> IF f[n] = Percent THEN f[n + 1] ELSE 0]
Fits(f) == SelectSeq(Symbols(f), LAMBDA c : c \in DOMAIN Based \cup {SymbolS, SymbolC})

(* What may be printed: any number, a few words, a character.              *)
Values(symbol) ==
    CASE symbol \in DOMAIN Based -> Minimum .. Maximum
      [] symbol = SymbolS -> {<<65>>, <<50, 65>>}
      [] symbol = SymbolC -> {65}

Init ==
    /\ got = <<>>
    /\ \/ /\ format \in Format /\ step = "print" /\ text = <<>>
          /\ args \in LET symbols == Fits(format)
                     IN  IF Len(symbols) = 1 THEN {<<v>> : v \in Values(symbols[1])}
                         ELSE {<<v, w>> : v \in Values(symbols[1]), w \in Values(symbols[2])}
       \/ /\ format = <<Percent, SymbolD>> /\ step = "read" /\ args = <<>>
          /\ text \in SeqOf(Typed, MaxText) /\ isnum(text)

printf ==
    /\ step = "print" /\ step' = "read"
    /\ text' = fprintformat(format, args)
    /\ UNCHANGED <<format, args, got>>

Reads ==
    /\ step = "read" /\ step' = "done"
    /\ got' = scanf(format, text)
    /\ UNCHANGED <<format, args, text>>

Next == printf \/ Reads

Spec == Init /\ [][Next]_vars
-----------------------------------------------------------------------------
(* Properties. *)

(* What a numeral in a base says, up to a space.                           *)
Said(t, b) ==
    LET negative == Head(t) = Minus
        end == {i \in DOMAIN t : t[i] = Space}
        d == SubSeq(t, IF negative THEN 2 ELSE 1,
                    IF end = {} THEN Len(t) ELSE (CHOOSE i \in end : \A j \in end : i <= j) - 1)
        Worth(c) == IF isdigit(c) THEN c - Zero ELSE c - 65 + 10
    IN  FoldLeft(LAMBDA n, c : n * b + Worth(c), 0, d) * (IF negative THEN -1 ELSE 1)

(* A number is the one that its text says, whether it is printed or read,  *)
(* and numbers that are printed with a format are read back with it: but   *)
(* for the least of all, for the negative ones in a base that is not ten,  *)
(* for a text that says more than an int, and for a format with "%%"       *)
(* (lib.c:56-115, stdlib.c:66-124, commands.c:276-287, stdio.c:56-94,      *)
(* 166-208).                                                               *)
NumbersAreWhatTheySay ==
    LET symbols == Fits(format)
        Fine(i) ==
          symbols[i] \in DOMAIN Based => args[i] > (IF symbols[i] = SymbolD THEN Minimum ELSE -1)
    IN  step = "done" =>
          IF args = <<>>
          THEN Said(text, 10) \in Minimum .. Maximum => got = <<Said(text, 10)>>
          ELSE (\A i \in DOMAIN args : Fine(i)) =>
                 /\ (Len(format) = 2 /\ symbols[1] \in DOMAIN Based) =>
                      Said(text, Based[symbols[1]]) = args[1]
                 /\ (ToSet(symbols) \subseteq {SymbolD, SymbolS}
                       /\ Percent \notin ToSet(Symbols(format))) => got = args
=============================================================================
