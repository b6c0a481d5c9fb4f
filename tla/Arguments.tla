----------------------------- MODULE Arguments -----------------------------
(***************************************************************************)
(* The words of a line: how Userland/SampleCodeModule/executer.c cuts the  *)
(* arguments of a command at their spaces, and the words that whoever      *)
(* typed the line means.                                                   *)
(***************************************************************************)
EXTENDS Integers, Sequences

Space == " "

(* The last of words goes on with c.                                       *)
Extended(words, c) == [words EXCEPT ![Len(words)] = Append(@, c)]

(* The loop: each space ends a string and starts the next.                 *)
Split(arg) ==
    LET args[j \in 0 .. Len(arg)] ==
            IF j = 0 THEN <<<<>>>>
            ELSE IF arg[j] = Space THEN Append(args[j - 1], <<>>)
            ELSE Extended(args[j - 1], arg[j])
    IN  args[Len(arg)]

(* What it cuts; of an empty line, nothing.                                *)
Strings(arg) == IF arg = <<>> THEN <<>> ELSE Split(arg)

(* The runs of characters of t that are not spaces, in order.              *)
Words(t) ==
    LET words[j \in 0 .. Len(t)] ==
            IF j = 0 THEN <<>>
            ELSE IF t[j] = Space THEN words[j - 1]
            ELSE IF j = 1 \/ t[j - 1] = Space THEN Append(words[j - 1], <<t[j]>>)
            ELSE Extended(words[j - 1], t[j])
    IN  words[Len(t)]
=============================================================================
