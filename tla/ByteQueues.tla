----------------------------- MODULE ByteQueues -----------------------------
(***************************************************************************)
(* What the fifos promise (Kernel/include/fifo.h and the design report,    *)
(* p. 8): each is a bounded queue of bytes with a line of readers.  A      *)
(* write appends as much of its bytes as there is room for, from the       *)
(* first, and says how many; a byte is given once, in the order of the     *)
(* writes; the line is served in order, each reader with as much as it     *)
(* asked for and there is, and nobody waits while there are bytes.  One    *)
(* that died in the line is served in its turn: those bytes are lost.      *)
(* Only who reads from a queue that is closed meanwhile may be told        *)
(* anything.                                                               *)
(***************************************************************************)
EXTENDS Naturals, Sequences, SequencesExt

CONSTANTS Queue, Reader, NULL, Byte, Capacity, Longest

VARIABLES
    content,  \* the bytes of each queue
    line,     \* its waiting readers
    reads,    \* the queue that each reader waits for, or has yet to return from
    want,     \* how many bytes one in a line asks for
    given,    \* the bytes it has been given meanwhile
    shut,     \* the readers whose queue was closed meanwhile
    dead,     \* those that died
    call      \* what the call of the last step was given and said

vars == <<content, line, reads, want, given, shut, dead, call>>

Init ==
    /\ content = [k \in Queue |-> <<>>]
    /\ line = [k \in Queue |-> <<>>]
    /\ reads = [r \in Reader |-> NULL]
    /\ want = [r \in Reader |-> 0]
    /\ given = [r \in Reader |-> <<>>]
    /\ shut = {}
    /\ dead = {}
    /\ call = <<>>

UpTo(n, m) == IF n <= m THEN n ELSE m

Leave(R) == [r \in Reader |-> IF r \in R THEN 0 ELSE want[r]]

(* Each of `served` in turn takes what it wants from the front, and there  *)
(* is something for each.                                                  *)
Serve(k, all, served) ==
    LET n == Len(served)
    IN  \E cut \in [0 .. n -> 0 .. Len(all)] :
            /\ cut[0] = 0
            /\ \A i \in 1 .. n :
                 /\ cut[i - 1] < Len(all)
                 /\ cut[i] = UpTo(cut[i - 1] + want[served[i]], Len(all))
                 /\ given'[served[i]] = IF served[i] \in dead THEN <<>>
                                         ELSE SubSeq(all, cut[i - 1] + 1, cut[i])
            /\ content' = [content EXCEPT ![k] = SubSeq(all, cut[n] + 1, Len(all))]
            /\ \A r \in Reader \ ToSet(served) : given'[r] = given[r]
            /\ want' = Leave(ToSet(served))

Write(k, source) ==
    LET room == UpTo(Len(source), Capacity - Len(content[k]))
    IN  /\ call' = <<"write", source, room>>
        /\ \E n \in 0 .. Len(line[k]) :
             /\ line' = [line EXCEPT ![k] = SubSeq(@, n + 1, Len(@))]
             /\ Serve(k, content[k] \o SubSeq(source, 1, room), SubSeq(line[k], 1, n))
        /\ content'[k] # <<>> => line'[k] = <<>>
        /\ UNCHANGED <<reads, shut, dead>>

Read(r, k, n) ==
    \/ LET m == UpTo(n, Len(content[k]))
       IN  /\ line[k] = <<>> /\ content[k] # <<>>
           /\ call' = <<"read", SubSeq(content[k], 1, m)>>
           /\ content' = [content EXCEPT ![k] = SubSeq(@, m + 1, Len(@))]
           /\ UNCHANGED <<line, reads, want, given, shut, dead>>
    \/ /\ line[k] # <<>> \/ content[k] = <<>>
       /\ line' = [line EXCEPT ![k] = Append(@, r)]
       /\ reads' = [reads EXCEPT ![r] = k]
       /\ want' = [want EXCEPT ![r] = n]
       /\ call' = <<>>
       /\ UNCHANGED <<content, given, shut, dead>>

Forgets(r) ==
    /\ reads' = [reads EXCEPT ![r] = NULL]
    /\ given' = [given EXCEPT ![r] = <<>>]
    /\ shut' = shut \ {r}
    /\ UNCHANGED <<content, line, want>>

(* A reader that waited learns how much it was given; it may learn that    *)
(* the queue is closed instead, or nothing that makes sense.               *)
Return(r) ==
    /\ \/ given[r] # <<>> /\ call' = <<"returned", Len(given[r])>>
       \/ r \in shut /\ call' = <<"error">>
       \/ r \in shut /\ given[r] = <<>> /\ call' = <<"unset">>
    /\ Forgets(r)
    /\ UNCHANGED dead

Close(k) ==
    /\ content' = [content EXCEPT ![k] = <<>>]
    /\ want' = Leave(ToSet(line[k]))
    /\ line' = [line EXCEPT ![k] = <<>>]
    /\ shut' = shut \cup {r \in Reader : reads[r] = k}
    /\ call' = <<>>
    /\ UNCHANGED <<reads, given, dead>>

Die(r) == Forgets(r) /\ dead' = dead \cup {r} /\ call' = <<>>

(* A new reader takes the place of a dead one.                             *)
Renew(r) == Forgets(r) /\ dead' = dead \ {r} /\ call' = <<>>

Nothing ==
    /\ call' = <<>>
    /\ UNCHANGED <<content, line, reads, want, given, shut, dead>>

Next ==
    \/ Nothing
    \/ \E k \in Queue :
         \/ Close(k)
         \/ \E source \in SeqOf(Byte, Longest) \ {<<>>} : Write(k, source)
         \/ \E r \in Reader, n \in 1 .. Longest : Read(r, k, n)
    \/ \E r \in Reader : Return(r) \/ Die(r) \/ Renew(r)

Spec == Init /\ [][Next]_vars
=============================================================================
