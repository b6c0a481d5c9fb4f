--------------------------- MODULE Objects_proofs ---------------------------
(***************************************************************************)
(* What processes wait for, in the state of a system that has all of it:   *)
(* the results about condition variables and fifos, and the proofs about   *)
(* the keyboard, for a buffer of any size and any keys.                    *)
(***************************************************************************)
EXTENDS Objects, OrderLemmas

(* keyboardDriver.c:5: BUFFSIZE is 128.                                    *)
BufferHasRoom == BUFFSIZE \in Nat \ {0}

-----------------------------------------------------------------------------
(* The inductive invariants. *)

KeyTypes ==
    /\ ret_index \in 0 .. BUFFSIZE - 1 /\ store_index \in 0 .. BUFFSIZE - 1
    /\ buff_size \in 0 .. BUFFSIZE /\ loaded \in 0 .. BUFFSIZE
    /\ keys_buffer \in [0 .. BUFFSIZE - 1 -> Keys!Scancode \cup {Keys!None}]
    /\ unread \in Seq(Keys!Scancode)

(* Where the i-th key to be read is.                                       *)
Place(i) == IF ret_index + i - 1 < BUFFSIZE THEN ret_index + i - 1 ELSE ret_index + i - 1 - BUFFSIZE

(* What keys_buffer holds, and where the next key goes.  A get_char that   *)
(* is at its decrement has a key to take, and has read their number.       *)
KeysHeld ==
    ~raced =>
        /\ Len(unread) = buff_size
        /\ store_index = IF ret_index + buff_size < BUFFSIZE THEN ret_index + buff_size
                         ELSE ret_index + buff_size - BUFFSIZE
        /\ \A i \in 1 .. buff_size : unread[i] = keys_buffer[Place(i)]
        /\ pc = "decrement" => loaded = buff_size

(* Also when counts are lost.                                              *)
TakesSome == pc = "decrement" => loaded > 0

KeysInv == KeyTypes /\ KeysHeld /\ TakesSome

-----------------------------------------------------------------------------
(* A key is stored behind the others, or starts a count that is lost.      *)
LEMMA KeyPressKeeps ==
    ASSUME BufferHasRoom, KeysInv, NEW k \in Keys!Scancode, Keys!KeyPress(k)
    PROVE  KeysInv'
<1> DEFINE N == BUFFSIZE
<1>1. /\ N \in Nat \ {0} /\ buff_size \in 0 .. N - 1 /\ store_index \in 0 .. N - 1 /\ ret_index \in 0 .. N - 1
      /\ unread \in Seq(Keys!Scancode) /\ loaded \in 0 .. N
      /\ keys_buffer \in [0 .. N - 1 -> Keys!Scancode \cup {Keys!None}]
  BY DEF KeysInv, KeyTypes, BufferHasRoom, Keys!KeyPress, Keys!IsFull
<1>2. /\ keys_buffer' = [keys_buffer EXCEPT ![store_index] = k]
      /\ store_index' = (store_index + 1) % N /\ buff_size' = buff_size + 1
      /\ ret_index' = ret_index /\ pc' = pc /\ loaded' = loaded
      /\ raced' = (raced \/ pc = "decrement")
      /\ unread' = IF raced' THEN <<>> ELSE Append(unread, k)
  BY DEF Keys!KeyPress, Keys!reader
<1>3. store_index' = IF store_index + 1 < N THEN store_index + 1 ELSE store_index + 1 - N
  <2> DEFINE x == store_index + 1
  <2>1. x \in 0 .. 2 * N - 1
    BY <1>1
  <2>2. N \in Nat \ {0}
    BY <1>1
  <2> HIDE DEF x, N
  <2>3. x % N = IF x < N THEN x ELSE x - N
    BY <2>1, <2>2, WrapsOnce
  <2> QED
    BY <1>1, <1>2, <2>3 DEF x, N
<1>4. KeyTypes'
  <2>1. unread' \in Seq(Keys!Scancode)
    BY <1>1, <1>2
  <2> QED
    BY <1>1, <1>2, <1>3, <2>1 DEF KeyTypes
<1>5. ASSUME ~raced'
      PROVE  /\ Len(unread') = buff_size'
             /\ store_index' = IF ret_index' + buff_size' < N THEN ret_index' + buff_size'
                               ELSE ret_index' + buff_size' - N
             /\ \A i \in 1 .. buff_size' : unread'[i] = keys_buffer'[Place(i)']
             /\ pc' = "decrement" => loaded' = buff_size'
  <2>1. /\ ~raced /\ pc # "decrement" /\ unread' = Append(unread, k)
    BY <1>2, <1>5
  <2>2. /\ Len(unread) = buff_size
        /\ store_index = IF ret_index + buff_size < N THEN ret_index + buff_size
                         ELSE ret_index + buff_size - N
        /\ \A i \in 1 .. buff_size : unread[i] = keys_buffer[Place(i)]
    BY <2>1 DEF KeysInv, KeysHeld
  <2>3. /\ Len(unread') = buff_size + 1
        /\ \A i \in 1 .. buff_size : unread'[i] = unread[i]
        /\ unread'[buff_size + 1] = k
    BY <1>1, <2>1, <2>2, AppendProperties
  <2>4. store_index' = IF ret_index' + buff_size' < N THEN ret_index' + buff_size'
                       ELSE ret_index' + buff_size' - N
    BY <1>1, <1>2, <1>3, <2>2
  <2>5. ASSUME NEW i \in 1 .. buff_size'
        PROVE  unread'[i] = keys_buffer'[Place(i)']
    <3>1. Place(i)' = Place(i)
      BY <1>2 DEF Place
    <3>2. CASE i = buff_size + 1
      <4>1. Place(i) = store_index
        BY <1>1, <2>2, <3>2 DEF Place
      <4> QED
        BY <1>1, <1>2, <2>3, <3>1, <3>2, <4>1
    <3>3. CASE i # buff_size + 1
      <4>1. i \in 1 .. buff_size
        BY <1>1, <1>2, <3>3
      <4>2. Place(i) \in 0 .. N - 1 /\ Place(i) # store_index
        BY <1>1, <2>2, <4>1 DEF Place
      <4>3. keys_buffer'[Place(i)] = keys_buffer[Place(i)]
        BY <1>1, <1>2, <4>2
      <4> QED
        BY <2>2, <2>3, <3>1, <4>1, <4>3
    <3> QED
      BY <3>2, <3>3
  <2> QED
    BY <1>2, <2>1, <2>3, <2>4, <2>5
<1>6. KeysHeld'
  BY <1>5 DEF KeysHeld
<1>7. TakesSome'
  BY <1>2 DEF KeysInv, TakesSome
<1> QED
  BY <1>4, <1>6, <1>7 DEF KeysInv

(* get_char takes the first of them.                                       *)
LEMMA GetCharKeeps ==
    ASSUME BufferHasRoom, KeysInv, Keys!get_charReturns
    PROVE  KeysInv'
<1> DEFINE N == BUFFSIZE
<1>1. /\ N \in Nat \ {0} /\ buff_size \in 0 .. N /\ store_index \in 0 .. N - 1 /\ ret_index \in 0 .. N - 1
      /\ unread \in Seq(Keys!Scancode) /\ loaded \in 1 .. N
      /\ keys_buffer \in [0 .. N - 1 -> Keys!Scancode \cup {Keys!None}]
  BY DEF KeysInv, KeyTypes, BufferHasRoom, Keys!get_charReturns, TakesSome
<1>2. /\ keys_buffer' = keys_buffer
      /\ store_index' = store_index /\ buff_size' = loaded - 1
      /\ ret_index' = (ret_index + 1) % N /\ pc = "decrement" /\ pc' # "decrement"
      /\ loaded' = 0 /\ raced' = raced
      /\ unread' = IF raced THEN <<>> ELSE Tail(unread)
  BY DEF Keys!get_charReturns
<1>3. ret_index' = IF ret_index + 1 < N THEN ret_index + 1 ELSE ret_index + 1 - N
  <2> DEFINE x == ret_index + 1
  <2>1. x \in 0 .. 2 * N - 1
    BY <1>1
  <2>2. N \in Nat \ {0}
    BY <1>1
  <2> HIDE DEF x, N
  <2>3. x % N = IF x < N THEN x ELSE x - N
    BY <2>1, <2>2, WrapsOnce
  <2> QED
    BY <1>1, <1>2, <2>3 DEF x, N
<1>4. ASSUME ~raced
      PROVE  /\ unread # <<>> /\ unread' = Tail(unread) /\ Tail(unread) \in Seq(Keys!Scancode)
             /\ Len(unread') = buff_size'
             /\ store_index' = IF ret_index' + buff_size' < N THEN ret_index' + buff_size'
                               ELSE ret_index' + buff_size' - N
             /\ \A i \in 1 .. buff_size' : unread'[i] = keys_buffer'[Place(i)']
  <2>1. /\ Len(unread) = buff_size /\ loaded = buff_size
        /\ store_index = IF ret_index + buff_size < N THEN ret_index + buff_size
                         ELSE ret_index + buff_size - N
        /\ \A i \in 1 .. buff_size : unread[i] = keys_buffer[Place(i)]
    BY <1>2, <1>4 DEF KeysInv, KeysHeld
  <2>2. unread # <<>>
    BY <1>1, <2>1, EmptySeq
  <2>3. /\ Tail(unread) \in Seq(Keys!Scancode) /\ Len(Tail(unread)) = buff_size - 1
        /\ \A i \in 1 .. buff_size - 1 : Tail(unread)[i] = unread[i + 1]
    BY <1>1, <2>1, <2>2, HeadTailProperties
  <2>4. store_index' = IF ret_index' + buff_size' < N THEN ret_index' + buff_size'
                       ELSE ret_index' + buff_size' - N
    BY <1>1, <1>2, <1>3, <2>1
  <2>5. ASSUME NEW i \in 1 .. buff_size'
        PROVE  unread'[i] = keys_buffer'[Place(i)']
    <3>1. i \in 1 .. buff_size - 1 /\ i + 1 \in 1 .. buff_size
      BY <1>1, <1>2, <2>1
    <3>2. Place(i)' = Place(i + 1)
      BY <1>1, <1>2, <1>3, <3>1 DEF Place
    <3>3. unread[i + 1] = keys_buffer[Place(i + 1)]
      BY <2>1, <3>1
    <3>4. unread'[i] = unread[i + 1]
      BY <1>2, <1>4, <2>3, <3>1
    <3> QED
      BY <1>2, <3>2, <3>3, <3>4
  <2> QED
    BY <1>2, <1>4, <2>1, <2>2, <2>3, <2>4, <2>5
<1>5. KeyTypes'
  <2>1. unread' \in Seq(Keys!Scancode)
    <3>1. CASE raced
      BY <1>2, <3>1
    <3> QED
      BY <1>4, <3>1
  <2> QED
    BY <1>1, <1>2, <1>3, <2>1 DEF KeyTypes
<1>6. KeysHeld'
  BY <1>2, <1>4 DEF KeysHeld
<1> QED
  BY <1>2, <1>5, <1>6 DEF KeysInv, TakesSome

(* Nothing else touches them.                                              *)
LEMMA OthersKeepKeys ==
    ASSUME KeysInv, UNCHANGED <<Keys!driver, unread, raced>>,
           (loaded' = loaded /\ (pc' = "decrement" => pc = "decrement")) \/ Keys!get_char
    PROVE  KeysInv'
<1>1. /\ UNCHANGED <<keys_buffer, ret_index, store_index, buff_size, unread, raced>>
      /\ \/ loaded' = loaded /\ (pc' = "decrement" => pc = "decrement")
         \/ pc' = "decrement" /\ loaded' = buff_size /\ buff_size > 0
  BY DEF Keys!driver, Keys!get_char
<1> QED
  BY <1>1 DEF KeysInv, KeyTypes, KeysHeld, TakesSome, Place

(* The invariant is inductive.                                             *)
LEMMA KeysInvariant ==
    ASSUME BufferHasRoom
    PROVE  /\ Keys!Init => KeysInv
           /\ KeysInv /\ [Keys!Next]_(Keys!vars) => KeysInv'
<1>1. ASSUME Keys!Init PROVE KeysInv
  <2>1. /\ BUFFSIZE \in Nat \ {0} /\ ret_index = 0 /\ store_index = 0 /\ buff_size = 0
        /\ loaded = 0 /\ pc = "user" /\ unread = <<>>
        /\ keys_buffer = [i \in 0 .. BUFFSIZE - 1 |-> Keys!None]
    BY <1>1 DEF Keys!Init, BufferHasRoom
  <2>2. Len(unread) = 0 /\ 1 .. buff_size = {}
    BY <2>1
  <2> QED
    BY <2>1, <2>2 DEF KeysInv, KeyTypes, KeysHeld, TakesSome
<1>2. ASSUME KeysInv, [Keys!Next]_(Keys!vars) PROVE KeysInv'
  <2>1. ASSUME NEW k \in Keys!Scancode, Keys!KeyPress(k) PROVE KeysInv'
    BY <1>2, <2>1, KeyPressKeeps
  <2>2. CASE Keys!get_charReturns
    BY <1>2, <2>2, GetCharKeeps
  <2>3. CASE \/ \E k \in Keys!Shift \cup {Keys!CAPSLOCK} : Keys!ModifierEvent(k)
             \/ \E n \in 1 .. MaxRead : Keys!sys_read(n)
             \/ Keys!FindsNothing \/ Keys!block_read_process \/ Keys!GoesOn \/ Keys!Returns \/ UNCHANGED Keys!vars
    <3>1. UNCHANGED <<Keys!driver, unread, raced>> /\ loaded' = loaded /\ (pc' = "decrement" => pc = "decrement")
      BY <2>3 DEF Keys!ModifierEvent, Keys!sys_read, Keys!FindsNothing, Keys!block_read_process, Keys!GoesOn, Keys!Returns,
                  Keys!vars, Keys!reader, Keys!history
    <3> QED
      BY <1>2, <3>1, OthersKeepKeys
  <2>4. CASE Keys!get_char
    <3>1. UNCHANGED <<Keys!driver, unread, raced>>
      BY <2>4 DEF Keys!get_char, Keys!history
    <3> QED
      BY <1>2, <2>4, <3>1, OthersKeepKeys
  <2> QED
    BY <1>2, <2>1, <2>2, <2>3, <2>4 DEF Keys!Next, Keys!Read
<1> QED
  BY <1>1, <1>2

(* Unless a key comes inside get_char's decrement, keys are read once and  *)
(* in the order they were pressed, wherever the two indices have wrapped   *)
(* around (keyboardDriver.c:35-60).                                        *)
THEOREM KeysAreReadInOrder ==
    ASSUME BufferHasRoom
    PROVE  Keys!Spec => []KeysInOrder
<1>1. (Keys!Init => KeysInv) /\ (KeysInv /\ [Keys!Next]_(Keys!vars) => KeysInv')
  BY KeysInvariant
<1>2. ASSUME KeysInv PROVE KeysInOrder
  <2> SUFFICES ASSUME ~raced, NEW i \in 1 .. buff_size
               PROVE  Place(i) = (ret_index + i - 1) % BUFFSIZE
    BY <1>2 DEF KeysInOrder, Keys!KeysInOrder, KeysInv, KeysHeld
  <2>1. BUFFSIZE \in Nat \ {0} /\ ret_index \in 0 .. BUFFSIZE - 1 /\ buff_size \in 0 .. BUFFSIZE
    BY <1>2 DEF KeysInv, KeyTypes, BufferHasRoom
  <2>2. PICK x \in 0 .. 2 * BUFFSIZE - 1 : x = ret_index + i - 1
    BY <2>1
  <2>3. x % BUFFSIZE = IF x < BUFFSIZE THEN x ELSE x - BUFFSIZE
    BY <2>1, WrapsOnce
  <2>4. Place(i) = IF x < BUFFSIZE THEN x ELSE x - BUFFSIZE
    BY <2>1, <2>2 DEF Place
  <2> QED
    BY <2>2, <2>3, <2>4
<1> QED
  BY <1>1, <1>2, PTL DEF Keys!Spec

-----------------------------------------------------------------------------
(* The modifiers. *)

(* The flags, as long as no event was dropped.                             *)
FlagsFollow ==
    /\ down \subseteq Keys!Shift \cup {Keys!CAPSLOCK}
    /\ shiftPressed \in BOOLEAN /\ capsLockActivated \in BOOLEAN /\ capsLockPressedCount \in {0, 1}
    /\ ~dropped => /\ shiftPressed <=> ~("LSHIFT" \in down <=> "RSHIFT" \in down)
                   /\ capsLockPressedCount = 1 <=> Keys!CAPSLOCK \in down

(* One shift of the two is down.                                           *)
LEMMA OneShift ==
    ASSUME NEW D
    PROVE  (\E k \in Keys!Shift : D \cap Keys!Shift = {k})
             <=> ~("LSHIFT" \in D <=> "RSHIFT" \in D)
<1>1. /\ D \cap Keys!Shift = {"LSHIFT"} <=> "LSHIFT" \in D /\ "RSHIFT" \notin D
      /\ D \cap Keys!Shift = {"RSHIFT"} <=> "RSHIFT" \in D /\ "LSHIFT" \notin D
  BY DEF Keys!Shift
<1> QED
  BY <1>1 DEF Keys!Shift

(* Each event turns over the flag of its key and no other.                 *)
LEMMA FlagsInvariant ==
    /\ Keys!Init => FlagsFollow
    /\ FlagsFollow /\ [Keys!Next]_(Keys!vars) => FlagsFollow'
<1>1. ASSUME Keys!Init PROVE FlagsFollow
  <2>1. shiftPressed = FALSE /\ capsLockActivated = FALSE /\ capsLockPressedCount = 0 /\ down = {}
    BY <1>1 DEF Keys!Init
  <2>2. "LSHIFT" \notin down /\ "RSHIFT" \notin down /\ Keys!CAPSLOCK \notin down
    BY <2>1
  <2>3. ~shiftPressed /\ shiftPressed \in BOOLEAN /\ capsLockActivated \in BOOLEAN
    BY <2>1
  <2> QED
    BY <2>1, <2>2, <2>3 DEF FlagsFollow
<1>2. ASSUME FlagsFollow, [Keys!Next]_(Keys!vars) PROVE FlagsFollow'
  <2>1. ASSUME NEW k \in Keys!Shift \cup {Keys!CAPSLOCK}, Keys!ModifierEvent(k) PROVE FlagsFollow'
    <3>1. /\ down' = IF k \in down THEN down \ {k} ELSE down \cup {k}
          /\ \/ /\ dropped' = TRUE
                /\ UNCHANGED <<shiftPressed, capsLockPressedCount, capsLockActivated>>
             \/ Keys!processKeyScanCode(k) /\ dropped' = dropped
      BY <2>1 DEF Keys!ModifierEvent
    <3>2. down' \subseteq Keys!Shift \cup {Keys!CAPSLOCK}
      BY <1>2, <3>1 DEF FlagsFollow
    <3>3. CASE dropped' = TRUE /\ UNCHANGED <<shiftPressed, capsLockPressedCount, capsLockActivated>>
      BY <1>2, <3>2, <3>3 DEF FlagsFollow
    <3>4. CASE Keys!processKeyScanCode(k) /\ dropped' = dropped
      <4>1. /\ shiftPressed' \in BOOLEAN /\ capsLockActivated' \in BOOLEAN
            /\ shiftPressed' <=> ~(shiftPressed <=> k \in Keys!Shift)
        <5>1. shiftPressed \in BOOLEAN /\ capsLockActivated \in BOOLEAN
          BY <1>2 DEF FlagsFollow
        <5>2. /\ shiftPressed' = (shiftPressed # (k \in Keys!Shift))
              /\ capsLockActivated' = (capsLockActivated # (k = Keys!CAPSLOCK /\ capsLockPressedCount = 1))
          BY <3>4 DEF Keys!processKeyScanCode
        <5>3. shiftPressed' \in BOOLEAN /\ (shiftPressed' <=> ~(shiftPressed <=> k \in Keys!Shift))
          <6>1. CASE k \in Keys!Shift
            <7>1. shiftPressed' = (shiftPressed # TRUE)
              BY <5>2, <6>1
            <7>2. shiftPressed' = ~shiftPressed
              BY <5>1, <7>1
            <7> QED
              BY <5>1, <6>1, <7>2
          <6>2. CASE k \notin Keys!Shift
            <7>0. (k \in Keys!Shift) = FALSE
              BY <6>2
            <7>1. shiftPressed' = (shiftPressed # FALSE)
              BY <5>2, <7>0
            <7>2. shiftPressed' = shiftPressed
              BY <5>1, <7>1
            <7> QED
              BY <5>1, <6>2, <7>2
          <6> QED
            BY <6>1, <6>2
        <5>4. capsLockActivated' \in BOOLEAN
          BY <5>1, <5>2, Zenon
        <5> QED
          BY <5>3, <5>4
      <4>2. capsLockPressedCount' = IF k = Keys!CAPSLOCK THEN 1 - capsLockPressedCount ELSE capsLockPressedCount
        BY <1>2, <3>4 DEF Keys!processKeyScanCode, FlagsFollow
      <4>3. k = "LSHIFT" \/ k = "RSHIFT" \/ k = Keys!CAPSLOCK
        BY DEF Keys!Shift
      <4>4. Keys!CAPSLOCK # "LSHIFT" /\ Keys!CAPSLOCK # "RSHIFT" /\ Keys!CAPSLOCK \notin Keys!Shift /\ "LSHIFT" # "RSHIFT"
            /\ "LSHIFT" \in Keys!Shift /\ "RSHIFT" \in Keys!Shift
        BY DEF Keys!CAPSLOCK, Keys!Shift
      <4>5. capsLockPressedCount' \in {0, 1}
        BY <1>2, <4>2 DEF FlagsFollow
      <4>6. ASSUME ~dropped'
            PROVE  shiftPressed' <=> ~("LSHIFT" \in down' <=> "RSHIFT" \in down')
        <5>1. shiftPressed <=> ~("LSHIFT" \in down <=> "RSHIFT" \in down)
          BY <1>2, <3>4, <4>6 DEF FlagsFollow
        <5> QED
          BY <3>1, <4>1, <4>3, <4>4, <5>1
      <4>7. ASSUME ~dropped'
            PROVE  capsLockPressedCount' = 1 <=> Keys!CAPSLOCK \in down'
        <5>1. (capsLockPressedCount = 1 <=> Keys!CAPSLOCK \in down) /\ capsLockPressedCount \in {0, 1}
          BY <1>2, <3>4, <4>7 DEF FlagsFollow
        <5> QED
          BY <3>1, <4>2, <4>3, <4>4, <5>1
      <4> QED
        BY <3>2, <4>1, <4>5, <4>6, <4>7 DEF FlagsFollow
    <3> QED
      BY <3>1, <3>3, <3>4
  <2>2. CASE \/ \E k \in Keys!Scancode : Keys!KeyPress(k)
             \/ \E n \in 1 .. MaxRead : Keys!sys_read(n)
             \/ Keys!Read \/ UNCHANGED Keys!vars
    <3>1. UNCHANGED <<shiftPressed, capsLockPressedCount, capsLockActivated, down, dropped>>
      BY <2>2 DEF Keys!KeyPress, Keys!sys_read, Keys!Read, Keys!get_char, Keys!get_charReturns, Keys!FindsNothing,
                  Keys!block_read_process, Keys!GoesOn, Keys!Returns, Keys!modifiers, Keys!history, Keys!vars
    <3> QED
      BY <1>2, <3>1 DEF FlagsFollow
  <2> QED
    BY <1>2, <2>1, <2>2 DEF Keys!Next
<1> QED
  BY <1>1, <1>2

(* As long as no event of a modifier was dropped, letters and digits are   *)
(* read as the keys that are down say, for any sequence of presses and     *)
(* releases of the two shifts and CAPS LOCK (keyboardDriver.c:68-106).     *)
THEOREM ModifiersAreRead == Keys!Spec => []ModifiersFollowKeys
<1>1. ASSUME FlagsFollow PROVE ModifiersFollowKeys
  <2> DEFINE shifted == \E k \in Keys!Shift : down \cap Keys!Shift = {k}
  <2> SUFFICES ASSUME ~dropped
               PROVE  /\ (capsLockPressedCount = 1) = (Keys!CAPSLOCK \in down)
                      /\ Keys!chooseKeyboard("q") = IF capsLockActivated # shifted THEN "Q" ELSE "q"
                      /\ Keys!chooseKeyboard("1") = IF shifted THEN "!" ELSE "1"
    BY DEF ModifiersFollowKeys, Keys!ModifiersFollowKeys
  <2>1. shiftPressed <=> shifted
    BY <1>1, OneShift DEF FlagsFollow
  <2>2. shifted \in BOOLEAN /\ shiftPressed \in BOOLEAN /\ capsLockActivated \in BOOLEAN
    BY <1>1 DEF FlagsFollow
  <2> HIDE DEF shifted
  <2>3. (capsLockPressedCount = 1) = (Keys!CAPSLOCK \in down)
    BY <1>1 DEF FlagsFollow
  <2>4. /\ Keys!kbdus("q") = "q" /\ Keys!kbdus("1") = "1" /\ "q" # Keys!None /\ "1" # Keys!None
        /\ Keys!shiftkbdus("q") = "Q" /\ Keys!shiftkbdus("1") = "!"
        /\ Keys!capskbdus("q") = "Q" /\ Keys!capskbdus("1") = "1"
        /\ Keys!isAlpha("q") /\ ~Keys!isAlpha("1")
    BY DEF Keys!kbdus, Keys!shiftkbdus, Keys!capskbdus, Keys!isAlpha, Keys!None
  <2>5. Keys!chooseKeyboard("q") = IF capsLockActivated # shifted THEN "Q" ELSE "q"
    BY <2>1, <2>2, <2>4 DEF Keys!chooseKeyboard
  <2>6. Keys!chooseKeyboard("1") = IF shifted THEN "!" ELSE "1"
    BY <2>1, <2>2, <2>4 DEF Keys!chooseKeyboard
  <2> QED
    BY <2>3, <2>5, <2>6
<1> QED
  BY <1>1, FlagsInvariant, PTL DEF Keys!Spec
-----------------------------------------------------------------------------
(* The condition variables and the fifos: what their own modules prove, of *)
(* the instances that Objects makes of them.  CondProofs!CondSpec is the   *)
(* formula Conds!CondSpec, since CondVariable_proofs extends CondVariable, *)
(* and in the same way FifoProofs!Spec is Fifos!Spec and NameProofs!Spec   *)
(* is Names!Spec.                                                          *)

CondProofs == INSTANCE CondVariable_proofs
FifoProofs == INSTANCE Fifo_proofs
NameProofs == INSTANCE Fifo_proofs WITH
    Name <- File, MAX_FIFOS <- MaxFiles, MAX_FDS <- MaxFiles, INT_BITS <- FileBits, MaxBytes <- 0

(* Who is blocked in cond_wait is in the queue of that condition, once, so *)
(* that a signal, a broadcast or a close finds it (condVariable.c:74-125). *)
THEOREM SleepersAreFound ==
    ASSUME CondProofs!MutexAssumption, ~PageReuse, CondProofs!NullIsNoWait
    PROVE  CondProofs!CondSpec => []SleeperIsQueued
<1>1. CondProofs!CondSpec => []CondProofs!SleeperIsQueued
  BY CondProofs!SleepersAreFound
<1>2. CondProofs!SleeperIsQueued => SleeperIsQueued
  BY DEF SleeperIsQueued, Conds!SleeperIsQueued, Conds!Asleep, Conds!Cond,
         CondProofs!SleeperIsQueued, CondProofs!Asleep, CondProofs!Cond
<1> QED
  BY <1>1, <1>2, PTL

(* Whatever cond_wait, signals and closes do, a mutex has one owner, and   *)
(* is locked only for somebody (condVariable.c:74-87).                     *)
THEOREM MutexesSurviveWaiting ==
    ASSUME CondProofs!MutexAssumption, ~PageReuse, CondProofs!NullIsNoWait
    PROVE  CondProofs!CondSpec => []MutexSurvivesWaiting
<1>1. CondProofs!CondSpec => []CondProofs!MutexSurvivesWaiting
  BY CondProofs!MutexesSurviveWaiting
<1>2. CondProofs!MutexSurvivesWaiting => MutexSurvivesWaiting
  BY DEF MutexSurvivesWaiting, Conds!MutexSurvivesWaiting, Conds!MutualExclusion,
         Conds!LockedForSomebody, Conds!Has, Conds!Key, Conds!is_open,
         CondProofs!MutexSurvivesWaiting, CondProofs!MutualExclusion,
         CondProofs!LockedForSomebody, CondProofs!Has, CondProofs!Key, CondProofs!is_open
<1> QED
  BY <1>1, <1>2, PTL

(* Who is blocked in fifo_read is in the queue of the open fifo it reads,  *)
(* once, and the queue has nobody else but the killed (fifo.c:150-223).    *)
THEOREM ReadersAreQueued ==
    ASSUME FifoProofs!NullIsNoKey
    PROVE  FifoProofs!Spec => []ReaderIsQueued
<1>1. FifoProofs!Spec => []FifoProofs!ReaderIsQueued
  BY FifoProofs!ReadersAreQueued
<1>2. FifoProofs!ReaderIsQueued => ReaderIsQueued
  BY DEF ReaderIsQueued, Fifos!ReaderIsQueued, Fifos!Key, FifoProofs!ReaderIsQueued, FifoProofs!Key
<1> QED
  BY <1>1, <1>2, PTL

(* Every call of fifo.c is a step of bounded queues of bytes whose readers *)
(* are served in order (fifo.c:109-267), unless a full fifo is written to. *)
THEOREM FifosAreByteQueues ==
    ASSUME FifoProofs!NullIsNoKey, FifoProofs!BuffersHaveRoom, ~WriteWhenFull
    PROVE  FifoProofs!Spec => ImplementsByteQueues
<1>1. FifoProofs!Spec => FifoProofs!ImplementsByteQueues
  BY FifoProofs!FifosAreByteQueues
<1>2. FifoProofs!Queues!Init => Fifos!Queues!Init
  BY DEF Fifos!Queues!Init, Fifos!Content, Fifos!Key,
         FifoProofs!Queues!Init, FifoProofs!Content, FifoProofs!Key
<1>3. [FifoProofs!Queues!Next]_(FifoProofs!Queues!vars) => [Fifos!Queues!Next]_(Fifos!Queues!vars)
  BY DEF Fifos!Queues!Next, Fifos!Queues!vars, Fifos!Queues!Nothing,
         Fifos!Queues!Write, Fifos!Queues!Serve, Fifos!Queues!Leave,
         Fifos!Queues!UpTo, Fifos!Queues!Read, Fifos!Queues!Return,
         Fifos!Queues!Forgets, Fifos!Queues!Die, Fifos!Queues!Renew,
         Fifos!Queues!Close, Fifos!Queues!ToSet, Fifos!Queues!SeqOf,
         Fifos!Content, Fifos!Key,
         FifoProofs!Queues!Next, FifoProofs!Queues!vars, FifoProofs!Queues!Nothing,
         FifoProofs!Queues!Write, FifoProofs!Queues!Serve, FifoProofs!Queues!Leave,
         FifoProofs!Queues!UpTo, FifoProofs!Queues!Read, FifoProofs!Queues!Return,
         FifoProofs!Queues!Forgets, FifoProofs!Queues!Die, FifoProofs!Queues!Renew,
         FifoProofs!Queues!Close, FifoProofs!Queues!ToSet, FifoProofs!Queues!SeqOf,
         FifoProofs!Content, FifoProofs!Key
<1>4. FifoProofs!Queues!Spec => Fifos!Queues!Spec
  BY <1>2, <1>3, PTL DEF Fifos!Queues!Spec, FifoProofs!Queues!Spec
<1> QED
  BY <1>1, <1>4 DEF ImplementsByteQueues, Fifos!ImplementsByteQueues, FifoProofs!ImplementsByteQueues

(* A name leads to one fifo as long as none is closed before an open one   *)
(* (fifo.c:57-82).                                                         *)
THEOREM NamesAreUnique ==
    ASSUME NameProofs!NullIsNoKey
    PROVE  NameProofs!Spec => []NameHasOneFifo
<1>1. NameProofs!Spec => []NameProofs!NameHasOneFifo
  BY NameProofs!NamesAreUnique
<1>2. NameProofs!NameHasOneFifo => NameHasOneFifo
  BY DEF NameHasOneFifo, Names!NameHasOneFifo, Names!Key, NameProofs!NameHasOneFifo, NameProofs!Key
<1> QED
  BY <1>1, <1>2, PTL
=============================================================================
