----------------------------- MODULE SpendWire -----------------------------
(***************************************************************************)
(* What a cw1 is made of, as the mint (mock-mint/spend.mjs) and the grader *)
(* (runner/spend.mjs) each read it: a frame of length-prefixed items, a    *)
(* leaf script walked for OP_SUCCESS opcodes, and a control block that     *)
(* commits the leaf to an output key.  A length takes two bytes of Base    *)
(* values each, hashes are terms that collide only when they are equal.    *)
(***************************************************************************)
EXTENDS Integers, Sequences
LOCAL INSTANCE SequencesExt
LOCAL INSTANCE FiniteSetsExt

CONSTANTS
  Base,                      \* how many values a byte of the frame has: 256 in the code
  HeadBytes,                 \* the locktime and the sequence before the items: 8
  FrameByte, ScriptByte,     \* bounds: the bytes a frame or a script is put together from
  MaxFrame, MaxScript        \* bounds: how long it grows

VARIABLES
  reading,   \* what the bytes are: a "frame" or a leaf "script"
  wire       \* the bytes so far

ASSUME BytesAreSmall ==
  /\ Base \in Nat \ {0, 1} /\ FrameByte \subseteq 0 .. Base - 1
  /\ ScriptByte \subseteq 0 .. 255

\* null: no frame, no spend and no key is this.
None == <<<<-1>>>>
At(bytes, i) == bytes[i]
Length(hi, lo) == hi * Base + lo

---------------------------------------------------------------------------
\* The items of a frame from byte at on, or None when an item is cut short.
\* Faults: a length is trusted past the end of the frame; a leftover byte
\* is dropped.
itemsFrom_trusting(data) ==
  LET from[at \in 1 .. Len(data) + 1] ==
        IF at = Len(data) + 1 THEN << >>
        ELSE IF at + 1 > Len(data) THEN None
        ELSE LET n == Length(At(data, at), At(data, at + 1))
                 end == IF at + 1 + n > Len(data) THEN Len(data) ELSE at + 1 + n
             IN  IF from[end + 1] = None THEN None
                 ELSE <<SubSeq(data, at + 2, end)>> \o from[end + 1]
  IN  from[HeadBytes + 1]
itemsFrom_dropsTail(data) ==
  LET from[at \in 1 .. Len(data) + 1] ==
        IF at + 1 > Len(data) THEN << >>
        ELSE LET n == Length(At(data, at), At(data, at + 1)) IN
             IF at + 1 + n > Len(data) \/ from[at + 2 + n] = None THEN None
             ELSE <<SubSeq(data, at + 2, at + 1 + n)>> \o from[at + 2 + n]
  IN  from[HeadBytes + 1]

itemsFrom(data) ==
  LET from[at \in 1 .. Len(data) + 1] ==
        IF at = Len(data) + 1 THEN << >>
        ELSE IF at + 1 > Len(data) THEN None
        ELSE LET n == Length(At(data, at), At(data, at + 1)) IN
             IF at + 1 + n > Len(data) \/ from[at + 2 + n] = None THEN None
             ELSE <<SubSeq(data, at + 2, at + 1 + n)>> \o from[at + 2 + n]
  IN  from[HeadBytes + 1]

\* A script and a control block at least, the witness after them.
decode(data) ==
  IF Len(data) < HeadBytes THEN None
  ELSE IF itemsFrom(data) = None \/ Len(itemsFrom(data)) < 2 THEN None
  ELSE <<SubSeq(data, 1, HeadBytes), itemsFrom(data)>>

encode(head, items) ==
  head \o FlattenSeq([i \in DOMAIN items |->
            <<Len(items[i]) \div Base, Len(items[i]) % Base>> \o items[i]])

---------------------------------------------------------------------------
\* BIP-342's OP_SUCCESSx.
SUCCESS == {80, 98, 126, 127, 128, 129, 131, 132, 133, 134, 137, 138, 141,
            142, 149, 150, 151, 152, 153} \cup 187 .. 254

\* How many bytes follow the opcode at i, its own length bytes included; a
\* push whose length is itself cut short ends the walk.
\* Fault: the length of an OP_PUSHDATA4 is read from two bytes, like that of
\* an OP_PUSHDATA2.
pushed_shortLength(script, i) ==
  LET op == script[i]
      rest == Len(script) - i
      little(n) == MapThenSumSet(LAMBDA j : script[i + j] * 256 ^ (j - 1), 1 .. n)
  IN  IF op \in 1 .. 75 THEN op
      ELSE IF op \in 76 .. 78
      THEN LET n == IF op = 76 THEN 1 ELSE 2 IN
           IF n > rest THEN rest ELSE n + little(n)
      ELSE 0
pushed(script, i) ==
  LET op == script[i]
      rest == Len(script) - i
      little(n) == MapThenSumSet(LAMBDA j : script[i + j] * 256 ^ (j - 1), 1 .. n)
  IN  IF op \in 1 .. 75 THEN op
      ELSE IF op \in 76 .. 78
      THEN LET n == 2 ^ (op - 76) IN
           IF n > rest THEN rest ELSE n + little(n)
      ELSE 0

\* Fault: what is pushed is code too.
usesOpSuccess_everyByte(script) == \E i \in DOMAIN script : script[i] \in SUCCESS
usesOpSuccess(script) ==
  LET walk[i \in Nat] ==
        i <= Len(script) /\ (script[i] \in SUCCESS \/ walk[i + 1 + pushed(script, i)])
  IN  walk[1]

---------------------------------------------------------------------------
\* Hashes as terms: a leaf by its script and version, a branch by the two
\* children it sorts, a key by the internal key and the root it tweaks it
\* with.  A tweaked key has the parity its control block must repeat.
leafHash(script, version) ==
  [tag |-> "TapLeaf", script |-> script, version |-> version, of |-> {}]
\* Fault: the children are hashed in the order they come.
branchHash_ordered(l, r) ==
  [tag |-> "TapBranch", script |-> << >>, version |-> 0, of |-> {<<1, l>>, <<2, r>>}]
branchHash(l, r) ==
  [tag |-> "TapBranch", script |-> << >>, version |-> 0, of |-> {l, r}]
tweak(internal, root) == [internal |-> internal, root |-> root]

\* committedKey and outputKeyOf: climb from the leaf along the path.  The
\* parity of the key the tweak gives is odd or not, for all one knows.
committedKey(script, control, odd) ==
  LET root == FoldLeft(branchHash, leafHash(script, control.version), control.path)
      key == tweak(control.internal, root)
  IN  IF Len(control.path) <= 128 /\ control.odd = odd THEN key ELSE None

\* scriptTree: three leaves [script, version] and how each is reached.
tree(internal, leaves, odd) ==
  LET hash(i) == leafHash(leaves[i].script, leaves[i].version)
      left == branchHash(hash(1), hash(2))
      key == tweak(internal, branchHash(left, hash(3)))
      paths == <<<<hash(2), hash(3)>>, <<hash(1), hash(3)>>, <<left>>>>
  IN  [output |-> key,
       control |-> [i \in 1 .. 3 |-> [version |-> leaves[i].version,
                                      odd |-> odd,
                                      internal |-> internal,
                                      path |-> paths[i]]]]

---------------------------------------------------------------------------
\* A wire value arrives byte by byte; each prefix is a value in its own right.
Init == wire = << >> /\ reading \in {"frame", "script"}
GrowFrame ==
  /\ reading = "frame" /\ Len(wire) < MaxFrame
  /\ \E b \in FrameByte : wire' = Append(wire, b)
  /\ UNCHANGED reading
GrowScript ==
  /\ reading = "script" /\ Len(wire) < MaxScript
  /\ \E b \in ScriptByte : wire' = Append(wire, b)
  /\ UNCHANGED reading
Next == GrowFrame \/ GrowScript
Spec == Init /\ [][Next]_<<reading, wire>>

\* One spend has one wire form: whatever decodes is what encoding its parts
\* gives back, so a retry cannot name the same parts by other bytes.
OneWireForm ==
  reading = "frame" /\ decode(wire) # None =>
    encode(decode(wire)[1], decode(wire)[2]) = wire

\* A byte is code when some way of cutting the script into opcodes and the
\* data BIP-342 says they push reaches it; an OP_SUCCESS counts there and
\* nowhere else, so a hash that happens to hold the byte 80 never bricks a
\* bearer note.
After(script, i) ==
  LET op == script[i]
      has(bytes) == i + bytes <= Len(script)
  IN  CASE op \in 1 .. 75 -> i + 1 + op
        [] op = 76 /\ has(1) -> i + 2 + script[i + 1]
        [] op = 77 /\ has(2) -> i + 3 + script[i + 1] + 256 * script[i + 2]
        [] op = 78 /\ has(4) ->
             i + 5 + script[i + 1] + 256 * script[i + 2] + 65536 * script[i + 3]
               + 16777216 * script[i + 4]
        [] op \in 76 .. 78 -> Len(script) + 1
        [] OTHER -> i + 1
Cuts(script) ==
  {cut \in SUBSET (1 .. Len(script)) :
     /\ 1 \in cut
     /\ \A i \in cut : i = 1 \/ \E j \in cut : i = After(script, j)
     /\ \A i \in cut : After(script, i) <= Len(script) => After(script, i) \in cut}
SuccessIsCode ==
  reading = "script" =>
    (usesOpSuccess(wire) <=> \E cut \in Cuts(wire) : \E i \in cut : wire[i] \in SUCCESS)

\* Every leaf of the grader's tree opens the tree's own note by its own
\* control block, and by no other: a leaf at another version, another path
\* or the other parity commits to some other key.
TreeOpens ==
  reading = "script" =>
  LET leaves == <<[script |-> <<0>>, version |-> 192],
                  [script |-> <<0, 1>>, version |-> 194],
                  [script |-> wire, version |-> 192]>> IN
  \A odd \in 0 .. 1 :
    LET t == tree(0, leaves, odd)
        opens(i, control) == committedKey(leaves[i].script, control, odd) = t.output
    IN  \A i, j \in 1 .. 3 :
          /\ opens(i, t.control[i])
          /\ leaves[i].script # leaves[j].script => ~opens(i, t.control[j])
          /\ ~opens(i, [t.control[i] EXCEPT !.odd = 1 - odd])
          /\ ~opens(i, [t.control[i] EXCEPT !.version = 193])
=============================================================================
