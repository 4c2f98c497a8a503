----------------------------- MODULE MCNdpFiles -----------------------------
(***************************************************************************)
(* Files, devices and commands for NdpFiles.                               *)
(***************************************************************************)
EXTENDS NdpFiles

E(logical, physical, length) == [logical |-> logical, physical |-> physical, length |-> length]
Add(in0, in1, out) == [op |-> "HEAAN_ADD", in0 |-> in0, in1 |-> in1, out |-> out, key |-> <<>>]
Grep(f, key) == [op |-> "GREP", in0 |-> f, in1 |-> f, out |-> None, key |-> key]
S(bs, iov, lay, d, jobs) ==
  [bs |-> bs, iov |-> iov, layout |-> lay, disk |-> d, jobs |-> jobs,
   contents |-> [f \in Files |-> FileBytes(lay[f], d)]]
L(a, b, t) == [f \in Files |-> CASE f = "a" -> a [] f = "b" -> b [] f = "t" -> t]

(***************************************************************************)
(* HEAAN_ADD: blocks of two bytes; a is in two pieces, out of order on the *)
(* device, b in one; the target is absent, shorter, longer, or an input;   *)
(* or the first input is empty.                                            *)
(***************************************************************************)
TwoPieces == <<E(0, 8, 2), E(2, 2, 2)>>
OnePiece == <<E(0, 4, 4)>>
Targets == {<<>>, <<E(0, 0, 2)>>, <<E(0, 10, 2), E(2, 0, 2), E(4, 12, 2)>>}
Bytes == [o \in 0 .. 2 * NumBlocks - 1 |-> 10 + o]
AddScenarios ==
  {S(2, 8, L(TwoPieces, OnePiece, t), Bytes, {Add("a", "b", "t"), Add("b", "a", "a")}) : t \in Targets}
    \cup {S(2, 8, L(<<>>, OnePiece, <<>>), Bytes, {Add("a", "a", "t")})}

(***************************************************************************)
(* GREP: every text of six bytes over newline, the keyword's byte and      *)
(* another one, or of four with NUL too, in one iovec or two, on blocks of *)
(* one byte; a file of two extents; and files on blocks of two bytes.      *)
(***************************************************************************)
K == 2
X == 3
Text(s) == [o \in 0 .. NumBlocks - 1 |-> IF o < Len(s) THEN s[o + 1] ELSE NUL]
Whole == L(<<E(0, 0, 6)>>, <<>>, <<>>)
GrepScenarios ==
  {S(1, iov, Whole, Text(s), {Grep("a", <<K, NL>>), Grep("a", <<K, X>>)}) :
     iov \in {3, 6}, s \in [1 .. 6 -> {NL, K, X}] \cup [1 .. 4 -> {NUL, NL, K, X}]}
TwoExtents ==
  S(1, 6, L(<<E(0, 4, 1), E(1, 0, 2)>>, <<>>, <<>>), Text(<<K, NL, X, X, K>>), {Grep("a", <<K>>)})
TwoByteBlocks(file) ==
  S(2, 6, L(<<E(0, file, 2)>>, <<>>, <<>>),
    [o \in 0 .. 2 * NumBlocks - 1 |-> IF o \in file .. file + 1 THEN X ELSE K], {Grep("a", <<K>>)})
FarFiles == {TwoByteBlocks(2), TwoByteBlocks(12)}
AllScenarios == AddScenarios \cup GrepScenarios \cup FarFiles \cup {TwoExtents}
=============================================================================
