---------------------------- MODULE MCCtrlrBdev ----------------------------
(***************************************************************************)
(* Commands for model checking CtrlrBdev on a device of four blocks (of    *)
(* two bytes, for the byte extents of HEAAN_ADD) with 3-bit LBAs.          *)
(***************************************************************************)
EXTENDS CtrlrBdev, TLC

R(lba, n) == [lba |-> lba, n |-> n]
C(op, len, rng, arg) == [op |-> op, len |-> len, rng |-> rng, arg |-> arg, sdlba |-> 0]
CopyTo(sdlba, len, rng, arg) == [C("COPY", len, rng, arg) EXCEPT !.sdlba = sdlba]

Good == R(1, 2)         \* on the device
PastEnd == R(3, 2)      \* runs past the last block
Wraps == R(7, 2)        \* 7 + 2 wraps around to 1

(***************************************************************************)
(* One-I/O commands, and every reason a handler has to refuse them.        *)
(***************************************************************************)
SingleIoCmds ==
  {C("READ", 2, <<Good>>, 0), C("READ", 2, <<Wraps>>, 0), C("READ", 1, <<Good>>, 0),
   C("WRITE", 2, <<Good>>, 0), C("WRITE", 2, <<PastEnd>>, 0),
   C("COMPARE", 2, <<Good>>, 0), C("WRITE_ZEROES", 0, <<Good>>, 0),
   C("WRITE_ZEROES", 0, <<Good>>, 1), C("WRITE_ZEROES", 0, <<R(0, 4)>>, 0),
   C("WRITE_ZEROES", 0, <<Wraps>>, 0),
   C("FLUSH", 0, <<Good>>, 0), C("FLUSH", 0, <<Good>>, 1),
   CopyTo(2, 1, <<Good>>, 0), CopyTo(2, 1, <<Good>>, 1), CopyTo(2, 1, <<PastEnd>>, 0),
   CopyTo(3, 1, <<Good>>, 0), CopyTo(7, 1, <<Good>>, 0),
   CopyTo(2, 2, <<Good, Good>>, 0), CopyTo(2, 0, <<Good>>, 0),
   C("PASSTHRU", 1, <<Good>>, 0), C("PASSTHRU", 1, <<Good>>, 1)}

(***************************************************************************)
(* Commands with a keyword or a list of ranges, valid and refused.          *)
(***************************************************************************)
GrepCmds ==
  {C("GREP", 2, <<Good>>, 1), C("GREP", 2, <<Wraps>>, 1), C("GREP", 1, <<Good>>, 2)}

DsmCmds ==
  {C("DSM", 3, <<Good, Good, Good>>, 1), C("DSM", 2, <<Good, PastEnd>>, 1),
   C("DSM", 1, <<PastEnd>>, 1), C("DSM", 1, <<Good, Good>>, 1), C("DSM", 1, <<Good>>, 0)}

EchoCmds ==
  {C("ECHO", 2, <<Good, R(0, 1)>>, 0), C("ECHO", 2, <<PastEnd, Good>>, 0),
   C("ECHO", 2, <<Good, PastEnd>>, 0)}

(***************************************************************************)
(* HEAAN_ADD: two input extents and one or two target extents in bytes.    *)
(***************************************************************************)
HeaanGood == C("HEAAN_ADD", 1, <<R(0, 2), R(2, 2), R(4, 2), R(6, 2)>>, 2)
HeaanCmds ==
  {HeaanGood,
   C("HEAAN_ADD", 1, <<R(0, 2), R(3, 2), R(4, 2)>>, 2),
   C("HEAAN_ADD", 1, <<R(0, 2), R(2, 2), R(7, 2)>>, 2),
   C("HEAAN_ADD", 1, <<R(0, 2), R(2, 2), R(8, 4)>>, 2),
   C("HEAAN_ADD", 0, <<R(0, 2), R(2, 2), R(4, 2)>>, 2)}

Read == C("READ", 2, <<Good>>, 0)

AllButHeaan == SingleIoCmds \cup GrepCmds \cup DsmCmds \cup EchoCmds
AnsweredCmds ==
  {Read, C("PASSTHRU", 1, <<Good>>, 0), C("GREP", 2, <<Good>>, 1),
   C("DSM", 2, <<Good, Good>>, 1)}
NdpCmds == {Read, C("ECHO", 2, <<Good, R(0, 1)>>, 0), HeaanGood}
HeaanRunCmds == {Read} \cup HeaanCmds

(***************************************************************************)
(* Commands for the runs that exhibit a disagreement.                      *)
(***************************************************************************)
EchoReadCmds == {Read, C("ECHO", 2, <<Good, R(0, 1)>>, 0)}
ResumedCmds == {Read, C("GREP", 2, <<Good>>, 1), C("DSM", 2, <<Good, R(0, 1)>>, 1)}
DsmOnly == {C("DSM", 2, <<Good, R(0, 1)>>, 1)}
DsmLimitCmds == {C("DSM", 2, <<R(0, 1), Good>>, 1)}

Symmetry == Permutations(Reqs) \cup Permutations(Slots)
=============================================================================
