---------------------------- MODULE MCTcpRequest ----------------------------
(***************************************************************************)
(* Commands for the connection of TcpRequest.                              *)
(***************************************************************************)
EXTENDS TcpRequest

Plain(x) == [xfer |-> x, fuse |-> "none"]
Compare(x) == [xfer |-> x, fuse |-> "first"]
Write(x) == [xfer |-> x, fuse |-> "second"]

AllCmds == {Plain("none"), Plain("c2h"), Plain("h2c"), Plain("icd"), Plain("bad"),
            Compare("h2c"), Compare("icd"), Write("h2c")}
ReadAndWrite == {Plain("c2h"), Plain("h2c")}
=============================================================================
