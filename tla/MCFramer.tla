-------------------------------- MODULE MCFramer -------------------------------
(* Framer for TLC: the frames that are written, and interchangeable writers. *)
EXTENDS Framer

Symmetry == Permutations(Writers)

AcceptFields == [n \in {":path", "Accept"} |-> IF n = "Accept" THEN <<"x", "y">> ELSE <<"x">>]
HostField == [n \in {"Host"} |-> <<"x">>]

\* Frames of every kind, with small and large values: ids and numbers of 31 and
\* of 32 bits, fields that only a response may have, and two frames that
\* WriteFrame refuses.
AllFrames ==
    {SynStream(1, 1, 2, 1, 3, AcceptFields), SynStream(3, 0, 0, 0, 0, HostField),
     SynReply(ControlBit + 1, 1, HostField), Headers(2, 0, HostField),
     RstStream(1, Radix4 - 1), Ping(2), GoAway(0, 0), WindowUpdate(1, ControlBit - 1),
     Settings(0, <<[flag |-> 1, id |-> 7, value |-> 2], [flag |-> 0, id |-> 4, value |-> Radix3]>>),
     Data(1, 1, <<>>), Data(3, 0, <<1, 0>>), Data(0, 0, <<1>>), Data(ControlBit, 0, <<1>>)}

\* The hypothesis of the theorems about what is read.
ASSUME AllFramesCanonical == \A f \in AllFrames : HasHeaders(f) => CanonicalHeader(f.headers)

\* A header may have keys that are not canonical.
SameName == {SynStream(1, 0, 0, 0, 0, [n \in {"Accept", "accept"} |-> <<"x">>])}
================================================================================
