------------------------------- MODULE ByteQueue -------------------------------
(***************************************************************************)
(* What a stream's receive side promises: a bounded first-in first-out     *)
(* queue of bytes.  Data is appended at one end while the queue is open,   *)
(* taken from the other, and the queue is shut once, with one cause, while *)
(* what it already holds stays readable.  How spdyframing/buffer.go slides *)
(* its array to make room does not appear.                                 *)
(***************************************************************************)
EXTENDS Naturals, Sequences

CONSTANTS Cap,     \* the most bytes the queue holds
          Open     \* the value of cause while the queue is not shut

VARIABLES q,       \* the unread bytes
          cause    \* Open, or the error the queue was shut with

vars == <<q, cause>>

Init == q = <<>> /\ cause = Open

\* Bytes are appended behind the unread ones.
Put ==
    /\ cause = Open
    /\ Len(q') <= Cap
    /\ Len(q') > Len(q)
    /\ SubSeq(q', 1, Len(q)) = q
    /\ UNCHANGED cause

\* The oldest k bytes are taken.
Get(k) ==
    /\ q' = SubSeq(q, k + 1, Len(q))
    /\ UNCHANGED cause

\* The queue is shut; nothing it holds is lost.
Shut == cause = Open /\ cause' # Open /\ UNCHANGED q

Next == Put \/ (\E k \in 1..Len(q) : Get(k)) \/ Shut

Spec == Init /\ [][Next]_vars
================================================================================
