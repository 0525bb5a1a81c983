------------------------------ MODULE SendWindow ------------------------------
(***************************************************************************)
(* What a stream's send window promises to the layer above, stated without *)
(* the counter, the mutex and the condition variable that implement it     *)
(* (spdyframing/semaphore.go): at every moment the bytes granted to        *)
(* writers are covered by the initial window plus the credit the peer has  *)
(* given, the window shuts at most once, and a shut window grants nothing. *)
(***************************************************************************)
EXTENDS Integers

CONSTANTS InitWnd,   \* the window a stream starts with
          Causes,    \* the errors a window can be shut with
          Open       \* the value of cause while the window is not shut

VARIABLES granted,   \* bytes granted to writers so far
          credit,    \* bytes of credit received from the peer so far
          cause      \* Open, or the error the window was shut with

vars == <<granted, credit, cause>>

Init == granted = 0 /\ credit = 0 /\ cause = Open

\* A writer is granted some bytes.
Grant ==
    /\ cause = Open
    /\ granted' \in Nat /\ granted' > granted
    /\ granted' <= InitWnd + credit
    /\ UNCHANGED <<credit, cause>>

\* The peer gives some credit; a shut window may still be told of it.
Credit ==
    /\ credit' \in Nat /\ credit' > credit
    /\ UNCHANGED <<granted, cause>>

\* The window is shut; the first cause is the one that stays.
Shut(e) ==
    /\ cause = Open
    /\ cause' = e
    /\ UNCHANGED <<granted, credit>>

Next ==
    \/ Grant
    \/ Credit
    \/ \E e \in Causes : Shut(e)

Spec == Init /\ [][Next]_vars
===============================================================================
