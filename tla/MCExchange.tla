------------------------------- MODULE MCExchange ------------------------------
(***************************************************************************)
(* Exchange for TLC.  All fields of a request together are too many: a     *)
(* POST has a body longer than the window, whole or failing; a request     *)
(* with a short body or none differs from a plain one in one field.        *)
(***************************************************************************)
EXTENDS Exchange

Plain == [path |-> "/", proto |-> "", cl |-> Absent, hcl |-> Absent]

\* r differs from a plain request in no field outside S.
Only(r, S) == \A f \in DOMAIN Plain \ S : r[f] = Plain[f]

ChosenRequests ==
    {r \in Requests :
        \/ r.method = "POST" /\ r.body = 2 /\ Only(r, {})
        \/ r.method # "HEAD" /\ r.body = 1 /\ ~r.fails /\ Only(r, {"cl"})
        \/ r.method # "HEAD" /\ r.body = NoBody /\ \E f \in DOMAIN Plain : Only(r, {f})
        \/ r.method = "HEAD" /\ r.body = NoBody /\ Only(r, {})}

ChosenInit == req \in ChosenRequests /\ Init

\* FairSpec for these requests.
ChosenSpec == ChosenInit /\ [][Next]_vars /\ Fairness
================================================================================
