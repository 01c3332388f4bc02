------------------------------- MODULE Quota --------------------------------
(***************************************************************************)
(* What the proxy promises of a user's quota, without locks, passes over   *)
(* windows, snapshots or boosts: a request is admitted in one step, while  *)
(* every window that limits its user is below the cap; it is charged once  *)
(* or not at all; and the charge bears the time the request was judged at, *)
(* so that a window that started later does not see it.                    *)
(***************************************************************************)
EXTENDS Naturals

CONSTANTS
    User, Worker, Period,
    Time,     \* an initial segment of the naturals
    Limited,  \* the pairs of a user and a window that limits it
    Cap,      \* what the windows are judged against, at most
    Cost,     \* what a request may cost
    NoTicket

VARIABLES
    start,   \* when each window in force began
    spent,   \* spent[u][t] is what u was charged at or after t
    ticket   \* the request a worker has been admitted with, not yet settled

vars == <<start, spent, ticket>>

Ticket == [user : User, at : Time]

Used(u, p) == IF start[p] \in Time THEN spent[u][start[p]] ELSE 0

Init == /\ start = [p \in Period |-> 0]
        /\ spent = [u \in User |-> [t \in Time |-> 0]]
        /\ ticket = [w \in Worker |-> NoTicket]

\* A window ends and the next one begins
Roll == /\ start' \in [Period -> Nat]
        /\ \A p \in Period : start'[p] >= start[p]
        /\ UNCHANGED <<spent, ticket>>

Admit(w, u) ==
    /\ ticket[w] = NoTicket
    /\ \A p \in Period : <<u, p>> \in Limited => Used(u, p) < Cap
    /\ \E at \in Time : ticket' = [ticket EXCEPT ![w] = [user |-> u, at |-> at]]
    /\ UNCHANGED <<start, spent>>

Charge(w, cost) ==
    LET k == ticket[w]
    IN  /\ k # NoTicket
        /\ spent' = [spent EXCEPT ![k.user] =
                        [t \in Time |-> spent[k.user][t] + IF t <= k.at THEN cost ELSE 0]]
        /\ ticket' = [ticket EXCEPT ![w] = NoTicket]
        /\ UNCHANGED start

\* The upstream failed, or the charge could not be recorded
Waive(w) == /\ ticket[w] # NoTicket
            /\ ticket' = [ticket EXCEPT ![w] = NoTicket]
            /\ UNCHANGED <<start, spent>>

\* All requests under way end at once
Crash == /\ ticket' = [w \in Worker |-> NoTicket]
         /\ UNCHANGED <<start, spent>>

Next == \/ Roll
        \/ Crash
        \/ \E w \in Worker : \/ \E u \in User : Admit(w, u)
                             \/ \E cost \in Cost : Charge(w, cost)
                             \/ Waive(w)

Spec == Init /\ [][Next]_vars
=============================================================================
