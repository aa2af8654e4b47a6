------------------------------- MODULE Escrow -------------------------------
(***************************************************************************)
(* What an account of the bot promises the users who pay into it, without  *)
(* offers, orders, rounds, handlers or processes: whoever has paid can be  *)
(* paid back until what was bought is delivered or drawn; each payment     *)
(* ends once, one way or the other; only what nobody can claim leaves the  *)
(* account; and it is given up when nobody can claim anything.  The        *)
(* vendor's account of Market and the pot of Lottery implement it.         *)
(***************************************************************************)
EXTENDS Integers, FiniteSetsExt

CONSTANTS
    Claims,     \* what users may pay for
    Worth       \* [Claims -> Nat]

VARIABLES
    state,      \* [Claims -> "none", "held", "met", "returned"]
    fund,       \* the balance of the account
    gone        \* it is archived

vars == <<state, fund, gone>>

Value(c) == Worth[c]
Sum(S)   == MapThenSumSet(Value, S)
Held     == {c \in Claims : state[c] = "held"}

Init == /\ state = [c \in Claims |-> "none"]
        /\ fund = 0
        /\ gone = FALSE

Become(S, from, to) == /\ \A c \in S : state[c] = from
                       /\ state' = [c \in Claims |-> IF c \in S THEN to ELSE state[c]]

\* Claims are paid for, all of an order at once.
Deposit(S) == /\ ~gone /\ Become(S, "none", "held")
              /\ fund' = fund + Sum(S)
              /\ UNCHANGED gone

\* Claims are met, and money is paid out that no other claim needs.
Release(S, amount) == /\ ~gone /\ Become(S, "held", "met")
                      /\ amount + Sum(Held \ S) <= fund
                      /\ fund' = fund - amount
                      /\ UNCHANGED gone

\* Claims are given up and their money goes back, all of it.
Return(S) == /\ ~gone /\ Become(S, "held", "returned")
             /\ Sum(S) <= fund
             /\ fund' = fund - Sum(S)
             /\ UNCHANGED gone

End == /\ Held = {}
       /\ gone' = TRUE
       /\ UNCHANGED <<state, fund>>

Next == \/ \E S \in SUBSET Claims : \/ Deposit(S) \/ Return(S)
                                    \/ \E amount \in 0..fund : Release(S, amount)
        \/ End

Spec == Init /\ [][Next]_vars
=============================================================================
