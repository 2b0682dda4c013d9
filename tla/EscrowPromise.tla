--------------------------- MODULE EscrowPromise ---------------------------
(***************************************************************************)
(* What an escrow promises the parties of a job, whatever its workflow: a  *)
(* deposit is held in full until it is disposed of in full and exactly     *)
(* once, either by paying it out (a late delivery may send up to half of   *)
(* it back to the client) or by refunding all of it.                       *)
(*                                                                         *)
(* book maps every deposit to its phase, its amount, and what client and   *)
(* payees have received of it.                                             *)
(***************************************************************************)
EXTENDS Integers

VARIABLE book

Held(amount) == [phase |-> "held", amount |-> amount, client |-> 0, payees |-> 0]

Init == book = << >>

\* New deposits are made; those already in the book are left alone.
Deposit ==
    /\ DOMAIN book \subseteq DOMAIN book' /\ DOMAIN book # DOMAIN book'
    /\ \A e \in DOMAIN book : book'[e] = book[e]
    /\ \A e \in DOMAIN book' \ DOMAIN book :
          book'[e].amount > 0 /\ book'[e] = Held(book'[e].amount)

\* Deposit e, and no other, is disposed of.
Dispose(e, phase, client, payees) ==
    /\ book[e].phase = "held"
    /\ client + payees = book[e].amount
    /\ book' = [book EXCEPT ![e] = [ phase  |-> phase,  amount |-> @.amount,
                                     client |-> client, payees |-> payees ]]

PayOut(e) ==
    \E client \in 0..book[e].amount :
       /\ 2 * client <= book[e].amount
       /\ Dispose(e, "paid", client, book[e].amount - client)

Refund(e) == Dispose(e, "refunded", book[e].amount, 0)

Next == Deposit \/ \E e \in DOMAIN book : PayOut(e) \/ Refund(e)

Spec == Init /\ [][Next]_book

=============================================================================
