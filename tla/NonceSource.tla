---------------------------- MODULE NonceSource ----------------------------
(***************************************************************************)
(* What signers promise about their nonces: each is larger than all that   *)
(* the same signer gave out before.                                        *)
(***************************************************************************)
EXTENDS Naturals, Sequences

CONSTANTS Signer, Nonce   \* the signers; the nonces there are

VARIABLE given   \* those each gave out, in order

Init == given = [s \in Signer |-> <<>>]

Give(s, n) ==
  /\ \A i \in 1 .. Len(given[s]) : given[s][i] < n
  /\ given' = [given EXCEPT ![s] = Append(@, n)]

Next == \E s \in Signer, n \in Nonce : Give(s, n)

Spec == Init /\ [][Next]_given

\* Nonces of a signer increase from one to any later one.
Increasing ==
  \A s \in Signer : \A i, j \in 1 .. Len(given[s]) : i < j => given[s][i] < given[s][j]
=============================================================================
