------------------------------- MODULE Market -------------------------------
(***************************************************************************)
(* What threads/shop.c promises, with its threads, its mutexes and its     *)
(* loops left out: a purchase and a delivery each happen at once.  Module  *)
(* Shop, where every statement is a step of its own, implements it.        *)
(***************************************************************************)
EXTENDS Integers

CONSTANTS Shops, Shoppers, TotalBasket, InitStock, Threshold, TakeBound,
          DeliverBound

VARIABLES stock,   \* shops[]: what each shop holds
          basket   \* what each shopper has taken so far

vars == <<stock, basket>>

Init == /\ stock = [s \in Shops |-> InitStock]
        /\ basket = [p \in Shoppers |-> 0]

(* A shopper still short of its total takes n from a well-stocked shop. *)
Buy(p, s, n) ==
  /\ basket[p] < TotalBasket
  /\ stock[s] >= Threshold
  /\ stock' = [stock EXCEPT ![s] = @ - n]
  /\ basket' = [basket EXCEPT ![p] = @ + n]

Deliver(s, n) ==
  /\ stock' = [stock EXCEPT ![s] = @ + n]
  /\ UNCHANGED basket

Next ==
  \E s \in Shops :
    \/ \E p \in Shoppers, n \in 0 .. TakeBound - 1 : Buy(p, s, n)
    \/ \E n \in 0 .. DeliverBound - 1 : Deliver(s, n)

Spec == Init /\ [][Next]_vars
=============================================================================
