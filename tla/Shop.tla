-------------------------------- MODULE Shop --------------------------------
(***************************************************************************)
(* threads/shop.c: COUNT_OF_SHOPS - 1 shopper threads and one delivery     *)
(* thread share the array shops[], each element guarded by its own mutex,  *)
(* and the counter glob, guarded by nothing.  Locks are only ever tried    *)
(* (pthread_mutex_trylock); a busy shop is passed over.                    *)
(*                                                                         *)
(* The makefile compiles without optimisation, so a compound assignment    *)
(* (shops[i] -= tmp, shops[i] += ..., glob++) is a load followed by a      *)
(* store, with other threads free to run in between: Load / Store* and     *)
(* LoadGlob / StoreGlob.                                                   *)
(***************************************************************************)
EXTENDS Integers, FiniteSets

CONSTANTS
  NumShops,      \* COUNT_OF_SHOPS
  TotalBasket,   \* TOTAL_BASKET
  InitStock,     \* the initialiser of shops[]
  Threshold,     \* shops[i] >= 500
  TakeBound,     \* rand() % 500
  DeliverBound,  \* rand() % 1000
  MaxStock       \* bound of the model: a delivery never lifts a shop above it

ASSUME ShopAssumption ==
  /\ NumShops \in Nat /\ NumShops >= 2
  /\ TotalBasket \in Nat
  /\ Threshold \in Nat
  /\ TakeBound \in Nat /\ 1 <= TakeBound /\ TakeBound <= Threshold
  /\ DeliverBound \in Nat /\ 1 <= DeliverBound
  /\ InitStock \in Nat /\ Threshold <= InitStock
  /\ MaxStock \in Nat /\ InitStock <= MaxStock

Shops    == 0 .. NumShops - 1
Shoppers == 0 .. NumShops - 2
Delivery == NumShops - 1            \* the delivery thread, created last
Threads  == Shoppers \cup {Delivery}
NoThread == -1

VARIABLES
  stock,    \* shops[]
  holder,   \* shop_mutexes[]: the thread holding each mutex, or NoThread
  glob,     \* glob: shoppers that have counted themselves out
  pc, at,   \* per thread: next statement, and the for loop's i
  reg,      \* per thread: the register of a compound assignment
  basket,   \* per shopper: basket
  main      \* pthread_joins main has completed; NumShops + 1: main returned

vars == <<stock, holder, glob, pc, at, reg, basket, main>>

Labels == {"loop", "scan", "check", "load", "store", "unlock",
           "count", "incr", "done"}

TypeOK ==
  /\ stock \in [Shops -> Int]
  /\ holder \in [Shops -> Threads \cup {NoThread}]
  /\ glob \in Nat
  /\ pc \in [Threads -> Labels]
  /\ at \in [Threads -> 0 .. NumShops]
  /\ reg \in [Threads -> Int]
  /\ basket \in [Shoppers -> Nat]
  /\ main \in 0 .. NumShops + 1

Init ==
  /\ stock = [s \in Shops |-> InitStock]
  /\ holder = [s \in Shops |-> NoThread]
  /\ glob = 0
  /\ pc = [t \in Threads |-> "loop"]
  /\ at = [t \in Threads |-> 0]
  /\ reg = [t \in Threads |-> 0]
  /\ basket = [p \in Shoppers |-> 0]
  /\ main = 0

Goto(t, label) == pc' = [pc EXCEPT ![t] = label]

-----------------------------------------------------------------------------
(* Both kinds of thread. *)

(* A defective loop head for the delivery: it stops one shopper early. *)
LoopEarly(t) ==
  /\ pc[t] = "loop"
  /\ IF IF t = Delivery THEN glob < NumShops - 2 ELSE basket[t] < TotalBasket
     THEN Goto(t, "scan") /\ at' = [at EXCEPT ![t] = 0]
     ELSE Goto(t, IF t = Delivery THEN "done" ELSE "count")
          /\ UNCHANGED at
  /\ UNCHANGED <<stock, holder, glob, reg, basket, main>>

(* A defective loop head: the delivery thread never re-reads glob. *)
LoopForever(t) ==
  /\ pc[t] = "loop"
  /\ IF t = Delivery \/ basket[t] < TotalBasket
     THEN Goto(t, "scan") /\ at' = [at EXCEPT ![t] = 0]
     ELSE Goto(t, "count") /\ UNCHANGED at
  /\ UNCHANGED <<stock, holder, glob, reg, basket, main>>

(* The head of either while loop: a shopper buys until its basket is full,
   the delivery thread delivers until glob is the number of shoppers (the
   code's literal 3 is COUNT_OF_SHOPS - 1). *)
Loop(t) ==
  /\ pc[t] = "loop"
  /\ IF IF t = Delivery THEN glob # NumShops - 1 ELSE basket[t] < TotalBasket
     THEN Goto(t, "scan") /\ at' = [at EXCEPT ![t] = 0]
     ELSE Goto(t, IF t = Delivery THEN "done" ELSE "count")
          /\ UNCHANGED at
  /\ UNCHANGED <<stock, holder, glob, reg, basket, main>>

(* A defective try-lock that takes a mutex another thread holds. *)
TryLockBroken(t) ==
  /\ pc[t] = "scan"
  /\ at[t] < NumShops
  /\ holder' = [holder EXCEPT ![at[t]] = t]
  /\ Goto(t, IF t = Delivery THEN "load" ELSE "check")
  /\ UNCHANGED <<stock, glob, at, reg, basket, main>>

(* pthread_mutex_trylock on the next shop: taken if free, else passed over. *)
TryLock(t) ==
  /\ pc[t] = "scan"
  /\ at[t] < NumShops
  /\ \/ /\ holder[at[t]] = NoThread
        /\ holder' = [holder EXCEPT ![at[t]] = t]
        /\ Goto(t, IF t = Delivery THEN "load" ELSE "check")
        /\ UNCHANGED at
     \/ /\ holder[at[t]] # NoThread
        /\ at' = [at EXCEPT ![t] = @ + 1]
        /\ UNCHANGED <<holder, pc>>
  /\ UNCHANGED <<stock, glob, reg, basket, main>>

(* The for loop ran out of shops. *)
EndScan(t) ==
  /\ pc[t] = "scan"
  /\ at[t] = NumShops
  /\ Goto(t, "loop")
  /\ UNCHANGED <<stock, holder, glob, at, reg, basket, main>>

Load(t) ==
  /\ pc[t] = "load"
  /\ Goto(t, "store")
  /\ reg' = [reg EXCEPT ![t] = stock[at[t]]]
  /\ UNCHANGED <<stock, holder, glob, at, basket, main>>

(* A defective release: the break of the delivery loop skips the unlock. *)
UnlockForgotten(t) ==
  /\ pc[t] = "unlock"
  /\ Goto(t, "loop")
  /\ holder' = IF t = Delivery THEN holder
               ELSE [holder EXCEPT ![at[t]] = NoThread]
  /\ UNCHANGED <<stock, glob, at, reg, basket, main>>

(* After sleep(1): pthread_mutex_unlock and break. *)
Unlock(t) ==
  /\ pc[t] = "unlock"
  /\ Goto(t, "loop")
  /\ holder' = [holder EXCEPT ![at[t]] = NoThread]
  /\ UNCHANGED <<stock, glob, at, reg, basket, main>>

-----------------------------------------------------------------------------
(* The shopper threads. *)

(* if (shops[i] >= 500), else unlock and go on to the next shop. *)
Check(p) ==
  /\ pc[p] = "check"
  /\ IF stock[at[p]] >= Threshold
     THEN Goto(p, "load") /\ UNCHANGED <<holder, at>>
     ELSE /\ Goto(p, "scan")
          /\ holder' = [holder EXCEPT ![at[p]] = NoThread]
          /\ at' = [at EXCEPT ![p] = @ + 1]
  /\ UNCHANGED <<stock, glob, reg, basket, main>>

(* shops[i] -= tmp; basket += tmp, for any tmp = rand() % 500. *)
StorePurchase(p) ==
  /\ pc[p] = "store"
  /\ Goto(p, "unlock")
  /\ \E tmp \in 0 .. TakeBound - 1 :
       /\ stock' = [stock EXCEPT ![at[p]] = reg[p] - tmp]
       /\ basket' = [basket EXCEPT ![p] = @ + tmp]
  /\ UNCHANGED <<holder, glob, at, reg, main>>

LoadGlob(p) ==
  /\ pc[p] = "count"
  /\ Goto(p, "incr")
  /\ reg' = [reg EXCEPT ![p] = glob]
  /\ UNCHANGED <<stock, holder, glob, at, basket, main>>

StoreGlob(p) ==
  /\ pc[p] = "incr"
  /\ Goto(p, "done")
  /\ glob' = reg[p] + 1
  /\ UNCHANGED <<stock, holder, at, reg, basket, main>>

shopper(p) == \/ Loop(p) \/ TryLock(p) \/ EndScan(p) \/ Check(p) \/ Load(p)
              \/ StorePurchase(p) \/ Unlock(p) \/ LoadGlob(p) \/ StoreGlob(p)

-----------------------------------------------------------------------------
(* The delivery thread and main. *)

(* shops[i] += rand() % 1000, kept below the bound of the model. *)
StoreDelivery(t) ==
  /\ pc[t] = "store"
  /\ Goto(t, "unlock")
  /\ \E n \in 0 .. DeliverBound - 1 :
       /\ n = 0 \/ reg[t] + n <= MaxStock
       /\ stock' = [stock EXCEPT ![at[t]] = reg[t] + n]
  /\ UNCHANGED <<holder, glob, at, reg, basket, main>>

delivery == \/ Loop(Delivery) \/ TryLock(Delivery) \/ EndScan(Delivery)
            \/ Load(Delivery) \/ StoreDelivery(Delivery) \/ Unlock(Delivery)

(* main joins the shoppers in order, then the delivery thread. *)
Join ==
  /\ main \in Threads
  /\ pc[main] = "done"
  /\ main' = main + 1
  /\ UNCHANGED <<stock, holder, glob, pc, at, reg, basket>>

(* main destroys the mutexes and returns. *)
Return ==
  /\ main = NumShops
  /\ main' = NumShops + 1
  /\ UNCHANGED <<stock, holder, glob, pc, at, reg, basket>>

Returned == main = NumShops + 1

Terminating == Returned /\ UNCHANGED vars

Next == \/ \E p \in Shoppers : shopper(p)
        \/ delivery
        \/ Join \/ Return
        \/ Terminating

(* The kernel keeps scheduling every thread; nothing makes a trylock win. *)
Fairness == /\ \A p \in Shoppers : WF_vars(shopper(p))
            /\ WF_vars(delivery)
            /\ WF_vars(Join \/ Return)

Spec == Init /\ [][Next]_vars
FairSpec == Spec /\ Fairness

-----------------------------------------------------------------------------
(* Properties. *)

InShop(t, s) == at[t] = s /\ pc[t] \in {"check", "load", "store", "unlock"}

(* A thread inside a shop's critical section holds that shop's mutex, so two
   threads are never inside the same shop. *)
MutualExclusion ==
  \A s \in Shops : \A t \in Threads : InShop(t, s) => holder[s] = t

(* The stock a thread loaded is still the stock when it writes the sum back,
   and a shopper past its test still faces a well-stocked shop: no other
   thread's purchase or delivery is overwritten. *)
NoStaleStock ==
  /\ \A t \in Threads : pc[t] = "store" => reg[t] = stock[at[t]]
  /\ \A p \in Shoppers :
       pc[p] \in {"load", "store"} => stock[at[p]] >= Threshold

(* However many shoppers race for it, a shop is never emptied. *)
NeverSoldOut == \A s \in Shops : stock[s] > Threshold - TakeBound

ShoppersDone == \A p \in Shoppers : pc[p] = "done"

(* The unguarded glob can lose an increment but never gains one: the
   delivery thread stops only after every shopper has stopped. *)
DeliveryOutlivesShoppers == pc[Delivery] = "done" => ShoppersDone

(* No mutex is kept: whoever holds a shop gives it back. *)
LockIsReleased ==
  \A s \in Shops : holder[s] # NoThread ~> holder[s] = NoThread

(* When every shopper has counted itself, the program ends. *)
EndsWhenAllCounted ==
  ShoppersDone /\ glob = NumShops - 1 ~> Returned

(* When two shoppers lost an increment to each other, the delivery thread
   delivers for ever and main never returns from its last join. *)
HangsWhenCountIsLost ==
  [](ShoppersDone /\ glob # NumShops - 1 => []~Returned)

(* The statement-by-statement program is the atomic market. *)
M == INSTANCE Market
ImplementsMarket == M!Spec
=============================================================================
