----------------------------- MODULE ShopProofs -----------------------------
(***************************************************************************)
(* Theorems about threads/shop.c for any number of shops and any stock,    *)
(* basket and delivery sizes that satisfy ShopAssumption.                  *)
(***************************************************************************)
EXTENDS Shop, FiniteSetTheorems, TLAPS

(* Inside the body of the for loop, i is an index of shops[]. *)
IndexInRange ==
  \A t \in Threads :
    pc[t] \in {"check", "load", "store", "unlock"} => at[t] \in Shops

(* The register of a pending glob++ holds a value that was loaded. *)
CountRegister == \A p \in Shoppers : pc[p] = "incr" => reg[p] \in Nat

(* A shopper inside its while loop was short of its total at the loop's head
   and has not bought since. *)
BasketOpen ==
  \A p \in Shoppers :
    pc[p] \in {"scan", "check", "load", "store"} => basket[p] < TotalBasket

(* The inductive invariant: the type invariant alone is not preserved, since
   the writes of holder and stock need the index in range, and the stock
   facts need the mutexes. *)
StockInv == /\ TypeOK /\ IndexInRange /\ CountRegister /\ BasketOpen
            /\ MutualExclusion /\ NoStaleStock /\ NeverSoldOut

LEMMA ConstantFacts ==
  /\ NumShops \in Nat /\ NumShops >= 2
  /\ Delivery \in Threads /\ Delivery \notin Shoppers
  /\ Threads = Shops
  /\ Shoppers \subseteq Threads
  /\ NoThread \notin Threads
  /\ Threshold > Threshold - TakeBound
  /\ InitStock > Threshold - TakeBound
  BY ShopAssumption
     DEF ShopAssumption, Threads, Shops, Shoppers, Delivery, NoThread

LEMMA StockInit == Init => StockInv
  <1> SUFFICES ASSUME Init PROVE StockInv
    OBVIOUS
  <1>1. TypeOK
    BY ConstantFacts, ShopAssumption DEF Init, TypeOK, ShopAssumption, Labels
  <1>2. /\ IndexInRange /\ CountRegister /\ BasketOpen
        /\ MutualExclusion /\ NoStaleStock
    BY DEF Init, IndexInRange, CountRegister, BasketOpen, MutualExclusion,
           InShop, NoStaleStock, Threads
  <1>3. NeverSoldOut
    BY ConstantFacts DEF Init, NeverSoldOut
  <1> QED
    BY <1>1, <1>2, <1>3 DEF StockInv

LEMMA StockNext == StockInv /\ [Next]_vars => StockInv'
  <1> SUFFICES ASSUME StockInv, [Next]_vars PROVE StockInv'
    OBVIOUS
  <1> USE ConstantFacts DEF StockInv, TypeOK, Labels, Goto
  <1>1. ASSUME NEW t \in Threads, Loop(t) PROVE StockInv'
    <2>1. TypeOK'
      BY <1>1 DEF Loop
    <2>2. (IndexInRange /\ CountRegister /\ BasketOpen)'
      BY <1>1 DEF Loop, IndexInRange, CountRegister, BasketOpen
    <2>3. (MutualExclusion /\ NoStaleStock /\ NeverSoldOut)'
      BY <1>1 DEF Loop, MutualExclusion, InShop, NoStaleStock, NeverSoldOut
    <2> QED BY <2>1, <2>2, <2>3
  <1>2. ASSUME NEW t \in Threads, TryLock(t) PROVE StockInv'
    <2>0. at[t] \in 0 .. NumShops /\ at[t] < NumShops
      BY <1>2 DEF TryLock
    <2>1. at[t] \in Shops /\ at[t] + 1 \in 0 .. NumShops
      BY ONLY <2>0, NumShops \in Nat DEF Shops
    <2>2. CASE holder[at[t]] = NoThread
      <3>1. /\ pc[t] = "scan"
            /\ holder' = [holder EXCEPT ![at[t]] = t]
            /\ \/ pc' = [pc EXCEPT ![t] = "load"] /\ t \notin Shoppers
               \/ pc' = [pc EXCEPT ![t] = "check"]
            /\ UNCHANGED <<stock, glob, at, reg, basket, main>>
        BY <1>2, <2>2 DEF TryLock
      <3>2. TypeOK'
        BY <2>1, <3>1
      <3>3. (IndexInRange /\ CountRegister /\ BasketOpen)'
        BY <2>1, <3>1 DEF IndexInRange, CountRegister, BasketOpen
      <3>4. MutualExclusion'
        BY <2>1, <2>2, <3>1 DEF MutualExclusion, InShop
      <3>5. (NoStaleStock /\ NeverSoldOut)'
        BY <3>1 DEF NoStaleStock, NeverSoldOut
      <3> QED BY <3>2, <3>3, <3>4, <3>5
    <2>3. CASE holder[at[t]] # NoThread
      <3>1. /\ pc[t] = "scan"
            /\ at' = [at EXCEPT ![t] = @ + 1]
            /\ UNCHANGED <<stock, holder, glob, pc, reg, basket, main>>
        BY <1>2, <2>3 DEF TryLock
      <3>2. TypeOK'
        BY <2>1, <3>1
      <3>3. (IndexInRange /\ CountRegister /\ BasketOpen)'
        BY <3>1 DEF IndexInRange, CountRegister, BasketOpen
      <3>4. (MutualExclusion /\ NoStaleStock /\ NeverSoldOut)'
        BY <3>1 DEF MutualExclusion, InShop, NoStaleStock, NeverSoldOut
      <3> QED BY <3>2, <3>3, <3>4
    <2> QED BY <2>2, <2>3
  <1>3. ASSUME NEW t \in Threads, EndScan(t) PROVE StockInv'
    BY <1>3 DEF EndScan, IndexInRange, CountRegister, BasketOpen,
                MutualExclusion, InShop, NoStaleStock, NeverSoldOut
  <1>4. ASSUME NEW t \in Threads, Load(t) PROVE StockInv'
    BY <1>4 DEF Load, IndexInRange, CountRegister, BasketOpen,
                MutualExclusion, InShop, NoStaleStock, NeverSoldOut
  <1>5. ASSUME NEW t \in Threads, Unlock(t) PROVE StockInv'
    BY <1>5 DEF Unlock, IndexInRange, CountRegister, BasketOpen,
                MutualExclusion, InShop, NoStaleStock, NeverSoldOut
  <1>6. ASSUME NEW p \in Shoppers, Check(p) PROVE StockInv'
    <2>1. /\ p \in Threads /\ pc[p] = "check" /\ at[p] \in Shops
          /\ holder[at[p]] = p
      BY <1>6 DEF Check, IndexInRange, MutualExclusion, InShop
    <2>2. CASE stock[at[p]] >= Threshold
      BY <1>6, <2>1, <2>2
         DEF Check, IndexInRange, CountRegister, BasketOpen, MutualExclusion,
             InShop, NoStaleStock, NeverSoldOut
    <2>3. CASE ~(stock[at[p]] >= Threshold)
      <3>1. /\ pc' = [pc EXCEPT ![p] = "scan"]
            /\ holder' = [holder EXCEPT ![at[p]] = NoThread]
            /\ at' = [at EXCEPT ![p] = @ + 1]
            /\ UNCHANGED <<stock, glob, reg, basket, main>>
        BY <1>6, <2>3 DEF Check
      <3>2. at[p] + 1 \in 0 .. NumShops
        BY ONLY <2>1, NumShops \in Nat DEF Shops
      <3>3. TypeOK'
        BY <2>1, <3>1, <3>2
      <3>4. (IndexInRange /\ CountRegister /\ BasketOpen)'
        BY <2>1, <3>1 DEF IndexInRange, CountRegister, BasketOpen
      <3>5. MutualExclusion'
        BY <2>1, <3>1 DEF MutualExclusion, InShop
      <3>6. (NoStaleStock /\ NeverSoldOut)'
        BY <2>1, <3>1 DEF NoStaleStock, NeverSoldOut
      <3> QED BY <3>3, <3>4, <3>5, <3>6
    <2> QED BY <2>2, <2>3
  <1>7. ASSUME NEW p \in Shoppers, StorePurchase(p) PROVE StockInv'
    BY <1>7, ShopAssumption
       DEF StorePurchase, IndexInRange, CountRegister, BasketOpen,
           MutualExclusion, InShop, NoStaleStock, NeverSoldOut, ShopAssumption
  <1>8. ASSUME NEW p \in Shoppers, LoadGlob(p) PROVE StockInv'
    BY <1>8 DEF LoadGlob, IndexInRange, CountRegister, BasketOpen,
                MutualExclusion, InShop, NoStaleStock, NeverSoldOut
  <1>9. ASSUME NEW p \in Shoppers, StoreGlob(p) PROVE StockInv'
    BY <1>9 DEF StoreGlob, IndexInRange, CountRegister, BasketOpen,
                MutualExclusion, InShop, NoStaleStock, NeverSoldOut
  <1>10. ASSUME StoreDelivery(Delivery) PROVE StockInv'
    BY <1>10, ShopAssumption
       DEF StoreDelivery, IndexInRange, CountRegister, BasketOpen,
           MutualExclusion, InShop, NoStaleStock, NeverSoldOut, ShopAssumption
  <1>11. CASE Join \/ Return
    <2>1. main' \in 0 .. NumShops + 1
      <3>1. CASE Join
        <4>1. main' = main + 1 /\ main \in Threads
          BY <3>1, Zenon DEF Join
        <4>2. main \in 0 .. NumShops + 1
          OBVIOUS
        <4>3. main \in 0 .. NumShops
          BY ONLY <4>1, <4>2, NumShops \in Nat DEF Threads, Shoppers, Delivery
        <4> QED
          BY ONLY <4>1, <4>3, NumShops \in Nat
      <3>2. CASE Return
        <4>1. main' = NumShops + 1
          BY <3>2, Zenon DEF Return
        <4> QED
          BY ONLY <4>1, NumShops \in Nat
      <3> QED
        BY <1>11, <3>1, <3>2
    <2>2. UNCHANGED <<stock, holder, glob, pc, at, reg, basket>>
      BY <1>11 DEF Join, Return
    <2> QED
      BY <2>1, <2>2
         DEF IndexInRange, CountRegister, BasketOpen, MutualExclusion, InShop,
             NoStaleStock, NeverSoldOut
  <1>12. CASE UNCHANGED vars
    BY <1>12 DEF vars, IndexInRange, CountRegister, BasketOpen,
                 MutualExclusion, InShop, NoStaleStock, NeverSoldOut
  <1> QED
    BY <1>1, <1>2, <1>3, <1>4, <1>5, <1>6, <1>7, <1>8, <1>9, <1>10, <1>11,
       <1>12 DEF Next, shopper, delivery, Terminating

LEMMA StockInvariant == Spec => []StockInv
  BY StockInit, StockNext, PTL DEF Spec

(* Every statement keeps the program's variables within their types. *)
THEOREM TypeCorrect == Spec => []TypeOK
  BY StockInvariant, PTL DEF StockInv

(* The mutexes of threads/shop.c keep two threads out of one shop. *)
THEOREM ShopsAreExclusive == Spec => []MutualExclusion
  BY StockInvariant, PTL DEF StockInv

(* No load of a shop's stock is stale when the sum is written back. *)
THEOREM StockIsFresh == Spec => []NoStaleStock
  BY StockInvariant, PTL DEF StockInv

(* No shop is ever emptied, whatever rand() returns. *)
THEOREM ShopsNeverSellOut == Spec => []NeverSoldOut
  BY StockInvariant, PTL DEF StockInv

-----------------------------------------------------------------------------
(* The unguarded counter glob. *)

Done == {p \in Shoppers : pc[p] = "done"}

(* glob, and every value of glob still waiting in a register, is at most the
   number of shoppers that have finished; a shopper about to store is not yet
   one of them, so its increment still fits. *)
CountInv ==
  /\ glob <= Cardinality(Done)
  /\ \A p \in Shoppers : pc[p] = "incr" => reg[p] <= Cardinality(Done)
  /\ DeliveryOutlivesShoppers

LEMMA ShoppersFinite ==
  IsFiniteSet(Shoppers) /\ Cardinality(Shoppers) = NumShops - 1
  <1>1. NumShops - 2 \in Int /\ 0 \in Int /\ ~(0 > NumShops - 2)
    BY ConstantFacts
  <1>2. IsFiniteSet(0 .. NumShops - 2)
        /\ Cardinality(0 .. NumShops - 2) = NumShops - 2 - 0 + 1
    BY <1>1, FS_Interval
  <1> QED BY <1>2, ConstantFacts DEF Shoppers

LEMMA DoneFinite ==
  /\ IsFiniteSet(Done) /\ Cardinality(Done) \in Nat
  /\ Cardinality(Done) = NumShops - 1 => Done = Shoppers
  <1>1. Done \subseteq Shoppers
    BY DEF Done
  <1> QED BY <1>1, ShoppersFinite, FS_Subset, FS_CardinalityType

LEMMA CountInit == Init => CountInv
  <1> SUFFICES ASSUME Init PROVE CountInv
    OBVIOUS
  <1>1. Cardinality(Done) \in Nat
    BY DoneFinite
  <1> QED BY <1>1, ConstantFacts DEF Init, CountInv, DeliveryOutlivesShoppers

LEMMA CountNext == StockInv /\ CountInv /\ [Next]_vars => CountInv'
  <1> SUFFICES ASSUME StockInv, CountInv, [Next]_vars PROVE CountInv'
    OBVIOUS
  <1> USE ConstantFacts DEF StockInv, TypeOK, Labels, Goto
  <1>1. ASSUME Done' = Done, glob' = glob,
               \A p \in Shoppers : pc'[p] = "incr" =>
                 \/ pc[p] = "incr" /\ reg'[p] = reg[p]
                 \/ reg'[p] = glob,
               pc[Delivery] # "done" /\ pc'[Delivery] = "done" =>
                 ShoppersDone
        PROVE  CountInv'
    <2>1. ShoppersDone <=> Done = Shoppers
      BY DEF ShoppersDone, Done
    <2>2. ShoppersDone' <=> Done' = Shoppers
      BY DEF ShoppersDone, Done
    <2> QED BY <1>1, <2>1, <2>2, DoneFinite DEF CountInv,
               DeliveryOutlivesShoppers
  <1>2. ASSUME NEW t \in Threads, Loop(t) PROVE CountInv'
    <2>1. Done' = Done
      BY <1>2 DEF Loop, Done
    <2>2. pc[Delivery] # "done" /\ pc'[Delivery] = "done" => ShoppersDone
      <3> SUFFICES ASSUME pc[Delivery] # "done", pc'[Delivery] = "done"
                   PROVE  ShoppersDone
        OBVIOUS
      <3>1. glob = NumShops - 1
        BY <1>2 DEF Loop
      <3>2. Cardinality(Done) = NumShops - 1
        <4>1. Cardinality(Done) <= Cardinality(Shoppers)
          BY ShoppersFinite, FS_Subset DEF Done
        <4> QED BY <3>1, <4>1, DoneFinite, ShoppersFinite DEF CountInv
      <3> QED BY <3>2, DoneFinite DEF Done, ShoppersDone
    <2> QED BY <1>1, <1>2, <2>1, <2>2 DEF Loop
  <1>3. ASSUME NEW p \in Shoppers, StoreGlob(p) PROVE CountInv'
    <2>1. p \notin Done /\ Done' = Done \cup {p}
      BY <1>3 DEF StoreGlob, Done
    <2>2. Cardinality(Done') = Cardinality(Done) + 1
      BY <2>1, DoneFinite, FS_AddElement
    <2>3. glob' <= Cardinality(Done')
      BY <1>3, <2>2, DoneFinite DEF StoreGlob, CountInv, CountRegister
    <2>4. ASSUME NEW q \in Shoppers, pc'[q] = "incr"
          PROVE  reg'[q] <= Cardinality(Done')
      <3>1. pc[q] = "incr" /\ reg'[q] = reg[q]
        BY <1>3, <2>4 DEF StoreGlob
      <3> QED
        BY <3>1, <2>2, DoneFinite DEF CountInv, CountRegister
    <2>5. DeliveryOutlivesShoppers'
      BY <1>3 DEF StoreGlob, CountInv, DeliveryOutlivesShoppers, ShoppersDone
    <2> QED BY <2>3, <2>4, <2>5 DEF CountInv
  <1>4. ASSUME NEW p \in Shoppers, LoadGlob(p) PROVE CountInv'
    BY <1>1, <1>4 DEF LoadGlob, Done
  <1>5. ASSUME NEW t \in Threads, TryLock(t) \/ EndScan(t) \/ Load(t)
                                    \/ Unlock(t)
        PROVE  CountInv'
    <2>1. /\ Done' = Done /\ glob' = glob
          /\ pc'[Delivery] = "done" => pc[Delivery] = "done"
          /\ \A p \in Shoppers : pc'[p] = "incr" => pc[p] = "incr"
                                                    /\ reg'[p] = reg[p]
      BY <1>5 DEF TryLock, EndScan, Load, Unlock, Done
    <2> QED BY <1>1, <2>1
  <1>6. ASSUME NEW p \in Shoppers, Check(p) \/ StorePurchase(p) PROVE CountInv'
    BY <1>1, <1>6 DEF Check, StorePurchase, Done
  <1>7. ASSUME StoreDelivery(Delivery) PROVE CountInv'
    BY <1>1, <1>7 DEF StoreDelivery, Done
  <1>8. CASE Join \/ Return \/ UNCHANGED vars
    BY <1>1, <1>8 DEF Join, Return, vars, Done
  <1> QED
    BY <1>2, <1>3, <1>4, <1>5, <1>6, <1>7, <1>8
       DEF Next, shopper, delivery, Terminating

(* The race on glob is one-sided: the delivery thread never stops while a
   shopper is still buying, however the increments interleave. *)
THEOREM DeliveryStopsLast == Spec => []DeliveryOutlivesShoppers
  <1>1. Init => CountInv
    BY CountInit
  <1>2. CountInv => DeliveryOutlivesShoppers
    BY DEF CountInv
  <1> QED BY <1>1, <1>2, CountNext, StockInvariant, PTL DEF Spec

-----------------------------------------------------------------------------
(* The program whose count is lost. *)

(* The delivery thread has stopped only at the full count, and main is past
   its last join only behind the delivery thread. *)
HangInv ==
  /\ pc[Delivery] = "done" => glob = NumShops - 1
  /\ main > Delivery => pc[Delivery] = "done"

LEMMA HangNext == StockInv /\ CountInv /\ HangInv /\ [Next]_vars => HangInv'
  <1> SUFFICES ASSUME StockInv, CountInv, HangInv, [Next]_vars PROVE HangInv'
    OBVIOUS
  <1> USE ConstantFacts DEF StockInv, TypeOK, Goto, HangInv
  <1>1. ASSUME NEW t \in Threads, Loop(t) PROVE HangInv'
    BY <1>1 DEF Loop
  <1>2. ASSUME NEW t \in Threads,
               TryLock(t) \/ EndScan(t) \/ Load(t) \/ Unlock(t)
        PROVE  HangInv'
    BY <1>2 DEF TryLock, EndScan, Load, Unlock
  <1>3. ASSUME NEW p \in Shoppers, Check(p) \/ StorePurchase(p) \/ LoadGlob(p)
        PROVE  HangInv'
    BY <1>3 DEF Check, StorePurchase, LoadGlob
  <1>4. ASSUME NEW p \in Shoppers, StoreGlob(p) PROVE HangInv'
    <2>1. ~ShoppersDone
      BY <1>4 DEF StoreGlob, ShoppersDone
    <2>2. pc[Delivery] # "done"
      BY <2>1 DEF CountInv, DeliveryOutlivesShoppers
    <2> QED BY <1>4, <2>2 DEF StoreGlob
  <1>5. CASE StoreDelivery(Delivery)
    BY <1>5 DEF StoreDelivery
  <1>6. CASE Join
    <2>1. main \in Threads /\ pc[main] = "done" /\ main' = main + 1
          /\ UNCHANGED <<pc, glob>>
      BY <1>6 DEF Join
    <2>2. main' > Delivery => main = Delivery
      BY <2>1 DEF Threads, Shoppers, Delivery
    <2> QED BY <2>1, <2>2
  <1>7. CASE Return
    BY <1>7 DEF Return, Delivery
  <1>8. CASE UNCHANGED vars
    BY <1>8 DEF vars
  <1> QED
    BY <1>1, <1>2, <1>3, <1>4, <1>5, <1>6, <1>7, <1>8
       DEF Next, shopper, delivery, Terminating

(* Nobody counts any more once every shopper has. *)
LEMMA CountIsFinal ==
  StockInv /\ ShoppersDone /\ [Next]_vars => ShoppersDone' /\ glob' = glob
  <1> SUFFICES ASSUME StockInv, ShoppersDone, [Next]_vars
               PROVE  ShoppersDone' /\ glob' = glob
    OBVIOUS
  <1> USE ConstantFacts DEF StockInv, TypeOK, Goto, ShoppersDone
  <1>1. ASSUME NEW p \in Shoppers PROVE ~shopper(p)
    BY DEF shopper, Loop, TryLock, EndScan, Check, Load, StorePurchase, Unlock,
           LoadGlob, StoreGlob
  <1>2. CASE delivery
    BY <1>2 DEF delivery, Loop, TryLock, EndScan, Load, StoreDelivery, Unlock
  <1>3. CASE Join \/ Return \/ UNCHANGED vars
    BY <1>3 DEF Join, Return, vars
  <1> QED
    BY <1>1, <1>2, <1>3 DEF Next, Terminating

(* Two shoppers that lose an increment of glob to each other hang the program:
   from then on, whatever is scheduled, main does not return from its join of
   the delivery thread. *)
THEOREM LostCountHangs == Spec => HangsWhenCountIsLost
  <1> DEFINE Lost == ShoppersDone /\ glob # NumShops - 1
  <1>1. Init => CountInv /\ HangInv
    <2> SUFFICES ASSUME Init PROVE HangInv
      BY CountInit
    <2>1. pc[Delivery] = "loop" /\ main = 0
      BY ConstantFacts DEF Init
    <2>2. Delivery \in Nat /\ Delivery > 0
      BY ConstantFacts DEF Delivery
    <2> QED BY <2>1, <2>2 DEF HangInv
  <1>2. StockInv /\ HangInv /\ Lost => ~Returned
    BY ConstantFacts DEF HangInv, Returned, Delivery
  <1>3. StockInv /\ Lost /\ [Next]_vars => Lost'
    BY CountIsFinal
  <1>4. Spec => [](StockInv /\ HangInv)
    BY <1>1, StockInvariant, CountNext, HangNext, PTL DEF Spec
  <1> HIDE DEF Lost
  <1>5. Spec => [](Lost => []~Returned)
    BY <1>2, <1>3, <1>4, PTL DEF Spec
  <1> QED BY <1>5 DEF HangsWhenCountIsLost, Lost

-----------------------------------------------------------------------------
(* Refinement. *)

(* Each statement of the program is a purchase, a delivery or nothing. *)
LEMMA StepRefines == StockInv /\ [Next]_vars => [M!Next]_M!vars
  <1> SUFFICES ASSUME StockInv, [Next]_vars PROVE [M!Next]_M!vars
    OBVIOUS
  <1> USE ConstantFacts DEF StockInv, TypeOK
  <1>1. ASSUME NEW p \in Shoppers, StorePurchase(p) PROVE M!Next
    <2>1. /\ at[p] \in Shops /\ reg[p] = stock[at[p]]
          /\ stock[at[p]] >= Threshold
      BY <1>1 DEF StorePurchase, IndexInRange, NoStaleStock
    <2>2. basket[p] < TotalBasket
      BY <1>1 DEF StorePurchase, BasketOpen
    <2>3. PICK n \in 0 .. TakeBound - 1 :
            /\ stock' = [stock EXCEPT ![at[p]] = reg[p] - n]
            /\ basket' = [basket EXCEPT ![p] = @ + n]
      BY <1>1 DEF StorePurchase
    <2>4. M!Buy(p, at[p], n)
      BY <2>1, <2>2, <2>3 DEF M!Buy
    <2> QED BY <2>1, <2>4 DEF M!Next
  <1>2. ASSUME StoreDelivery(Delivery) PROVE M!Next
    <2>1. at[Delivery] \in Shops /\ reg[Delivery] = stock[at[Delivery]]
      BY <1>2 DEF StoreDelivery, IndexInRange, NoStaleStock
    <2>2. PICK n \in 0 .. DeliverBound - 1 :
            stock' = [stock EXCEPT ![at[Delivery]] = reg[Delivery] + n]
      BY <1>2 DEF StoreDelivery
    <2>3. M!Deliver(at[Delivery], n)
      BY <1>2, <2>1, <2>2 DEF M!Deliver, StoreDelivery
    <2> QED BY <2>1, <2>3 DEF M!Next
  <1>3. ASSUME NEW t \in Threads,
               Loop(t) \/ TryLock(t) \/ EndScan(t) \/ Load(t)
                                    \/ Unlock(t)
        PROVE  UNCHANGED M!vars
    BY <1>3 DEF Loop, TryLock, EndScan, Load, Unlock, M!vars
  <1>4. ASSUME NEW p \in Shoppers, Check(p) \/ LoadGlob(p) \/ StoreGlob(p)
        PROVE  UNCHANGED M!vars
    BY <1>4 DEF Check, LoadGlob, StoreGlob, M!vars
  <1>5. CASE Join \/ Return \/ UNCHANGED vars
    BY <1>5 DEF Join, Return, vars, M!vars
  <1> QED
    BY <1>1, <1>2, <1>3, <1>4, <1>5 DEF Next, shopper, delivery, Terminating

(* The statement-by-statement program implements the atomic market. *)
THEOREM ShopImplementsMarket == Spec => ImplementsMarket
  <1>1. Init => M!Init
    BY DEF Init, M!Init
  <1> QED
    BY <1>1, StepRefines, StockInvariant, PTL DEF Spec, ImplementsMarket, M!Spec
=============================================================================
