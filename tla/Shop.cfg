\* Two shoppers, the delivery thread and main over three shops.
SPECIFICATION FairSpec
CONSTANTS
  NumShops = 3
  TotalBasket = 2
  InitStock = 2
  Threshold = 2
  TakeBound = 2
  DeliverBound = 2
  MaxStock = 2
INVARIANTS
  DeliveryOutlivesShoppers
PROPERTIES
  ImplementsMarket
  LockIsReleased
  EndsWhenAllCounted
  HangsWhenCountIsLost
