--------------------------- MODULE MCCategoryTree ---------------------------
EXTENDS CategoryTree, TLC

CONSTANTS t1, t2, adm, adm2, a1, a2, NULL, none

MCParent == ("shop" :> "") @@ ("shop.cart" :> "shop")
MCNames == (a1 :> "file") @@ (a2 :> "console")
MCThreshold == (a1 :> 800) @@ (a2 :> 300)
Sym == Permutations({t1, t2})
MCParent2 == ("shop" :> "")
MCSameName == (a1 :> "file") @@ (a2 :> "file")
=============================================================================
