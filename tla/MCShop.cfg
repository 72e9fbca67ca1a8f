SPECIFICATION ShopSpec
CONSTANTS
    t1 = t1  t2 = t2
    feast = feast  side = side  bowl = bowl  cups = cups  delisted = delisted
    b1 = b1  b2 = b2  r1 = r1  r2 = r2  r3 = r3  s1 = s1  s2 = s2  w1 = w1  d1 = d1  d2 = d2
    Tab <- TwoTabs
    Dish <- Dishes
    Listed <- Menu
    restaurantOf <- Kitchens
    price <- Prices
    serves <- Servings
    FREE_DELIVERY_OVER = 250
    DELIVERY_FEE = 35
    TieLost <- Lost
    SEED <- Demo
    Bundle <- TwoBundles
    dishIds <- Contents
    bundleServes <- BundleFor
    Popular <- Favourites
    rank <- Ranks
    MaxHeadcount = 2
    HeadcountStep = 1
    MaxQty <- Trays
    Explorer = t1
    Section <- Sections
    options <- Options
    maxSelections <- Picks
    minGuests = 1
    FirstGuests = 1
    Restaurant <- Places
    cuisineOf <- Kinds
    Word <- Words
    matches <- Found
    Diet <- Diets
    offers <- ForDiets
INVARIANTS ShopTypeOK CartKept
PROPERTIES MoreNeverCheaper BundleCovers EachDishSized
CHECK_DEADLOCK FALSE
