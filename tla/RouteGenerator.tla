--------------------------- MODULE RouteGenerator ---------------------------
(* The motorway D1 (model_impl.h) and the routes its cars draw                 *)
(* (route_generator.cc).  A place is its kilometre; a choice at random is the     *)
(* set of what may be chosen.                                                      *)
EXTENDS Integers, Sequences

exits ==
    {0, 1, 2, 6, 8, 10, 12, 15, 21, 29, 34, 41, 49, 56, 66, 75, 81, 90, 104, 112, 119, 134, 141,
     146, 153, 162, 168, 178, 182, 190, 194, 196, 201, 203, 210, 216, 226, 230, 236, 244, 253, 258,
     260, 265, 298, 308, 311, 321, 330, 336, 342, 349, 354, 357, 361, 365, 366, 370, 372, 376}

(* The sections of each direction in the order of driving: from, to, lanes.        *)
Section(km_od, km_do, lanes) ==
    [km_od |-> km_od, km_do |-> km_do, pocet_pruhu |-> lanes,
     delka |-> IF km_od < km_do THEN km_do - km_od ELSE km_od - km_do]
Road(kms, oneLane) ==
    [n \in 1 .. Len(kms) - 1 |->
        Section(kms[n], kms[n + 1], IF <<kms[n], kms[n + 1]>> \in oneLane THEN 1 ELSE 2)]

kmPraha ==
    <<376, 370, 365, 361, 357, 354, 349, 342, 336, 330, 321, 311, 308, 265, 260, 258, 253, 244,
      236, 230, 226, 220, 216, 213, 210, 203, 201, 196, 194, 190, 182, 178, 168, 162, 153, 146,
      141, 134, 119, 112, 104, 90, 81, 75, 66, 56, 49, 41, 34, 29, 21, 15, 12, 10, 8, 6, 2, 0>>
praha == Road(kmPraha, {<<220, 216>>, <<216, 213>>, <<162, 153>>, <<75, 66>>, <<49, 41>>})
kmOlomouc ==
    <<0, 2, 6, 8, 10, 12, 15, 21, 29, 34, 41, 49, 56, 66, 75, 81, 90, 104, 112, 119, 134, 141,
      146, 153, 162, 168, 178, 182, 190, 194, 196, 201, 203, 210, 213, 216, 226, 230, 236, 244,
      253, 258, 260, 265, 308, 311, 321, 330, 336, 342, 349, 354, 357, 361, 365, 370, 376>>
olomouc == Road(kmOlomouc, {<<41, 49>>, <<66, 75>>, <<213, 216>>, <<216, 226>>})
Sections(direction) == IF direction = 1 THEN olomouc ELSE praha

(* A section is found by its ramps, and only places that are exits have one.           *)
get_by_strt_exit(direction, km) ==
    {n \in DOMAIN Sections(direction) : km \in exits /\ Sections(direction)[n].km_od = km}
get_by_end_exit(direction, km) ==
    {n \in DOMAIN Sections(direction) : km \in exits /\ Sections(direction)[n].km_do = km}

-----------------------------------------------------------------------------
(* Limits compared one after the other: one that is not above all before it is never  *)
(* the one that is met.                                                                 *)
Drawn(chain) ==
    {chain[n][2] : n \in {n \in DOMAIN chain : \A k \in 1 .. n - 1 : chain[k][1] < chain[n][1]}}

getPrahaOkoli == {0, 1, 2}
getPraha == {6, 8, 10, 12}
getBeneOkoli == {21, 29, 34, 41}
getBene == {21}
getHumpOkoli == {49, 56, 66, 75, 81, 90}
getHump == {90}
getJihlOkoli == {104, 119}
getJihl == {112}
getValMezOkoli == {134, 153}
getValMez == {141, 146}
getBrnoOkoli == {162, 168, 178, 182, 210, 216}
getBrno == {190, 194, 196, 201, 203}
getVyskovOkoli == {236, 244}
getVyskov == {226, 230}
getProstOkoli == {236, 244, 258, 260}
getProst == {253}
getOloOkoli == Drawn(<<<<20, 265>>, <<40, 298>>, <<60, 308>>, <<60, 321>>, <<100, 330>>>>)
getOlo == {311}
getOstOkoli == {330, 336, 342, 349, 361, 365, 366, 370, 372, 376}
getOst == {354, 357}

(* In the morning from the country to the town, in the afternoon back.                  *)
Commuting ==
    (getPrahaOkoli \X getPraha) \union (getBeneOkoli \X getBene) \union (getHumpOkoli \X getHump)
    \union (getJihlOkoli \X getJihl) \union (getValMezOkoli \X getPraha)
    \union (getBrnoOkoli \X getBrno) \union (getVyskovOkoli \X getVyskov)
    \union (getProstOkoli \X getProst) \union (getOloOkoli \X getOlo) \union (getOstOkoli \X getOst)
getWeekRoute == Commuting \union {<<r[2], r[1]>> : r \in Commuting}

getCity ==
    Drawn(<<<<50, 311>>, <<10, 253>>, <<15, 226>>, <<20, 230>>, <<25, 354>>, <<30, 357>>, <<35, 6>>,
            <<40, 8>>, <<45, 10>>, <<50, 12>>, <<55, 21>>, <<60, 90>>, <<65, 112>>, <<70, 141>>,
            <<75, 146>>, <<80, 190>>, <<85, 194>>, <<90, 196>>, <<95, 201>>, <<100, 203>>>>)
getCities == {r \in getCity \X getCity : r[1] # r[2]}
getDistantCity == {6, 8, 10, 354, 376, 190, 194, 196, 201, 203}
getDistantRoute == {r \in getDistantCity \X getDistantCity : r[1] # r[2]}
getWeekEndRoute == getCities \union getWeekRoute

getRoute == getWeekRoute \union getDistantRoute \union getWeekEndRoute
=============================================================================
