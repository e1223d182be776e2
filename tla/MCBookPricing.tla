--------------------------- MODULE MCBookPricing ---------------------------
(* Books of up to three rows over five kinds of row, plans with and without *)
(* a total, a tail, a floor and a gate, mappings with and without grouping. *)
EXTENDS BookPricing

Coverages == {"building_premium", "contents_premium"}
Row(cell, b, c, tiv, tier) ==
  [cell |-> cell, money |-> [f \in Coverages |-> IF f = "building_premium" THEN b ELSE c],
   tiv |-> tiv, error |-> FALSE, refused |-> FALSE, tier |-> tier]

SomeShapes ==
  {Row("P", 200, 100, 3, None),
   Row("", 400, 0, 8, "submit"),
   Row(None, 1000, 200, 5, "decline"),
   [Row("P", 0, 0, 6, "standard") EXCEPT !.error = TRUE],
   [Row("P", 600, 0, 2, "standard") EXCEPT !.refused = TRUE],
   [Row("P", 0, 0, 2, None) EXCEPT !.refused = TRUE, !.error = TRUE]}

Gate == [field |-> "tiv", least |-> 6, tier |-> "decline", default |-> "standard"]
Crowd == [field |-> "location_count", least |-> 2, tier |-> "submit", default |-> "preferred"]
Rated == [kind |-> "schedule_rating", net |-> 80, cap |-> 50, when |-> None]
Packed == [kind |-> "package_factor", percent |-> 50,
           when |-> [field |-> "location_count", least |-> 2]]
Charged == [kind |-> "endorsement", amount |-> 50, when |-> None]
Plan(coverages, total, gates, tail, floor) ==
  [coverages |-> coverages, total |-> total, gates |-> gates, tail |-> tail, floor |-> floor]

SomePlans ==
  {Plan(Coverages, TRUE, {}, <<>>, 0),
   Plan(Coverages, TRUE, {Gate, Crowd}, <<Rated, Packed, Charged>>, 0),
   Plan(Coverages, TRUE, {}, <<Packed>>, 500),
   Plan({"building_premium"}, FALSE, {Crowd}, <<>>, 500),
   Plan(Coverages, FALSE, {Gate}, <<>>, 0),
   Plan(Coverages, FALSE, {}, <<Rated>>, 0)}

Nothing == [f \in {} |-> "sum"]
SomeMappings ==
  [grouped : BOOLEAN,
   rollups : {Nothing, [tiv |-> "sum"], [tiv |-> "max", total_premium |-> "sum"],
              [building_premium |-> "sum"]}]
=============================================================================
