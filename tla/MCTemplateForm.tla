--------------------------- MODULE MCTemplateForm ---------------------------
(* TemplateForm for a small property: a zone inside an area and one outside *)
(* any, a room in the zone and a dorm of the other area without a zone.      *)
EXTENDS TemplateForm, TLC

CONSTANTS a1, a2, z1, z2, r1, r2, d1, b1, w1

Zoned == (r1 :> z1) @@ (r2 :> z2) @@ (d1 :> Nowhere) @@ (w1 :> z1)
InAreas == (r1 :> Nowhere) @@ (r2 :> Nowhere) @@ (d1 :> a2) @@ (w1 :> Nowhere)
             @@ (z1 :> a1) @@ (z2 :> Nowhere)
Bedded == b1 :> d1

=============================================================================
