---------------------------- MODULE MCNearbyStores ----------------------------
(***************************************************************************)
(* Scenes for model-checking NearbyStores: shops that lie apart, one shop  *)
(* with opening hours, and falls in price.                                 *)
(***************************************************************************)
EXTENDS NearbyStores, TLC

CONSTANTS s1, s2, s3, g1, g2

Unlisted == [spot |-> <<0, 1>>, chain |-> "near", mine |-> FALSE, published |-> FALSE,
             active |-> TRUE, status |-> "ACTIVE", hours |-> {}, zone |-> 0]
Listed == [Unlisted EXCEPT !.published = TRUE]
Mine == [Unlisted EXCEPT !.mine = TRUE, !.status = "UNDER_REVIEW"]

\* Visible or not, here or there; <<1, 1>> is in the corner of a box.
Apart == UNION {{[row EXCEPT !.spot = spot] : spot \in {<<0, 1>>, <<1, -1>>, <<2, 0>>}} :
            row \in {Listed, [Listed EXCEPT !.chain = "far"], [Listed EXCEPT !.active = FALSE],
                     Mine, [Mine EXCEPT !.status = "HIDDEN"], Unlisted}}

NoFalls == [f \in {} |-> f]

\* In reach is one shop, one in the corner as well, or one twice as far too.
Radii == {11200, 15800, 22300}

Geography ==
    /\ place \in [Places -> Apart]
    /\ fall = NoFalls /\ retired = {}
    /\ visit \in [asks : {"stores"}, radius : Radii, limit : {1}, chain : {"any", "near"}, now : {0}]

OpenAt(h, i) ==
    [p \in Places |-> IF p = s1 THEN [Listed EXCEPT !.hours = {h, i}, !.zone = -4] ELSE Listed]

Week == 0 .. DaysPerWeek * MinutesPerDay - 1

Hours ==
    /\ \E h, i \in OpeningHours : place = OpenAt(h, i)
    /\ fall = NoFalls /\ retired = {}
    /\ visit \in [asks : {"stores"}, radius : {11200}, limit : {3}, chain : {"any"}, now : Week]

Bargains ==
    /\ place = [p \in Places |-> CASE p = s1 -> Listed [] p = s2 -> [Listed EXCEPT !.spot = <<1, 1>>]
                                   [] OTHER -> Mine]
    /\ \E there \in (SUBSET {<<g1, s1>>, <<g1, s2>>, <<g2, s1>>}) \cup {{<<g2, s3>>}} :
         fall \in [there -> [percent : {2, 5, 7}, at : 0 .. 2]]
    /\ retired \in {{}, {g1}}
    /\ visit \in [asks : {"falls"}, radius : {22300}, limit : {1, 2}, now : {2}]

NearbyScenes == (Geography \/ Hours \/ Bargains) /\ page = NoPage
=============================================================================
