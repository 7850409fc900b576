------------------------------ MODULE MCIngest ------------------------------
(* Ingest on small instances.                                              *)
EXTENDS Ingest, TLC
CONSTANTS r1, r2

MCUrls == {"census", "ces", "roll", "mesa", "aadt1", "aadt2"}
MCHostOf(u) == CASE u \in {"aadt1", "aadt2"} -> "arcgis" [] OTHER -> u

Count(population, geo) == [geo |-> geo, population |-> population, vintage |-> 1]
Month(month, value) == [month |-> month, value |-> value]
Row(account, owner, address, rate, year) ==
  [account |-> account, county |-> "harris", owner |-> owner, address |-> address, rate |-> rate, year |-> year]
Station(station, aadt, year) == [station |-> station, aadt |-> aadt, year |-> year]

Name(words, form, marks, length) == [words |-> words, form |-> form, marks |-> marks, length |-> length]
Sunbelt == Name(<<"sunbelt", "wash">>, "llc", 0, 16)
SunbeltLp == Name(<<"sunbelt", "wash">>, "lp", 0, 15)
Dotted == Name(<<"sunbelt", "carwash">>, NoForm, 3, 19)
Turnabout == Name(<<"wash", "sunbelt">>, NoForm, 0, 12)
Stranger == Name(<<"texan", "wash">>, "llc", 0, 14)

MCAlias(w) == IF w = "carwash" THEN <<"wash">> ELSE <<w>>
MCInitial(t) == CASE t = "sunbelt" -> "s" [] t = "wash" -> "w" [] OTHER -> "t"
Alphabet == <<"sunbelt", "texan", "wash">>
Place(t) == CHOOSE i \in 1..3 : Alphabet[i] = t
MCBefore(s, t) == Place(s) < Place(t)

MCContent(b) ==
  CASE b.url = "census" /\ b.version = 1 -> <<Count(100, "houston"), Count(Null, "dallas"), Count(7, "nowhere")>>
    [] b.url = "census" -> <<Count(110, "houston"), Count(60, Null)>>
    [] b.url = "ces" /\ b.version = 1 -> <<Month(3, 50), Month(Null, 55), Month(15, 60)>>
    [] b.url = "ces" -> <<Month(3, 50), Month(15, 60), Month(27, Null)>>
    [] b.url = "roll" /\ b.version = 1 ->
         <<Row("a", Sunbelt, "main", 242, 1), Row("b", SunbeltLp, NoAddress, 215, 1), Row("c", Turnabout, "oak", 242, 1),
           Row("d", Stranger, "main", 215, 1), Row("e", Dotted, "main", 230, 2)>>
    [] b.url = "roll" -> <<Row("a", Sunbelt, "main", 242, 1), Hole>>
    [] b.url = "aadt1" /\ b.version = 1 -> <<Station(1, 48, 1), Station(2, 42, 1), Station(3, Null, 1)>>
    [] b.url = "aadt1" -> <<Station(1, 48, NoYear)>>
    [] b.url = "aadt2" /\ b.version = 1 -> <<Station(4, 44, 1), Station(5, 30, 2)>>
    [] OTHER -> <<>>

\* The second page comes to promise itself again: where MaxPages stops.
MCNextPage(b) == CASE b = Body("aadt1", 1) \/ b = Body("aadt2", 2) -> "aadt2" [] OTHER -> NoUrl

Step(source, url, market) == [source |-> source, url |-> url, market |-> market]
TrafficPlan == <<Step("traffic", "aadt1", "houston"), Step("traffic", "aadt2", "dallas")>>
CensusPlan == <<Step("census", "census", NoMarket), Step("employment", "ces", "houston")>>
\* The county of mesa is off the allowlist of the client the runs share.
RollPlan == <<Step("roll", "mesa", NoMarket), Step("costar", NoUrl, NoMarket), Step("roll", "roll", NoMarket)>>
MCPlansOf(r) == IF r = r1 THEN {TrafficPlan, RollPlan, CensusPlan} ELSE {<<TrafficPlan[1]>>}

MCMarketOfGeo(g) == IF g \in {"houston", "dallas"} THEN g ELSE NoMarket
MCMarketOfCounty(c) == IF c = "harris" THEN "houston" ELSE NoMarket
=============================================================================
