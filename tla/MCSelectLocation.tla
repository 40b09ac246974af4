-------------------------- MODULE MCSelectLocation --------------------------
(* Values of the constants of SelectLocation that a cfg cannot write: two   *)
(* countries that share a city code, one more city and one more relay than  *)
(* the id tables hold, and a query for each way a row can match.            *)
EXTENDS SelectLocation

MCRadio == [Country |-> <<"CountryRadio1", "CountryRadio2">>,
            City |-> <<"CityRadio1", "CityRadio2">>,
            Relay |-> <<"RelayRadio1", "RelayRadio2">>]
MCChevron == [Country |-> <<"CountryChevron1", "CountryChevron2">>,
              City |-> <<"CityChevron1", "CityChevron2">>]

MCCountryTexts == <<{<<"s", "e">>}, {<<"u", "s">>}>>
MCCityTexts ==
    [city \in {<<1, 1>>, <<1, 2>>, <<2, 1>>} |->
       IF city = <<1, 1>> THEN {<<"b">>} ELSE {<<"m">>}]

Host(name) == <<name, "-", "w", "g", "-", "1">>
Relay(country, city, name) == [country |-> country, city |-> city, host |-> Host(name)]

Gothenburg == Relay(1, 1, "a")
Malmo == Relay(1, 2, "b")
Gary == Relay(2, 1, "c")

MCRelayLists == {<<Gary, Malmo, Gothenburg>>, <<Gary, Malmo>>}

\* "b" names the city of Gothenburg, and is in one hostname of Malmo.
MCQueries == {<<>>, <<"b">>}
MCLetters == {"b"}

\* The examples in the comment of hostname_matches (tree.rs:114).
Got == <<"s", "e", "-", "g", "o", "t", "-", "w", "g", "-", "0", "0", "1">>
ASSUME ~hostname_matches(Got, <<"w", "g">>)
ASSUME hostname_matches(Got, <<"g", "o", "t", "-", "w", "g">>)
ASSUME hostname_matches(Got, <<"w", "g", "-", "0", "0", "1">>)
ASSUME hostname_matches(Got, <<"0", "0", "1">>)

Unset == Location("Any", 0, 0, <<>>)
Value(exit, entry, multihop, daita) ==
    [exit |-> exit, entry |-> entry, multihop |-> multihop, daita |-> daita]

MCSettings ==
    {Value(OfRelay(Malmo.host), Unset, FALSE, FALSE),
     Value(OfRelay(Malmo.host), OfCity(2, 1), TRUE, FALSE),
     Value(OfRelay(Malmo.host), OfCountry(2), TRUE, TRUE)}
=============================================================================
