---------------------------- MODULE MCWordLists ----------------------------
(* WordLists on small instances, with real words and domains. *)
EXTENDS MessageScan

CONSTANTS a, b, c, i1, i2, w1, w2

ThreeWords == {a, b, c}
TwoInstances == {i1, i2}
TwoWorkers == {w1, w2}

(* Messages are in capitals as far as the second letter goes. *)
SmallLetters == {"a", "b"}
Capitals == [k \in {"B"} |-> "b"]
TextSymbols == {"a", "B", "-"}

(* Two letters, taken as they are; three, misspelt once; four, misspelt twice. *)
Spellings ==
  [w \in ThreeWords |-> CASE w = a -> <<"a", "-", "a">>
                         [] w = b -> <<"a", "B", "-", "b">>
                         [] w = c -> <<"b", "a", "a", "b">>]
(* b, a.aB and ab.a; hosts such as ab and b.ab are below none of them. *)
Domains ==
  [w \in ThreeWords |-> CASE w = a -> << <<"b">> >>
                         [] w = b -> << <<"a">>, <<"a", "B">> >>
                         [] w = c -> << <<"a", "b">>, <<"a">> >>]
HostLabels == {<<"a">>, <<"B">>, <<"a", "b">>}

Symmetry == Permutations(TwoWorkers)
=============================================================================
