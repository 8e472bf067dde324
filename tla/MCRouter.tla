------------------------------ MODULE MCRouter ------------------------------
(* Small instances of Router: two vendors, of which the first is Inception,
   a chain of two candidates.  Windows are one or two ticks, the hour of an
   empty account three or four.                                             *)
EXTENDS Router

CONSTANTS c1, c2, inception, openai, mercury, gpt, mini

OneCaller   == {c1}
TwoCallers  == {c1, c2}
TwoVendors  == {inception, openai}
Inception   == {inception}
TwoModels   == {mercury, gpt}
ThreeModels == {mercury, gpt, mini}

OfTwo   == mercury :> inception @@ gpt :> openai
OfThree == mercury :> inception @@ gpt :> openai @@ mini :> openai

ListsTwo   == inception :> {mercury} @@ openai :> {gpt}
ListsThree == inception :> {mercury} @@ openai :> {gpt, mini}

GptFirst     == <<<<gpt>>, <<mercury>>>>
\* A query over a vendor's models, then Inception.
QueryFirst   == <<<<gpt, mini>>, <<mercury>>>>

AsDeclared   == {<<1, 2>>}
EitherOrder  == {<<1, 2>>, <<2, 1>>}

OneThenTwo == <<1, 2>>
JustOne    == <<1>>
NoWait     == {}
ShortWait  == {1}

Symmetry == Permutations(TwoCallers)
=============================================================================
