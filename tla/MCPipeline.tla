----------------------------- MODULE MCPipeline -----------------------------
(* Small instances of Pipeline for TLC. *)
EXTENDS Pipeline, TLC

CONSTANTS p1, p2

NoFields == [f \in {} |-> f]
Scalar(kind, text, whole) ==
  [kind |-> kind, text |-> text, whole |-> whole, items |-> << >>, fields |-> NoFields]
Array(text, items) ==
  [kind |-> "array", text |-> text, whole |-> FALSE, items |-> items, fields |-> NoFields]
Object(text, fields) ==
  [kind |-> "object", text |-> text, whole |-> FALSE, items |-> << >>, fields |-> fields]

Null == Scalar("null", "<nil>", FALSE)
True == Scalar("boolean", "true", FALSE)
One == Scalar("number", "1", TRUE)
Half == Scalar("number", "0.5", FALSE)
Million == Scalar("number", "1e+06", TRUE)
Rex == Scalar("string", "Rex", FALSE)
OneText == Scalar("string", "1", FALSE)
Tags == Array("[Rex 1]", <<Rex, OneText>>)
MixedTags == Array("[Rex 1]", <<Rex, One>>)
Bare == Object("map[]", NoFields)
Pet == Object("map[name:Rex tags:[Rex 1]]", [name |-> Rex, tags |-> Tags])
PetMixed == Object("map[name:Rex tags:[Rex 1]]", [name |-> Rex, tags |-> MixedTags])
PetNoName == Object("map[tags:[Rex 1]]", [tags |-> Tags])
Order == Object("map[pet:map[tags:[Rex 1]]]", [pet |-> PetNoName])

MCValues == {Null, True, One, Half, Million, Rex, OneText, Tags, MixedTags, Bare, Pet,
             PetMixed, PetNoName, Order}

Entry(text, v) == [text |-> text, denotes |-> v]
Typed(types) == [types |-> types, enum |-> {}, required |-> {}, props |-> NoFields, items |-> {}]

Anything == Typed(<< >>)
Text == Typed(<<"string">>)
Number == Typed(<<"number">>)
Whole == Typed(<<"integer">>)
Flag == Typed(<<"boolean">>)
NullOrText == Typed(<<"null", "string">>)
TextOrNull == Typed(<<"string", "null">>)
Names == [Text EXCEPT !.enum = {Entry("Rex", Rex), Entry("1", OneText)}]
Numbers == [Number EXCEPT !.enum = {Entry("1", One), Entry("1000000", Million)}]
NumberOne == [Number EXCEPT !.enum = {Entry("1", One)}]
OneOfAny == [Anything EXCEPT !.enum = {Entry("1", One)}]
TextArray == [Typed(<<"array">>) EXCEPT !.items = {Names}]
PetSchema == [Typed(<<"object">>) EXCEPT
                !.required = {"name"}, !.props = [name |-> Text, tags |-> TextArray]]
UntypedPet == [PetSchema EXCEPT !.types = << >>]
OnlyRequired == [Anything EXCEPT !.required = {"name"}]
OrderSchema == [Typed(<<"object">>) EXCEPT !.props = [pet |-> PetSchema, of |-> OneOfAny]]

MCSchemas == {Anything, Text, Number, Whole, Flag, NullOrText, TextOrNull, Names, Numbers,
              NumberOne, OneOfAny, TextArray, PetSchema, UntypedPet, OnlyRequired, OrderSchema}

Ask(entry, method, schemas, body) ==
  [entry |-> entry, method |-> method, schemas |-> schemas, body |-> body]
Get == Ask("handler", "GET", {}, Empty)
GetDirect == Ask("direct", "GET", {}, Empty)
Post == Ask("handler", "POST", {PetSchema}, Pet)

Both(a, b) == p1 :> a @@ p2 :> b

\* Requests that share the limiter; and every body against every schema, with a
\* refused request on the side.
MCWorkloads ==
  {Both(Get, Get), Both(Get, Post), Both(Get, GetDirect)}
  \cup {Both(Ask("handler", "POST", {s}, v), Ask("handler", "POST", {Text}, Malformed)) :
          s \in MCSchemas, v \in MCValues \cup {Empty, Malformed}}
=============================================================================
