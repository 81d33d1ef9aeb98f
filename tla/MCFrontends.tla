----------------------------- MODULE MCFrontends ----------------------------
(* Documents in which paths overlap: literals against templates, two          *)
(* templates in one place, the same path twice, a tag that begins a path, ids *)
(* the parser generates twice, and parameters declared for a whole path; and  *)
(* one that the parser takes for an old one, which leaves nothing to serve.   *)
EXTENDS Frontends, Parser

mc_Templates == {"{id}", "{name}"}
mc_Segments == mc_Templates \cup {"", "pets", "mine", "id", "7", "12345678", "a%2Fb"}
mc_Decoded == [s \in mc_Segments |-> IF s = "a%2Fb" THEN "a/b" ELSE s]
mc_LowerCase ==
  [m \in {"GET", "PUT", "POST", "DELETE", "HEAD"} |->
     CASE m = "GET" -> "get" [] m = "PUT" -> "put" [] m = "POST" -> "post"
       [] m = "DELETE" -> "delete" [] m = "HEAD" -> "head"]
mc_Words ==
  [s \in mc_Segments |->
     CASE s = "" -> << >> [] s = "{id}" -> <<"id">> [] s = "{name}" -> <<"name">>
       [] OTHER -> <<s>>]

Parameter(name, in) == [name |-> name, in |-> in]
ById == {Parameter("{id}", "path")}

Op(method, id, parameters, body) ==
  [method |-> method, id |-> id, tag |-> "pets", parameters |-> parameters, body |-> body]
Item(path, parameters, operations) ==
  [path |-> path, parameters |-> parameters, operations |-> operations]
Doc(paths) == [paths |-> paths, mentionsSwagger |-> FALSE]

Get(parameters) == Op("GET", "", parameters, FALSE)
Named(id) == Op("GET", id, {}, FALSE)

mc_Raw ==
  {Doc(<<Item(<<"pets", "{id}">>, {}, <<Get(ById)>>),
         Item(<<"pets", "{name}">>, {}, <<Get({Parameter("{name}", "path")})>>),
         Item(<<"pets", "id">>, {}, <<Get({})>>),
         Item(<<"pets", "mine">>, {}, <<Get({})>>)>>),
   Doc(<<Item(<<"{id}", "mine">>, {}, <<Op("GET", "any", ById, FALSE)>>),
         Item(<<"pets", "{id}">>, {}, <<Get(ById), Op("PUT", "", ById, TRUE)>>),
         Item(<<"">>, {}, <<Named("home")>>)>>),
   Doc(<<Item(<<"pets">>, {},
              <<Get({Parameter("limit", "query")}), Op("POST", "", {}, TRUE),
                Op("PUT", "", {}, TRUE)>>),
         Item(<<"pets">>, {}, <<Named("list")>>)>>),
   Doc(<<Item(<<"pets", "{id}">>, ById,
              <<Op("HEAD", "peek", ById, FALSE), Op("DELETE", "drop", {}, FALSE)>>),
         Item(<<"pets", "mine">>, {}, <<Get({})>>),
         Item(<<"mine">>, {}, <<Named("mine")>>)>>),
   [Doc(<<Item(<<"pets">>, {}, <<Get({})>>)>>) EXCEPT !.mentionsSwagger = TRUE]}

mc_Documents == {Parse(d) : d \in {r \in mc_Raw : ~Unsupported(r)}}

mc_Operation == UNION {{d[i] : i \in 1..Len(d)} : d \in mc_Documents}

mc_Requests ==
  [method : {"GET", "DELETE"},
   path : {<<"">>, <<"pets">>, <<"pets", "mine">>, <<"pets", "a%2Fb">>,
            <<"pets", "12345678">>, <<"7", "mine">>}]

\* JSON values, by what was typed for them.
Text(s) == [is |-> "string", typed |-> s]
Number(s) == [is |-> "number", typed |-> s]

mc_Values ==
  {Text("mine"), Text("a%2Fb"), Text("12345678"), Number("7"), Number("12345678")}
mc_Printed ==
  [v \in mc_Values |-> IF v = Number("12345678") THEN "1.2345678e+07" ELSE v.typed]
mc_Arguments ==
  {<< >>} \cup [{"{id}"} -> mc_Values] \cup [mc_Templates -> {Text("a%2Fb")}]
=============================================================================
