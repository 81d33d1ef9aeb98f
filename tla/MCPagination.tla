---------------------------- MODULE MCPagination ----------------------------
(* Requests and servers for the runs of Pagination. *)
EXTENDS Pagination

Request(methods, decoys, heeds, bases, starts, limits) ==
  [method : methods, forced : Strategies \cup {"auto"},
   style : {"link", "plain"} \cup ToSet(FieldKeys), decoy : decoys, heeds : heeds,
   basePath : bases, start : starts, limit : limits, cap : 1..2, total : 0..5]

\* A strategy with the server it is made for.  Offsets start at 0 and ask for
\* no more than a page: for others the offset strategy is known not to work.
Fits(s) ==
  /\ s.forced = "link" => s.style = "link"
  /\ s.forced = "cursor" => s.style \in ToSet(FieldKeys)
  /\ s.forced \in {"offset", "page"} => s.style = "plain"
  /\ s.forced = "offset" => s.start = 0 /\ s.limit <= s.cap
  /\ s.forced = "page" => s.limit = 0 /\ s.start % s.cap = 0
  /\ s.basePath => s.style = "link"
  /\ s.start <= s.total

Heeding == {s \in Request({"GET", "POST"}, {FALSE}, {TRUE}, BOOLEAN, {0, 1, 2}, {0, 1, 3}) : Fits(s)}

\* Servers that answer every request with their first page, some with an empty
\* cursor field before the one that counts.
Deaf == {s \in Request({"GET"}, BOOLEAN, {FALSE}, {FALSE}, {0}, {0, 1}) : Fits(s)}

MCSetups == Heeding \cup Deaf
Local == {s \in Heeding : ~s.basePath}
=============================================================================
