----------------------------- MODULE MCExecutor -----------------------------
(***************************************************************************)
(* A small instance of Executor: a collection /pets, its item "1,2" and    *)
(* what is below that item.  A write changes its URL and the one above.    *)
(* The item is plainly spelled and its toys are not: the parent of         *)
(* /pets/1%2C2/toys is /pets/1,2, which is in no key.                      *)
(***************************************************************************)
EXTENDS Executor, TLC

CONSTANTS c1, c2

pets == <<"/", "pets">>
pet == pets \o <<"/", "1", "%2C", "2">>
toys == pet \o <<"/", "toys">>
MCGets == {pets, pet}
MCWrites == {pet, toys}
MCAffects == (pets :> {pets} @@ pet :> {pets, pet} @@ toys :> {pet, toys})
ClientSymmetry == Permutations(Clients)

\* The parent of a URL is its path less the last segment, whatever slashes it
\* ends in, and none when one segment is left; but the parent of the item
\* "1/2" of /pets is its piece "1".
ASSUME Parents ==
  /\ ParentPath(pet) = pets /\ ParentPath(pet \o <<"/">>) = pets
  /\ ParentPath(pets) = None /\ ParentPath(pets \o <<"/">>) = None
  /\ ParentPath(toys) = pets \o <<"/", "1", ",", "2">>
  /\ Containing(ParentPath(toys)) = {} /\ Containing(Above(toys)) = {pet, toys}
  /\ ParentPath(pets \o <<"/", "{", "id", "}", "/", "toys">>)
       = pets \o <<"/", "%7B", "id", "%7D">>
  /\ ParentPath(pets \o <<"/", "1", "%2F", "2">>) = pets \o <<"/", "1">>
  /\ Plain = {pets, pet}
=============================================================================
